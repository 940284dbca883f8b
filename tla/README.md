# Specifications of the block-pipelined UDP file transfer

TLA+ modules for `secure_transfer`: a sender and a receiver that move one file
over UDP, repair what is lost block by block, and confirm each block over a TCP
control connection. TLC checks small instances, among them that the threads of
each peer implement the specification of its core, and the two peers together
an abstract one; TLAPS proves the safety properties and all three refinements,
for every file size, block size, pipeline depth, channel capacity, number of
workers and of faults, and order of events. Liveness is TLC's.

Line numbers refer to the files under `src/src/`.

## 1. The system

| Component | State | Operations | Interacts through | Hard part |
|---|---|---|---|---|
| Reader, encryption workers (`sender.rs` 492-566) | file position | read, encrypt | bounded channels | four workers reorder chunks |
| Relays (605-631) | none | forward chunk, forward ack | one unbounded channel | merge of two streams, shutdown |
| **Block manager** (647-876, with 202-436) | `block_states`, `open_slots`, `completed` | chunk, Missing, Complete, timeout, disconnection | events in, UDP out | any order of chunks and acks; slots; one-shot fallback |
| UDP receiver thread (`receiver.rs` 56-115) | none of its own | DATA, BLOCK_END | tracker, packet channel | loss, duplication, reordering |
| Decryption workers (126-158) | none | verify or drop | tracker, write channel | damaged and repeated packets |
| **Block tracker** (`transport.rs` 234-379) | `blocks`, `completed`, one mutex | touch_activity, mark_verified, mark_end_seen, ready_for_check, snapshot_and_tick, remove | shared by three kinds of threads | a late packet against a removal |
| **Ack manager** (`receiver.rs` 233-286) | sweep list, `completed` | Complete, give up, Missing | tracker, TCP | list taken under one lock and used under others |
| Writer (168-217) | `pending`, `next_chunk` | write in order | write channel, `run` | duplicates, holes, exit |
| Handshake (`sender.rs` 878-915, 1044-1054; `receiver.rs` 319-366) | key, nonce, counts | sequential exchange | TCP | width of the counts |

Compiled but unused: `SharedBlockCache`, `fileio.rs`, `network.rs`.
`handshake.rs` and `buffer_pool.rs` are not declared in `main.rs` and are not
part of the program. There are no tests in the repository.

What makes each part correct:

- *block manager*: no chunk lost or doubled; a block only moves forward
  (Unseen, Pending, Open, Resolved); the two counters agree with the map;
  BlockEnd after all data; never waits for something only it can bring about;
  Ok exactly when every block is resolved;
- *tracker and ack manager*: a completed block is never tracked again; the
  completion count is exact; the sweep list does not go stale; a Complete that
  is not a give-up means a verified block; every block is decided;
- *sender's threads*: a chunk is in one place from the reader to the manager;
  `send_file` returns, and its result names a cause; nothing is added to what
  the manager alone may do;
- *receiver's threads*: what is verified reaches the file; what `run` returns is
  true of the file; the bounded channels and the joins do not block each other;
- *together*: the sender can always resend what the receiver lacks; each ack
  finds its block open; memory of the receiver bounded by the pipeline; the
  transfer ends.

## 2. Modules

```
BlockArith <- Wire <- BlockManager  <- Transport
                   <- ReceiverState <-
                      ReceiverState <- RepairTimer
                   <- SenderPipeline      implements BlockManager
                   <- ReceiverPipeline    implements ReceiverState
BlockArith <- WindowedTransfer            implemented by Transport

Wire_proofs <- BlockManager_proofs  <- Transport_proofs <- WindowedTransfer_proofs
            <- ReceiverState_proofs <-
            <- SenderPipeline_proofs      instantiates BlockManager_proofs
            <- ReceiverPipeline_proofs    instantiates ReceiverState_proofs
            <- RepairTimer_proofs
```

An arrow is EXTENDS; "implements" is an INSTANCE with a refinement mapping and
the abstract specification as a PROPERTY of a run.

**BlockArith** - `block_of`, `chunk_id_of`, `packets_in_block`,
`total_blocks` (`transport.rs` 113-139) with their casts; `WordSize` stands for
2^32.

**Wire** - the messages (`protocol.rs`). `net` counts the copies of each
datagram in flight; delivery order is free. A loss, a duplication (a datagram
received while a copy stays in flight) and a damaged packet (`Reject` in
ReceiverState) each cost one of `MaxFaults`. `MaxCopies` bounds the copies of
one datagram: sending it again while that many are in flight adds none. `acks`
is the TCP stream plus the ack relay: a sequence, in order, without loss while
the connection lives. Payloads are left out.

**BlockManager** - `block_manager_loop` and its helpers. `slot` is the variant
of a block's entry in `block_states` (`"Unseen"` when there is none), `bucket`
the content of a Pending entry, `blk` that of an Open one; `quiet` is the time
since `last_ack_activity`, in ticks, capped at `StaleAfter`. One action is one
step of the loop:

| Code | Action |
|---|---|
| `drain_pending`, one turn of its loop | `DrainPending` |
| `Chunk` event, `admit_or_buffer` and its five arms | `AdmitOrBuffer`: `DropStale`, `PlaceIntoOpen`, `AppendToPending`, `OpenAndPlace`, `BufferNew` |
| `Ack(Missing)` | `OnMissing` |
| `Ack(Complete)` and its four arms | `OnComplete`: `CompleteOpen`, `CompleteUnopened` (Pending or Unseen), `CompleteAgain` |
| `Timeout`, `retransmit_stale_blocks` | `RetransmitStale` |
| `break` / `Disconnected` | `Return` / `Disconnected` |

`Waiting` is the guard of every event: nothing is left to drain and not all
blocks are resolved, as at the `recv_timeout`. The reader, the workers and the
chunk relay are abstracted to the set `chunks` of those not yet handled, taken
in any order: more orders than four workers can produce. The two streams share
an unbounded channel, so the choice between a chunk and the next ack is free.
On its own the module has an environment that may send any `BlockAck` for any
block at any time (`PeerAck`) and break the connection, losing a suffix of the
unread acks (`ControlLost`).

**ReceiverState** - the tracker and its threads. Each method of
`SharedReceiverState` is one critical section, so one action, or part of one;
`ready_for_check` (`AckPoll`), `snapshot_and_tick` with the ack it leads to
(`AckComplete`, `AckGiveUp`, `AckMissing`) and `remove` (`AckRemove`) are
separate steps, with every other thread in between. `packet_queue` is the
channel to the workers: how many copies of each packet they have yet to verify,
since four workers take packets in any order. An entry has both the bitmap
`received` and the counter `received_count`, which only the check in
`mark_verified` (`Marked`) keeps together; completeness is read off the counter,
what is missing off the bitmap.
`verified` is the set of chunks whose hash matched. `age` is the time since
`last_activity`, capped at `IdleTimeout`. `running` turns false when the UDP
thread has seen the flag that `run` clears. `gave_up` is a history variable.
Its own environment is a sender that has sent the file once and answers a
Missing with any subset of it.

**Transport** - both sides joined by `net` and `acks`. No operation of its own.

**WindowedTransfer** - what the two promise, without messages: a window of at
most `Depth` open blocks; a block is decided once, while it is open, because all
of it is delivered or because it is abandoned with a chunk missing; it is
resolved only after that, and only that makes room for another. `Transport`
implements it with `open`, `resolved` the blocks of the sender in that state,
`decided` those the receiver has completed or is closing, `delivered` the
verified chunks and `abandoned` the blocks given up.

**SenderPipeline** - `send_file` and its threads. A chunk goes from `read_queue`
through the hands of a worker (`job`) and `send_queue` to `events`; an ack from
the control stream (`acks`) to `events`. Reading a chunk and sending it is one
action, since nobody sees the chunk in between; a worker's taking and sending
are two. A send blocks while the channel is full and fails when its last
receiver is gone. That `send_file` itself keeps a receiver of the first channel
makes the reader's send block for good where another would fail. The joins are
actions in the order of the code; the first error is the result. What the
manager does with an event is the action of BlockManager: `B` is an instance in
which `chunks` are those not yet handled. Acks keep their order on the way from
the wire to the manager, so what they say stays in `acks` until they are handled:
`events` holds an `AckEvent` for each of the first `Relayed` of them, and only
its place among the chunks matters. `silent` are the blocks of which the
network loses the whole first transmission: the receiver answers for them only
after the fallback.

**ReceiverPipeline** - `run` after the handshake, with its threads. A packet goes
from the UDP thread (`udp_packet`) through `packets` to a worker (`job`), and its
chunk through `write_queue` to the writer. The worker reports the chunk to the
tracker (`Verify`) before it sends it (`SendChunk`, or `SendFails` when the
writer is gone). `pending` and `next_chunk` are the writer's reorder buffer;
a repeated chunk stays in `pending`, as in the code. `R` is an instance of
ReceiverState in which the workers' queue is whatever was received and not yet
verified (`Unverified`), in the channel, with the UDP thread or with a worker. `io_faults` counts the errors of sockets and files,
which `MaxFaults` bounds together with those of the network.

**RepairTimer** - the receiver's timers with the values of `config.rs`, one tick
a millisecond. It drives the sweep of ReceiverState (`Ready`, `Required`,
`Snapshot`, `OutOfRounds`) for one block that lacks one packet (`lost`); time
passes only when nothing can happen. The sleep of the ack manager is taken to
last 2 ms exactly, with either phase. The datagrams of `net` play no part: every
Missing is answered, as in the code, by a repair that arrives `rtt` later, or is
lost if it is requested during the outage. `due` holds the arrivals still to
come. With a round trip above the waits there are many: the first delivers the
packet, each later one is a repeat that starts the timer of the complete block
again until the block is removed (`touch_activity`). The sender's whole-block
fallback cannot come in between, since it needs 2 s without an ack for the block
and there is a Missing at least every 100 ms.

## 3. Runs

All runs use `WordSize = 8`; the word is wider than any id of the instance, as
2^32 is for a file whose chunk count the sender could announce.

| Run | Instance | Question |
|---|---|---|
| `mgr_safety` | 5 chunks, blocks of 2 (the last of 1), depth 2, one ack queued, fair | is the manager's bookkeeping exact under any acks and a broken connection, is a freed slot refilled, can chunks ahead of the pipeline block it? |
| `snd_pipeline` | 3 chunks, blocks of 2, depth 1, 2 workers, channels of 1, fair | do the threads implement the manager, does `send_file` return, and is its result true? |
| `rx_safety` | 3 chunks, blocks of 2, one fault, one repair round | do the receiver's threads disagree about a block? |
| `rx_resolves` | 2 chunks, one block, two faults, fair | is every block the receiver knows decided? |
| `rcv_pipeline` | 2 chunks, one block, 2 workers, channels of 1, one fault or I/O error, fair | do the threads implement the tracker, does what is verified reach the file, is what `run` returns true? |
| `transfer_loss` | 2 blocks of 1, depth 1, one fault, one copy, fair | do acks find their blocks open; is the receiver's memory bounded; does the transfer end? |
| `transfer_repair` | 3 chunks, blocks of 2, depth 1, impatient timers | can what is missing always be resent; is the whole one moving window? |
| `transfer_ends_loss` | 1 block, three faults, three copies, fair | does the transfer survive them? |
| `repair_timer` | the constants of `config.rs`, 35 paths, BlockEnd lost or not | how long does the receiver really try? |

Why these bounds are enough to see the interesting cases: three blocks and two
slots give open blocks, a pending one and one that is completed before it is
opened (at depth 1 `PendingMeansFull` would say nothing); a short last block separates `total` from `PACKETS_PER_BLOCK`; one ack
queued at a time still comes in any order with the chunks. One retry round lets
the ack manager repair and give up; ticks that pass freely let every timer fire
early or late, so that a Missing crosses the data it asks for even without a
fault. `transfer_repair` has none for that reason; loss is in `transfer_loss`
and `transfer_ends_loss`. Channels of one fill up, which those of the code (2048
packets) do when a thread stalls. That `read_queue` takes the rest of the file when
all workers are gone is not tested by `snd_pipeline`: they go only after the
manager has seen a chunk of every block, and its last block has no other. In the
code up to 255 packets may be left, which the channel of 2048 holds. Two workers reorder
and leave one by one. In `repair_timer` the round trips and outages lie on both
sides of 1.3 s and 5.1 s. What a run with `MaxFaults` faults shows, it shows
for that many and no more; section 5 says where one more is fatal.

### Properties

- `MgrTypeOK`, `RxTypeOK`, `SpTypeOK`, `RpTypeOK` - the type invariants. They
  bound the `sent` counter by the block, the rounds by `MAX_BLOCK_RETRY_ROUNDS + 1`
  and the channels by their capacity.
- `SlotAccounting` - `open_slots` and `completed` against the map;
  `open_slots -= 1` cannot wrap.
- `ChunkConservation` - each chunk of an unresolved block is to come, buffered
  or cached, in exactly one of the three.
- `BlockEndAssert`, `EndAfterData` - the assertion of `place_chunk`, and its
  purpose seen from the wire.
- `ForwardOnly` - no step moves a block back.
- `PendingMeansFull`, `ManagerReturns` - the two halves of what the comments of
  `drain_pending` promise.
- `ReturnIsHonest` - Ok with every block resolved, Err only with the control
  connection gone.
- `NoResurrection`, `CountExact` - what the comment at `transport.rs` 197-233
  says was once wrong.
- `SweepIsLive` - the stale list of `ready_for_check`.
- `AckedDataSafe`, `ResolvedIsVerified` - an announced or resolved block that
  was not given up was verified in full.
- `TrackedIsResolved` - decided in the end.
- `AcksWelcome` - the warning arms of the manager are never taken in a real
  transfer.
- `RepairPossible` - the receiver never lacks what the sender has dropped.
- `TrackedBounded` - at most one entry more than the pipeline depth, while a
  block is being closed.
- `TransferEnds` - the sender resolves every block and the receiver's UDP
  thread stops.
- `ImplementsWindowedTransfer` - the two peers implement the abstract
  specification; among others, a block is abandoned only while a chunk of it is
  unverified, and never after the sender closed it.
- `ReadIsKept` - no chunk is lost or doubled between the reader and the manager.
- `ResultIsHonest` - Ok of `send_file` for a file read to its end with every
  block resolved; Err for a reader that failed, a connection that broke too
  early, or a block the receiver completed before all of it was handed over. The
  last is a race in the code: `send_file` returns Ok if the chunks left over had
  passed the workers, and Err if a worker still held one.
- `ImplementsBlockManager`, `ImplementsReceiverState` - channels, relays,
  threads that leave and joins add nothing to what the cores may do.
- `SendFileReturns` - no circle of waiting, and the fallback comes although the
  traffic of other blocks postpones it. At depth 1 that traffic is chunks, since
  only the open block is acked.
- `VerifiedIsKept` - between `mark_verified` and the file no chunk is lost,
  unless the writer failed.
- `OkMeansWritten` - Ok of `run` means a file written up to its end, or up to
  the first chunk nobody verified of a block that was given up. It is not more:
  behind such a hole nothing is written, and SUCCESS is printed.
- `ErrHasCause` - without an I/O error, Err of `run` comes with a complete
  file: a repeat was verified after the writer had left.
- `ReturnsWhileWorkersLive` - `run` returns unless every worker has ended that
  way, or the UDP thread with a socket error.
- `RepairBudget` - how long the receiver takes to decide. `RepairTime` is the sum
  of the waits before its sweeps, 1.3 s, or 5.1 s without a BlockEnd. A repair
  that takes `rtt` from requests that get through after `outage` saves the block
  if the two, the longest wait for the next request and one poll fit in
  `RepairTime`. A block is given up when `RepairTime` is over, each wait rounded
  up to a poll. A Complete may come much later: it waits for the last repair that
  was asked for in vain (`LastRequest + rtt`) and the first wait after that, since
  every repeat starts the timer again. With a round trip of 4990 ms and a lost
  BlockEnd the packet is there after 5.1 s and its Complete is sent after 10.1 s.
  No path puts the decision off beyond twice the `RepairTime`.

### Fairness

Weak fairness of each thread: the manager's loop, the receiver thread (a
datagram in flight is received unless it is lost; each loss is counted), the
workers and the ack manager run whenever they can, since they are OS threads
that only ever block on channels or sockets. Clocks advance (`SndTick`,
`RcvTick`). `RetransmitStale` is fair because the manager's `recv_timeout`
comes back every 200 ms when no event does. In `Transport` that pause is taken
for granted; in `SenderPipeline` the timeout is possible only while `events` is
empty, and weak fairness of the manager alone gives it, since the other blocks
are completed in the end and the events with them. In `mgr_safety` and
`snd_pipeline` the environment's answer to a block that was sent in full is
strongly fair: it is the promise of a receiver that is alive, and it need not
hold while the ack queue of the model is full. In the pipelines each thread, the
joins and the clock are weakly fair; errors are not. No fairness is
assumed of faults, of `Reject`, of `PeerAck` otherwise, of `ControlLost` or of
`Disconnected` in the composed system.

The deadlock check is off where the system may stop: the receiver's own runs and
the pipelines end when their threads have, `repair_timer` when its block is
decided, and in `transfer_stall` and `rcv_hang` the system hangs, which is what
they show.

## 4. Proofs

`Wire_proofs`: `FrameOfChunk` and `ChunkOfFrame`, `block_of` and `chunk_id_of`
are inverse bijections between the chunks of a file and the frames of its blocks,
and no u32 wraps, for every positive block size and every chunk count below the
word size (`FitsWord`). From them it draws that a file's blocks are finitely many
and none is empty, and that as many packets as a block has are all of them
(`FullBlock`). It also has what the other proofs keep needing: what sending,
receiving and losing do to `net`; what `Append` and `Tail` do to the number of
times something is in a channel (`CountAppend`, `CountTail`) and a step of one
thread to what the threads have in hand (`InHandChanges`); and that a set of
numbers has a least element (`LeastElement`), which stands in for induction.

`BlockManager_proofs`: for `MgrSpec`, hence for any acks whatsoever.

1. `Good(b, ...)` says of one block what its entry may look like: a bucket only
   in a Pending entry, a `BlockState` only in an Open one, each packet of the
   block either to come or held there, `sent` the number of cached packets,
   BlockEnd emitted exactly when the count is full.
2. `IInv` is the type invariant, `SlotAccounting`, `Good` of every block,
   `PendingMeansFull` and `ReturnIsHonest`. `SlotAccounting` and the type
   invariant are not inductive alone: that `sent` stays within a block needs
   that no chunk comes twice, which is what `Good` keeps.
3. A lemma per change of an entry (`GoodPlace`, `GoodOpen`, `GoodBuffer`,
   `GoodDrain`, `GoodResolve`, `GoodTimer`), lifted to all blocks by `OneBlock`;
   one step lemma per action; `StepInv`, `Invariance`.
4. The theorems `TypeCorrect`, `SlotsAccounted`, `ChunksConserved`,
   `AssertHolds`, `PipelineKeptFull`, `ReturnHonest` and, for the action
   property, `BlocksMoveForward`.
5. `EndFollowsData`: `EndAfterData` becomes inductive with `CachedSent` (what is
   cached has been sent) and `IInv`.

`ReceiverState_proofs`: for `RxSpec`, hence for any datagrams of the file in any
order and number.

1. `RcvInv` speaks of the receiver's variables only. `TrackerGood` says of each
   entry that its `total` is its block's, that its `received` packets are packets
   of the block whose chunks are all in `verified`, that `received_count` is their
   number (`MarkedGood`: a packet counts once, however often it is verified), and
   that only an entry being closed is out of rounds; `QueueGood` that the workers' queue holds data
   packets of the file; `SweepGood` that at most one block is being closed.
   With them `CountExact`, `AckedDataSafe` and `SweepIsLive` are inductive:
   a counter alone does not say which packets it counted, so `IsComplete` gives
   `AckedDataSafe` only through `FullBlock`.
2. `UpsertStep` covers the three updates by the UDP thread and the workers;
   `StartCheckFacts` and `CloseStep` the ack manager's decision; `AckRemoveStep`
   and `StopReceivingStep` the counter.
3. The theorems `RxTypeCorrect`, `NeverResurrected`, `CounterExact`,
   `SweepStaysLive`, `AckedIsVerified`.

`Transport_proofs`: for `Spec`. Each peer's invariant holds in the whole
transfer, since neither depends on what the other does beyond the types of the
messages (`PeerKeepsManager`, `RcvStutter`). What joins them is `Decided`: a
Complete on its way, or already handled, is for a block the receiver has decided
on. It follows that what the sender resolved is decided and, unless given up,
verified (`ResolvedVerified`), and that Ok means every chunk verified but for
the blocks given up (`OkMeansVerified`).

`WindowedTransfer_proofs`: for `Spec`, what needs an invariant of the messages
and of both peers' tables at once. None of its theorems follows from the peers'
own invariants: whether an ack finds its block open depends on every datagram
that may have made the receiver track the block.

1. `MsgInv` adds to `TransferInv` that every datagram on the wire, every packet
   in the workers' queue and every block the receiver tracks or has completed is
   of a block the sender has opened (`MessagesBegun`); that a verified chunk is
   marked in its entry for as long as the block is not completed
   (`VerifiedIsMarked`); and `AcksWelcome`, which is inductive with these.
2. The lemma they are for is `TrackedIsOpen`: a block that is tracked and not
   being closed is open at the sender. It was begun (`MessagesBegun`), and not
   resolved, since that takes a decision (`Decided`), which takes the block off
   the table for good (`NoResurrection`).
3. `SenderMoves`, `SenderKeeps` and `SenderSends` say what a step of the manager
   does to its blocks and to the wire; `TablesKeep`, applied to every action by
   `ReceiverTables`, what a step of the receiver does to its tables;
   `AckWritten` and `AckTaken` keep `AcksWelcome`.
4. The theorems `AcksAreWelcome`, `RepairsArePossible`, `TableIsBounded` and
   `WindowImplemented`, the refinement. Its two hard steps are in `CheckWindow`:
   a complete entry means a block verified in full (`CompleteEntry`, as for
   `AckedDataSafe`), and an incomplete one means that some chunk is not verified
   yet, which is what `VerifiedIsMarked` is for.

`SenderPipeline_proofs`: for `SpSpec`, any number of workers and any capacities.

1. `StepSimulates`: under the types of the channels and `JobsMatch` (a worker has
   a chunk in hand exactly while it waits to send it) each step of a thread is a
   step of BlockManager or leaves it alone. The manager's invariant `IInv` is
   therefore one of the pipeline (`ManagerKept`), by way of an instance `M` of
   `BlockManager_proofs`; `SameManager` says that `M` and the `B` of the model are
   the same specification.
2. `ReadIsKept` is not inductive: it says nothing once the manager has left, yet
   the cause of an Err then lies in the chunks nobody handles. `ChunksKept` says
   that a chunk is never in two places, and in exactly one while the manager runs;
   `ThreadsGood` that a worker fails only when the manager is gone and the chunk in
   its hand was never handled; `RunGood` in which order `send_file` has seen the
   threads end. There is a lemma for each thread's steps; the number of places a
   chunk is in changes as `CountAppend`, `CountTail` and `InHandChanges` say.
3. The theorems `SpTypeCorrect`, `ReadKept`, `ResultHonest` and
   `PipelineImplementsManager`.

`ReceiverPipeline_proofs`: for `RpSpec`, in the same way.

1. Refinement: `UdpSimulates` and `WorkerSimulates` map each step to one of
   ReceiverState. What has to be shown is what the step does to the number of
   copies of each packet that wait for verification, wherever they are
   (`RecvDataQueues`, `PushPacketQueues`, `TakePacketQueues`, `VerifiedQueues`).
   The tracker's invariant `RcvInv` follows by the instance `T` of
   `ReceiverState_proofs` (`TrackerKept`).
2. `WriterGood`: what is written or on its way is verified, nothing verified is
   missing there (`VerifiedIsKept`), the writer holds back what follows a hole, and
   it leaves only with the last chunk or after the last worker. `ErrorsGood`: a
   thread that ended with an error met an I/O error or a complete file. `RunGood`:
   the flag is cleared after the ack manager has returned, and the joins follow
   the order in which the threads can leave.
3. The theorems `RpTypeCorrect`, `NoVerifiedChunkLost`, `OkIsHonest`,
   `ErrIsHonest`, `PipelineImplementsTracker`, and one that no run states:
   `CompleteUnlessGivenUp`, Ok of `run` without a block given up means that the
   whole file was verified and written. For `OkIsHonest` the first chunk that is
   not written (`OkHasNoHole`) lies in a block that is completed, since the flag
   was cleared, and was never verified, so its block was given up.

`RepairTimer_proofs`: `BudgetKept`, for `RtSpec` with any grace period, idle
timeout, poll tick, number of rounds, round trips and outages.

1. `SumsGrow` and `SumFacts`: what the recursive function `WaitsUpTo` computes, by
   least counterexamples. `SumsExist` gives the function its definition describes.
2. `Timer(base, ...)` says that the block's timer was started at `base` or before:
   while it runs its age shows it, and when it has run out a poll is within reach.
   That `now` stays below some bound is not inductive; `TimerTick` is the step of
   what is, and `TimerBound` the bound it gives. `RoundingFacts` adds up what the
   polls cost.
3. `RtInv`: while the packet is missing, at least the waits of the sweeps so far
   and the age of the timer have passed, and the timer was started no later than
   the last sweep may have been (`SweepBy`); once a request can get through, a
   repair is under way that arrives by `FirstRepairBy`, and none of those under
   way arrives after `LastRepairBy` (`WaitingGood`). After the first repair every
   arrival starts the timer again, so all that is known of it is that it was
   started no later than `LastRepairBy`; a Missing that crossed the repair is
   answered in time for that too (`DeliveredGood`). That a repair that can still
   arrive was requested before the last sweep, hence is not later than the sweep
   and `rtt`, gives the bound of twice the `RepairTime` (`LateFacts`).

Assumptions: `BlockArithAssumption`, `WireAssumption` (the chunk count fits the
word; this is what the u32 on the wire gives), `BlockManagerAssumption`
(positive depth, staleness and ack bound) and `ReceiverStateAssumption` (a
positive idle timeout, a grace period within it). The pipelines, which
instantiate their cores, assume the same of those constants and add positive
capacities and worker counts (`SenderPipelineAssumption`,
`ReceiverPipelineAssumption`), `RepairTimer` a positive poll tick and paths whose
times are numbers (`RepairTimerAssumption`). TLC evaluates them in every
run of their modules.

Only model-checked: all liveness (`ManagerReturns`, `SendFileReturns`,
`TrackedIsResolved`, `TransferEnds`, `ReturnsWhileWorkersLive`), which depends on
fairness and ENABLED and is beyond the prover. Every invariant, the action
property and the three refinements are proved. The refinements are of safety:
that the pipelines are also as live as their cores is not claimed.

## 5. Where the code and its comments disagree

Three are runs that TLC must find violated.

- `transfer_stall`: `receiver.rs` 229-231 and `config.rs` 71-74 say that no
  block can stall the transfer. If the first transmission of a block and the
  one-shot fallback are lost as a whole (four datagrams for a block of one
  packet), the receiver has never heard of the block and the sender has nothing
  left that would resend it.
- `rcv_hang`: `receiver.rs` 378-380 says of the bounded channels that the worst
  case is retransmission, "never a deadlock". A worker that verifies a repeat
  after the writer has left ends with an error. When the last worker has ended,
  nobody reads the packet channel any more; `run` still holds `packet_rx`, so
  the send of the UDP thread blocks instead of failing, and `run` joins that
  thread before the workers whose error it would report. Here the channel holds
  one packet and there is one worker; the code needs four late repeats and a
  channel that fills up before the flag is seen. An I/O error of the writer
  (a full disk) has the same effect without any repeat, and with the file
  incomplete.
- `repair_budget`: `config.rs` 79-82 computes 7.5 s of repairs per block, with a
  grace period of 150 ms. It is 1 ms: a block is given up after 1.33 to 1.36 s,
  or 5.1 s if its BlockEnd was lost (`RepairBudget`).

Others follow from what the models contain and need no run:

- `config.rs` 44-46 says the pipeline depth "bounds memory to a small constant
  regardless of file size". The event channel is unbounded and the manager
  buffers every chunk of a block that has no slot (`BufferNew`,
  `AppendToPending`).
- `receiver.rs` 164-167 says the same of the writer's `pending`. Behind a chunk
  that is never verified everything that follows collects there.
- `protocol.rs` 136 says a Complete means that every packet was received and
  verified. `AckGiveUp` sends it too.
- `transport.rs` 8-11 says that at most `PIPELINE_DEPTH` blocks are tracked by
  the receiver. Complete is written before the entry is removed, so the sender's
  next block may be tracked as well; `TrackedBounded` is what holds.
- `transport.rs` 12-13 ("never a whole block") predates the fallback of
  `retransmit_stale_blocks`; the model has the fallback.

## 6. Not modelled, and the plan

1. Proofs: what the pipelines inherit from their cores, stated for the threads
   (no resurrection, exact counts, BlockEnd after data), and the composition: each
   peer's pipeline in place of its core in `Transport`.
2. The two pipelines joined with each other. Each is checked against an
   environment that allows more than the other peer does, and each implements
   its core, which `Transport` composes; a run of both with all their threads is
   beyond TLC.
3. Frames that are not of the file: a datagram of somebody else, or one whose
   header was damaged on the way. `Wire` has the frames of the file only, with
   damage to the payload; the code does not check a `block_id`, and one beyond
   the last block would get an entry with `total` 0.
4. A file that changes its length between the announcement and its reading
   (`sender.rs` 1045): what the reader then sees is the operating system's
   matter. Nor is a `file.read` that returns less than a chunk before the end of
   the file (505), after which the chunks are more than were announced. A chunk count beyond 2^32 (1047) likewise is left to the assumption
   `FitsWord`.

The writer's flush after its last chunk (`receiver.rs` 214) is part of
`WriteChunk` or `WriterLeaves`; a worker that sends a repeat before the writer's
end of the channel is dropped is taken to have sent it before the last write, and
an error of the flush is a `WriterFails` in place of that write.

Left out for good: the handshake, a fixed sequence of reads and writes whose
errors end the process; the byte codecs, straight-line code; encryption and
hashing (pure functions; only the outcome of the hash comparison is seen);
statistics and log lines, socket options, the unused and undeclared files of
section 1.
