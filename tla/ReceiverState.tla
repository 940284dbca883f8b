---------------------------- MODULE ReceiverState -----------------------------
(***************************************************************************)
(* The receiver's block tracking (transport.rs: SharedReceiverState) and   *)
(* the three kinds of threads that share it through one mutex              *)
(* (receiver.rs): the UDP receiver thread, the decryption workers, and the *)
(* ack manager.  Every method of SharedReceiverState is one critical       *)
(* section, hence part of one action; a thread that calls two of them, as  *)
(* the ack manager does with snapshot_and_tick and remove, takes two.      *)
(***************************************************************************)
EXTENDS Wire

CONSTANTS
  Grace,        \* ticks for BLOCK_GRACE_PERIOD_MS
  IdleTimeout,  \* ticks for BLOCK_IDLE_TIMEOUT_MS
  MaxRounds     \* MAX_BLOCK_RETRY_ROUNDS

ASSUME ReceiverStateAssumption ==
  /\ IdleTimeout \in Nat \ {0}
  /\ Grace \in 0 .. IdleTimeout
  /\ MaxRounds \in Nat

VARIABLES
  rx_blocks,     \* ReceiverInner.blocks: the BlockRxEntry of each tracked block
  rx_completed,  \* ReceiverInner.completed
  packet_queue,  \* how many copies of each packet the workers have yet to verify
  verified,      \* chunks that passed verification; they are the writer's next
  ready,         \* blocks the ack manager has yet to check in this sweep
  closing,       \* the block whose Complete is written but which is not removed
  ack_completed, \* the ack manager's count of completed blocks
  running,       \* the UDP receiver thread is in its loop
  gave_up        \* history: the blocks force-completed after MaxRounds

trackVars == <<rx_blocks, rx_completed>>
ackVars   == <<ready, closing, ack_completed, gave_up>>
rcvVars   == <<trackVars, packet_queue, verified, ackVars, running>>
rxVars    == <<rcvVars, wireVars>>

(* BlockRxEntry::new: age is the time since last_activity, in ticks.       *)
NewEntry(total) ==
  [total |-> total, received |-> {}, received_count |-> 0, end_seen |-> FALSE,
   rounds |-> 0, age |-> 0]

Tracked == DOMAIN rx_blocks

(* blocks.entry(b).or_insert_with(..), then an update of the entry.        *)
EntryOf(b, total) == IF b \in Tracked THEN rx_blocks[b] ELSE NewEntry(total)

Put(b, entry) ==
  [x \in Tracked \cup {b} |-> IF x = b THEN entry ELSE rx_blocks[x]]

(* Mutant: the entry is inserted without a look at completed. *)
Upsert_unchecked(b, entry) ==
  /\ rx_blocks' = Put(b, entry)
  /\ UNCHANGED rx_completed

(* The common shape of touch_activity, mark_verified and mark_end_seen.    *)
Upsert(b, entry) ==
  /\ rx_blocks' = IF b \in rx_completed THEN rx_blocks ELSE Put(b, entry)
  /\ UNCHANGED rx_completed

RcvInit ==
  /\ rx_blocks = [b \in {} |-> NewEntry(0)]
  /\ rx_completed = {}
  /\ packet_queue = [d \in Datagrams |-> 0]
  /\ verified = {}
  /\ ready = {}
  /\ closing = {}
  /\ ack_completed = 0
  /\ running = TRUE
  /\ gave_up = {}

-------------------------------------------------------------------------------
(* The three updates of SharedReceiverState: by the UDP thread for a data  *)
(* packet, by a worker for a verified one, by the UDP thread for BlockEnd. *)

touch_activity(b, total) == Upsert(b, [EntryOf(b, total) EXCEPT !.age = 0])

(* Mutant: a packet that is verified again counts again. *)
Marked_again(e, p) ==
  IF p \in 0 .. e.total - 1
  THEN [e EXCEPT !.received = @ \cup {p}, !.received_count = @ + 1]
  ELSE e

(* What a verified packet does to its entry: only the first time it is     *)
(* verified does it count.                                                 *)
Marked(e, p) ==
  IF p \in 0 .. e.total - 1 /\ p \notin e.received
  THEN [e EXCEPT !.received = @ \cup {p}, !.received_count = @ + 1]
  ELSE e

(* Mutant: the worker that completes a block removes it by itself. *)
mark_verified_removes(b, p, total) ==
  LET entry == Marked(EntryOf(b, total), p)
  IN  IF entry.received_count = entry.total /\ b \notin rx_completed
      THEN /\ rx_blocks' = [x \in Tracked \ {b} |-> rx_blocks[x]]
           /\ rx_completed' = rx_completed \cup {b}
      ELSE Upsert(b, entry)

mark_verified(b, p, total) == Upsert(b, Marked(EntryOf(b, total), p))

mark_end_seen(b, total) ==
  Upsert(b, [EntryOf(b, total) EXCEPT !.end_seen = TRUE, !.age = 0])

-------------------------------------------------------------------------------
(* The UDP receiver thread.                                                *)

(* Mutant: a packet counts as received when it arrives, not when it is     *)
(* verified.                                                               *)
RecvData_marks ==
  /\ running
  /\ \E d \in InFlight :
       /\ d.tag = "DATA"
       /\ Receive(d)
       /\ mark_verified(d.block_id, d.packet_in_block, Total(d.block_id))
       /\ packet_queue' = [packet_queue EXCEPT ![d] = @ + 1]
  /\ UNCHANGED <<verified, ackVars, running, acks>>

RecvData ==
  /\ running
  /\ \E d \in InFlight :
       /\ d.tag = "DATA"
       /\ Receive(d)
       /\ touch_activity(d.block_id, Total(d.block_id))
       /\ packet_queue' = [packet_queue EXCEPT ![d] = @ + 1]
  /\ UNCHANGED <<verified, ackVars, running, acks>>

RecvBlockEnd ==
  /\ running
  /\ \E d \in InFlight :
       /\ d.tag = "BLOCK_END"
       /\ Receive(d)
       /\ mark_end_seen(d.block_id, d.total_packets)
  /\ UNCHANGED <<packet_queue, verified, ackVars, running, acks>>

-------------------------------------------------------------------------------
(* A decryption worker, on a packet whose checksum matches (Verify) or     *)
(* does not (Reject: a packet damaged on the way, counted as a fault).     *)
(* The chunk goes to the writer whether or not its block is completed, and *)
(* after mark_verified: nothing here waits for the writer to have it.      *)

InQueue == {d \in Datagrams : packet_queue[d] > 0}

TakePacket(d) ==
  /\ d \in InQueue
  /\ packet_queue' = [packet_queue EXCEPT ![d] = @ - 1]
  /\ UNCHANGED <<ackVars, running, net, acks>>

Verify ==
  \E d \in Datagrams :
    /\ TakePacket(d)
    /\ mark_verified(d.block_id, d.packet_in_block, Total(d.block_id))
    /\ verified' = verified \cup {chunk_id_of(d.block_id, d.packet_in_block)}
    /\ UNCHANGED faults

Reject ==
  /\ faults < MaxFaults
  /\ faults' = faults + 1
  /\ \E d \in Datagrams : TakePacket(d)
  /\ UNCHANGED <<trackVars, verified>>

-------------------------------------------------------------------------------
(* The ack manager.                                                        *)

(* Mutant: off by one. *)
IsComplete_most(e) == e.received_count + 1 >= e.total

IsComplete(e) == e.received_count = e.total

MissingIds(e) == (0 .. e.total - 1) \ e.received

(* Mutant: a block without BlockEnd is never checked. *)
Required_endOnly(e) ==
  IF e.end_seen THEN Grace ELSE IdleTimeout + 1

(* Mutant: the grace period does not grow with the rounds. *)
Required_fixed(e) == IF e.end_seen THEN Grace ELSE IdleTimeout

(* The wait ready_for_check requires of an entry: the grace period once    *)
(* BlockEnd was seen, growing with the rounds while packets are missing,   *)
(* and never more than the idle timeout.                                   *)
Required(e) ==
  IF ~e.end_seen THEN IdleTimeout
  ELSE IF IsComplete(e) THEN Grace
  ELSE IF Grace * (e.rounds + 1) <= IdleTimeout THEN Grace * (e.rounds + 1)
  ELSE IdleTimeout

Ready == {b \in Tracked : rx_blocks[b].age >= Required(rx_blocks[b])}

(* One sweep starts when ready_for_check returns a non-empty list. *)
AckPoll ==
  /\ ready = {} /\ closing = {}
  /\ ack_completed < TotalBlocks
  /\ Ready # {}
  /\ ready' = Ready
  /\ UNCHANGED <<trackVars, packet_queue, verified, closing, ack_completed, gave_up,
                 running, wireVars>>

(* snapshot_and_tick of a block of the sweep and the ack it leads to.  The *)
(* ack is decided on the snapshot; writing it later would only delay it.   *)
(* That the block is still tracked is SweepIsLive: the arm of the loop for *)
(* a block that is not has nothing to do.                                  *)
Snapshot(b) ==
  [rx_blocks[b] EXCEPT !.rounds = @ + 1, !.age = 0]

(* Mutant: one round too many. *)
OutOfRounds_late(e) == e.rounds > MaxRounds + 1

OutOfRounds(e) == e.rounds > MaxRounds

StartCheck(b) ==
  /\ closing = {}
  /\ b \in ready
  /\ b \in Tracked
  /\ rx_blocks' = Put(b, Snapshot(b))
  /\ UNCHANGED <<rx_completed, packet_queue, verified, ack_completed, running, net, faults>>

SendComplete(b) ==
  /\ acks' = Append(acks, Complete(b))
  /\ closing' = {b}
  /\ UNCHANGED ready

AckComplete ==
  \E b \in ready :
    /\ StartCheck(b)
    /\ IsComplete(Snapshot(b))
    /\ SendComplete(b)
    /\ UNCHANGED gave_up

AckGiveUp ==
  \E b \in ready :
    /\ StartCheck(b)
    /\ ~IsComplete(Snapshot(b))
    /\ OutOfRounds(Snapshot(b))
    /\ SendComplete(b)
    /\ gave_up' = gave_up \cup {b}

AckMissing ==
  \E b \in ready :
    /\ StartCheck(b)
    /\ ~IsComplete(Snapshot(b))
    /\ ~OutOfRounds(Snapshot(b))
    /\ acks' = Append(acks, Missing(b, MissingIds(Snapshot(b))))
    /\ ready' = ready \ {b}
    /\ UNCHANGED <<closing, gave_up>>

(* remove, in its own critical section after the Complete was written. *)
AckRemove ==
  \E b \in closing :
    /\ rx_blocks' = [x \in Tracked \ {b} |-> rx_blocks[x]]
    /\ rx_completed' = rx_completed \cup {b}
    /\ ack_completed' = ack_completed + 1
    /\ ready' = ready \ {b}
    /\ closing' = {}
    /\ UNCHANGED <<packet_queue, verified, gave_up, running, wireVars>>

(* The ack manager has returned, run has cleared the flag of the UDP       *)
(* thread and the thread, perhaps after another datagram, has seen it.     *)
StopReceiving ==
  /\ running
  /\ ready = {} /\ closing = {}
  /\ ack_completed >= TotalBlocks
  /\ running' = FALSE
  /\ UNCHANGED <<trackVars, packet_queue, verified, ackVars, wireVars>>

(* Time passes for the tracked blocks. *)
RcvTick ==
  /\ \E b \in Tracked : rx_blocks[b].age < IdleTimeout
  /\ rx_blocks' = [b \in Tracked |->
                     IF rx_blocks[b].age < IdleTimeout
                     THEN [rx_blocks[b] EXCEPT !.age = @ + 1]
                     ELSE rx_blocks[b]]
  /\ UNCHANGED <<rx_completed, packet_queue, verified, ackVars, running, wireVars>>

RcvNext ==
  \/ RecvData \/ RecvBlockEnd
  \/ Verify \/ Reject
  \/ AckPoll \/ AckComplete \/ AckGiveUp \/ AckMissing \/ AckRemove
  \/ StopReceiving
  \/ RcvTick

(* The receiver's threads run, and its clock advances. *)
RcvFairness ==
  /\ WF_rxVars(RecvData \/ RecvBlockEnd)
  /\ WF_rxVars(Verify)
  /\ WF_rxVars(AckPoll)
  /\ WF_rxVars(AckComplete \/ AckGiveUp \/ AckMissing)
  /\ WF_rxVars(AckRemove)
  /\ WF_rxVars(StopReceiving)
  /\ WF_rxVars(RcvTick)

-------------------------------------------------------------------------------
(* The environment of the receiver on its own: a sender that has sent the  *)
(* whole file once, answers each Missing with any part of what it asks     *)
(* for, and a network that loses datagrams.                                *)

PeerAnswer ==
  /\ acks # <<>>
  /\ acks' = Tail(acks)
  /\ LET ack == Head(acks)
     IN  IF ack.tag = "MISSING"
         THEN \E ids \in SUBSET ack.missing : Send(DataOf(ack.block_id, ids))
         ELSE UNCHANGED net
  /\ UNCHANGED <<rcvVars, faults>>

LoseAny == \E d \in InFlight : Lose(d) /\ UNCHANGED rcvVars

RxInit == RcvInit /\ net = [d \in Datagrams |-> 1] /\ acks = <<>> /\ faults = 0

RxNext == RcvNext \/ PeerAnswer \/ LoseAny

RxSpec == RxInit /\ [][RxNext]_rxVars

RxFairSpec == RxSpec /\ RcvFairness /\ WF_rxVars(PeerAnswer)

-------------------------------------------------------------------------------
(* Properties. *)

Entries ==
  UNION {[total : {n}, received : SUBSET (0 .. n - 1), received_count : 0 .. n,
          end_seen : BOOLEAN, rounds : 0 .. MaxRounds + 1, age : 0 .. IdleTimeout] :
           n \in 1 .. PacketsPerBlock}

(* Types of the receiver's state. *)
RcvTypeOK ==
  /\ Tracked \subseteq BlockIds
  /\ \A b \in Tracked : rx_blocks[b] \in Entries
  /\ rx_completed \subseteq BlockIds
  /\ packet_queue \in [Datagrams -> Nat]
  /\ verified \subseteq ChunkIds
  /\ ready \subseteq BlockIds /\ closing \subseteq BlockIds
  /\ ack_completed \in Nat
  /\ running \in BOOLEAN
  /\ gave_up \subseteq BlockIds

RxTypeOK == RcvTypeOK /\ WireTypeOK

(* A completed block is never tracked again: a late datagram, or a worker  *)
(* that verifies a late packet, cannot resurrect the entry that remove     *)
(* took away.                                                              *)
NoResurrection == Tracked \cap rx_completed = {}

(* The ack manager's counter, on which it decides to stop, is the number   *)
(* of blocks that are completed: no block is counted twice, so it does not *)
(* stop while a block is still being repaired.                             *)
CountExact ==
  /\ ack_completed = Cardinality(rx_completed)
  /\ ~running => rx_completed = BlockIds

(* The blocks of a sweep, and the one being closed, are still tracked when *)
(* their turn comes: only the ack manager removes entries, so the list it  *)
(* took from ready_for_check does not go stale.                            *)
SweepIsLive == ready \cup closing \subseteq Tracked

(* A block the receiver announced as complete, and did not give up on, has *)
(* had every chunk verified by a worker, however its copies were lost,     *)
(* damaged or repeated: the sender may free its cache.                     *)
AckedDataSafe ==
  \A b \in (rx_completed \cup closing) \ gave_up :
    \A p \in PacketIds(b) : chunk_id_of(b, p) \in verified

(* Every tracked block is eventually completed, by its data or by giving   *)
(* up, whatever is lost, duplicated or damaged.                            *)
TrackedIsResolved ==
  \A b \in BlockIds : b \in Tracked ~> b \in rx_completed
===============================================================================
