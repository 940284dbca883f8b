----------------------------- MODULE BlockManager -----------------------------
(***************************************************************************)
(* The sender's block manager (sender.rs: block_manager_loop and the       *)
(* helpers it calls), the single owner of every block's lifecycle:         *)
(*                                                                         *)
(*     Unseen -> Pending -> Open -> Resolved                               *)
(*                                                                         *)
(* One loop iteration drains the pending blocks, leaves if every block is  *)
(* resolved, and handles one event: a chunk from the encryption workers    *)
(* (any order), a BlockAck (in order), the receive timeout, or the         *)
(* disconnection of the event channel.  The relays and the event channel   *)
(* are the set chunks and the sequence acks: the merge of the two streams  *)
(* is arbitrary, so taking the next event from either is what the channel  *)
(* can deliver.                                                            *)
(***************************************************************************)
EXTENDS Wire

CONSTANTS
  PipelineDepth,  \* config::PIPELINE_DEPTH (4)
  StaleAfter,     \* ticks of silence that make a block stale
                  \* (WHOLE_BLOCK_RETRANSMIT_TIMEOUT_MS)
  MaxAcks         \* bound on the acks the environment queues at once

ASSUME BlockManagerAssumption ==
  /\ PipelineDepth \in Nat \ {0}
  /\ StaleAfter \in Nat \ {0}
  /\ MaxAcks \in Nat \ {0}

VARIABLES
  chunks,      \* chunk ids read and encrypted, or to be, not yet handled
  slot,        \* block_states: the variant of each block's entry
  bucket,      \* packets buffered in a Pending entry
  blk,         \* BlockState of an Open entry
  open_slots, completed,
  ack_relay,   \* the ack relay thread is alive
  mgr          \* "running", or how block_manager_loop returned

blockVars == <<slot, bucket, blk, open_slots, completed>>
sndVars   == <<chunks, slot, bucket, blk, open_slots, completed, ack_relay, mgr>>
mgrVars   == <<sndVars, wireVars>>

(* BlockState::new: quiet is the time since last_ack_activity, in ticks.   *)
NewBlockState ==
  [cached |-> {}, sent |-> 0, end_emitted |-> FALSE, fallback_sent |-> FALSE, quiet |-> 0]

OpenBlocks     == {b \in BlockIds : slot[b] = "Open"}
PendingBlocks  == {b \in BlockIds : slot[b] = "Pending"}
ResolvedBlocks == {b \in BlockIds : slot[b] = "Resolved"}

SndInit ==
  /\ chunks = ChunkIds
  /\ slot = [b \in BlockIds |-> "Unseen"]
  /\ bucket = [b \in BlockIds |-> {}]
  /\ blk = [b \in BlockIds |-> NewBlockState]
  /\ open_slots = 0
  /\ completed = 0
  /\ ack_relay = TRUE
  /\ mgr = "running"

-------------------------------------------------------------------------------
(* place_chunk, for the packets ps one after the other: cache, send, count, *)
(* and emit BlockEnd once when the count reaches the block's total.        *)

(* Mutants: the count is read before it is incremented; BlockEnd one packet *)
(* early.                                                                  *)
EndsBlock_before(b, s, ps) == s.sent = Total(b) /\ ~s.end_emitted
EndsBlock_early(b, s, ps) == s.sent + Cardinality(ps) + 1 >= Total(b) /\ ~s.end_emitted

EndsBlock(b, s, ps) == s.sent + Cardinality(ps) = Total(b) /\ ~s.end_emitted

(* Mutant: the cache is freed once the block has been sent. *)
Placed_freed(b, s, ps) ==
  [s EXCEPT !.cached = IF EndsBlock(b, s, ps) THEN {} ELSE @ \cup ps,
            !.sent = @ + Cardinality(ps),
            !.end_emitted = @ \/ EndsBlock(b, s, ps)]

Placed(b, s, ps) ==
  [cached |-> s.cached \cup ps,
   sent |-> s.sent + Cardinality(ps),
   end_emitted |-> s.end_emitted \/ EndsBlock(b, s, ps),
   fallback_sent |-> s.fallback_sent,
   quiet |-> IF EndsBlock(b, s, ps) THEN 0 ELSE s.quiet]

PlaceChunks(b, s, ps) ==
  /\ blk' = [blk EXCEPT ![b] = Placed(b, s, ps)]
  /\ Send(DataOf(b, ps) \cup (IF EndsBlock(b, s, ps) THEN {BlockEnd(b, Total(b))} ELSE {}))

-------------------------------------------------------------------------------
(* drain_pending, one iteration: open the lowest pending block.            *)

(* Mutants: nothing is drained once the last open block is resolved; one   *)
(* block too many; one block too few.                                      *)
Admittable_ifOpen ==
  open_slots > 0 /\ open_slots < PipelineDepth /\ PendingBlocks # {}
Admittable_tooMany == open_slots <= PipelineDepth /\ PendingBlocks # {}
Admittable_tooFew == open_slots + 1 < PipelineDepth /\ PendingBlocks # {}

Admittable == open_slots < PipelineDepth /\ PendingBlocks # {}

DrainPending ==
  /\ mgr = "running"
  /\ Admittable
  /\ \E b \in PendingBlocks :
       /\ \A other \in PendingBlocks : b <= other
       /\ slot' = [slot EXCEPT ![b] = "Open"]
       /\ bucket' = [bucket EXCEPT ![b] = {}]
       /\ open_slots' = open_slots + 1
       /\ PlaceChunks(b, NewBlockState, bucket[b])
  /\ UNCHANGED <<chunks, completed, ack_relay, mgr, acks, faults>>

(* The loop waits for an event once nothing is left to drain and some      *)
(* block is still unresolved.                                              *)
Waiting == mgr = "running" /\ ~Admittable /\ completed < TotalBlocks

-------------------------------------------------------------------------------
(* SenderEvent::Chunk -- admit_or_buffer.                                  *)

DropStale(b) ==
  /\ slot[b] = "Resolved"
  /\ UNCHANGED <<slot, bucket, blk, open_slots, net>>

PlaceIntoOpen(b, p) ==
  /\ slot[b] = "Open"
  /\ PlaceChunks(b, blk[b], {p})
  /\ UNCHANGED <<slot, bucket, open_slots>>

(* Mutant: a new bucket replaces the one already there. *)
AppendToPending_replaced(b, p) ==
  /\ slot[b] = "Pending"
  /\ bucket' = [bucket EXCEPT ![b] = {p}]
  /\ UNCHANGED <<slot, blk, open_slots, net>>

AppendToPending(b, p) ==
  /\ slot[b] = "Pending"
  /\ bucket' = [bucket EXCEPT ![b] = @ \cup {p}]
  /\ UNCHANGED <<slot, blk, open_slots, net>>

OpenAndPlace(b, p) ==
  /\ slot[b] = "Unseen"
  /\ open_slots < PipelineDepth
  /\ slot' = [slot EXCEPT ![b] = "Open"]
  /\ open_slots' = open_slots + 1
  /\ PlaceChunks(b, NewBlockState, {p})
  /\ UNCHANGED bucket

BufferNew(b, p) ==
  /\ slot[b] = "Unseen"
  /\ open_slots >= PipelineDepth
  /\ slot' = [slot EXCEPT ![b] = "Pending"]
  /\ bucket' = [bucket EXCEPT ![b] = {p}]
  /\ UNCHANGED <<blk, open_slots, net>>

AdmitOrBuffer(c) ==
  LET b == block_of(c)[1]
      p == block_of(c)[2]
  IN  /\ Waiting
      /\ c \in chunks
      /\ chunks' = chunks \ {c}
      /\ \/ DropStale(b)
         \/ PlaceIntoOpen(b, p)
         \/ AppendToPending(b, p)
         \/ OpenAndPlace(b, p)
         \/ BufferNew(b, p)
      /\ UNCHANGED <<completed, ack_relay, mgr, acks, faults>>

-------------------------------------------------------------------------------
(* SenderEvent::Ack.                                                       *)

TakeAck ==
  /\ Waiting
  /\ acks # <<>>
  /\ acks' = Tail(acks)
  /\ UNCHANGED <<chunks, ack_relay, mgr, faults>>

(* BlockAck::Missing: resend what is cached of an Open block and restart   *)
(* its silence timer; ignore the ack otherwise.                            *)
OnMissing ==
  LET ack == Head(acks)
      b   == ack.block_id
  IN  /\ TakeAck
      /\ ack.tag = "MISSING"
      /\ \/ /\ slot[b] = "Open"
            /\ blk' = [blk EXCEPT ![b].quiet = 0]
            /\ Send(DataOf(b, ack.missing \cap blk[b].cached))
         \/ /\ slot[b] # "Open"
            /\ UNCHANGED <<blk, net>>
      /\ UNCHANGED <<slot, bucket, open_slots, completed>>

(* BlockAck::Complete, by what the block was before. *)

(* Mutant: the entry is removed from the map instead of kept as Resolved. *)
Resolve_removed(b) ==
  /\ slot' = [slot EXCEPT ![b] = "Unseen"]
  /\ bucket' = [bucket EXCEPT ![b] = {}]
  /\ blk' = [blk EXCEPT ![b] = NewBlockState]
  /\ completed' = completed + 1

Resolve(b) ==
  /\ slot' = [slot EXCEPT ![b] = "Resolved"]
  /\ bucket' = [bucket EXCEPT ![b] = {}]
  /\ blk' = [blk EXCEPT ![b] = NewBlockState]
  /\ completed' = completed + 1

(* Mutant: the slot of the completed block is not released. *)
CompleteOpen_leaked(b) ==
  /\ slot[b] = "Open"
  /\ Resolve(b)
  /\ UNCHANGED open_slots

CompleteOpen(b) ==
  /\ slot[b] = "Open"
  /\ Resolve(b)
  /\ open_slots' = open_slots - 1

(* Mutant: a slot is released that the block never held. *)
CompleteUnopened_released(b) ==
  /\ slot[b] \in {"Pending", "Unseen"}
  /\ Resolve(b)
  /\ open_slots' = open_slots - 1

CompleteUnopened(b) ==
  /\ slot[b] \in {"Pending", "Unseen"}
  /\ Resolve(b)
  /\ UNCHANGED open_slots

(* Mutant: a duplicate Complete is counted again. *)
CompleteAgain_counted(b) ==
  /\ slot[b] = "Resolved"
  /\ completed' = completed + 1
  /\ UNCHANGED <<slot, bucket, blk, open_slots>>

CompleteAgain(b) ==
  /\ slot[b] = "Resolved"
  /\ UNCHANGED blockVars

OnComplete ==
  LET b == Head(acks).block_id
  IN  /\ TakeAck
      /\ Head(acks).tag = "COMPLETE"
      /\ CompleteOpen(b) \/ CompleteUnopened(b) \/ CompleteAgain(b)
      /\ UNCHANGED net

-------------------------------------------------------------------------------
(* The receive timeout -- retransmit_stale_blocks: the one-shot resend of  *)
(* every cached packet and the BlockEnd of a block silent for too long.    *)

(* Mutant: no fallback. *)
StaleBlocks_none == {}

StaleBlocks ==
  {b \in OpenBlocks : /\ blk[b].end_emitted
                      /\ ~blk[b].fallback_sent
                      /\ blk[b].quiet >= StaleAfter}

RetransmitStale ==
  /\ Waiting
  /\ StaleBlocks # {}
  /\ Send(UNION {DataOf(b, blk[b].cached) \cup {BlockEnd(b, Total(b))} : b \in StaleBlocks})
  /\ blk' = [b \in BlockIds |->
               IF b \in StaleBlocks
               THEN [blk[b] EXCEPT !.fallback_sent = TRUE, !.quiet = 0]
               ELSE blk[b]]
  /\ UNCHANGED <<chunks, slot, bucket, open_slots, completed, ack_relay, mgr, acks, faults>>

(* Time passes for the open blocks. *)
SndTick ==
  /\ mgr = "running"
  /\ \E b \in OpenBlocks : blk[b].quiet < StaleAfter
  /\ blk' = [b \in BlockIds |->
               IF b \in OpenBlocks /\ blk[b].quiet < StaleAfter
               THEN [blk[b] EXCEPT !.quiet = @ + 1]
               ELSE blk[b]]
  /\ UNCHANGED <<chunks, slot, bucket, open_slots, completed, ack_relay, mgr, wireVars>>

-------------------------------------------------------------------------------
(* How the loop ends: every block resolved, or the event channel closed    *)
(* (both relays gone and nothing left in it) before that.  Chunks may be   *)
(* left that the reader or the workers failed to deliver.                  *)

Return ==
  /\ mgr = "running"
  /\ ~Admittable
  /\ completed >= TotalBlocks
  /\ mgr' = "ok"
  /\ UNCHANGED <<chunks, blockVars, ack_relay, wireVars>>

Disconnected ==
  /\ Waiting
  /\ ~ack_relay
  /\ acks = <<>>
  /\ mgr' = "err"
  /\ UNCHANGED <<chunks, blockVars, ack_relay, wireVars>>

SndNext ==
  \/ DrainPending
  \/ \E c \in chunks : AdmitOrBuffer(c)
  \/ OnMissing
  \/ OnComplete
  \/ RetransmitStale
  \/ SndTick
  \/ Return
  \/ Disconnected

-------------------------------------------------------------------------------
(* The environment of the block manager on its own: any BlockAck for any   *)
(* block at any time, and the loss of the control connection with some of  *)
(* the acks not yet read.                                                  *)

PeerAck(ack) ==
  /\ ack_relay
  /\ Len(acks) < MaxAcks
  /\ acks' = Append(acks, ack)
  /\ UNCHANGED <<sndVars, net, faults>>

ControlLost ==
  /\ ack_relay
  /\ ack_relay' = FALSE
  /\ \E n \in 0 .. Len(acks) : acks' = SubSeq(acks, 1, n)
  /\ UNCHANGED <<chunks, blockVars, mgr, net, faults>>

Terminated == mgr # "running" /\ UNCHANGED mgrVars

MgrInit == WireInit /\ SndInit

MgrNext ==
  \/ SndNext
  \/ \E ack \in BlockAcks : mgr = "running" /\ PeerAck(ack)
  \/ ControlLost
  \/ Terminated

MgrSpec == MgrInit /\ [][MgrNext]_mgrVars

(* The manager's thread runs whenever it can, every chunk is eventually    *)
(* handed over, and a receiver that has a whole block says so.             *)
MgrFairness ==
  /\ WF_mgrVars(DrainPending)
  /\ WF_mgrVars(\E c \in chunks : AdmitOrBuffer(c))
  /\ WF_mgrVars(OnMissing \/ OnComplete)
  /\ WF_mgrVars(Return)
  /\ WF_mgrVars(Disconnected)
  /\ \A b \in BlockIds :
       SF_mgrVars(slot[b] = "Open" /\ blk[b].end_emitted /\ PeerAck(Complete(b)))

MgrFairSpec == MgrSpec /\ MgrFairness

-------------------------------------------------------------------------------
(* Properties. *)

BlockStates ==
  [cached : SUBSET (0 .. PacketsPerBlock - 1), sent : 0 .. PacketsPerBlock,
   end_emitted : BOOLEAN, fallback_sent : BOOLEAN, quiet : 0 .. StaleAfter]

(* Types of the manager's state; the sent counter never passes a block. *)
SndTypeOK ==
  /\ chunks \subseteq ChunkIds
  /\ slot \in [BlockIds -> {"Unseen", "Pending", "Open", "Resolved"}]
  /\ bucket \in [BlockIds -> SUBSET (0 .. PacketsPerBlock - 1)]
  /\ blk \in [BlockIds -> BlockStates]
  /\ open_slots \in Nat
  /\ completed \in Nat
  /\ ack_relay \in BOOLEAN
  /\ mgr \in {"running", "ok", "err"}

MgrTypeOK == SndTypeOK /\ WireTypeOK

(* The two counters of block_manager_loop say what block_states holds, and *)
(* the pipeline budget is never overrun: open_slots -= 1 cannot underflow, *)
(* and completed >= total_blocks means that every block is resolved.       *)
SlotAccounting ==
  /\ open_slots = Cardinality(OpenBlocks)
  /\ open_slots <= PipelineDepth
  /\ completed = Cardinality(ResolvedBlocks)

(* Every chunk of an unresolved block is in exactly one place: on its way  *)
(* to the manager, buffered in its Pending bucket, or cached in its Open   *)
(* block; and the sent counter counts the cached packets.                  *)
ChunkConservation ==
  \A b \in BlockIds :
    /\ \A p \in PacketIds(b) :
         LET coming == chunk_id_of(b, p) \in chunks
         IN  /\ slot[b] = "Unseen"  => coming
             /\ slot[b] = "Pending" => coming = (p \notin bucket[b])
             /\ slot[b] = "Open"    => coming = (p \notin blk[b].cached)
    /\ blk[b].sent = Cardinality(blk[b].cached)

(* The assertion of place_chunk: when the sent counter of an open block    *)
(* reaches its total, every packet of the block is cached; and that is     *)
(* exactly when BlockEnd has been emitted.                                 *)
BlockEndAssert ==
  \A b \in OpenBlocks :
    /\ blk[b].sent = Total(b) => blk[b].cached = PacketIds(b)
    /\ blk[b].end_emitted <=> blk[b].sent = Total(b)

(* A pending block means a full pipeline, or the one slot that a Complete  *)
(* has just freed: drain_pending, called on every iteration, opens at most *)
(* one block, and no admittable work is left while the loop waits.         *)
PendingMeansFull == PendingBlocks # {} => open_slots + 1 >= PipelineDepth

Rank(s) == CASE s = "Unseen" -> 0 [] s = "Pending" -> 1 [] s = "Open" -> 2 [] s = "Resolved" -> 3

(* A block only moves forward through its lifecycle: a Resolved block is   *)
(* never reopened or buffered again, an Open one never goes back to        *)
(* Pending, whatever order chunks and acks arrive in.                      *)
ForwardOnly == [][\A b \in BlockIds : Rank(slot[b]) <= Rank(slot'[b])]_mgrVars

(* A BlockEnd on the wire follows every packet of its block: nothing has   *)
(* been lost from net in a run without network, so net is all that was     *)
(* ever sent.                                                              *)
EndAfterData ==
  \A b \in BlockIds :
    BlockEnd(b, Total(b)) \in InFlight => DataOf(b, PacketIds(b)) \subseteq InFlight

(* The manager always returns: no order of chunks, however far ahead of    *)
(* the pipeline, blocks the thread that would free a slot.                 *)
ManagerReturns == <>(mgr # "running")

(* It returns Ok exactly when it has resolved every block, and with an     *)
(* error only once the control connection is gone.                         *)
ReturnIsHonest ==
  /\ mgr = "ok" => ResolvedBlocks = BlockIds
  /\ mgr = "err" => ~ack_relay /\ ResolvedBlocks # BlockIds
===============================================================================
