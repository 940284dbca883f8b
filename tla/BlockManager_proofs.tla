-------------------------- MODULE BlockManager_proofs -------------------------
(***************************************************************************)
(* Safety of the sender's block manager for every file size, block size,   *)
(* pipeline depth and order of events: proofs about MgrSpec.               *)
(***************************************************************************)
EXTENDS BlockManager, Wire_proofs, SequenceTheorems

SlotStates == {"Unseen", "Pending", "Open", "Resolved"}

(* What holds of a block whose entry of block_states is in state sl, with  *)
(* bucket bu and BlockState st, when the chunks cs are still to come: a    *)
(* bucket only in a Pending entry, a BlockState only in an Open one, both  *)
(* with packets of that block, every packet of an unresolved block either  *)
(* still to come or there, and BlockEnd emitted exactly when the count of  *)
(* packets, which is the number of those cached, is full.                  *)
Good(b, sl, bu, st, cs) ==
  /\ sl \in SlotStates
  /\ bu \subseteq PacketIds(b)
  /\ st \in BlockStates
  /\ st.cached \subseteq PacketIds(b)
  /\ st.sent = Cardinality(st.cached)
  /\ sl # "Pending" => bu = {}
  /\ sl # "Open" => st = NewBlockState
  /\ sl = "Open" => (st.end_emitted <=> st.sent = Total(b))
  /\ \A p \in PacketIds(b) :
       /\ sl = "Unseen"  => chunk_id_of(b, p) \in cs
       /\ sl = "Pending" => (chunk_id_of(b, p) \in cs <=> p \notin bu)
       /\ sl = "Open"    => (chunk_id_of(b, p) \in cs <=> p \notin st.cached)

(* The inductive invariant.  The counters alone are not inductive: that    *)
(* the sent counter stays within a block rests on no chunk coming twice,   *)
(* which is what Good says of every block.                                 *)
IInv ==
  /\ MgrTypeOK
  /\ SlotAccounting
  /\ \A b \in BlockIds : Good(b, slot[b], bucket[b], blk[b], chunks)
  /\ PendingMeansFull
  /\ ReturnIsHonest

(* Setting one entry of block_states changes the sets of open and of       *)
(* resolved blocks by that block alone.                                    *)
LEMMA SetSlot ==
  ASSUME NEW b \in BlockIds, NEW v, slot \in [BlockIds -> SlotStates],
         slot' = [slot EXCEPT ![b] = v]
  PROVE  /\ v = "Open" => OpenBlocks' = OpenBlocks \cup {b}
         /\ v # "Open" => OpenBlocks' = OpenBlocks \ {b}
         /\ v # "Open" /\ b \notin OpenBlocks => OpenBlocks' = OpenBlocks
         /\ v = "Resolved" => ResolvedBlocks' = ResolvedBlocks \cup {b}
         /\ v # "Resolved" /\ b \notin ResolvedBlocks => ResolvedBlocks' = ResolvedBlocks
         /\ v # "Pending" => PendingBlocks' = PendingBlocks \ {b}
         /\ v # "Pending" /\ b \notin PendingBlocks => PendingBlocks' = PendingBlocks
  BY DEF OpenBlocks, ResolvedBlocks, PendingBlocks, SlotStates

(* The sets of open and of resolved blocks are finite. *)
LEMMA SlotsFinite ==
  /\ IsFiniteSet(OpenBlocks) /\ Cardinality(OpenBlocks) \in Nat
  /\ IsFiniteSet(ResolvedBlocks) /\ Cardinality(ResolvedBlocks) \in Nat
  /\ Cardinality(ResolvedBlocks) <= TotalBlocks
  /\ Cardinality(ResolvedBlocks) = TotalBlocks => ResolvedBlocks = BlockIds
<1>1. OpenBlocks \in SUBSET BlockIds /\ ResolvedBlocks \in SUBSET BlockIds
  BY DEF OpenBlocks, ResolvedBlocks
<1> QED BY <1>1, BlockFacts, FS_Subset, FS_CardinalityType

(* place_chunk on packets that are not in the cache yet keeps the count    *)
(* equal to the number of cached packets, within the block, and emits      *)
(* BlockEnd exactly when the block is full.                                *)
LEMMA PlacedFacts ==
  ASSUME NEW b \in BlockIds, NEW s \in BlockStates, NEW ps,
         ps \subseteq PacketIds(b), s.cached \subseteq PacketIds(b),
         ps \cap s.cached = {},
         s.sent = Cardinality(s.cached),
         s.end_emitted => s.sent = Total(b)
  PROVE  LET n == Placed(b, s, ps)
         IN  /\ n \in BlockStates
             /\ n.cached = s.cached \cup ps
             /\ n.cached \subseteq PacketIds(b)
             /\ n.sent = Cardinality(n.cached)
             /\ n.end_emitted <=> n.sent = Total(b)
<1> DEFINE all == s.cached \cup ps
           n == Placed(b, s, ps)
<1>1. /\ IsFiniteSet(s.cached) /\ IsFiniteSet(ps) /\ IsFiniteSet(all)
      /\ Cardinality(ps) \in Nat /\ Cardinality(s.cached) \in Nat
      /\ Cardinality(all) \in Nat /\ Cardinality(all) <= Total(b)
  BY BlockFacts, FS_Subset, FS_CardinalityType
<1>2. Cardinality(all) = s.sent + Cardinality(ps)
  <2>1. s.cached \cap ps = {}
    OBVIOUS
  <2>2. Cardinality(s.cached \cap ps) = 0
    BY <2>1, FS_EmptySet
  <2> QED BY <1>1, <2>2, FS_Union
<1>3. s.sent \in Nat /\ Total(b) \in 0 .. PacketsPerBlock /\ PacketsPerBlock \in Nat
  BY <1>1, BlockFacts
<1>4. all \subseteq 0 .. PacketsPerBlock - 1 /\ all \subseteq PacketIds(b)
  BY BlockFacts
<1>5. Cardinality(all) \in 0 .. PacketsPerBlock
  BY <1>1, <1>3
<1>6. /\ n = [cached |-> all, sent |-> Cardinality(all),
              end_emitted |-> s.end_emitted \/ EndsBlock(b, s, ps),
              fallback_sent |-> s.fallback_sent,
              quiet |-> IF EndsBlock(b, s, ps) THEN 0 ELSE s.quiet]
  BY <1>2 DEF Placed, BlockStates
<1>7. (s.end_emitted \/ EndsBlock(b, s, ps)) <=> Cardinality(all) = Total(b)
  BY <1>1, <1>2, <1>3 DEF EndsBlock
<1>8. n \in BlockStates
  BY <1>4, <1>5, <1>6, BlockManagerAssumption DEF BlockStates, EndsBlock
<1>9. n.cached = all /\ n.sent = Cardinality(all)
      /\ n.end_emitted = (s.end_emitted \/ EndsBlock(b, s, ps))
  BY <1>6
<1> QED BY <1>4, <1>7, <1>8, <1>9

-------------------------------------------------------------------------------
(* How each change to a block's entry preserves Good.                      *)

(* A new BlockState has an empty cache and a count of zero. *)
LEMMA NewBlockStateFacts ==
  /\ NewBlockState \in BlockStates
  /\ NewBlockState.cached = {}
  /\ NewBlockState.sent = Cardinality(NewBlockState.cached)
  /\ ~NewBlockState.end_emitted
  BY BlockFacts, FS_EmptySet, BlockManagerAssumption DEF NewBlockState, BlockStates

(* Taking a chunk from those to come removes one packet of one block. *)
LEMMA ChunkTaken ==
  ASSUME NEW c \in ChunkIds, NEW cs, c \in cs,
         NEW b \in BlockIds, NEW q \in PacketIds(b)
  PROVE  chunk_id_of(b, q) \in cs \ {c}
           <=> chunk_id_of(b, q) \in cs /\ <<b, q>> # block_of(c)
<1>1. chunk_id_of(b, q) = c => <<b, q>> = block_of(c)
  BY FrameFacts
<1>2. <<b, q>> = block_of(c) => chunk_id_of(b, q) = c
  <2> SUFFICES ASSUME <<b, q>> = block_of(c) PROVE chunk_id_of(b, q) = c
    OBVIOUS
  <2>1. b = block_of(c)[1] /\ q = block_of(c)[2]
    BY DEF block_of
  <2> QED BY <2>1, FrameFacts
<1> QED BY <1>1, <1>2

(* A block is not concerned by a chunk of another one. *)
LEMMA GoodOther ==
  ASSUME NEW c \in ChunkIds, NEW cs, c \in cs, NEW b \in BlockIds, b # block_of(c)[1],
         NEW sl, NEW bu, NEW st, Good(b, sl, bu, st, cs)
  PROVE  Good(b, sl, bu, st, cs \ {c})
<1>1. \A q : <<b, q>> # block_of(c)
  BY DEF block_of
<1>2. \A q \in PacketIds(b) : chunk_id_of(b, q) \in cs \ {c} <=> chunk_id_of(b, q) \in cs
  BY <1>1, ChunkTaken
<1> QED BY <1>2 DEF Good

(* admit_or_buffer, PlaceIntoOpen. *)
LEMMA GoodPlace ==
  ASSUME NEW c \in ChunkIds, NEW cs, c \in cs,
         NEW b, NEW p, block_of(c) = <<b, p>>,
         NEW bu, NEW st, Good(b, "Open", bu, st, cs)
  PROVE  Good(b, "Open", bu, Placed(b, st, {p}), cs \ {c})
<1>1. b \in BlockIds /\ p \in PacketIds(b) /\ chunk_id_of(b, p) = c
  BY FrameFacts
<1>2. p \notin st.cached
  BY <1>1 DEF Good
<1> DEFINE n == Placed(b, st, {p})
<1>3. /\ n \in BlockStates
      /\ n.cached = st.cached \cup {p}
      /\ n.cached \subseteq PacketIds(b)
      /\ n.sent = Cardinality(n.cached)
      /\ n.end_emitted <=> n.sent = Total(b)
  BY <1>1, <1>2, PlacedFacts DEF Good
<1>4. \A q \in PacketIds(b) :
        chunk_id_of(b, q) \in cs \ {c} <=> chunk_id_of(b, q) \in cs /\ q # p
  BY <1>1, ChunkTaken
<1> HIDE DEF n
<1> QED BY <1>3, <1>4 DEF Good, n

(* admit_or_buffer, OpenAndPlace. *)
LEMMA GoodOpen ==
  ASSUME NEW c \in ChunkIds, NEW cs, c \in cs,
         NEW b, NEW p, block_of(c) = <<b, p>>,
         NEW bu, NEW st, Good(b, "Unseen", bu, st, cs)
  PROVE  Good(b, "Open", bu, Placed(b, NewBlockState, {p}), cs \ {c})
<1>1. b \in BlockIds /\ p \in PacketIds(b) /\ chunk_id_of(b, p) = c
  BY FrameFacts
<1> DEFINE n == Placed(b, NewBlockState, {p})
<1>2. /\ n \in BlockStates
      /\ n.cached = NewBlockState.cached \cup {p}
      /\ n.cached \subseteq PacketIds(b)
      /\ n.sent = Cardinality(n.cached)
      /\ n.end_emitted <=> n.sent = Total(b)
  BY <1>1, NewBlockStateFacts, PlacedFacts
<1>3. n.cached = {p}
  BY <1>2, NewBlockStateFacts
<1>4. \A q \in PacketIds(b) :
        chunk_id_of(b, q) \in cs \ {c} <=> chunk_id_of(b, q) \in cs /\ q # p
  BY <1>1, ChunkTaken
<1> HIDE DEF n
<1> QED BY <1>2, <1>3, <1>4 DEF Good, n, SlotStates

(* admit_or_buffer, AppendToPending and BufferNew. *)
LEMMA GoodBuffer ==
  ASSUME NEW c \in ChunkIds, NEW cs, c \in cs,
         NEW b, NEW p, block_of(c) = <<b, p>>,
         NEW sl \in {"Pending", "Unseen"}, NEW bu, NEW st, Good(b, sl, bu, st, cs)
  PROVE  Good(b, "Pending", bu \cup {p}, st, cs \ {c})
<1>1. b \in BlockIds /\ p \in PacketIds(b) /\ chunk_id_of(b, p) = c
  BY FrameFacts
<1>2. \A q \in PacketIds(b) :
        chunk_id_of(b, q) \in cs \ {c} <=> chunk_id_of(b, q) \in cs /\ q # p
  BY <1>1, ChunkTaken
<1> QED BY <1>1, <1>2 DEF Good, SlotStates

(* admit_or_buffer, Drop: nothing is said of the chunks of a resolved block. *)
LEMMA GoodDrop ==
  ASSUME NEW b, NEW bu, NEW st, NEW cs, NEW cs2, Good(b, "Resolved", bu, st, cs)
  PROVE  Good(b, "Resolved", bu, st, cs2)
  BY DEF Good

(* drain_pending. *)
LEMMA GoodDrain ==
  ASSUME NEW b \in BlockIds, NEW bu, NEW st, NEW cs, Good(b, "Pending", bu, st, cs)
  PROVE  Good(b, "Open", {}, Placed(b, NewBlockState, bu), cs)
<1> DEFINE n == Placed(b, NewBlockState, bu)
<1>0. /\ bu \subseteq PacketIds(b)
      /\ NewBlockState.cached \subseteq PacketIds(b)
      /\ bu \cap NewBlockState.cached = {}
  BY NewBlockStateFacts DEF Good
<1>1. /\ n \in BlockStates
      /\ n.cached = NewBlockState.cached \cup bu
      /\ n.cached \subseteq PacketIds(b)
      /\ n.sent = Cardinality(n.cached)
      /\ n.end_emitted <=> n.sent = Total(b)
  BY <1>0, NewBlockStateFacts, PlacedFacts
<1>2. n.cached = bu
  BY <1>1, NewBlockStateFacts
<1> HIDE DEF n
<1> QED BY <1>1, <1>2 DEF Good, n, SlotStates

(* BlockAck::Complete. *)
LEMMA GoodResolve ==
  ASSUME NEW b, NEW cs
  PROVE  Good(b, "Resolved", {}, NewBlockState, cs)
  BY NewBlockStateFacts DEF Good, SlotStates

(* The timers of an open block: nothing but fallback_sent and quiet change. *)
LEMMA GoodTimer ==
  ASSUME NEW b, NEW bu, NEW st, NEW cs, Good(b, "Open", bu, st, cs),
         NEW n \in BlockStates,
         n.cached = st.cached, n.sent = st.sent, n.end_emitted = st.end_emitted
  PROVE  Good(b, "Open", bu, n, cs)
  BY DEF Good

-------------------------------------------------------------------------------
(* The initial state satisfies the invariant: every chunk is to come. *)
LEMMA InitInv == MgrInit => IInv
<1> SUFFICES ASSUME MgrInit PROVE IInv
  OBVIOUS
<1> USE DEF MgrInit, WireInit, SndInit
<1>1. \A b \in BlockIds : Good(b, slot[b], bucket[b], blk[b], chunks)
  BY NewBlockStateFacts, FrameFacts DEF Good, SlotStates
<1>2. OpenBlocks = {} /\ ResolvedBlocks = {} /\ PendingBlocks = {}
  BY DEF OpenBlocks, ResolvedBlocks, PendingBlocks
<1>3. SlotAccounting /\ PendingMeansFull /\ ReturnIsHonest
  BY <1>2, FS_EmptySet, BlockManagerAssumption DEF SlotAccounting, PendingMeansFull, ReturnIsHonest
<1>4. acks \in Seq(BlockAcks)
  OBVIOUS
<1>5. MgrTypeOK
  BY <1>4, NewBlockStateFacts, WireAssumption DEF MgrTypeOK, SndTypeOK, WireTypeOK
<1> QED BY <1>1, <1>3, <1>5 DEF IInv

(* What IInv says of the entry of one block. *)
LEMMA TypeFacts ==
  ASSUME IInv
  PROVE  /\ slot \in [BlockIds -> SlotStates]
         /\ bucket \in [BlockIds -> SUBSET (0 .. PacketsPerBlock - 1)]
         /\ blk \in [BlockIds -> BlockStates]
         /\ chunks \subseteq ChunkIds
         /\ open_slots \in Nat /\ completed \in Nat
         /\ open_slots = Cardinality(OpenBlocks) /\ open_slots <= PipelineDepth
         /\ completed = Cardinality(ResolvedBlocks)
         /\ WireTypeOK
  BY DEF IInv, MgrTypeOK, SndTypeOK, SlotAccounting, SlotStates

(* A step that changes the entry of block b alone, and possibly takes      *)
(* chunk of b, keeps every entry good when it keeps that of b good.        *)
LEMMA OneBlock ==
  ASSUME IInv, NEW b \in BlockIds, NEW v \in SlotStates, NEW bu, NEW st,
         slot' = [slot EXCEPT ![b] = v],
         bucket' = [bucket EXCEPT ![b] = bu],
         blk' = [blk EXCEPT ![b] = st],
         \/ chunks' = chunks
         \/ \E c \in chunks : chunks' = chunks \ {c} /\ block_of(c)[1] = b,
         Good(b, v, bu, st, chunks')
  PROVE  /\ \A x \in BlockIds : Good(x, slot'[x], bucket'[x], blk'[x], chunks')
         /\ slot' \in [BlockIds -> SlotStates]
         /\ bucket' \in [BlockIds -> SUBSET (0 .. PacketsPerBlock - 1)]
         /\ blk' \in [BlockIds -> BlockStates]
         /\ chunks' \subseteq ChunkIds
<1>1. /\ slot \in [BlockIds -> SlotStates]
      /\ bucket \in [BlockIds -> SUBSET (0 .. PacketsPerBlock - 1)]
      /\ blk \in [BlockIds -> BlockStates]
      /\ chunks \subseteq ChunkIds
  BY TypeFacts
<1>2. ASSUME NEW x \in BlockIds
      PROVE  Good(x, slot'[x], bucket'[x], blk'[x], chunks')
  <2>1. CASE x = b
    BY <1>1, <2>1
  <2>2. CASE x # b
    <3>1. slot'[x] = slot[x] /\ bucket'[x] = bucket[x] /\ blk'[x] = blk[x]
      BY <1>1, <2>2
    <3>2. Good(x, slot[x], bucket[x], blk[x], chunks)
      BY DEF IInv
    <3>3. Good(x, slot[x], bucket[x], blk[x], chunks')
      BY <1>1, <2>2, <3>2, GoodOther
    <3> QED BY <3>1, <3>3
  <2> QED BY <2>1, <2>2
<1>3. bu \subseteq 0 .. PacketsPerBlock - 1 /\ st \in BlockStates
  BY BlockFacts DEF Good
<1> QED BY <1>1, <1>2, <1>3

-------------------------------------------------------------------------------
(* Each action preserves the invariant. *)

(* drain_pending. *)
LEMMA DrainStep == IInv /\ DrainPending => IInv'
<1> SUFFICES ASSUME IInv, DrainPending PROVE IInv'
  OBVIOUS
<1> USE TypeFacts
<1>1. PICK b \in PendingBlocks :
        /\ slot' = [slot EXCEPT ![b] = "Open"]
        /\ bucket' = [bucket EXCEPT ![b] = {}]
        /\ open_slots' = open_slots + 1
        /\ PlaceChunks(b, NewBlockState, bucket[b])
  BY DEF DrainPending
<1>2. /\ mgr = "running" /\ open_slots < PipelineDepth
      /\ UNCHANGED <<chunks, completed, ack_relay, mgr, acks, faults>>
  BY DEF DrainPending, Admittable
<1>3. b \in BlockIds /\ slot[b] = "Pending"
  BY DEF PendingBlocks
<1>4. /\ blk' = [blk EXCEPT ![b] = Placed(b, NewBlockState, bucket[b])]
      /\ net' \in [Datagrams -> 0 .. MaxCopies]
  BY <1>1, SendType DEF PlaceChunks, WireTypeOK
<1>5. Good(b, "Open", {}, Placed(b, NewBlockState, bucket[b]), chunks')
  <2>1. Good(b, "Pending", bucket[b], blk[b], chunks)
    BY <1>3 DEF IInv
  <2> QED BY <1>2, <1>3, <2>1, GoodDrain
<1>6. /\ \A x \in BlockIds : Good(x, slot'[x], bucket'[x], blk'[x], chunks')
      /\ slot' \in [BlockIds -> SlotStates]
      /\ bucket' \in [BlockIds -> SUBSET (0 .. PacketsPerBlock - 1)]
      /\ blk' \in [BlockIds -> BlockStates]
      /\ chunks' \subseteq ChunkIds
  BY <1>1, <1>2, <1>3, <1>4, <1>5, OneBlock DEF SlotStates
<1>7. /\ OpenBlocks' = OpenBlocks \cup {b} /\ b \notin OpenBlocks
      /\ ResolvedBlocks' = ResolvedBlocks
      /\ PendingBlocks' \subseteq PendingBlocks
  <2>1. b \notin OpenBlocks /\ b \notin ResolvedBlocks
    BY <1>3 DEF OpenBlocks, ResolvedBlocks
  <2> QED BY <1>1, <1>3, <2>1, SetSlot
<1>8. SlotAccounting'
  <2>1. Cardinality(OpenBlocks \cup {b}) = Cardinality(OpenBlocks) + 1
    BY <1>7, SlotsFinite, FS_AddElement
  <2> QED BY <1>1, <1>2, <1>7, <2>1, BlockManagerAssumption DEF SlotAccounting
<1>9. PendingMeansFull'
  BY <1>1, <1>7, BlockManagerAssumption DEF IInv, PendingMeansFull
<1>10. ReturnIsHonest'
  BY <1>2 DEF ReturnIsHonest
<1>11. MgrTypeOK'
  BY <1>1, <1>2, <1>4, <1>6 DEF MgrTypeOK, SndTypeOK, WireTypeOK, IInv, SlotStates
<1> QED BY <1>6, <1>8, <1>9, <1>10, <1>11 DEF IInv

(* What the five arms of admit_or_buffer have in common. *)
LEMMA AdmitStep ==
  ASSUME NEW c \in chunks, IInv, AdmitOrBuffer(c)
  PROVE  IInv'
<1> DEFINE b == block_of(c)[1]
           p == block_of(c)[2]
<1> USE TypeFacts
<1>1. /\ Waiting /\ chunks' = chunks \ {c}
      /\ UNCHANGED <<completed, ack_relay, mgr, acks, faults>>
      /\ \/ DropStale(b) \/ PlaceIntoOpen(b, p) \/ AppendToPending(b, p)
         \/ OpenAndPlace(b, p) \/ BufferNew(b, p)
  BY DEF AdmitOrBuffer
<1>2. c \in ChunkIds /\ b \in BlockIds /\ p \in PacketIds(b) /\ block_of(c) = <<b, p>>
  BY FrameFacts DEF block_of
<1>3. Good(b, slot[b], bucket[b], blk[b], chunks)
  BY <1>2 DEF IInv
<1> HIDE DEF b, p
<1>4. ASSUME NEW v \in SlotStates, NEW bu, NEW st,
             slot' = [slot EXCEPT ![b] = v],
             bucket' = [bucket EXCEPT ![b] = bu],
             blk' = [blk EXCEPT ![b] = st],
             Good(b, v, bu, st, chunks'),
             net' \in [Datagrams -> 0 .. MaxCopies],
             SlotAccounting', PendingMeansFull'
      PROVE  IInv'
  <2>1. /\ \A x \in BlockIds : Good(x, slot'[x], bucket'[x], blk'[x], chunks')
        /\ slot' \in [BlockIds -> SlotStates]
        /\ bucket' \in [BlockIds -> SUBSET (0 .. PacketsPerBlock - 1)]
        /\ blk' \in [BlockIds -> BlockStates]
        /\ chunks' \subseteq ChunkIds
    BY <1>1, <1>2, <1>4, OneBlock DEF b
  <2>2. open_slots' \in Nat /\ completed' \in Nat
    BY <1>1, <1>4, SlotsFinite, FS_CardinalityType, FS_Subset, BlockFacts
       DEF SlotAccounting, OpenBlocks
  <2>3. ReturnIsHonest'
    BY <1>1 DEF ReturnIsHonest, Waiting
  <2>4. MgrTypeOK'
    BY <1>1, <1>4, <2>1, <2>2 DEF MgrTypeOK, SndTypeOK, WireTypeOK, IInv, SlotStates
  <2> QED BY <1>4, <2>1, <2>3, <2>4 DEF IInv
<1>5. CASE DropStale(b)
  <2>1. /\ slot' = [slot EXCEPT ![b] = slot[b]] /\ bucket' = [bucket EXCEPT ![b] = bucket[b]]
        /\ blk' = [blk EXCEPT ![b] = blk[b]] /\ slot[b] = "Resolved"
        /\ net' \in [Datagrams -> 0 .. MaxCopies]
    BY <1>5 DEF DropStale, WireTypeOK
  <2>2. Good(b, slot[b], bucket[b], blk[b], chunks')
    BY <1>3, <2>1, GoodDrop
  <2>3. SlotAccounting' /\ PendingMeansFull'
    BY <1>1, <1>5 DEF DropStale, IInv, SlotAccounting, PendingMeansFull,
                      OpenBlocks, ResolvedBlocks, PendingBlocks
  <2> QED BY <1>2, <1>4, <2>1, <2>2, <2>3
<1>6. CASE PlaceIntoOpen(b, p)
  <2>1. /\ slot' = [slot EXCEPT ![b] = "Open"] /\ bucket' = [bucket EXCEPT ![b] = bucket[b]]
        /\ blk' = [blk EXCEPT ![b] = Placed(b, blk[b], {p})] /\ slot[b] = "Open"
        /\ net' \in [Datagrams -> 0 .. MaxCopies]
    BY <1>6, SendType DEF PlaceIntoOpen, PlaceChunks, WireTypeOK
  <2>2. Good(b, "Open", bucket[b], Placed(b, blk[b], {p}), chunks')
    BY <1>1, <1>2, <1>3, <2>1, GoodPlace
  <2>3. SlotAccounting' /\ PendingMeansFull'
    BY <1>1, <1>6 DEF PlaceIntoOpen, IInv, SlotAccounting, PendingMeansFull,
                      OpenBlocks, ResolvedBlocks, PendingBlocks
  <2> QED BY <1>4, <2>1, <2>2, <2>3 DEF SlotStates
<1>7. CASE AppendToPending(b, p)
  <2>1. /\ slot' = [slot EXCEPT ![b] = "Pending"] /\ bucket' = [bucket EXCEPT ![b] = bucket[b] \cup {p}]
        /\ blk' = [blk EXCEPT ![b] = blk[b]] /\ slot[b] = "Pending"
        /\ net' \in [Datagrams -> 0 .. MaxCopies]
    BY <1>7 DEF AppendToPending, WireTypeOK
  <2>2. Good(b, "Pending", bucket[b] \cup {p}, blk[b], chunks')
    BY <1>1, <1>2, <1>3, <2>1, GoodBuffer
  <2>3. SlotAccounting' /\ PendingMeansFull'
    BY <1>1, <1>7 DEF AppendToPending, IInv, SlotAccounting, PendingMeansFull,
                      OpenBlocks, ResolvedBlocks, PendingBlocks
  <2> QED BY <1>4, <2>1, <2>2, <2>3 DEF SlotStates
<1>8. CASE OpenAndPlace(b, p)
  <2>1. /\ slot' = [slot EXCEPT ![b] = "Open"] /\ bucket' = [bucket EXCEPT ![b] = bucket[b]]
        /\ blk' = [blk EXCEPT ![b] = Placed(b, NewBlockState, {p})] /\ slot[b] = "Unseen"
        /\ net' \in [Datagrams -> 0 .. MaxCopies]
        /\ open_slots < PipelineDepth /\ open_slots' = open_slots + 1
    BY <1>8, SendType DEF OpenAndPlace, PlaceChunks, WireTypeOK
  <2>2. Good(b, "Open", bucket[b], Placed(b, NewBlockState, {p}), chunks')
    BY <1>1, <1>2, <1>3, <2>1, GoodOpen
  <2>3. /\ OpenBlocks' = OpenBlocks \cup {b} /\ b \notin OpenBlocks
        /\ ResolvedBlocks' = ResolvedBlocks /\ PendingBlocks' = PendingBlocks
    <3>1. b \notin OpenBlocks /\ b \notin ResolvedBlocks /\ b \notin PendingBlocks
      BY <2>1 DEF OpenBlocks, ResolvedBlocks, PendingBlocks
    <3> QED BY <1>2, <2>1, <3>1, SetSlot
  <2>4. SlotAccounting'
    <3>1. Cardinality(OpenBlocks \cup {b}) = Cardinality(OpenBlocks) + 1
      BY <2>3, SlotsFinite, FS_AddElement
    <3> QED BY <1>1, <2>1, <2>3, <3>1, BlockManagerAssumption DEF SlotAccounting
  <2>5. PendingMeansFull'
    BY <2>1, <2>3, BlockManagerAssumption DEF IInv, PendingMeansFull
  <2> QED BY <1>4, <2>1, <2>2, <2>4, <2>5 DEF SlotStates
<1>9. CASE BufferNew(b, p)
  <2>1. /\ slot' = [slot EXCEPT ![b] = "Pending"] /\ bucket' = [bucket EXCEPT ![b] = {p}]
        /\ blk' = [blk EXCEPT ![b] = blk[b]] /\ slot[b] = "Unseen"
        /\ net' \in [Datagrams -> 0 .. MaxCopies]
        /\ open_slots >= PipelineDepth /\ open_slots' = open_slots
    BY <1>9 DEF BufferNew, WireTypeOK
  <2>2. Good(b, "Pending", {p}, blk[b], chunks')
    <3>1. bucket[b] \cup {p} = {p}
      BY <1>3, <2>1 DEF Good
    <3> QED BY <1>1, <1>2, <1>3, <2>1, <3>1, GoodBuffer
  <2>3. OpenBlocks' = OpenBlocks /\ ResolvedBlocks' = ResolvedBlocks
    <3>1. b \notin OpenBlocks /\ b \notin ResolvedBlocks
      BY <2>1 DEF OpenBlocks, ResolvedBlocks
    <3>2. slot' = [slot EXCEPT ![b] = "Pending"]
      BY <2>1
    <3>3. OpenBlocks' = OpenBlocks
      BY <1>2, <3>1, <3>2 DEF OpenBlocks
    <3>4. ResolvedBlocks' = ResolvedBlocks
      BY <1>2, <3>1, <3>2 DEF ResolvedBlocks
    <3> QED BY <3>3, <3>4
  <2>4. SlotAccounting' /\ PendingMeansFull'
    BY <1>1, <2>1, <2>3, BlockManagerAssumption DEF SlotAccounting, PendingMeansFull
  <2> QED BY <1>4, <2>1, <2>2, <2>4 DEF SlotStates
<1> QED BY <1>1, <1>5, <1>6, <1>7, <1>8, <1>9

(* BlockAck::Missing: only the cache is read and the timer restarted. *)
LEMMA MissingStep == IInv /\ OnMissing => IInv'
<1> SUFFICES ASSUME IInv, OnMissing PROVE IInv'
  OBVIOUS
<1> USE TypeFacts
<1> DEFINE b == Head(acks).block_id
<1>1. /\ Waiting /\ acks # <<>> /\ acks' = Tail(acks)
      /\ UNCHANGED <<chunks, ack_relay, mgr, faults, slot, bucket, open_slots, completed>>
      /\ \/ /\ slot[b] = "Open"
            /\ blk' = [blk EXCEPT ![b].quiet = 0]
            /\ Send(DataOf(b, Head(acks).missing \cap blk[b].cached))
         \/ UNCHANGED <<blk, net>>
  BY DEF OnMissing, TakeAck
<1> HIDE DEF b
<1>2. acks' \in Seq(BlockAcks) /\ net' \in [Datagrams -> 0 .. MaxCopies]
  BY <1>1, HeadTailProperties, SendType DEF WireTypeOK
<1>3. ASSUME NEW x \in BlockIds
      PROVE  /\ Good(x, slot'[x], bucket'[x], blk'[x], chunks')
             /\ blk'[x] \in BlockStates
  <2>1. Good(x, slot[x], bucket[x], blk[x], chunks)
    BY DEF IInv
  <2>2. CASE blk'[x] = blk[x]
    BY <1>1, <2>1, <2>2
  <2>3. CASE x = b /\ slot[x] = "Open" /\ blk' = [blk EXCEPT ![b].quiet = 0]
    <3>1. blk'[x] = [blk[x] EXCEPT !.quiet = 0]
      BY <2>3
    <3>2. /\ blk'[x] \in BlockStates
          /\ blk'[x].cached = blk[x].cached /\ blk'[x].sent = blk[x].sent
          /\ blk'[x].end_emitted = blk[x].end_emitted
      BY <3>1, BlockManagerAssumption DEF BlockStates
    <3>3. Good(x, "Open", bucket[x], blk'[x], chunks)
      BY <2>1, <2>3, <3>2, GoodTimer
    <3> QED BY <1>1, <2>3, <3>3 DEF Good
  <2> QED BY <1>1, <2>2, <2>3
<1>4. blk' \in [BlockIds -> BlockStates]
  <2>1. blk' = [x \in BlockIds |-> blk'[x]]
    BY <1>1
  <2> QED BY <1>3, <2>1
<1>5. MgrTypeOK'
  BY <1>1, <1>2, <1>4 DEF MgrTypeOK, SndTypeOK, WireTypeOK, IInv
<1>6. SlotAccounting' /\ PendingMeansFull' /\ ReturnIsHonest'
  BY <1>1 DEF IInv, SlotAccounting, PendingMeansFull, ReturnIsHonest, Waiting,
              OpenBlocks, ResolvedBlocks, PendingBlocks
<1> QED BY <1>3, <1>5, <1>6 DEF IInv

(* BlockAck::Complete. *)
LEMMA CompleteStep == IInv /\ OnComplete => IInv'
<1> SUFFICES ASSUME IInv, OnComplete PROVE IInv'
  OBVIOUS
<1> USE TypeFacts
<1> DEFINE b == Head(acks).block_id
<1>1. /\ Waiting /\ acks # <<>> /\ acks' = Tail(acks)
      /\ UNCHANGED <<chunks, ack_relay, mgr, faults, net>>
      /\ CompleteOpen(b) \/ CompleteUnopened(b) \/ CompleteAgain(b)
  BY DEF OnComplete, TakeAck
<1>2. b \in BlockIds
  <2>1. Head(acks) \in BlockAcks
    BY <1>1, HeadTailProperties DEF WireTypeOK
  <2> QED BY <2>1 DEF BlockAcks, Complete, Missing
<1>3. acks' \in Seq(BlockAcks)
  BY <1>1, HeadTailProperties DEF WireTypeOK
<1> HIDE DEF b
<1>4. ReturnIsHonest'
  BY <1>1 DEF ReturnIsHonest, Waiting
<1>5. PendingBlocks # {} => open_slots >= PipelineDepth
  BY <1>1, BlockManagerAssumption DEF Waiting, Admittable
<1>6. ASSUME Resolve(b), b \notin ResolvedBlocks, open_slots' \in Nat,
             open_slots' = Cardinality(OpenBlocks'), open_slots' <= PipelineDepth,
             open_slots' + 1 >= open_slots
      PROVE  IInv'
  <2>1. /\ slot' = [slot EXCEPT ![b] = "Resolved"]
        /\ bucket' = [bucket EXCEPT ![b] = {}]
        /\ blk' = [blk EXCEPT ![b] = NewBlockState]
        /\ completed' = completed + 1
    BY <1>6 DEF Resolve
  <2>2. /\ \A x \in BlockIds : Good(x, slot'[x], bucket'[x], blk'[x], chunks')
        /\ slot' \in [BlockIds -> SlotStates]
        /\ bucket' \in [BlockIds -> SUBSET (0 .. PacketsPerBlock - 1)]
        /\ blk' \in [BlockIds -> BlockStates]
    BY <1>1, <1>2, <2>1, GoodResolve, OneBlock DEF SlotStates
  <2>3. ResolvedBlocks' = ResolvedBlocks \cup {b} /\ PendingBlocks' \subseteq PendingBlocks
    <3>1. slot' = [slot EXCEPT ![b] = "Resolved"]
      BY <2>1
    <3> QED BY <1>2, <3>1 DEF ResolvedBlocks, PendingBlocks
  <2>4. Cardinality(ResolvedBlocks \cup {b}) = Cardinality(ResolvedBlocks) + 1
    BY <1>6, SlotsFinite, FS_AddElement
  <2>5. SlotAccounting'
    BY <1>6, <2>1, <2>3, <2>4 DEF SlotAccounting
  <2>6. PendingMeansFull'
    BY <1>5, <1>6, <2>3, BlockManagerAssumption DEF PendingMeansFull
  <2>7. MgrTypeOK'
    BY <1>1, <1>3, <1>6, <2>1, <2>2 DEF MgrTypeOK, SndTypeOK, WireTypeOK, IInv, SlotStates
  <2> QED BY <1>4, <2>2, <2>5, <2>6, <2>7 DEF IInv
<1>7. CASE CompleteOpen(b)
  <2>1. slot[b] = "Open" /\ Resolve(b) /\ open_slots' = open_slots - 1
    BY <1>7 DEF CompleteOpen
  <2>2. b \in OpenBlocks /\ b \notin ResolvedBlocks
    BY <1>2, <2>1 DEF OpenBlocks, ResolvedBlocks
  <2>3. OpenBlocks' = OpenBlocks \ {b}
    <3>1. slot' = [slot EXCEPT ![b] = "Resolved"]
      BY <2>1 DEF Resolve
    <3> QED BY <1>2, <3>1 DEF OpenBlocks
  <2>4. Cardinality(OpenBlocks \ {b}) = open_slots - 1 /\ open_slots - 1 \in Nat
    <3>1. Cardinality(OpenBlocks \ {b}) = Cardinality(OpenBlocks) - 1
      BY <2>2, SlotsFinite, FS_RemoveElement
    <3>2. Cardinality(OpenBlocks) # 0
      BY <2>2, SlotsFinite, FS_EmptySet
    <3> QED BY <3>1, <3>2
  <2> QED BY <1>6, <2>1, <2>2, <2>3, <2>4, BlockManagerAssumption
<1>8. CASE CompleteUnopened(b)
  <2>1. slot[b] # "Open" /\ slot[b] # "Resolved" /\ Resolve(b) /\ open_slots' = open_slots
    BY <1>8 DEF CompleteUnopened
  <2>2. b \notin OpenBlocks /\ b \notin ResolvedBlocks
    BY <2>1 DEF OpenBlocks, ResolvedBlocks
  <2>3. OpenBlocks' = OpenBlocks
    BY <1>2, <2>1, <2>2, SetSlot DEF Resolve
  <2> QED BY <1>6, <2>1, <2>2, <2>3
<1>9. CASE CompleteAgain(b)
  <2>1. UNCHANGED blockVars
    BY <1>9 DEF CompleteAgain
  <2>2. MgrTypeOK'
    BY <1>1, <1>3, <2>1 DEF MgrTypeOK, SndTypeOK, WireTypeOK, IInv, blockVars
  <2>3. SlotAccounting' /\ PendingMeansFull'
    BY <2>1 DEF IInv, SlotAccounting, PendingMeansFull, blockVars,
                OpenBlocks, ResolvedBlocks, PendingBlocks
  <2>4. \A x \in BlockIds : Good(x, slot'[x], bucket'[x], blk'[x], chunks')
    BY <1>1, <2>1 DEF IInv, blockVars
  <2> QED BY <1>4, <2>2, <2>3, <2>4 DEF IInv
<1> QED BY <1>1, <1>7, <1>8, <1>9

(* Two states of a block that differ in fallback_sent and quiet at most.   *)
SameData(n, s) == n.cached = s.cached /\ n.sent = s.sent /\ n.end_emitted = s.end_emitted

(* A step that changes at most the timers of open blocks, and sends.       *)
LEMMA TimerStep ==
  ASSUME IInv,
         UNCHANGED <<chunks, slot, bucket, open_slots, completed, ack_relay, mgr, acks, faults>>,
         mgr = "running",
         net' \in [Datagrams -> 0 .. MaxCopies],
         blk' = [x \in BlockIds |-> blk'[x]],
         \A x \in BlockIds :
           \/ blk'[x] = blk[x]
           \/ x \in OpenBlocks /\ blk'[x] \in BlockStates /\ SameData(blk'[x], blk[x])
  PROVE  IInv'
<1> USE TypeFacts
<1>1. ASSUME NEW x \in BlockIds
      PROVE  /\ Good(x, slot'[x], bucket'[x], blk'[x], chunks')
             /\ blk'[x] \in BlockStates
  <2>1. Good(x, slot[x], bucket[x], blk[x], chunks)
    BY DEF IInv
  <2>2. CASE blk'[x] = blk[x]
    BY <2>1, <2>2
  <2>3. CASE blk'[x] # blk[x]
    <3>1. slot[x] = "Open" /\ blk'[x] \in BlockStates /\ SameData(blk'[x], blk[x])
      BY <2>3 DEF OpenBlocks
    <3>2. Good(x, "Open", bucket[x], blk'[x], chunks)
      BY <2>1, <3>1, GoodTimer DEF SameData
    <3> QED BY <3>1, <3>2
  <2> QED BY <2>2, <2>3
<1>2. blk' \in [BlockIds -> BlockStates]
  BY <1>1
<1>3. MgrTypeOK'
  BY <1>2 DEF MgrTypeOK, SndTypeOK, WireTypeOK, IInv
<1>4. SlotAccounting' /\ PendingMeansFull' /\ ReturnIsHonest'
  BY DEF IInv, SlotAccounting, PendingMeansFull, ReturnIsHonest,
         OpenBlocks, ResolvedBlocks, PendingBlocks
<1> QED BY <1>1, <1>3, <1>4 DEF IInv

(* retransmit_stale_blocks. *)
LEMMA RetransmitStep == IInv /\ RetransmitStale => IInv'
<1> SUFFICES ASSUME IInv, RetransmitStale PROVE IInv'
  OBVIOUS
<1>1. /\ mgr = "running"
      /\ UNCHANGED <<chunks, slot, bucket, open_slots, completed, ack_relay, mgr, acks, faults>>
      /\ blk' = [b \in BlockIds |->
                   IF b \in StaleBlocks
                   THEN [blk[b] EXCEPT !.fallback_sent = TRUE, !.quiet = 0]
                   ELSE blk[b]]
      /\ net' \in [Datagrams -> 0 .. MaxCopies]
  BY TypeFacts, SendType DEF RetransmitStale, Waiting, WireTypeOK
<1>2. ASSUME NEW x \in BlockIds, blk'[x] # blk[x]
      PROVE  x \in OpenBlocks /\ blk'[x] \in BlockStates /\ SameData(blk'[x], blk[x])
  <2>1. x \in OpenBlocks /\ blk'[x] = [blk[x] EXCEPT !.fallback_sent = TRUE, !.quiet = 0]
    BY <1>1, <1>2 DEF StaleBlocks
  <2>2. blk[x] \in BlockStates
    BY TypeFacts
  <2>3. 0 \in 0 .. StaleAfter
    BY BlockManagerAssumption
  <2>4. /\ blk'[x].cached = blk[x].cached /\ blk'[x].sent = blk[x].sent
        /\ blk'[x].end_emitted = blk[x].end_emitted
    BY <2>1, <2>2 DEF BlockStates
  <2>5. blk'[x] = [cached |-> blk[x].cached, sent |-> blk[x].sent,
                   end_emitted |-> blk[x].end_emitted, fallback_sent |-> TRUE, quiet |-> 0]
    BY <2>1, <2>2 DEF BlockStates
  <2>6. /\ blk[x].cached \in SUBSET (0 .. PacketsPerBlock - 1)
        /\ blk[x].sent \in 0 .. PacketsPerBlock /\ blk[x].end_emitted \in BOOLEAN
    BY <2>2 DEF BlockStates
  <2>7. blk'[x] \in BlockStates
    BY <2>3, <2>5, <2>6 DEF BlockStates
  <2> QED BY <2>1, <2>4, <2>7 DEF SameData
<1>3. \A x \in BlockIds :
        \/ blk'[x] = blk[x]
        \/ x \in OpenBlocks /\ blk'[x] \in BlockStates /\ SameData(blk'[x], blk[x])
  BY <1>2
<1>4. blk' = [x \in BlockIds |-> blk'[x]]
  BY <1>1
<1> QED BY <1>1, <1>3, <1>4, TimerStep

(* The passage of time. *)
LEMMA TickStep == IInv /\ SndTick => IInv'
<1> SUFFICES ASSUME IInv, SndTick PROVE IInv'
  OBVIOUS
<1>1. /\ mgr = "running"
      /\ UNCHANGED <<chunks, slot, bucket, open_slots, completed, ack_relay, mgr, acks, faults, net>>
      /\ blk' = [b \in BlockIds |->
                   IF b \in OpenBlocks /\ blk[b].quiet < StaleAfter
                   THEN [blk[b] EXCEPT !.quiet = @ + 1]
                   ELSE blk[b]]
  BY DEF SndTick, wireVars
<1>2. ASSUME NEW x \in BlockIds, blk'[x] # blk[x]
      PROVE  x \in OpenBlocks /\ blk'[x] \in BlockStates /\ SameData(blk'[x], blk[x])
  <2>1. /\ x \in OpenBlocks /\ blk[x].quiet < StaleAfter
        /\ blk'[x] = [blk[x] EXCEPT !.quiet = blk[x].quiet + 1]
    BY <1>1, <1>2
  <2>2. blk[x] \in BlockStates
    BY TypeFacts
  <2>3. blk[x].quiet + 1 \in 0 .. StaleAfter
    BY <2>1, <2>2, BlockManagerAssumption DEF BlockStates
  <2> QED BY <2>1, <2>2, <2>3 DEF BlockStates, SameData
<1>3. net' \in [Datagrams -> 0 .. MaxCopies]
  BY <1>1, TypeFacts DEF WireTypeOK
<1>4. blk' = [x \in BlockIds |-> blk'[x]]
  BY <1>1
<1> QED BY <1>1, <1>2, <1>3, <1>4, TimerStep

(* The two ways the loop ends.  Ok: as many blocks are resolved as there   *)
(* are, so all of them are.                                                *)
LEMMA EndStep == IInv /\ (Return \/ Disconnected) => IInv'
<1> SUFFICES ASSUME IInv, Return \/ Disconnected PROVE IInv'
  OBVIOUS
<1> USE TypeFacts
<1>1. /\ mgr' \in {"ok", "err"}
      /\ UNCHANGED <<chunks, blockVars, ack_relay, faults, net, acks>>
  BY DEF Return, Disconnected, wireVars
<1>2. MgrTypeOK' /\ SlotAccounting' /\ PendingMeansFull'
  BY <1>1 DEF MgrTypeOK, SndTypeOK, WireTypeOK, IInv, blockVars, SlotAccounting,
              PendingMeansFull, OpenBlocks, ResolvedBlocks, PendingBlocks
<1>3. \A x \in BlockIds : Good(x, slot'[x], bucket'[x], blk'[x], chunks')
  BY <1>1 DEF IInv, blockVars
<1>4. ResolvedBlocks' = ResolvedBlocks
  BY <1>1 DEF blockVars, ResolvedBlocks
<1>5. CASE Return
  <2>1. completed >= TotalBlocks /\ mgr' = "ok"
    BY <1>5 DEF Return
  <2>2. ResolvedBlocks = BlockIds
    BY <2>1, SlotsFinite, BlockFacts
  <2> QED BY <1>2, <1>3, <1>4, <2>1, <2>2 DEF IInv, ReturnIsHonest
<1>6. CASE Disconnected
  <2>1. /\ completed < TotalBlocks /\ mgr' = "err"
        /\ ~ack_relay /\ ~ack_relay'
    BY <1>6 DEF Disconnected, Waiting
  <2>2. ResolvedBlocks # BlockIds
    BY <2>1, SlotsFinite, BlockFacts
  <2> QED BY <1>2, <1>3, <1>4, <2>1, <2>2 DEF IInv, ReturnIsHonest
<1> QED BY <1>5, <1>6

(* The environment touches nothing but the control connection. *)
LEMMA EnvStep ==
  ASSUME IInv,
         \/ \E ack \in BlockAcks : PeerAck(ack)
         \/ ControlLost
  PROVE  IInv'
<1> USE TypeFacts
<1>1. /\ UNCHANGED <<chunks, blockVars, mgr, net, faults>>
      /\ ack_relay' = ack_relay \/ ack_relay' = FALSE
  BY DEF PeerAck, ControlLost, sndVars, blockVars
<1>2. acks' \in Seq(BlockAcks)
  <2>1. acks \in Seq(BlockAcks)
    BY DEF WireTypeOK
  <2>2. CASE \E ack \in BlockAcks : PeerAck(ack)
    BY <2>1, <2>2 DEF PeerAck
  <2>3. CASE ControlLost
    <3>1. PICK n \in 0 .. Len(acks) : acks' = SubSeq(acks, 1, n)
      BY <2>3 DEF ControlLost
    <3>2. Len(acks) \in Nat /\ \A i \in 1 .. n : acks[i] \in BlockAcks
      BY <2>1, ElementOfSeq, LenProperties
    <3> QED BY <3>1, <3>2, SubSeqProperties
  <2> QED BY <2>2, <2>3
<1>3. MgrTypeOK'
  BY <1>1, <1>2 DEF MgrTypeOK, SndTypeOK, WireTypeOK, IInv, blockVars
<1>4. SlotAccounting' /\ PendingMeansFull' /\ ReturnIsHonest'
  BY <1>1 DEF IInv, SlotAccounting, PendingMeansFull, ReturnIsHonest, blockVars,
              OpenBlocks, ResolvedBlocks, PendingBlocks
<1>5. \A x \in BlockIds : Good(x, slot'[x], bucket'[x], blk'[x], chunks')
  BY <1>1 DEF IInv, blockVars
<1> QED BY <1>3, <1>4, <1>5 DEF IInv

-------------------------------------------------------------------------------
(* Every step preserves the invariant. *)
LEMMA StepInv == IInv /\ [MgrNext]_mgrVars => IInv'
<1> SUFFICES ASSUME IInv, [MgrNext]_mgrVars PROVE IInv'
  OBVIOUS
<1>1. CASE DrainPending
  BY <1>1, DrainStep
<1>2. CASE \E c \in chunks : AdmitOrBuffer(c)
  BY <1>2, AdmitStep
<1>3. CASE OnMissing
  BY <1>3, MissingStep
<1>4. CASE OnComplete
  BY <1>4, CompleteStep
<1>5. CASE RetransmitStale
  BY <1>5, RetransmitStep
<1>6. CASE SndTick
  BY <1>6, TickStep
<1>7. CASE Return \/ Disconnected
  BY <1>7, EndStep
<1>8. CASE ControlLost \/ \E ack \in BlockAcks : PeerAck(ack)
  BY <1>8, EnvStep
<1>9. CASE UNCHANGED mgrVars
  <2>1. UNCHANGED <<chunks, slot, bucket, blk, open_slots, completed, ack_relay, mgr,
                    net, acks, faults>>
    BY <1>9 DEF mgrVars, sndVars, wireVars
  <2>2. MgrTypeOK'
    BY <2>1 DEF IInv, MgrTypeOK, SndTypeOK, WireTypeOK
  <2>3. SlotAccounting' /\ PendingMeansFull' /\ ReturnIsHonest'
    BY <2>1 DEF IInv, SlotAccounting, PendingMeansFull, ReturnIsHonest,
                OpenBlocks, ResolvedBlocks, PendingBlocks
  <2>4. \A x \in BlockIds : Good(x, slot'[x], bucket'[x], blk'[x], chunks')
    BY <2>1 DEF IInv
  <2> QED BY <2>2, <2>3, <2>4 DEF IInv
<1> QED BY <1>1, <1>2, <1>3, <1>4, <1>5, <1>6, <1>7, <1>8, <1>9
        DEF MgrNext, SndNext, Terminated

(* block_manager_loop keeps the inductive invariant in every behaviour.    *)
THEOREM Invariance == MgrSpec => []IInv
<1>1. MgrInit => IInv
  BY InitInv
<1>2. IInv /\ [MgrNext]_mgrVars => IInv'
  BY StepInv
<1> QED BY <1>1, <1>2, PTL DEF MgrSpec

(* The manager's state keeps its type for every file, block size, pipeline *)
(* depth and order of events: in particular the u16 sent counter of        *)
(* BlockState never passes the block's size.                               *)
THEOREM TypeCorrect == MgrSpec => []MgrTypeOK
<1>1. IInv => MgrTypeOK
  BY DEF IInv
<1> QED BY <1>1, Invariance, PTL

(* open_slots and completed of block_manager_loop always agree with the    *)
(* map block_states, and the pipeline budget is never overrun.             *)
THEOREM SlotsAccounted == MgrSpec => []SlotAccounting
<1>1. IInv => SlotAccounting
  BY DEF IInv
<1> QED BY <1>1, Invariance, PTL

(* admit_or_buffer and drain_pending lose and duplicate no chunk of an     *)
(* unresolved block.                                                       *)
THEOREM ChunksConserved == MgrSpec => []ChunkConservation
<1>1. IInv => ChunkConservation
  <2> SUFFICES ASSUME IInv, NEW b \in BlockIds
               PROVE  /\ \A p \in PacketIds(b) :
                           LET coming == chunk_id_of(b, p) \in chunks
                           IN  /\ slot[b] = "Unseen"  => coming
                               /\ slot[b] = "Pending" => coming = (p \notin bucket[b])
                               /\ slot[b] = "Open"    => coming = (p \notin blk[b].cached)
                      /\ blk[b].sent = Cardinality(blk[b].cached)
    BY DEF ChunkConservation
  <2>1. Good(b, slot[b], bucket[b], blk[b], chunks)
    BY DEF IInv
  <2>2. blk[b].sent = Cardinality(blk[b].cached)
    BY <2>1 DEF Good
  <2>3. ASSUME NEW p \in PacketIds(b)
        PROVE  /\ slot[b] = "Unseen"  => chunk_id_of(b, p) \in chunks
               /\ slot[b] = "Pending" => (chunk_id_of(b, p) \in chunks <=> p \notin bucket[b])
               /\ slot[b] = "Open"    => (chunk_id_of(b, p) \in chunks <=> p \notin blk[b].cached)
    BY <2>1 DEF Good
  <2> QED BY <2>2, <2>3
<1> QED BY <1>1, Invariance, PTL

(* The assert of place_chunk never fails, and BlockEnd has been emitted    *)
(* for exactly the open blocks whose every packet is cached.               *)
THEOREM AssertHolds == MgrSpec => []BlockEndAssert
<1>1. IInv => BlockEndAssert
  <2> SUFFICES ASSUME IInv, NEW b \in OpenBlocks
               PROVE  /\ blk[b].sent = Total(b) => blk[b].cached = PacketIds(b)
                      /\ blk[b].end_emitted <=> blk[b].sent = Total(b)
    BY DEF BlockEndAssert
  <2>1. b \in BlockIds /\ slot[b] = "Open"
    BY DEF OpenBlocks
  <2>2. Good(b, slot[b], bucket[b], blk[b], chunks)
    BY <2>1 DEF IInv
  <2>3. /\ blk[b].cached \subseteq PacketIds(b)
        /\ blk[b].sent = Cardinality(blk[b].cached)
        /\ blk[b].end_emitted <=> blk[b].sent = Total(b)
    BY <2>1, <2>2 DEF Good
  <2>4. IsFiniteSet(PacketIds(b)) /\ Cardinality(PacketIds(b)) = Total(b)
    BY <2>1, BlockFacts
  <2>5. \A S \in SUBSET PacketIds(b) : Cardinality(S) = Total(b) => S = PacketIds(b)
    BY <2>4, FS_Subset
  <2>6. blk[b].sent = Total(b) => blk[b].cached = PacketIds(b)
    BY <2>3, <2>5
  <2> QED BY <2>3, <2>6
<1> QED BY <1>1, Invariance, PTL

(* Whenever the manager waits or works, buffered blocks mean a pipeline    *)
(* that is full up to the slot a Complete has just freed.                  *)
THEOREM PipelineKeptFull == MgrSpec => []PendingMeansFull
<1>1. IInv => PendingMeansFull
  BY DEF IInv
<1> QED BY <1>1, Invariance, PTL

(* block_manager_loop returns Ok only with every block resolved, and Err   *)
(* only without.                                                           *)
THEOREM ReturnHonest == MgrSpec => []ReturnIsHonest
<1>1. IInv => ReturnIsHonest
  BY DEF IInv
<1> QED BY <1>1, Invariance, PTL

-------------------------------------------------------------------------------
(* Setting the entry of one block to a later state moves no block back. *)
LEMMA SetForward ==
  ASSUME NEW b \in BlockIds, NEW v \in SlotStates,
         slot \in [BlockIds -> SlotStates],
         slot' = [slot EXCEPT ![b] = v],
         Rank(slot[b]) <= Rank(v)
  PROVE  \A x \in BlockIds : Rank(slot[x]) <= Rank(slot'[x])
<1>1. \A s \in SlotStates : Rank(s) \in Nat
  BY DEF SlotStates, Rank
<1>2. ASSUME NEW x \in BlockIds PROVE Rank(slot[x]) <= Rank(slot'[x])
  <2>1. CASE x = b
    BY <2>1
  <2>2. CASE x # b
    BY <1>1, <2>2
  <2> QED BY <2>1, <2>2
<1> QED BY <1>2

(* A block's entry in block_states only moves forward: no chunk reopens or *)
(* buffers a block that a Complete has resolved.                           *)
THEOREM BlocksMoveForward == MgrSpec => ForwardOnly
<1> DEFINE Forward == \A b \in BlockIds : Rank(slot[b]) <= Rank(slot'[b])
<1>1. IInv /\ [MgrNext]_mgrVars => [Forward]_mgrVars
  <2> SUFFICES ASSUME IInv, MgrNext PROVE Forward
    OBVIOUS
  <2>0. slot \in [BlockIds -> SlotStates]
    BY TypeFacts
  <2>1. ASSUME slot' = slot PROVE Forward
    BY <2>0, <2>1 DEF Rank, SlotStates
  <2>2. CASE DrainPending
    <3>1. PICK b \in PendingBlocks : slot' = [slot EXCEPT ![b] = "Open"]
      BY <2>2 DEF DrainPending
    <3>2. b \in BlockIds /\ slot[b] = "Pending"
      BY DEF PendingBlocks
    <3>3. Rank(slot[b]) <= Rank("Open") /\ "Open" \in SlotStates
      BY <3>2 DEF Rank, SlotStates
    <3> QED BY <2>0, <3>1, <3>2, <3>3, SetForward
  <2>3. CASE \E c \in chunks : AdmitOrBuffer(c)
    <3>1. PICK c \in chunks : AdmitOrBuffer(c)
      BY <2>3
    <3> DEFINE b == block_of(c)[1]
    <3>2. b \in BlockIds
      BY FrameFacts, TypeFacts
    <3>3. \/ slot' = slot
          \/ slot[b] = "Unseen" /\ \E v \in {"Open", "Pending"} : slot' = [slot EXCEPT ![b] = v]
      BY <3>1 DEF AdmitOrBuffer, DropStale, PlaceIntoOpen, AppendToPending,
                  OpenAndPlace, BufferNew
    <3> HIDE DEF b
    <3>4. ASSUME slot[b] = "Unseen", NEW v \in {"Open", "Pending"},
                 slot' = [slot EXCEPT ![b] = v]
          PROVE  Forward
      <4>1. Rank(slot[b]) <= Rank(v) /\ v \in SlotStates
        BY <3>4 DEF Rank, SlotStates
      <4> QED BY <2>0, <3>2, <3>4, <4>1, SetForward
    <3> QED BY <2>1, <3>3, <3>4
  <2>4. CASE OnComplete
    <3> DEFINE b == Head(acks).block_id
    <3>1. slot' = slot \/ slot' = [slot EXCEPT ![b] = "Resolved"]
      BY <2>4 DEF OnComplete, CompleteOpen, CompleteUnopened, CompleteAgain, Resolve, blockVars
    <3>2. acks # <<>> /\ acks \in Seq(BlockAcks)
      BY <2>4, TypeFacts DEF OnComplete, TakeAck, WireTypeOK
    <3>3. Head(acks) \in BlockAcks
      BY <3>2, HeadTailProperties
    <3>4. b \in BlockIds
      BY <3>3 DEF BlockAcks, Complete, Missing
    <3> HIDE DEF b
    <3>5. Rank(slot[b]) <= Rank("Resolved") /\ "Resolved" \in SlotStates
      BY <2>0, <3>4 DEF Rank, SlotStates
    <3> QED BY <2>0, <2>1, <3>1, <3>4, <3>5, SetForward
  <2>5. CASE OnMissing \/ RetransmitStale \/ SndTick \/ Return \/ Disconnected
             \/ ControlLost \/ Terminated \/ \E ack \in BlockAcks : PeerAck(ack)
    <3>1. slot' = slot
      BY <2>5 DEF OnMissing, RetransmitStale, SndTick, Return, Disconnected, ControlLost,
                  Terminated, PeerAck, blockVars, sndVars, mgrVars
    <3> QED BY <2>1, <3>1
  <2> QED BY <2>2, <2>3, <2>4, <2>5 DEF MgrNext, SndNext
<1> QED BY <1>1, Invariance, PTL DEF MgrSpec, ForwardOnly

-------------------------------------------------------------------------------
(* The order of the block manager's datagrams: BlockEnd follows the data   *)
(* of its block, for every file, pipeline depth and order of events.       *)


(* Cache before send, seen from the network: what is cached of a block has *)
(* been sent.  With it, EndAfterData is inductive.                         *)
CachedSent == \A b \in BlockIds : DataOf(b, blk[b].cached) \subseteq InFlight

WInv == IInv /\ CachedSent /\ EndAfterData

-------------------------------------------------------------------------------
(* place_chunk sends what it caches, and BlockEnd with the packet that     *)
(* fills the cache.                                                        *)
LEMMA PlaceSends ==
  ASSUME WInv, NEW b \in BlockIds, NEW s \in BlockStates, NEW ps,
         ps \subseteq PacketIds(b), s.cached \subseteq PacketIds(b),
         ps \cap s.cached = {},
         s.sent = Cardinality(s.cached),
         s.end_emitted => s.sent = Total(b),
         DataOf(b, s.cached) \subseteq InFlight,
         PlaceChunks(b, s, ps)
  PROVE  CachedSent' /\ EndAfterData'
<1> DEFINE new == Placed(b, s, ps)
           ds  == DataOf(b, ps) \cup (IF EndsBlock(b, s, ps) THEN {BlockEnd(b, Total(b))} ELSE {})
<1>1. blk' = [blk EXCEPT ![b] = new] /\ Send(ds)
  BY DEF PlaceChunks
<1>2. /\ new.cached = s.cached \cup ps /\ new.cached \subseteq PacketIds(b)
      /\ new.sent = Cardinality(new.cached)
  BY PlacedFacts
<1>3. new.sent = s.sent + Cardinality(ps)
  BY DEF Placed
<1>4. blk \in [BlockIds -> BlockStates] /\ WireTypeOK
  BY TypeFacts DEF WInv
<1>5. /\ InFlight \subseteq InFlight' /\ ds \cap Datagrams \subseteq InFlight'
      /\ InFlight' \subseteq InFlight \cup ds
  <2> HIDE DEF ds
  <2> QED BY <1>1, <1>4, SendFacts
<1> HIDE DEF new
<1>6. DataOf(b, new.cached) \subseteq InFlight'
  <2>1. DataOf(b, ps) \subseteq ds \cap Datagrams
    BY DatagramFacts
  <2> QED BY <1>2, <1>5, <2>1, DatagramFacts
<1>7. CachedSent'
  <2> SUFFICES ASSUME NEW x \in BlockIds
               PROVE  DataOf(x, blk'[x].cached) \subseteq InFlight'
    BY DEF CachedSent, DataOf, Data
  <2>1. CASE x = b
    BY <1>1, <1>4, <1>6, <2>1
  <2>2. CASE x # b
    BY <1>1, <1>4, <1>5, <2>2 DEF WInv, CachedSent
  <2> QED BY <2>1, <2>2
<1>8. EndAfterData'
  <2> SUFFICES ASSUME NEW x \in BlockIds, BlockEnd(x, Total(x)) \in InFlight'
               PROVE  DataOf(x, PacketIds(x)) \subseteq InFlight'
    BY DEF EndAfterData, DataOf, Data, BlockEnd
  <2>1. CASE BlockEnd(x, Total(x)) \in InFlight
    BY <1>5, <2>1 DEF WInv, EndAfterData
  <2>2. CASE BlockEnd(x, Total(x)) \notin InFlight
    <3>1. BlockEnd(x, Total(x)) \in ds
      BY <1>5, <2>2
    <3>2. EndsBlock(b, s, ps) /\ x = b
      BY <3>1, DatagramFacts
    <3>3. Cardinality(new.cached) = Total(b)
      BY <1>2, <1>3, <3>2 DEF EndsBlock
    <3>4. new.cached = PacketIds(b)
      BY <1>2, <3>3, FullBlock
    <3> QED BY <1>6, <3>2, <3>4
  <2> QED BY <2>1, <2>2
<1> QED BY <1>7, <1>8

(* A step that caches nothing, and sends the end of a block only when all  *)
(* of the block has been sent.                                             *)
LEMMA CachesNothing ==
  ASSUME WInv,
         InFlight \subseteq InFlight',
         \A b \in BlockIds : BlockEnd(b, Total(b)) \in InFlight' =>
           BlockEnd(b, Total(b)) \in InFlight \/ DataOf(b, PacketIds(b)) \subseteq InFlight,
         \A b \in BlockIds : blk'[b].cached = blk[b].cached \/ blk'[b].cached = {}
  PROVE  CachedSent' /\ EndAfterData'
<1>1. ASSUME NEW b \in BlockIds PROVE DataOf(b, blk'[b].cached) \subseteq InFlight'
  <2>1. DataOf(b, blk[b].cached) \subseteq InFlight
    BY DEF WInv, CachedSent
  <2>2. CASE blk'[b].cached = blk[b].cached
    BY <2>1, <2>2
  <2>3. CASE blk'[b].cached = {}
    BY <2>3, DatagramFacts
  <2> QED BY <2>2, <2>3
<1>2. CachedSent'
  BY <1>1 DEF CachedSent, DataOf, Data
<1>3. ASSUME NEW b \in BlockIds, BlockEnd(b, Total(b)) \in InFlight'
      PROVE  DataOf(b, PacketIds(b)) \subseteq InFlight'
  BY <1>3 DEF WInv, EndAfterData
<1>4. EndAfterData'
  BY <1>3 DEF EndAfterData, DataOf, Data, BlockEnd
<1> QED BY <1>2, <1>4

(* drain_pending. *)
LEMMA DrainWire == WInv /\ DrainPending => CachedSent' /\ EndAfterData'
<1> SUFFICES ASSUME WInv, DrainPending PROVE CachedSent' /\ EndAfterData'
  OBVIOUS
<1>1. PICK b \in PendingBlocks : PlaceChunks(b, NewBlockState, bucket[b])
  BY DEF DrainPending
<1>2. b \in BlockIds /\ Good(b, slot[b], bucket[b], blk[b], chunks)
  BY DEF PendingBlocks, WInv, IInv
<1>3. bucket[b] \subseteq PacketIds(b)
  BY <1>2 DEF Good
<1>4. DataOf(b, NewBlockState.cached) \subseteq InFlight
  BY <1>2, NewBlockStateFacts, DatagramFacts
<1> QED BY <1>1, <1>2, <1>3, <1>4, NewBlockStateFacts, PlaceSends

(* admit_or_buffer. *)
LEMMA AdmitWire ==
  ASSUME NEW c \in chunks, WInv, AdmitOrBuffer(c)
  PROVE  CachedSent' /\ EndAfterData'
<1> DEFINE b == block_of(c)[1]
           p == block_of(c)[2]
<1>1. /\ c \in ChunkIds
      /\ \/ DropStale(b) \/ PlaceIntoOpen(b, p) \/ AppendToPending(b, p)
         \/ OpenAndPlace(b, p) \/ BufferNew(b, p)
  BY TypeFacts DEF AdmitOrBuffer, WInv
<1>2. /\ b \in BlockIds /\ p \in PacketIds(b) /\ chunk_id_of(b, p) = c
      /\ Good(b, slot[b], bucket[b], blk[b], chunks)
      /\ DataOf(b, blk[b].cached) \subseteq InFlight
  BY <1>1, FrameFacts DEF WInv, IInv, CachedSent
<1> HIDE DEF b, p
<1>3. CASE PlaceIntoOpen(b, p)
  <2>1. slot[b] = "Open" /\ PlaceChunks(b, blk[b], {p})
    BY <1>3 DEF PlaceIntoOpen
  <2>2. /\ blk[b] \in BlockStates /\ blk[b].cached \subseteq PacketIds(b)
        /\ p \notin blk[b].cached /\ blk[b].sent = Cardinality(blk[b].cached)
        /\ blk[b].end_emitted => blk[b].sent = Total(b)
    BY <1>2, <2>1 DEF Good
  <2> QED BY <1>2, <2>1, <2>2, PlaceSends
<1>4. CASE OpenAndPlace(b, p)
  <2>1. PlaceChunks(b, NewBlockState, {p})
    BY <1>4 DEF OpenAndPlace
  <2>2. DataOf(b, NewBlockState.cached) \subseteq InFlight
    BY <1>2, NewBlockStateFacts, DatagramFacts
  <2> QED BY <1>2, <2>1, <2>2, NewBlockStateFacts, PlaceSends
<1>5. CASE DropStale(b) \/ AppendToPending(b, p) \/ BufferNew(b, p)
  <2>1. UNCHANGED <<blk, net>>
    BY <1>5 DEF DropStale, AppendToPending, BufferNew
  <2> QED BY <2>1, CachesNothing DEF InFlight
<1> QED BY <1>1, <1>3, <1>4, <1>5

(* BlockAck::Missing resends data only. *)
LEMMA MissingWire == WInv /\ OnMissing => CachedSent' /\ EndAfterData'
<1> SUFFICES ASSUME WInv, OnMissing PROVE CachedSent' /\ EndAfterData'
  OBVIOUS
<1> DEFINE b == Head(acks).block_id
<1>1. blk \in [BlockIds -> BlockStates] /\ WireTypeOK
  BY TypeFacts DEF WInv
<1>2. \/ UNCHANGED <<blk, net>>
      \/ \E ps : blk' = [blk EXCEPT ![b].quiet = 0] /\ Send(DataOf(b, ps))
  BY DEF OnMissing
<1>3. CASE UNCHANGED <<blk, net>>
  BY <1>3, CachesNothing DEF InFlight
<1>4. ASSUME NEW ps, blk' = [blk EXCEPT ![b].quiet = 0], Send(DataOf(b, ps))
      PROVE  CachedSent' /\ EndAfterData'
  <2> HIDE DEF b
  <2>1. InFlight \subseteq InFlight' /\ InFlight' \subseteq InFlight \cup DataOf(b, ps)
    BY <1>1, <1>4, SendFacts
  <2>2. \A x \in BlockIds : BlockEnd(x, Total(x)) \notin DataOf(b, ps)
    BY DEF BlockEnd, DataOf, Data
  <2>3. \A x \in BlockIds : blk'[x].cached = blk[x].cached
    BY <1>1, <1>4 DEF BlockStates
  <2> QED BY <2>1, <2>2, <2>3, CachesNothing
<1> QED BY <1>2, <1>3, <1>4

(* retransmit_stale_blocks resends the end only of a block whose BlockEnd  *)
(* was emitted before, hence of one that is cached in full.                *)
LEMMA RetransmitWire == WInv /\ RetransmitStale => CachedSent' /\ EndAfterData'
<1> SUFFICES ASSUME WInv, RetransmitStale PROVE CachedSent' /\ EndAfterData'
  OBVIOUS
<1> DEFINE ds == UNION {DataOf(b, blk[b].cached) \cup {BlockEnd(b, Total(b))} : b \in StaleBlocks}
<1>1. blk \in [BlockIds -> BlockStates] /\ WireTypeOK
  BY TypeFacts DEF WInv
<1>2. /\ Send(ds)
      /\ blk' = [b \in BlockIds |->
                   IF b \in StaleBlocks
                   THEN [blk[b] EXCEPT !.fallback_sent = TRUE, !.quiet = 0]
                   ELSE blk[b]]
  BY DEF RetransmitStale
<1>3. \A x \in BlockIds : blk'[x].cached = blk[x].cached
  <2> TAKE x \in BlockIds
  <2>1. blk[x] \in BlockStates
    BY <1>1
  <2> QED BY <1>2, <2>1 DEF BlockStates
<1>4. ASSUME NEW x \in BlockIds, BlockEnd(x, Total(x)) \in ds
      PROVE  DataOf(x, PacketIds(x)) \subseteq InFlight
  <2>1. PICK b \in StaleBlocks :
          BlockEnd(x, Total(x)) \in DataOf(b, blk[b].cached) \cup {BlockEnd(b, Total(b))}
    BY <1>4
  <2>2. b \in BlockIds /\ slot[b] = "Open" /\ blk[b].end_emitted
    BY DEF StaleBlocks, OpenBlocks
  <2>3. x = b
    BY <2>1, <2>2, DatagramFacts
  <2>4. Good(b, slot[b], bucket[b], blk[b], chunks)
    BY <2>2 DEF WInv, IInv
  <2>5. blk[b].cached \subseteq PacketIds(b) /\ Cardinality(blk[b].cached) = Total(b)
    BY <2>2, <2>4 DEF Good
  <2>6. blk[b].cached = PacketIds(b)
    BY <2>2, <2>5, FullBlock
  <2> QED BY <2>2, <2>3, <2>6 DEF WInv, CachedSent
<1> HIDE DEF ds
<1>5. InFlight \subseteq InFlight' /\ InFlight' \subseteq InFlight \cup ds
  BY <1>1, <1>2, SendFacts
<1> QED BY <1>3, <1>4, <1>5, CachesNothing

(* BlockAck::Complete empties a cache and sends nothing. *)
LEMMA CompleteWire == WInv /\ OnComplete => CachedSent' /\ EndAfterData'
<1> SUFFICES ASSUME WInv, OnComplete PROVE CachedSent' /\ EndAfterData'
  OBVIOUS
<1> DEFINE b == Head(acks).block_id
<1>1. /\ net' = net
      /\ blk' = blk \/ blk' = [blk EXCEPT ![b] = NewBlockState]
  BY DEF OnComplete, CompleteOpen, CompleteUnopened, CompleteAgain, Resolve, blockVars
<1>2. blk \in [BlockIds -> BlockStates]
  BY TypeFacts DEF WInv
<1>3. \A x \in BlockIds : blk'[x].cached = blk[x].cached \/ blk'[x].cached = {}
  BY <1>1, <1>2, NewBlockStateFacts
<1> QED BY <1>1, <1>3, CachesNothing DEF InFlight

(* The steps that send and cache nothing. *)
LEMMA QuietWire ==
  ASSUME WInv, net' = net,
         \A x \in BlockIds : blk'[x].cached = blk[x].cached
  PROVE  CachedSent' /\ EndAfterData'
  BY CachesNothing DEF InFlight

(* Every step keeps the order of the datagrams. *)
LEMMA WireStep == WInv /\ [MgrNext]_mgrVars => CachedSent' /\ EndAfterData'
<1> SUFFICES ASSUME WInv, [MgrNext]_mgrVars PROVE CachedSent' /\ EndAfterData'
  OBVIOUS
<1>1. CASE DrainPending
  BY <1>1, DrainWire
<1>2. CASE \E c \in chunks : AdmitOrBuffer(c)
  BY <1>2, AdmitWire
<1>3. CASE OnMissing
  BY <1>3, MissingWire
<1>4. CASE OnComplete
  BY <1>4, CompleteWire
<1>5. CASE RetransmitStale
  BY <1>5, RetransmitWire
<1>6. CASE SndTick
  <2>1. blk \in [BlockIds -> BlockStates]
    BY TypeFacts DEF WInv
  <2>2. /\ net' = net
        /\ blk' = [b \in BlockIds |->
                     IF b \in OpenBlocks /\ blk[b].quiet < StaleAfter
                     THEN [blk[b] EXCEPT !.quiet = @ + 1]
                     ELSE blk[b]]
    BY <1>6 DEF SndTick, wireVars
  <2>3. ASSUME NEW x \in BlockIds PROVE blk'[x].cached = blk[x].cached
    <3>1. blk[x] \in BlockStates
      BY <2>1
    <3> QED BY <2>2, <3>1 DEF BlockStates
  <2> QED BY <2>2, <2>3, QuietWire
<1>7. CASE \/ Return \/ Disconnected \/ ControlLost \/ UNCHANGED mgrVars
           \/ \E ack \in BlockAcks : PeerAck(ack)
  <2>1. UNCHANGED <<blk, net>>
    BY <1>7 DEF Return, Disconnected, ControlLost, PeerAck, blockVars, sndVars, mgrVars, wireVars
  <2> QED BY <2>1, QuietWire
<1> QED BY <1>1, <1>2, <1>3, <1>4, <1>5, <1>6, <1>7 DEF MgrNext, SndNext, Terminated

(* place_chunk, drain_pending and retransmit_stale_blocks never put a      *)
(* BlockEnd on the wire before every packet of its block.                  *)
THEOREM EndFollowsData == MgrSpec => []EndAfterData
<1>1. MgrInit => WInv
  <2> SUFFICES ASSUME MgrInit PROVE CachedSent /\ EndAfterData
    BY InitInv DEF WInv
  <2>1. InFlight = {}
    BY DEF MgrInit, WireInit, InFlight
  <2>2. \A b \in BlockIds : DataOf(b, blk[b].cached) = {}
    BY NewBlockStateFacts, DatagramFacts DEF MgrInit, SndInit
  <2> QED BY <2>1, <2>2 DEF CachedSent, EndAfterData
<1>2. WInv /\ [MgrNext]_mgrVars => WInv'
  BY StepInv, WireStep DEF WInv
<1>3. WInv => EndAfterData
  BY DEF WInv
<1> QED BY <1>1, <1>2, <1>3, PTL DEF MgrSpec
===============================================================================
