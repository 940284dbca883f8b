------------------------- MODULE SenderPipeline_proofs -------------------------
(***************************************************************************)
(* The sender's threads, for every file, every capacity of the channels    *)
(* and every number of workers: they implement the block manager, every    *)
(* chunk that is read is kept once, and what send_file returns is true.    *)
(***************************************************************************)
EXTENDS SenderPipeline, Wire_proofs

(* The theorems about the block manager, for the manager of this module.   *)
M == INSTANCE BlockManager_proofs WITH
       chunks <- ChunkIds \ handled, ack_relay <- control_open

-------------------------------------------------------------------------------
(* The inductive invariant. *)

(* A worker has a chunk in hand exactly while it waits to send it on. *)
JobsMatch ==
  \A w \in Workers :
    /\ worker[w] = "send" => \E c \in ChunkIds : job[w] = {c}
    /\ worker[w] # "send" => job[w] = {}

(* No chunk is ever in two places, and while the manager runs every chunk  *)
(* that was read is in one: ReadIsKept alone says nothing of the chunks    *)
(* once the manager is gone, and the cause of an Err then depends on them. *)
Places(c) == OnItsWay(c) + Cardinality({c} \cap handled)

ChunksKept ==
  \A c \in ChunkIds :
    LET read == IF c < read_pos THEN 1 ELSE 0
    IN  /\ Places(c) <= read
        /\ mgr = "running" => Places(c) = read

(* A worker fails only after the chunk relay has left, and the relay       *)
(* leaves before the workers only if the manager is gone: the chunk the    *)
(* worker had in hand is one the manager will never have handled.          *)
ThreadsGood ==
  /\ reader = "ok" => read_pos = TotalChunks
  /\ ~chunk_relay /\ mgr = "running" => \A w \in Workers : Gone(w)
  /\ \A w \in Workers : worker[w] = "err" => mgr # "running" /\ handled # ChunkIds

RunGood ==
  /\ run \in {"workers", "manager", "ack_relay", "chunk_relay", "ok"} => reader = "ok"
  /\ run \in {"ack_relay", "chunk_relay", "ok"} => mgr = "ok"
  /\ run = "err" =>
       \/ reader = "err"
       \/ mgr = "err"
       \/ mgr = "ok" /\ handled # ChunkIds

SpInv ==
  /\ SpTypeOK
  /\ JobsMatch
  /\ ChunksKept
  /\ ThreadsGood
  /\ RunGood
  /\ M!IInv

-------------------------------------------------------------------------------
(* The manager of the pipeline and the manager of the theorems are one.    *)
LEMMA SameManager ==
  /\ B!MgrInit <=> M!MgrInit
  /\ [B!MgrNext]_B!mgrVars <=> [M!MgrNext]_M!mgrVars
  /\ B!ResolvedBlocks = M!ResolvedBlocks
  /\ B!OpenBlocks = M!OpenBlocks
<1>1. B!MgrInit <=> M!MgrInit
  BY DEF B!ChunkIds, M!ChunkIds, B!Chunks, M!Chunks, B!MgrInit, M!MgrInit, B!SndInit, M!SndInit, B!WireInit, M!WireInit, B!Datagrams,
         M!Datagrams, B!BlockIds, M!BlockIds, B!Blocks, M!Blocks, B!total_blocks,
         M!total_blocks, B!DataOf, M!DataOf, B!Data, M!Data, B!PacketIds, M!PacketIds,
         B!Packets, M!Packets, B!packets_in_block, M!packets_in_block, B!BlockEnd,
         M!BlockEnd, B!Total, M!Total, B!NewBlockState, M!NewBlockState
<1>2. B!MgrNext <=> M!MgrNext
  BY DEF B!Cardinality, M!Cardinality, B!block_of, M!block_of, B!chunk_id_of, M!chunk_id_of,
         B!packets_in_block, M!packets_in_block, B!total_blocks, M!total_blocks, B!Blocks,
         M!Blocks, B!Packets, M!Packets, B!TotalBlocks, M!TotalBlocks, B!BlockIds,
         M!BlockIds, B!PacketIds, M!PacketIds, B!Total, M!Total, B!Data, M!Data, B!BlockEnd,
         M!BlockEnd, B!DataOf, M!DataOf, B!Datagrams, M!Datagrams, B!Complete, M!Complete,
         B!Missing, M!Missing, B!BlockAcks, M!BlockAcks, B!InFlight, M!InFlight, B!Send,
         M!Send, B!wireVars, M!wireVars, B!blockVars, M!blockVars, B!sndVars, M!sndVars,
         B!mgrVars, M!mgrVars, B!NewBlockState, M!NewBlockState, B!OpenBlocks, M!OpenBlocks,
         B!PendingBlocks, M!PendingBlocks, B!EndsBlock, M!EndsBlock, B!Placed, M!Placed,
         B!PlaceChunks, M!PlaceChunks, B!Admittable, M!Admittable, B!DrainPending,
         M!DrainPending, B!Waiting, M!Waiting, B!DropStale, M!DropStale, B!PlaceIntoOpen,
         M!PlaceIntoOpen, B!AppendToPending, M!AppendToPending, B!OpenAndPlace,
         M!OpenAndPlace, B!BufferNew, M!BufferNew, B!AdmitOrBuffer, M!AdmitOrBuffer,
         B!TakeAck, M!TakeAck, B!OnMissing, M!OnMissing, B!Resolve, M!Resolve,
         B!CompleteOpen, M!CompleteOpen, B!CompleteUnopened, M!CompleteUnopened,
         B!CompleteAgain, M!CompleteAgain, B!OnComplete, M!OnComplete, B!StaleBlocks,
         M!StaleBlocks, B!RetransmitStale, M!RetransmitStale, B!SndTick, M!SndTick,
         B!Return, M!Return, B!Disconnected, M!Disconnected, B!SndNext, M!SndNext,
         B!PeerAck, M!PeerAck, B!ControlLost, M!ControlLost, B!Terminated, M!Terminated,
         B!MgrNext, M!MgrNext
<1>3. UNCHANGED B!mgrVars <=> UNCHANGED M!mgrVars
  BY DEF B!mgrVars, M!mgrVars, B!sndVars, M!sndVars, B!wireVars, M!wireVars
<1>4. B!ResolvedBlocks = M!ResolvedBlocks /\ B!OpenBlocks = M!OpenBlocks
  BY DEF B!ResolvedBlocks, M!ResolvedBlocks, B!OpenBlocks, M!OpenBlocks, B!BlockIds, M!BlockIds,
         B!Blocks, M!Blocks, B!total_blocks, M!total_blocks
<1> QED BY <1>1, <1>2, <1>3, <1>4

(* The constants are as the manager's theorems assume them to be.          *)
LEMMA ManagerAssumptions ==
  M!BlockManagerAssumption /\ M!WireAssumption /\ M!BlockArithAssumption
  BY SenderPipelineAssumption, WireAssumption, BlockArithAssumption
     DEF FitsWord, M!FitsWord

(* What the pipeline needs to know of the manager. *)
LEMMA ManagerFacts ==
  ASSUME M!IInv
  PROVE  /\ mgr \in {"running", "ok", "err"}
         /\ mgr = "ok" => B!ResolvedBlocks = BlockIds
         /\ mgr = "err" => ~control_open /\ B!ResolvedBlocks # BlockIds
         /\ control_open \in BOOLEAN
         /\ acks \in Seq(BlockAcks)
<1>1. /\ mgr \in {"running", "ok", "err"}
      /\ mgr = "ok" => M!ResolvedBlocks = M!BlockIds
      /\ mgr = "err" => ~control_open /\ M!ResolvedBlocks # M!BlockIds
      /\ control_open \in BOOLEAN
      /\ acks \in Seq(M!BlockAcks)
  BY DEF M!IInv, M!MgrTypeOK, M!SndTypeOK, M!WireTypeOK, M!ReturnIsHonest
<1>2. M!BlockIds = BlockIds
  BY DEF M!BlockIds, BlockIds, M!Blocks, Blocks, M!total_blocks, total_blocks
<1>3. M!BlockAcks = BlockAcks
  BY DEF M!BlockAcks, BlockAcks, M!BlockIds, BlockIds, M!Blocks, Blocks,
         M!total_blocks, total_blocks, M!Missing, Missing, M!Complete, Complete,
         M!PacketIds, PacketIds, M!Packets, Packets, M!packets_in_block, packets_in_block
<1> QED BY <1>1, <1>2, <1>3, SameManager


-------------------------------------------------------------------------------
(* Every step of the pipeline is a step of the manager, or none that the   *)
(* manager sees.                                                           *)

(* The threads and the joins, but the join of the manager, which may shut  *)
(* the control stream down.                                                *)
Threads ==
  \/ Reader \/ ReaderFails
  \/ \E w \in Workers : WorkerThread(w)
  \/ ChunkRelay \/ AckRelay
  \/ JoinReader \/ JoinWorkers \/ JoinAckRelay \/ JoinChunkRelay

LEMMA ThreadsAreQuiet ==
  ASSUME Threads
  PROVE  UNCHANGED <<managerVars, controlVars, handled>>
<1>1. CASE Reader \/ ReaderFails
  BY <1>1 DEF Reader, ReadChunk, ReaderLeaves, ReaderFails, eventVars
<1>2. CASE \E w \in Workers : WorkerThread(w)
  BY <1>2 DEF WorkerThread, TakeChunk, WorkerLeaves, SendPacket, SendFails, eventVars
<1>3. CASE ChunkRelay \/ AckRelay
  BY <1>3 DEF ChunkRelay, AckRelay, RelayChunk, ChunkRelayLeaves, RelayAck, AckRelayLeaves,
              eventVars
<1>4. CASE JoinReader \/ JoinWorkers \/ JoinAckRelay \/ JoinChunkRelay
  BY <1>4 DEF JoinReader, JoinWorkers, JoinAckRelay, JoinChunkRelay, eventVars
<1> QED BY <1>1, <1>2, <1>3, <1>4 DEF Threads

(* The manager's actions and its clock, as BlockManager has them.          *)
LEMMA ManagerActs ==
  ASSUME Manager \/ Clock
  PROVE  B!SndNext
<1>1. CASE HandleChunk
  <2> DEFINE c == Head(events).chunk
  <2>1. B!AdmitOrBuffer(c)
    BY <1>1 DEF HandleChunk
  <2>2. c \in ChunkIds \ handled
    BY <2>1 DEF B!AdmitOrBuffer
  <2> QED BY <2>1, <2>2 DEF B!SndNext
<1>2. CASE HandleAck \/ HandleTimeout \/ HandleDisconnected \/ ManagerAlone \/ Clock
  BY <1>2 DEF HandleAck, HandleTimeout, HandleDisconnected, ManagerAlone, Clock, B!SndNext
<1> QED BY <1>1, <1>2 DEF Manager

(* The control stream may be shut down, with all of acks still to be read. *)
LEMMA ShutDown ==
  ASSUME M!IInv, control_open, control_open' = FALSE,
         UNCHANGED <<managerVars, acks, handled>>
  PROVE  B!ControlLost
<1>1. acks \in Seq(BlockAcks)
  BY ManagerFacts
<1>2. Len(acks) \in 0 .. Len(acks) /\ SubSeq(acks, 1, Len(acks)) = acks
  BY <1>1, LenProperties, SubSeqFull
<1>3. \E n \in 0 .. Len(acks) : acks' = SubSeq(acks, 1, n)
  BY <1>2
<1> QED BY <1>3 DEF B!ControlLost, B!blockVars, managerVars

(* The step simulation of ImplementsBlockManager. *)
LEMMA StepSimulates ==
  ASSUME SpTypeOK, M!IInv, [SpNext]_spVars
  PROVE  [B!MgrNext]_B!mgrVars
<1>1. ASSUME UNCHANGED <<managerVars, controlVars, handled>>
      PROVE  UNCHANGED B!mgrVars
  BY <1>1 DEF managerVars, controlVars, B!mgrVars, B!sndVars, B!wireVars
<1>2. CASE Threads
  BY <1>1, <1>2, ThreadsAreQuiet
<1>3. CASE Manager \/ Clock
  BY <1>3, ManagerActs DEF B!MgrNext
<1>4. CASE JoinManager
  <2>1. UNCHANGED <<managerVars, acks, handled>>
    BY <1>4 DEF JoinManager, eventVars
  <2>2. CASE control_open /\ control_open' = FALSE
    BY <2>1, <2>2, ShutDown DEF B!MgrNext
  <2>3. CASE control_open' = control_open
    BY <1>1, <2>1, <2>3 DEF controlVars
  <2>4. control_open \in BOOLEAN /\ (control_open' = FALSE \/ control_open' = control_open)
    BY <1>4, ManagerFacts DEF JoinManager
  <2> QED BY <2>2, <2>3, <2>4
<1>5. CASE \E ack \in BlockAcks : PeerAck(ack)
  <2>1. PICK ack \in BlockAcks : PeerAck(ack)
    BY <1>5
  <2>2. B!PeerAck(ack) /\ ack.block_id \in B!OpenBlocks /\ control_open
    BY <2>1 DEF PeerAck, B!PeerAck
  <2>3. ack \in B!BlockAcks
    BY DEF B!BlockAcks, BlockAcks, B!BlockIds, BlockIds, B!Blocks, Blocks,
           B!total_blocks, total_blocks, B!Missing, Missing, B!Complete, Complete,
           B!PacketIds, PacketIds, B!Packets, Packets, B!packets_in_block, packets_in_block
  <2>4. B!ResolvedBlocks # BlockIds
    <3>1. slot[ack.block_id] = "Open" /\ ack.block_id \in BlockIds
      BY <2>2, AckTypes DEF B!OpenBlocks
    <3> QED BY <3>1 DEF B!ResolvedBlocks
  <2>5. mgr = "running"
    BY <2>2, <2>4, ManagerFacts
  <2> QED BY <2>2, <2>3, <2>5 DEF B!MgrNext
<1>6. CASE ControlLost
  <2>1. /\ control_open /\ control_open' = FALSE
        /\ UNCHANGED <<managerVars, handled>>
    BY <1>6 DEF ControlLost, eventVars
  <2>2. Relayed \in Nat
    BY CountFacts DEF SpTypeOK, Relayed
  <2>3. PICK n \in Relayed .. Len(acks) : acks' = SubSeq(acks, 1, n)
    BY <1>6 DEF ControlLost
  <2>4. Len(acks) \in Nat
    BY ManagerFacts, LenProperties
  <2>5. n \in 0 .. Len(acks)
    BY <2>2, <2>4
  <2> QED BY <2>1, <2>3, <2>5 DEF B!ControlLost, B!blockVars, managerVars, B!MgrNext
<1>7. CASE UNCHANGED spVars
  BY <1>1, <1>7 DEF spVars, eventVars
<1> QED BY <1>2, <1>3, <1>4, <1>5, <1>6, <1>7 DEF SpNext, Threads, Joins

LEMMA ManagerKept ==
  ASSUME SpTypeOK, M!IInv, [SpNext]_spVars
  PROVE  M!IInv'
<1>1. [M!MgrNext]_M!mgrVars
  BY StepSimulates, SameManager
<1> QED BY <1>1, ManagerAssumptions, M!StepInv


-------------------------------------------------------------------------------
(* Where a chunk is. *)

Local == SpTypeOK /\ JobsMatch /\ ChunksKept /\ ThreadsGood /\ RunGood

(* The workers are finitely many. *)
LEMMA Hands ==
  ASSUME SpTypeOK
  PROVE  /\ IsFiniteSet(Workers)
         /\ job \in [Workers -> SUBSET ChunkIds]
         /\ \A w \in Workers, c \in ChunkIds : c \in job[w] => InHand(job, c) > 0
         /\ \A c \in ChunkIds : InHand(job, c) \in Nat
<1>1. IsFiniteSet(Workers) /\ 1 \in Workers /\ job \in [Workers -> SUBSET ChunkIds]
  BY SenderPipelineAssumption, FS_Interval DEF Workers, SpTypeOK
<1>2. IsFiniteSet(DOMAIN job) /\ DOMAIN job = Workers
  BY <1>1
<1> QED BY <1>1, <1>2, InHandFacts

LEMMA PlacesFacts ==
  ASSUME SpTypeOK, NEW c \in ChunkIds
  PROVE  /\ Count(read_queue, c) \in Nat
         /\ InHand(job, c) \in Nat
         /\ Count(send_queue, c) \in Nat
         /\ Count(events, ChunkEvent(c)) \in Nat
         /\ Cardinality({c} \cap handled) = IF c \in handled THEN 1 ELSE 0
         /\ Places(c) \in Nat
<1>1. /\ Count(read_queue, c) \in Nat
      /\ Count(send_queue, c) \in Nat
      /\ Count(events, ChunkEvent(c)) \in Nat
  BY CountFacts DEF SpTypeOK
<1>2. Cardinality({c} \cap handled) = IF c \in handled THEN 1 ELSE 0
  <2>1. {c} \cap handled = IF c \in handled THEN {c} ELSE {}
    OBVIOUS
  <2> QED BY <2>1, FS_EmptySet, FS_Singleton
<1> QED BY <1>1, <1>2, Hands DEF Places, OnItsWay

(* A worker that takes a chunk, or lets go of the one it has.              *)
LEMMA HandTakes ==
  ASSUME SpTypeOK, NEW w \in Workers, NEW c \in ChunkIds, NEW x, job[w] = {}
  PROVE  InHand([job EXCEPT ![w] = {x}], c) = InHand(job, c) + (IF c = x THEN 1 ELSE 0)
<1>1. IsFiniteSet(DOMAIN job) /\ w \in DOMAIN job
  BY Hands
<1>2. InHand([job EXCEPT ![w] = {x}], c) + (IF c \in job[w] THEN 1 ELSE 0)
        = InHand(job, c) + (IF c \in {x} THEN 1 ELSE 0)
  BY <1>1, InHandChanges
<1>3. InHand([job EXCEPT ![w] = {x}], c) \in Nat
  BY <1>1, InHandFacts
<1> QED BY <1>2, <1>3

LEMMA HandLetsGo ==
  ASSUME SpTypeOK, NEW w \in Workers, NEW c \in ChunkIds, NEW x, job[w] = {x}
  PROVE  /\ InHand(job, c) = InHand([job EXCEPT ![w] = {}], c) + (IF c = x THEN 1 ELSE 0)
         /\ InHand([job EXCEPT ![w] = {}], c) \in Nat
<1>1. IsFiniteSet(DOMAIN job) /\ w \in DOMAIN job
  BY Hands
<1>2. InHand([job EXCEPT ![w] = {}], c) + (IF c \in job[w] THEN 1 ELSE 0)
        = InHand(job, c) + (IF c \in {} THEN 1 ELSE 0)
  BY <1>1, InHandChanges
<1>3. InHand(job, c) \in Nat
  BY <1>1, InHandFacts
<1>4. InHand([job EXCEPT ![w] = {}], c) \in Nat
  BY <1>1, InHandFacts
<1> QED BY <1>2, <1>3, <1>4

(* A chunk in a worker's hand, and one that is at the head of the events,  *)
(* has not been handled.                                                   *)
LEMMA HeldOnce ==
  ASSUME SpTypeOK, ChunksKept, NEW c \in ChunkIds,
         \/ \E w \in Workers : c \in job[w]
         \/ Count(events, ChunkEvent(c)) > 0
  PROVE  c \notin handled
<1>1. Places(c) <= 1
  <2>1. TotalChunks \in Nat /\ read_pos \in 0 .. TotalChunks /\ c \in Nat
    BY WireAssumption DEF SpTypeOK, ChunkIds, Chunks, FitsWord
  <2>2. Places(c) <= IF c < read_pos THEN 1 ELSE 0
    BY DEF ChunksKept
  <2>3. Places(c) \in Nat
    BY PlacesFacts
  <2> QED BY <2>1, <2>2, <2>3
<1>2. InHand(job, c) > 0 \/ Count(events, ChunkEvent(c)) > 0
  BY Hands
<1> QED BY <1>1, <1>2, PlacesFacts DEF Places, OnItsWay

(* A step that moves chunks from one place to another, and starts nothing, *)
(* keeps them.                                                             *)
LEMMA ChunksMove ==
  ASSUME ChunksKept, \A c \in ChunkIds : Places(c)' = Places(c), read_pos' = read_pos,
         mgr' = "running" => mgr = "running"
  PROVE  ChunksKept'
  BY DEF ChunksKept

-------------------------------------------------------------------------------
(* The reader. *)

LEMMA ReaderStep ==
  ASSUME Local, Reader \/ ReaderFails
  PROVE  Local'
<1>0. SpTypeOK /\ JobsMatch /\ ChunksKept /\ ThreadsGood /\ RunGood
  BY DEF Local
<1>1. TotalChunks \in Nat /\ ChunkIds = 0 .. TotalChunks - 1 /\ read_pos \in 0 .. TotalChunks
  BY <1>0, WireAssumption DEF FitsWord, ChunkIds, Chunks, SpTypeOK
<1>2. CASE ReadChunk
  <2>1. /\ read_pos \in ChunkIds /\ read_queue \in Seq(ChunkIds)
        /\ reader = "run" /\ Len(read_queue) < ChannelCapacity
        /\ read_queue' = Append(read_queue, read_pos) /\ read_pos' = read_pos + 1
        /\ UNCHANGED <<mgr, acks, reader, worker, job, send_queue, chunk_relay, ack_relay,
                       control_open, events, handled, run>>
    BY <1>0, <1>1, <1>2 DEF ReadChunk, SpTypeOK, managerVars, workVars, relayVars, controlVars,
                      eventVars
  <2>2. SpTypeOK'
    <3>1. read_pos' \in 0 .. TotalChunks
      BY <1>1, <2>1
    <3>2. read_queue' \in Seq(ChunkIds) /\ Len(read_queue') = Len(read_queue) + 1
      BY <2>1, AppendProperties
    <3>3. Len(read_queue') <= ChannelCapacity
      BY <2>1, <3>2, SenderPipelineAssumption, LenProperties
    <3> QED BY <1>0, <2>1, <3>1, <3>2, <3>3 DEF SpTypeOK, Relayed
  <2>3. ASSUME NEW c \in ChunkIds
        PROVE  Places(c)' = Places(c) + (IF c = read_pos THEN 1 ELSE 0)
    <3>1. Count(read_queue', c) = Count(read_queue, c) + (IF c = read_pos THEN 1 ELSE 0)
      BY <2>1, CountAppend
    <3>2. Count(read_queue, c) \in Nat /\ Cardinality({c} \cap handled) \in Nat
          /\ InHand(job, c) \in Nat /\ Count(send_queue, c) \in Nat
          /\ Count(events, ChunkEvent(c)) \in Nat
      BY <1>0, PlacesFacts
    <3> QED BY <2>1, <3>1, <3>2 DEF Places, OnItsWay
  <2>4. ChunksKept'
    <3> SUFFICES ASSUME NEW c \in ChunkIds
                 PROVE  /\ Places(c)' <= IF c < read_pos' THEN 1 ELSE 0
                        /\ mgr' = "running" => Places(c)' = IF c < read_pos' THEN 1 ELSE 0
      BY DEF ChunksKept
    <3>1. /\ Places(c) <= IF c < read_pos THEN 1 ELSE 0
          /\ mgr = "running" => Places(c) = IF c < read_pos THEN 1 ELSE 0
      BY <1>0 DEF ChunksKept
    <3>2. Places(c) \in Nat
      BY <1>0, PlacesFacts
    <3>3. c \in Nat /\ read_pos \in Nat
      BY <1>1
    <3>4. CASE c = read_pos
      BY <2>1, <2>3, <3>1, <3>2, <3>3, <3>4
    <3>5. CASE c # read_pos
      BY <2>1, <2>3, <3>1, <3>2, <3>3, <3>5
    <3> QED BY <3>4, <3>5
  <2>5. JobsMatch' /\ ThreadsGood' /\ RunGood'
    BY <1>0, <2>1 DEF JobsMatch, ThreadsGood, RunGood, Gone
  <2> QED BY <2>2, <2>4, <2>5 DEF Local
<1>3. CASE ReaderLeaves \/ ReaderFails
  <2>1. /\ reader = "run"
        /\ \/ reader' = "ok" /\ read_pos = TotalChunks
           \/ reader' = "err"
        /\ UNCHANGED <<mgr, acks, read_pos, read_queue, worker, job, send_queue, chunk_relay,
                       ack_relay, control_open, events, handled, run>>
    BY <1>3 DEF ReaderLeaves, ReaderFails, managerVars, workVars, relayVars, controlVars,
                eventVars
  <2>2. SpTypeOK'
    BY <1>0, <2>1 DEF SpTypeOK, Relayed
  <2>3. ChunksKept'
    BY <1>0, <2>1 DEF ChunksKept, Places, OnItsWay
  <2>4. JobsMatch' /\ ThreadsGood' /\ RunGood'
    BY <1>0, <2>1 DEF JobsMatch, ThreadsGood, RunGood, Gone
  <2> QED BY <2>2, <2>3, <2>4 DEF Local
<1> QED BY <1>2, <1>3 DEF Reader


-------------------------------------------------------------------------------
(* The workers. *)

LEMMA TakeChunkStep ==
  ASSUME Local, NEW w \in Workers, TakeChunk(w)
  PROVE  Local'
<1>0. SpTypeOK /\ JobsMatch /\ ChunksKept /\ ThreadsGood /\ RunGood
  BY DEF Local
<1> DEFINE x == Head(read_queue)
<1>1. /\ worker[w] = "recv" /\ read_queue # <<>> /\ read_queue' = Tail(read_queue)
      /\ worker' = [worker EXCEPT ![w] = "send"] /\ job' = [job EXCEPT ![w] = {x}]
      /\ UNCHANGED <<mgr, acks, reader, read_pos, send_queue, chunk_relay, ack_relay,
                     control_open, events, handled, run>>
  BY DEF TakeChunk, managerVars, relayVars, controlVars, eventVars
<1>2. /\ read_queue \in Seq(ChunkIds) /\ Len(read_queue) <= ChannelCapacity
      /\ worker \in [Workers -> {"recv", "send", "ok", "err"}]
      /\ job \in [Workers -> SUBSET ChunkIds]
  BY <1>0 DEF SpTypeOK
<1>3. x \in ChunkIds /\ Tail(read_queue) \in Seq(ChunkIds)
      /\ Len(Tail(read_queue)) = Len(read_queue) - 1 /\ Len(read_queue) \in Nat
  BY <1>1, <1>2, HeadTailProperties, LenProperties
<1> HIDE DEF x
<1>4. SpTypeOK'
  <2>1. Len(read_queue') <= ChannelCapacity /\ read_queue' \in Seq(ChunkIds)
    BY <1>1, <1>2, <1>3, SenderPipelineAssumption
  <2>2. /\ worker' \in [Workers -> {"recv", "send", "ok", "err"}]
        /\ job' \in [Workers -> SUBSET ChunkIds]
    BY <1>1, <1>2, <1>3
  <2> QED BY <1>0, <1>1, <2>1, <2>2 DEF SpTypeOK, Relayed
<1>5. JobsMatch'
  BY <1>0, <1>1, <1>2, <1>3 DEF JobsMatch
<1>6. ChunksKept'
  <2>1. ASSUME NEW c \in ChunkIds PROVE Places(c)' = Places(c)
    <3>1. Count(read_queue, c) = Count(read_queue', c) + (IF x = c THEN 1 ELSE 0)
      BY <1>1, <1>2, CountTail DEF x
    <3>2. job[w] = {}
      BY <1>0, <1>1 DEF JobsMatch
    <3>3. InHand(job', c) = InHand(job, c) + (IF c = x THEN 1 ELSE 0)
      BY <1>0, <1>1, <3>2, HandTakes
    <3>4. /\ Count(read_queue, c) \in Nat /\ InHand(job, c) \in Nat
          /\ Count(send_queue, c) \in Nat /\ Count(events, ChunkEvent(c)) \in Nat
          /\ Cardinality({c} \cap handled) \in Nat
      BY <1>0, PlacesFacts
    <3>5. Count(read_queue', c) \in Nat
      BY <1>1, <1>3, CountFacts
    <3> QED BY <1>1, <3>1, <3>3, <3>4, <3>5 DEF Places, OnItsWay
  <2> QED BY <1>0, <1>1, <2>1, ChunksMove
<1>7. ThreadsGood' /\ RunGood'
  BY <1>0, <1>1, <1>2 DEF ThreadsGood, RunGood, Gone
<1> QED BY <1>4, <1>5, <1>6, <1>7 DEF Local

LEMMA WorkerLeavesStep ==
  ASSUME Local, NEW w \in Workers, WorkerLeaves(w)
  PROVE  Local'
<1>0. SpTypeOK /\ JobsMatch /\ ChunksKept /\ ThreadsGood /\ RunGood
  BY DEF Local
<1>1. /\ worker[w] = "recv" /\ worker' = [worker EXCEPT ![w] = "ok"]
      /\ UNCHANGED <<mgr, acks, reader, read_pos, read_queue, job, send_queue, chunk_relay,
                     ack_relay, control_open, events, handled, run>>
  BY DEF WorkerLeaves, managerVars, readVars, relayVars, controlVars, eventVars
<1>2. worker \in [Workers -> {"recv", "send", "ok", "err"}]
  BY <1>0 DEF SpTypeOK
<1>3. SpTypeOK'
  BY <1>0, <1>1 DEF SpTypeOK, Relayed
<1>4. ChunksKept'
  BY <1>0, <1>1 DEF ChunksKept, Places, OnItsWay
<1>5. JobsMatch' /\ ThreadsGood' /\ RunGood'
  BY <1>0, <1>1, <1>2 DEF JobsMatch, ThreadsGood, RunGood, Gone
<1> QED BY <1>3, <1>4, <1>5 DEF Local

LEMMA SendPacketStep ==
  ASSUME Local, NEW w \in Workers, SendPacket(w)
  PROVE  Local'
<1>0. SpTypeOK /\ JobsMatch /\ ChunksKept /\ ThreadsGood /\ RunGood
  BY DEF Local
<1>1. PICK x \in ChunkIds : job[w] = {x}
  BY <1>0 DEF SendPacket, JobsMatch
<1>2. /\ worker[w] = "send" /\ Len(send_queue) < ChannelCapacity
      /\ send_queue' = Append(send_queue, x)
      /\ worker' = [worker EXCEPT ![w] = "recv"] /\ job' = [job EXCEPT ![w] = {}]
      /\ UNCHANGED <<mgr, acks, reader, read_pos, read_queue, chunk_relay, ack_relay,
                     control_open, events, handled, run>>
  BY <1>1 DEF SendPacket, managerVars, readVars, relayVars, controlVars, eventVars
<1>3. /\ send_queue \in Seq(ChunkIds)
      /\ worker \in [Workers -> {"recv", "send", "ok", "err"}]
      /\ job \in [Workers -> SUBSET ChunkIds]
  BY <1>0 DEF SpTypeOK
<1>4. SpTypeOK'
  <2>1. send_queue' \in Seq(ChunkIds) /\ Len(send_queue') = Len(send_queue) + 1
    BY <1>2, <1>3, AppendProperties
  <2>2. Len(send_queue') <= ChannelCapacity
    BY <1>2, <1>3, <2>1, SenderPipelineAssumption, LenProperties
  <2>3. /\ worker' \in [Workers -> {"recv", "send", "ok", "err"}]
        /\ job' \in [Workers -> SUBSET ChunkIds]
    BY <1>2, <1>3
  <2> QED BY <1>0, <1>2, <2>1, <2>2, <2>3 DEF SpTypeOK, Relayed
<1>5. JobsMatch'
  BY <1>0, <1>2, <1>3 DEF JobsMatch
<1>6. ChunksKept'
  <2>1. ASSUME NEW c \in ChunkIds PROVE Places(c)' = Places(c)
    <3>1. Count(send_queue', c) = Count(send_queue, c) + (IF x = c THEN 1 ELSE 0)
      BY <1>2, <1>3, CountAppend
    <3>2. /\ InHand(job, c) = InHand(job', c) + (IF c = x THEN 1 ELSE 0)
          /\ InHand(job', c) \in Nat
      BY <1>0, <1>1, <1>2, HandLetsGo
    <3>3. /\ Count(read_queue, c) \in Nat /\ InHand(job, c) \in Nat
          /\ Count(send_queue, c) \in Nat /\ Count(events, ChunkEvent(c)) \in Nat
          /\ Cardinality({c} \cap handled) \in Nat
      BY <1>0, PlacesFacts
    <3> QED BY <1>2, <3>1, <3>2, <3>3 DEF Places, OnItsWay
  <2> QED BY <1>0, <1>2, <2>1, ChunksMove
<1>7. ThreadsGood' /\ RunGood'
  BY <1>0, <1>2, <1>3 DEF ThreadsGood, RunGood, Gone
<1> QED BY <1>4, <1>5, <1>6, <1>7 DEF Local

(* A worker that cannot send on what it has in hand: the manager is gone,  *)
(* and the chunk will never be handled.                                    *)
LEMMA SendFailsStep ==
  ASSUME Local, NEW w \in Workers, SendFails(w)
  PROVE  Local'
<1>0. SpTypeOK /\ JobsMatch /\ ChunksKept /\ ThreadsGood /\ RunGood
  BY DEF Local
<1>1. PICK x \in ChunkIds : job[w] = {x}
  BY <1>0 DEF SendFails, JobsMatch
<1>2. /\ worker[w] = "send" /\ ~chunk_relay
      /\ worker' = [worker EXCEPT ![w] = "err"] /\ job' = [job EXCEPT ![w] = {}]
      /\ UNCHANGED <<mgr, acks, reader, read_pos, read_queue, send_queue, chunk_relay, ack_relay,
                     control_open, events, handled, run>>
  BY DEF SendFails, managerVars, readVars, relayVars, controlVars, eventVars
<1>3. /\ worker \in [Workers -> {"recv", "send", "ok", "err"}]
      /\ job \in [Workers -> SUBSET ChunkIds]
  BY <1>0 DEF SpTypeOK
<1>4. mgr # "running"
  BY <1>0, <1>2 DEF ThreadsGood, Gone
<1>5. x \notin handled
  BY <1>0, <1>1, HeldOnce
<1>6. SpTypeOK'
  BY <1>0, <1>2, <1>3 DEF SpTypeOK, Relayed
<1>7. JobsMatch'
  BY <1>0, <1>2, <1>3 DEF JobsMatch
<1>8. ChunksKept'
  <2> SUFFICES ASSUME NEW c \in ChunkIds
               PROVE  Places(c)' <= IF c < read_pos THEN 1 ELSE 0
    BY <1>2, <1>4 DEF ChunksKept
  <2>1. /\ InHand(job, c) = InHand(job', c) + (IF c = x THEN 1 ELSE 0)
        /\ InHand(job', c) \in Nat
    BY <1>0, <1>1, <1>2, HandLetsGo
  <2>2. /\ Count(read_queue, c) \in Nat /\ InHand(job, c) \in Nat
        /\ Count(send_queue, c) \in Nat /\ Count(events, ChunkEvent(c)) \in Nat
        /\ Cardinality({c} \cap handled) \in Nat
    BY <1>0, PlacesFacts
  <2>3. Places(c)' <= Places(c) /\ Places(c) \in Nat /\ Places(c)' \in Nat
    BY <1>2, <2>1, <2>2 DEF Places, OnItsWay
  <2>4. Places(c) <= IF c < read_pos THEN 1 ELSE 0
    BY <1>0 DEF ChunksKept
  <2> QED BY <2>3, <2>4
<1>9. ThreadsGood' /\ RunGood'
  BY <1>0, <1>2, <1>3, <1>4, <1>5 DEF ThreadsGood, RunGood, Gone
<1> QED BY <1>6, <1>7, <1>8, <1>9 DEF Local

-------------------------------------------------------------------------------
(* The relays. *)

Events == {ChunkEvent(c) : c \in ChunkIds} \cup {AckEvent}

LEMMA EventFacts ==
  /\ \A c, d : ChunkEvent(c) = ChunkEvent(d) <=> c = d
  /\ \A c : ChunkEvent(c) # AckEvent /\ ChunkEvent(c).tag = "CHUNK" /\ ChunkEvent(c).chunk = c
  /\ AckEvent.tag = "ACK"
<1>1. \A c : ChunkEvent(c).tag = "CHUNK" /\ ChunkEvent(c).chunk = c
  BY DEF ChunkEvent
<1>2. AckEvent.tag = "ACK"
  BY DEF AckEvent
<1> QED BY <1>1, <1>2

LEMMA RelayChunkStep ==
  ASSUME Local, RelayChunk
  PROVE  Local'
<1>0. SpTypeOK /\ JobsMatch /\ ChunksKept /\ ThreadsGood /\ RunGood
  BY DEF Local
<1> DEFINE x == Head(send_queue)
<1>1. /\ send_queue # <<>> /\ send_queue' = Tail(send_queue)
      /\ events' = Append(events, ChunkEvent(x))
      /\ UNCHANGED <<mgr, acks, reader, read_pos, read_queue, worker, job, chunk_relay,
                     ack_relay, control_open, handled, run>>
  BY DEF RelayChunk, managerVars, readVars, relayVars, controlVars
<1>2. /\ send_queue \in Seq(ChunkIds) /\ Len(send_queue) <= ChannelCapacity
      /\ events \in Seq(Events)
  BY <1>0 DEF SpTypeOK, Events
<1>3. x \in ChunkIds /\ Tail(send_queue) \in Seq(ChunkIds)
      /\ Len(Tail(send_queue)) = Len(send_queue) - 1 /\ Len(send_queue) \in Nat
  BY <1>1, <1>2, HeadTailProperties, LenProperties
<1>4. ASSUME NEW c \in ChunkIds
      PROVE  Count(send_queue, c) = Count(send_queue', c) + (IF x = c THEN 1 ELSE 0)
  BY <1>1, <1>2, CountTail
<1> HIDE DEF x
<1>5. events' \in Seq(Events)
  BY <1>1, <1>2, <1>3, AppendProperties DEF Events
<1>6. SpTypeOK'
  <2>1. Len(send_queue') <= ChannelCapacity /\ send_queue' \in Seq(ChunkIds)
    BY <1>1, <1>2, <1>3, SenderPipelineAssumption
  <2>2. Relayed' = Relayed
    <3>1. Count(events', AckEvent) = Count(events, AckEvent) + 0
      BY <1>1, <1>2, CountAppend, EventFacts
    <3>2. Count(events, AckEvent) \in Nat
      BY <1>2, CountFacts
    <3> QED BY <3>1, <3>2 DEF Relayed
  <2> QED BY <1>0, <1>1, <1>5, <2>1, <2>2 DEF SpTypeOK, Events
<1>7. ChunksKept'
  <2>1. ASSUME NEW c \in ChunkIds PROVE Places(c)' = Places(c)
    <3>1. Count(events', ChunkEvent(c)) =
            Count(events, ChunkEvent(c)) + (IF x = c THEN 1 ELSE 0)
      BY <1>1, <1>2, CountAppend, EventFacts
    <3>2. /\ Count(read_queue, c) \in Nat /\ InHand(job, c) \in Nat
          /\ Count(send_queue, c) \in Nat /\ Count(events, ChunkEvent(c)) \in Nat
          /\ Cardinality({c} \cap handled) \in Nat
      BY <1>0, PlacesFacts
    <3>3. Count(send_queue', c) \in Nat
      BY <1>1, <1>3, CountFacts
    <3> QED BY <1>1, <1>4, <3>1, <3>2, <3>3 DEF Places, OnItsWay
  <2> QED BY <1>0, <1>1, <2>1, ChunksMove
<1>8. JobsMatch' /\ ThreadsGood' /\ RunGood'
  BY <1>0, <1>1 DEF JobsMatch, ThreadsGood, RunGood, Gone
<1> QED BY <1>6, <1>7, <1>8 DEF Local

LEMMA RelayAckStep ==
  ASSUME Local, M!IInv, RelayAck
  PROVE  Local'
<1>0. SpTypeOK /\ JobsMatch /\ ChunksKept /\ ThreadsGood /\ RunGood
  BY DEF Local
<1>1. /\ Relayed < Len(acks) /\ events' = Append(events, AckEvent)
      /\ UNCHANGED <<mgr, acks, reader, read_pos, read_queue, worker, job, send_queue,
                     chunk_relay, ack_relay, control_open, handled, run>>
  BY DEF RelayAck, managerVars, readVars, workVars, relayVars, controlVars
<1>2. events \in Seq(Events) /\ Len(acks) \in Nat
  BY <1>0, ManagerFacts, LenProperties DEF SpTypeOK, Events
<1>3. events' \in Seq(Events)
  BY <1>1, <1>2, AppendProperties DEF Events
<1>4. SpTypeOK'
  <2>1. Relayed' = Relayed + 1 /\ Relayed \in Nat
    BY <1>1, <1>2, CountAppend, CountFacts DEF Relayed
  <2>2. Relayed' <= Len(acks)
    BY <1>1, <1>2, <2>1
  <2> QED BY <1>0, <1>1, <1>3, <2>2 DEF SpTypeOK, Events
<1>5. ChunksKept'
  <2>1. ASSUME NEW c \in ChunkIds PROVE Places(c)' = Places(c)
    <3>1. Count(events', ChunkEvent(c)) = Count(events, ChunkEvent(c)) + 0
      BY <1>1, <1>2, CountAppend, EventFacts
    <3>2. Count(events, ChunkEvent(c)) \in Nat
      BY <1>2, CountFacts
    <3> QED BY <1>1, <3>1, <3>2 DEF Places, OnItsWay
  <2> QED BY <1>0, <1>1, <2>1, ChunksMove
<1>6. JobsMatch' /\ ThreadsGood' /\ RunGood'
  BY <1>0, <1>1 DEF JobsMatch, ThreadsGood, RunGood, Gone
<1> QED BY <1>4, <1>5, <1>6 DEF Local

(* Steps that move no chunk and no ack: the relays' leaving and the joins. *)
LEMMA NothingMoves ==
  ASSUME Local,
         UNCHANGED <<mgr, acks, reader, read_pos, read_queue, worker, job, send_queue, events,
                     handled>>,
         chunk_relay' \in BOOLEAN, ack_relay' \in BOOLEAN, control_open' \in BOOLEAN,
         run' \in {"reader", "workers", "manager", "ack_relay", "chunk_relay", "ok", "err"},
         ThreadsGood', RunGood'
  PROVE  Local'
<1>0. SpTypeOK /\ JobsMatch /\ ChunksKept
  BY DEF Local
<1>1. SpTypeOK'
  BY <1>0 DEF SpTypeOK, Relayed
<1>2. JobsMatch' /\ ChunksKept'
  BY <1>0 DEF JobsMatch, ChunksKept, Places, OnItsWay
<1> QED BY <1>1, <1>2 DEF Local

LEMMA RelayLeavesStep ==
  ASSUME Local, ChunkRelayLeaves \/ AckRelayLeaves
  PROVE  Local'
<1>0. SpTypeOK /\ ThreadsGood /\ RunGood
  BY DEF Local
<1>1. /\ UNCHANGED <<mgr, acks, reader, read_pos, read_queue, worker, job, send_queue, events,
                     handled, control_open, run>>
      /\ chunk_relay' \in BOOLEAN /\ ack_relay' \in BOOLEAN
  BY <1>0 DEF ChunkRelayLeaves, AckRelayLeaves, SpTypeOK, managerVars, readVars, workVars,
              controlVars, eventVars
<1>2. ThreadsGood'
  BY <1>0, <1>1 DEF ThreadsGood, Gone, ChunkRelayLeaves, AckRelayLeaves
<1>3. RunGood'
  BY <1>0, <1>1 DEF RunGood
<1> QED BY <1>0, <1>1, <1>2, <1>3, NothingMoves DEF SpTypeOK

-------------------------------------------------------------------------------
(* send_file. *)

LEMMA JoinsStep ==
  ASSUME Local, M!IInv, Joins
  PROVE  Local'
<1>0. SpTypeOK /\ ThreadsGood /\ RunGood
  BY DEF Local
<1>1. /\ UNCHANGED <<mgr, acks, reader, read_pos, read_queue, worker, job, send_queue, events,
                     handled, chunk_relay, ack_relay>>
      /\ control_open' \in BOOLEAN
  BY <1>0 DEF Joins, JoinReader, JoinWorkers, JoinManager, JoinAckRelay, JoinChunkRelay,
              SpTypeOK, managerVars, readVars, workVars, relayVars, controlVars, eventVars
<1>2. ThreadsGood'
  BY <1>0, <1>1 DEF ThreadsGood, Gone
<1>3. RunGood' /\ run' \in {"reader", "workers", "manager", "ack_relay", "chunk_relay", "ok", "err"}
  <2>1. mgr \in {"running", "ok", "err"}
    BY ManagerFacts
  <2>2. CASE JoinReader
    BY <1>0, <1>1, <2>2 DEF JoinReader, RunGood
  <2>3. CASE JoinWorkers
    <3>1. CASE run' = "manager"
      BY <1>0, <1>1, <2>3, <3>1 DEF JoinWorkers, RunGood
    <3>2. CASE run' = "err" /\ \E w \in Workers : worker[w] = "err"
      BY <1>0, <1>1, <2>1, <3>2 DEF ThreadsGood, RunGood
    <3> QED BY <2>3, <3>1, <3>2 DEF JoinWorkers
  <2>4. CASE JoinManager
    BY <1>0, <1>1, <2>4 DEF JoinManager, RunGood
  <2>5. CASE JoinAckRelay \/ JoinChunkRelay
    BY <1>0, <1>1, <2>5 DEF JoinAckRelay, JoinChunkRelay, RunGood
  <2> QED BY <2>2, <2>3, <2>4, <2>5 DEF Joins
<1> QED BY <1>0, <1>1, <1>2, <1>3, NothingMoves DEF SpTypeOK

-------------------------------------------------------------------------------
(* The manager. *)

LEMMA HandleChunkStep ==
  ASSUME Local, HandleChunk
  PROVE  Local'
<1>0. SpTypeOK /\ JobsMatch /\ ChunksKept /\ ThreadsGood /\ RunGood
  BY DEF Local
<1> DEFINE x == Head(events).chunk
<1>1. /\ events # <<>> /\ Head(events).tag = "CHUNK" /\ events' = Tail(events)
      /\ handled' = handled \cup {x}
      /\ mgr = "running"
      /\ UNCHANGED <<mgr, acks, reader, read_pos, read_queue, worker, job, send_queue,
                     chunk_relay, ack_relay, control_open, run>>
  BY DEF HandleChunk, B!AdmitOrBuffer, B!Waiting, restVars, readVars, workVars, relayVars
<1>2. events \in Seq(Events)
  BY <1>0 DEF SpTypeOK, Events
<1>3. x \in ChunkIds /\ Head(events) = ChunkEvent(x)
  <2>1. Head(events) \in Events
    BY <1>1, <1>2, HeadTailProperties
  <2> QED BY <1>1, <2>1, EventFacts DEF Events
<1>4. Tail(events) \in Seq(Events)
  BY <1>1, <1>2, HeadTailProperties
<1>5. ASSUME NEW c \in ChunkIds
      PROVE  Count(events, ChunkEvent(c)) = Count(events', ChunkEvent(c)) + (IF x = c THEN 1 ELSE 0)
  BY <1>1, <1>2, <1>3, CountTail, EventFacts
<1>6. x \notin handled
  <2>1. Count(events', ChunkEvent(x)) \in Nat
    BY <1>1, <1>4, CountFacts
  <2>2. Count(events, ChunkEvent(x)) > 0
    BY <1>3, <1>5, <2>1
  <2> QED BY <1>0, <1>3, <2>2, HeldOnce
<1>7. SpTypeOK'
  <2>1. Relayed' = Relayed
    <3>1. Count(events, AckEvent) = Count(events', AckEvent) + 0
      BY <1>1, <1>2, <1>3, CountTail, EventFacts
    <3>2. Count(events', AckEvent) \in Nat
      BY <1>1, <1>4, CountFacts
    <3> QED BY <3>1, <3>2 DEF Relayed
  <2> QED BY <1>0, <1>1, <1>3, <1>4, <2>1 DEF SpTypeOK, Events
<1> HIDE DEF x
<1>8. ChunksKept'
  <2>1. ASSUME NEW c \in ChunkIds PROVE Places(c)' = Places(c)
    <3>1. Cardinality({c} \cap handled') = IF c \in handled' THEN 1 ELSE 0
      <4>1. {c} \cap handled' = IF c \in handled' THEN {c} ELSE {}
        OBVIOUS
      <4> QED BY <4>1, FS_EmptySet, FS_Singleton
    <3>2. /\ Count(read_queue, c) \in Nat /\ InHand(job, c) \in Nat
          /\ Count(send_queue, c) \in Nat
          /\ Cardinality({c} \cap handled) = IF c \in handled THEN 1 ELSE 0
      BY <1>0, PlacesFacts
    <3>3. Count(events', ChunkEvent(c)) \in Nat
      BY <1>1, <1>4, CountFacts
    <3>4. Places(c)' = OnItsWay(c)' + Cardinality({c} \cap handled')
      BY DEF Places
    <3>5. CASE x = c
      BY <1>1, <1>5, <1>6, <3>1, <3>2, <3>3, <3>4, <3>5 DEF Places, OnItsWay
    <3>6. CASE x # c
      BY <1>1, <1>5, <1>6, <3>1, <3>2, <3>3, <3>4, <3>6 DEF Places, OnItsWay
    <3> QED BY <3>5, <3>6
  <2> QED BY <1>0, <1>1, <2>1, ChunksMove
<1>9. JobsMatch' /\ ThreadsGood' /\ RunGood'
  BY <1>0, <1>1 DEF JobsMatch, ThreadsGood, RunGood, Gone
<1> QED BY <1>7, <1>8, <1>9 DEF Local

LEMMA HandleAckStep ==
  ASSUME Local, M!IInv, HandleAck
  PROVE  Local'
<1>0. SpTypeOK /\ JobsMatch /\ ChunksKept /\ ThreadsGood /\ RunGood
  BY DEF Local
<1>1. /\ events # <<>> /\ Head(events) = AckEvent /\ events' = Tail(events)
      /\ acks # <<>> /\ acks' = Tail(acks)
      /\ UNCHANGED <<mgr, reader, read_pos, read_queue, worker, job, send_queue,
                     chunk_relay, ack_relay, control_open, handled, run>>
  BY DEF HandleAck, B!OnMissing, B!OnComplete, B!TakeAck, restVars, readVars, workVars, relayVars
<1>2. events \in Seq(Events) /\ acks \in Seq(BlockAcks)
  BY <1>0, ManagerFacts DEF SpTypeOK, Events
<1>3. Tail(events) \in Seq(Events)
  BY <1>1, <1>2, HeadTailProperties
<1>4. SpTypeOK'
  <2>1. Len(acks') = Len(acks) - 1 /\ Len(acks) \in Nat
    BY <1>1, <1>2, HeadTailProperties, LenProperties
  <2>2. Relayed = Relayed' + 1 /\ Relayed' \in Nat
    BY <1>1, <1>2, <1>3, CountTail, CountFacts DEF Relayed
  <2>3. Relayed <= Len(acks)
    BY <1>0 DEF SpTypeOK
  <2>4. Relayed' <= Len(acks')
    BY <2>1, <2>2, <2>3
  <2> QED BY <1>0, <1>1, <1>3, <2>4 DEF SpTypeOK, Events
<1>5. ChunksKept'
  <2>1. ASSUME NEW c \in ChunkIds PROVE Places(c)' = Places(c)
    <3>1. Count(events, ChunkEvent(c)) = Count(events', ChunkEvent(c)) + 0
      BY <1>1, <1>2, CountTail, EventFacts
    <3>2. Count(events', ChunkEvent(c)) \in Nat
      BY <1>1, <1>3, CountFacts
    <3> QED BY <1>1, <3>1, <3>2 DEF Places, OnItsWay
  <2> QED BY <1>0, <1>1, <2>1, ChunksMove
<1>6. JobsMatch' /\ ThreadsGood' /\ RunGood'
  BY <1>0, <1>1 DEF JobsMatch, ThreadsGood, RunGood, Gone
<1> QED BY <1>4, <1>5, <1>6 DEF Local

(* What is left of the manager, and time: no event is taken, and the       *)
(* manager may return.                                                     *)
LEMMA ManagerAloneStep ==
  ASSUME Local, M!IInv, HandleTimeout \/ HandleDisconnected \/ ManagerAlone \/ Clock
  PROVE  Local'
<1>0. SpTypeOK /\ JobsMatch /\ ChunksKept /\ ThreadsGood /\ RunGood
  BY DEF Local
<1>1. UNCHANGED <<acks, reader, read_pos, read_queue, worker, job, send_queue, chunk_relay,
                  ack_relay, control_open, events, handled, run>>
  BY DEF HandleTimeout, HandleDisconnected, ManagerAlone, Clock, restVars, readVars, workVars,
         relayVars, eventVars, B!RetransmitStale, B!Disconnected, B!DrainPending, B!Return,
         B!SndTick, B!wireVars
<1>2. mgr = "running" /\ mgr' \in {"running", "ok", "err"}
  BY DEF HandleTimeout, HandleDisconnected, ManagerAlone, Clock, B!RetransmitStale,
         B!Disconnected, B!DrainPending, B!Return, B!SndTick, B!Waiting
<1>3. SpTypeOK'
  BY <1>0, <1>1 DEF SpTypeOK, Relayed
<1>4. ChunksKept'
  BY <1>0, <1>1, <1>2 DEF ChunksKept, Places, OnItsWay
<1>5. JobsMatch' /\ ThreadsGood' /\ RunGood'
  BY <1>0, <1>1, <1>2 DEF JobsMatch, ThreadsGood, RunGood, Gone
<1> QED BY <1>3, <1>4, <1>5 DEF Local

(* The receiver's acks, and the loss of the connection. *)
LEMMA ControlStep ==
  ASSUME Local, M!IInv, (\E ack \in BlockAcks : PeerAck(ack)) \/ ControlLost
  PROVE  Local'
<1>0. SpTypeOK /\ JobsMatch /\ ChunksKept /\ ThreadsGood /\ RunGood
  BY DEF Local
<1>1. /\ UNCHANGED <<mgr, reader, read_pos, read_queue, worker, job, send_queue, chunk_relay,
                     ack_relay, events, handled, run>>
      /\ control_open' \in BOOLEAN
  BY <1>0 DEF PeerAck, ControlLost, restVars, readVars, workVars, relayVars, eventVars,
              managerVars, B!PeerAck, B!sndVars, SpTypeOK
<1>2. acks \in Seq(BlockAcks) /\ Len(acks) \in Nat
  BY ManagerFacts, LenProperties
<1>3. Relayed \in Nat /\ Relayed <= Len(acks)
  BY <1>0, CountFacts DEF SpTypeOK, Relayed
<1>4. Relayed <= Len(acks')
  <2>1. CASE \E ack \in BlockAcks : PeerAck(ack)
    <3>1. PICK ack \in BlockAcks : PeerAck(ack)
      BY <2>1
    <3>2. acks' = Append(acks, ack)
      BY <3>1 DEF PeerAck, B!PeerAck
    <3>3. Len(acks') = Len(acks) + 1
      BY <1>2, <3>2, AppendProperties
    <3> QED BY <1>2, <1>3, <3>3
  <2>2. CASE ControlLost
    <3>1. PICK n \in Relayed .. Len(acks) : acks' = SubSeq(acks, 1, n)
      BY <2>2 DEF ControlLost
    <3>2. n \in Nat /\ n <= Len(acks) /\ Relayed <= n
      BY <1>2, <1>3
    <3>3. Len(acks') = n
      BY <1>2, <3>1, <3>2, SubSeqProperties
    <3> QED BY <3>2, <3>3
  <2> QED BY <2>1, <2>2
<1>5. SpTypeOK'
  BY <1>0, <1>1, <1>4 DEF SpTypeOK, Relayed
<1>6. JobsMatch' /\ ChunksKept' /\ ThreadsGood' /\ RunGood'
  BY <1>0, <1>1 DEF JobsMatch, ChunksKept, Places, OnItsWay, ThreadsGood, RunGood, Gone
<1> QED BY <1>5, <1>6 DEF Local

-------------------------------------------------------------------------------
(* The invariant. *)

LEMMA SpInitInv == SpInit => SpInv
<1> SUFFICES ASSUME SpInit PROVE SpInv
  OBVIOUS
<1>1. M!IInv
  BY SameManager, ManagerAssumptions, M!InitInv DEF SpInit
<1>2. /\ TotalChunks \in Nat /\ ChunkIds = 0 .. TotalChunks - 1
      /\ ChannelCapacity \in Nat \ {0}
  BY WireAssumption, SenderPipelineAssumption DEF FitsWord, ChunkIds, Chunks
<1>3. /\ Count(<<>>, AckEvent) = 0
      /\ \A c : Count(<<>>, c) = 0
  BY CountFacts, EmptySeq
<1>4. SpTypeOK
  <2>1. Len(acks) \in Nat
    BY <1>1, ManagerFacts, LenProperties
  <2>2. Relayed <= Len(acks)
    BY <1>3, <2>1 DEF SpInit, Relayed
  <2>3. events \in Seq({ChunkEvent(c) : c \in ChunkIds} \cup {AckEvent})
    BY DEF SpInit
  <2> QED BY <1>2, <2>2, <2>3 DEF SpInit, SpTypeOK
<1>5. ASSUME NEW c \in ChunkIds PROVE Places(c) = 0
  <2>1. InHand(job, c) = 0
    <3>1. {w \in DOMAIN job : c \in job[w]} = {}
      BY DEF SpInit
    <3> QED BY <3>1, FS_EmptySet DEF InHand
  <2>2. Cardinality({c} \cap handled) = 0
    BY <1>4, PlacesFacts DEF SpInit
  <2>3. Count(read_queue, c) = 0 /\ Count(send_queue, c) = 0 /\ Count(events, ChunkEvent(c)) = 0
    BY <1>3 DEF SpInit
  <2> QED BY <2>1, <2>2, <2>3 DEF Places, OnItsWay
<1>6. ChunksKept
  <2>1. \A c \in ChunkIds : ~(c < read_pos)
    BY <1>2 DEF SpInit
  <2> QED BY <1>5, <2>1 DEF ChunksKept
<1>7. JobsMatch /\ ThreadsGood /\ RunGood
  BY DEF SpInit, JobsMatch, ThreadsGood, RunGood
<1> QED BY <1>1, <1>4, <1>6, <1>7 DEF SpInv

LEMMA SpStepInv == SpInv /\ [SpNext]_spVars => SpInv'
<1> SUFFICES ASSUME SpInv, [SpNext]_spVars PROVE SpInv'
  OBVIOUS
<1>1. Local /\ M!IInv
  BY DEF SpInv, Local
<1>2. M!IInv'
  BY ManagerKept DEF SpInv
<1>3. Local'
  <2>1. CASE Reader \/ ReaderFails
    BY <1>1, <2>1, ReaderStep
  <2>2. CASE \E w \in Workers : WorkerThread(w)
    BY <1>1, <2>2, TakeChunkStep, WorkerLeavesStep, SendPacketStep, SendFailsStep
       DEF WorkerThread
  <2>3. CASE ChunkRelay \/ AckRelay
    BY <1>1, <2>3, RelayChunkStep, RelayAckStep, RelayLeavesStep DEF ChunkRelay, AckRelay
  <2>4. CASE Manager \/ Clock
    BY <1>1, <2>4, HandleChunkStep, HandleAckStep, ManagerAloneStep DEF Manager
  <2>5. CASE Joins
    BY <1>1, <2>5, JoinsStep
  <2>6. CASE (\E ack \in BlockAcks : PeerAck(ack)) \/ ControlLost
    BY <1>1, <2>6, ControlStep
  <2>7. CASE UNCHANGED spVars
    <3>1. UNCHANGED <<mgr, acks, reader, read_pos, read_queue, worker, job, send_queue, events,
                      handled, chunk_relay, ack_relay, control_open, run>>
      BY <2>7 DEF spVars, managerVars, readVars, workVars, relayVars, controlVars, eventVars
    <3> QED BY <1>1, <3>1 DEF Local, SpTypeOK, Relayed, JobsMatch, ChunksKept, Places, OnItsWay,
                              ThreadsGood, RunGood, Gone
  <2> QED BY <2>1, <2>2, <2>3, <2>4, <2>5, <2>6, <2>7 DEF SpNext
<1> QED BY <1>2, <1>3 DEF SpInv, Local

(* What every state of the pipeline satisfies. *)
THEOREM SpInvariance == SpSpec => []SpInv
  BY SpInitInv, SpStepInv, PTL DEF SpSpec

-------------------------------------------------------------------------------
(* The properties. *)

(* Type correctness: the two queues before the chunk relay never hold more *)
(* than their capacity, and no ack becomes an event twice.                 *)
THEOREM SpTypeCorrect == SpSpec => []SpTypeOK
<1>1. SpInv => SpTypeOK
  BY DEF SpInv
<1> QED BY <1>1, SpInvariance, PTL

(* Every chunk that reader_thread has read is in one place and only one:   *)
(* place_chunk counts no packet twice and misses none.                     *)
THEOREM ReadKept == SpSpec => []ReadIsKept
<1>1. SpInv => ReadIsKept
  BY DEF SpInv, ChunksKept, Places, ReadIsKept
<1> QED BY <1>1, SpInvariance, PTL

(* What send_file returns is true of the file.                             *)
THEOREM ResultHonest == SpSpec => []ResultIsHonest
<1>1. SpInv => ResultIsHonest
  <2> SUFFICES ASSUME SpInv PROVE ResultIsHonest
    OBVIOUS
  <2>1. /\ mgr = "ok" => B!ResolvedBlocks = BlockIds
        /\ mgr = "err" => ~control_open /\ B!ResolvedBlocks # BlockIds
    BY ManagerFacts DEF SpInv
  <2>2. run = "ok" => read_pos = TotalChunks /\ B!ResolvedBlocks = BlockIds
    BY <2>1 DEF SpInv, RunGood, ThreadsGood
  <2>3. run = "err" => \/ reader = "err"
                       \/ ~control_open /\ B!ResolvedBlocks # BlockIds
                       \/ B!ResolvedBlocks = BlockIds /\ handled # ChunkIds
    BY <2>1 DEF SpInv, RunGood
  <2> QED BY <2>2, <2>3 DEF ResultIsHonest
<1> QED BY <1>1, SpInvariance, PTL

(* The threads, channels, relays and joins of send_file implement the      *)
(* block manager that reads its chunks and acks from nowhere: all that is  *)
(* proved of BlockManager holds of the pipeline too.                       *)
THEOREM PipelineImplementsManager == SpSpec => ImplementsBlockManager
<1>1. SpInit => B!MgrInit
  BY DEF SpInit
<1>2. SpInv /\ [SpNext]_spVars => [B!MgrNext]_B!mgrVars
  BY StepSimulates DEF SpInv
<1> QED BY <1>1, <1>2, SpInvariance, PTL DEF SpSpec, ImplementsBlockManager, B!MgrSpec

===============================================================================
