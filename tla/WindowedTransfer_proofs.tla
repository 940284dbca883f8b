------------------------ MODULE WindowedTransfer_proofs ------------------------
(***************************************************************************)
(* The two peers implement WindowedTransfer.  What each knows of the other *)
(* is in the messages between them: MsgInv relates every message, and every *)
(* entry of the receiver's tables, to the sender's block_states.           *)
(***************************************************************************)
EXTENDS Transport_proofs

(* The blocks the sender has opened: only they are ever on the wire. *)
Begun == OpenBlocks \cup ResolvedBlocks

Known == Tracked \cup rx_completed

MessagesBegun ==
  /\ \A d \in InFlight : d.block_id \in Begun
  /\ \A d \in InQueue : d.block_id \in Known
  /\ Known \subseteq Begun

(* What is verified of a block is in its entry, until the block is removed. *)
VerifiedIsMarked ==
  \A b \in BlockIds : \A p \in PacketIds(b) :
    chunk_id_of(b, p) \in verified =>
      b \in rx_completed \/ (b \in Tracked /\ p \in rx_blocks[b].received)

MsgInv == MessagesBegun /\ VerifiedIsMarked /\ AcksWelcome

WindowInv == TransferInv /\ MsgInv

-------------------------------------------------------------------------------
(* The sender. *)

(* How a step of the manager changes block_states: it opens a block, if    *)
(* the pipeline has room, buffers one, or resolves one on its Complete.    *)
LEMMA SenderMoves ==
  ASSUME IInv, SndNext
  PROVE  \/ slot' = slot /\ (acks' = acks \/ (acks # <<>> /\ acks' = Tail(acks)))
         \/ /\ acks' = acks
            /\ \E b \in BlockIds :
                 /\ slot[b] \in {"Unseen", "Pending"}
                 /\ open_slots < PipelineDepth
                 /\ slot' = [slot EXCEPT ![b] = "Open"]
         \/ /\ acks' = acks
            /\ \E b \in BlockIds :
                 slot[b] = "Unseen" /\ slot' = [slot EXCEPT ![b] = "Pending"]
         \/ /\ acks # <<>> /\ acks' = Tail(acks)
            /\ Head(acks).tag = "COMPLETE"
            /\ slot' = [slot EXCEPT ![Head(acks).block_id] = "Resolved"]
<1>1. CASE DrainPending
  <2>1. PICK b \in PendingBlocks : slot' = [slot EXCEPT ![b] = "Open"]
    BY <1>1 DEF DrainPending
  <2>2. b \in BlockIds /\ slot[b] = "Pending"
    BY DEF PendingBlocks
  <2> QED BY <1>1, <2>1, <2>2 DEF DrainPending, Admittable
<1>2. CASE \E c \in chunks : AdmitOrBuffer(c)
  <2>1. PICK c \in chunks : AdmitOrBuffer(c)
    BY <1>2
  <2> DEFINE b == block_of(c)[1]
             p == block_of(c)[2]
  <2>2. b \in BlockIds
    BY FrameFacts, TypeFacts
  <2>3. /\ acks' = acks
        /\ \/ DropStale(b) \/ PlaceIntoOpen(b, p) \/ AppendToPending(b, p)
           \/ OpenAndPlace(b, p) \/ BufferNew(b, p)
    BY <2>1 DEF AdmitOrBuffer
  <2> HIDE DEF b, p
  <2>4. CASE DropStale(b) \/ PlaceIntoOpen(b, p) \/ AppendToPending(b, p)
    BY <2>3, <2>4 DEF DropStale, PlaceIntoOpen, AppendToPending
  <2>5. CASE OpenAndPlace(b, p)
    BY <2>2, <2>3, <2>5 DEF OpenAndPlace
  <2>6. CASE BufferNew(b, p)
    BY <2>2, <2>3, <2>6 DEF BufferNew
  <2> QED BY <2>3, <2>4, <2>5, <2>6
<1>3. CASE OnMissing
  BY <1>3 DEF OnMissing, TakeAck
<1>4. CASE OnComplete
  BY <1>4 DEF OnComplete, TakeAck, CompleteOpen, CompleteUnopened, CompleteAgain, Resolve, blockVars
<1>5. CASE RetransmitStale \/ SndTick \/ Return \/ Disconnected
  BY <1>5 DEF RetransmitStale, SndTick, Return, Disconnected, blockVars, wireVars
<1> QED BY <1>1, <1>2, <1>3, <1>4, <1>5 DEF SndNext

(* The same for the sets of blocks: a block begun stays begun, and an open *)
(* one stays open until its Complete is taken.                             *)
LEMMA SenderKeeps ==
  ASSUME IInv, SndNext
  PROVE  /\ Begun \subseteq Begun'
         /\ \A b \in OpenBlocks : \/ b \in OpenBlocks'
                                  \/ /\ acks # <<>> /\ acks' = Tail(acks)
                                     /\ Head(acks).tag = "COMPLETE"
                                     /\ Head(acks).block_id = b
<1>1. slot \in [BlockIds -> SlotStates]
  BY TypeFacts
<1>2. CASE slot' = slot
  BY <1>2 DEF Begun, OpenBlocks, ResolvedBlocks
<1>3. CASE \E b \in BlockIds, v \in {"Open", "Pending"} :
             slot[b] \in {"Unseen", "Pending"} /\ slot' = [slot EXCEPT ![b] = v]
  BY <1>1, <1>3 DEF Begun, OpenBlocks, ResolvedBlocks
<1>4. CASE /\ acks # <<>> /\ acks' = Tail(acks)
           /\ Head(acks).tag = "COMPLETE"
           /\ slot' = [slot EXCEPT ![Head(acks).block_id] = "Resolved"]
  BY <1>1, <1>4 DEF Begun, OpenBlocks, ResolvedBlocks
<1> QED BY <1>2, <1>3, <1>4, SenderMoves

(* Sending for one open block. *)
LEMMA SendsFor ==
  ASSUME NEW b, NEW ps, NEW d \in DataOf(b, ps) \cup {BlockEnd(b, Total(b))}
  PROVE  d.block_id = b
BY DEF DataOf, Data, BlockEnd

LEMMA PlaceSendsFor ==
  ASSUME WireTypeOK, NEW b, NEW s, NEW ps, PlaceChunks(b, s, ps)
  PROVE  \A d \in InFlight' : d \in InFlight \/ d.block_id = b
<1> DEFINE ds == DataOf(b, ps) \cup (IF EndsBlock(b, s, ps) THEN {BlockEnd(b, Total(b))} ELSE {})
<1>1. Send(ds)
  BY DEF PlaceChunks
<1>2. \A d \in ds : d.block_id = b
  BY SendsFor
<1> HIDE DEF ds
<1> QED BY <1>1, <1>2, SendFacts

(* The manager sends nothing but packets and ends of open blocks. *)
LEMMA SenderSends ==
  ASSUME IInv, SndNext
  PROVE  \A d \in InFlight' : d \in InFlight \/ d.block_id \in Begun \/ d.block_id \in OpenBlocks'
<1>0. slot \in [BlockIds -> SlotStates] /\ WireTypeOK
  BY TypeFacts DEF IInv, MgrTypeOK
<1>1. CASE DrainPending
  <2>1. PICK b \in PendingBlocks : /\ slot' = [slot EXCEPT ![b] = "Open"]
                                   /\ PlaceChunks(b, NewBlockState, bucket[b])
    BY <1>1 DEF DrainPending
  <2>2. b \in OpenBlocks'
    BY <1>0, <2>1 DEF OpenBlocks, PendingBlocks
  <2> QED BY <1>0, <2>1, <2>2, PlaceSendsFor
<1>2. CASE \E c \in chunks : AdmitOrBuffer(c)
  <2>1. PICK c \in chunks : AdmitOrBuffer(c)
    BY <1>2
  <2> DEFINE b == block_of(c)[1]
             p == block_of(c)[2]
  <2>2. b \in BlockIds
    BY FrameFacts, TypeFacts
  <2>3. \/ net' = net
        \/ slot[b] = "Open" /\ PlaceChunks(b, blk[b], {p})
        \/ slot' = [slot EXCEPT ![b] = "Open"] /\ PlaceChunks(b, NewBlockState, {p})
    BY <2>1 DEF AdmitOrBuffer, DropStale, PlaceIntoOpen, AppendToPending, OpenAndPlace, BufferNew
  <2> HIDE DEF b, p
  <2>4. CASE net' = net
    BY <2>4 DEF InFlight
  <2>5. CASE slot[b] = "Open" /\ PlaceChunks(b, blk[b], {p})
    BY <1>0, <2>2, <2>5, PlaceSendsFor DEF Begun, OpenBlocks
  <2>6. CASE slot' = [slot EXCEPT ![b] = "Open"] /\ PlaceChunks(b, NewBlockState, {p})
    <3>1. b \in OpenBlocks'
      BY <1>0, <2>2, <2>6 DEF OpenBlocks
    <3> QED BY <1>0, <2>6, <3>1, PlaceSendsFor
  <2> QED BY <2>3, <2>4, <2>5, <2>6
<1>3. CASE OnMissing
  <2> DEFINE b == Head(acks).block_id
  <2>1. \/ net' = net
        \/ slot[b] = "Open" /\ \E ps : Send(DataOf(b, ps))
    BY <1>3 DEF OnMissing
  <2>2. acks # <<>> /\ acks \in Seq(BlockAcks)
    BY <1>0, <1>3 DEF OnMissing, TakeAck, WireTypeOK
  <2>3. b \in BlockIds
    BY <2>2, AckTypes
  <2> HIDE DEF b
  <2>4. CASE slot[b] = "Open" /\ \E ps : Send(DataOf(b, ps))
    <3>1. PICK ps : Send(DataOf(b, ps))
      BY <2>4
    <3>2. \A d \in DataOf(b, ps) : d.block_id = b
      BY SendsFor
    <3> QED BY <1>0, <2>3, <2>4, <3>1, <3>2, SendFacts DEF Begun, OpenBlocks
  <2> QED BY <2>1, <2>4 DEF InFlight
<1>4. CASE RetransmitStale
  <2> DEFINE ds == UNION {DataOf(b, blk[b].cached) \cup {BlockEnd(b, Total(b))} : b \in StaleBlocks}
  <2>1. Send(ds)
    BY <1>4 DEF RetransmitStale
  <2>2. \A d \in ds : d.block_id \in StaleBlocks
    BY SendsFor
  <2> HIDE DEF ds
  <2> QED BY <1>0, <2>1, <2>2, SendFacts DEF StaleBlocks, Begun
<1>5. CASE OnComplete \/ SndTick \/ Return \/ Disconnected
  BY <1>5 DEF OnComplete, SndTick, Return, Disconnected, wireVars, InFlight
<1> QED BY <1>1, <1>2, <1>3, <1>4, <1>5 DEF SndNext

-------------------------------------------------------------------------------
(* The receiver. *)

(* A block that is tracked and not being closed is open at the sender: it  *)
(* was begun, and is not resolved since the receiver has not decided.      *)
LEMMA TrackedIsOpen ==
  ASSUME WindowInv, NEW b \in Tracked \ closing
  PROVE  b \in OpenBlocks
<1>1. b \in Begun /\ b \notin rx_completed
  BY DEF WindowInv, MsgInv, MessagesBegun, Known, TransferInv, RcvInv, TrackerGood, NoResurrection
<1>2. b \notin ResolvedBlocks
  BY <1>1 DEF WindowInv, TransferInv, Decided, DecidedBlocks
<1> QED BY <1>1, <1>2 DEF Begun

(* The receiving socket only takes datagrams. *)
LEMMA ReceiveTakes ==
  ASSUME WireTypeOK, NEW d, Receive(d)
  PROVE  d \in InFlight /\ InFlight' \subseteq InFlight
<1>1. d \in InFlight /\ (net' = net \/ net' = [net EXCEPT ![d] = @ - 1])
  BY DEF Receive
<1>2. ASSUME NEW x \in Datagrams, net'[x] > 0
      PROVE  net[x] > 0
  BY <1>1, <1>2, WireAssumption DEF WireTypeOK
<1> QED BY <1>1, <1>2 DEF InFlight

LEMMA ReceiverTakes ==
  ASSUME WireTypeOK, RcvNext
  PROVE  InFlight' \subseteq InFlight
<1>1. CASE RecvData \/ RecvBlockEnd
  BY <1>1, ReceiveTakes DEF RecvData, RecvBlockEnd
<1>2. CASE net' = net
  BY <1>2 DEF InFlight
<1>3. RecvData \/ RecvBlockEnd \/ net' = net
  BY DEF RcvNext, RecvData, RecvBlockEnd, Verify, Reject, TakePacket, AckPoll, AckComplete,
         AckGiveUp, AckMissing, AckRemove, StopReceiving, RcvTick, StartCheck, wireVars
<1> QED BY <1>1, <1>2, <1>3

(* An ack is for a block that is tracked and not being closed. *)
LEMMA ReceiverAnswers ==
  ASSUME RcvNext
  PROVE  \/ acks' = acks
         \/ \E b \in Tracked \ closing : \E a : acks' = Append(acks, a) /\ a.block_id = b
<1>1. CASE AckComplete \/ AckGiveUp
  <2>1. PICK b \in ready : StartCheck(b) /\ SendComplete(b)
    BY <1>1 DEF AckComplete, AckGiveUp
  <2>2. b \in Tracked \ closing /\ acks' = Append(acks, Complete(b)) /\ Complete(b).block_id = b
    BY <2>1 DEF StartCheck, SendComplete, Complete
  <2> QED BY <2>2
<1>2. CASE AckMissing
  <2>1. PICK b \in ready : /\ StartCheck(b)
                           /\ acks' = Append(acks, Missing(b, MissingIds(Snapshot(b))))
    BY <1>2 DEF AckMissing
  <2>2. b \in Tracked \ closing /\ Missing(b, MissingIds(Snapshot(b))).block_id = b
    BY <2>1 DEF StartCheck, Missing
  <2> QED BY <2>1, <2>2
<1>3. AckComplete \/ AckGiveUp \/ AckMissing \/ acks' = acks
  BY DEF RcvNext, RecvData, RecvBlockEnd, Verify, Reject, TakePacket, AckPoll,
         AckRemove, StopReceiving, RcvTick, wireVars
<1> QED BY <1>1, <1>2, <1>3

(* What an update of an entry does to the set of known blocks. *)
LEMMA UpsertKnown ==
  ASSUME NEW b, NEW e, Upsert(b, e), EntryOf(b, Total(b)).received \subseteq e.received
  PROVE  /\ rx_completed' = rx_completed
         /\ Tracked \subseteq Tracked'
         /\ Known' = Known \cup {b}
         /\ \A x \in Tracked : rx_blocks[x].received \subseteq rx_blocks'[x].received
         /\ b \in rx_completed \/ (b \in Tracked' /\ rx_blocks'[b] = e)
<1>1. rx_completed' = rx_completed
  BY DEF Upsert
<1>2. CASE b \in rx_completed
  <2>1. rx_blocks' = rx_blocks
    BY <1>2 DEF Upsert
  <2> QED BY <1>1, <1>2, <2>1 DEF Tracked, Known
<1>3. CASE b \notin rx_completed
  <2>1. rx_blocks' = Put(b, e)
    BY <1>3 DEF Upsert
  <2>2. /\ Tracked' = Tracked \cup {b}
        /\ \A x \in Tracked' : rx_blocks'[x] = IF x = b THEN e ELSE rx_blocks[x]
    BY <2>1 DEF Put, Tracked
  <2>3. b \in Tracked => rx_blocks[b].received \subseteq e.received
    BY DEF EntryOf
  <2> QED BY <1>1, <2>2, <2>3 DEF Known
<1> QED BY <1>2, <1>3

(* A step of the receiver that knows no block the sender has not begun,    *)
(* forgets none, and marks what it verifies.                               *)
LEMMA TablesKeep ==
  ASSUME MessagesBegun, VerifiedIsMarked,
         InFlight' \subseteq InFlight, Begun' = Begun,
         Known' \subseteq Begun,
         rx_completed \subseteq rx_completed',
         \A x \in Tracked :
           \/ x \in rx_completed'
           \/ x \in Tracked' /\ rx_blocks[x].received \subseteq rx_blocks'[x].received,
         \A d \in InQueue' : d \in InQueue \/ d.block_id \in Known',
         \/ verified' = verified
         \/ \E b \in BlockIds : \E p \in PacketIds(b) :
              /\ verified' = verified \cup {chunk_id_of(b, p)}
              /\ b \in rx_completed' \/ (b \in Tracked' /\ p \in rx_blocks'[b].received)
  PROVE  MessagesBegun' /\ VerifiedIsMarked'
<1>1. Known \subseteq Known'
  BY DEF Known
<1>2. MessagesBegun'
  BY <1>1 DEF MessagesBegun
<1>3. ASSUME NEW b \in BlockIds, NEW p \in PacketIds(b), chunk_id_of(b, p) \in verified'
      PROVE  b \in rx_completed' \/ (b \in Tracked' /\ p \in rx_blocks'[b].received)
  <2>1. CASE chunk_id_of(b, p) \in verified
    BY <2>1 DEF VerifiedIsMarked
  <2>2. CASE chunk_id_of(b, p) \notin verified
    <3>1. PICK c \in BlockIds : \E q \in PacketIds(c) :
            /\ verified' = verified \cup {chunk_id_of(c, q)}
            /\ c \in rx_completed' \/ (c \in Tracked' /\ q \in rx_blocks'[c].received)
      BY <1>3, <2>2
    <3>2. PICK q \in PacketIds(c) :
            /\ verified' = verified \cup {chunk_id_of(c, q)}
            /\ c \in rx_completed' \/ (c \in Tracked' /\ q \in rx_blocks'[c].received)
      BY <3>1
    <3>3. chunk_id_of(b, p) = chunk_id_of(c, q)
      BY <1>3, <2>2, <3>2
    <3>4. <<b, p>> = <<c, q>>
      BY <3>3, FrameFacts
    <3> QED BY <3>2, <3>4
  <2> QED BY <2>1, <2>2
<1> QED BY <1>2, <1>3 DEF VerifiedIsMarked

(* Each step of the receiver is one TablesKeep speaks of. *)
LEMMA ReceiverTables ==
  ASSUME RcvInv, WireTypeOK, MessagesBegun, VerifiedIsMarked, RcvNext, Begun' = Begun
  PROVE  MessagesBegun' /\ VerifiedIsMarked'
<1>0. InFlight' \subseteq InFlight
  BY ReceiverTakes
<1>1. CASE RecvData
  <2>1. PICK d \in InFlight :
          /\ touch_activity(d.block_id, Total(d.block_id))
          /\ packet_queue' = [packet_queue EXCEPT ![d] = @ + 1]
    BY <1>1 DEF RecvData
  <2> DEFINE b == d.block_id
             old == EntryOf(b, Total(b))
             e == [old EXCEPT !.age = 0]
  <2>2. b \in BlockIds /\ b \in Begun
    BY DatagramTypes DEF InFlight, MessagesBegun
  <2>3. Upsert(b, e)
    BY <2>1 DEF touch_activity
  <2>4. GoodEntry(b, old, verified)
    BY <2>2, EntryOfGood DEF RcvInv
  <2>5. e.received = old.received
    BY <2>2, <2>4, EntryUpdates DEF GoodEntry
  <2> HIDE DEF e
  <2>6. InQueue' = InQueue \cup {d}
    BY <2>1, QueueAdd DEF RcvInv, QueueGood, InFlight
  <2>7. verified' = verified
    BY <1>1 DEF RecvData
  <2>8. /\ rx_completed' = rx_completed /\ Tracked \subseteq Tracked'
        /\ Known' = Known \cup {b}
        /\ \A x \in Tracked : rx_blocks[x].received \subseteq rx_blocks'[x].received
    BY <2>3, <2>5, UpsertKnown
  <2> QED BY <1>0, <2>2, <2>6, <2>7, <2>8, TablesKeep DEF MessagesBegun
<1>2. CASE RecvBlockEnd
  <2>1. PICK d \in InFlight :
          d.tag = "BLOCK_END" /\ mark_end_seen(d.block_id, d.total_packets)
    BY <1>2 DEF RecvBlockEnd
  <2> DEFINE b == d.block_id
             old == EntryOf(b, Total(b))
             e == [old EXCEPT !.end_seen = TRUE, !.age = 0]
  <2>2. b \in BlockIds /\ b \in Begun /\ d.total_packets = Total(b)
    BY <2>1, DatagramTypes DEF InFlight, MessagesBegun
  <2>3. Upsert(b, e)
    BY <2>1, <2>2 DEF mark_end_seen
  <2>4. GoodEntry(b, old, verified)
    BY <2>2, EntryOfGood DEF RcvInv
  <2>5. e.received = old.received
    BY <2>2, <2>4, EntryUpdates DEF GoodEntry
  <2> HIDE DEF e
  <2>6. packet_queue' = packet_queue /\ verified' = verified
    BY <1>2 DEF RecvBlockEnd
  <2>7. /\ rx_completed' = rx_completed /\ Tracked \subseteq Tracked'
        /\ Known' = Known \cup {b}
        /\ \A x \in Tracked : rx_blocks[x].received \subseteq rx_blocks'[x].received
    BY <2>3, <2>5, UpsertKnown
  <2> QED BY <1>0, <2>2, <2>6, <2>7, TablesKeep DEF MessagesBegun, InQueue
<1>3. CASE Verify
  <2>1. PICK d \in Datagrams :
          /\ TakePacket(d)
          /\ mark_verified(d.block_id, d.packet_in_block, Total(d.block_id))
          /\ verified' = verified \cup {chunk_id_of(d.block_id, d.packet_in_block)}
    BY <1>3 DEF Verify
  <2> DEFINE b == d.block_id
             p == d.packet_in_block
             old == EntryOf(b, Total(b))
             e == Marked(old, p)
  <2>2. b \in BlockIds /\ p \in PacketIds(b) /\ b \in Known
    BY <2>1, QueueTake, DatagramTypes DEF RcvInv, QueueGood, MessagesBegun
  <2>3. Upsert(b, e)
    BY <2>1 DEF mark_verified
  <2>4. GoodEntry(b, old, verified)
    BY <2>2, EntryOfGood DEF RcvInv
  <2>5. old.received \subseteq e.received /\ p \in e.received
    <3> HIDE DEF b, p, old, e
    <3>1. /\ GoodEntry(b, Marked(old, p), verified \cup {chunk_id_of(b, p)})
          /\ Marked(old, p).received = old.received \cup {p}
      BY <2>2, <2>4, MarkedGood
    <3> QED BY <3>1 DEF e
  <2> HIDE DEF e
  <2>6. \A x \in InQueue' : x \in InQueue
    BY <2>1, QueueTake DEF RcvInv, QueueGood
  <2>7. /\ rx_completed' = rx_completed /\ Tracked \subseteq Tracked'
        /\ Known' = Known \cup {b}
        /\ \A x \in Tracked : rx_blocks[x].received \subseteq rx_blocks'[x].received
        /\ b \in rx_completed \/ (b \in Tracked' /\ rx_blocks'[b] = e)
    BY <2>3, <2>5, UpsertKnown
  <2>8. /\ verified' = verified \cup {chunk_id_of(b, p)}
        /\ b \in rx_completed' \/ (b \in Tracked' /\ p \in rx_blocks'[b].received)
    BY <2>1, <2>5, <2>7
  <2> HIDE DEF b, p
  <2> QED BY <1>0, <2>2, <2>6, <2>7, <2>8, TablesKeep DEF MessagesBegun
<1>4. CASE Reject
  <2>1. PICK d \in Datagrams : TakePacket(d)
    BY <1>4 DEF Reject
  <2>2. \A x \in InQueue' : x \in InQueue
    BY <2>1, QueueTake DEF RcvInv, QueueGood
  <2>3. UNCHANGED <<rx_blocks, rx_completed, verified>>
    BY <1>4 DEF Reject, trackVars
  <2> QED BY <1>0, <2>2, <2>3, TablesKeep DEF MessagesBegun, Known, Tracked
<1>5. CASE AckComplete \/ AckGiveUp \/ AckMissing
  <2>1. PICK b \in ready : StartCheck(b)
    BY <1>5 DEF AckComplete, AckGiveUp, AckMissing
  <2>2. /\ b \in Tracked /\ Tracked' = Tracked /\ rx_blocks'[b] = Snapshot(b)
        /\ b \in BlockIds
        /\ \A x \in Tracked \ {b} : rx_blocks'[x] = rx_blocks[x]
        /\ UNCHANGED <<rx_completed, packet_queue, verified>>
    BY <2>1, StartCheckFacts
  <2>3. Snapshot(b).received = rx_blocks[b].received
    BY <2>2, EntryUpdates DEF Snapshot, RcvInv, TrackerGood, GoodEntry
  <2> QED BY <1>0, <2>2, <2>3, TablesKeep DEF MessagesBegun, InQueue, Known
<1>6. CASE AckRemove
  <2>1. PICK b \in closing :
          /\ rx_blocks' = [x \in Tracked \ {b} |-> rx_blocks[x]]
          /\ rx_completed' = rx_completed \cup {b}
          /\ UNCHANGED <<packet_queue, verified>>
    BY <1>6 DEF AckRemove
  <2>2. b \in Tracked
    BY DEF RcvInv, SweepGood, SweepIsLive
  <2>3. Tracked' = Tracked \ {b} /\ \A x \in Tracked' : rx_blocks'[x] = rx_blocks[x]
    BY <2>1 DEF Tracked
  <2> QED BY <1>0, <2>1, <2>2, <2>3, TablesKeep DEF MessagesBegun, InQueue, Known
<1>7. CASE RcvTick
  <2>1. /\ Tracked' = Tracked
        /\ \A x \in Tracked : rx_blocks'[x] = IF rx_blocks[x].age < IdleTimeout
                                              THEN [rx_blocks[x] EXCEPT !.age = @ + 1]
                                              ELSE rx_blocks[x]
        /\ UNCHANGED <<rx_completed, packet_queue, verified>>
    BY <1>7 DEF RcvTick, Tracked
  <2>2. ASSUME NEW x \in Tracked
        PROVE  rx_blocks'[x].received = rx_blocks[x].received
    <3>1. x \in BlockIds /\ rx_blocks[x] \in EntriesOf(x)
      BY DEF RcvInv, TrackerGood, GoodEntry
    <3> QED BY <2>1, <3>1 DEF EntriesOf
  <2> QED BY <1>0, <2>1, <2>2, TablesKeep DEF MessagesBegun, Known, InQueue
<1>8. CASE AckPoll \/ StopReceiving
  <2>1. UNCHANGED <<rx_blocks, rx_completed, packet_queue, verified>>
    BY <1>8 DEF AckPoll, StopReceiving, trackVars
  <2> QED BY <1>0, <2>1, TablesKeep DEF MessagesBegun, Known, InQueue, Tracked
<1> QED BY <1>1, <1>2, <1>3, <1>4, <1>5, <1>6, <1>7, <1>8 DEF RcvNext

-------------------------------------------------------------------------------
(* The acks.  One that is written finds its block open; one that is taken  *)
(* leaves no other for its block behind.                                   *)
LEMMA AckWritten ==
  ASSUME WindowInv, Receiver
  PROVE  AcksWelcome'
<1>1. RcvNext /\ slot' = slot /\ AcksWelcome /\ acks \in Seq(BlockAcks)
  BY DEF Receiver, sndVars, WindowInv, MsgInv, TransferInv, IInv, MgrTypeOK, WireTypeOK
<1>2. CASE acks' = acks
  BY <1>1, <1>2 DEF AcksWelcome
<1>3. CASE \E b \in Tracked \ closing : \E a : acks' = Append(acks, a) /\ a.block_id = b
  <2>1. PICK b \in Tracked \ closing : \E a : acks' = Append(acks, a) /\ a.block_id = b
    BY <1>3
  <2>2. PICK a : acks' = Append(acks, a) /\ a.block_id = b
    BY <2>1
  <2>3. slot[b] = "Open"
    BY TrackedIsOpen DEF OpenBlocks
  <2>4. b \notin DecidedBlocks
    BY DEF DecidedBlocks, WindowInv, TransferInv, RcvInv, TrackerGood, NoResurrection
  <2>5. \A i \in DOMAIN acks : acks[i].tag = "COMPLETE" => acks[i].block_id # b
    BY <2>4 DEF WindowInv, TransferInv, Decided
  <2>6. \A i \in DOMAIN acks' : \/ i \in DOMAIN acks /\ acks'[i] = acks[i]
                                \/ i = Len(acks) + 1 /\ acks'[i] = a
    BY <1>1, <2>2
  <2>7. DOMAIN acks = 1 .. Len(acks) /\ Len(acks) \in Nat
    BY <1>1
  <2>8. \A i \in DOMAIN acks' : slot[acks'[i].block_id] = "Open"
    BY <1>1, <2>2, <2>3, <2>6 DEF AcksWelcome
  <2>9. ASSUME NEW i \in DOMAIN acks', acks'[i].tag = "COMPLETE",
               NEW j \in DOMAIN acks', acks'[j].block_id = acks'[i].block_id
        PROVE  j <= i
    <3>1. CASE i = Len(acks) + 1
      BY <2>6, <2>7, <3>1
    <3>2. CASE i \in DOMAIN acks /\ acks'[i] = acks[i]
      <4>1. acks[i].block_id # b
        BY <2>5, <2>9, <3>2
      <4>2. j \in DOMAIN acks /\ acks'[j] = acks[j]
        BY <2>2, <2>6, <2>9, <3>2, <4>1
      <4> QED BY <1>1, <2>9, <3>2, <4>2 DEF AcksWelcome
    <3> QED BY <2>6, <3>1, <3>2
  <2> QED BY <1>1, <2>8, <2>9 DEF AcksWelcome
<1> QED BY <1>1, <1>2, <1>3, ReceiverAnswers

LEMMA AckTaken ==
  ASSUME WindowInv, Sender
  PROVE  AcksWelcome'
<1>1. SndNext /\ IInv /\ AcksWelcome /\ acks \in Seq(BlockAcks)
  BY DEF Sender, WindowInv, MsgInv, TransferInv, IInv, MgrTypeOK, WireTypeOK
<1>2. slot \in [BlockIds -> SlotStates] /\ \A i \in DOMAIN acks : acks[i].block_id \in BlockIds
  BY <1>1, TypeFacts, AckTypes
<1>3. CASE acks' = acks
  <2>1. \A b \in OpenBlocks : b \in OpenBlocks' \/ (acks # <<>> /\ acks' = Tail(acks))
    BY <1>1, SenderKeeps
  <2>2. acks # <<>> => acks' # Tail(acks)
    BY <1>1, <1>3
  <2> QED BY <1>1, <1>2, <1>3, <2>1, <2>2 DEF AcksWelcome, OpenBlocks
<1>4. CASE acks # <<>> /\ acks' = Tail(acks)
  <2>1. /\ \A i \in DOMAIN acks' : /\ i + 1 \in DOMAIN acks /\ acks'[i] = acks[i + 1]
                                   /\ i \in Nat /\ i >= 1
        /\ Head(acks) = acks[1] /\ 1 \in DOMAIN acks
    BY <1>1, <1>4, HeadTailProperties
  <2>2. ASSUME NEW i \in DOMAIN acks'
        PROVE  slot'[acks'[i].block_id] = "Open"
    <3>1. acks'[i].block_id \in OpenBlocks
      BY <1>1, <1>2, <2>1 DEF AcksWelcome, OpenBlocks
    <3>2. Head(acks).tag = "COMPLETE" => Head(acks).block_id # acks'[i].block_id
      <4>1. ~(i + 1 <= 1)
        BY <2>1
      <4> QED BY <1>1, <2>1, <4>1 DEF AcksWelcome
    <3> QED BY <1>1, <3>1, <3>2, SenderKeeps DEF OpenBlocks
  <2>3. ASSUME NEW i \in DOMAIN acks', acks'[i].tag = "COMPLETE",
               NEW j \in DOMAIN acks', acks'[j].block_id = acks'[i].block_id
        PROVE  j <= i
    <3>1. j + 1 <= i + 1
      BY <1>1, <2>1, <2>3 DEF AcksWelcome
    <3> QED BY <2>1, <3>1
  <2> QED BY <2>2, <2>3 DEF AcksWelcome
<1> QED BY <1>1, <1>3, <1>4, SenderMoves

-------------------------------------------------------------------------------
LEMMA WindowInit == Init => WindowInv
<1> SUFFICES ASSUME Init PROVE WindowInv
  OBVIOUS
<1>1. TransferInv
  BY TransferInit
<1>2. Tracked = {} /\ rx_completed = {} /\ verified = {} /\ InQueue = {}
  BY DEF Init, RcvInit, Tracked, InQueue
<1>3. InFlight = {} /\ acks = <<>>
  BY DEF Init, WireInit, InFlight
<1> QED BY <1>1, <1>2, <1>3
        DEF WindowInv, MsgInv, MessagesBegun, VerifiedIsMarked, AcksWelcome, Known

LEMMA WindowStep == WindowInv /\ [Next]_vars => WindowInv'
<1> SUFFICES ASSUME WindowInv, [Next]_vars PROVE WindowInv'
  OBVIOUS
<1>0. TransferInv' /\ WireTypeOK
  BY SenderStep, ReceiverStep, NetworkStep
     DEF Next, Finished, WindowInv, TransferInv, IInv, MgrTypeOK
<1>1. CASE Sender
  <2>1. SndNext /\ IInv /\ UNCHANGED <<rx_blocks, rx_completed, packet_queue, verified>>
    BY <1>1 DEF Sender, rcvVars, trackVars, WindowInv, TransferInv
  <2>2. Begun \subseteq Begun' /\ OpenBlocks' \subseteq Begun'
    BY <2>1, SenderKeeps DEF Begun
  <2>3. \A d \in InFlight' : d.block_id \in Begun'
    BY <2>1, <2>2, SenderSends DEF WindowInv, MsgInv, MessagesBegun
  <2>4. Known' = Known
    BY <2>1 DEF Known, Tracked
  <2>5. MessagesBegun'
    BY <2>1, <2>2, <2>3, <2>4 DEF WindowInv, MsgInv, MessagesBegun, InQueue
  <2>6. VerifiedIsMarked'
    BY <2>1 DEF WindowInv, MsgInv, VerifiedIsMarked, Tracked
  <2> QED BY <1>0, <1>1, <2>5, <2>6, AckTaken DEF WindowInv, MsgInv
<1>2. CASE Receiver
  <2>1. RcvNext /\ RcvInv /\ slot' = slot
    BY <1>2 DEF Receiver, sndVars, WindowInv, TransferInv
  <2>2. Begun' = Begun
    BY <2>1 DEF Begun, OpenBlocks, ResolvedBlocks
  <2>3. MessagesBegun' /\ VerifiedIsMarked'
    BY <1>0, <2>1, <2>2, ReceiverTables DEF WindowInv, MsgInv
  <2> QED BY <1>0, <1>2, <2>3, AckWritten DEF WindowInv, MsgInv
<1>3. CASE Network \/ UNCHANGED vars
  <2>1. UNCHANGED <<slot, rx_blocks, rx_completed, packet_queue, verified, acks>>
    BY <1>3 DEF Network, Lose, vars, sndVars, rcvVars, trackVars, wireVars
  <2>2. InFlight' \subseteq InFlight
    <3>1. CASE UNCHANGED vars
      BY <3>1 DEF vars, wireVars, InFlight
    <3>2. CASE Network
      <4>1. PICK d \in InFlight : net' = [net EXCEPT ![d] = @ - 1]
        BY <3>2 DEF Network, Lose
      <4>2. ASSUME NEW x \in Datagrams, net'[x] > 0
            PROVE  net[x] > 0
        BY <1>0, <4>1, <4>2, WireAssumption DEF WireTypeOK
      <4> QED BY <4>2 DEF InFlight
    <3> QED BY <1>3, <3>1, <3>2
  <2>3. Begun' = Begun /\ Known' = Known /\ Tracked' = Tracked
    BY <2>1 DEF Begun, OpenBlocks, ResolvedBlocks, Known, Tracked
  <2>4. MessagesBegun' /\ VerifiedIsMarked'
    BY <2>1, <2>2, <2>3 DEF WindowInv, MsgInv, MessagesBegun, InQueue, VerifiedIsMarked
  <2>5. AcksWelcome'
    BY <2>1 DEF WindowInv, MsgInv, AcksWelcome
  <2> QED BY <1>0, <2>4, <2>5 DEF WindowInv, MsgInv
<1> QED BY <1>1, <1>2, <1>3 DEF Next, Finished

(* The joint invariant of messages and tables, for every file, block size, *)
(* depth and whatever the network does.                                    *)
THEOREM WindowInvariance == Spec => []WindowInv
BY WindowInit, WindowStep, PTL DEF Spec

(* No ack ever reaches the manager for a block that is not Open, and no    *)
(* other ack for a block follows its Complete: the arms of                 *)
(* block_manager_loop that warn are dead in a real transfer.               *)
THEOREM AcksAreWelcome == Spec => []AcksWelcome
<1>1. WindowInv => AcksWelcome
  BY DEF WindowInv, MsgInv
<1> QED BY <1>1, WindowInvariance, PTL

(* Whatever the receiver lacks of a block it tracks, the sender still      *)
(* caches or has yet to read: the cache is never dropped too early.        *)
THEOREM RepairsArePossible == Spec => []RepairPossible
<1>1. WindowInv => RepairPossible
  <2> SUFFICES ASSUME WindowInv, NEW b \in Tracked \ closing
               PROVE  /\ slot[b] = "Open"
                      /\ \A p \in PacketIds(b) : p \in blk[b].cached \/ chunk_id_of(b, p) \in chunks
    BY DEF RepairPossible
  <2>1. b \in BlockIds /\ slot[b] = "Open"
    BY TrackedIsOpen DEF OpenBlocks
  <2> QED BY <2>1 DEF WindowInv, TransferInv, IInv, Good
<1> QED BY <1>1, WindowInvariance, PTL

(* The receiver's table is bounded by the sender's window, and one block   *)
(* more while it is being closed.                                          *)
THEOREM TableIsBounded == Spec => []TrackedBounded
<1>1. WindowInv => TrackedBounded
  <2> SUFFICES ASSUME WindowInv PROVE TrackedBounded
    OBVIOUS
  <2>1. /\ IsFiniteSet(OpenBlocks) /\ Cardinality(OpenBlocks) \in Nat
        /\ Cardinality(OpenBlocks) <= PipelineDepth
    BY SlotsFinite, TypeFacts DEF WindowInv, TransferInv
  <2>2. IsFiniteSet(closing) /\ Cardinality(closing) \in Nat
    <3>1. CASE closing = {}
      BY <3>1, FS_EmptySet
    <3>2. CASE closing # {}
      <4>1. PICK b : closing = {b}
        BY <3>2 DEF WindowInv, TransferInv, RcvInv, SweepGood
      <4>2. IsFiniteSet({b}) /\ Cardinality({b}) = 1
        BY FS_Singleton, Zenon
      <4> QED BY <4>1, <4>2
    <3> QED BY <3>1, <3>2
  <2>3. Tracked \subseteq OpenBlocks \cup closing
    BY TrackedIsOpen
  <2>4. /\ IsFiniteSet(OpenBlocks \cup closing)
        /\ Cardinality(OpenBlocks \cup closing)
             = Cardinality(OpenBlocks) + Cardinality(closing) - Cardinality(OpenBlocks \cap closing)
    BY <2>1, <2>2, FS_Union
  <2>5. Cardinality(OpenBlocks \cap closing) \in Nat
    BY <2>1, FS_Subset, FS_CardinalityType
  <2>6. Cardinality(Tracked) \in Nat /\ Cardinality(Tracked) <= Cardinality(OpenBlocks \cup closing)
    BY <2>3, <2>4, FS_Subset, FS_CardinalityType
  <2> QED BY <2>1, <2>2, <2>4, <2>5, <2>6, BlockManagerAssumption DEF TrackedBounded
<1> QED BY <1>1, WindowInvariance, PTL

-------------------------------------------------------------------------------
(* The refinement: every step of the transfer is a step of the window, or  *)
(* leaves it alone.                                                        *)

LEMMA WindowVars ==
  /\ W!Init <=> /\ OpenBlocks = {} /\ ResolvedBlocks = {} /\ DecidedBlocks = {}
                /\ verified = {} /\ gave_up = {}
  /\ UNCHANGED W!windowVars
       <=> UNCHANGED <<OpenBlocks, ResolvedBlocks, DecidedBlocks, verified, gave_up>>
BY DEF W!Init, W!windowVars, DecidedBlocks

LEMMA WindowBlocks ==
  /\ W!Blocks(TotalChunks) = BlockIds
  /\ W!Chunks(TotalChunks) = ChunkIds
  /\ \A c : W!block_of(c) = block_of(c)
  /\ \A b : W!ChunksOf(b) = {chunk_id_of(b, p) : p \in PacketIds(b)}
BY DEF W!Blocks, W!Chunks, W!block_of, W!ChunksOf, W!Packets, W!chunk_id_of, W!packets_in_block,
       W!total_blocks, BlockIds, ChunkIds, PacketIds, Blocks, Chunks, Packets, block_of,
       chunk_id_of, packets_in_block, total_blocks

(* The cardinality of the abstract module is that of the others. *)
LEMMA WindowCardinality == \A S : W!Cardinality(S) = Cardinality(S)
BY DEF W!Cardinality, Cardinality

LEMMA SenderWindow ==
  ASSUME WindowInv, Sender
  PROVE  W!Next \/ UNCHANGED W!windowVars
<1>1. SndNext /\ IInv /\ UNCHANGED <<rx_completed, closing, verified, gave_up>>
  BY DEF Sender, rcvVars, trackVars, ackVars, WindowInv, TransferInv
<1>2. slot \in [BlockIds -> SlotStates] /\ acks \in Seq(BlockAcks)
  BY <1>1, TypeFacts DEF IInv, MgrTypeOK, WireTypeOK
<1>3. DecidedBlocks' = DecidedBlocks
  BY <1>1 DEF DecidedBlocks
<1>4. CASE slot' = slot
  <2>1. OpenBlocks' = OpenBlocks /\ ResolvedBlocks' = ResolvedBlocks
    BY <1>4 DEF OpenBlocks, ResolvedBlocks
  <2> QED BY <1>1, <1>3, <2>1, WindowVars
<1>5. CASE \E b \in BlockIds : /\ slot[b] \in {"Unseen", "Pending"}
                               /\ open_slots < PipelineDepth
                               /\ slot' = [slot EXCEPT ![b] = "Open"]
  <2>1. PICK b \in BlockIds : /\ slot[b] \in {"Unseen", "Pending"}
                              /\ open_slots < PipelineDepth
                              /\ slot' = [slot EXCEPT ![b] = "Open"]
    BY <1>5
  <2>2. b \notin OpenBlocks \cup ResolvedBlocks
    BY <2>1 DEF OpenBlocks, ResolvedBlocks
  <2>3. OpenBlocks' = OpenBlocks \cup {b} /\ ResolvedBlocks' = ResolvedBlocks
    BY <1>2, <2>1, <2>2, SetSlot
  <2>4. Cardinality(OpenBlocks) < PipelineDepth
    BY <1>1, <2>1, TypeFacts
  <2>5. W!Open(b)
    BY <1>1, <2>2, <2>3, <2>4, WindowCardinality DEF W!Open, DecidedBlocks
  <2> QED BY <2>5, WindowBlocks DEF W!Next
<1>6. CASE \E b \in BlockIds : slot[b] = "Unseen" /\ slot' = [slot EXCEPT ![b] = "Pending"]
  <2>1. PICK b \in BlockIds : slot[b] = "Unseen" /\ slot' = [slot EXCEPT ![b] = "Pending"]
    BY <1>6
  <2>2. b \notin OpenBlocks /\ b \notin ResolvedBlocks
    BY <2>1 DEF OpenBlocks, ResolvedBlocks
  <2>3. OpenBlocks' = OpenBlocks /\ ResolvedBlocks' = ResolvedBlocks
    BY <1>2, <2>1 DEF OpenBlocks, ResolvedBlocks
  <2> QED BY <1>1, <1>3, <2>3, WindowVars
<1>7. CASE /\ acks # <<>> /\ acks' = Tail(acks)
           /\ Head(acks).tag = "COMPLETE"
           /\ slot' = [slot EXCEPT ![Head(acks).block_id] = "Resolved"]
  <2> DEFINE b == Head(acks).block_id
  <2>1. Head(acks) = acks[1] /\ 1 \in DOMAIN acks
    BY <1>2, <1>7
  <2>2. slot[b] = "Open" /\ b \in DecidedBlocks /\ b \in BlockIds
    BY <1>2, <1>7, <2>1, AckTypes DEF WindowInv, MsgInv, AcksWelcome, TransferInv, Decided
  <2>3. slot' = [slot EXCEPT ![b] = "Resolved"]
    BY <1>7
  <2> HIDE DEF b
  <2>4. OpenBlocks' = OpenBlocks \ {b} /\ ResolvedBlocks' = ResolvedBlocks \cup {b}
    BY <1>2, <2>2, <2>3 DEF OpenBlocks, ResolvedBlocks
  <2>5. W!Resolve(b)
    BY <1>1, <2>2, <2>4 DEF W!Resolve, OpenBlocks, DecidedBlocks
  <2> QED BY <2>2, <2>5, WindowBlocks DEF W!Next
<1> QED BY <1>1, <1>4, <1>5, <1>6, <1>7, SenderMoves

(* The ack manager decides on a tracked block: the sender has it open.     *)
LEMMA CheckWindow ==
  ASSUME WindowInv, UNCHANGED <<OpenBlocks, ResolvedBlocks>>,
         NEW b \in ready, StartCheck(b), SendComplete(b)
  PROVE  /\ b \in BlockIds /\ b \in OpenBlocks \ DecidedBlocks
         /\ DecidedBlocks' = DecidedBlocks \cup {b}
         /\ UNCHANGED <<OpenBlocks, ResolvedBlocks, verified>>
         /\ IsComplete(Snapshot(b)) <=> W!ChunksOf(b) \subseteq verified
<1>1. /\ b \in BlockIds /\ b \in Tracked /\ closing = {}
      /\ GoodEntry(b, Snapshot(b), verified)
      /\ UNCHANGED <<rx_completed, verified>>
  BY StartCheckFacts DEF WindowInv, TransferInv
<1>2. b \in OpenBlocks
  BY <1>1, TrackedIsOpen
<1>3. b \notin rx_completed
  BY <1>1 DEF WindowInv, TransferInv, RcvInv, TrackerGood, NoResurrection
<1>4. closing' = {b}
  BY DEF SendComplete
<1>5. IsComplete(Snapshot(b)) => W!ChunksOf(b) \subseteq verified
  BY <1>1, CompleteEntry, WindowBlocks
<1>6. ASSUME W!ChunksOf(b) \subseteq verified
      PROVE  IsComplete(Snapshot(b))
  <2>1. \A p \in PacketIds(b) : chunk_id_of(b, p) \in verified
    BY <1>6, WindowBlocks
  <2>2. \A p \in PacketIds(b) : p \in rx_blocks[b].received
    BY <1>1, <1>3, <2>1 DEF WindowInv, MsgInv, VerifiedIsMarked
  <2>3. Snapshot(b).received = rx_blocks[b].received
    BY <1>1, EntryUpdates DEF Snapshot, WindowInv, TransferInv, RcvInv, TrackerGood, GoodEntry
  <2>4. /\ Snapshot(b).received = PacketIds(b) /\ Snapshot(b).total = Total(b)
        /\ Snapshot(b).received_count = Cardinality(Snapshot(b).received)
    BY <1>1, <2>2, <2>3 DEF GoodEntry, EntriesOf
  <2>5. Cardinality(PacketIds(b)) = Total(b)
    BY <1>1, BlockFacts
  <2> QED BY <2>4, <2>5 DEF IsComplete
<1> QED BY <1>1, <1>2, <1>3, <1>4, <1>5, <1>6 DEF DecidedBlocks

LEMMA ReceiverWindow ==
  ASSUME WindowInv, Receiver
  PROVE  W!Next \/ UNCHANGED W!windowVars
<1>1. RcvNext /\ RcvInv /\ slot' = slot
  BY DEF Receiver, sndVars, WindowInv, TransferInv
<1>2. OpenBlocks' = OpenBlocks /\ ResolvedBlocks' = ResolvedBlocks
  BY <1>1 DEF OpenBlocks, ResolvedBlocks
<1>3. CASE Verify
  <2>1. PICK d \in Datagrams :
          /\ TakePacket(d)
          /\ mark_verified(d.block_id, d.packet_in_block, Total(d.block_id))
          /\ verified' = verified \cup {chunk_id_of(d.block_id, d.packet_in_block)}
    BY <1>3 DEF Verify
  <2> DEFINE b == d.block_id
             p == d.packet_in_block
             c == chunk_id_of(b, p)
  <2>2. b \in BlockIds /\ p \in PacketIds(b) /\ b \in Begun
    BY <1>1, <2>1, QueueTake, DatagramTypes
       DEF RcvInv, QueueGood, WindowInv, MsgInv, MessagesBegun
  <2>3. verified' = verified \cup {c} /\ UNCHANGED <<rx_completed, closing, gave_up>>
    BY <2>1 DEF TakePacket, mark_verified, Upsert, ackVars
  <2> HIDE DEF b, p
  <2>4. c \in ChunkIds /\ block_of(c) = <<b, p>>
    BY <2>2, FrameFacts
  <2> HIDE DEF c
  <2>5. W!block_of(c)[1] = b
    BY <2>4, WindowBlocks
  <2>6. W!Deliver(c)
    BY <1>2, <2>2, <2>3, <2>5 DEF W!Deliver, Begun
  <2> QED BY <2>4, <2>6, WindowBlocks DEF W!Next
<1>4. CASE AckComplete
  <2>1. PICK b \in ready : /\ StartCheck(b) /\ SendComplete(b)
                           /\ IsComplete(Snapshot(b)) /\ gave_up' = gave_up
    BY <1>4 DEF AckComplete
  <2>2. W!Decide(b) /\ b \in BlockIds
    BY <1>2, <2>1, CheckWindow DEF W!Decide, DecidedBlocks
  <2> QED BY <2>2, WindowBlocks DEF W!Next
<1>5. CASE AckGiveUp
  <2>1. PICK b \in ready : /\ StartCheck(b) /\ SendComplete(b)
                           /\ ~IsComplete(Snapshot(b)) /\ gave_up' = gave_up \cup {b}
    BY <1>5 DEF AckGiveUp
  <2>2. W!Abandon(b) /\ b \in BlockIds
    BY <1>2, <2>1, CheckWindow DEF W!Abandon, DecidedBlocks
  <2> QED BY <2>2, WindowBlocks DEF W!Next
<1>6. CASE AckRemove
  <2>1. PICK b \in closing : rx_completed' = rx_completed \cup {b} /\ closing' = {}
    BY <1>6 DEF AckRemove
  <2>2. closing = {b}
    BY <1>1 DEF RcvInv, SweepGood
  <2>3. verified' = verified /\ gave_up' = gave_up
    BY <1>6 DEF AckRemove
  <2>4. DecidedBlocks' = DecidedBlocks
    BY <2>1, <2>2 DEF DecidedBlocks
  <2> QED BY <1>2, <2>3, <2>4, WindowVars
<1>7. CASE \/ RecvData \/ RecvBlockEnd \/ Reject \/ AckPoll \/ AckMissing
           \/ StopReceiving \/ RcvTick
  <2>1. UNCHANGED <<rx_completed, closing, verified, gave_up>>
    BY <1>7 DEF RecvData, RecvBlockEnd, Reject, TakePacket, touch_activity, mark_end_seen, Upsert,
                AckPoll, AckMissing, StartCheck, StopReceiving, RcvTick, trackVars, ackVars
  <2>2. DecidedBlocks' = DecidedBlocks
    BY <2>1 DEF DecidedBlocks
  <2> QED BY <1>2, <2>1, <2>2, WindowVars
<1> QED BY <1>1, <1>3, <1>4, <1>5, <1>6, <1>7 DEF RcvNext

(* The whole transfer implements WindowedTransfer, for every file, block   *)
(* size, depth and whatever the network does: a block is abandoned only    *)
(* while a chunk of it is unverified, decided on while the sender has it   *)
(* open, and resolved only afterwards.                                     *)
THEOREM WindowImplemented == Spec => ImplementsWindowedTransfer
<1>1. Init => W!Init
  <2>1. Init => OpenBlocks = {} /\ ResolvedBlocks = {}
    BY DEF Init, SndInit, OpenBlocks, ResolvedBlocks
  <2>2. Init => DecidedBlocks = {} /\ verified = {} /\ gave_up = {}
    BY DEF Init, RcvInit, DecidedBlocks
  <2> QED BY <2>1, <2>2, WindowVars
<1>2. WindowInv /\ [Next]_vars => [W!Next]_(W!windowVars)
  <2> SUFFICES ASSUME WindowInv, [Next]_vars PROVE W!Next \/ UNCHANGED W!windowVars
    OBVIOUS
  <2>1. CASE Network \/ UNCHANGED vars
    <3>1. UNCHANGED <<slot, rx_completed, closing, verified, gave_up>>
      BY <2>1 DEF Network, Lose, vars, sndVars, rcvVars, trackVars, ackVars
    <3> QED BY <3>1, WindowVars DEF OpenBlocks, ResolvedBlocks, DecidedBlocks
  <2> QED BY <2>1, SenderWindow, ReceiverWindow DEF Next, Finished
<1> QED BY <1>1, <1>2, WindowInvariance, PTL DEF Spec, ImplementsWindowedTransfer, W!Spec
===============================================================================
