------------------------- MODULE ReceiverState_proofs -------------------------
(***************************************************************************)
(* Invariance of the receiver's state.  RcvInv speaks of the receiver's    *)
(* own variables only, so it is kept by every step of the receiver and by  *)
(* every step that leaves them alone, whatever the network and the sender  *)
(* do.                                                                     *)
(***************************************************************************)
EXTENDS ReceiverState, Wire_proofs, SequenceTheorems

EntriesOf(b) ==
  [total : {Total(b)}, received : SUBSET PacketIds(b), received_count : 0 .. Total(b),
   end_seen : BOOLEAN, rounds : 0 .. MaxRounds + 1, age : 0 .. IdleTimeout]

(* An entry of block b that counts its received packets right, and whose   *)
(* received packets are all among the chunks of chunks.                    *)
GoodEntry(b, e, chunks) ==
  /\ e \in EntriesOf(b)
  /\ e.received_count = Cardinality(e.received)
  /\ \A p \in e.received : chunk_id_of(b, p) \in chunks

(* Entries are good, and only one that is being closed is out of rounds.   *)
TrackerGood ==
  /\ Tracked \subseteq BlockIds
  /\ rx_completed \subseteq BlockIds
  /\ NoResurrection
  /\ \A b \in Tracked :
       /\ GoodEntry(b, rx_blocks[b], verified)
       /\ b \notin closing => rx_blocks[b].rounds <= MaxRounds

QueueGood ==
  /\ packet_queue \in [Datagrams -> Nat]
  /\ \A d \in InQueue : d.tag = "DATA"

SweepGood ==
  /\ SweepIsLive
  /\ \A x, y \in closing : x = y

OthersGood ==
  /\ verified \subseteq ChunkIds
  /\ gave_up \subseteq BlockIds
  /\ ack_completed \in Nat
  /\ running \in BOOLEAN

RcvInv ==
  /\ TrackerGood
  /\ QueueGood
  /\ SweepGood
  /\ OthersGood
  /\ CountExact
  /\ AckedDataSafe

-------------------------------------------------------------------------------
(* The packets between the UDP thread and the workers. *)

LEMMA QueueAdd ==
  ASSUME packet_queue \in [Datagrams -> Nat], NEW d \in Datagrams,
         packet_queue' = [packet_queue EXCEPT ![d] = @ + 1]
  PROVE  packet_queue' \in [Datagrams -> Nat] /\ InQueue' = InQueue \cup {d}
  BY DEF InQueue

LEMMA QueueTake ==
  ASSUME packet_queue \in [Datagrams -> Nat], NEW d, TakePacket(d)
  PROVE  packet_queue' \in [Datagrams -> Nat] /\ InQueue' \subseteq InQueue /\ d \in InQueue
  BY DEF InQueue, TakePacket

-------------------------------------------------------------------------------
(* The tracker. *)

(* The updates of an entry keep its type and, of what they do not set, its *)
(* packets, their count and its rounds.                                    *)
LEMMA EntryUpdates ==
  ASSUME NEW b \in BlockIds, NEW e \in EntriesOf(b)
  PROVE  LET touched == [e EXCEPT !.age = 0]
             ended   == [e EXCEPT !.end_seen = TRUE, !.age = 0]
             checked == [e EXCEPT !.rounds = @ + 1, !.age = 0]
             older   == [e EXCEPT !.age = @ + 1]
         IN  /\ touched \in EntriesOf(b)
             /\ touched.received = e.received /\ touched.received_count = e.received_count
             /\ touched.rounds = e.rounds
             /\ ended \in EntriesOf(b)
             /\ ended.received = e.received /\ ended.received_count = e.received_count
             /\ ended.rounds = e.rounds
             /\ e.rounds <= MaxRounds => checked \in EntriesOf(b)
             /\ checked.received = e.received /\ checked.received_count = e.received_count
             /\ checked.rounds = e.rounds + 1
             /\ e.age < IdleTimeout => older \in EntriesOf(b)
             /\ older.received = e.received /\ older.received_count = e.received_count
             /\ older.rounds = e.rounds
<1>1. e.end_seen \in BOOLEAN /\ e.age \in 0 .. IdleTimeout /\ e.rounds \in 0 .. MaxRounds + 1
  BY DEF EntriesOf
<1>2. [e EXCEPT !.age = 0] \in EntriesOf(b)
  BY ReceiverStateAssumption DEF EntriesOf
<1>3. [e EXCEPT !.end_seen = TRUE, !.age = 0] \in EntriesOf(b)
  <2> DEFINE f == [e EXCEPT !.end_seen = TRUE]
  <2>1. f \in EntriesOf(b)
    BY DEF EntriesOf
  <2>2. [e EXCEPT !.end_seen = TRUE, !.age = 0] = [f EXCEPT !.age = 0]
    BY Zenon
  <2> HIDE DEF f
  <2>3. [f EXCEPT !.age = 0] \in EntriesOf(b)
    BY <2>1, ReceiverStateAssumption DEF EntriesOf
  <2> QED BY <2>2, <2>3
<1>4. e.rounds <= MaxRounds => [e EXCEPT !.rounds = @ + 1, !.age = 0] \in EntriesOf(b)
  <2> SUFFICES ASSUME e.rounds <= MaxRounds
               PROVE  [e EXCEPT !.rounds = @ + 1, !.age = 0] \in EntriesOf(b)
    OBVIOUS
  <2>1. e.rounds + 1 \in 0 .. MaxRounds + 1 /\ 0 \in 0 .. IdleTimeout
    BY <1>1, ReceiverStateAssumption
  <2> QED BY <2>1 DEF EntriesOf
<1>5. e.age < IdleTimeout => [e EXCEPT !.age = @ + 1] \in EntriesOf(b)
  <2> SUFFICES ASSUME e.age < IdleTimeout PROVE [e EXCEPT !.age = @ + 1] \in EntriesOf(b)
    OBVIOUS
  <2>1. e.age + 1 \in 0 .. IdleTimeout
    BY <1>1, ReceiverStateAssumption
  <2> QED BY <2>1 DEF EntriesOf
<1> QED BY <1>2, <1>3, <1>4, <1>5 DEF EntriesOf

(* An entry that was just created, or that is updated, is a good one. *)
LEMMA EntryOfGood ==
  ASSUME TrackerGood, NEW b \in BlockIds
  PROVE  /\ GoodEntry(b, EntryOf(b, Total(b)), verified)
         /\ b \notin closing => EntryOf(b, Total(b)).rounds <= MaxRounds
<1>1. CASE b \in Tracked
  BY <1>1 DEF TrackerGood, EntryOf
<1>2. CASE b \notin Tracked
  <2>1. EntryOf(b, Total(b)) = NewEntry(Total(b))
    BY <1>2 DEF EntryOf
  <2>2. NewEntry(Total(b)) \in EntriesOf(b)
    <3>1. 0 \in 0 .. Total(b) /\ 0 \in 0 .. MaxRounds + 1 /\ 0 \in 0 .. IdleTimeout
      BY BlockNotEmpty, ReceiverStateAssumption
    <3> QED BY <3>1 DEF NewEntry, EntriesOf
  <2>3. /\ NewEntry(Total(b)).received = {} /\ NewEntry(Total(b)).rounds = 0
        /\ NewEntry(Total(b)).received_count = Cardinality({})
    BY FS_EmptySet DEF NewEntry
  <2> QED BY <2>1, <2>2, <2>3, ReceiverStateAssumption DEF GoodEntry
<1> QED BY <1>1, <1>2

(* A verified packet is in its entry afterwards, counted once.             *)
LEMMA MarkedGood ==
  ASSUME NEW b \in BlockIds, NEW p \in PacketIds(b), NEW chunks, NEW e, GoodEntry(b, e, chunks)
  PROVE  /\ GoodEntry(b, Marked(e, p), chunks \cup {chunk_id_of(b, p)})
         /\ Marked(e, p).rounds = e.rounds
         /\ Marked(e, p).received = e.received \cup {p}
<1> DEFINE counted == [e EXCEPT !.received = @ \cup {p}, !.received_count = @ + 1]
<1>1. /\ e \in EntriesOf(b) /\ e.received_count = Cardinality(e.received)
      /\ \A q \in e.received : chunk_id_of(b, q) \in chunks
  BY DEF GoodEntry
<1>2. /\ e.received \subseteq PacketIds(b) /\ p \in 0 .. e.total - 1
      /\ e.received_count \in 0 .. Total(b) /\ Total(b) \in Nat
  BY <1>1, BlockNotEmpty DEF EntriesOf
<1>3. CASE p \in e.received
  <2>1. Marked(e, p) = e /\ e.received = e.received \cup {p}
    BY <1>3 DEF Marked
  <2> QED BY <1>1, <2>1 DEF GoodEntry
<1>4. CASE p \notin e.received
  <2>1. Marked(e, p) = counted
    BY <1>2, <1>4 DEF Marked
  <2>2. /\ counted.received = e.received \cup {p} /\ counted.rounds = e.rounds
        /\ counted.received_count = e.received_count + 1
    BY <1>1 DEF EntriesOf
  <2>3. IsFiniteSet(PacketIds(b)) /\ Cardinality(PacketIds(b)) = Total(b)
    BY BlockFacts
  <2>4. Cardinality(e.received \cup {p}) = e.received_count + 1
    <3>1. IsFiniteSet(e.received)
      BY <1>2, <2>3, FS_Subset
    <3> QED BY <1>1, <1>4, <3>1, FS_AddElement
  <2>5. e.received_count + 1 \in 0 .. Total(b)
    <3>1. e.received \cup {p} \subseteq PacketIds(b)
      BY <1>2
    <3>2. Cardinality(e.received \cup {p}) <= Cardinality(PacketIds(b))
      BY <2>3, <3>1, FS_Subset
    <3> QED BY <1>2, <2>3, <2>4, <3>2
  <2>6. counted \in EntriesOf(b)
    <3>1. e.received \cup {p} \in SUBSET PacketIds(b)
      BY <1>2
    <3> QED BY <1>1, <2>5, <3>1 DEF EntriesOf
  <2> HIDE DEF counted
  <2> QED BY <1>1, <2>1, <2>2, <2>4, <2>6 DEF GoodEntry
<1> QED BY <1>3, <1>4

(* Writing one good entry, unless its block is completed, keeps the        *)
(* tracker good and removes no entry.                                      *)
LEMMA UpsertKeeps ==
  ASSUME TrackerGood, NEW b \in BlockIds, NEW e,
         Upsert(b, e),
         GoodEntry(b, e, verified'),
         b \notin closing => e.rounds <= MaxRounds,
         verified \subseteq verified', closing' = closing
  PROVE  TrackerGood' /\ Tracked \subseteq Tracked' /\ rx_completed' = rx_completed
<1>1. rx_completed' = rx_completed
  BY DEF Upsert
<1>2. \A x \in Tracked : GoodEntry(x, rx_blocks[x], verified')
  BY DEF TrackerGood, GoodEntry
<1>3. CASE b \in rx_completed
  <2>1. rx_blocks' = rx_blocks
    BY <1>3 DEF Upsert
  <2> QED BY <1>1, <1>2, <2>1 DEF TrackerGood, Tracked, NoResurrection
<1>4. CASE b \notin rx_completed
  <2>1. rx_blocks' = Put(b, e)
    BY <1>4 DEF Upsert
  <2>2. /\ Tracked' = Tracked \cup {b}
        /\ \A x \in Tracked' : rx_blocks'[x] = IF x = b THEN e ELSE rx_blocks[x]
    BY <2>1 DEF Put, Tracked
  <2>3. Tracked' \subseteq BlockIds /\ NoResurrection'
    BY <1>1, <1>4, <2>2 DEF TrackerGood, NoResurrection
  <2>4. ASSUME NEW x \in Tracked'
        PROVE  /\ GoodEntry(x, rx_blocks'[x], verified')
               /\ x \notin closing' => rx_blocks'[x].rounds <= MaxRounds
    BY <1>2, <2>2 DEF TrackerGood
  <2> QED BY <1>1, <2>2, <2>3, <2>4 DEF TrackerGood
<1> QED BY <1>3, <1>4

(* A complete entry of a good tracker holds every packet of its block. *)
LEMMA CompleteEntry ==
  ASSUME NEW b \in BlockIds, NEW e, NEW chunks, GoodEntry(b, e, chunks), IsComplete(e)
  PROVE  \A p \in PacketIds(b) : chunk_id_of(b, p) \in chunks
<1>1. e.received \subseteq PacketIds(b) /\ Cardinality(e.received) = Total(b)
  BY DEF GoodEntry, EntriesOf, IsComplete
<1>2. e.received = PacketIds(b)
  BY <1>1, FullBlock
<1> QED BY <1>2 DEF GoodEntry

-------------------------------------------------------------------------------
(* The steps of the receiver. *)

(* Steps that complete and close nothing, and forget no verified chunk,    *)
(* leave the claims about completed blocks as they are.                    *)
LEMMA ClaimsKept ==
  ASSUME CountExact, AckedDataSafe,
         UNCHANGED <<rx_completed, closing, gave_up, ack_completed, running>>,
         verified \subseteq verified'
  PROVE  CountExact' /\ AckedDataSafe'
  BY DEF CountExact, AckedDataSafe

LEMMA RcvInitStep == RcvInit => RcvInv
<1> SUFFICES ASSUME RcvInit PROVE RcvInv
  OBVIOUS
<1>1. Tracked = {}
  BY DEF RcvInit, Tracked
<1>2. TrackerGood /\ SweepGood /\ OthersGood /\ AckedDataSafe
  BY <1>1 DEF RcvInit, TrackerGood, NoResurrection, SweepGood, SweepIsLive, OthersGood,
              AckedDataSafe
<1>3. QueueGood
  BY DEF RcvInit, QueueGood, InQueue
<1>4. CountExact
  BY FS_EmptySet DEF RcvInit, CountExact
<1> QED BY <1>2, <1>3, <1>4 DEF RcvInv

(* Any step that writes one good entry, and may take packets from the      *)
(* queue or add data packets to it.                                        *)
LEMMA UpsertStep ==
  ASSUME RcvInv, NEW b \in BlockIds, NEW e,
         Upsert(b, e),
         GoodEntry(b, e, verified'),
         b \notin closing => e.rounds <= MaxRounds,
         verified \subseteq verified', verified' \subseteq ChunkIds,
         QueueGood', UNCHANGED <<ackVars, running>>
  PROVE  RcvInv'
<1>1. TrackerGood' /\ Tracked \subseteq Tracked' /\ rx_completed' = rx_completed
  BY UpsertKeeps DEF RcvInv, ackVars
<1>2. SweepGood'
  BY <1>1 DEF RcvInv, SweepGood, SweepIsLive, ackVars
<1>3. OthersGood'
  BY DEF RcvInv, OthersGood, ackVars
<1>4. CountExact' /\ AckedDataSafe'
  BY <1>1, ClaimsKept DEF RcvInv, ackVars
<1> QED BY <1>1, <1>2, <1>3, <1>4 DEF RcvInv

LEMMA RecvDataStep == RcvInv /\ RecvData => RcvInv'
<1> SUFFICES ASSUME RcvInv, RecvData PROVE RcvInv'
  OBVIOUS
<1>1. PICK d \in InFlight :
        /\ d.tag = "DATA"
        /\ touch_activity(d.block_id, Total(d.block_id))
        /\ packet_queue' = [packet_queue EXCEPT ![d] = @ + 1]
  BY DEF RecvData
<1> DEFINE b == d.block_id
           old == EntryOf(b, Total(b))
           e == [old EXCEPT !.age = 0]
<1>2. d \in Datagrams /\ b \in BlockIds
  BY DatagramTypes DEF InFlight
<1>3. UNCHANGED <<verified, ackVars, running>>
  BY DEF RecvData
<1>4. GoodEntry(b, old, verified) /\ (b \notin closing => old.rounds <= MaxRounds)
  BY <1>2, EntryOfGood DEF RcvInv
<1>5. Upsert(b, e)
  BY <1>1 DEF touch_activity
<1> HIDE DEF old
<1>6. GoodEntry(b, e, verified') /\ e.rounds = old.rounds
  BY <1>2, <1>3, <1>4, EntryUpdates DEF GoodEntry
<1>7. QueueGood'
  <2>1. packet_queue \in [Datagrams -> Nat]
    BY DEF RcvInv, QueueGood
  <2>2. packet_queue' \in [Datagrams -> Nat] /\ InQueue' = InQueue \cup {d}
    BY <1>1, <1>2, <2>1, QueueAdd
  <2> QED BY <1>1, <2>2 DEF RcvInv, QueueGood
<1> HIDE DEF e
<1>8. verified' \subseteq ChunkIds
  BY <1>3 DEF RcvInv, OthersGood
<1> QED BY <1>2, <1>3, <1>4, <1>5, <1>6, <1>7, <1>8, UpsertStep

LEMMA RecvBlockEndStep == RcvInv /\ RecvBlockEnd => RcvInv'
<1> SUFFICES ASSUME RcvInv, RecvBlockEnd PROVE RcvInv'
  OBVIOUS
<1>1. PICK d \in InFlight :
        d.tag = "BLOCK_END" /\ mark_end_seen(d.block_id, d.total_packets)
  BY DEF RecvBlockEnd
<1> DEFINE b == d.block_id
           old == EntryOf(b, Total(b))
           e == [old EXCEPT !.end_seen = TRUE, !.age = 0]
<1>2. b \in BlockIds /\ d.total_packets = Total(b)
  BY <1>1, DatagramTypes DEF InFlight
<1>3. UNCHANGED <<packet_queue, verified, ackVars, running>>
  BY DEF RecvBlockEnd
<1>4. GoodEntry(b, old, verified) /\ (b \notin closing => old.rounds <= MaxRounds)
  BY <1>2, EntryOfGood DEF RcvInv
<1>5. Upsert(b, e)
  BY <1>1, <1>2 DEF mark_end_seen
<1> HIDE DEF old
<1>6. GoodEntry(b, e, verified') /\ e.rounds = old.rounds
  BY <1>2, <1>3, <1>4, EntryUpdates DEF GoodEntry
<1> HIDE DEF e
<1>7. QueueGood' /\ verified' \subseteq ChunkIds
  BY <1>3 DEF RcvInv, QueueGood, InQueue, OthersGood
<1> QED BY <1>2, <1>3, <1>4, <1>5, <1>6, <1>7, UpsertStep

(* The chunk of a verified packet is verified when its entry says so, and  *)
(* a packet of the queue is one of its block: packet_in_block is in range. *)
LEMMA VerifyStep == RcvInv /\ Verify => RcvInv'
<1> SUFFICES ASSUME RcvInv, Verify PROVE RcvInv'
  OBVIOUS
<1>1. PICK d \in Datagrams :
        /\ TakePacket(d)
        /\ mark_verified(d.block_id, d.packet_in_block, Total(d.block_id))
        /\ verified' = verified \cup {chunk_id_of(d.block_id, d.packet_in_block)}
  BY DEF Verify
<1> DEFINE b == d.block_id
           p == d.packet_in_block
           old == EntryOf(b, Total(b))
           e == Marked(old, p)
<1>2. b \in BlockIds /\ p \in PacketIds(b)
  BY <1>1, QueueTake, DatagramTypes DEF RcvInv, QueueGood
<1>3. UNCHANGED <<ackVars, running>>
  BY <1>1 DEF TakePacket
<1>4. GoodEntry(b, old, verified) /\ (b \notin closing => old.rounds <= MaxRounds)
  BY <1>2, EntryOfGood DEF RcvInv
<1>5. Upsert(b, e)
  BY <1>1 DEF mark_verified
<1> HIDE DEF old
<1>6. GoodEntry(b, e, verified') /\ e.rounds = old.rounds
  <2>1. verified' = verified \cup {chunk_id_of(b, p)}
    BY <1>1
  <2> HIDE DEF b, p
  <2>2. /\ GoodEntry(b, Marked(old, p), verified \cup {chunk_id_of(b, p)})
        /\ Marked(old, p).rounds = old.rounds
    BY <1>2, <1>4, MarkedGood
  <2> QED BY <2>1, <2>2
<1> HIDE DEF e
<1>7. QueueGood'
  BY <1>1, QueueTake DEF RcvInv, QueueGood
<1>8. verified' \subseteq ChunkIds
  BY <1>1, <1>2, FrameFacts DEF RcvInv, OthersGood
<1> QED BY <1>1, <1>2, <1>3, <1>4, <1>5, <1>6, <1>7, <1>8, UpsertStep

LEMMA RejectStep == RcvInv /\ Reject => RcvInv'
<1> SUFFICES ASSUME RcvInv, Reject PROVE RcvInv'
  OBVIOUS
<1>1. PICK d \in Datagrams : TakePacket(d)
  BY DEF Reject
<1>2. UNCHANGED <<trackVars, verified, ackVars, running>>
  BY <1>1 DEF TakePacket, Reject
<1>3. QueueGood'
  BY <1>1, QueueTake DEF RcvInv, QueueGood
<1> QED BY <1>2, <1>3 DEF RcvInv, TrackerGood, SweepGood, OthersGood, CountExact, AckedDataSafe,
          NoResurrection, SweepIsLive, Tracked, trackVars, ackVars

LEMMA AckPollStep == RcvInv /\ AckPoll => RcvInv'
<1> SUFFICES ASSUME RcvInv, AckPoll PROVE RcvInv'
  OBVIOUS
<1>1. UNCHANGED <<trackVars, packet_queue, verified, closing, ack_completed, gave_up, running>>
      /\ ready' \subseteq Tracked
  BY DEF AckPoll, Ready
<1> QED BY <1>1 DEF RcvInv, TrackerGood, QueueGood, InQueue, SweepGood, OthersGood, CountExact,
          AckedDataSafe, NoResurrection, SweepIsLive, Tracked, trackVars

(* What snapshot_and_tick leaves: the block has gone through one more      *)
(* round, and is the only one that may have no round left.                 *)
LEMMA StartCheckFacts ==
  ASSUME RcvInv, NEW b, StartCheck(b)
  PROVE  /\ b \in BlockIds /\ b \in Tracked /\ Tracked' = Tracked /\ rx_blocks'[b] = Snapshot(b)
         /\ GoodEntry(b, Snapshot(b), verified)
         /\ \A x \in Tracked \ {b} : rx_blocks'[x] = rx_blocks[x] /\ rx_blocks[x].rounds <= MaxRounds
         /\ UNCHANGED <<rx_completed, packet_queue, verified, ack_completed, running>>
         /\ closing = {} /\ b \in ready
<1>1. closing = {} /\ b \in ready /\ b \in Tracked
  BY DEF StartCheck
<1>2. rx_blocks' = Put(b, Snapshot(b))
      /\ UNCHANGED <<rx_completed, packet_queue, verified, ack_completed, running>>
  BY DEF StartCheck
<1>3. Tracked' = Tracked /\ rx_blocks'[b] = Snapshot(b)
      /\ \A x \in Tracked \ {b} : rx_blocks'[x] = rx_blocks[x]
  BY <1>1, <1>2 DEF Put, Tracked
<1>4. \A x \in Tracked : GoodEntry(x, rx_blocks[x], verified) /\ rx_blocks[x].rounds <= MaxRounds
  BY <1>1 DEF RcvInv, TrackerGood
<1>5. GoodEntry(b, Snapshot(b), verified)
  <2>1. b \in BlockIds
    BY <1>1 DEF RcvInv, TrackerGood
  <2> QED BY <1>1, <1>4, <2>1, EntryUpdates DEF GoodEntry, Snapshot
<1> QED BY <1>1, <1>2, <1>3, <1>4, <1>5 DEF RcvInv, TrackerGood

(* Closing the block just checked is right if it is complete, or if it is  *)
(* given up.                                                               *)
LEMMA CloseStep ==
  ASSUME RcvInv, NEW b, StartCheck(b), SendComplete(b),
         \/ IsComplete(Snapshot(b)) /\ UNCHANGED gave_up
         \/ gave_up' = gave_up \cup {b}
  PROVE  RcvInv'
<1>1. /\ b \in BlockIds /\ b \in Tracked /\ Tracked' = Tracked /\ rx_blocks'[b] = Snapshot(b)
      /\ GoodEntry(b, Snapshot(b), verified)
      /\ \A x \in Tracked \ {b} : rx_blocks'[x] = rx_blocks[x] /\ rx_blocks[x].rounds <= MaxRounds
      /\ UNCHANGED <<rx_completed, packet_queue, verified, ack_completed, running>>
      /\ closing = {} /\ b \in ready
  BY StartCheckFacts
<1>2. closing' = {b} /\ ready' = ready
  BY DEF SendComplete
<1>3. TrackerGood'
  <2>1. ASSUME NEW x \in Tracked'
        PROVE  /\ GoodEntry(x, rx_blocks'[x], verified')
               /\ x \notin closing' => rx_blocks'[x].rounds <= MaxRounds
    BY <1>1, <1>2 DEF RcvInv, TrackerGood
  <2> QED BY <1>1, <2>1 DEF RcvInv, TrackerGood, NoResurrection
<1>4. SweepGood'
  BY <1>1, <1>2 DEF RcvInv, SweepGood, SweepIsLive
<1>5. QueueGood' /\ CountExact'
  BY <1>1 DEF RcvInv, QueueGood, InQueue, CountExact
<1>6. OthersGood'
  BY <1>1 DEF RcvInv, OthersGood
<1>7. AckedDataSafe'
  <2>1. b \notin gave_up' => \A p \in PacketIds(b) : chunk_id_of(b, p) \in verified
    BY <1>1, CompleteEntry
  <2>2. (rx_completed' \cup closing') \ gave_up' \subseteq
          (rx_completed \ gave_up) \cup ({b} \ gave_up')
    BY <1>1, <1>2
  <2> QED BY <1>1, <2>1, <2>2 DEF RcvInv, AckedDataSafe
<1> QED BY <1>3, <1>4, <1>5, <1>6, <1>7 DEF RcvInv

LEMMA AckMissingStep == RcvInv /\ AckMissing => RcvInv'
<1> SUFFICES ASSUME RcvInv, AckMissing PROVE RcvInv'
  OBVIOUS
<1>1. PICK b \in ready :
        /\ StartCheck(b) /\ ~OutOfRounds(Snapshot(b))
        /\ ready' = ready \ {b} /\ UNCHANGED <<closing, gave_up>>
  BY DEF AckMissing
<1>2. /\ b \in BlockIds /\ b \in Tracked /\ Tracked' = Tracked /\ rx_blocks'[b] = Snapshot(b)
      /\ GoodEntry(b, Snapshot(b), verified)
      /\ \A x \in Tracked \ {b} : rx_blocks'[x] = rx_blocks[x] /\ rx_blocks[x].rounds <= MaxRounds
      /\ UNCHANGED <<rx_completed, packet_queue, verified, ack_completed, running>>
      /\ closing = {} /\ b \in ready
  BY <1>1, StartCheckFacts
<1>3. Snapshot(b).rounds <= MaxRounds
  BY <1>1, <1>2, ReceiverStateAssumption DEF OutOfRounds, GoodEntry, EntriesOf
<1>4. TrackerGood'
  <2>1. ASSUME NEW x \in Tracked'
        PROVE  GoodEntry(x, rx_blocks'[x], verified') /\ rx_blocks'[x].rounds <= MaxRounds
    BY <1>2, <1>3 DEF RcvInv, TrackerGood
  <2> QED BY <1>2, <2>1 DEF RcvInv, TrackerGood, NoResurrection
<1>5. SweepGood' /\ QueueGood' /\ OthersGood'
  BY <1>1, <1>2 DEF RcvInv, SweepGood, SweepIsLive, QueueGood, InQueue, OthersGood
<1>6. CountExact' /\ AckedDataSafe'
  BY <1>1, <1>2, ClaimsKept DEF RcvInv
<1> QED BY <1>4, <1>5, <1>6 DEF RcvInv

(* remove: one block more is completed, one less is tracked, none is       *)
(* closing.                                                                *)
LEMMA AckRemoveStep == RcvInv /\ AckRemove => RcvInv'
<1> SUFFICES ASSUME RcvInv, AckRemove PROVE RcvInv'
  OBVIOUS
<1>1. PICK b \in closing :
        /\ rx_blocks' = [x \in Tracked \ {b} |-> rx_blocks[x]]
        /\ rx_completed' = rx_completed \cup {b}
        /\ ack_completed' = ack_completed + 1
        /\ ready' = ready \ {b} /\ closing' = {}
        /\ UNCHANGED <<packet_queue, verified, gave_up, running>>
  BY DEF AckRemove
<1>2. closing = {b} /\ b \in Tracked /\ b \in BlockIds /\ b \notin rx_completed
  BY DEF RcvInv, SweepGood, SweepIsLive, TrackerGood, NoResurrection
<1>3. Tracked' = Tracked \ {b} /\ \A x \in Tracked' : rx_blocks'[x] = rx_blocks[x]
  BY <1>1 DEF Tracked
<1>4. TrackerGood'
  BY <1>1, <1>2, <1>3 DEF RcvInv, TrackerGood, NoResurrection
<1>5. SweepGood' /\ QueueGood' /\ OthersGood'
  BY <1>1, <1>3 DEF RcvInv, SweepGood, SweepIsLive, QueueGood, InQueue, OthersGood
<1>6. CountExact'
  <2>1. IsFiniteSet(rx_completed)
    BY BlockFacts, FS_Subset DEF RcvInv, TrackerGood
  <2>2. Cardinality(rx_completed \cup {b}) = Cardinality(rx_completed) + 1
    BY <1>2, <2>1, FS_AddElement
  <2>3. running
    BY <1>2 DEF RcvInv, CountExact, OthersGood
  <2> QED BY <1>1, <2>2, <2>3 DEF RcvInv, CountExact
<1>7. AckedDataSafe'
  BY <1>1 DEF RcvInv, AckedDataSafe
<1> QED BY <1>4, <1>5, <1>6, <1>7 DEF RcvInv

(* As many completed blocks as the file has are all of them. *)
LEMMA StopReceivingStep == RcvInv /\ StopReceiving => RcvInv'
<1> SUFFICES ASSUME RcvInv, StopReceiving PROVE RcvInv'
  OBVIOUS
<1>1. /\ running' = FALSE /\ ack_completed >= TotalBlocks
      /\ UNCHANGED <<trackVars, packet_queue, verified, ackVars>>
  BY DEF StopReceiving
<1>2. TrackerGood' /\ QueueGood' /\ SweepGood' /\ OthersGood' /\ AckedDataSafe'
  BY <1>1 DEF RcvInv, TrackerGood, QueueGood, InQueue, SweepGood, OthersGood, AckedDataSafe,
              NoResurrection, SweepIsLive, Tracked, trackVars, ackVars
<1>3. rx_completed = BlockIds
  <2>1. rx_completed \subseteq BlockIds /\ Cardinality(rx_completed) >= TotalBlocks
    BY <1>1 DEF RcvInv, TrackerGood, CountExact
  <2>2. IsFiniteSet(BlockIds) /\ Cardinality(BlockIds) = TotalBlocks /\ TotalBlocks \in Nat
    BY BlockFacts
  <2>3. Cardinality(rx_completed) <= Cardinality(BlockIds)
        /\ (Cardinality(rx_completed) = Cardinality(BlockIds) => rx_completed = BlockIds)
        /\ Cardinality(rx_completed) \in Nat
    BY <2>1, <2>2, FS_Subset, FS_CardinalityType
  <2> QED BY <2>1, <2>2, <2>3
<1>4. CountExact'
  BY <1>1, <1>3 DEF RcvInv, CountExact, trackVars, ackVars
<1> QED BY <1>2, <1>4 DEF RcvInv

LEMMA RcvTickStep == RcvInv /\ RcvTick => RcvInv'
<1> SUFFICES ASSUME RcvInv, RcvTick PROVE RcvInv'
  OBVIOUS
<1>1. /\ Tracked' = Tracked
      /\ \A b \in Tracked : rx_blocks'[b] = IF rx_blocks[b].age < IdleTimeout
                                            THEN [rx_blocks[b] EXCEPT !.age = @ + 1]
                                            ELSE rx_blocks[b]
      /\ UNCHANGED <<rx_completed, packet_queue, verified, ackVars, running>>
  BY DEF RcvTick, Tracked
<1>2. ASSUME NEW b \in Tracked
      PROVE  GoodEntry(b, rx_blocks'[b], verified) /\ rx_blocks'[b].rounds = rx_blocks[b].rounds
  <2>1. b \in BlockIds /\ GoodEntry(b, rx_blocks[b], verified)
    BY <1>2 DEF RcvInv, TrackerGood
  <2> QED BY <1>1, <2>1, EntryUpdates DEF GoodEntry
<1>3. TrackerGood'
  BY <1>1, <1>2 DEF RcvInv, TrackerGood, NoResurrection, ackVars
<1> QED BY <1>1, <1>3 DEF RcvInv, QueueGood, InQueue, SweepGood, SweepIsLive, OthersGood,
          CountExact, AckedDataSafe, ackVars

(* Every step of the receiver keeps the invariant. *)
LEMMA RcvStep == RcvInv /\ RcvNext => RcvInv'
<1> SUFFICES ASSUME RcvInv, RcvNext PROVE RcvInv'
  OBVIOUS
<1>1. CASE RecvData
  BY <1>1, RecvDataStep
<1>2. CASE RecvBlockEnd
  BY <1>2, RecvBlockEndStep
<1>3. CASE Verify
  BY <1>3, VerifyStep
<1>4. CASE Reject
  BY <1>4, RejectStep
<1>5. CASE AckPoll
  BY <1>5, AckPollStep
<1>6. CASE AckComplete
  BY <1>6, CloseStep DEF AckComplete
<1>7. CASE AckGiveUp
  BY <1>7, CloseStep DEF AckGiveUp
<1>8. CASE AckMissing
  BY <1>8, AckMissingStep
<1>9. CASE AckRemove
  BY <1>9, AckRemoveStep
<1>10. CASE StopReceiving
  BY <1>10, StopReceivingStep
<1>11. CASE RcvTick
  BY <1>11, RcvTickStep
<1> QED BY <1>1, <1>2, <1>3, <1>4, <1>5, <1>6, <1>7, <1>8, <1>9, <1>10, <1>11 DEF RcvNext

(* So does every step of its peer, of the network or of nobody. *)
LEMMA RcvStutter == RcvInv /\ UNCHANGED rcvVars => RcvInv'
<1> SUFFICES ASSUME RcvInv, UNCHANGED rcvVars PROVE RcvInv'
  OBVIOUS
<1>1. UNCHANGED <<rx_blocks, rx_completed, packet_queue, verified, ready, closing,
                  ack_completed, gave_up, running>>
  BY DEF rcvVars, trackVars, ackVars
<1> QED BY <1>1 DEF RcvInv, TrackerGood, QueueGood, InQueue, SweepGood, OthersGood, CountExact,
                    AckedDataSafe, NoResurrection, SweepIsLive, Tracked

(* The messages keep their types in every step of the receiver. *)
LEMMA RcvWireStep == RcvInv /\ WireTypeOK /\ RcvNext => WireTypeOK'
<1> SUFFICES ASSUME RcvInv, WireTypeOK, RcvNext PROVE WireTypeOK'
  OBVIOUS
<1> USE DEF WireTypeOK
<1>1. CASE RecvData \/ RecvBlockEnd
  <2>1. PICK d : Receive(d) /\ UNCHANGED acks
    BY <1>1 DEF RecvData, RecvBlockEnd
  <2> QED BY <2>1, ReceiveType
<1>2. CASE Verify \/ Reject
  <2>1. PICK d : TakePacket(d)
    BY <1>2 DEF Verify, Reject
  <2>2. UNCHANGED <<net, acks>>
    BY <2>1 DEF TakePacket
  <2>3. faults' \in 0 .. MaxFaults
    BY <1>2, WireAssumption DEF Verify, Reject
  <2> QED BY <2>2, <2>3
<1>3. CASE AckComplete \/ AckGiveUp
  <2>1. PICK b \in ready : StartCheck(b) /\ SendComplete(b)
    BY <1>3 DEF AckComplete, AckGiveUp
  <2>2. b \in BlockIds /\ UNCHANGED <<net, faults>> /\ acks' = Append(acks, Complete(b))
    BY <2>1, StartCheckFacts DEF StartCheck, SendComplete
  <2> QED BY <2>2, AckTypes, AppendProperties
<1>4. CASE AckMissing
  <2>1. PICK b \in ready :
          StartCheck(b) /\ acks' = Append(acks, Missing(b, MissingIds(Snapshot(b))))
    BY <1>4 DEF AckMissing
  <2>2. b \in BlockIds /\ GoodEntry(b, Snapshot(b), verified) /\ UNCHANGED <<net, faults>>
    BY <2>1, StartCheckFacts DEF StartCheck
  <2>3. MissingIds(Snapshot(b)) \subseteq PacketIds(b)
    BY <2>2, BlockNotEmpty DEF MissingIds, GoodEntry, EntriesOf
  <2> QED BY <2>1, <2>2, <2>3, AckTypes, AppendProperties
<1>5. CASE AckPoll \/ AckRemove \/ StopReceiving \/ RcvTick
  BY <1>5 DEF AckPoll, AckRemove, StopReceiving, RcvTick, wireVars
<1> QED BY <1>1, <1>2, <1>3, <1>4, <1>5 DEF RcvNext

(* And in every step of the receiver with its environment. *)
LEMMA RxWireStep == RcvInv /\ WireTypeOK /\ [RxNext]_rxVars => WireTypeOK'
<1> SUFFICES ASSUME RcvInv, WireTypeOK, [RxNext]_rxVars PROVE WireTypeOK'
  OBVIOUS
<1>1. CASE RcvNext
  BY <1>1, RcvWireStep
<1>2. CASE PeerAnswer
  <2>1. acks # <<>> /\ acks' = Tail(acks) /\ UNCHANGED faults
        /\ (UNCHANGED net \/ \E ds : Send(ds))
    BY <1>2 DEF PeerAnswer
  <2>2. acks' \in Seq(BlockAcks)
    BY <2>1, HeadTailProperties DEF WireTypeOK
  <2> QED BY <2>1, <2>2, SendType DEF WireTypeOK
<1>3. CASE LoseAny
  BY <1>3, LoseType DEF LoseAny
<1>4. CASE UNCHANGED rxVars
  BY <1>4 DEF rxVars, wireVars, WireTypeOK
<1> QED BY <1>1, <1>2, <1>3, <1>4 DEF RxNext

-------------------------------------------------------------------------------
(* The theorems. *)

LEMMA RxInitInv == RxInit => RcvInv /\ WireTypeOK
<1> SUFFICES ASSUME RxInit PROVE RcvInv /\ WireTypeOK
  OBVIOUS
<1>1. RcvInv
  BY RcvInitStep DEF RxInit
<1>2. acks \in Seq(BlockAcks)
  BY DEF RxInit
<1>3. net \in [Datagrams -> 0 .. MaxCopies] /\ faults \in 0 .. MaxFaults
  BY WireAssumption DEF RxInit
<1> QED BY <1>1, <1>2, <1>3 DEF WireTypeOK

LEMMA RxStepInv == RcvInv /\ WireTypeOK /\ [RxNext]_rxVars => (RcvInv /\ WireTypeOK)'
<1>1. RcvInv /\ [RxNext]_rxVars => RcvInv'
  BY RcvStep, RcvStutter DEF RxNext, PeerAnswer, LoseAny, rxVars
<1> QED BY <1>1, RxWireStep

(* Whatever the network loses, repeats or damages and whatever the sender  *)
(* resends, the receiver's state satisfies the invariant.                  *)
THEOREM RxInvariance == RxSpec => [](RcvInv /\ WireTypeOK)
  BY RxInitInv, RxStepInv, PTL DEF RxSpec

(* The receiver's state keeps its types. *)
THEOREM RxTypeCorrect == RxSpec => []RxTypeOK
<1>1. RcvInv => RcvTypeOK
  <2> SUFFICES ASSUME RcvInv PROVE RcvTypeOK
    OBVIOUS
  <2>1. ASSUME NEW b \in Tracked PROVE rx_blocks[b] \in Entries
    <3>1. b \in BlockIds /\ rx_blocks[b] \in EntriesOf(b)
      BY DEF RcvInv, TrackerGood, GoodEntry
    <3>2. Total(b) \in 1 .. PacketsPerBlock /\ PacketIds(b) = 0 .. Total(b) - 1
      BY <3>1, BlockNotEmpty
    <3> DEFINE EntriesOfSize(n) ==
          [total : {n}, received : SUBSET (0 .. n - 1), received_count : 0 .. n,
           end_seen : BOOLEAN, rounds : 0 .. MaxRounds + 1, age : 0 .. IdleTimeout]
    <3>3. EntriesOf(b) = EntriesOfSize(Total(b))
      BY <3>2 DEF EntriesOf
    <3> HIDE DEF EntriesOfSize
    <3>4. Entries = UNION {EntriesOfSize(n) : n \in 1 .. PacketsPerBlock}
      BY DEF Entries, EntriesOfSize
    <3> QED BY <3>1, <3>2, <3>3, <3>4
  <2>2. packet_queue \in [Datagrams -> Nat]
    BY DEF RcvInv, QueueGood
  <2>3. ready \subseteq BlockIds /\ closing \subseteq BlockIds
    BY DEF RcvInv, TrackerGood, SweepGood, SweepIsLive
  <2> QED BY <2>1, <2>2, <2>3 DEF RcvInv, TrackerGood, OthersGood, RcvTypeOK
<1> QED BY <1>1, RxInvariance, PTL DEF RxTypeOK

(* A late datagram, or a worker that verifies a late packet, never brings  *)
(* back a block that was removed.                                          *)
THEOREM NeverResurrected == RxSpec => []NoResurrection
<1>1. RcvInv => NoResurrection
  BY DEF RcvInv, TrackerGood
<1> QED BY <1>1, RxInvariance, PTL

(* The ack manager's counter is the number of completed blocks, and it     *)
(* stops only when every block is.                                         *)
THEOREM CounterExact == RxSpec => []CountExact
<1>1. RcvInv => CountExact
  BY DEF RcvInv
<1> QED BY <1>1, RxInvariance, PTL

(* The list of ready blocks taken by the ack manager does not go stale. *)
THEOREM SweepStaysLive == RxSpec => []SweepIsLive
<1>1. RcvInv => SweepIsLive
  BY DEF RcvInv, SweepGood
<1> QED BY <1>1, RxInvariance, PTL

(* A block announced as complete and not given up has every chunk          *)
(* verified.                                                               *)
THEOREM AckedIsVerified == RxSpec => []AckedDataSafe
<1>1. RcvInv => AckedDataSafe
  BY DEF RcvInv
<1> QED BY <1>1, RxInvariance, PTL
===============================================================================
