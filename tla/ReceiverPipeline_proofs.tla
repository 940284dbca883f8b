------------------------ MODULE ReceiverPipeline_proofs ------------------------
(***************************************************************************)
(* The receiver's threads, for every file, every capacity of the channels  *)
(* and every number of workers: they implement the block tracker, no       *)
(* verified chunk is lost on its way to the file, and what run returns is  *)
(* true.                                                                   *)
(***************************************************************************)
EXTENDS ReceiverPipeline, Wire_proofs

(* The theorems about the tracker, for the tracker of this module.         *)
T == INSTANCE ReceiverState_proofs WITH packet_queue <- Unverified, running <- udp # "ok"

-------------------------------------------------------------------------------
(* The inductive invariant. *)

(* A thread has a packet in hand exactly while it works on it, and only    *)
(* data comes out of a verification.                                       *)
JobsMatch ==
  /\ \A w \in Workers :
       /\ worker[w] \in {"verify", "send"} => \E d \in Datagrams : job[w] = {d}
       /\ worker[w] \notin {"verify", "send"} => job[w] = {}
       /\ worker[w] = "send" => \A d \in job[w] : d.tag = "DATA"
  /\ udp = "send" => \E d \in Datagrams : udp_packet = {d}
  /\ udp # "send" => udp_packet = {}

ChunkOf(d) == chunk_id_of(d.block_id, d.packet_in_block)

(* What is written or on its way to the file. *)
Kept == (0 .. next_chunk - 1) \cup pending \cup InWriteQueue \cup InWorkersHand

(* Nothing but verified chunks is written, held or on its way; the writer  *)
(* holds back what follows a hole; and it leaves too early for nobody.     *)
WriterGood ==
  /\ Kept \subseteq verified
  /\ VerifiedIsKept
  /\ next_chunk \notin pending
  /\ writer = "ok" =>
       \/ next_chunk = TotalChunks
       \/ write_queue = <<>> /\ \A w \in Workers : Gone(w)

(* Whoever ended with an error, and did not have to, met an I/O error. *)
ErrorsGood ==
  /\ udp = "err" \/ writer = "err" => io_faults > 0
  /\ \A w \in Workers : worker[w] = "err" => io_faults > 0 \/ next_chunk = TotalChunks
  /\ run = "err" => io_faults > 0 \/ next_chunk = TotalChunks

(* The flag is cleared after the ack manager has returned, and run waits   *)
(* for the threads in the order in which they can leave.                   *)
RunGood ==
  /\ run = "ack" => running
  /\ ~running => AckManagerDone
  /\ run \in {"workers", "writer", "ok"} => udp = "ok"
  /\ run \in {"writer", "ok"} => \A w \in Workers : worker[w] = "ok"
  /\ run = "ok" => writer = "ok"

RpInv ==
  /\ RpTypeOK
  /\ JobsMatch
  /\ WriterGood
  /\ ErrorsGood
  /\ RunGood
  /\ T!RcvInv /\ T!WireTypeOK

-------------------------------------------------------------------------------
(* The tracker of the pipeline and the tracker of the theorems are one.    *)
LEMMA SameTracker ==
  /\ R!RxInit <=> T!RxInit
  /\ [R!RxNext]_R!rxVars <=> [T!RxNext]_T!rxVars
<1>1. R!RxInit <=> T!RxInit
  BY DEF R!RxInit, T!RxInit, R!RcvInit, T!RcvInit, R!Datagrams, T!Datagrams, R!BlockIds,
         T!BlockIds, R!Blocks, T!Blocks, R!total_blocks, T!total_blocks, R!DataOf, T!DataOf,
         R!Data, T!Data, R!PacketIds, T!PacketIds, R!Packets, T!Packets, R!packets_in_block,
         T!packets_in_block, R!BlockEnd, T!BlockEnd, R!Total, T!Total, R!NewEntry, T!NewEntry
<1>2. R!RxNext <=> T!RxNext
  BY
     DEF R!Cardinality, T!Cardinality, R!block_of, T!block_of, R!chunk_id_of,
         T!chunk_id_of, R!packets_in_block, T!packets_in_block, R!total_blocks,
         T!total_blocks, R!Blocks, T!Blocks, R!Chunks, T!Chunks, R!Packets,
         T!Packets, R!wireVars, T!wireVars, R!TotalBlocks, T!TotalBlocks,
         R!BlockIds, T!BlockIds, R!ChunkIds, T!ChunkIds, R!PacketIds, T!PacketIds,
         R!Total, T!Total, R!Data, T!Data, R!BlockEnd, T!BlockEnd, R!DataOf,
         T!DataOf, R!Datagrams, T!Datagrams, R!Complete, T!Complete, R!Missing,
         T!Missing, R!BlockAcks, T!BlockAcks, R!InFlight, T!InFlight, R!Send,
         T!Send, R!Receive, T!Receive, R!Lose, T!Lose, R!trackVars, T!trackVars,
         R!ackVars, T!ackVars, R!rcvVars, T!rcvVars, R!rxVars, T!rxVars, R!NewEntry,
         T!NewEntry, R!Tracked, T!Tracked, R!EntryOf, T!EntryOf, R!Put, T!Put,
         R!Upsert, T!Upsert, R!touch_activity, T!touch_activity, R!Marked, T!Marked,
         R!mark_verified, T!mark_verified, R!mark_end_seen, T!mark_end_seen, R!RecvData, T!RecvData,
         R!RecvBlockEnd, T!RecvBlockEnd, R!InQueue, T!InQueue, R!TakePacket,
         T!TakePacket, R!Verify, T!Verify, R!Reject, T!Reject, R!IsComplete,
         T!IsComplete, R!MissingIds, T!MissingIds, R!Required, T!Required, R!Ready,
         T!Ready, R!AckPoll, T!AckPoll, R!Snapshot, T!Snapshot, R!OutOfRounds,
         T!OutOfRounds, R!StartCheck, T!StartCheck, R!SendComplete, T!SendComplete,
         R!AckComplete, T!AckComplete, R!AckGiveUp, T!AckGiveUp, R!AckMissing,
         T!AckMissing, R!AckRemove, T!AckRemove, R!StopReceiving, T!StopReceiving,
         R!RcvTick, T!RcvTick, R!RcvNext, T!RcvNext, R!PeerAnswer, T!PeerAnswer,
         R!LoseAny, T!LoseAny, R!RxNext, T!RxNext
<1>3. UNCHANGED R!rxVars <=> UNCHANGED T!rxVars
  BY DEF R!rxVars, T!rxVars, R!rcvVars, T!rcvVars, R!trackVars, T!trackVars, R!ackVars,
         T!ackVars, R!wireVars, T!wireVars
<1> QED BY <1>1, <1>2, <1>3

(* The constants are as the tracker's theorems assume them to be.          *)
LEMMA TrackerAssumptions ==
  T!ReceiverStateAssumption /\ T!WireAssumption /\ T!BlockArithAssumption
  BY ReceiverPipelineAssumption, WireAssumption, BlockArithAssumption
     DEF FitsWord, T!FitsWord

(* What the pipeline needs to know of the tracker. *)
LEMMA TrackerFacts ==
  ASSUME T!RcvInv, T!WireTypeOK
  PROVE  /\ verified \subseteq ChunkIds
         /\ \A d \in Datagrams : Copies(d) > 0 => d.tag = "DATA"
         /\ udp = "ok" => rx_completed = BlockIds
         /\ \A b \in rx_completed \ gave_up :
              \A p \in PacketIds(b) : chunk_id_of(b, p) \in verified
         /\ faults \in 0 .. MaxFaults
<1>1. /\ T!ChunkIds = ChunkIds /\ T!BlockIds = BlockIds /\ T!Datagrams = Datagrams
      /\ \A b : T!PacketIds(b) = PacketIds(b)
      /\ \A b, p : T!chunk_id_of(b, p) = chunk_id_of(b, p)
  BY DEF T!ChunkIds, ChunkIds, T!Chunks, Chunks, T!BlockIds, BlockIds, T!Blocks, Blocks,
         T!total_blocks, total_blocks, T!PacketIds, PacketIds, T!Packets, Packets,
         T!packets_in_block, packets_in_block, T!chunk_id_of, chunk_id_of, T!Datagrams,
         Datagrams, T!DataOf, DataOf, T!Data, Data, T!BlockEnd, BlockEnd, T!Total, Total
<1>2. verified \subseteq ChunkIds
  BY <1>1 DEF T!RcvInv, T!OthersGood
<1>3. \A d \in Datagrams : Copies(d) > 0 => d.tag = "DATA"
  BY <1>1 DEF T!RcvInv, T!QueueGood, T!InQueue, Unverified
<1>4. udp = "ok" => rx_completed = BlockIds
  BY <1>1 DEF T!RcvInv, T!CountExact
<1>5. \A b \in rx_completed \ gave_up :
        \A p \in PacketIds(b) : chunk_id_of(b, p) \in verified
  BY <1>1 DEF T!RcvInv, T!AckedDataSafe
<1> QED BY <1>2, <1>3, <1>4, <1>5 DEF T!WireTypeOK

-------------------------------------------------------------------------------
(* Where a received packet is. *)

LEMMA CopiesFacts ==
  ASSUME RpTypeOK, NEW d \in Datagrams
  PROVE  /\ Count(packets, d) \in Nat
         /\ InHand(Verifying, d) \in Nat
         /\ Cardinality({d} \cap udp_packet) = IF d \in udp_packet THEN 1 ELSE 0
         /\ Copies(d) \in Nat
<1>1. Count(packets, d) \in Nat
  BY CountFacts DEF RpTypeOK
<1>2. InHand(Verifying, d) \in Nat
  <2>1. IsFiniteSet(Workers)
    BY ReceiverPipelineAssumption, FS_Interval DEF Workers
  <2>2. IsFiniteSet(DOMAIN Verifying)
    BY <2>1 DEF Verifying
  <2> QED BY <2>2, InHandFacts
<1>3. Cardinality({d} \cap udp_packet) = IF d \in udp_packet THEN 1 ELSE 0
  <2>1. {d} \cap udp_packet = IF d \in udp_packet THEN {d} ELSE {}
    OBVIOUS
  <2> QED BY <2>1, FS_EmptySet, FS_Singleton
<1> QED BY <1>1, <1>2, <1>3 DEF Copies

(* A step of one worker changes what is being verified by what it took or  *)
(* let go of.                                                              *)
LEMMA VerifyingChanges ==
  ASSUME RpTypeOK, NEW w \in Workers, NEW k, NEW j,
         worker' = [worker EXCEPT ![w] = k], job' = [job EXCEPT ![w] = j],
         NEW d \in Datagrams
  PROVE  /\ InHand(Verifying', d) + (IF worker[w] = "verify" /\ d \in job[w] THEN 1 ELSE 0)
               = InHand(Verifying, d) + (IF k = "verify" /\ d \in j THEN 1 ELSE 0)
         /\ InHand(Verifying', d) \in Nat
<1> DEFINE v == IF k = "verify" THEN j ELSE {}
<1>1. IsFiniteSet(Workers)
  BY ReceiverPipelineAssumption, FS_Interval DEF Workers
<1>2. /\ DOMAIN Verifying = Workers
      /\ d \in Verifying[w] <=> worker[w] = "verify" /\ d \in job[w]
      /\ d \in v <=> k = "verify" /\ d \in j
  BY DEF Verifying
<1>3. Verifying' = [Verifying EXCEPT ![w] = v]
  BY DEF Verifying, RpTypeOK
<1> HIDE DEF v
<1>4. InHand(Verifying', d) + (IF d \in Verifying[w] THEN 1 ELSE 0)
        = InHand(Verifying, d) + (IF d \in v THEN 1 ELSE 0)
  BY <1>1, <1>2, <1>3, InHandChanges
<1>5. InHand(Verifying', d) \in Nat
  BY <1>1, <1>2, <1>3, InHandFacts
<1> QED BY <1>2, <1>4, <1>5

(* Steps that take no packet off the socket and end no verification.       *)
LEMMA SamePackets ==
  ASSUME \A d \in Datagrams : Copies(d)' = Copies(d)
  PROVE  Unverified' = Unverified
  BY DEF Unverified

(* The steps that change them. *)

LEMMA RecvDataQueues ==
  ASSUME RpTypeOK, JobsMatch, NEW d \in Datagrams,
         udp = "recv", udp_packet' = {d}, UNCHANGED <<packets, worker, job>>
  PROVE  Unverified' = [Unverified EXCEPT ![d] = @ + 1]
<1>1. Verifying' = Verifying /\ udp_packet = {}
  BY DEF Verifying, JobsMatch
<1>2. ASSUME NEW x \in Datagrams
      PROVE  Copies(x)' = Copies(x) + (IF x = d THEN 1 ELSE 0)
  <2>1. Cardinality({x} \cap udp_packet') = IF x = d THEN 1 ELSE 0
    <3>1. {x} \cap udp_packet' = IF x = d THEN {x} ELSE {}
      OBVIOUS
    <3> QED BY <3>1, FS_EmptySet, FS_Singleton
  <2>2. /\ Count(packets, x) \in Nat /\ InHand(Verifying, x) \in Nat
        /\ Cardinality({x} \cap udp_packet) = 0
    BY <1>1, CopiesFacts
  <2> QED BY <1>1, <2>1, <2>2 DEF Copies
<1>3. Unverified' = [x \in Datagrams |-> Copies(x) + (IF x = d THEN 1 ELSE 0)]
  BY <1>2 DEF Unverified
<1>4. Unverified = [x \in Datagrams |-> Copies(x)] /\ \A x \in Datagrams : Copies(x) \in Nat
  BY CopiesFacts DEF Unverified
<1> QED BY <1>3, <1>4

LEMMA PushPacketQueues ==
  ASSUME RpTypeOK, JobsMatch, PushPacket
  PROVE  /\ Unverified' = Unverified
         /\ \E d \in Datagrams : udp_packet = {d} /\ packets' = Append(packets, d)
<1>1. PICK d \in Datagrams : udp_packet = {d}
  BY DEF PushPacket, JobsMatch
<1>2. packets' = Append(packets, d) /\ udp_packet' = {} /\ UNCHANGED <<worker, job>>
  BY <1>1 DEF PushPacket, workerVars
<1>3. Verifying' = Verifying
  BY <1>2 DEF Verifying
<1>4. ASSUME NEW x \in Datagrams PROVE Copies(x)' = Copies(x)
  <2>1. Count(packets', x) = Count(packets, x) + (IF d = x THEN 1 ELSE 0)
    BY <1>2, CountAppend DEF RpTypeOK
  <2>2. Cardinality({x} \cap udp_packet') = 0
    BY <1>2, FS_EmptySet
  <2>3. /\ Count(packets, x) \in Nat /\ InHand(Verifying, x) \in Nat
        /\ Cardinality({x} \cap udp_packet) = IF x = d THEN 1 ELSE 0
    BY <1>1, CopiesFacts
  <2> QED BY <1>3, <2>1, <2>2, <2>3 DEF Copies
<1> QED BY <1>1, <1>2, <1>4, SamePackets

LEMMA TakePacketQueues ==
  ASSUME RpTypeOK, JobsMatch, NEW w \in Workers, TakePacket(w)
  PROVE  Unverified' = Unverified
<1> DEFINE d == Head(packets)
<1>1. /\ worker[w] = "recv" /\ packets # <<>> /\ packets' = Tail(packets)
      /\ worker' = [worker EXCEPT ![w] = "verify"] /\ job' = [job EXCEPT ![w] = {d}]
      /\ udp_packet' = udp_packet
  BY DEF TakePacket, udpVars
<1>2. packets \in Seq(Datagrams) /\ Tail(packets) \in Seq(Datagrams)
  BY <1>1, HeadTailProperties DEF RpTypeOK
<1> SUFFICES ASSUME NEW x \in Datagrams PROVE Copies(x)' = Copies(x)
  BY SamePackets
<1>3. Count(packets, x) = Count(packets', x) + (IF d = x THEN 1 ELSE 0)
  BY <1>1, <1>2, CountTail
<1> HIDE DEF d
<1>4. /\ InHand(Verifying', x) + 0 = InHand(Verifying, x) + (IF x = d THEN 1 ELSE 0)
      /\ InHand(Verifying', x) \in Nat
  <2>1. /\ InHand(Verifying', x) + (IF worker[w] = "verify" /\ x \in job[w] THEN 1 ELSE 0)
              = InHand(Verifying, x) + (IF "verify" = "verify" /\ x \in {d} THEN 1 ELSE 0)
        /\ InHand(Verifying', x) \in Nat
    BY <1>1, VerifyingChanges
  <2> QED BY <1>1, <2>1
<1>5. /\ Count(packets, x) \in Nat /\ InHand(Verifying, x) \in Nat
      /\ Cardinality({x} \cap udp_packet) \in Nat
  BY CopiesFacts
<1>6. Count(packets', x) \in Nat
  BY <1>1, <1>2, CountFacts
<1> QED BY <1>1, <1>3, <1>4, <1>5, <1>6 DEF Copies

(* The end of a verification, well or badly. *)
LEMMA VerifiedQueues ==
  ASSUME RpTypeOK, JobsMatch, NEW w \in Workers, NEW d \in Datagrams, NEW k, NEW j,
         worker[w] = "verify", job[w] = {d}, k # "verify",
         worker' = [worker EXCEPT ![w] = k], job' = [job EXCEPT ![w] = j],
         UNCHANGED <<packets, udp_packet>>
  PROVE  Unverified[d] > 0 /\ Unverified' = [Unverified EXCEPT ![d] = @ - 1]
<1>1. ASSUME NEW x \in Datagrams
      PROVE  Copies(x) = Copies(x)' + (IF x = d THEN 1 ELSE 0) /\ Copies(x)' \in Nat
  <2>1. /\ InHand(Verifying', x) + (IF x = d THEN 1 ELSE 0) = InHand(Verifying, x) + 0
        /\ InHand(Verifying', x) \in Nat
    BY VerifyingChanges
  <2>2. /\ Count(packets, x) \in Nat /\ InHand(Verifying, x) \in Nat
        /\ Cardinality({x} \cap udp_packet) \in Nat
    BY CopiesFacts
  <2> QED BY <2>1, <2>2 DEF Copies
<1>2. \A x \in Datagrams : Copies(x)' = Copies(x) - (IF x = d THEN 1 ELSE 0)
  BY <1>1
<1>3. Unverified' = [x \in Datagrams |-> Copies(x) - (IF x = d THEN 1 ELSE 0)]
  BY <1>2 DEF Unverified
<1>4. Unverified = [x \in Datagrams |-> Copies(x)] /\ \A x \in Datagrams : Copies(x) \in Nat
  BY CopiesFacts DEF Unverified
<1>5. Copies(d) > 0
  BY <1>1
<1> QED BY <1>3, <1>4, <1>5

(* A worker that is not verifying, before and after. *)
LEMMA OtherQueues ==
  ASSUME RpTypeOK, NEW w \in Workers, NEW k, worker[w] # "verify", k # "verify",
         worker' = [worker EXCEPT ![w] = k],
         job' = job \/ job' = [job EXCEPT ![w] = {}],
         UNCHANGED <<packets, udp_packet>>
  PROVE  Unverified' = Unverified
<1>1. Verifying' = Verifying
  BY DEF Verifying, RpTypeOK
<1> QED BY <1>1, SamePackets DEF Copies

LEMMA IdleQueues ==
  ASSUME UNCHANGED <<packets, worker, job, udp_packet>>
  PROVE  Unverified' = Unverified
<1>1. Verifying' = Verifying
  BY DEF Verifying
<1> QED BY <1>1, SamePackets DEF Copies

-------------------------------------------------------------------------------
(* Every step of the pipeline is a step of the tracker and its users, or   *)
(* none that they see.                                                     *)

LEMMA SameWire ==
  /\ R!Datagrams = Datagrams /\ R!InFlight = InFlight /\ R!TotalBlocks = TotalBlocks
  /\ \A d : R!Receive(d) <=> Receive(d)
  /\ \A b : R!Total(b) = Total(b)
  /\ \A b, p : R!chunk_id_of(b, p) = chunk_id_of(b, p)
<1>1. /\ R!BlockIds = BlockIds /\ R!TotalBlocks = TotalBlocks
      /\ \A b : R!PacketIds(b) = PacketIds(b) /\ R!Total(b) = Total(b)
  BY DEF R!BlockIds, BlockIds, R!Blocks, Blocks, R!TotalBlocks, TotalBlocks, R!total_blocks,
         total_blocks, R!PacketIds, PacketIds, R!Packets, Packets, R!packets_in_block,
         packets_in_block, R!Total, Total
<1>2. R!Datagrams = Datagrams
  BY <1>1 DEF R!Datagrams, Datagrams, R!DataOf, DataOf, R!Data, Data, R!BlockEnd, BlockEnd
<1>3. R!InFlight = InFlight
  BY <1>2 DEF R!InFlight, InFlight
<1>4. \A d : R!Receive(d) <=> Receive(d)
  BY <1>3 DEF R!Receive, Receive
<1>5. \A b, p : R!chunk_id_of(b, p) = chunk_id_of(b, p)
  BY DEF R!chunk_id_of, chunk_id_of
<1> QED BY <1>1, <1>2, <1>3, <1>4, <1>5

(* Steps that the tracker does not see. *)
LEMMA Unseen ==
  ASSUME UNCHANGED <<trackerVars, ackMgrVars, wireVars>>, Unverified' = Unverified,
         (udp # "ok")' = (udp # "ok")
  PROVE  UNCHANGED R!rxVars
  BY DEF trackerVars, ackMgrVars, wireVars, R!rxVars, R!rcvVars, R!trackVars, R!ackVars,
         R!wireVars

(* The UDP thread stops receiving: the ack manager is done. *)
LEMMA Stops ==
  ASSUME UNCHANGED <<trackerVars, ackMgrVars, wireVars>>, Unverified' = Unverified,
         udp # "ok", udp' = "ok", AckManagerDone
  PROVE  R!StopReceiving
  BY SameWire DEF trackerVars, ackMgrVars, wireVars, R!StopReceiving, R!trackVars, R!ackVars,
                  R!wireVars, AckManagerDone

LEMMA UdpSimulates ==
  ASSUME RpTypeOK, JobsMatch, RunGood, UdpThread
  PROVE  [R!RxNext]_R!rxVars
<1>1. CASE RecvData
  <2>1. PICK d \in InFlight :
          /\ d.tag = "DATA" /\ udp_packet' = {d} /\ Receive(d)
          /\ R!touch_activity(d.block_id, Total(d.block_id))
    BY <1>1 DEF RecvData
  <2>2. /\ udp = "recv" /\ udp' = "send"
        /\ UNCHANGED <<packets, worker, job, verified, ackMgrVars, acks>>
    BY <1>1 DEF RecvData, queueVars, workerVars
  <2>3. Unverified' = [Unverified EXCEPT ![d] = @ + 1]
    BY <2>1, <2>2, RecvDataQueues DEF InFlight
  <2>4. R!RecvData
    BY <2>1, <2>2, <2>3, SameWire DEF R!RecvData, R!ackVars, ackMgrVars
  <2> QED BY <2>4 DEF R!RxNext, R!RcvNext
<1>2. CASE RecvBlockEnd
  <2>1. PICK d \in InFlight :
          /\ d.tag = "BLOCK_END" /\ Receive(d)
          /\ R!mark_end_seen(d.block_id, d.total_packets)
    BY <1>2 DEF RecvBlockEnd
  <2>2. /\ udp = "recv" /\ udp' \in {"recv", "leaving"}
        /\ UNCHANGED <<packets, worker, job, udp_packet, verified, ackMgrVars, acks>>
    BY <1>2 DEF RecvBlockEnd, queueVars, workerVars
  <2>3. Unverified' = Unverified
    BY <2>2, IdleQueues
  <2>4. R!RecvBlockEnd
    BY <2>1, <2>2, <2>3, SameWire DEF R!RecvBlockEnd, R!ackVars, ackMgrVars
  <2> QED BY <2>4 DEF R!RxNext, R!RcvNext
<1>3. CASE PushPacket
  <2>1. Unverified' = Unverified
    BY <1>3, PushPacketQueues
  <2>2. /\ UNCHANGED <<trackerVars, ackMgrVars, wireVars>>
        /\ udp = "send" /\ udp' = IF running THEN "recv" ELSE "ok"
    BY <1>3 DEF PushPacket
  <2>3. CASE running
    BY <2>1, <2>2, <2>3, Unseen
  <2>4. CASE ~running
    BY <2>1, <2>2, <2>4, Stops DEF RunGood, R!RxNext, R!RcvNext
  <2> QED BY <2>3, <2>4
<1>4. CASE UdpLeaves
  <2>1. /\ UNCHANGED <<trackerVars, ackMgrVars, wireVars>>
        /\ UNCHANGED <<packets, worker, job, udp_packet>>
        /\ udp # "ok" /\ udp' = "ok" /\ AckManagerDone
    BY <1>4 DEF UdpLeaves, queueVars, workerVars, RunGood
  <2> QED BY <2>1, IdleQueues, Stops DEF R!RxNext, R!RcvNext
<1>5. CASE UdpFails
  <2>1. /\ UNCHANGED <<trackerVars, ackMgrVars>> /\ UNCHANGED wireVars
        /\ UNCHANGED <<packets, worker, job, udp_packet>>
        /\ udp = "recv" /\ udp' = "err"
    BY <1>5 DEF UdpFails, queueVars, workerVars
  <2> QED BY <2>1, IdleQueues, Unseen
<1> QED BY <1>1, <1>2, <1>3, <1>4, <1>5 DEF UdpThread

LEMMA WorkerSimulates ==
  ASSUME RpTypeOK, JobsMatch, NEW w \in Workers, WorkerThread(w)
  PROVE  [R!RxNext]_R!rxVars
<1>1. CASE TakePacket(w)
  <2>1. UNCHANGED <<trackerVars, ackMgrVars, wireVars, udp>>
    BY <1>1 DEF TakePacket, udpVars
  <2> QED BY <1>1, <2>1, TakePacketQueues, Unseen
<1>2. CASE WorkerLeaves(w) \/ SendChunk(w) \/ SendFails(w)
  <2>1. PICK k : /\ k # "verify" /\ worker' = [worker EXCEPT ![w] = k]
                 /\ worker[w] # "verify"
                 /\ job' = job \/ job' = [job EXCEPT ![w] = {}]
    BY <1>2 DEF WorkerLeaves, SendChunk, SendFails
  <2>2. /\ UNCHANGED <<trackerVars, ackMgrVars, wireVars, udp>>
        /\ UNCHANGED <<packets, udp_packet>>
    BY <1>2 DEF WorkerLeaves, SendChunk, SendFails, udpVars, queueVars
  <2>3. Unverified' = Unverified
    BY <2>1, <2>2, OtherQueues
  <2> QED BY <2>2, <2>3, Unseen
<1>3. CASE Verify(w)
  <2>1. PICK d \in Datagrams : job[w] = {d}
    BY <1>3 DEF Verify, JobsMatch
  <2>2. /\ worker[w] = "verify" /\ worker' = [worker EXCEPT ![w] = "send"]
        /\ R!mark_verified(d.block_id, d.packet_in_block, Total(d.block_id))
        /\ verified' = verified \cup {chunk_id_of(d.block_id, d.packet_in_block)}
        /\ UNCHANGED <<ackMgrVars, job, udp, udp_packet, packets, net, acks, faults>>
    BY <1>3, <2>1 DEF Verify, udpVars, queueVars, wireVars
  <2>3. job' = [job EXCEPT ![w] = {d}]
    BY <2>1, <2>2 DEF RpTypeOK
  <2>4. Unverified[d] > 0 /\ Unverified' = [Unverified EXCEPT ![d] = @ - 1]
    <3>1. worker[w] = "verify" /\ worker' = [worker EXCEPT ![w] = "send"]
      BY <2>2
    <3>2. UNCHANGED <<packets, udp_packet>>
      BY <2>2
    <3> QED BY <2>1, <2>3, <3>1, <3>2, VerifiedQueues
  <2>5. R!TakePacket(d)
    BY <2>2, <2>4, SameWire DEF R!TakePacket, R!InQueue, R!ackVars, ackMgrVars
  <2>6. R!Verify
    BY <2>2, <2>5, SameWire DEF R!Verify
  <2> QED BY <2>6 DEF R!RxNext, R!RcvNext
<1>4. CASE Reject(w)
  <2>1. PICK d \in Datagrams : job[w] = {d}
    BY <1>4 DEF Reject, JobsMatch
  <2>2. /\ worker[w] = "verify" /\ worker' = [worker EXCEPT ![w] = "recv"]
        /\ job' = [job EXCEPT ![w] = {}] /\ faults < MaxFaults /\ faults' = faults + 1
        /\ UNCHANGED <<trackerVars, ackMgrVars, udp, udp_packet, packets, net, acks>>
    BY <1>4 DEF Reject, udpVars, queueVars
  <2>3. Unverified[d] > 0 /\ Unverified' = [Unverified EXCEPT ![d] = @ - 1]
    BY <2>1, <2>2, VerifiedQueues
  <2>4. R!TakePacket(d)
    BY <2>2, <2>3, SameWire DEF R!TakePacket, R!InQueue, R!ackVars, ackMgrVars
  <2>5. R!Reject
    BY <2>2, <2>4, SameWire DEF R!Reject, R!trackVars, trackerVars
  <2> QED BY <2>5 DEF R!RxNext, R!RcvNext
<1> QED BY <1>1, <1>2, <1>3, <1>4 DEF WorkerThread

(* The step simulation of ImplementsReceiverState. *)
LEMMA RpStepSimulates ==
  ASSUME RpTypeOK, JobsMatch, RunGood, [RpNext]_rpVars
  PROVE  [R!RxNext]_R!rxVars
<1>1. CASE UdpThread
  BY <1>1, UdpSimulates
<1>2. CASE \E w \in Workers : WorkerThread(w)
  BY <1>2, WorkerSimulates
<1>3. CASE WriterThread \/ Joins \/ UNCHANGED rpVars
  <2>1. /\ UNCHANGED <<trackerVars, ackMgrVars, wireVars, udp>>
        /\ UNCHANGED <<packets, worker, job, udp_packet>>
    BY <1>3 DEF WriterThread, WriteChunk, WriterLeaves, WriterFails, Joins, JoinAckManager,
                AckManagerFails, JoinUdp, JoinWorkers, JoinWriter, rpVars, threadVars, udpVars,
                workerVars, queueVars
  <2> QED BY <2>1, IdleQueues, Unseen
<1>4. CASE AckManager \/ Clock \/ Peer \/ Path
  BY <1>4 DEF AckManager, Clock, Peer, Path, R!RxNext, R!RcvNext
<1> QED BY <1>1, <1>2, <1>3, <1>4 DEF RpNext

LEMMA TrackerKept ==
  ASSUME RpTypeOK, JobsMatch, RunGood, T!RcvInv, T!WireTypeOK, [RpNext]_rpVars
  PROVE  T!RcvInv' /\ T!WireTypeOK'
<1>1. [T!RxNext]_T!rxVars
  BY RpStepSimulates, SameTracker
<1> QED BY <1>1, TrackerAssumptions, T!RxStepInv


-------------------------------------------------------------------------------
(* The threads: each keeps the rest of the invariant.                      *)

ThreadsGood == RpTypeOK /\ JobsMatch /\ WriterGood /\ ErrorsGood /\ RunGood

(* What every step may assume: the tracker is right, and the faults of a   *)
(* step are within their bound.                                            *)
Context ==
  /\ T!RcvInv /\ T!WireTypeOK
  /\ faults' \in 0 .. MaxFaults /\ faults' + io_faults' <= MaxFaults

(* A chunk of a packet that is being verified is a chunk of the file. *)
LEMMA ChunkOfType ==
  ASSUME NEW d \in Datagrams, d.tag = "DATA"
  PROVE  ChunkOf(d) \in ChunkIds
  BY DatagramTypes, FrameFacts DEF ChunkOf

(* The workers' hands, when worker w goes from one state to another: it    *)
(* has nothing to bring to the writer before and after; or it has now; or  *)
(* it has no more.                                                         *)
LEMMA HandsChange ==
  ASSUME RpTypeOK, NEW w \in Workers, NEW k, NEW j,
         worker' = [worker EXCEPT ![w] = k], job' = [job EXCEPT ![w] = j]
  PROVE  /\ \A v \in Workers : /\ worker'[v] = IF v = w THEN k ELSE worker[v]
                               /\ job'[v] = IF v = w THEN j ELSE job[v]
         /\ \A c : \A v \in Workers : v # w =>
              ((worker'[v] = "send" /\ \E d \in job'[v] : c = ChunkOf(d))
                 <=> (worker[v] = "send" /\ \E d \in job[v] : c = ChunkOf(d)))
<1>1. \A v \in Workers : /\ worker'[v] = IF v = w THEN k ELSE worker[v]
                         /\ job'[v] = IF v = w THEN j ELSE job[v]
  BY DEF RpTypeOK
<1> QED BY <1>1

LEMMA HandsMean ==
  /\ InWorkersHand = {c \in ChunkIds : \E v \in Workers :
                        worker[v] = "send" /\ \E d \in job[v] : c = ChunkOf(d)}
  /\ InWorkersHand' = {c \in ChunkIds : \E v \in Workers :
                         worker'[v] = "send" /\ \E d \in job'[v] : c = ChunkOf(d)}
  BY DEF InWorkersHand, ChunkOf, ChunkIds, Chunks

LEMMA HandsStill ==
  ASSUME RpTypeOK, NEW w \in Workers, NEW k, NEW j,
         worker' = [worker EXCEPT ![w] = k], job' = [job EXCEPT ![w] = j],
         worker[w] # "send", k # "send"
  PROVE  InWorkersHand' = InWorkersHand
  BY HandsChange, HandsMean

LEMMA HandsFill ==
  ASSUME RpTypeOK, NEW w \in Workers, NEW d, ChunkOf(d) \in ChunkIds,
         worker' = [worker EXCEPT ![w] = "send"], job' = [job EXCEPT ![w] = {d}],
         worker[w] # "send"
  PROVE  InWorkersHand' = InWorkersHand \cup {ChunkOf(d)}
<1> DEFINE Holds(v, c) == worker[v] = "send" /\ \E x \in job[v] : c = ChunkOf(x)
           HoldsAfter(v, c) == worker'[v] = "send" /\ \E x \in job'[v] : c = ChunkOf(x)
<1>1. \A c : \A v \in Workers : v # w => (HoldsAfter(v, c) <=> Holds(v, c))
  BY HandsChange
<1>2. \A c : ~Holds(w, c) /\ (HoldsAfter(w, c) <=> c = ChunkOf(d))
  <2>1. worker'[w] = "send" /\ job'[w] = {d}
    BY DEF RpTypeOK
  <2> QED BY <2>1
<1>3. /\ InWorkersHand = {c \in ChunkIds : \E v \in Workers : Holds(v, c)}
      /\ InWorkersHand' = {c \in ChunkIds : \E v \in Workers : HoldsAfter(v, c)}
  BY HandsMean
<1> HIDE DEF Holds, HoldsAfter
<1> QED BY <1>1, <1>2, <1>3

LEMMA HandsEmpty ==
  ASSUME RpTypeOK, NEW w \in Workers, NEW d, NEW k, k # "send",
         worker' = [worker EXCEPT ![w] = k], job' = [job EXCEPT ![w] = {}],
         worker[w] = "send", job[w] = {d}
  PROVE  /\ InWorkersHand \subseteq InWorkersHand' \cup {ChunkOf(d)}
         /\ InWorkersHand' \subseteq InWorkersHand
         /\ ChunkOf(d) \in ChunkIds => ChunkOf(d) \in InWorkersHand
<1> DEFINE Holds(v, c) == worker[v] = "send" /\ \E x \in job[v] : c = ChunkOf(x)
           HoldsAfter(v, c) == worker'[v] = "send" /\ \E x \in job'[v] : c = ChunkOf(x)
<1>1. \A c : \A v \in Workers : v # w => (HoldsAfter(v, c) <=> Holds(v, c))
  BY HandsChange
<1>2. \A c : ~HoldsAfter(w, c) /\ (Holds(w, c) <=> c = ChunkOf(d))
  <2>1. worker'[w] = k
    BY DEF RpTypeOK
  <2> QED BY <2>1
<1>3. /\ InWorkersHand = {c \in ChunkIds : \E v \in Workers : Holds(v, c)}
      /\ InWorkersHand' = {c \in ChunkIds : \E v \in Workers : HoldsAfter(v, c)}
  BY HandsMean
<1> HIDE DEF Holds, HoldsAfter
<1> QED BY <1>1, <1>2, <1>3

(* Steps of the threads that leave the writer's side alone. *)
LEMMA WriterSideSame ==
  ASSUME WriterGood, UNCHANGED <<writerVars, write_queue, verified>>,
         InWorkersHand' = InWorkersHand,
         \A w \in Workers : Gone(w) => Gone(w)'
  PROVE  WriterGood'
<1>1. Kept' = Kept /\ (VerifiedIsKept => VerifiedIsKept')
  BY DEF Kept, VerifiedIsKept, InWriteQueue, writerVars
<1> QED BY <1>1 DEF WriterGood, writerVars

LEMMA UdpKeepsThreads ==
  ASSUME ThreadsGood, Context, UdpThread
  PROVE  ThreadsGood'
<1>1. /\ RpTypeOK /\ JobsMatch /\ WriterGood /\ ErrorsGood /\ RunGood
      /\ io_faults \in Nat
  BY DEF ThreadsGood, RpTypeOK
<1>2. UNCHANGED <<verified, ready, closing, ack_completed, running, worker, job, writer, pending,
                  next_chunk, write_queue, run>>
  BY DEF UdpThread, RecvData, RecvBlockEnd, PushPacket, UdpLeaves, UdpFails, ackMgrVars,
         trackerVars, workerVars, writerVars, queueVars
<1>3. /\ io_faults' \in Nat /\ io_faults' >= io_faults
      /\ udp' = "err" => io_faults' > 0
  BY <1>1 DEF UdpThread, RecvData, RecvBlockEnd, PushPacket, UdpLeaves, UdpFails, IoFault
<1>4. /\ udp \notin {"ok", "err"} /\ udp' \in {"recv", "send", "leaving", "ok", "err"}
      /\ udp' = "send" => \E d \in Datagrams : udp_packet' = {d}
      /\ udp' # "send" => udp_packet' = {}
  BY <1>1 DEF UdpThread, RecvData, RecvBlockEnd, PushPacket, UdpLeaves, UdpFails, InFlight,
              JobsMatch
<1>5. udp_packet' \subseteq Datagrams /\ Cardinality(udp_packet') <= 1
  BY <1>4, FS_EmptySet, FS_Singleton
<1>6. packets' \in Seq(Datagrams) /\ Len(packets') <= ChannelCapacity
  <2>1. CASE PushPacket
    <3>1. PICK d \in Datagrams : packets' = Append(packets, d)
      BY <1>1, <2>1, PushPacketQueues
    <3>2. packets \in Seq(Datagrams) /\ Len(packets) < ChannelCapacity
      BY <1>1, <2>1 DEF PushPacket, RpTypeOK
    <3>3. packets' \in Seq(Datagrams) /\ Len(packets') = Len(packets) + 1 /\ Len(packets) \in Nat
      BY <3>1, <3>2, AppendProperties, LenProperties
    <3> QED BY <3>2, <3>3, ReceiverPipelineAssumption
  <2>2. CASE RecvData \/ RecvBlockEnd \/ UdpLeaves \/ UdpFails
    BY <1>1, <2>2 DEF RecvData, RecvBlockEnd, UdpLeaves, UdpFails, queueVars, RpTypeOK
  <2> QED BY <2>1, <2>2 DEF UdpThread
<1>7. RpTypeOK'
  BY <1>1, <1>2, <1>3, <1>4, <1>5, <1>6 DEF RpTypeOK, Context
<1>8. JobsMatch'
  BY <1>1, <1>2, <1>4 DEF JobsMatch
<1>9. WriterGood'
  <2>1. InWorkersHand' = InWorkersHand /\ \A w \in Workers : Gone(w) => Gone(w)'
    BY <1>2 DEF InWorkersHand, Gone
  <2> QED BY <1>1, <1>2, <2>1, WriterSideSame DEF writerVars
<1>10. ErrorsGood'
  BY <1>1, <1>2, <1>3 DEF ErrorsGood
<1>11. RunGood'
  BY <1>1, <1>2, <1>4 DEF RunGood, AckManagerDone
<1> QED BY <1>7, <1>8, <1>9, <1>10, <1>11 DEF ThreadsGood


(* What a worker has to show of the writer's side, for a writer that the   *)
(* step leaves alone and that has not finished with this worker at work.   *)
LEMMA WriterSideKept ==
  ASSUME WriterGood, NEW w \in Workers, ~Gone(w), UNCHANGED writerVars,
         Kept' \subseteq verified',
         \/ verified' \subseteq Kept'
         \/ next_chunk = TotalChunks /\ verified' \subseteq ChunkIds
         \/ writer = "err"
  PROVE  WriterGood'
<1>1. /\ writer' = writer /\ next_chunk' = next_chunk /\ pending' = pending
      /\ writer = "ok" => next_chunk = TotalChunks
  BY DEF WriterGood, writerVars
<1>2. VerifiedIsKept'
  <2>1. next_chunk = TotalChunks /\ verified' \subseteq ChunkIds => verified' \subseteq Kept'
    BY <1>1 DEF Kept, ChunkIds, Chunks
  <2> QED BY <1>1, <2>1 DEF VerifiedIsKept, Kept
<1> QED BY <1>1, <1>2 DEF WriterGood

LEMMA WorkerKeepsThreads ==
  ASSUME ThreadsGood, Context, NEW w \in Workers, WorkerThread(w)
  PROVE  ThreadsGood'
<1>0. RpTypeOK
  BY DEF ThreadsGood
<1>1. /\ RpTypeOK /\ JobsMatch /\ WriterGood /\ ErrorsGood /\ RunGood
      /\ io_faults \in Nat
  BY DEF ThreadsGood, RpTypeOK
<1>2. UNCHANGED <<ready, closing, ack_completed, running, udp, udp_packet, writer, pending,
                  next_chunk, run, io_faults>>
  BY DEF WorkerThread, TakePacket, WorkerLeaves, Verify, Reject, SendChunk, SendFails,
         ackMgrVars, udpVars, writerVars
<1>3. ~Gone(w) /\ run \notin {"writer", "ok"}
  BY <1>1 DEF WorkerThread, TakePacket, WorkerLeaves, Verify, Reject, SendChunk, SendFails, Gone,
              RunGood
<1>4. /\ verified \subseteq ChunkIds
      /\ \A d \in Datagrams : Copies(d) > 0 => d.tag = "DATA"
  BY TrackerFacts DEF Context
<1>5. /\ writer = "ok" => next_chunk = TotalChunks
      /\ Kept \subseteq verified
      /\ writer # "err" => verified \subseteq Kept
  BY <1>1, <1>3 DEF WriterGood, VerifiedIsKept, Kept
<1>6. RunGood'
  BY <1>1, <1>2, <1>3 DEF RunGood, AckManagerDone
<1> DEFINE Moves(k, j) == /\ worker' = [worker EXCEPT ![w] = k]
                          /\ job' = [job EXCEPT ![w] = j]
           Typed == /\ packets' \in Seq(Datagrams) /\ Len(packets') <= ChannelCapacity
                    /\ write_queue' \in Seq(ChunkIds) /\ Len(write_queue') <= ChannelCapacity
<1>7. ASSUME NEW k, NEW j, Moves(k, j), Typed, WriterGood',
             k = "recv" \/ k = "ok" \/ k = "err",
             j = {},
             k = "err" => io_faults > 0 \/ next_chunk = TotalChunks
      PROVE  ThreadsGood'
  <2>1. /\ worker' \in [Workers -> {"recv", "verify", "send", "ok", "err"}]
        /\ job' \in [Workers -> SUBSET Datagrams]
        /\ \A v \in Workers : /\ worker'[v] = IF v = w THEN k ELSE worker[v]
                              /\ job'[v] = IF v = w THEN j ELSE job[v]
    BY <1>1, <1>7 DEF RpTypeOK
  <2>2. RpTypeOK'
    BY <1>1, <1>2, <1>7, <2>1 DEF RpTypeOK, Context
  <2>3. JobsMatch'
    BY <1>1, <1>2, <1>7, <2>1 DEF JobsMatch
  <2>4. ErrorsGood'
    BY <1>1, <1>2, <1>7, <2>1 DEF ErrorsGood
  <2> QED BY <1>6, <1>7, <2>2, <2>3, <2>4 DEF ThreadsGood
<1>8. ASSUME NEW k, NEW d \in Datagrams, Moves(k, {d}), Typed, WriterGood',
             k = "verify" \/ (k = "send" /\ d.tag = "DATA")
      PROVE  ThreadsGood'
  <2>1. /\ worker' \in [Workers -> {"recv", "verify", "send", "ok", "err"}]
        /\ job' \in [Workers -> SUBSET Datagrams]
        /\ \A v \in Workers : /\ worker'[v] = IF v = w THEN k ELSE worker[v]
                              /\ job'[v] = IF v = w THEN {d} ELSE job[v]
    BY <1>1, <1>8 DEF RpTypeOK
  <2>2. RpTypeOK'
    BY <1>1, <1>2, <1>8, <2>1 DEF RpTypeOK, Context
  <2>3. JobsMatch'
    BY <1>1, <1>2, <1>8, <2>1 DEF JobsMatch
  <2>4. ErrorsGood'
    BY <1>1, <1>2, <1>8, <2>1 DEF ErrorsGood
  <2> QED BY <1>6, <1>8, <2>2, <2>3, <2>4 DEF ThreadsGood
<1>9. CASE TakePacket(w)
  <2>1. /\ Moves("verify", {Head(packets)}) /\ worker[w] = "recv"
        /\ packets # <<>> /\ packets' = Tail(packets)
        /\ UNCHANGED <<write_queue, writerVars, verified>>
    BY <1>9 DEF TakePacket, trackerVars
  <2>2. Typed /\ Head(packets) \in Datagrams
    <3>1. packets \in Seq(Datagrams) /\ Len(packets) <= ChannelCapacity
      BY <1>1 DEF RpTypeOK
    <3>2. /\ Head(packets) \in Datagrams /\ Tail(packets) \in Seq(Datagrams)
          /\ Len(Tail(packets)) = Len(packets) - 1 /\ Len(packets) \in Nat
      BY <2>1, <3>1, HeadTailProperties, LenProperties
    <3> QED BY <1>1, <2>1, <3>1, <3>2, ReceiverPipelineAssumption DEF RpTypeOK
  <2>3. InWorkersHand' = InWorkersHand
    BY <1>0, <2>1, HandsStill
  <2>4. Kept' = Kept
    BY <2>1, <2>3 DEF Kept, InWriteQueue, writerVars
  <2>5. WriterGood'
    BY <1>1, <1>3, <1>5, <2>1, <2>4, WriterSideKept DEF WriterGood
  <2> HIDE DEF Moves, Typed
  <2> QED BY <1>8, <2>1, <2>2, <2>5
<1>10. CASE WorkerLeaves(w)
  <2>1. /\ worker[w] = "recv" /\ worker' = [worker EXCEPT ![w] = "ok"] /\ job' = job
        /\ UNCHANGED <<packets, write_queue, writerVars, verified>>
    BY <1>10 DEF WorkerLeaves, trackerVars, queueVars
  <2>2. Moves("ok", {})
    BY <1>1, <2>1 DEF RpTypeOK, JobsMatch
  <2>3. Typed
    BY <1>1, <2>1 DEF RpTypeOK
  <2>4. InWorkersHand' = InWorkersHand
    BY <1>0, <2>1, <2>2, HandsStill
  <2>5. Kept' = Kept
    BY <2>1, <2>4 DEF Kept, InWriteQueue, writerVars
  <2>6. WriterGood'
    BY <1>1, <1>3, <1>5, <2>1, <2>5, WriterSideKept DEF WriterGood
  <2> HIDE DEF Moves, Typed
  <2> QED BY <1>7, <2>2, <2>3, <2>6
<1>11. CASE Verify(w)
  <2>1. PICK d \in Datagrams : job[w] = {d}
    BY <1>1, <1>11 DEF JobsMatch, Verify
  <2>2. /\ worker[w] = "verify" /\ worker' = [worker EXCEPT ![w] = "send"] /\ job' = job
        /\ verified' = verified \cup {ChunkOf(d)}
        /\ UNCHANGED <<packets, write_queue, writerVars>>
    BY <1>11, <2>1 DEF Verify, queueVars, ChunkOf
  <2>3. Moves("send", {d})
    BY <1>1, <2>1, <2>2 DEF RpTypeOK
  <2>4. Typed
    BY <1>1, <2>2 DEF RpTypeOK
  <2>5. d.tag = "DATA"
    <3>1. d \in Verifying[w] /\ w \in DOMAIN Verifying /\ IsFiniteSet(DOMAIN Verifying)
      BY <2>1, <2>2, ReceiverPipelineAssumption, FS_Interval DEF Verifying, Workers
    <3>2. InHand(Verifying, d) > 0
      BY <3>1, InHandFacts
    <3>3. /\ Count(packets, d) \in Nat /\ InHand(Verifying, d) \in Nat
          /\ Cardinality({d} \cap udp_packet) \in Nat
      BY <1>1, CopiesFacts
    <3>4. Copies(d) > 0
      BY <3>2, <3>3 DEF Copies
    <3> QED BY <1>4, <3>4
  <2>6. ChunkOf(d) \in ChunkIds
    BY <2>5, ChunkOfType
  <2>7. InWorkersHand' = InWorkersHand \cup {ChunkOf(d)}
    BY <1>0, <2>2, <2>3, <2>6, HandsFill
  <2>8. Kept' = Kept \cup {ChunkOf(d)}
    BY <2>2, <2>7 DEF Kept, InWriteQueue, writerVars
  <2>9. WriterGood'
    BY <1>1, <1>3, <1>5, <2>2, <2>8, WriterSideKept
  <2> HIDE DEF Moves, Typed
  <2> QED BY <1>8, <2>3, <2>4, <2>5, <2>9
<1>12. CASE Reject(w)
  <2>1. /\ worker[w] = "verify" /\ Moves("recv", {})
        /\ UNCHANGED <<packets, write_queue, writerVars, verified>>
    BY <1>12 DEF Reject, trackerVars, queueVars
  <2>2. Typed
    BY <1>1, <2>1 DEF RpTypeOK
  <2>3. InWorkersHand' = InWorkersHand
    BY <1>0, <2>1, HandsStill
  <2>4. Kept' = Kept
    BY <2>1, <2>3 DEF Kept, InWriteQueue, writerVars
  <2>5. WriterGood'
    BY <1>1, <1>3, <1>5, <2>1, <2>4, WriterSideKept DEF WriterGood
  <2> HIDE DEF Moves, Typed
  <2> QED BY <1>7, <2>1, <2>2, <2>5
<1>13. CASE SendChunk(w)
  <2>1. PICK d \in Datagrams : job[w] = {d} /\ d.tag = "DATA"
    BY <1>1, <1>13 DEF JobsMatch, SendChunk
  <2>2. /\ worker[w] = "send" /\ Moves("recv", {}) /\ Len(write_queue) < ChannelCapacity
        /\ write_queue' = Append(write_queue, ChunkOf(d))
        /\ UNCHANGED <<packets, writerVars, verified>>
    BY <1>13, <2>1 DEF SendChunk, trackerVars, ChunkOf
  <2>3. ChunkOf(d) \in ChunkIds
    BY <2>1, ChunkOfType
  <2>4. Typed
    <3>1. write_queue \in Seq(ChunkIds)
      BY <1>1 DEF RpTypeOK
    <3>2. /\ write_queue' \in Seq(ChunkIds) /\ Len(write_queue') = Len(write_queue) + 1
          /\ Len(write_queue) \in Nat
      BY <2>2, <2>3, <3>1, AppendProperties, LenProperties
    <3> QED BY <1>1, <2>2, <3>2, ReceiverPipelineAssumption DEF RpTypeOK
  <2>5. InWriteQueue' = InWriteQueue \cup {ChunkOf(d)}
    <3>1. write_queue \in Seq(ChunkIds)
      BY <1>1 DEF RpTypeOK
    <3> QED BY <2>2, <2>3, <3>1, ElementsFacts DEF InWriteQueue
  <2>6. /\ InWorkersHand \subseteq InWorkersHand' \cup {ChunkOf(d)}
        /\ InWorkersHand' \subseteq InWorkersHand
        /\ ChunkOf(d) \in InWorkersHand
    BY <1>0, <2>1, <2>2, <2>3, HandsEmpty
  <2>7. Kept' = Kept
    BY <2>2, <2>5, <2>6 DEF Kept, writerVars
  <2>8. WriterGood'
    BY <1>1, <1>3, <1>5, <2>2, <2>7, WriterSideKept DEF WriterGood
  <2> HIDE DEF Moves, Typed
  <2> QED BY <1>7, <2>2, <2>4, <2>8
<1>14. CASE SendFails(w)
  <2>1. PICK d \in Datagrams : job[w] = {d}
    BY <1>1, <1>14 DEF JobsMatch, SendFails
  <2>2. /\ worker[w] = "send" /\ writer # "run" /\ Moves("err", {})
        /\ UNCHANGED <<packets, write_queue, writerVars, verified>>
    BY <1>14 DEF SendFails, trackerVars, queueVars
  <2>3. Typed
    BY <1>1, <2>2 DEF RpTypeOK
  <2>4. writer = "err" \/ next_chunk = TotalChunks
    BY <1>1, <1>5, <2>2 DEF RpTypeOK
  <2>5. InWorkersHand' \subseteq InWorkersHand
    BY <1>0, <2>1, <2>2, HandsEmpty
  <2>6. Kept' \subseteq Kept
    BY <2>2, <2>5 DEF Kept, InWriteQueue, writerVars
  <2>7. WriterGood'
    BY <1>1, <1>3, <1>4, <1>5, <2>2, <2>4, <2>6, WriterSideKept
  <2>8. io_faults > 0 \/ next_chunk = TotalChunks
    BY <1>1, <2>4 DEF ErrorsGood
  <2> HIDE DEF Moves, Typed
  <2> QED BY <1>7, <2>2, <2>3, <2>7, <2>8
<1> QED BY <1>9, <1>10, <1>11, <1>12, <1>13, <1>14 DEF WorkerThread


-------------------------------------------------------------------------------
(* The writer. *)

(* There is a first chunk that the writer does not hold. *)
LEMMA NextUnwrittenFacts ==
  ASSUME NEW held, held \subseteq ChunkIds, next_chunk \in 0 .. TotalChunks
  PROVE  /\ NextUnwritten(held) \in next_chunk .. TotalChunks
         /\ NextUnwritten(held) \notin held
         /\ next_chunk .. NextUnwritten(held) - 1 \subseteq held
<1> DEFINE S == {n \in next_chunk .. TotalChunks : n \notin held}
<1>1. TotalChunks \in Nat /\ next_chunk \in Nat
  BY WireAssumption DEF FitsWord
<1>2. TotalChunks \in S
  BY <1>1 DEF ChunkIds, Chunks
<1>3. PICK n \in S : \A k \in S : n <= k
  <2>1. S \subseteq Nat /\ S # {}
    BY <1>1, <1>2
  <2> HIDE DEF S
  <2> QED BY <2>1, LeastElement
<1>4. next_chunk .. n - 1 \subseteq held
  BY <1>1, <1>3
<1> QED BY <1>3, <1>4 DEF NextUnwritten

(* WriteChunk writes chunks that were held, and forgets none. *)
LEMMA WriteChunkFacts ==
  ASSUME RpTypeOK, next_chunk \notin pending, WriteChunk
  PROVE  /\ next_chunk' \in 0 .. TotalChunks
         /\ pending' \subseteq ChunkIds /\ next_chunk' \notin pending'
         /\ write_queue' \in Seq(ChunkIds) /\ Len(write_queue') <= ChannelCapacity
         /\ (0 .. next_chunk' - 1) \cup pending' \cup InWriteQueue'
              = (0 .. next_chunk - 1) \cup pending \cup InWriteQueue
         /\ next_chunk = TotalChunks => next_chunk' = TotalChunks
         /\ writer' \in {"run", "ok"} /\ (writer' = "ok" => next_chunk' = TotalChunks)
<1> DEFINE held == pending \cup {Head(write_queue)}
           next == NextUnwritten(held)
<1>1. /\ write_queue \in Seq(ChunkIds) /\ Len(write_queue) <= ChannelCapacity
      /\ pending \subseteq ChunkIds /\ next_chunk \in 0 .. TotalChunks
      /\ TotalChunks \in Nat /\ ChannelCapacity \in Nat
  BY WireAssumption, ReceiverPipelineAssumption DEF FitsWord, RpTypeOK
<1>2. /\ write_queue # <<>> /\ write_queue' = Tail(write_queue)
      /\ next_chunk' = next /\ pending' = held \ (next_chunk .. next - 1)
      /\ writer' = IF next_chunk' >= TotalChunks THEN "ok" ELSE "run"
  BY DEF WriteChunk, FileDone
<1>3. /\ Head(write_queue) \in ChunkIds /\ Tail(write_queue) \in Seq(ChunkIds)
      /\ Len(Tail(write_queue)) = Len(write_queue) - 1 /\ Len(write_queue) \in Nat
  BY <1>1, <1>2, HeadTailProperties, LenProperties
<1>4. InWriteQueue = InWriteQueue' \cup {Head(write_queue)}
  <2> DEFINE s == write_queue
  <2>1. s \in Seq(ChunkIds) /\ s # <<>>
    BY <1>1, <1>2
  <2>2. {s[i] : i \in DOMAIN s} = {Tail(s)[i] : i \in DOMAIN Tail(s)} \cup {Head(s)}
    BY <2>1, ElementsFacts
  <2> QED BY <1>2, <2>2 DEF InWriteQueue
<1>5. held \subseteq ChunkIds
  BY <1>1, <1>3
<1>6. next \in next_chunk .. TotalChunks /\ next \notin held /\ next_chunk .. next - 1 \subseteq held
  BY <1>1, <1>5, NextUnwrittenFacts
<1> HIDE DEF next
<1>7. 0 .. next - 1 = (0 .. next_chunk - 1) \cup (next_chunk .. next - 1)
  BY <1>1, <1>6
<1>8. (0 .. next - 1) \cup pending' = (0 .. next_chunk - 1) \cup held
  BY <1>2, <1>6, <1>7
<1>9. (0 .. next_chunk' - 1) \cup pending' \cup InWriteQueue'
        = (0 .. next_chunk - 1) \cup pending \cup InWriteQueue
  BY <1>2, <1>4, <1>8
<1> QED BY <1>1, <1>2, <1>3, <1>5, <1>6, <1>9

LEMMA WriterKeepsThreads ==
  ASSUME ThreadsGood, Context, WriterThread
  PROVE  ThreadsGood'
<1>0. RpTypeOK
  BY DEF ThreadsGood
<1>1. /\ JobsMatch /\ WriterGood /\ ErrorsGood /\ RunGood
      /\ io_faults \in Nat
  BY DEF ThreadsGood, RpTypeOK
<1>2. UNCHANGED <<ready, closing, ack_completed, running, udp, udp_packet, worker, job, run,
                  packets, verified>>
  BY DEF WriterThread, WriteChunk, WriterLeaves, WriterFails, trackerVars, ackMgrVars, udpVars,
         workerVars, queueVars
<1>3. writer = "run" /\ io_faults' \in Nat /\ io_faults' >= io_faults
  BY <1>1 DEF WriterThread, WriteChunk, WriterLeaves, WriterFails, IoFault
<1>4. InWorkersHand' = InWorkersHand /\ \A w \in Workers : Gone(w)' = Gone(w)
  BY <1>2 DEF InWorkersHand, Gone
<1>5. JobsMatch' /\ RunGood'
  BY <1>1, <1>2, <1>3 DEF JobsMatch, RunGood, AckManagerDone
<1>6. CASE WriteChunk
  <2>1. next_chunk \notin pending
    BY <1>1 DEF WriterGood
  <2>2. RpTypeOK'
    BY <1>0, <1>2, <1>3, <1>6, <2>1, WriteChunkFacts DEF RpTypeOK, Context
  <2>3. Kept' = Kept
    BY <1>0, <1>4, <1>6, <2>1, WriteChunkFacts DEF Kept
  <2>4. VerifiedIsKept'
    BY <1>1, <1>2, <1>3, <2>3 DEF WriterGood, VerifiedIsKept, Kept
  <2>5. WriterGood'
    BY <1>0, <1>1, <1>2, <1>6, <2>1, <2>3, <2>4, WriteChunkFacts DEF WriterGood
  <2>6. ErrorsGood'
    BY <1>0, <1>1, <1>2, <1>3, <1>6, <2>1, WriteChunkFacts DEF ErrorsGood
  <2> QED BY <1>5, <2>2, <2>5, <2>6 DEF ThreadsGood
<1>7. CASE WriterLeaves
  <2>1. /\ writer' = "ok" /\ write_queue = <<>> /\ \A w \in Workers : Gone(w)
        /\ UNCHANGED <<pending, next_chunk, write_queue, io_faults>>
    BY <1>7 DEF WriterLeaves, queueVars
  <2>2. RpTypeOK'
    BY <1>0, <1>2, <2>1 DEF RpTypeOK, Context
  <2>3. Kept' = Kept
    BY <1>4, <2>1 DEF Kept, InWriteQueue
  <2>4. VerifiedIsKept'
    BY <1>1, <1>2, <1>3, <2>3 DEF WriterGood, VerifiedIsKept, Kept
  <2>5. WriterGood'
    BY <1>1, <1>2, <1>4, <2>1, <2>3, <2>4 DEF WriterGood
  <2>6. ErrorsGood'
    BY <1>1, <1>2, <2>1 DEF ErrorsGood
  <2> QED BY <1>5, <2>2, <2>5, <2>6 DEF ThreadsGood
<1>8. CASE WriterFails
  <2>1. /\ writer' = "err" /\ io_faults' = io_faults + 1
        /\ UNCHANGED <<pending, next_chunk, write_queue>>
    BY <1>8 DEF WriterFails, IoFault, queueVars
  <2>2. RpTypeOK'
    BY <1>0, <1>2, <1>3, <2>1 DEF RpTypeOK, Context
  <2>3. Kept' = Kept
    BY <1>4, <2>1 DEF Kept, InWriteQueue
  <2>4. WriterGood'
    BY <1>1, <1>2, <2>1, <2>3 DEF WriterGood, VerifiedIsKept
  <2>5. ErrorsGood'
    BY <1>1, <1>2, <2>1 DEF ErrorsGood
  <2> QED BY <1>5, <2>2, <2>4, <2>5 DEF ThreadsGood
<1> QED BY <1>6, <1>7, <1>8 DEF WriterThread


-------------------------------------------------------------------------------
(* run, the ack manager, and the rest of the world. *)

LEMMA JoinsKeepThreads ==
  ASSUME ThreadsGood, Context, Joins
  PROVE  ThreadsGood'
<1>0. RpTypeOK
  BY DEF ThreadsGood
<1>1. /\ JobsMatch /\ WriterGood /\ ErrorsGood /\ RunGood
      /\ io_faults \in Nat
  BY DEF ThreadsGood, RpTypeOK
<1>2. UNCHANGED <<verified, ready, closing, ack_completed, udp, udp_packet, packets, worker, job,
                  write_queue, writer, pending, next_chunk>>
  BY DEF Joins, JoinAckManager, AckManagerFails, JoinUdp, JoinWorkers, JoinWriter, trackerVars,
         ackMgrVars, udpVars, workerVars, writerVars, queueVars
<1>3. /\ io_faults' \in Nat /\ io_faults' >= io_faults
      /\ running' \in BOOLEAN /\ run' \in {"udp", "workers", "writer", "ok", "err"}
  <2>1. running \in BOOLEAN /\ writer \in {"run", "ok", "err"}
    BY <1>0 DEF RpTypeOK
  <2>2. CASE JoinAckManager
    <3>1. io_faults' = io_faults /\ run' = "udp"
      BY <2>2 DEF JoinAckManager
    <3>2. running' \in BOOLEAN
      BY <2>2, Zenon DEF JoinAckManager
    <3> QED BY <1>1, <3>1, <3>2
  <2>3. CASE AckManagerFails
    BY <1>1, <2>1, <2>3 DEF AckManagerFails, IoFault, udpVars
  <2>4. CASE JoinUdp \/ JoinWorkers
    BY <1>1, <2>1, <2>4 DEF JoinUdp, JoinWorkers, udpVars
  <2>5. CASE JoinWriter
    <3>1. writer # "run" /\ run' = writer
      BY <2>5 DEF JoinWriter
    <3>2. io_faults' = io_faults /\ running' = running
      BY <2>5 DEF JoinWriter, udpVars
    <3> QED BY <1>1, <2>1, <3>1, <3>2
  <2> QED BY <2>2, <2>3, <2>4, <2>5 DEF Joins
<1>4. RpTypeOK'
  BY <1>0, <1>2, <1>3 DEF RpTypeOK, Context
<1>5. JobsMatch'
  BY <1>1, <1>2 DEF JobsMatch
<1>6. WriterGood'
  <2>1. InWorkersHand' = InWorkersHand /\ \A w \in Workers : Gone(w) => Gone(w)'
    BY <1>2 DEF InWorkersHand, Gone
  <2> QED BY <1>1, <1>2, <2>1, WriterSideSame DEF writerVars
<1>7. run' = "err" => io_faults' > 0 \/ next_chunk = TotalChunks
  BY <1>1 DEF Joins, JoinAckManager, AckManagerFails, JoinUdp, JoinWorkers, JoinWriter, IoFault,
              ErrorsGood
<1>8. ErrorsGood'
  BY <1>1, <1>2, <1>3, <1>7 DEF ErrorsGood
<1>9. RunGood'
  <2>1. CASE JoinAckManager
    BY <1>1, <1>2, <2>1 DEF JoinAckManager, RunGood, AckManagerDone
  <2>2. CASE AckManagerFails \/ JoinUdp
    BY <1>1, <1>2, <2>2 DEF AckManagerFails, JoinUdp, RunGood, AckManagerDone, udpVars
  <2>3. CASE JoinWorkers
    BY <1>1, <1>2, <2>3 DEF JoinWorkers, RunGood, AckManagerDone, udpVars
  <2>4. CASE JoinWriter
    <3>1. writer # "run" /\ run' = writer /\ run = "writer" /\ writer \in {"run", "ok", "err"}
      BY <1>0, <2>4 DEF JoinWriter, RpTypeOK
    <3>2. running' = running
      BY <2>4 DEF JoinWriter, udpVars
    <3> QED BY <1>1, <1>2, <3>1, <3>2 DEF RunGood, AckManagerDone
  <2> QED BY <2>1, <2>2, <2>3, <2>4 DEF Joins
<1> QED BY <1>4, <1>5, <1>6, <1>8, <1>9 DEF ThreadsGood

(* Steps that move no thread: the ack manager's own, the clock, the peer   *)
(* and the path.                                                           *)
LEMMA OthersKeepThreads ==
  ASSUME ThreadsGood, Context, AckManager \/ Clock \/ Peer \/ Path \/ UNCHANGED rpVars
  PROVE  ThreadsGood'
<1>0. RpTypeOK
  BY DEF ThreadsGood
<1>1. JobsMatch /\ WriterGood /\ ErrorsGood /\ RunGood
  BY DEF ThreadsGood
<1>2. UNCHANGED <<running, udp, udp_packet, packets, worker, job, write_queue, writer, pending,
                  next_chunk, run, io_faults>>
  BY DEF AckManager, Clock, Peer, Path, rpVars, threadVars, udpVars, workerVars, writerVars,
         queueVars
<1>3. verified' = verified
  BY DEF AckManager, Clock, Peer, Path, rpVars, trackerVars, R!AckPoll, R!AckComplete,
         R!AckGiveUp, R!AckMissing, R!AckRemove, R!StartCheck, R!RcvTick, R!PeerAnswer,
         R!LoseAny, R!rcvVars
<1>4. running \/ UNCHANGED <<ready, closing, ack_completed>>
  <2>1. AckManager => running
    BY <1>1 DEF AckManager, RunGood
  <2>2. Clock \/ Peer \/ Path \/ UNCHANGED rpVars => UNCHANGED <<ready, closing, ack_completed>>
    BY DEF Clock, Peer, Path, rpVars, ackMgrVars, R!RcvTick, R!PeerAnswer, R!LoseAny, R!rcvVars,
           R!ackVars
  <2> QED BY <2>1, <2>2
<1>5. RpTypeOK'
  BY <1>0, <1>2 DEF RpTypeOK, Context
<1>6. JobsMatch' /\ ErrorsGood'
  BY <1>1, <1>2 DEF JobsMatch, ErrorsGood
<1>7. WriterGood'
  <2>1. InWorkersHand' = InWorkersHand /\ \A w \in Workers : Gone(w) => Gone(w)'
    BY <1>2 DEF InWorkersHand, Gone
  <2> QED BY <1>1, <1>2, <1>3, <2>1, WriterSideSame DEF writerVars
<1>8. RunGood'
  BY <1>1, <1>2, <1>4 DEF RunGood, AckManagerDone
<1> QED BY <1>5, <1>6, <1>7, <1>8 DEF ThreadsGood

-------------------------------------------------------------------------------
(* The invariant. *)

LEMMA RpInitInv ==
  ASSUME RpInit
  PROVE  RpInv
<1>1. /\ running = TRUE /\ udp = "recv" /\ udp_packet = {} /\ packets = <<>>
      /\ worker = [w \in Workers |-> "recv"] /\ job = [w \in Workers |-> {}]
      /\ write_queue = <<>> /\ writer = "run" /\ pending = {} /\ next_chunk = 0
      /\ run = "ack" /\ io_faults = 0 /\ R!RxInit
  BY DEF RpInit
<1>2. T!RcvInv /\ T!WireTypeOK
  BY <1>1, SameTracker, TrackerAssumptions, T!RxInitInv
<1>3. verified = {} /\ faults = 0
  BY <1>1 DEF R!RxInit, R!RcvInit
<1>4. /\ TotalChunks \in Nat /\ MaxFaults \in Nat /\ ChannelCapacity \in Nat
  BY WireAssumption, ReceiverPipelineAssumption DEF FitsWord
<1>5. RpTypeOK
  <2>1. packets \in Seq(Datagrams) /\ write_queue \in Seq(ChunkIds) /\ Len(<<>>) = 0
    BY <1>1, EmptySeq
  <2> QED BY <1>1, <1>3, <1>4, <2>1, FS_EmptySet DEF RpTypeOK
<1>6. JobsMatch /\ ErrorsGood /\ RunGood
  BY <1>1 DEF JobsMatch, ErrorsGood, RunGood
<1>7. Kept = {}
  BY <1>1, EmptySeq DEF Kept, InWriteQueue, InWorkersHand
<1>8. WriterGood
  BY <1>1, <1>3, <1>7 DEF WriterGood, VerifiedIsKept
<1> QED BY <1>2, <1>5, <1>6, <1>8 DEF RpInv

LEMMA RpStepInv ==
  ASSUME RpInv, [RpNext]_rpVars
  PROVE  RpInv'
<1>1. /\ ThreadsGood /\ T!RcvInv /\ T!WireTypeOK
      /\ RpTypeOK /\ JobsMatch /\ RunGood
  BY DEF RpInv, ThreadsGood
<1>2. T!RcvInv' /\ T!WireTypeOK'
  BY <1>1, TrackerKept
<1>3. Context
  <2>1. faults' \in 0 .. MaxFaults
    BY <1>2 DEF T!WireTypeOK
  <2>2. faults' + io_faults' <= MaxFaults
    BY <1>1 DEF RpNext, rpVars, threadVars, wireVars, RpTypeOK
  <2> QED BY <1>1, <2>1, <2>2 DEF Context
<1>4. ThreadsGood'
  BY <1>1, <1>3, UdpKeepsThreads, WorkerKeepsThreads, WriterKeepsThreads, JoinsKeepThreads,
     OthersKeepThreads DEF RpNext
<1> QED BY <1>2, <1>4 DEF RpInv, ThreadsGood

(* The inductive invariant holds of every behaviour of the receiver's      *)
(* threads.                                                                *)
THEOREM RpInvariance == RpSpec => []RpInv
<1>1. RpInit => RpInv
  BY RpInitInv
<1>2. RpInv /\ [RpNext]_rpVars => RpInv'
  BY RpStepInv
<1> QED BY <1>1, <1>2, PTL DEF RpSpec

(* The types of the threads and channels; the channels stay within their   *)
(* capacity.                                                               *)
THEOREM RpTypeCorrect == RpSpec => []RpTypeOK
<1>1. RpInv => RpTypeOK
  BY DEF RpInv
<1> QED BY <1>1, RpInvariance, PTL

(* What a worker has verified reaches the file, whatever order the threads *)
(* leave in, unless the writer fails.                                      *)
THEOREM NoVerifiedChunkLost == RpSpec => []VerifiedIsKept
<1>1. RpInv => VerifiedIsKept
  BY DEF RpInv, WriterGood
<1> QED BY <1>1, RpInvariance, PTL

(* When run returns Ok, nobody holds a chunk that is not in the file: a    *)
(* hole is the hole of a block that was given up.                          *)
LEMMA OkHasNoHole ==
  ASSUME RpInv
  PROVE  OkMeansWritten
<1> SUFFICES ASSUME run = "ok"
             PROVE  /\ 0 .. next_chunk - 1 \subseteq verified
                    /\ next_chunk < TotalChunks =>
                         /\ next_chunk \notin verified
                         /\ block_of(next_chunk)[1] \in gave_up
  BY DEF OkMeansWritten
<1>1. /\ RpTypeOK /\ JobsMatch /\ WriterGood /\ RunGood /\ T!RcvInv /\ T!WireTypeOK
      /\ next_chunk \in 0 .. TotalChunks /\ TotalChunks \in Nat
  BY WireAssumption DEF RpInv, RpTypeOK, FitsWord
<1>2. Kept \subseteq verified /\ next_chunk \notin pending
  BY <1>1 DEF WriterGood
<1>3. 0 .. next_chunk - 1 \subseteq verified
  BY <1>2 DEF Kept
<1>4. ASSUME next_chunk < TotalChunks
      PROVE  next_chunk \notin verified /\ block_of(next_chunk)[1] \in gave_up
  <2>1. writer = "ok" /\ udp = "ok" /\ \A w \in Workers : worker[w] = "ok"
    BY <1>1 DEF RunGood
  <2>2. write_queue = <<>>
    BY <1>1, <1>4, <2>1 DEF WriterGood
  <2>3. InWorkersHand = {} /\ InWriteQueue = {}
    BY <2>1, <2>2, EmptySeq DEF InWorkersHand, InWriteQueue
  <2>4. verified \subseteq (0 .. next_chunk - 1) \cup pending
    BY <1>1, <2>1, <2>3 DEF WriterGood, VerifiedIsKept
  <2>5. next_chunk \notin verified
    BY <1>1, <1>2, <2>4
  <2>6. next_chunk \in ChunkIds
    BY <1>1, <1>4 DEF ChunkIds, Chunks
  <2>7. rx_completed = BlockIds
    BY <1>1, <2>1, TrackerFacts
  <2>8. block_of(next_chunk)[1] \in gave_up
    BY <1>1, <2>5, <2>6, <2>7, FrameFacts, TrackerFacts
  <2> QED BY <2>5, <2>8
<1> QED BY <1>3, <1>4

(* A file that run reports as received is right up to a block that was     *)
(* given up.                                                               *)
THEOREM OkIsHonest == RpSpec => []OkMeansWritten
<1>1. RpInv => OkMeansWritten
  BY OkHasNoHole
<1> QED BY <1>1, RpInvariance, PTL

(* An error that run returns has a cause: an I/O error, or a complete file *)
(* whose writer did not wait for a late repeat.                            *)
THEOREM ErrIsHonest == RpSpec => []ErrHasCause
<1>1. RpInv => ErrHasCause
  BY DEF RpInv, ErrorsGood, ErrHasCause, RpTypeOK
<1> QED BY <1>1, RpInvariance, PTL

(* The threads implement the block tracker and its users: whatever holds   *)
(* of ReceiverState holds of the tracker inside the running receiver.      *)
THEOREM PipelineImplementsTracker == RpSpec => ImplementsReceiverState
<1>1. RpInit => R!RxInit
  BY DEF RpInit
<1>2. RpInv /\ [RpNext]_rpVars => [R!RxNext]_R!rxVars
  BY RpStepSimulates DEF RpInv
<1> QED BY <1>1, <1>2, RpInvariance, PTL DEF RpSpec, ImplementsReceiverState, R!RxSpec

(* SUCCESS without a block that was given up: every chunk of the file was  *)
(* verified and written, in order, to its end.                             *)
THEOREM CompleteUnlessGivenUp ==
  RpSpec => [](run = "ok" /\ gave_up = {} =>
                 next_chunk = TotalChunks /\ verified = ChunkIds)
<1>1. ASSUME RpInv, OkMeansWritten, run = "ok", gave_up = {}
      PROVE  next_chunk = TotalChunks /\ verified = ChunkIds
  <2>1. next_chunk \in 0 .. TotalChunks /\ TotalChunks \in Nat /\ verified \subseteq ChunkIds
    BY <1>1, WireAssumption, TrackerFacts DEF RpInv, RpTypeOK, FitsWord
  <2>2. next_chunk = TotalChunks
    BY <1>1, <2>1 DEF OkMeansWritten
  <2> QED BY <1>1, <2>1, <2>2 DEF OkMeansWritten, ChunkIds, Chunks
<1>2. RpInv /\ OkMeansWritten =>
        (run = "ok" /\ gave_up = {} => next_chunk = TotalChunks /\ verified = ChunkIds)
  BY <1>1
<1> QED BY <1>2, RpInvariance, OkIsHonest, PTL

===============================================================================
