--------------------------------- MODULE Wire ---------------------------------
(***************************************************************************)
(* What travels between the two peers (protocol.rs).                       *)
(*                                                                         *)
(*  - net:  how many copies of each UDP datagram are in flight.  They are  *)
(*          reordered freely, lost and duplicated.  Each loss, duplication *)
(*          or corruption is counted in faults and bounded by MaxFaults;   *)
(*          copies beyond MaxCopies merge with those in flight.            *)
(*  - acks: the BlockAck messages written by the receiver and not yet      *)
(*          handled by the sender's block manager, in order (TCP, then the *)
(*          ack relay).                                                    *)
(*                                                                         *)
(* TotalChunks is the chunk count both peers agreed on in the handshake.   *)
(* Payloads are left out: (block_id, packet_in_block) names the chunk.     *)
(***************************************************************************)
EXTENDS BlockArith, Sequences

CONSTANTS
  TotalChunks,  \* chunks of the file, announced by the sender as a u32
  MaxFaults,    \* bound on the faults of the UDP path
  MaxCopies     \* bound on the copies of one datagram in flight

ASSUME WireAssumption ==
  /\ FitsWord(TotalChunks)
  /\ MaxFaults \in Nat
  /\ MaxCopies \in Nat \ {0}

VARIABLES net, acks, faults

wireVars == <<net, acks, faults>>

TotalBlocks  == total_blocks(TotalChunks)
BlockIds     == Blocks(TotalChunks)
ChunkIds     == Chunks(TotalChunks)
PacketIds(b) == Packets(b, TotalChunks)
Total(b)     == packets_in_block(b, TotalChunks)

-------------------------------------------------------------------------------
(* Messages. *)

Data(b, p) == [tag |-> "DATA", block_id |-> b, packet_in_block |-> p]

BlockEnd(b, n) == [tag |-> "BLOCK_END", block_id |-> b, total_packets |-> n]

DataOf(b, ps) == {Data(b, p) : p \in ps}

Datagrams == UNION {DataOf(b, PacketIds(b)) \cup {BlockEnd(b, Total(b))} : b \in BlockIds}

Complete(b) == [tag |-> "COMPLETE", block_id |-> b]

Missing(b, ids) == [tag |-> "MISSING", block_id |-> b, missing |-> ids]

BlockAcks ==
  UNION {{Missing(b, ids) : ids \in SUBSET PacketIds(b)} \cup {Complete(b)} : b \in BlockIds}

-------------------------------------------------------------------------------
(* The UDP path.  Receive(d) hands one copy of d to the receiving socket;  *)
(* the network may have made another one.                                  *)

InFlight == {d \in Datagrams : net[d] > 0}

Send(ds) ==
  net' = [d \in Datagrams |-> IF d \in ds /\ net[d] < MaxCopies THEN net[d] + 1 ELSE net[d]]

Receive(d) ==
  /\ d \in InFlight
  /\ \/ /\ net' = [net EXCEPT ![d] = @ - 1]
        /\ UNCHANGED faults
     \/ /\ faults < MaxFaults
        /\ faults' = faults + 1
        /\ UNCHANGED net

Lose(d) ==
  /\ d \in InFlight
  /\ faults < MaxFaults
  /\ faults' = faults + 1
  /\ net' = [net EXCEPT ![d] = @ - 1]
  /\ UNCHANGED acks

(* How often x is in the channel s of one of the peers' threads. *)
Count(s, x) == Cardinality({i \in DOMAIN s : s[i] = x})

(* How many threads have x in hand, when thread w has the set h[w].        *)
InHand(h, x) == Cardinality({w \in DOMAIN h : x \in h[w]})

WireInit == net = [d \in Datagrams |-> 0] /\ acks = <<>> /\ faults = 0

WireTypeOK ==
  /\ net \in [Datagrams -> 0 .. MaxCopies]
  /\ acks \in Seq(BlockAcks)
  /\ faults \in 0 .. MaxFaults
===============================================================================
