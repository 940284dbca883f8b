----------------------------- MODULE Wire_proofs ------------------------------
(***************************************************************************)
(* The blocks, packets and chunks of the file of a transfer: finite, in    *)
(* range, and in one-to-one correspondence; and what sending and receiving *)
(* change, on the network and on a channel between two threads.            *)
(* block_of and chunk_id_of are inverse bijections between the chunks of a *)
(* file and its (block, packet) frames, for every block size and every     *)
(* file whose chunk count fits a u32.                                      *)
(***************************************************************************)
EXTENDS Wire, Integers, TLAPS, FiniteSetTheorems, SequenceTheorems

-------------------------------------------------------------------------------
(* The arithmetic of BlockArith. *)

(* Division with remainder, for a symbolic divisor. *)
LEMMA DivMod ==
  ASSUME NEW c \in Nat, NEW P \in Nat \ {0}
  PROVE  /\ c \div P \in Nat
         /\ c % P \in 0 .. P-1
         /\ c = (c \div P) * P + (c % P)
  OBVIOUS

(* Quotient and remainder are determined by that equation. *)
LEMMA DivModUnique ==
  ASSUME NEW P \in Nat \ {0}, NEW q \in Nat, NEW r \in 0 .. P-1
  PROVE  /\ (q * P + r) \div P = q
         /\ (q * P + r) % P = r
  OBVIOUS

(* A value below the word size survives a cast to u32. *)
LEMMA CastExact ==
  ASSUME NEW x \in Nat, NEW W \in Nat \ {0}, x < W
  PROVE  x % W = x
  OBVIOUS

(* Multiplying by a positive factor is strictly monotonic. *)
LEMMA MulMono ==
  ASSUME NEW P \in Nat \ {0}, NEW a \in Nat, NEW b \in Nat
  PROVE  /\ a * P \in Nat
         /\ a < b => a * P + P <= b * P
         /\ a <= b => a * P <= b * P
  OBVIOUS

(* total_blocks is the exact ceiling: the blocks cover the file and the    *)
(* last one is not empty.                                                  *)
LEMMA TotalBlocksBounds ==
  ASSUME NEW t, FitsWord(t)
  PROVE  /\ total_blocks(t) \in Nat
         /\ t <= total_blocks(t) * PacketsPerBlock
         /\ total_blocks(t) * PacketsPerBlock < t + PacketsPerBlock
<1> DEFINE P == PacketsPerBlock
           x == t + P - 1
           q == x \div P
<1>1. P \in Nat \ {0} /\ WordSize \in Nat \ {0} /\ t \in Nat /\ t < WordSize
  BY BlockArithAssumption DEF FitsWord
<1>2. x \in Nat
  BY <1>1
<1> HIDE DEF x, P
<1>3. q \in Nat /\ x % P \in 0 .. P-1 /\ x = q * P + (x % P)
  BY <1>1, <1>2, DivMod
<1> HIDE DEF q
<1>4. q * P \in Nat /\ q * P <= x /\ x < q * P + P
  BY <1>1, <1>3, MulMono
<1>5. t <= q * P /\ q * P < t + P
  BY <1>1, <1>4 DEF x
<1>6. q <= t
  <2> SUFFICES ASSUME t < q PROVE FALSE
    BY <1>1, <1>3
  <2>1. t * P + P <= q * P
    BY <1>1, <1>3, MulMono
  <2>2. t <= t * P
    BY <1>1
  <2> QED BY <1>1, <1>3, <1>5, <2>1, <2>2, MulMono
<1>7. total_blocks(t) = q
  BY <1>1, <1>3, <1>6, CastExact DEF total_blocks, q, x, P
<1> QED BY <1>3, <1>5, <1>7 DEF P

(* packets_in_block: never negative, never more than a block, and exactly  *)
(* the chunks of the file that fall in the block.                          *)
LEMMA PacketsInBlockRange ==
  ASSUME NEW t \in Nat, NEW b \in Nat
  PROVE  /\ packets_in_block(b, t) \in 0 .. PacketsPerBlock
         /\ \A p \in Nat :
              p < packets_in_block(b, t)
                <=> p < PacketsPerBlock /\ b * PacketsPerBlock + p < t
  BY BlockArithAssumption DEF packets_in_block

(* Every chunk of the file has a frame: its block is one of the blocks of  *)
(* the file, its packet one of the packets of that block, and the frame    *)
(* gives the chunk id back (so decryption uses the counter that encryption *)
(* used).                                                                  *)
THEOREM FrameOfChunk ==
  ASSUME NEW t, FitsWord(t), NEW c \in Chunks(t)
  PROVE  LET f == block_of(c)
         IN  /\ f[1] \in Blocks(t)
             /\ f[2] \in Packets(f[1], t)
             /\ chunk_id_of(f[1], f[2]) = c
<1> DEFINE P == PacketsPerBlock
           b == c \div P
           p == c % P
<1>1. P \in Nat \ {0} /\ WordSize \in Nat \ {0}
      /\ t \in Nat /\ t < WordSize /\ c \in Nat /\ c < t
  BY BlockArithAssumption DEF FitsWord, Chunks
<1> HIDE DEF P
<1>2. b \in Nat /\ p \in 0 .. P-1 /\ c = b * P + p
  BY <1>1, DivMod
<1>3. block_of(c) = <<b, p>>
  BY DEF block_of, P
<1> HIDE DEF b, p
<1>4. p \in Packets(b, t)
  BY <1>1, <1>2, PacketsInBlockRange DEF Packets, P
<1>5. b \in Blocks(t)
  <2>1. /\ total_blocks(t) \in Nat
        /\ t <= total_blocks(t) * P
    BY TotalBlocksBounds DEF P
  <2>2. b * P <= c
    BY <1>1, <1>2, MulMono
  <2> SUFFICES ASSUME total_blocks(t) <= b PROVE FALSE
    BY <1>2, <2>1 DEF Blocks
  <2>3. total_blocks(t) * P <= b * P
    BY <1>1, <1>2, <2>1, MulMono
  <2> QED BY <1>1, <1>2, <2>1, <2>2, <2>3, MulMono
<1>6. chunk_id_of(b, p) = c
  BY <1>1, <1>2, CastExact DEF chunk_id_of, P
<1> QED BY <1>3, <1>4, <1>5, <1>6

(* Every frame of the file is the frame of one chunk of the file, and      *)
(* chunk_id_of does not overflow on it.                                    *)
THEOREM ChunkOfFrame ==
  ASSUME NEW t, FitsWord(t), NEW b \in Blocks(t), NEW p \in Packets(b, t)
  PROVE  /\ chunk_id_of(b, p) \in Chunks(t)
         /\ block_of(chunk_id_of(b, p)) = <<b, p>>
<1> DEFINE P == PacketsPerBlock
<1>1. P \in Nat \ {0} /\ WordSize \in Nat \ {0} /\ t \in Nat /\ t < WordSize
  BY BlockArithAssumption DEF FitsWord
<1>2. total_blocks(t) \in Nat
  BY TotalBlocksBounds
<1>3. b \in Nat
  BY <1>2 DEF Blocks
<1>4. p \in 0 .. P-1 /\ b * P + p < t
  BY <1>1, <1>3, PacketsInBlockRange DEF Packets
<1> HIDE DEF P
<1>5. b * P + p \in Nat
  BY <1>1, <1>3, <1>4, MulMono
<1>6. chunk_id_of(b, p) = b * P + p
  BY <1>1, <1>4, <1>5, CastExact DEF chunk_id_of, P
<1>7. block_of(b * P + p) = <<b, p>>
  BY <1>1, <1>3, <1>4, DivModUnique DEF block_of, P
<1> QED BY <1>1, <1>4, <1>5, <1>6, <1>7 DEF Chunks
-------------------------------------------------------------------------------
(* The file of a transfer. *)

(* The frames of the chunks of this file: block_of and chunk_id_of are     *)
(* inverse of each other on them.                                          *)
LEMMA FrameFacts ==
  /\ \A c \in ChunkIds :
       /\ block_of(c)[1] \in BlockIds
       /\ block_of(c)[2] \in PacketIds(block_of(c)[1])
       /\ chunk_id_of(block_of(c)[1], block_of(c)[2]) = c
  /\ \A b \in BlockIds : \A p \in PacketIds(b) :
       /\ chunk_id_of(b, p) \in ChunkIds
       /\ block_of(chunk_id_of(b, p)) = <<b, p>>
<1>1. FitsWord(TotalChunks)
  BY WireAssumption
<1>2. ASSUME NEW c \in Chunks(TotalChunks)
      PROVE  /\ block_of(c)[1] \in Blocks(TotalChunks)
             /\ block_of(c)[2] \in Packets(block_of(c)[1], TotalChunks)
             /\ chunk_id_of(block_of(c)[1], block_of(c)[2]) = c
  BY <1>1, <1>2, FrameOfChunk
<1>3. ASSUME NEW b \in Blocks(TotalChunks), NEW p \in Packets(b, TotalChunks)
      PROVE  /\ chunk_id_of(b, p) \in Chunks(TotalChunks)
             /\ block_of(chunk_id_of(b, p)) = <<b, p>>
  BY <1>1, <1>3, ChunkOfFrame
<1> QED BY <1>2, <1>3 DEF ChunkIds, BlockIds, PacketIds

(* The blocks of the file are finitely many and none exceeds the block     *)
(* size.                                                                   *)
LEMMA BlockFacts ==
  /\ TotalBlocks \in Nat
  /\ BlockIds \subseteq Nat
  /\ IsFiniteSet(BlockIds)
  /\ Cardinality(BlockIds) = TotalBlocks
  /\ PacketsPerBlock \in Nat \ {0}
  /\ \A b \in BlockIds :
       /\ Total(b) \in 0 .. PacketsPerBlock
       /\ PacketIds(b) \subseteq 0 .. PacketsPerBlock - 1
       /\ IsFiniteSet(PacketIds(b))
       /\ Cardinality(PacketIds(b)) = Total(b)
<1>1. TotalChunks \in Nat /\ FitsWord(TotalChunks) /\ PacketsPerBlock \in Nat \ {0}
  BY WireAssumption, BlockArithAssumption DEF FitsWord
<1>2. total_blocks(TotalChunks) \in Nat
  BY <1>1, TotalBlocksBounds
<1>3. BlockIds = 0 .. TotalBlocks - 1 /\ TotalBlocks \in Nat
  BY <1>2 DEF BlockIds, Blocks, TotalBlocks
<1>4. IsFiniteSet(BlockIds) /\ Cardinality(BlockIds) = TotalBlocks
  BY <1>3, FS_Interval
<1>5. ASSUME NEW b \in BlockIds
      PROVE  /\ Total(b) \in 0 .. PacketsPerBlock
             /\ PacketIds(b) \subseteq 0 .. PacketsPerBlock - 1
             /\ IsFiniteSet(PacketIds(b))
             /\ Cardinality(PacketIds(b)) = Total(b)
  <2>1. b \in Nat
    BY <1>3
  <2>2. Total(b) \in 0 .. PacketsPerBlock
    BY <1>1, <2>1, PacketsInBlockRange DEF Total
  <2>3. PacketIds(b) = 0 .. Total(b) - 1
    BY DEF PacketIds, Packets, Total
  <2>4. /\ 0 \in Int /\ Total(b) - 1 \in Int
        /\ Total(b) = IF 0 > Total(b) - 1 THEN 0 ELSE Total(b) - 1 - 0 + 1
    BY <1>1, <2>2
  <2>5. IsFiniteSet(PacketIds(b)) /\ Cardinality(PacketIds(b)) = Total(b)
    <3> DEFINE k == Total(b) - 1
    <3>1. /\ IsFiniteSet(0 .. k)
          /\ Cardinality(0 .. k) = IF 0 > k THEN 0 ELSE k - 0 + 1
      BY <2>4, FS_Interval
    <3> QED BY <2>3, <2>4, <3>1
  <2> QED BY <1>1, <2>2, <2>3, <2>5
<1> QED BY <1>1, <1>3, <1>4, <1>5

(* As many packets of a block as it has are all of them. *)
LEMMA FullBlock ==
  ASSUME NEW b \in BlockIds, NEW S, S \subseteq PacketIds(b), Cardinality(S) = Total(b)
  PROVE  S = PacketIds(b)
<1>1. IsFiniteSet(PacketIds(b)) /\ Cardinality(PacketIds(b)) = Total(b)
  BY BlockFacts
<1>2. \A U \in SUBSET PacketIds(b) : Cardinality(U) = Total(b) => U = PacketIds(b)
  BY <1>1, FS_Subset
<1> QED BY <1>2

(* No block of the file is empty. *)
LEMMA BlockNotEmpty ==
  ASSUME NEW b \in BlockIds
  PROVE  Total(b) \in 1 .. PacketsPerBlock /\ PacketIds(b) = 0 .. Total(b) - 1
<1> DEFINE P == PacketsPerBlock
           n == total_blocks(TotalChunks)
<1>1. P \in Nat \ {0} /\ TotalChunks \in Nat /\ FitsWord(TotalChunks)
  BY WireAssumption, BlockArithAssumption DEF FitsWord
<1>2. n \in Nat /\ n * P < TotalChunks + P
  BY <1>1, TotalBlocksBounds
<1>3. b \in Nat /\ b < n
  BY <1>2 DEF BlockIds, Blocks
<1> HIDE DEF P, n
<1>4. b * P \in Nat /\ b * P + P <= n * P /\ n * P \in Nat
  BY <1>1, <1>2, <1>3, MulMono
<1>5. b * P + 0 < TotalChunks
  BY <1>1, <1>2, <1>4
<1>6. 0 < Total(b) /\ Total(b) \in 0 .. P
  BY <1>1, <1>3, <1>5, PacketsInBlockRange DEF Total, P
<1> QED BY <1>1, <1>6 DEF P, PacketIds, Packets, Total

-------------------------------------------------------------------------------
(* A set of numbers that is not empty has a least element.                 *)
LEMMA LeastElement ==
  ASSUME NEW S, S \subseteq Nat, S # {}
  PROVE  \E n \in S : \A k \in S : n <= k
<1> DEFINE below(n) == 0 .. n
           T == {below(n) : n \in S}
<1>1. T \subseteq FiniteSubsetsOf(Nat)
  <2>1. ASSUME NEW n \in S PROVE below(n) \subseteq Nat /\ IsFiniteSet(below(n))
    BY FS_Interval
  <2> QED BY <2>1 DEF FiniteSubsetsOf
<1>2. T # {}
  OBVIOUS
<1>3. IsWellFoundedOn(StrictSubsetOrdering(Nat), FiniteSubsetsOf(Nat))
  BY FS_StrictSubsetOrderingWellFounded
<1> HIDE DEF T
<1>4. PICK x \in T : \A y \in T : <<y, x>> \notin StrictSubsetOrdering(Nat)
  BY <1>1, <1>2, <1>3, WFMin
<1> USE DEF T
<1>5. PICK n \in S : x = below(n)
  OBVIOUS
<1>6. ASSUME NEW k \in S, k < n PROVE FALSE
  <2>1. /\ below(k) \in T /\ below(k) \in SUBSET Nat /\ below(n) \in SUBSET Nat
        /\ below(k) \subseteq below(n)
        /\ n \in below(n) /\ n \notin below(k)
    BY <1>6
  <2>2. <<below(k), below(n)>> \in StrictSubsetOrdering(Nat)
    BY <2>1 DEF StrictSubsetOrdering
  <2> QED BY <1>4, <1>5, <2>1, <2>2
<1> QED BY <1>6

-------------------------------------------------------------------------------
(* The network keeps its type whatever is sent. *)
LEMMA SendType ==
  ASSUME NEW ds, net \in [Datagrams -> 0 .. MaxCopies], Send(ds)
  PROVE  net' \in [Datagrams -> 0 .. MaxCopies]
  BY WireAssumption DEF Send

(* Sending adds the datagrams sent to those in flight, and no other. *)
LEMMA SendFacts ==
  ASSUME WireTypeOK, NEW ds, Send(ds)
  PROVE  /\ InFlight \subseteq InFlight'
         /\ ds \cap Datagrams \subseteq InFlight'
         /\ InFlight' \subseteq InFlight \cup ds
<1>1. ASSUME NEW d \in Datagrams
      PROVE  /\ net[d] \in 0 .. MaxCopies /\ MaxCopies \in Nat \ {0}
             /\ net'[d] = IF d \in ds /\ net[d] < MaxCopies THEN net[d] + 1 ELSE net[d]
  BY WireAssumption DEF Send, WireTypeOK
<1>2. ASSUME NEW d \in Datagrams
      PROVE  /\ net[d] > 0 => net'[d] > 0
             /\ d \in ds => net'[d] > 0
             /\ d \notin ds => net'[d] = net[d]
  BY <1>1
<1> QED BY <1>2 DEF InFlight

(* Data packets and block ends are different datagrams, and name the block *)
(* they belong to.                                                         *)
LEMMA DatagramFacts ==
  ASSUME NEW b \in BlockIds
  PROVE  /\ DataOf(b, PacketIds(b)) \subseteq Datagrams
         /\ \A x, n, ps : BlockEnd(x, n) \notin DataOf(b, ps)
         /\ \A x, n, k : BlockEnd(x, n) = BlockEnd(b, k) => x = b
         /\ \A ps, qs : ps \subseteq qs => DataOf(b, ps) \subseteq DataOf(b, qs)
         /\ \A ps, qs : DataOf(b, ps \cup qs) = DataOf(b, ps) \cup DataOf(b, qs)
         /\ DataOf(b, {}) = {}
<1>1. DataOf(b, PacketIds(b)) \subseteq Datagrams
  BY DEF Datagrams
<1>2. ASSUME NEW x, NEW n, NEW ps PROVE BlockEnd(x, n) \notin DataOf(b, ps)
  <2> SUFFICES ASSUME NEW p, BlockEnd(x, n) = Data(b, p) PROVE FALSE
    BY DEF DataOf
  <2>1. BlockEnd(x, n).tag = "BLOCK_END" /\ Data(b, p).tag = "DATA"
    BY DEF BlockEnd, Data
  <2> QED BY <2>1
<1>3. ASSUME NEW x, NEW n, NEW k, BlockEnd(x, n) = BlockEnd(b, k) PROVE x = b
  <2>1. BlockEnd(x, n).block_id = x /\ BlockEnd(b, k).block_id = b
    BY DEF BlockEnd
  <2> QED BY <1>3, <2>1
<1>4. /\ \A ps, qs : ps \subseteq qs => DataOf(b, ps) \subseteq DataOf(b, qs)
      /\ \A ps, qs : DataOf(b, ps \cup qs) = DataOf(b, ps) \cup DataOf(b, qs)
      /\ DataOf(b, {}) = {}
  BY DEF DataOf
<1> QED BY <1>1, <1>2, <1>3, <1>4

(* What a received datagram says of the block it names. *)
LEMMA DatagramTypes ==
  ASSUME NEW d \in Datagrams
  PROVE  /\ d.block_id \in BlockIds
         /\ d.tag = "DATA" => d.packet_in_block \in PacketIds(d.block_id)
         /\ d.tag = "BLOCK_END" => d.total_packets = Total(d.block_id)
<1>1. PICK b \in BlockIds : d \in DataOf(b, PacketIds(b)) \cup {BlockEnd(b, Total(b))}
  BY DEF Datagrams
<1>2. CASE d \in DataOf(b, PacketIds(b))
  <2>1. PICK p \in PacketIds(b) : d = [tag |-> "DATA", block_id |-> b, packet_in_block |-> p]
    BY <1>2 DEF DataOf, Data
  <2>2. d.tag = "DATA" /\ d.block_id = b /\ d.packet_in_block = p
    BY <2>1
  <2> QED BY <2>2
<1>3. CASE d = BlockEnd(b, Total(b))
  <2>1. d.tag = "BLOCK_END" /\ d.block_id = b /\ d.total_packets = Total(b)
    BY <1>3 DEF BlockEnd
  <2> QED BY <2>1
<1> QED BY <1>1, <1>2, <1>3

(* The acks the receiver writes. *)
LEMMA AckTypes ==
  /\ \A b \in BlockIds : /\ Complete(b) \in BlockAcks
                        /\ \A ids \in SUBSET PacketIds(b) : Missing(b, ids) \in BlockAcks
  /\ \A a \in BlockAcks : a.block_id \in BlockIds
<1>1. \A b \in BlockIds : /\ Complete(b) \in BlockAcks
                        /\ \A ids \in SUBSET PacketIds(b) : Missing(b, ids) \in BlockAcks
  BY DEF BlockAcks
<1>2. ASSUME NEW a \in BlockAcks PROVE a.block_id \in BlockIds
  BY DEF BlockAcks, Complete, Missing
<1> QED BY <1>1, <1>2

(* Receiving a datagram takes a copy of it, or leaves it where it is. *)
LEMMA ReceiveType ==
  ASSUME NEW d, net \in [Datagrams -> 0 .. MaxCopies], faults \in 0 .. MaxFaults, Receive(d)
  PROVE  /\ d \in Datagrams
         /\ net' \in [Datagrams -> 0 .. MaxCopies]
         /\ faults' \in 0 .. MaxFaults
<1>1. d \in Datagrams /\ net[d] \in 1 .. MaxCopies
  BY WireAssumption DEF Receive, InFlight
<1> QED BY <1>1, WireAssumption DEF Receive

(* So does the loss of one. *)
LEMMA LoseType ==
  ASSUME WireTypeOK, NEW d, Lose(d)
  PROVE  WireTypeOK'
<1>1. d \in Datagrams /\ net[d] \in 1 .. MaxCopies /\ faults \in 0 .. MaxFaults
  BY WireAssumption DEF Lose, InFlight, WireTypeOK
<1>2. faults' \in 0 .. MaxFaults
  BY <1>1, WireAssumption DEF Lose
<1>3. net' \in [Datagrams -> 0 .. MaxCopies]
  BY <1>1, WireAssumption DEF Lose, WireTypeOK
<1> QED BY <1>2, <1>3 DEF Lose, WireTypeOK

-------------------------------------------------------------------------------
(* Channels. *)

(* What is in a channel, when something is sent and when it is received.   *)
LEMMA ElementsFacts ==
  ASSUME NEW S, NEW s \in Seq(S)
  PROVE  LET elements(t) == {t[i] : i \in DOMAIN t}
         IN  /\ elements(s) \subseteq S
             /\ \A e \in S : elements(Append(s, e)) = elements(s) \cup {e}
             /\ s # <<>> => elements(s) = elements(Tail(s)) \cup {Head(s)}
             /\ s = <<>> => elements(s) = {}
<1> DEFINE elements(t) == {t[i] : i \in DOMAIN t}
<1>1. Len(s) \in Nat /\ DOMAIN s = 1 .. Len(s)
  BY LenProperties
<1>2. elements(s) \subseteq S
  BY ElementOfSeq, <1>1
<1>3. ASSUME NEW e \in S PROVE elements(Append(s, e)) = elements(s) \cup {e}
  <2>1. /\ Append(s, e) \in Seq(S) /\ Len(Append(s, e)) = Len(s) + 1
        /\ \A i \in 1 .. Len(s) : Append(s, e)[i] = s[i]
        /\ Append(s, e)[Len(s) + 1] = e
    BY AppendProperties
  <2>2. DOMAIN Append(s, e) = 1 .. Len(s) + 1
    BY <2>1
  <2>3. 1 .. Len(s) + 1 = (1 .. Len(s)) \cup {Len(s) + 1}
    BY <1>1
  <2> QED BY <1>1, <2>1, <2>2, <2>3
<1>4. ASSUME s # <<>> PROVE elements(s) = elements(Tail(s)) \cup {Head(s)}
  <2> DEFINE t == Tail(s)
  <2>1. /\ t \in Seq(S) /\ Len(t) = Len(s) - 1
        /\ \A i \in 1 .. Len(t) : t[i] = s[i + 1]
    BY <1>4, HeadTailProperties
  <2>2. Len(s) \in Nat \ {0} /\ Head(s) = s[1] /\ DOMAIN t = 1 .. Len(s) - 1
    BY <1>4, <2>1, EmptySeq, LenProperties
  <2> HIDE DEF t
  <2>3. elements(s) \subseteq elements(t) \cup {Head(s)}
    <3> SUFFICES ASSUME NEW i \in 1 .. Len(s)
                 PROVE  s[i] \in elements(t) \cup {Head(s)}
      BY <1>1
    <3>1. CASE i = 1
      BY <2>2, <3>1
    <3>2. CASE i # 1
      <4>1. i - 1 \in 1 .. Len(s) - 1 /\ (i - 1) + 1 = i
        BY <2>2, <3>2
      <4>2. t[i - 1] = s[i]
        BY <2>1, <4>1
      <4> QED BY <2>2, <4>1, <4>2
    <3> QED BY <3>1, <3>2
  <2>4. elements(t) \cup {Head(s)} \subseteq elements(s)
    BY <1>1, <2>1, <2>2
  <2> QED BY <2>3, <2>4 DEF t
<1>5. s = <<>> => elements(s) = {}
  BY EmptySeq
<1> QED BY <1>2, <1>3, <1>4, <1>5

(* The positions of x in a channel are finitely many. *)
LEMMA CountFacts ==
  ASSUME NEW S, NEW s \in Seq(S), NEW x
  PROVE  /\ IsFiniteSet({i \in DOMAIN s : s[i] = x})
         /\ Count(s, x) \in Nat
         /\ s = <<>> => Count(s, x) = 0
         /\ \A i \in DOMAIN s : s[i] = x => Count(s, x) > 0
<1> DEFINE P == {i \in DOMAIN s : s[i] = x}
<1>1. IsFiniteSet(DOMAIN s) /\ P \in SUBSET DOMAIN s
  <2>1. Len(s) \in Nat /\ DOMAIN s = 1 .. Len(s)
    OBVIOUS
  <2> QED BY <2>1, FS_Interval
<1>2. IsFiniteSet(P)
  BY <1>1, FS_Subset
<1>3. Cardinality(P) \in Nat /\ (Cardinality(P) = 0 <=> P = {})
  BY <1>2, FS_CardinalityType, FS_EmptySet
<1>4. /\ s = <<>> => P = {}
      /\ \A i \in DOMAIN s : s[i] = x => P # {}
  OBVIOUS
<1>5. Count(s, x) = Cardinality(P)
  BY DEF Count
<1> HIDE DEF P
<1>6. /\ s = <<>> => Count(s, x) = 0
      /\ \A i \in DOMAIN s : s[i] = x => Count(s, x) > 0
  BY <1>3, <1>4, <1>5
<1> QED BY <1>2, <1>3, <1>5, <1>6 DEF P

(* Sending counts one more of what is sent. *)
LEMMA CountAppend ==
  ASSUME NEW S, NEW s \in Seq(S), NEW e, NEW x
  PROVE  Count(Append(s, e), x) = Count(s, x) + (IF e = x THEN 1 ELSE 0)
<1> DEFINE n == Len(s) + 1
           P == {i \in DOMAIN s : s[i] = x}
           Q == {i \in DOMAIN Append(s, e) : Append(s, e)[i] = x}
<1>1. /\ Len(s) \in Nat /\ DOMAIN s = 1 .. Len(s)
      /\ DOMAIN Append(s, e) = 1 .. n
      /\ \A i \in 1 .. n : Append(s, e)[i] = IF i = n THEN e ELSE s[i]
  <2>1. s \in Seq(S \cup {e}) /\ e \in S \cup {e}
    BY SeqMonotonic
  <2>2. /\ Append(s, e) \in Seq(S \cup {e}) /\ Len(Append(s, e)) = Len(s) + 1
        /\ \A i \in 1 .. Len(s) : Append(s, e)[i] = s[i]
        /\ Append(s, e)[Len(s) + 1] = e
    BY <2>1, AppendProperties
  <2> QED BY <2>2
<1>2. Q = IF e = x THEN P \cup {n} ELSE P
  BY <1>1
<1>3. n \notin P
  BY <1>1
<1>4. IsFiniteSet(P) /\ Cardinality(P) \in Nat
  BY CountFacts DEF Count
<1> HIDE DEF n, P, Q
<1>5. Cardinality(Q) = Cardinality(P) + (IF e = x THEN 1 ELSE 0)
  <2>1. Cardinality(P \cup {n}) = Cardinality(P) + 1
    BY <1>3, <1>4, FS_AddElement
  <2>2. CASE e = x
    BY <1>2, <2>1, <2>2
  <2>3. CASE e # x
    BY <1>2, <1>4, <2>3
  <2> QED BY <2>2, <2>3
<1> QED BY <1>5 DEF Count, P, Q

(* Receiving takes one of what is at the head. *)
LEMMA CountTail ==
  ASSUME NEW S, NEW s \in Seq(S), s # <<>>, NEW x
  PROVE  Count(s, x) = Count(Tail(s), x) + (IF Head(s) = x THEN 1 ELSE 0)
<1> DEFINE t == Tail(s)
           P == {i \in DOMAIN s : s[i] = x}
           Q == {i \in DOMAIN t : t[i] = x}
           R == P \ {1}
<1>1. /\ Len(s) \in Nat \ {0} /\ DOMAIN s = 1 .. Len(s)
      /\ DOMAIN t = 1 .. Len(s) - 1
      /\ \A i \in 1 .. Len(s) - 1 : t[i] = s[i + 1]
      /\ Head(s) = s[1]
  <2>1. /\ t \in Seq(S) /\ Len(t) = Len(s) - 1
        /\ \A i \in 1 .. Len(t) : t[i] = s[i + 1]
    BY HeadTailProperties
  <2>2. Len(s) \in Nat \ {0} /\ Head(s) = s[1] /\ DOMAIN s = 1 .. Len(s)
    BY EmptySeq, LenProperties
  <2> QED BY <2>1, <2>2
<1>2. IsFiniteSet(P) /\ Cardinality(P) \in Nat
  BY CountFacts DEF Count
<1>3. Cardinality(Q) = Cardinality(R)
  <2> DEFINE f == [i \in Q |-> i + 1]
  <2> HIDE DEF t
  <2>1. f \in Bijection(Q, R)
    <3>1. \A i \in Q : i + 1 \in R
      BY <1>1
    <3>2. \A i, j \in Q : i + 1 = j + 1 => i = j
      BY <1>1
    <3>3. \A k \in R : k - 1 \in Q /\ f[k - 1] = k
      BY <1>1
    <3>4. f \in Injection(Q, R)
      BY <3>1, <3>2 DEF Injection, IsInjective
    <3>5. f \in Surjection(Q, R)
      BY <3>1, <3>3 DEF Surjection
    <3> QED BY <3>4, <3>5 DEF Bijection
  <2>2. IsFiniteSet(R)
    BY <1>2, FS_RemoveElement
  <2>3. IsFiniteSet(Q)
    BY <2>1, <2>2, FS_Injection DEF Bijection
  <2> QED BY <2>1, <2>3, FS_Bijection DEF ExistsBijection
<1>4. 1 \in P <=> Head(s) = x
  BY <1>1
<1> HIDE DEF t, P, Q, R
<1>5. Cardinality(R) = IF 1 \in P THEN Cardinality(P) - 1 ELSE Cardinality(P)
  BY <1>2, FS_RemoveElement DEF R
<1>6. Cardinality(P) = Cardinality(Q) + (IF Head(s) = x THEN 1 ELSE 0)
  <2>1. CASE Head(s) = x
    BY <1>2, <1>3, <1>4, <1>5, <2>1
  <2>2. CASE Head(s) # x
    BY <1>2, <1>3, <1>4, <1>5, <2>2
  <2> QED BY <2>1, <2>2
<1> QED BY <1>6 DEF Count, P, Q, t

(* How many of finitely many threads have x in hand; and that what one of  *)
(* them takes or lets go of changes it by one at most.                     *)
LEMMA InHandFacts ==
  ASSUME NEW h, IsFiniteSet(DOMAIN h), NEW x
  PROVE  /\ IsFiniteSet({w \in DOMAIN h : x \in h[w]})
         /\ InHand(h, x) \in Nat
         /\ \A w \in DOMAIN h : x \in h[w] => InHand(h, x) > 0
<1> DEFINE Had == {u \in DOMAIN h : x \in h[u]}
<1>1. Had \in SUBSET DOMAIN h
  OBVIOUS
<1>2. \A w \in DOMAIN h : x \in h[w] => Had # {}
  OBVIOUS
<1>3. InHand(h, x) = Cardinality(Had)
  BY DEF InHand
<1> HIDE DEF Had
<1>4. IsFiniteSet(Had)
  BY <1>1, FS_Subset
<1>5. InHand(h, x) \in Nat /\ (Had # {} => InHand(h, x) > 0)
  BY <1>3, <1>4, FS_CardinalityType, FS_EmptySet
<1> QED BY <1>2, <1>4, <1>5 DEF Had

LEMMA InHandChanges ==
  ASSUME NEW h, IsFiniteSet(DOMAIN h), NEW w \in DOMAIN h, NEW v, NEW x
  PROVE  InHand([h EXCEPT ![w] = v], x) + (IF x \in h[w] THEN 1 ELSE 0)
           = InHand(h, x) + (IF x \in v THEN 1 ELSE 0)
<1> DEFINE k == [h EXCEPT ![w] = v]
           Had == {u \in DOMAIN h : x \in h[u]}
           Has == {u \in DOMAIN k : x \in k[u]}
           Rest == Had \ {w}
<1>1. w \in Had <=> x \in h[w]
  OBVIOUS
<1>2. Has = IF x \in v THEN Rest \cup {w} ELSE Rest
  OBVIOUS
<1>3. InHand(h, x) = Cardinality(Had) /\ InHand(k, x) = Cardinality(Has)
  BY DEF InHand
<1>4. IsFiniteSet(Had) /\ Cardinality(Had) \in Nat
  BY InHandFacts DEF InHand
<1> HIDE DEF Had, Has, k
<1>5. /\ IsFiniteSet(Rest)
      /\ Cardinality(Rest) = IF x \in h[w] THEN Cardinality(Had) - 1 ELSE Cardinality(Had)
  BY <1>1, <1>4, FS_RemoveElement
<1>6. Cardinality(Has) = IF x \in v THEN Cardinality(Rest) + 1 ELSE Cardinality(Rest)
  BY <1>2, <1>5, FS_AddElement
<1>7. Cardinality(Has) + (IF x \in h[w] THEN 1 ELSE 0)
        = Cardinality(Had) + (IF x \in v THEN 1 ELSE 0)
  BY <1>4, <1>5, <1>6
<1> QED BY <1>3, <1>7 DEF k
===============================================================================
