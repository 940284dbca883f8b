------------------------------ MODULE BlockArith ------------------------------
(***************************************************************************)
(* The block <-> chunk id arithmetic of transport.rs, used by both peers.  *)
(* A file is a run of chunks 0 .. total_chunks-1, cut into blocks of       *)
(* PacketsPerBlock packets; the last block may be shorter.                 *)
(***************************************************************************)
EXTENDS Naturals, FiniteSets

CONSTANTS
  PacketsPerBlock,  \* config::PACKETS_PER_BLOCK (256)
  WordSize          \* number of values of a u32 (2^32; small in the runs)

ASSUME BlockArithAssumption ==
  /\ PacketsPerBlock \in Nat \ {0}
  /\ WordSize \in Nat \ {0}

(* (block_id, packet_in_block) of a chunk id. *)
block_of(chunk_id) ==
  <<chunk_id \div PacketsPerBlock, chunk_id % PacketsPerBlock>>

(* The inverse of block_of, computed in u32. *)
chunk_id_of(block_id, packet_in_block) ==
  (block_id * PacketsPerBlock + packet_in_block) % WordSize

(* Packets of block_id: u64 arithmetic, saturating_sub then min. *)
packets_in_block(block_id, total_chunks) ==
  LET start     == block_id * PacketsPerBlock
      remaining == IF total_chunks >= start THEN total_chunks - start ELSE 0
  IN  IF remaining <= PacketsPerBlock THEN remaining ELSE PacketsPerBlock

(* div_ceil in u64, then the cast to u32. *)
total_blocks(total_chunks) ==
  ((total_chunks + PacketsPerBlock - 1) \div PacketsPerBlock) % WordSize

(* Both casts to u32 are exact: what a total_chunks received as a u32      *)
(* guarantees.                                                             *)
FitsWord(total_chunks) == total_chunks \in Nat /\ total_chunks < WordSize

Blocks(total_chunks) == 0 .. total_blocks(total_chunks) - 1
Chunks(total_chunks) == 0 .. total_chunks - 1
Packets(block_id, total_chunks) == 0 .. packets_in_block(block_id, total_chunks) - 1
===============================================================================
