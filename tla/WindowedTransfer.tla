--------------------------- MODULE WindowedTransfer ---------------------------
(***************************************************************************)
(* What the two peers promise each other and the user, without messages:   *)
(* a window of at most Depth open blocks moves over the file; the receiver *)
(* decides on every open block, because it has all of it or because it     *)
(* abandons it; only then the sender resolves the block and frees its      *)
(* place in the window.  Nothing is ever taken back.                       *)
(***************************************************************************)
EXTENDS BlockArith

CONSTANTS
  TotalChunks,  \* chunks of the file
  Depth         \* the size of the window

VARIABLES
  open,      \* blocks the sender holds to serve repairs
  resolved,  \* blocks the sender is done with
  decided,   \* blocks the receiver is done with
  delivered, \* chunks the receiver has verified
  abandoned  \* blocks the receiver has given up on

windowVars == <<open, resolved, decided, delivered, abandoned>>

Init ==
  /\ open = {}
  /\ resolved = {}
  /\ decided = {}
  /\ delivered = {}
  /\ abandoned = {}

Open(b) ==
  /\ b \notin open \cup resolved
  /\ Cardinality(open) < Depth
  /\ open' = open \cup {b}
  /\ UNCHANGED <<resolved, decided, delivered, abandoned>>

(* A chunk may still arrive after its block was abandoned. *)
Deliver(c) ==
  /\ block_of(c)[1] \in open \cup resolved
  /\ delivered' = delivered \cup {c}
  /\ UNCHANGED <<open, resolved, decided, abandoned>>

ChunksOf(b) == {chunk_id_of(b, p) : p \in Packets(b, TotalChunks)}

Decide(b) ==
  /\ b \in open \ decided
  /\ ChunksOf(b) \subseteq delivered
  /\ decided' = decided \cup {b}
  /\ UNCHANGED <<open, resolved, delivered, abandoned>>

Abandon(b) ==
  /\ b \in open \ decided
  /\ ~(ChunksOf(b) \subseteq delivered)
  /\ decided' = decided \cup {b}
  /\ abandoned' = abandoned \cup {b}
  /\ UNCHANGED <<open, resolved, delivered>>

Resolve(b) ==
  /\ b \in open \cap decided
  /\ open' = open \ {b}
  /\ resolved' = resolved \cup {b}
  /\ UNCHANGED <<decided, delivered, abandoned>>

Next ==
  \/ \E b \in Blocks(TotalChunks) : Open(b) \/ Decide(b) \/ Abandon(b) \/ Resolve(b)
  \/ \E c \in Chunks(TotalChunks) : Deliver(c)

Spec == Init /\ [][Next]_windowVars
===============================================================================
