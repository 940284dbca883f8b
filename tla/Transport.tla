------------------------------ MODULE Transport -------------------------------
(***************************************************************************)
(* A whole transfer after the handshake: the sender's block manager and    *)
(* the receiver's threads, joined by the UDP path (net) and the TCP        *)
(* control stream (acks).  Each peer has a clock of its own.               *)
(***************************************************************************)
EXTENDS BlockManager, ReceiverState

vars == <<sndVars, rcvVars, wireVars>>

Init == WireInit /\ SndInit /\ RcvInit

Sender   == SndNext /\ UNCHANGED rcvVars
Receiver == RcvNext /\ UNCHANGED sndVars
Network  == \E d \in InFlight : Lose(d) /\ UNCHANGED <<sndVars, rcvVars>>

(* Both peers are done: the manager returned and so did the ack manager.   *)
Finished ==
  /\ mgr = "ok"
  /\ ~running
  /\ UNCHANGED vars

Next == Sender \/ Receiver \/ Network \/ Finished

Spec == Init /\ [][Next]_vars

(* The manager's thread runs, every chunk reaches it and its timers fire.  *)
SndFairness ==
  /\ WF_mgrVars(DrainPending)
  /\ WF_mgrVars(\E c \in chunks : AdmitOrBuffer(c))
  /\ WF_mgrVars(OnMissing \/ OnComplete)
  /\ WF_mgrVars(RetransmitStale)
  /\ WF_mgrVars(SndTick)
  /\ WF_mgrVars(Return)

FairSpec == Spec /\ SndFairness /\ RcvFairness

-------------------------------------------------------------------------------
(* Properties. *)

(* Every ack that reaches the manager finds its block Open, and completes  *)
(* it at most once: the arms of block_manager_loop that warn of a          *)
(* duplicate Complete, or of one for a block never opened, are not taken.  *)
AcksWelcome ==
  \A i \in DOMAIN acks :
    /\ slot[acks[i].block_id] = "Open"
    /\ acks[i].tag = "COMPLETE" =>
         \A j \in DOMAIN acks : acks[j].block_id = acks[i].block_id => j <= i

(* The sender keeps the cache of every block the receiver may still ask    *)
(* for, and whatever the receiver lacks of a block it tracks can be        *)
(* resent or is still on its way to the manager.                           *)
RepairPossible ==
  \A b \in Tracked \ closing :
    /\ slot[b] = "Open"
    /\ \A p \in PacketIds(b) : p \in blk[b].cached \/ chunk_id_of(b, p) \in chunks

(* The sender resolves a block only after the receiver has decided on it;  *)
(* what it has not given up on is verified in full.                       *)
ResolvedIsVerified ==
  \A b \in ResolvedBlocks :
    /\ b \in rx_completed \cup closing
    /\ b \notin gave_up => \A p \in PacketIds(b) : chunk_id_of(b, p) \in verified

(* The receiver tracks at most one block beyond the pipeline depth: the    *)
(* one whose Complete is written and which is not yet removed.             *)
TrackedBounded == Cardinality(Tracked) <= PipelineDepth + Cardinality(closing)

(* Seen from outside, the two peers move one window over the file: the     *)
(* receiver decides on a block once, while the sender still has it open,   *)
(* and abandons it only with a chunk missing; the sender resolves it only  *)
(* after that, and opens another only then.                                *)
W == INSTANCE WindowedTransfer WITH
       Depth <- PipelineDepth, open <- OpenBlocks, resolved <- ResolvedBlocks,
       decided <- rx_completed \cup closing, delivered <- verified, abandoned <- gave_up

ImplementsWindowedTransfer == W!Spec

(* Nothing lost or damaged is beyond repair: the sender resolves every     *)
(* block and the receiver stops.                                           *)
TransferEnds == <>(mgr = "ok" /\ ~running)
===============================================================================
