--------------------------- MODULE Transport_proofs ---------------------------
(***************************************************************************)
(* The two peers together.  The invariant of each peer alone holds of the  *)
(* whole transfer, since each was proved for any behaviour of the other;   *)
(* what joins them is Decided: a Complete on its way, or one that has been *)
(* handled, is for a block the receiver has decided on.                    *)
(***************************************************************************)
EXTENDS Transport, BlockManager_proofs, ReceiverState_proofs

DecidedBlocks == rx_completed \cup closing

Decided ==
  /\ \A i \in DOMAIN acks : acks[i].tag = "COMPLETE" => acks[i].block_id \in DecidedBlocks
  /\ ResolvedBlocks \subseteq DecidedBlocks

TransferInv == IInv /\ RcvInv /\ Decided

(* IInv speaks of the manager's variables and of the types of the wire. *)
LEMMA PeerKeepsManager ==
  ASSUME IInv, UNCHANGED sndVars, WireTypeOK'
  PROVE  IInv'
<1>1. UNCHANGED <<chunks, slot, bucket, blk, open_slots, completed, ack_relay, mgr>>
  BY DEF sndVars, blockVars
<1>2. MgrTypeOK'
  BY <1>1 DEF IInv, MgrTypeOK, SndTypeOK
<1>3. SlotAccounting' /\ PendingMeansFull' /\ ReturnIsHonest'
  BY <1>1 DEF IInv, SlotAccounting, PendingMeansFull, ReturnIsHonest,
              OpenBlocks, ResolvedBlocks, PendingBlocks
<1>4. \A b \in BlockIds : Good(b, slot[b], bucket[b], blk[b], chunks)'
  BY <1>1 DEF IInv, Good
<1> QED BY <1>2, <1>3, <1>4 DEF IInv

(* The receiver never takes a decision back, and writes Complete only for  *)
(* the block it closes.                                                    *)
LEMMA ReceiverDecides ==
  ASSUME RcvInv, WireTypeOK, RcvNext
  PROVE  /\ DecidedBlocks \subseteq DecidedBlocks'
         /\ \/ acks' = acks
            \/ \E a : /\ acks' = Append(acks, a)
                      /\ a.tag = "COMPLETE" => a.block_id \in DecidedBlocks'
<1> USE DEF DecidedBlocks
<1>1. CASE RecvData \/ RecvBlockEnd \/ Verify \/ Reject
  <2>1. UNCHANGED <<rx_completed, closing, acks>>
    BY <1>1 DEF RecvData, RecvBlockEnd, Verify, Reject, TakePacket, touch_activity,
                mark_end_seen, mark_verified, Upsert, ackVars, trackVars
  <2> QED BY <2>1
<1>2. CASE AckComplete \/ AckGiveUp
  <2>1. PICK b \in ready : StartCheck(b) /\ SendComplete(b)
    BY <1>2 DEF AckComplete, AckGiveUp
  <2>2. /\ rx_completed' = rx_completed /\ closing = {} /\ closing' = {b}
        /\ acks' = Append(acks, Complete(b))
    BY <2>1 DEF StartCheck, SendComplete
  <2>3. Complete(b).block_id = b
    BY DEF Complete
  <2> QED BY <2>2, <2>3
<1>3. CASE AckMissing
  <2>1. PICK b, ids : /\ acks' = Append(acks, Missing(b, ids))
                      /\ UNCHANGED <<rx_completed, closing>>
    BY <1>3 DEF AckMissing, StartCheck
  <2>2. Missing(b, ids).tag # "COMPLETE"
    BY DEF Missing
  <2> QED BY <2>1, <2>2
<1>4. CASE AckRemove
  <2>1. PICK b \in closing : rx_completed' = rx_completed \cup {b} /\ UNCHANGED acks
    BY <1>4 DEF AckRemove, wireVars
  <2> QED BY <2>1 DEF RcvInv, SweepGood
<1>5. CASE AckPoll \/ StopReceiving \/ RcvTick
  BY <1>5 DEF AckPoll, StopReceiving, RcvTick, trackVars, ackVars, wireVars
<1> QED BY <1>1, <1>2, <1>3, <1>4, <1>5 DEF RcvNext

(* The manager resolves a block only on the Complete it takes. *)
LEMMA ManagerResolves ==
  ASSUME IInv, SndNext
  PROVE  \/ acks' = acks /\ ResolvedBlocks' \subseteq ResolvedBlocks
         \/ /\ acks # <<>> /\ acks' = Tail(acks)
            /\ \/ ResolvedBlocks' \subseteq ResolvedBlocks
               \/ /\ Head(acks).tag = "COMPLETE"
                  /\ ResolvedBlocks' \subseteq ResolvedBlocks \cup {Head(acks).block_id}
<1>0. slot \in [BlockIds -> SlotStates]
  BY TypeFacts
<1>1. CASE DrainPending
  <2>1. PICK b \in PendingBlocks : slot' = [slot EXCEPT ![b] = "Open"]
    BY <1>1 DEF DrainPending
  <2>2. b \in BlockIds /\ b \notin ResolvedBlocks
    BY DEF PendingBlocks, ResolvedBlocks
  <2>3. ResolvedBlocks' = ResolvedBlocks
    BY <1>0, <2>1, <2>2, SetSlot
  <2> QED BY <1>1, <2>3 DEF DrainPending
<1>2. CASE \E c \in chunks : AdmitOrBuffer(c)
  <2>1. PICK c \in chunks : AdmitOrBuffer(c)
    BY <1>2
  <2> DEFINE b == block_of(c)[1]
  <2>2. b \in BlockIds
    BY FrameFacts, TypeFacts
  <2>3. \/ slot' = slot
        \/ \E v \in {"Open", "Pending"} : slot[b] = "Unseen" /\ slot' = [slot EXCEPT ![b] = v]
    BY <2>1 DEF AdmitOrBuffer, DropStale, PlaceIntoOpen, AppendToPending, OpenAndPlace, BufferNew
  <2> HIDE DEF b
  <2>4. ResolvedBlocks' \subseteq ResolvedBlocks
    <3>1. CASE slot' = slot
      BY <3>1 DEF ResolvedBlocks
    <3>2. CASE \E v \in {"Open", "Pending"} : slot[b] = "Unseen" /\ slot' = [slot EXCEPT ![b] = v]
      BY <1>0, <2>2, <3>2, SetSlot DEF ResolvedBlocks
    <3> QED BY <2>3, <3>1, <3>2
  <2> QED BY <2>1, <2>4 DEF AdmitOrBuffer
<1>3. CASE OnMissing
  BY <1>3 DEF OnMissing, TakeAck, ResolvedBlocks
<1>4. CASE OnComplete
  <2> DEFINE b == Head(acks).block_id
  <2>1. acks # <<>> /\ acks' = Tail(acks) /\ Head(acks).tag = "COMPLETE"
    BY <1>4 DEF OnComplete, TakeAck
  <2>2. slot' = slot \/ slot' = [slot EXCEPT ![b] = "Resolved"]
    BY <1>4 DEF OnComplete, CompleteOpen, CompleteUnopened, CompleteAgain, Resolve, blockVars
  <2>3. ResolvedBlocks' \subseteq ResolvedBlocks \cup {b}
    BY <1>0, <2>2 DEF ResolvedBlocks
  <2> QED BY <2>1, <2>3
<1>5. CASE RetransmitStale \/ SndTick \/ Return \/ Disconnected
  BY <1>5 DEF RetransmitStale, SndTick, Return, Disconnected, ResolvedBlocks, blockVars, wireVars
<1> QED BY <1>1, <1>2, <1>3, <1>4, <1>5 DEF SndNext

-------------------------------------------------------------------------------
LEMMA TransferInit == Init => TransferInv
<1> SUFFICES ASSUME Init PROVE TransferInv
  OBVIOUS
<1>1. IInv
  BY InitInv DEF Init, MgrInit
<1>2. RcvInv
  BY RcvInitStep DEF Init
<1>3. Decided
  BY DEF Init, WireInit, SndInit, Decided, ResolvedBlocks
<1> QED BY <1>1, <1>2, <1>3 DEF TransferInv

LEMMA SenderStep == TransferInv /\ Sender => TransferInv'
<1> SUFFICES ASSUME TransferInv, Sender PROVE TransferInv'
  OBVIOUS
<1>1. SndNext /\ UNCHANGED rcvVars /\ IInv /\ RcvInv /\ Decided
  BY DEF Sender, TransferInv
<1>2. IInv'
  BY <1>1, StepInv DEF MgrNext
<1>3. RcvInv'
  BY <1>1, RcvStutter
<1>4. DecidedBlocks' = DecidedBlocks
  BY <1>1 DEF rcvVars, trackVars, ackVars, DecidedBlocks
<1>5. acks \in Seq(BlockAcks)
  BY <1>1 DEF IInv, MgrTypeOK, WireTypeOK
<1>6. CASE acks' = acks /\ ResolvedBlocks' \subseteq ResolvedBlocks
  BY <1>1, <1>2, <1>3, <1>4, <1>6 DEF Decided, TransferInv
<1>7. CASE acks # <<>> /\ acks' = Tail(acks)
  <2>1. \A i \in DOMAIN acks' : i + 1 \in DOMAIN acks /\ acks'[i] = acks[i + 1]
    BY <1>5, <1>7, HeadTailProperties
  <2>2. Head(acks) = acks[1] /\ 1 \in DOMAIN acks
    BY <1>5, <1>7
  <2>3. ResolvedBlocks' \subseteq DecidedBlocks
    BY <1>1, <2>2, ManagerResolves DEF Decided
  <2> QED BY <1>1, <1>2, <1>3, <1>4, <2>1, <2>3 DEF Decided, TransferInv
<1> QED BY <1>1, <1>2, <1>3, <1>6, <1>7, ManagerResolves DEF TransferInv

LEMMA ReceiverStep == TransferInv /\ Receiver => TransferInv'
<1> SUFFICES ASSUME TransferInv, Receiver PROVE TransferInv'
  OBVIOUS
<1>1. RcvNext /\ UNCHANGED sndVars /\ IInv /\ RcvInv /\ Decided
  BY DEF Receiver, TransferInv
<1>2. WireTypeOK
  BY <1>1 DEF IInv, MgrTypeOK
<1>3. WireTypeOK'
  BY <1>1, <1>2, RcvWireStep
<1>4. IInv' /\ RcvInv'
  BY <1>1, <1>3, PeerKeepsManager, RcvStep
<1>5. ResolvedBlocks' = ResolvedBlocks
  BY <1>1 DEF sndVars, blockVars, ResolvedBlocks
<1>6. Decided'
  <2>1. DecidedBlocks \subseteq DecidedBlocks'
    BY <1>1, <1>2, ReceiverDecides
  <2>2. CASE acks' = acks
    BY <1>1, <1>5, <2>1, <2>2 DEF Decided
  <2>3. CASE \E a : /\ acks' = Append(acks, a)
                    /\ a.tag = "COMPLETE" => a.block_id \in DecidedBlocks'
    <3>1. PICK a : /\ acks' = Append(acks, a)
                   /\ a.tag = "COMPLETE" => a.block_id \in DecidedBlocks'
      BY <2>3
    <3>2. \A i \in DOMAIN acks' : acks'[i] = a \/ (i \in DOMAIN acks /\ acks'[i] = acks[i])
      BY <1>2, <3>1 DEF WireTypeOK
    <3> QED BY <1>1, <1>5, <2>1, <3>1, <3>2 DEF Decided
  <2> QED BY <1>1, <1>2, <2>2, <2>3, ReceiverDecides
<1> QED BY <1>4, <1>6 DEF TransferInv

LEMMA NetworkStep == TransferInv /\ (Network \/ UNCHANGED vars) => TransferInv'
<1> SUFFICES ASSUME TransferInv, Network \/ UNCHANGED vars PROVE TransferInv'
  OBVIOUS
<1>1. UNCHANGED <<sndVars, rcvVars, acks>>
  BY DEF Network, Lose, vars, wireVars
<1>2. WireTypeOK
  BY DEF TransferInv, IInv, MgrTypeOK
<1>3. WireTypeOK'
  <2>1. CASE Network
    BY <1>2, <2>1, LoseType DEF Network
  <2>2. CASE UNCHANGED vars
    BY <1>2, <2>2 DEF vars, wireVars, WireTypeOK
  <2> QED BY <2>1, <2>2
<1>4. IInv' /\ RcvInv'
  BY <1>1, <1>3, PeerKeepsManager, RcvStutter DEF TransferInv
<1>5. Decided'
  BY <1>1 DEF TransferInv, Decided, DecidedBlocks, ResolvedBlocks, sndVars, blockVars,
              rcvVars, trackVars, ackVars
<1> QED BY <1>4, <1>5 DEF TransferInv

-------------------------------------------------------------------------------
(* Both peers keep their invariants in a whole transfer, whatever the      *)
(* network loses, repeats, reorders or damages.                            *)
THEOREM TransferInvariance == Spec => []TransferInv
<1>1. TransferInv /\ [Next]_vars => TransferInv'
  BY SenderStep, ReceiverStep, NetworkStep DEF Next, Finished
<1> QED BY <1>1, TransferInit, PTL DEF Spec

(* What the sender has resolved, the receiver has decided on, and has      *)
(* verified in full if it did not give up on it.                           *)
THEOREM ResolvedVerified == Spec => []ResolvedIsVerified
<1>1. TransferInv => ResolvedIsVerified
  BY DEF TransferInv, Decided, DecidedBlocks, RcvInv, AckedDataSafe, ResolvedIsVerified
<1> QED BY <1>1, TransferInvariance, PTL

(* When the block manager returns Ok, every chunk of the file has been     *)
(* verified by the receiver, but for the blocks it gave up on.             *)
THEOREM OkMeansVerified ==
  Spec => [](mgr = "ok" => \A c \in ChunkIds : c \in verified \/ block_of(c)[1] \in gave_up)
<1>1. TransferInv => (mgr = "ok" => \A c \in ChunkIds : c \in verified \/ block_of(c)[1] \in gave_up)
  <2> SUFFICES ASSUME TransferInv, mgr = "ok", NEW c \in ChunkIds, block_of(c)[1] \notin gave_up
               PROVE  c \in verified
    OBVIOUS
  <2> DEFINE b == block_of(c)[1]
             p == block_of(c)[2]
  <2>1. b \in BlockIds /\ p \in PacketIds(b) /\ chunk_id_of(b, p) = c
    BY FrameFacts
  <2>2. b \in DecidedBlocks
    BY <2>1 DEF TransferInv, IInv, ReturnIsHonest, Decided
  <2> QED BY <2>1, <2>2 DEF TransferInv, RcvInv, AckedDataSafe, DecidedBlocks
<1> QED BY <1>1, TransferInvariance, PTL
===============================================================================
