------------------------------ MODULE RepairTimer ------------------------------
(***************************************************************************)
(* How long the receiver keeps asking for a missing packet before it gives *)
(* up on the block, with the constants of config.rs as they are and a tick *)
(* of one millisecond.                                                     *)
(*                                                                         *)
(* One block, one packet of it lost and perhaps its BlockEnd; the last     *)
(* datagram of its first transmission arrives at time 0.  A repair that is *)
(* requested during an outage of the UDP path is lost; each later one is   *)
(* verified rtt ticks after its request, those that were requested before  *)
(* the first of them came in included.  The ack manager's sweeps and       *)
(* timers are ReceiverState's; here they happen as soon as they can, and   *)
(* time passes only when none can.                                         *)
(*                                                                         *)
(* The whole-block fallback of the sender plays no part: it takes 2 s      *)
(* without an ack of the block, and while packets are missing there is a   *)
(* Missing at least every idle timeout.                                    *)
(***************************************************************************)
EXTENDS ReceiverState

CONSTANTS
  PollTick,  \* ticks of poll_tick in ack_manager_loop
  Rtts,      \* the round trips of a repair to look at
  Outages    \* the lengths of an outage to look at

ASSUME RepairTimerAssumption ==
  /\ PollTick \in Nat \ {0}
  /\ Rtts \subseteq Nat /\ Outages \subseteq Nat

VARIABLES
  now,
  rtt, outage,  \* of this behaviour
  lost,         \* the packet that is lost
  end_lost,     \* the BlockEnd is lost
  phase,        \* when the ack manager polls, relative to time 0
  due           \* when the repairs under way arrive

pathVars == <<rtt, outage, lost, end_lost, phase>>
rtVars   == <<rxVars, now, pathVars, due>>

RtInit ==
  /\ RxInit
  /\ now = 0
  /\ rtt \in Rtts /\ outage \in Outages
  /\ lost \in PacketIds(0)
  /\ end_lost \in BOOLEAN
  /\ phase \in 0 .. PollTick - 1
  /\ due = {}

(* The first transmission: all but one packet is verified.                 *)
FirstTransmission ==
  /\ Tracked = {} /\ rx_completed = {}
  /\ rx_blocks' = Put(0, [NewEntry(Total(0)) EXCEPT !.received = PacketIds(0) \ {lost},
                                                    !.received_count = Total(0) - 1,
                                                    !.end_seen = ~end_lost])
  /\ UNCHANGED <<rx_completed, packet_queue, verified, ackVars, running, wireVars, now, pathVars,
                 due>>

(* The sender answers every Missing at once. *)
Request ==
  /\ acks # <<>>
  /\ acks' = Tail(acks)
  /\ due' = IF Head(acks).tag = "MISSING" /\ now >= outage THEN due \cup {now + rtt} ELSE due
  /\ UNCHANGED <<rcvVars, net, faults, now, pathVars>>

(* A repair arrives, which starts the timer again, and is verified. *)
Repair ==
  /\ now \in due
  /\ Upsert(0, [Marked(EntryOf(0, Total(0)), lost) EXCEPT !.age = 0])
  /\ due' = due \ {now}
  /\ UNCHANGED <<packet_queue, verified, ackVars, running, wireVars, now, pathVars>>

(* ready_for_check is called every poll_tick while nothing is ready. *)
Sweep ==
  /\ now % PollTick = phase
  /\ AckPoll
  /\ UNCHANGED <<now, pathVars, due>>

Check ==
  /\ AckComplete \/ AckGiveUp \/ AckMissing \/ AckRemove
  /\ UNCHANGED <<now, pathVars, due>>

(* Nothing can happen at this time. *)
Idle ==
  /\ Tracked # {}
  /\ acks = <<>> /\ now \notin due /\ ready \cup closing = {}
  /\ now % PollTick = phase => Ready = {}

Pass ==
  /\ Idle
  /\ now' = now + 1
  /\ \/ RcvTick
     \/ /\ \A b \in Tracked : rx_blocks[b].age = IdleTimeout
        /\ UNCHANGED rxVars
  /\ UNCHANGED <<pathVars, due>>

RtNext == FirstTransmission \/ Request \/ Repair \/ Sweep \/ Check \/ Pass

RtSpec == RtInit /\ [][RtNext]_rtVars

-------------------------------------------------------------------------------
(* Properties. *)

(* The waits before the sweeps 1 .. MaxRounds + 1 of an incomplete block,  *)
(* the last of which gives up on it: they grow with the rounds, unless no  *)
(* BlockEnd was seen.                                                      *)
Waits ==
  [k \in 1 .. MaxRounds + 1 |->
     IF end_lost \/ k * Grace > IdleTimeout THEN IdleTimeout ELSE k * Grace]

(* The first k waits together. *)
WaitsUpTo[k \in 0 .. MaxRounds + 1] ==
  IF k = 0 THEN 0 ELSE WaitsUpTo[k - 1] + Waits[k]

RepairTime == WaitsUpTo[MaxRounds + 1]

(* When the receiver asks for the packet for the last time at the latest:  *)
(* in its last round, or just before the first repair comes in.            *)
LastRequest ==
  LET first_repair == outage + Waits[MaxRounds + 1] + rtt
  IN  IF first_repair < WaitsUpTo[MaxRounds] THEN first_repair ELSE WaitsUpTo[MaxRounds]

(* What rounding each of the waits up to the poll tick may add.            *)
Rounding == (MaxRounds + 2) * (PollTick - 1)

(* The receiver decides on a block neither too early nor too late.  A      *)
(* packet whose repair takes rtt, from requests that get through after an  *)
(* outage, is delivered if the two and the longest wait for the next       *)
(* request fit in RepairTime, which is 1.3 s, or 5.1 s without a BlockEnd. *)
(* A block is given up when RepairTime has passed; but its Complete, once  *)
(* it is complete, waits until the repairs that were asked for in vain     *)
(* have come in too, each of which starts the timer again, and for the     *)
(* first wait after the last of them.  No path whatsoever puts the         *)
(* decision off beyond twice the RepairTime.                               *)
RepairBudget ==
  /\ rtt + outage + Waits[MaxRounds + 1] + PollTick <= RepairTime => gave_up = {}
  /\ closing \cup rx_completed # {} =>
       now <= Rounding + (IF gave_up = {} THEN LastRequest + rtt + Waits[1] ELSE RepairTime)
  /\ now <= 2 * RepairTime + 2 * Rounding

(* config.rs on MAX_BLOCK_RETRY_ROUNDS: "this now allows roughly 50 *      *)
(* 150ms = 7.5s of real repair attempts per block before giving up".       *)
AllowsClaimedTime == rtt + outage <= 50 * 150 => gave_up = {}
===============================================================================
