-------------------------- MODULE RepairTimer_proofs --------------------------
(***************************************************************************)
(* How long the receiver tries, for every grace period, idle timeout, poll *)
(* tick and number of rounds: an argument about when a sweep is possible   *)
(* and when it has happened at the latest.                                 *)
(***************************************************************************)
EXTENDS RepairTimer, Wire_proofs

Entry == rx_blocks[0]

Active == Tracked # {} /\ closing = {}

Delivered == Entry.received = PacketIds(0)

LastWait == Waits[MaxRounds + 1]

(* When sweep k has happened at the latest: each wait may be one poll tick *)
(* less one longer.                                                        *)
SweepBy(k) == WaitsUpTo[k] + k * (PollTick - 1)

(* By when the first repair has arrived, the last request was made, and    *)
(* its repair, asked for in vain, has arrived too.                         *)
FirstRepairBy == rtt + outage + LastWait + PollTick - 1

LastRequestBy ==
  IF FirstRepairBy < SweepBy(MaxRounds) THEN FirstRepairBy ELSE SweepBy(MaxRounds)

LastRepairBy == LastRequestBy + rtt

(* At time n, a timer that shows age was started at time base or before.   *)
(* While it runs, its age tells; when it has run out, a poll is near.      *)
Timer(base, n, age, wait, ph) ==
  IF age < wait THEN n <= base + age
  ELSE \E poll \in n .. base + wait + PollTick - 1 : poll % PollTick = ph

StartedBy(base) == Timer(base, now, Entry.age, Required(Entry), phase)

-------------------------------------------------------------------------------
(* The inductive invariant. *)

PathGood ==
  /\ now \in Nat /\ rtt \in Nat /\ outage \in Nat
  /\ lost \in PacketIds(0) /\ end_lost \in BOOLEAN /\ phase \in 0 .. PollTick - 1
  /\ due \subseteq Nat
  /\ acks \in Seq(BlockAcks)

(* One block is tracked, once. *)
ShapeGood ==
  /\ Tracked = {} \/ (Tracked = {0} /\ rx_completed = {} /\ 0 \in BlockIds)
  /\ rx_completed \subseteq {0} /\ ready \subseteq Tracked /\ closing \subseteq Tracked
  /\ Tracked = {} /\ rx_completed = {} => now = 0 /\ acks = <<>> /\ due = {} /\ gave_up = {}

Requests == {ack \in BlockAcks : ack.tag = "MISSING"}

EntryTypes ==
  [total : {Total(0)}, received : SUBSET PacketIds(0), received_count : {Total(0) - 1, Total(0)},
   end_seen : {~end_lost}, rounds : 0 .. MaxRounds, age : 0 .. IdleTimeout]

(* All but the lost packet is there, and counted.                          *)
Counted(e) ==
  /\ e.received \cup {lost} = PacketIds(0)
  /\ e.received_count = IF e.received = PacketIds(0) THEN Total(0) ELSE Total(0) - 1

EntryGood ==
  /\ gave_up = {}
  /\ Entry \in EntryTypes
  /\ Counted(Entry)
  /\ ready # {} /\ ~Delivered => Entry.age >= Required(Entry)
  /\ acks \in Seq(Requests)
  /\ acks # <<>> => now <= SweepBy(Entry.rounds)

(* Before the repair: as many waits as there were sweeps have passed, and  *)
(* no more; and a request that got through brings the repair in time.      *)
WaitingGood ==
  /\ WaitsUpTo[Entry.rounds] + Entry.age <= now
  /\ StartedBy(SweepBy(Entry.rounds))
  /\ \A x \in due : now <= x /\ rtt <= x /\ x <= LastRepairBy
  /\ due # {} => \E x \in due : x <= FirstRepairBy
  /\ due = {} => now <= outage + LastWait + PollTick - 1
  /\ due = {} /\ acks = <<>> => StartedBy(outage)

(* After it: the timer was started again by the repair, and perhaps by the *)
(* answers to the requests that crossed it.                                *)
DeliveredGood ==
  /\ StartedBy(LastRepairBy)
  /\ \A x \in due : now <= x /\ x <= LastRepairBy
  /\ acks # <<>> => now + rtt <= LastRepairBy
  /\ rtt <= SweepBy(MaxRounds + 1)

ActiveGood == EntryGood /\ (IF Delivered THEN DeliveredGood ELSE WaitingGood)

RtInv ==
  /\ PathGood
  /\ ShapeGood
  /\ Active => ActiveGood
  /\ RepairBudget

-------------------------------------------------------------------------------
(* The waits and their sums. *)

LEMMA ConstantFacts ==
  /\ PollTick \in Nat \ {0} /\ IdleTimeout \in Nat \ {0} /\ Grace \in Nat /\ Grace <= IdleTimeout
  /\ MaxRounds \in Nat
  BY RepairTimerAssumption, ReceiverStateAssumption

(* The waits grow up to the last one, and never exceed the idle timeout.   *)
LEMMA WaitFacts ==
  /\ DOMAIN Waits = 1 .. MaxRounds + 1
  /\ \A k \in 1 .. MaxRounds + 1 :
       /\ Waits[k] = IF end_lost \/ k * Grace > IdleTimeout THEN IdleTimeout ELSE k * Grace
       /\ Waits[k] \in 0 .. IdleTimeout
       /\ Waits[k] <= LastWait
       /\ Waits[1] <= Waits[k]
<1>1. DOMAIN Waits = 1 .. MaxRounds + 1
  BY DEF Waits
<1>2. ASSUME NEW k \in 1 .. MaxRounds + 1
      PROVE  Waits[k] = IF end_lost \/ k * Grace > IdleTimeout THEN IdleTimeout ELSE k * Grace
  BY DEF Waits
<1>3. ASSUME NEW k \in 1 .. MaxRounds + 1
      PROVE  /\ k * Grace \in Nat /\ k * Grace <= (MaxRounds + 1) * Grace
             /\ 1 * Grace <= k * Grace /\ (MaxRounds + 1) * Grace \in Nat
  <2>1. CASE Grace = 0
    BY <2>1, ConstantFacts
  <2>2. CASE Grace # 0
    <3>1. Grace \in Nat \ {0} /\ MaxRounds + 1 \in Nat /\ k \in Nat
      BY <2>2, ConstantFacts
    <3> QED BY <3>1, ConstantFacts, MulMono
  <2> QED BY <2>1, <2>2
<1>4. ASSUME NEW k \in 1 .. MaxRounds + 1
      PROVE  /\ Waits[k] \in 0 .. IdleTimeout
             /\ Waits[k] <= LastWait
             /\ Waits[1] <= Waits[k]
  <2>1. 1 \in 1 .. MaxRounds + 1 /\ MaxRounds + 1 \in 1 .. MaxRounds + 1
    BY ConstantFacts
  <2>2. /\ LastWait = IF end_lost \/ (MaxRounds + 1) * Grace > IdleTimeout THEN IdleTimeout
                      ELSE (MaxRounds + 1) * Grace
        /\ Waits[1] = IF end_lost \/ 1 * Grace > IdleTimeout THEN IdleTimeout ELSE 1 * Grace
    BY <1>2, <2>1 DEF LastWait
  <2> DEFINE K == k * Grace
             L == (MaxRounds + 1) * Grace
             O == 1 * Grace
  <2>3. /\ Waits[k] = IF end_lost \/ K > IdleTimeout THEN IdleTimeout ELSE K
        /\ LastWait = IF end_lost \/ L > IdleTimeout THEN IdleTimeout ELSE L
        /\ Waits[1] = IF end_lost \/ O > IdleTimeout THEN IdleTimeout ELSE O
        /\ K \in Nat /\ L \in Nat /\ O \in Nat /\ K <= L /\ O <= K
    BY <1>2, <1>3, <2>2, ConstantFacts
  <2> HIDE DEF K, L, O
  <2> QED BY <2>3, ConstantFacts
<1> QED BY <1>1, <1>2, <1>4

(* A sum over the first numbers exists: the least number without one would *)
(* have a predecessor with one.                                            *)
LEMMA SumsExist ==
  ASSUME NEW m \in Nat, NEW w, \A k \in 1 .. m : w[k] \in Nat
  PROVE  \E s \in [0 .. m -> Nat] : s = [k \in 0 .. m |-> IF k = 0 THEN 0 ELSE s[k - 1] + w[k]]
<1> DEFINE Sum(n, s) ==
             s \in [0 .. n -> Nat] /\ s[0] = 0 /\ \A k \in 1 .. n : s[k] = s[k - 1] + w[k]
           Without == {n \in 0 .. m : ~ \E s : Sum(n, s)}
<1>1. Without = {}
  <2> SUFFICES ASSUME Without # {} PROVE FALSE
    OBVIOUS
  <2>1. Without \subseteq Nat
    OBVIOUS
  <2>2. PICK n \in Without : \A k \in Without : n <= k
    <3> HIDE DEF Without
    <3> QED BY <2>1, LeastElement
  <2>3. n \in 0 .. m /\ ~ \E s : Sum(n, s)
    OBVIOUS
  <2>4. n # 0
    <3>1. Sum(0, [k \in 0 .. 0 |-> 0])
      OBVIOUS
    <3> QED BY <2>3, <3>1
  <2>5. n - 1 \in 0 .. m /\ n - 1 \notin Without
    <3>1. n \in Nat /\ n - 1 \in 0 .. m /\ n - 1 < n
      BY <2>3, <2>4
    <3>2. \A k \in Without : n <= k
      BY <2>2
    <3> HIDE DEF Without
    <3> QED BY <3>1, <3>2
  <2>6. PICK s : Sum(n - 1, s)
    BY <2>5
  <2> DEFINE t == [k \in 0 .. n |-> IF k < n THEN s[k] ELSE s[n - 1] + w[n]]
  <2>7. n - 1 \in Nat /\ n \in 1 .. m /\ w[n] \in Nat
    BY <2>3, <2>4
  <2>8. \A k \in 0 .. n - 1 : s[k] \in Nat
    BY <2>6
  <2>9. t \in [0 .. n -> Nat]
    BY <2>7, <2>8
  <2>10. t[0] = 0
    BY <2>6, <2>7
  <2>11. \A k \in 1 .. n : t[k] = t[k - 1] + w[k]
    <3> SUFFICES ASSUME NEW k \in 1 .. n PROVE t[k] = t[k - 1] + w[k]
      OBVIOUS
    <3>1. CASE k = n
      BY <2>7, <3>1
    <3>2. CASE k # n
      <4>1. k \in 1 .. n - 1 /\ k < n /\ k - 1 < n /\ k \in 0 .. n /\ k - 1 \in 0 .. n
        BY <2>7, <3>2
      <4>2. t[k] = s[k] /\ t[k - 1] = s[k - 1]
        BY <4>1
      <4>3. s[k] = s[k - 1] + w[k]
        BY <2>6, <4>1
      <4> QED BY <4>2, <4>3
    <3> QED BY <3>1, <3>2
  <2>12. Sum(n, t)
    <3> HIDE DEF t
    <3> QED BY <2>9, <2>10, <2>11
  <2> QED BY <2>3, <2>12
<1>2. m \in 0 .. m
  OBVIOUS
<1>3. PICK s : Sum(m, s)
  BY <1>1, <1>2
<1>4. s = [k \in 0 .. m |-> IF k = 0 THEN 0 ELSE s[k - 1] + w[k]]
  <2>1. \A k \in 0 .. m : s[k] = IF k = 0 THEN 0 ELSE s[k - 1] + w[k]
    <3> SUFFICES ASSUME NEW k \in 0 .. m PROVE s[k] = IF k = 0 THEN 0 ELSE s[k - 1] + w[k]
      OBVIOUS
    <3>1. k = 0 \/ k \in 1 .. m
      OBVIOUS
    <3> QED BY <1>3, <3>1
  <2>2. s = [k \in 0 .. m |-> s[k]]
    BY <1>3
  <2> QED BY <2>1, <2>2
<1> QED BY <1>3, <1>4

(* Such a sum is a number at every step, and grows.                        *)
LEMMA SumsGrow ==
  ASSUME NEW m \in Nat, NEW w, \A k \in 1 .. m : w[k] \in Nat,
         NEW f, f = [k \in 0 .. m |-> IF k = 0 THEN 0 ELSE f[k - 1] + w[k]]
  PROVE  /\ f[0] = 0
         /\ \A k \in 0 .. m - 1 : f[k + 1] = f[k] + w[k + 1]
         /\ \A k \in 0 .. m : f[k] \in Nat /\ f[k] <= f[m]
<1>1. \A k \in 0 .. m : f[k] = IF k = 0 THEN 0 ELSE f[k - 1] + w[k]
  OBVIOUS
<1>2. f[0] = 0
  BY <1>1
<1>3. ASSUME NEW k \in 0 .. m - 1 PROVE f[k + 1] = f[k] + w[k + 1]
  <2>1. k + 1 \in 0 .. m /\ k + 1 # 0 /\ (k + 1) - 1 = k
    OBVIOUS
  <2> QED BY <1>1, <2>1
<1>4. \A k \in 0 .. m : f[k] \in Nat
  <2> DEFINE Bad == {k \in 0 .. m : f[k] \notin Nat}
  <2>1. Bad \subseteq Nat
    OBVIOUS
  <2>2. ASSUME Bad # {} PROVE FALSE
    <3>1. PICK n \in Bad : \A k \in Bad : n <= k
      <4> HIDE DEF Bad
      <4> QED BY <2>1, <2>2, LeastElement
    <3>2. n \in 0 .. m /\ f[n] \notin Nat /\ n # 0
      BY <1>2
    <3>3. n - 1 \in 0 .. m - 1 /\ n - 1 \in 0 .. m /\ (n - 1) + 1 = n /\ n \in 1 .. m
      BY <3>2
    <3>4. f[n - 1] \in Nat
      <4>1. n - 1 \notin Bad
        <5>1. n \in Nat /\ n - 1 < n
          BY <3>2
        <5> HIDE DEF Bad
        <5> QED BY <3>1, <5>1
      <4> QED BY <3>3, <4>1
    <3>5. f[n] = f[n - 1] + w[n] /\ w[n] \in Nat
      BY <1>3, <3>3
    <3> QED BY <3>2, <3>4, <3>5
  <2> QED BY <2>2
<1>5. \A k \in 0 .. m : f[k] <= f[m]
  <2> DEFINE Bad == {j \in 0 .. m : ~ f[m - j] <= f[m]}
  <2>1. Bad \subseteq Nat
    OBVIOUS
  <2>2. ASSUME Bad # {} PROVE FALSE
    <3>1. PICK n \in Bad : \A k \in Bad : n <= k
      <4> HIDE DEF Bad
      <4> QED BY <2>1, <2>2, LeastElement
    <3>2. n \in 0 .. m /\ ~ f[m - n] <= f[m]
      OBVIOUS
    <3>3. n # 0
      <4>1. m - 0 = m /\ f[m] \in Nat
        BY <1>4
      <4> QED BY <3>2, <4>1
    <3>4. /\ n - 1 \in 0 .. m /\ m - n \in 0 .. m - 1 /\ (m - n) + 1 = m - (n - 1)
          /\ (m - n) + 1 \in 1 .. m /\ m - n \in 0 .. m /\ m - (n - 1) \in 0 .. m
      BY <3>2, <3>3
    <3>5. f[m - (n - 1)] <= f[m]
      <4>1. n - 1 \notin Bad
        <5>1. n \in Nat /\ n - 1 < n
          BY <3>2
        <5> HIDE DEF Bad
        <5> QED BY <3>1, <5>1
      <4> QED BY <3>4, <4>1
    <3>6. f[m - (n - 1)] = f[m - n] + w[m - (n - 1)] /\ w[m - (n - 1)] \in Nat
      <4>1. f[(m - n) + 1] = f[m - n] + w[(m - n) + 1]
        BY <1>3, <3>4
      <4>2. w[(m - n) + 1] \in Nat
        BY <3>4
      <4> QED BY <3>4, <4>1, <4>2
    <3>7. f[m] \in Nat /\ f[m - n] \in Nat
      BY <1>4, <3>4
    <3> QED BY <3>2, <3>5, <3>6, <3>7
  <2>3. ASSUME NEW k \in 0 .. m PROVE f[k] <= f[m]
    <3>1. m - k \in 0 .. m /\ m - (m - k) = k
      OBVIOUS
    <3> QED BY <2>2, <3>1
  <2> QED BY <2>3
<1> QED BY <1>2, <1>3, <1>4, <1>5

(* What the recursive definition of WaitsUpTo computes. *)
LEMMA SumFacts ==
  /\ WaitsUpTo[0] = 0
  /\ \A k \in 0 .. MaxRounds : WaitsUpTo[k + 1] = WaitsUpTo[k] + Waits[k + 1]
  /\ \A k \in 0 .. MaxRounds + 1 : WaitsUpTo[k] \in Nat /\ WaitsUpTo[k] <= RepairTime
  /\ \A k \in 0 .. MaxRounds : WaitsUpTo[k] <= WaitsUpTo[MaxRounds]
<1> DEFINE m == MaxRounds + 1
<1>1. m \in Nat /\ m - 1 = MaxRounds /\ \A k \in 1 .. m : Waits[k] \in Nat
  BY ConstantFacts, WaitFacts
<1>2. \E s \in [0 .. m -> Nat] : s = [k \in 0 .. m |-> IF k = 0 THEN 0 ELSE s[k - 1] + Waits[k]]
  <2> HIDE DEF m
  <2> QED BY <1>1, SumsExist
<1>3. WaitsUpTo = [k \in 0 .. m |-> IF k = 0 THEN 0 ELSE WaitsUpTo[k - 1] + Waits[k]]
  BY <1>2 DEF WaitsUpTo
<1>4. RepairTime = WaitsUpTo[m]
  BY DEF RepairTime
<1>5. /\ WaitsUpTo[0] = 0
      /\ \A k \in 0 .. m - 1 : WaitsUpTo[k + 1] = WaitsUpTo[k] + Waits[k + 1]
      /\ \A k \in 0 .. m : WaitsUpTo[k] \in Nat /\ WaitsUpTo[k] <= WaitsUpTo[m]
  <2> HIDE DEF m
  <2> QED BY <1>1, <1>3, SumsGrow
<1>6. \A k \in 0 .. MaxRounds : WaitsUpTo[k] <= WaitsUpTo[MaxRounds]
  <2> DEFINE g == [k \in 0 .. MaxRounds |-> WaitsUpTo[k]]
  <2>1. MaxRounds \in Nat /\ \A k \in 1 .. MaxRounds : Waits[k] \in Nat
    BY <1>1, ConstantFacts
  <2>2. \A k \in 0 .. MaxRounds : g[k] = IF k = 0 THEN 0 ELSE g[k - 1] + Waits[k]
    <3> SUFFICES ASSUME NEW k \in 0 .. MaxRounds
                 PROVE  g[k] = IF k = 0 THEN 0 ELSE g[k - 1] + Waits[k]
      OBVIOUS
    <3>1. CASE k = 0
      BY <1>5, <3>1
    <3>2. CASE k # 0
      <4>1. k - 1 \in 0 .. m - 1 /\ k - 1 \in 0 .. MaxRounds /\ (k - 1) + 1 = k
        BY <3>2, ConstantFacts
      <4>2. WaitsUpTo[k] = WaitsUpTo[k - 1] + Waits[k]
        BY <1>5, <4>1
      <4> QED BY <3>2, <4>1, <4>2
    <3> QED BY <3>1, <3>2
  <2>3. g = [k \in 0 .. MaxRounds |-> IF k = 0 THEN 0 ELSE g[k - 1] + Waits[k]]
    BY <2>2
  <2>4. \A k \in 0 .. MaxRounds : g[k] <= g[MaxRounds]
    <3> HIDE DEF g
    <3> QED BY <2>1, <2>3, SumsGrow
  <2> QED BY <2>1, <2>4
<1> QED BY <1>1, <1>4, <1>5, <1>6

(* By when the sweeps have happened. *)
LEMMA SweepFacts ==
  /\ SweepBy(0) = 0
  /\ SweepBy(MaxRounds) = WaitsUpTo[MaxRounds] + MaxRounds * (PollTick - 1)
  /\ SweepBy(MaxRounds + 1) = RepairTime + (MaxRounds + 1) * (PollTick - 1)
  /\ \A k \in 0 .. MaxRounds + 1 : SweepBy(k) \in Nat /\ SweepBy(k) <= SweepBy(MaxRounds + 1)
  /\ \A k \in 0 .. MaxRounds : SweepBy(k) <= SweepBy(MaxRounds)
  /\ \A k \in 0 .. MaxRounds : SweepBy(k + 1) = SweepBy(k) + Waits[k + 1] + PollTick - 1
<1> DEFINE late(k) == k * (PollTick - 1)
<1>1. /\ PollTick - 1 \in Nat /\ MaxRounds \in Nat
      /\ WaitsUpTo[0] = 0
      /\ \A k \in 0 .. MaxRounds : WaitsUpTo[k + 1] = WaitsUpTo[k] + Waits[k + 1]
      /\ \A k \in 0 .. MaxRounds + 1 : WaitsUpTo[k] \in Nat /\ WaitsUpTo[k] <= RepairTime
      /\ \A k \in 0 .. MaxRounds : WaitsUpTo[k] <= WaitsUpTo[MaxRounds]
      /\ \A k \in 1 .. MaxRounds + 1 : Waits[k] \in Nat
  BY ConstantFacts, SumFacts, WaitFacts
<1>2. ASSUME NEW k \in 0 .. MaxRounds + 1
      PROVE  late(k) \in Nat /\ late(k + 1) = late(k) + PollTick - 1
  <2>1. CASE PollTick - 1 = 0
    BY <1>1, <2>1
  <2>2. CASE PollTick - 1 # 0
    <3>1. PollTick - 1 \in Nat \ {0} /\ k \in Nat
      BY <1>1, <2>2
    <3>2. late(k) \in Nat
      BY <3>1, MulMono
    <3>3. late(k + 1) = late(k) + PollTick - 1
      BY <3>1
    <3> QED BY <3>2, <3>3
  <2> QED BY <2>1, <2>2
<1>3. ASSUME NEW n \in 0 .. MaxRounds + 1, NEW k \in 0 .. n
      PROVE  late(k) <= late(n)
  <2>1. CASE PollTick - 1 = 0
    BY <1>1, <2>1
  <2>2. CASE PollTick - 1 # 0
    <3>1. PollTick - 1 \in Nat \ {0} /\ k \in Nat /\ n \in Nat /\ k <= n
      BY <1>1, <2>2
    <3> QED BY <3>1, MulMono
  <2> QED BY <2>1, <2>2
<1>4. late(0) = 0
  BY <1>1
<1>5. \A k \in 0 .. MaxRounds + 1 : SweepBy(k) = WaitsUpTo[k] + late(k)
  BY DEF SweepBy
<1>6. /\ MaxRounds + 1 \in 0 .. MaxRounds + 1 /\ MaxRounds \in 0 .. MaxRounds + 1
      /\ RepairTime = WaitsUpTo[MaxRounds + 1]
  BY <1>1 DEF RepairTime
<1>7. /\ late(MaxRounds + 1) = (MaxRounds + 1) * (PollTick - 1)
      /\ late(MaxRounds) = MaxRounds * (PollTick - 1)
  OBVIOUS
<1> HIDE DEF late
<1>8. /\ SweepBy(0) = 0
      /\ SweepBy(MaxRounds) = WaitsUpTo[MaxRounds] + late(MaxRounds)
      /\ SweepBy(MaxRounds + 1) = RepairTime + late(MaxRounds + 1)
  BY <1>1, <1>4, <1>5, <1>6
<1>9. ASSUME NEW k \in 0 .. MaxRounds + 1
      PROVE  SweepBy(k) \in Nat /\ SweepBy(k) <= SweepBy(MaxRounds + 1)
  <2>1. late(k) \in Nat /\ late(MaxRounds + 1) \in Nat /\ late(k) <= late(MaxRounds + 1)
    BY <1>2, <1>3, <1>6
  <2>2. SweepBy(k) = WaitsUpTo[k] + late(k) /\ WaitsUpTo[k] \in Nat /\ WaitsUpTo[k] <= RepairTime
    BY <1>1, <1>5
  <2>3. RepairTime \in Nat
    BY <1>1, <1>6
  <2> QED BY <1>8, <2>1, <2>2, <2>3
<1>10. ASSUME NEW k \in 0 .. MaxRounds
       PROVE  SweepBy(k) <= SweepBy(MaxRounds)
  <2>1. k \in 0 .. MaxRounds + 1
    BY <1>1
  <2>2. late(k) \in Nat /\ late(MaxRounds) \in Nat /\ late(k) <= late(MaxRounds)
    BY <1>2, <1>3, <1>6, <2>1
  <2>3. SweepBy(k) = WaitsUpTo[k] + late(k) /\ WaitsUpTo[k] \in Nat /\ WaitsUpTo[MaxRounds] \in Nat
        /\ WaitsUpTo[k] <= WaitsUpTo[MaxRounds]
    BY <1>1, <1>5, <1>6, <2>1
  <2> QED BY <1>8, <2>2, <2>3
<1>11. ASSUME NEW k \in 0 .. MaxRounds
       PROVE  SweepBy(k + 1) = SweepBy(k) + Waits[k + 1] + PollTick - 1
  <2>1. k \in 0 .. MaxRounds + 1 /\ k + 1 \in 0 .. MaxRounds + 1 /\ k + 1 \in 1 .. MaxRounds + 1
    BY <1>1
  <2>2. /\ SweepBy(k + 1) = WaitsUpTo[k + 1] + late(k + 1)
        /\ SweepBy(k) = WaitsUpTo[k] + late(k)
        /\ late(k + 1) = late(k) + PollTick - 1 /\ WaitsUpTo[k + 1] = WaitsUpTo[k] + Waits[k + 1]
        /\ late(k) \in Nat /\ WaitsUpTo[k] \in Nat /\ Waits[k + 1] \in Nat
    BY <1>1, <1>2, <1>5, <2>1
  <2> QED BY <1>1, <2>2
<1> QED BY <1>7, <1>8, <1>9, <1>10, <1>11

LEMMA RoundingFacts ==
  /\ Rounding \in Nat /\ MaxRounds * (PollTick - 1) \in Nat
  /\ (MaxRounds + 1) * (PollTick - 1) = MaxRounds * (PollTick - 1) + (PollTick - 1)
  /\ Rounding = (MaxRounds + 1) * (PollTick - 1) + (PollTick - 1)
<1>1. PollTick - 1 \in Nat /\ MaxRounds \in Nat
  BY ConstantFacts
<1> QED BY <1>1 DEF Rounding

(* The last request is made in the last round or when the first repair     *)
(* comes in, whichever is first.                                           *)
LEMMA LateFacts ==
  ASSUME rtt \in Nat, outage \in Nat
  PROVE  /\ LastWait \in Nat
         /\ FirstRepairBy \in Nat /\ LastRepairBy \in Nat
         /\ \A t \in Nat : t <= FirstRepairBy /\ t <= SweepBy(MaxRounds) => t + rtt <= LastRepairBy
         /\ LastRepairBy <= SweepBy(MaxRounds) + rtt
         /\ LastRepairBy <= LastRequest + rtt + (MaxRounds + 1) * (PollTick - 1)
         /\ LastRequest \in Nat
<1>1. LastWait \in Nat /\ LastWait = Waits[MaxRounds + 1]
  <2>1. MaxRounds + 1 \in 1 .. MaxRounds + 1
    BY ConstantFacts
  <2> QED BY <2>1, WaitFacts DEF LastWait
<1>2. FirstRepairBy = rtt + outage + LastWait + PollTick - 1 /\ FirstRepairBy \in Nat
  BY <1>1, ConstantFacts DEF FirstRepairBy
<1>3. /\ SweepBy(MaxRounds) \in Nat /\ WaitsUpTo[MaxRounds] \in Nat
      /\ SweepBy(MaxRounds) = WaitsUpTo[MaxRounds] + MaxRounds * (PollTick - 1)
  <2>1. MaxRounds \in 0 .. MaxRounds + 1
    BY ConstantFacts
  <2> QED BY <2>1, SumFacts, SweepFacts
<1>4. /\ LastRequestBy \in Nat /\ LastRepairBy = LastRequestBy + rtt
      /\ LastRequestBy <= FirstRepairBy /\ LastRequestBy <= SweepBy(MaxRounds)
      /\ LastRequestBy = FirstRepairBy \/ LastRequestBy = SweepBy(MaxRounds)
  BY <1>2, <1>3 DEF LastRequestBy, LastRepairBy
<1>5. /\ LastRequest = outage + LastWait + rtt \/ LastRequest = WaitsUpTo[MaxRounds]
      /\ LastRequest \in Nat
  BY <1>1, <1>3 DEF LastRequest
<1> DEFINE late == MaxRounds * (PollTick - 1)
           later == (MaxRounds + 1) * (PollTick - 1)
<1>6. late \in Nat /\ later = late + (PollTick - 1) /\ PollTick - 1 \in Nat
  BY RoundingFacts, ConstantFacts
<1>7. SweepBy(MaxRounds) = WaitsUpTo[MaxRounds] + late
  BY <1>3
<1> HIDE DEF late, later
<1>8. LastRequestBy <= LastRequest + later
  <2>1. CASE LastRequest = outage + LastWait + rtt
    BY <1>1, <1>2, <1>4, <1>5, <1>6, <2>1, ConstantFacts
  <2>2. CASE LastRequest = WaitsUpTo[MaxRounds]
    BY <1>3, <1>4, <1>5, <1>6, <1>7, <2>2
  <2> QED BY <1>5, <2>1, <2>2
<1>9. LastRepairBy <= LastRequest + rtt + later
  BY <1>4, <1>5, <1>6, <1>8
<1>10. LastRepairBy \in Nat /\ LastRepairBy <= SweepBy(MaxRounds) + rtt
  BY <1>3, <1>4
<1>11. \A t \in Nat : t <= FirstRepairBy /\ t <= SweepBy(MaxRounds) => t + rtt <= LastRepairBy
  BY <1>2, <1>3, <1>4
<1> QED BY <1>1, <1>2, <1>5, <1>9, <1>10, <1>11 DEF later

(* Nothing but the path decides the waits and the bounds. *)
SumsOf(w) ==
  CHOOSE s : s = [k \in 0 .. MaxRounds + 1 |-> IF k = 0 THEN 0 ELSE s[k - 1] + w[k]]

LEMMA SameWaits ==
  ASSUME UNCHANGED <<rtt, outage, end_lost>>
  PROVE  UNCHANGED <<Waits, WaitsUpTo, RepairTime, LastWait, LastRequest, Rounding,
                     FirstRepairBy, LastRepairBy>>
<1>1. Waits' = Waits
  BY DEF Waits
<1>2. WaitsUpTo = SumsOf(Waits) /\ WaitsUpTo' = SumsOf(Waits')
  BY DEF WaitsUpTo, SumsOf
<1>3. WaitsUpTo' = WaitsUpTo
  BY <1>1, <1>2
<1>4. RepairTime' = RepairTime /\ LastWait' = LastWait
  BY <1>1, <1>3 DEF RepairTime, LastWait
<1>5. LastRequest' = LastRequest /\ Rounding' = Rounding
  BY <1>1, <1>3 DEF LastRequest, Rounding
<1>6. FirstRepairBy' = FirstRepairBy /\ SweepBy(MaxRounds)' = SweepBy(MaxRounds)
  BY <1>3, <1>4 DEF FirstRepairBy, SweepBy
<1>7. LastRepairBy' = LastRepairBy
  BY <1>6 DEF LastRepairBy, LastRequestBy
<1> QED BY <1>1, <1>3, <1>4, <1>5, <1>6, <1>7

-------------------------------------------------------------------------------
(* Timers. *)

(* A poll is at most a poll tick away. *)
LEMMA PollNear ==
  ASSUME NEW n \in Nat, NEW ph \in 0 .. PollTick - 1
  PROVE  \E poll \in n .. n + PollTick - 1 : poll % PollTick = ph
<1> DEFINE P == PollTick
           q == n \div P
           r == n % P
<1>1. P \in Nat \ {0}
  BY ConstantFacts
<1> HIDE DEF P
<1>2. q \in Nat /\ r \in 0 .. P - 1 /\ n = q * P + r
  BY <1>1, DivMod
<1> HIDE DEF q, r
<1>3. ph \in 0 .. P - 1
  BY DEF P
<1>4. CASE r <= ph
  <2>1. (q * P + ph) % P = ph
    BY <1>1, <1>2, <1>3, DivModUnique
  <2>2. q * P \in Nat
    BY <1>1, <1>2, MulMono
  <2>3. q * P + ph \in n .. n + P - 1
    BY <1>1, <1>2, <1>3, <1>4, <2>2
  <2> QED BY <2>1, <2>3 DEF P
<1>5. CASE ph < r
  <2>1. ((q + 1) * P + ph) % P = ph
    BY <1>1, <1>2, <1>3, DivModUnique
  <2>2. q * P \in Nat /\ (q + 1) * P = q * P + P
    <3>1. q + 1 \in Nat /\ q < q + 1
      BY <1>2
    <3> QED BY <1>1, <1>2, <3>1, MulMono
  <2>3. (q + 1) * P + ph \in n .. n + P - 1
    BY <1>1, <1>2, <1>3, <1>5, <2>2
  <2> QED BY <2>1, <2>3 DEF P
<1>6. r \in Int /\ ph \in Int
  BY <1>2, <1>3
<1> QED BY <1>4, <1>5, <1>6

(* A timer can be taken to start now or later, or later than it did. *)
LEMMA TimerStart ==
  ASSUME NEW base \in Nat, NEW n \in Nat, n <= base, NEW age \in Nat, NEW wait \in Nat,
         NEW ph \in 0 .. PollTick - 1
  PROVE  Timer(base, n, age, wait, ph)
<1>1. PICK poll \in n .. n + PollTick - 1 : poll % PollTick = ph
  BY PollNear
<1>2. poll \in n .. base + wait + PollTick - 1 /\ n <= base + age
  BY <1>1, ConstantFacts
<1> QED BY <1>1, <1>2 DEF Timer

(* When a timer has run out it is polled soon. *)
LEMMA TimerBound ==
  ASSUME NEW base \in Nat, NEW n \in Nat, NEW age \in Nat, NEW wait \in Nat, NEW ph,
         Timer(base, n, age, wait, ph)
  PROVE  n <= base + wait + PollTick - 1
<1>1. CASE age < wait
  BY <1>1, ConstantFacts DEF Timer
<1>2. CASE ~ age < wait
  <2>1. PICK poll \in n .. base + wait + PollTick - 1 : poll % PollTick = ph
    BY <1>2 DEF Timer
  <2> QED BY <2>1, ConstantFacts
<1> QED BY <1>1, <1>2

(* A tick that passes no poll at which the timer has run out. *)
LEMMA TimerTick ==
  ASSUME NEW base \in Nat, NEW n \in Nat, NEW age \in Nat, NEW wait \in Nat,
         NEW ph \in 0 .. PollTick - 1, NEW next \in Nat,
         Timer(base, n, age, wait, ph),
         n % PollTick = ph => age < wait,
         next = age + 1 \/ (next = age /\ ~ age < wait)
  PROVE  Timer(base, n + 1, next, wait, ph)
<1>1. CASE age < wait
  <2>1. next = age + 1 /\ n <= base + age
    BY <1>1 DEF Timer
  <2>2. CASE next < wait
    BY <2>1, <2>2 DEF Timer
  <2>3. CASE ~ next < wait
    <3>1. n + 1 <= base + wait /\ n + 1 \in Nat
      BY <1>1, <2>1, <2>3
    <3>2. PICK poll \in n + 1 .. (n + 1) + PollTick - 1 : poll % PollTick = ph
      BY <3>1, PollNear
    <3>3. poll \in n + 1 .. base + wait + PollTick - 1
      BY <3>1, <3>2, ConstantFacts
    <3> QED BY <2>3, <3>2, <3>3 DEF Timer
  <2> QED BY <2>2, <2>3
<1>2. CASE ~ age < wait
  <2>1. PICK poll \in n .. base + wait + PollTick - 1 : poll % PollTick = ph
    BY <1>2 DEF Timer
  <2>2. poll # n
    BY <1>2, <2>1
  <2>3. poll \in n + 1 .. base + wait + PollTick - 1 /\ ~ next < wait
    BY <1>2, <2>1, <2>2
  <2> QED BY <2>1, <2>3 DEF Timer
<1> QED BY <1>1, <1>2


-------------------------------------------------------------------------------
(* What the invariant says of the block while it is tracked. *)

(* The entry's wait is one of the waits: the first one again once the      *)
(* block is complete.                                                      *)
LEMMA EntryFacts ==
  ASSUME 0 \in BlockIds, end_lost \in BOOLEAN, NEW e,
         e.total = Total(0), Counted(e)
  PROVE  /\ IsComplete(e) <=> e.received = PacketIds(0)
         /\ e.end_seen = ~end_lost /\ e.rounds \in 0 .. MaxRounds
              => Required(e) = IF e.received = PacketIds(0) THEN Waits[1] ELSE Waits[e.rounds + 1]
<1>1. IsComplete(e) <=> e.received = PacketIds(0)
  <2>1. Total(0) \in Nat
    BY BlockNotEmpty
  <2> QED BY <2>1 DEF IsComplete, Counted
<1>2. ASSUME e.end_seen = ~end_lost, e.rounds \in 0 .. MaxRounds
      PROVE  Required(e) = IF e.received = PacketIds(0) THEN Waits[1] ELSE Waits[e.rounds + 1]
  <2>1. 1 \in 1 .. MaxRounds + 1 /\ e.rounds + 1 \in 1 .. MaxRounds + 1
    BY <1>2, ConstantFacts
  <2>2. /\ Waits[1] = IF end_lost \/ 1 * Grace > IdleTimeout THEN IdleTimeout ELSE 1 * Grace
        /\ Waits[e.rounds + 1] = IF end_lost \/ (e.rounds + 1) * Grace > IdleTimeout
                                 THEN IdleTimeout ELSE (e.rounds + 1) * Grace
    BY <2>1, WaitFacts
  <2>3. CASE end_lost
    <3>1. Required(e) = IdleTimeout
      BY <1>2, <2>3 DEF Required
    <3> QED BY <2>2, <2>3, <3>1
  <2>4. CASE ~end_lost /\ e.received = PacketIds(0)
    <3>1. Required(e) = Grace
      BY <1>1, <1>2, <2>4 DEF Required
    <3>2. Waits[1] = Grace
      BY <2>2, <2>4, ConstantFacts
    <3> QED BY <2>4, <3>1, <3>2
  <2>5. CASE ~end_lost /\ e.received # PacketIds(0)
    <3> DEFINE g == Grace * (e.rounds + 1)
    <3>1. g = (e.rounds + 1) * Grace /\ g \in Nat
      BY <2>1, ConstantFacts
    <3>2. Required(e) = IF g <= IdleTimeout THEN g ELSE IdleTimeout
      BY <1>1, <1>2, <2>5 DEF Required
    <3>3. Waits[e.rounds + 1] = IF g > IdleTimeout THEN IdleTimeout ELSE g
      BY <2>2, <2>5, <3>1
    <3> HIDE DEF g
    <3>4. Required(e) = Waits[e.rounds + 1]
      BY <3>1, <3>2, <3>3, ConstantFacts
    <3> QED BY <2>5, <3>4
  <2> QED BY <1>2, <2>3, <2>4, <2>5
<1> QED BY <1>1, <1>2

LEMMA ActiveFacts ==
  ASSUME RtInv, Active
  PROVE  /\ Tracked = {0} /\ rx_completed = {} /\ closing = {} /\ 0 \in BlockIds
         /\ Entry \in EntryTypes /\ Counted(Entry)
         /\ Entry.rounds \in 0 .. MaxRounds /\ Entry.age \in 0 .. IdleTimeout
         /\ Required(Entry) = IF Delivered THEN Waits[1] ELSE Waits[Entry.rounds + 1]
         /\ 1 \in 1 .. MaxRounds + 1 /\ Entry.rounds + 1 \in 1 .. MaxRounds + 1
         /\ Required(Entry) \in Nat /\ Waits[1] \in Nat /\ Waits[Entry.rounds + 1] \in Nat
         /\ Required(Entry) <= Waits[Entry.rounds + 1] /\ Waits[Entry.rounds + 1] <= LastWait
         /\ LastWait \in Nat /\ end_lost \in BOOLEAN /\ lost \in PacketIds(0)
         /\ now \in Nat /\ rtt \in Nat /\ outage \in Nat /\ phase \in 0 .. PollTick - 1
<1>1. Tracked = {0} /\ rx_completed = {} /\ closing = {} /\ 0 \in BlockIds
  BY DEF RtInv, ShapeGood, Active
<1>2. /\ Entry \in EntryTypes /\ Counted(Entry)
      /\ end_lost \in BOOLEAN /\ lost \in PacketIds(0) /\ now \in Nat /\ rtt \in Nat /\ outage \in Nat
      /\ phase \in 0 .. PollTick - 1
  BY DEF RtInv, ActiveGood, EntryGood, PathGood
<1>3. /\ Entry.rounds \in 0 .. MaxRounds /\ Entry.age \in 0 .. IdleTimeout
      /\ Entry.total = Total(0) /\ Entry.received \in SUBSET PacketIds(0)
      /\ Entry.end_seen = ~end_lost
  BY <1>2 DEF EntryTypes
<1>4. Required(Entry) = IF Delivered THEN Waits[1] ELSE Waits[Entry.rounds + 1]
  BY <1>1, <1>2, <1>3, EntryFacts DEF Delivered
<1>5. /\ 1 \in 1 .. MaxRounds + 1 /\ Entry.rounds + 1 \in 1 .. MaxRounds + 1
      /\ MaxRounds + 1 \in 1 .. MaxRounds + 1
  BY <1>3, ConstantFacts
<1>6. /\ Waits[1] \in Nat /\ Waits[Entry.rounds + 1] \in Nat /\ LastWait \in Nat
      /\ Waits[1] <= Waits[Entry.rounds + 1] /\ Waits[Entry.rounds + 1] <= LastWait
  <2>1. /\ Waits[1] \in 0 .. IdleTimeout /\ Waits[Entry.rounds + 1] \in 0 .. IdleTimeout
        /\ Waits[MaxRounds + 1] \in 0 .. IdleTimeout
    BY <1>5, WaitFacts
  <2>2. Waits[1] <= Waits[Entry.rounds + 1] /\ Waits[Entry.rounds + 1] <= LastWait
    BY <1>5, WaitFacts
  <2> QED BY <2>1, <2>2, ConstantFacts DEF LastWait
<1>7. Required(Entry) \in Nat /\ Required(Entry) <= Waits[Entry.rounds + 1]
  BY <1>4, <1>6
<1> QED BY <1>1, <1>2, <1>3, <1>4, <1>5, <1>6, <1>7


(* How late it can be: while the packet is missing, the next sweep is not  *)
(* late yet.                                                               *)
LEMMA InTime ==
  ASSUME RtInv, Active
  PROVE  /\ ~Delivered => now <= SweepBy(Entry.rounds + 1)
         /\ SweepBy(Entry.rounds) \in Nat /\ SweepBy(Entry.rounds + 1) \in Nat
         /\ SweepBy(Entry.rounds + 1) = SweepBy(Entry.rounds) + Waits[Entry.rounds + 1] + PollTick - 1
<1> DEFINE r == Entry.rounds
<1>1. /\ r \in 0 .. MaxRounds /\ r \in 0 .. MaxRounds + 1 /\ r + 1 \in 0 .. MaxRounds + 1
      /\ Waits[r + 1] \in Nat /\ Entry.age \in Nat /\ now \in Nat
      /\ Required(Entry) \in Nat /\ Required(Entry) <= Waits[r + 1]
  BY ActiveFacts, ConstantFacts
<1>2. /\ SweepBy(r) \in Nat /\ SweepBy(r + 1) \in Nat
      /\ SweepBy(r + 1) = SweepBy(r) + Waits[r + 1] + PollTick - 1
  BY <1>1, SweepFacts
<1>3. ASSUME ~Delivered PROVE now <= SweepBy(r + 1)
  <2>1. StartedBy(SweepBy(r))
    BY <1>3 DEF RtInv, ActiveGood, WaitingGood
  <2>2. now <= SweepBy(r) + Required(Entry) + PollTick - 1
    BY <1>1, <1>2, <2>1, TimerBound DEF StartedBy
  <2> QED BY <1>1, <1>2, <2>2, ConstantFacts
<1> QED BY <1>2, <1>3

-------------------------------------------------------------------------------
(* The steps. *)

LEMMA RtInitInv == RtInit => RtInv
<1> SUFFICES ASSUME RtInit PROVE RtInv
  OBVIOUS
<1>1. /\ rx_blocks = [b \in {} |-> NewEntry(0)] /\ rx_completed = {}
      /\ ready = {} /\ closing = {} /\ gave_up = {} /\ acks = <<>>
      /\ now = 0 /\ due = {} /\ rtt \in Nat /\ outage \in Nat /\ end_lost \in BOOLEAN
      /\ lost \in PacketIds(0) /\ phase \in 0 .. PollTick - 1
  BY RepairTimerAssumption DEF RtInit, RxInit, RcvInit
<1>2. Tracked = {}
  BY <1>1 DEF Tracked
<1>3. PathGood
  <2>1. acks \in Seq(BlockAcks)
    BY <1>1
  <2> QED BY <1>1, <2>1 DEF PathGood
<1>4. ShapeGood
  BY <1>1, <1>2 DEF ShapeGood
<1>5. RepairBudget
  <2>1. MaxRounds + 1 \in 0 .. MaxRounds + 1
    BY ConstantFacts
  <2>2. RepairTime \in Nat /\ Rounding \in Nat
    BY <2>1, SumFacts, RoundingFacts DEF RepairTime
  <2> QED BY <1>1, <2>2 DEF RepairBudget
<1> QED BY <1>2, <1>3, <1>4, <1>5 DEF RtInv, Active

(* What stays as it was when only the sweep does. *)
LEMMA SweepStep == RtInv /\ Sweep => RtInv'
<1> SUFFICES ASSUME RtInv, Sweep PROVE RtInv'
  OBVIOUS
<1>1. /\ ready = {} /\ closing = {} /\ ready' = Ready /\ Ready # {}
      /\ UNCHANGED <<rx_blocks, rx_completed, closing, gave_up, acks, now, pathVars, due>>
  BY DEF Sweep, AckPoll, trackVars, wireVars
<1>2. UNCHANGED <<Waits, WaitsUpTo, RepairTime, LastWait, LastRequest, Rounding, FirstRepairBy,
                LastRepairBy>>
  BY <1>1, SameWaits DEF pathVars
<1>3. /\ Tracked' = Tracked /\ Entry' = Entry /\ (Delivered)' = Delivered
      /\ \A b : SweepBy(b)' = SweepBy(b)
      /\ UNCHANGED <<rtt, outage, lost, end_lost, phase>>
  BY <1>1, <1>2 DEF Tracked, Entry, Delivered, SweepBy, pathVars
<1>4. PathGood'
  BY <1>1, <1>3 DEF RtInv, PathGood
<1>5. Ready \subseteq Tracked
  BY DEF Ready
<1>6. ShapeGood'
  BY <1>1, <1>3, <1>5 DEF RtInv, ShapeGood
<1>7. RepairBudget'
  BY <1>1, <1>2, <1>3 DEF RtInv, RepairBudget
<1>8. ASSUME Active' PROVE ActiveGood'
  <2>1. Active /\ ActiveGood
    BY <1>1, <1>3, <1>8 DEF RtInv, Active
  <2>2. Entry.age >= Required(Entry)
    <3>1. 0 \in Ready
      BY <1>1, <1>5, <2>1, ActiveFacts
    <3> QED BY <3>1 DEF Ready, Entry
  <2>3. EntryTypes' = EntryTypes /\ (Counted(Entry) => Counted(Entry)')
    BY <1>3 DEF EntryTypes, Counted
  <2>4. EntryGood'
    BY <1>1, <1>3, <2>1, <2>2, <2>3 DEF ActiveGood, EntryGood
  <2>5. \A base : StartedBy(base)' <=> StartedBy(base)
    BY <1>1, <1>3 DEF StartedBy
  <2>6. Delivered' => DeliveredGood'
    BY <1>1, <1>2, <1>3, <2>1, <2>5 DEF ActiveGood, DeliveredGood
  <2>7. ~Delivered' => WaitingGood'
    BY <1>1, <1>2, <1>3, <2>1, <2>5 DEF ActiveGood, WaitingGood
  <2> QED BY <2>4, <2>6, <2>7 DEF ActiveGood
<1> QED BY <1>4, <1>6, <1>7, <1>8 DEF RtInv


LEMMA FirstTransmissionStep == RtInv /\ FirstTransmission => RtInv'
<1> SUFFICES ASSUME RtInv, FirstTransmission PROVE RtInv'
  OBVIOUS
<1> DEFINE entry == [NewEntry(Total(0)) EXCEPT !.received = PacketIds(0) \ {lost},
                                               !.received_count = Total(0) - 1,
                                               !.end_seen = ~end_lost]
<1>1. /\ Tracked = {} /\ rx_completed = {}
      /\ UNCHANGED <<rx_completed, ready, closing, gave_up, acks, now, pathVars, due>>
  BY DEF FirstTransmission, ackVars, wireVars
<1>2. rx_blocks' = Put(0, entry)
  BY DEF FirstTransmission
<1>3. /\ now = 0 /\ acks = <<>> /\ due = {} /\ gave_up = {} /\ ready = {} /\ closing = {}
      /\ rtt \in Nat /\ outage \in Nat /\ end_lost \in BOOLEAN /\ phase \in 0 .. PollTick - 1
      /\ lost \in PacketIds(0)
  BY <1>1 DEF RtInv, ShapeGood, PathGood
<1>4. 0 \in BlockIds
  <2>1. TotalChunks \in Nat /\ FitsWord(TotalChunks)
    BY WireAssumption DEF FitsWord
  <2>2. lost \in Nat /\ lost < packets_in_block(0, TotalChunks)
    <3>1. packets_in_block(0, TotalChunks) \in Nat
      BY <2>1, PacketsInBlockRange, BlockArithAssumption
    <3>2. lost \in 0 .. packets_in_block(0, TotalChunks) - 1
      BY <1>3 DEF PacketIds, Packets
    <3> QED BY <3>1, <3>2
  <2>3. 0 * PacketsPerBlock + lost < TotalChunks
    BY <2>1, <2>2, PacketsInBlockRange
  <2>4. TotalChunks <= total_blocks(TotalChunks) * PacketsPerBlock /\ total_blocks(TotalChunks) \in Nat
    BY <2>1, TotalBlocksBounds
  <2>5. total_blocks(TotalChunks) # 0
    BY <2>1, <2>2, <2>3, <2>4, BlockArithAssumption
  <2> QED BY <2>4, <2>5 DEF BlockIds, Blocks
<1>5. UNCHANGED <<Waits, WaitsUpTo, RepairTime, LastWait, LastRequest, Rounding, FirstRepairBy,
                LastRepairBy, rtt, outage, lost, end_lost, phase>>
  BY <1>1, SameWaits DEF pathVars
<1>6. /\ entry.total = Total(0) /\ entry.received = PacketIds(0) \ {lost}
      /\ entry.received_count = Total(0) - 1
      /\ entry.end_seen = ~end_lost /\ entry.rounds = 0 /\ entry.age = 0
      /\ entry \in [total : {Total(0)}, received : SUBSET PacketIds(0),
                    received_count : {Total(0) - 1}, end_seen : {~end_lost}, rounds : {0}, age : {0}]
  BY DEF NewEntry
<1>7. Tracked' = {0} /\ Entry' = entry
  <2> HIDE DEF entry
  <2> QED BY <1>1, <1>2 DEF Tracked, Entry, Put
<1> HIDE DEF entry
<1>8. PathGood'
  BY <1>1, <1>5 DEF RtInv, PathGood
<1>9. ShapeGood'
  BY <1>1, <1>3, <1>4, <1>7 DEF ShapeGood
<1>10. RepairBudget'
  BY <1>1, <1>5 DEF RtInv, RepairBudget
<1>11. EntryTypes' = EntryTypes
  BY <1>5 DEF EntryTypes
<1>12. EntryGood'
  <2>1. entry \in EntryTypes /\ Counted(Entry)'
    BY <1>3, <1>5, <1>6, <1>7, ConstantFacts DEF EntryTypes, Counted
  <2>2. acks' \in Seq(Requests)'
    BY <1>1, <1>3
  <2> QED BY <1>1, <1>3, <1>7, <1>11, <2>1, <2>2 DEF EntryGood
<1>13. ~Delivered'
  BY <1>3, <1>6, <1>7 DEF Delivered
<1>14. ASSUME NEW base \in Nat
       PROVE  Timer(base, now', Entry'.age, Required(Entry'), phase')
  <2>1. Required(entry) = Waits[1]
    <3>1. /\ entry.rounds \in 0 .. MaxRounds /\ Counted(entry)
          /\ entry.received # PacketIds(0) /\ entry.rounds + 1 = 1
      BY <1>3, <1>6, ConstantFacts DEF Counted
    <3> QED BY <1>3, <1>4, <1>6, <3>1, EntryFacts
  <2>2. Waits[1] \in Nat
    <3>1. 1 \in 1 .. MaxRounds + 1
      BY ConstantFacts
    <3> QED BY <3>1, WaitFacts
  <2>3. Timer(base, 0, 0, Waits[1], phase)
    BY <1>3, <2>2, TimerStart
  <2> QED BY <1>1, <1>3, <1>5, <1>6, <1>7, <2>1, <2>3
<1>15. WaitingGood'
  <2>1. WaitsUpTo[0] = 0 /\ SweepBy(0) = 0
    BY SumFacts, SweepFacts
  <2>2. SweepBy(Entry.rounds)' = 0
    BY <1>5, <1>6, <1>7, <2>1 DEF SweepBy
  <2>3. LastWait \in Nat
    <3>1. MaxRounds + 1 \in 1 .. MaxRounds + 1
      BY ConstantFacts
    <3> QED BY <3>1, WaitFacts DEF LastWait
  <2>4. 0 <= outage + LastWait + PollTick - 1
    BY <1>3, <2>3, ConstantFacts
  <2>5. /\ Timer(0, now', Entry'.age, Required(Entry'), phase')
        /\ Timer(outage, now', Entry'.age, Required(Entry'), phase')
    BY <1>3, <1>14
  <2>6. StartedBy(SweepBy(Entry.rounds))'
    BY <2>2, <2>5 DEF StartedBy
  <2>7. StartedBy(outage)'
    BY <1>5, <2>5 DEF StartedBy
  <2> QED BY <1>1, <1>3, <1>5, <1>6, <1>7, <2>1, <2>4, <2>6, <2>7 DEF WaitingGood
<1> QED BY <1>8, <1>9, <1>10, <1>12, <1>13, <1>15 DEF RtInv, ActiveGood

(* Of what a request changes, its repair is in time, and its answer makes  *)
(* room for the next.                                                      *)
LEMMA RequestStep == RtInv /\ Request => RtInv'
<1> SUFFICES ASSUME RtInv, Request PROVE RtInv'
  OBVIOUS
<1>1. /\ acks # <<>> /\ acks' = Tail(acks)
      /\ due' = IF Head(acks).tag = "MISSING" /\ now >= outage
                THEN due \cup {now + rtt} ELSE due
      /\ UNCHANGED <<rx_blocks, rx_completed, ready, closing, gave_up, now, pathVars>>
  BY DEF Request, rcvVars, trackVars, ackVars
<1>2. UNCHANGED <<Waits, WaitsUpTo, RepairTime, LastWait, LastRequest, Rounding, FirstRepairBy,
                LastRepairBy, rtt, outage, lost, end_lost, phase>>
  BY <1>1, SameWaits DEF pathVars
<1>3. /\ Tracked' = Tracked /\ Entry' = Entry /\ (Delivered)' = Delivered
      /\ \A b : SweepBy(b)' = SweepBy(b)
      /\ \A base : StartedBy(base)' <=> StartedBy(base)
  <2>1. Tracked' = Tracked /\ Entry' = Entry /\ (Delivered)' = Delivered
    BY <1>1 DEF Tracked, Entry, Delivered
  <2> QED BY <1>1, <1>2, <2>1 DEF SweepBy, StartedBy
<1>4. now \in Nat /\ rtt \in Nat /\ outage \in Nat /\ due \subseteq Nat /\ acks \in Seq(BlockAcks)
  BY DEF RtInv, PathGood
<1>5. PathGood'
  <2>1. now + rtt \in Nat
    BY <1>4
  <2>2. due' \subseteq Nat
    BY <1>1, <1>4, <2>1
  <2>3. acks' \in Seq(BlockAcks)
    BY <1>1, <1>4
  <2> QED BY <1>1, <1>2, <2>2, <2>3 DEF RtInv, PathGood
<1>6. ShapeGood'
  BY <1>1, <1>3 DEF RtInv, ShapeGood
<1>7. RepairBudget'
  BY <1>1, <1>2 DEF RtInv, RepairBudget
<1>8. ASSUME Active' PROVE ActiveGood'
  <2>1. Active /\ ActiveGood
    BY <1>1, <1>3, <1>8 DEF RtInv, Active
  <2>2. EntryTypes' = EntryTypes /\ (Counted(Entry) => Counted(Entry)')
    BY <1>2, <1>3 DEF EntryTypes, Counted
  <2>3. acks \in Seq(Requests) /\ now <= SweepBy(Entry.rounds)
    BY <1>1, <2>1 DEF ActiveGood, EntryGood
  <2>4. acks' \in Seq(Requests) /\ Head(acks).tag = "MISSING"
    <3>1. Head(acks) \in Requests /\ acks' \in Seq(Requests)
      BY <1>1, <2>3
    <3> QED BY <3>1 DEF Requests
  <2>5. EntryGood'
    BY <1>1, <1>3, <2>1, <2>2, <2>3, <2>4 DEF ActiveGood, EntryGood
  <2>6. /\ \A x : x \in due' => x \in due \/ (x = now + rtt /\ now >= outage)
        /\ due \subseteq due'
        /\ now >= outage => now + rtt \in due'
    BY <1>1, <2>4
  <2>7. ASSUME Delivered PROVE DeliveredGood'
    <3>1. /\ StartedBy(LastRepairBy) /\ now + rtt <= LastRepairBy /\ rtt <= SweepBy(MaxRounds + 1)
          /\ \A x \in due : now <= x /\ x <= LastRepairBy
      BY <1>1, <2>1, <2>7 DEF ActiveGood, DeliveredGood
    <3>2. now <= now + rtt
      BY <1>4
    <3>3. \A x \in due' : now <= x /\ x <= LastRepairBy
      BY <2>6, <3>1, <3>2
    <3> QED BY <1>1, <1>2, <1>3, <3>1, <3>3 DEF DeliveredGood
  <2>8. ASSUME ~Delivered PROVE WaitingGood'
    <3>1. /\ WaitsUpTo[Entry.rounds] + Entry.age <= now
          /\ StartedBy(SweepBy(Entry.rounds))
          /\ \A x \in due : now <= x /\ rtt <= x /\ x <= LastRepairBy
          /\ due # {} => \E x \in due : x <= FirstRepairBy
          /\ due = {} => now <= outage + LastWait + PollTick - 1
      BY <2>1, <2>8 DEF ActiveGood, WaitingGood
    <3>2. now <= FirstRepairBy /\ FirstRepairBy = rtt + outage + LastWait + PollTick - 1
      <4>1. FirstRepairBy = rtt + outage + LastWait + PollTick - 1 /\ LastWait \in Nat
        BY <1>4, LateFacts DEF FirstRepairBy
      <4>2. CASE due = {}
        BY <1>4, <3>1, <4>1, <4>2, ConstantFacts
      <4>3. CASE due # {}
        <5>1. PICK x \in due : x <= FirstRepairBy
          BY <3>1, <4>3
        <5>2. now <= x /\ x \in Nat /\ FirstRepairBy \in Nat
          BY <1>4, <3>1, LateFacts
        <5> QED BY <1>4, <4>1, <5>1, <5>2
      <4> QED BY <4>1, <4>2, <4>3
    <3>3. now <= SweepBy(MaxRounds)
      <4>1. Entry.rounds \in 0 .. MaxRounds
        BY <2>1, ActiveFacts
      <4>2. /\ SweepBy(Entry.rounds) <= SweepBy(MaxRounds)
            /\ SweepBy(Entry.rounds) \in Nat /\ SweepBy(MaxRounds) \in Nat
        <5>1. Entry.rounds \in 0 .. MaxRounds + 1 /\ MaxRounds \in 0 .. MaxRounds + 1
          BY <4>1, ConstantFacts
        <5> QED BY <4>1, <5>1, SweepFacts
      <4> QED BY <1>4, <2>3, <4>2
    <3>4. now + rtt <= LastRepairBy /\ now <= now + rtt /\ rtt <= now + rtt
      BY <1>4, <3>2, <3>3, LateFacts
    <3>5. \A x \in due' : now <= x /\ rtt <= x /\ x <= LastRepairBy
      BY <2>6, <3>1, <3>4
    <3>6. ASSUME due' # {} PROVE \E x \in due' : x <= FirstRepairBy
      <4>1. CASE due # {}
        BY <2>6, <3>1, <4>1
      <4>2. CASE due = {}
        <5>1. now + rtt \in due'
          BY <2>6, <3>6, <4>2
        <5>2. LastWait \in Nat
          BY <1>4, LateFacts
        <5>3. now + rtt <= FirstRepairBy
          BY <1>4, <3>1, <3>2, <4>2, <5>2, ConstantFacts
        <5> QED BY <5>1, <5>3
      <4> QED BY <4>1, <4>2
    <3>7. ASSUME due' = {} PROVE now <= outage + LastWait + PollTick - 1 /\ StartedBy(outage)
      <4>1. due = {} /\ ~(now >= outage)
        BY <2>6, <3>7
      <4>2. now <= outage
        BY <1>4, <4>1
      <4>3. Entry.age \in Nat /\ Required(Entry) \in Nat /\ phase \in 0 .. PollTick - 1
        BY <2>1, ActiveFacts
      <4>4. StartedBy(outage)
        BY <1>4, <4>2, <4>3, TimerStart DEF StartedBy
      <4> QED BY <3>1, <4>1, <4>4
    <3> QED BY <1>1, <1>2, <1>3, <3>1, <3>5, <3>6, <3>7 DEF WaitingGood
  <2> QED BY <1>3, <2>5, <2>7, <2>8 DEF ActiveGood
<1> QED BY <1>5, <1>6, <1>7, <1>8 DEF RtInv


(* A repaired entry is a complete one whose timer starts. *)
LEMMA RepairedEntry ==
  ASSUME 0 \in BlockIds, lost \in PacketIds(0), NEW e \in EntryTypes, Counted(e)
  PROVE  LET repaired == [Marked(e, lost) EXCEPT !.age = 0]
         IN  /\ repaired \in EntryTypes /\ Counted(repaired)
             /\ repaired.total = Total(0) /\ repaired.received = PacketIds(0)
             /\ repaired.end_seen = ~end_lost
             /\ repaired.rounds = e.rounds /\ repaired.age = 0
<1>1. /\ Total(0) \in Nat /\ lost \in 0 .. e.total - 1
      /\ 0 \in 0 .. IdleTimeout
  BY BlockNotEmpty, ConstantFacts DEF EntryTypes
<1> DEFINE m == Marked(e, lost)
<1>2. /\ m \in EntryTypes /\ m.rounds = e.rounds
      /\ m.received = PacketIds(0) /\ m.received_count = Total(0)
  <2>1. CASE lost \in e.received
    <3>1. m = e /\ e.received = PacketIds(0)
      BY <2>1 DEF Marked, Counted
    <3> QED BY <3>1 DEF Counted
  <2>2. CASE lost \notin e.received
    <3> DEFINE counted == [e EXCEPT !.received = @ \cup {lost}, !.received_count = @ + 1]
    <3>1. m = counted
      BY <1>1, <2>2 DEF Marked
    <3>2. e.received \cup {lost} = PacketIds(0) /\ e.received_count + 1 = Total(0)
      BY <1>1, <2>2 DEF Counted
    <3>3. /\ counted.received = PacketIds(0) /\ counted.received_count = Total(0)
          /\ counted.rounds = e.rounds
      BY <3>2 DEF EntryTypes
    <3>4. counted \in EntryTypes
      BY <1>1, <3>2 DEF EntryTypes
    <3> HIDE DEF counted, m
    <3> QED BY <3>1, <3>3, <3>4
  <2> QED BY <2>1, <2>2
<1> HIDE DEF m
<1> DEFINE repaired == [m EXCEPT !.age = 0]
<1>3. repaired \in EntryTypes
  BY <1>1, <1>2 DEF EntryTypes
<1>4. /\ repaired.received = PacketIds(0) /\ repaired.received_count = Total(0)
      /\ repaired.rounds = e.rounds /\ repaired.age = 0
  BY <1>2 DEF EntryTypes
<1>5. repaired.total = Total(0) /\ repaired.end_seen = ~end_lost
  BY <1>3 DEF EntryTypes
<1>6. Counted(repaired)
  <2> HIDE DEF repaired
  <2> QED BY <1>4, <1>5 DEF Counted
<1> QED BY <1>3, <1>4, <1>5, <1>6 DEF m

(* A repair starts the timer again: the first one before the next sweep    *)
(* was late, the others no later than the last one arrives.                *)
LEMMA RepairStep == RtInv /\ Repair => RtInv'
<1> SUFFICES ASSUME RtInv, Repair PROVE RtInv'
  OBVIOUS
<1> DEFINE entry == [Marked(EntryOf(0, Total(0)), lost) EXCEPT !.age = 0]
<1>1. /\ now \in due /\ due' = due \ {now}
      /\ rx_blocks' = IF 0 \in rx_completed THEN rx_blocks ELSE Put(0, entry)
      /\ UNCHANGED <<rx_completed, ready, closing, gave_up, acks, now, pathVars>>
  BY DEF Repair, Upsert, ackVars, wireVars
<1>2. UNCHANGED <<Waits, WaitsUpTo, RepairTime, LastWait, LastRequest, Rounding, FirstRepairBy,
                LastRepairBy, rtt, outage, lost, end_lost, phase>>
  BY <1>1, SameWaits DEF pathVars
<1>3. PathGood'
  BY <1>1, <1>2 DEF RtInv, PathGood
<1>4. RepairBudget'
  BY <1>1, <1>2 DEF RtInv, RepairBudget
<1>5. CASE Tracked = {}
  <2>1. rx_completed = {0} /\ rx_blocks' = rx_blocks
    BY <1>1, <1>5 DEF RtInv, ShapeGood
  <2>2. Tracked' = {}
    BY <1>5, <2>1 DEF Tracked
  <2>3. ShapeGood'
    BY <1>1, <1>5, <2>1, <2>2 DEF RtInv, ShapeGood
  <2> QED BY <1>3, <1>4, <2>2, <2>3 DEF RtInv, Active
<1>6. CASE Tracked # {}
  <2>1. Tracked = {0} /\ rx_completed = {} /\ 0 \in BlockIds
    BY <1>6 DEF RtInv, ShapeGood
  <2>2. entry = [Marked(Entry, lost) EXCEPT !.age = 0]
    BY <2>1 DEF EntryOf, Entry
  <2>3. rx_blocks' = Put(0, entry)
    BY <1>1, <2>1
  <2>4. Tracked' = {0} /\ Entry' = entry
    <3> HIDE DEF entry
    <3> QED BY <2>1, <2>3 DEF Tracked, Entry, Put
  <2>5. ShapeGood'
    BY <1>1, <2>1, <2>4 DEF RtInv, ShapeGood
  <2>6. ASSUME Active' PROVE ActiveGood'
    <3> DEFINE r == Entry.rounds
    <3>1. Active /\ ActiveGood
      BY <1>1, <1>6, <2>6 DEF RtInv, Active
    <3>2. /\ Entry \in EntryTypes /\ Counted(Entry) /\ gave_up = {} /\ acks \in Seq(Requests)
          /\ acks # <<>> => now <= SweepBy(r)
      BY <3>1 DEF ActiveGood, EntryGood
    <3> HIDE DEF entry
    <3>3. /\ r \in 0 .. MaxRounds /\ Waits[1] \in Nat /\ now \in Nat /\ phase \in 0 .. PollTick - 1
          /\ end_lost \in BOOLEAN /\ lost \in PacketIds(0) /\ rtt \in Nat /\ outage \in Nat
          /\ due \subseteq Nat
      BY <3>1, ActiveFacts DEF RtInv, PathGood
    <3>4. /\ entry.total = Total(0) /\ entry.received = PacketIds(0) /\ Counted(entry)
          /\ entry.end_seen = ~end_lost /\ entry.rounds = r /\ entry.age = 0
          /\ entry \in EntryTypes
      BY <2>1, <2>2, <3>2, <3>3, RepairedEntry
    <3>5. Required(entry) = Waits[1]
      BY <2>1, <3>3, <3>4, EntryFacts
    <3>6. Delivered'
      BY <1>2, <2>4, <3>4 DEF Delivered
    <3>7. EntryGood'
      <4>1. EntryTypes' = EntryTypes /\ Counted(Entry)'
        BY <1>2, <2>4, <3>4 DEF EntryTypes, Counted
      <4>2. SweepBy(Entry.rounds)' = SweepBy(r)
        BY <1>2, <2>4, <3>4 DEF SweepBy
      <4> QED BY <1>1, <2>4, <3>2, <3>4, <3>6, <4>1, <4>2 DEF EntryGood
    <3>8. /\ LastRepairBy \in Nat /\ FirstRepairBy \in Nat
          /\ now <= LastRepairBy /\ \A x \in due : now <= x /\ x <= LastRepairBy
          /\ acks # <<>> => now + rtt <= LastRepairBy
          /\ rtt <= SweepBy(MaxRounds + 1)
      <4>1. LastRepairBy \in Nat /\ FirstRepairBy \in Nat
        BY <3>3, LateFacts
      <4>2. CASE Delivered
        BY <1>1, <3>1, <4>1, <4>2 DEF ActiveGood, DeliveredGood
      <4>3. CASE ~Delivered
        <5>1. /\ \A x \in due : now <= x /\ rtt <= x /\ x <= LastRepairBy
              /\ \E x \in due : x <= FirstRepairBy
          BY <1>1, <3>1, <4>3 DEF ActiveGood, WaitingGood
        <5>2. now <= FirstRepairBy
          BY <3>3, <4>1, <5>1
        <5>3. /\ now <= SweepBy(r + 1) /\ SweepBy(r + 1) <= SweepBy(MaxRounds + 1)
              /\ SweepBy(r) <= SweepBy(MaxRounds)
              /\ SweepBy(r) \in Nat /\ SweepBy(r + 1) \in Nat
              /\ SweepBy(MaxRounds) \in Nat /\ SweepBy(MaxRounds + 1) \in Nat
          <6>1. /\ r \in 0 .. MaxRounds + 1 /\ r + 1 \in 0 .. MaxRounds + 1
                /\ MaxRounds \in 0 .. MaxRounds + 1 /\ MaxRounds + 1 \in 0 .. MaxRounds + 1
            BY <3>3, ConstantFacts
          <6> QED BY <3>1, <3>3, <4>3, <6>1, InTime, SweepFacts
        <5>4. rtt <= SweepBy(MaxRounds + 1)
          BY <1>1, <3>3, <5>1, <5>3
        <5>5. ASSUME acks # <<>> PROVE now + rtt <= LastRepairBy
          <6>1. now <= SweepBy(MaxRounds)
            BY <3>2, <3>3, <5>3, <5>5
          <6> QED BY <3>3, <5>2, <6>1, LateFacts
        <5> QED BY <1>1, <4>1, <5>1, <5>4, <5>5
      <4> QED BY <4>2, <4>3
    <3>9. StartedBy(LastRepairBy)'
      <4>1. Timer(LastRepairBy, now, 0, Waits[1], phase)
        BY <3>3, <3>8, TimerStart
      <4> QED BY <1>1, <1>2, <2>4, <3>4, <3>5, <4>1 DEF StartedBy
    <3>10. DeliveredGood'
      <4>1. SweepBy(MaxRounds + 1)' = SweepBy(MaxRounds + 1)
        BY <1>2 DEF SweepBy
      <4> QED BY <1>1, <1>2, <3>8, <3>9, <4>1 DEF DeliveredGood
    <3> QED BY <3>6, <3>7, <3>10 DEF ActiveGood
  <2> QED BY <1>3, <1>4, <2>5, <2>6 DEF RtInv
<1> QED BY <1>5, <1>6

(* What the four ways to handle a block of the sweep have in common. *)
LEMMA CheckFacts ==
  ASSUME RtInv, NEW b \in ready, StartCheck(b)
  PROVE  /\ b = 0 /\ Active /\ ActiveGood /\ Tracked' = {0}
         /\ Entry' = [Entry EXCEPT !.rounds = @ + 1, !.age = 0]
         /\ Snapshot(b) = Entry'
         /\ IsComplete(Snapshot(b)) <=> Delivered
         /\ OutOfRounds(Snapshot(b)) <=> Entry.rounds = MaxRounds
         /\ UNCHANGED rx_completed
<1>1. b = 0 /\ Active
  <2>1. Tracked = {0} /\ b \in Tracked /\ closing = {}
    BY DEF RtInv, ShapeGood, StartCheck
  <2> QED BY <2>1 DEF Active
<1>2. ActiveGood
  BY <1>1 DEF RtInv
<1>3. /\ rx_blocks' = Put(0, Snapshot(0)) /\ UNCHANGED rx_completed
      /\ Snapshot(0) = [Entry EXCEPT !.rounds = @ + 1, !.age = 0]
  BY <1>1 DEF StartCheck, Snapshot, Entry
<1>4. /\ Tracked = {0} /\ 0 \in BlockIds /\ Entry \in EntryTypes /\ Counted(Entry)
      /\ Entry.rounds \in 0 .. MaxRounds /\ end_lost \in BOOLEAN
  BY <1>1, ActiveFacts
<1>5. Tracked' = {0} /\ Entry' = Snapshot(0)
  BY <1>3, <1>4 DEF Tracked, Put, Entry
<1>6. /\ Snapshot(0).total = Total(0) /\ Snapshot(0).received = Entry.received
      /\ Snapshot(0).received_count = Entry.received_count
      /\ Snapshot(0).rounds = Entry.rounds + 1 /\ Counted(Snapshot(0))
  BY <1>3, <1>4 DEF EntryTypes, Counted
<1>7. IsComplete(Snapshot(0)) <=> Delivered
  BY <1>4, <1>6, EntryFacts DEF Delivered
<1>8. OutOfRounds(Snapshot(0)) <=> Entry.rounds = MaxRounds
  BY <1>4, <1>6, ConstantFacts DEF OutOfRounds
<1> QED BY <1>1, <1>2, <1>3, <1>5, <1>7, <1>8


(* A sweep that asks for the packet: one more wait has passed. *)
LEMMA AckMissingStep ==
  RtInv /\ AckMissing /\ UNCHANGED <<now, pathVars, due>> => RtInv'
<1> SUFFICES ASSUME RtInv, AckMissing, UNCHANGED <<now, pathVars, due>> PROVE RtInv'
  OBVIOUS
<1>1. PICK b \in ready :
        /\ StartCheck(b) /\ ~IsComplete(Snapshot(b)) /\ ~OutOfRounds(Snapshot(b))
        /\ acks' = Append(acks, Missing(b, MissingIds(Snapshot(b))))
        /\ ready' = ready \ {b}
        /\ UNCHANGED <<closing, gave_up>>
  BY DEF AckMissing
<1> DEFINE r == Entry.rounds
<1>2. /\ b = 0 /\ Active /\ ActiveGood /\ Tracked' = {0} /\ UNCHANGED rx_completed
      /\ Entry' = [Entry EXCEPT !.rounds = @ + 1, !.age = 0]
      /\ Snapshot(b) = Entry' /\ ~Delivered /\ r # MaxRounds
  BY <1>1, CheckFacts
<1>3. UNCHANGED <<Waits, WaitsUpTo, RepairTime, LastWait, LastRequest, Rounding, FirstRepairBy,
                LastRepairBy, rtt, outage, lost, end_lost, phase>>
  BY SameWaits DEF pathVars
<1>4. /\ Tracked = {0} /\ rx_completed = {} /\ closing = {} /\ 0 \in BlockIds
      /\ Entry \in EntryTypes /\ Counted(Entry)
      /\ r \in 0 .. MaxRounds /\ Entry.age \in Nat /\ Required(Entry) = Waits[r + 1]
      /\ Waits[r + 1] \in Nat /\ now \in Nat /\ outage \in Nat /\ phase \in 0 .. PollTick - 1
      /\ end_lost \in BOOLEAN
  BY <1>2, ActiveFacts
<1>5. /\ Entry' \in EntryTypes /\ Entry'.rounds = r + 1 /\ Entry'.age = 0
      /\ Entry'.received = Entry.received /\ Entry'.total = Total(0) /\ Entry'.end_seen = ~end_lost
      /\ Counted(Entry') /\ Counted(Entry)'
  <2>1. r + 1 \in 0 .. MaxRounds /\ 0 \in 0 .. IdleTimeout
    BY <1>2, <1>4, ConstantFacts
  <2> DEFINE next == [Entry EXCEPT !.rounds = @ + 1, !.age = 0]
  <2>2. next \in EntryTypes
    BY <1>4, <2>1 DEF EntryTypes
  <2>3. /\ next.rounds = r + 1 /\ next.age = 0 /\ next.received = Entry.received
        /\ next.received_count = Entry.received_count
    BY <1>4 DEF EntryTypes
  <2>4. next.total = Total(0) /\ next.end_seen = ~end_lost
    BY <2>2 DEF EntryTypes
  <2> HIDE DEF next
  <2>5. Entry' = next
    BY <1>2 DEF next
  <2>6. Counted(next)
    BY <1>4, <2>3 DEF Counted
  <2>7. Counted(Entry)'
    BY <1>3, <2>5, <2>6 DEF Counted
  <2> QED BY <2>2, <2>3, <2>4, <2>5, <2>6, <2>7
<1>6. ~Delivered'
  BY <1>2, <1>3, <1>5 DEF Delivered
<1>7. /\ now <= SweepBy(r + 1) /\ SweepBy(r + 1) \in Nat
      /\ SweepBy(Entry.rounds)' = SweepBy(r + 1)
  BY <1>2, <1>3, <1>5, InTime DEF SweepBy
<1>8. acks \in Seq(Requests) /\ acks' \in Seq(Requests) /\ acks' # <<>> /\ gave_up = {}
  <2>1. MissingIds(Snapshot(b)) \in SUBSET PacketIds(0)
    <3>1. MissingIds(Entry') \subseteq 0 .. Total(0) - 1
      BY <1>5 DEF MissingIds
    <3> QED BY <1>2, <1>4, <3>1, BlockNotEmpty
  <2>2. Missing(0, MissingIds(Snapshot(b))) \in Requests
    <3>1. Missing(0, MissingIds(Snapshot(b))) \in BlockAcks
      BY <1>4, <2>1, AckTypes
    <3> QED BY <3>1 DEF Requests, Missing
  <2>3. acks \in Seq(Requests) /\ gave_up = {}
    BY <1>2 DEF ActiveGood, EntryGood
  <2>4. \A m \in Requests : Append(acks, m) \in Seq(Requests) /\ Append(acks, m) # <<>>
    BY <2>3, AppendProperties
  <2> QED BY <1>1, <1>2, <2>2, <2>3, <2>4
<1>9. PathGood'
  <2>1. acks' \in Seq(BlockAcks)
    <3>1. Requests \subseteq BlockAcks
      BY DEF Requests
    <3>2. Len(acks') \in Nat /\ \A i \in 1 .. Len(acks') : acks'[i] \in BlockAcks
      BY <1>8, <3>1
    <3> QED BY <1>8, <3>2
  <2> QED BY <1>3, <2>1 DEF RtInv, PathGood
<1>10. ShapeGood'
  BY <1>1, <1>2, <1>4 DEF RtInv, ShapeGood
<1>11. RepairBudget'
  BY <1>1, <1>2, <1>3 DEF RtInv, RepairBudget
<1>12. EntryGood'
  <2>1. EntryTypes' = EntryTypes /\ Requests' = Requests
    BY <1>3 DEF EntryTypes, Requests
  <2>2. ready' = {}
    BY <1>1, <1>2, <1>4 DEF RtInv, ShapeGood
  <2> QED BY <1>1, <1>5, <1>7, <1>8, <2>1, <2>2 DEF EntryGood
<1>13. WaitingGood'
  <2>1. /\ WaitsUpTo[r] + Entry.age <= now
        /\ \A x \in due : now <= x /\ rtt <= x /\ x <= LastRepairBy
        /\ due # {} => \E x \in due : x <= FirstRepairBy
        /\ due = {} => now <= outage + LastWait + PollTick - 1
    BY <1>2 DEF ActiveGood, WaitingGood
  <2>2. WaitsUpTo[r + 1] + 0 <= now
    <3>1. Entry.age >= Waits[r + 1]
      BY <1>1, <1>2, <1>4 DEF ActiveGood, EntryGood
    <3>2. WaitsUpTo[r + 1] = WaitsUpTo[r] + Waits[r + 1] /\ WaitsUpTo[r] \in Nat
      <4>1. r \in 0 .. MaxRounds + 1
        BY <1>4, ConstantFacts
      <4> QED BY <1>4, <4>1, SumFacts
    <3> QED BY <1>4, <2>1, <3>1, <3>2
  <2>3. StartedBy(SweepBy(Entry.rounds))'
    <3>1. Required(Entry') \in Nat
      <4>1. Entry'.rounds \in 0 .. MaxRounds
        BY <1>5 DEF EntryTypes
      <4>2. Entry'.received # PacketIds(0)
        BY <1>2, <1>5 DEF Delivered
      <4>3. Required(Entry') = Waits[Entry'.rounds + 1]
        BY <1>4, <1>5, <4>1, <4>2, EntryFacts
      <4>4. Entry'.rounds + 1 \in 1 .. MaxRounds + 1
        BY <4>1, ConstantFacts
      <4>5. Waits[Entry'.rounds + 1] \in 0 .. IdleTimeout
        BY <4>4, WaitFacts
      <4> QED BY <4>3, <4>5, ConstantFacts
    <3>2. Timer(SweepBy(r + 1), now, 0, Required(Entry'), phase)
      BY <1>4, <1>7, <3>1, TimerStart
    <3> QED BY <1>3, <1>5, <1>7, <3>2 DEF StartedBy
  <2> QED BY <1>3, <1>5, <1>8, <2>1, <2>2, <2>3 DEF WaitingGood
<1> QED BY <1>6, <1>9, <1>10, <1>11, <1>12, <1>13 DEF RtInv, ActiveGood

(* The last sweep comes so late that a repair within the budget has been   *)
(* there.                                                                  *)
LEMMA AckGiveUpStep ==
  RtInv /\ AckGiveUp /\ UNCHANGED <<now, pathVars, due>> => RtInv'
<1> SUFFICES ASSUME RtInv, AckGiveUp, UNCHANGED <<now, pathVars, due>> PROVE RtInv'
  OBVIOUS
<1>1. PICK b \in ready :
        /\ StartCheck(b) /\ ~IsComplete(Snapshot(b)) /\ OutOfRounds(Snapshot(b))
        /\ acks' = Append(acks, Complete(b)) /\ closing' = {b} /\ UNCHANGED ready
        /\ gave_up' = gave_up \cup {b}
  BY DEF AckGiveUp, SendComplete
<1> DEFINE r == Entry.rounds
<1>2. /\ b = 0 /\ Active /\ ActiveGood /\ Tracked' = {0} /\ UNCHANGED rx_completed
      /\ ~Delivered /\ r = MaxRounds
  BY <1>1, CheckFacts
<1>3. UNCHANGED <<Waits, WaitsUpTo, RepairTime, LastWait, LastRequest, Rounding, FirstRepairBy,
                LastRepairBy, rtt, outage, lost, end_lost, phase>>
  BY SameWaits DEF pathVars
<1>4. /\ Tracked = {0} /\ rx_completed = {} /\ 0 \in BlockIds
      /\ Entry.age \in Nat /\ Required(Entry) = Waits[r + 1] /\ Waits[r + 1] \in Nat
      /\ now \in Nat /\ rtt \in Nat /\ outage \in Nat /\ LastWait \in Nat
      /\ r \in 0 .. MaxRounds
  BY <1>2, ActiveFacts
<1>5. PathGood'
  <2>1. acks' \in Seq(BlockAcks)
    <3>1. acks \in Seq(BlockAcks) /\ Complete(0) \in BlockAcks
      BY <1>4, AckTypes DEF RtInv, PathGood
    <3> QED BY <1>1, <1>2, <3>1
  <2> QED BY <1>3, <2>1 DEF RtInv, PathGood
<1>6. ShapeGood'
  BY <1>1, <1>2, <1>4 DEF RtInv, ShapeGood
<1>7. ~Active'
  BY <1>1 DEF Active
<1>8. /\ WaitsUpTo[r] + Entry.age <= now
      /\ \A x \in due : now <= x
      /\ due # {} => \E x \in due : x <= FirstRepairBy
      /\ due = {} => now <= outage + LastWait + PollTick - 1
      /\ Entry.age >= Waits[r + 1]
  BY <1>1, <1>2, <1>4 DEF ActiveGood, WaitingGood, EntryGood
<1>9. RepairTime <= now /\ RepairTime \in Nat
  <2>1. /\ WaitsUpTo[r + 1] = WaitsUpTo[r] + Waits[r + 1] /\ WaitsUpTo[r] \in Nat
        /\ RepairTime = WaitsUpTo[r + 1] /\ WaitsUpTo[r + 1] \in Nat
    <3>1. r \in 0 .. MaxRounds /\ r \in 0 .. MaxRounds + 1 /\ r + 1 \in 0 .. MaxRounds + 1
      BY <1>2, ConstantFacts
    <3> QED BY <1>2, <3>1, SumFacts DEF RepairTime
  <2> QED BY <1>4, <1>8, <2>1
<1>10. now <= rtt + outage + LastWait + PollTick - 1
  <2>1. CASE due = {}
    BY <1>4, <1>8, <2>1, ConstantFacts
  <2>2. CASE due # {}
    <3>1. PICK x \in due : x <= FirstRepairBy
      BY <1>8, <2>2
    <3>2. x \in Nat /\ now <= x
      BY <1>8 DEF RtInv, PathGood
    <3> QED BY <1>4, <3>1, <3>2, ConstantFacts DEF FirstRepairBy
  <2> QED BY <2>1, <2>2
<1>11. ~(rtt + outage + LastWait + PollTick <= RepairTime)
  BY <1>4, <1>9, <1>10, ConstantFacts
<1>12. now <= Rounding + RepairTime
  <2>1. now <= SweepBy(MaxRounds + 1) /\ SweepBy(MaxRounds + 1) \in Nat
    BY <1>2, InTime
  <2> DEFINE late == (MaxRounds + 1) * (PollTick - 1)
  <2>2. SweepBy(MaxRounds + 1) = RepairTime + late /\ Rounding = late + (PollTick - 1)
    BY SweepFacts, RoundingFacts
  <2>3. late \in Nat /\ PollTick - 1 \in Nat
    BY RoundingFacts, ConstantFacts
  <2> HIDE DEF late
  <2> QED BY <1>4, <1>9, <2>1, <2>2, <2>3
<1>13. RepairBudget'
  <2>1. gave_up' # {}
    BY <1>1
  <2>2. now <= 2 * RepairTime + 2 * Rounding
    BY DEF RtInv, RepairBudget
  <2> QED BY <1>3, <1>11, <1>12, <2>1, <2>2 DEF RepairBudget, LastWait
<1> QED BY <1>5, <1>6, <1>7, <1>13 DEF RtInv

LEMMA AckCompleteStep ==
  RtInv /\ AckComplete /\ UNCHANGED <<now, pathVars, due>> => RtInv'
<1> SUFFICES ASSUME RtInv, AckComplete, UNCHANGED <<now, pathVars, due>> PROVE RtInv'
  OBVIOUS
<1>1. PICK b \in ready :
        /\ StartCheck(b) /\ IsComplete(Snapshot(b))
        /\ acks' = Append(acks, Complete(b)) /\ closing' = {b}
        /\ UNCHANGED <<ready, gave_up>>
  BY DEF AckComplete, SendComplete
<1>2. /\ b = 0 /\ Active /\ ActiveGood /\ Delivered /\ Tracked' = {0}
      /\ UNCHANGED rx_completed
  BY <1>1, CheckFacts
<1>3. UNCHANGED <<Waits, WaitsUpTo, RepairTime, LastWait, LastRequest, Rounding, FirstRepairBy,
                LastRepairBy, rtt, outage, lost, end_lost, phase>>
  BY SameWaits DEF pathVars
<1>4. Tracked = {0} /\ rx_completed = {} /\ 0 \in BlockIds
  BY <1>2, ActiveFacts
<1>5. PathGood'
  <2>1. acks' \in Seq(BlockAcks)
    <3>1. acks \in Seq(BlockAcks) /\ Complete(0) \in BlockAcks
      BY <1>4, AckTypes DEF RtInv, PathGood
    <3> QED BY <1>1, <1>2, <3>1
  <2> QED BY <1>3, <2>1 DEF RtInv, PathGood
<1>6. ShapeGood'
  BY <1>1, <1>2, <1>4 DEF RtInv, ShapeGood
<1>7. ~Active'
  BY <1>1 DEF Active
<1>8. now <= Rounding + LastRequest + rtt + Waits[1]
  <2>1. /\ Required(Entry) = Waits[1] /\ Waits[1] \in Nat /\ Entry.age \in Nat
        /\ now \in Nat /\ rtt \in Nat /\ outage \in Nat
    BY <1>2, ActiveFacts
  <2>2. LastRepairBy \in Nat /\ LastRequest \in Nat
    BY <2>1, LateFacts
  <2>3. now <= LastRepairBy + Waits[1] + PollTick - 1
    BY <1>2, <2>1, <2>2, TimerBound DEF ActiveGood, DeliveredGood, StartedBy
  <2> DEFINE late == (MaxRounds + 1) * (PollTick - 1)
  <2>4. late \in Nat /\ PollTick - 1 \in Nat /\ Rounding = late + (PollTick - 1)
    BY RoundingFacts, ConstantFacts
  <2>5. LastRepairBy <= LastRequest + rtt + late
    BY <2>1, LateFacts
  <2> HIDE DEF late
  <2> QED BY <2>1, <2>2, <2>3, <2>4, <2>5
<1>9. RepairBudget'
  <2>1. gave_up = {}
    BY <1>2 DEF ActiveGood, EntryGood
  <2>2. LastRequest \in Nat /\ rtt \in Nat /\ Waits[1] \in Nat /\ Rounding \in Nat
    BY <1>2, ActiveFacts, LateFacts, RoundingFacts
  <2>3. now <= Rounding + (LastRequest + rtt + Waits[1])
    BY <1>8, <2>2
  <2>4. now <= 2 * RepairTime + 2 * Rounding
    BY DEF RtInv, RepairBudget
  <2> QED BY <1>1, <1>3, <2>1, <2>3, <2>4 DEF RepairBudget
<1> QED BY <1>5, <1>6, <1>7, <1>9 DEF RtInv

LEMMA AckRemoveStep ==
  RtInv /\ AckRemove /\ UNCHANGED <<now, pathVars, due>> => RtInv'
<1> SUFFICES ASSUME RtInv, AckRemove, UNCHANGED <<now, pathVars, due>> PROVE RtInv'
  OBVIOUS
<1>1. PICK b \in closing :
        /\ rx_blocks' = [x \in Tracked \ {b} |-> rx_blocks[x]]
        /\ rx_completed' = rx_completed \cup {b}
        /\ ready' = ready \ {b} /\ closing' = {} /\ UNCHANGED <<gave_up, acks>>
  BY DEF AckRemove, wireVars
<1>2. Tracked = {0} /\ b = 0 /\ rx_completed = {} /\ ready \subseteq {0}
  BY <1>1 DEF RtInv, ShapeGood
<1>3. UNCHANGED <<Waits, WaitsUpTo, RepairTime, LastWait, LastRequest, Rounding, FirstRepairBy,
                LastRepairBy, rtt, outage, lost, end_lost, phase>>
  BY SameWaits DEF pathVars
<1>4. Tracked' = {} /\ rx_completed' = {0} /\ ready' = {}
  BY <1>1, <1>2 DEF Tracked
<1>5. PathGood'
  BY <1>1, <1>3 DEF RtInv, PathGood
<1>6. ShapeGood'
  BY <1>1, <1>4 DEF ShapeGood
<1>7. RepairBudget'
  BY <1>1, <1>3 DEF RtInv, RepairBudget
<1> QED BY <1>4, <1>5, <1>6, <1>7 DEF RtInv, Active


(* Time passes only when no sweep is possible, so no timer that has run    *)
(* out goes past the poll that looks at it.                                *)
LEMMA PassStep == RtInv /\ Pass => RtInv'
<1> SUFFICES ASSUME RtInv, Pass PROVE RtInv'
  OBVIOUS
<1> DEFINE r == Entry.rounds
<1>1. /\ Tracked # {} /\ acks = <<>> /\ now \notin due /\ ready = {} /\ closing = {}
      /\ now % PollTick = phase => Ready = {}
      /\ now' = now + 1
      /\ UNCHANGED <<rx_completed, ready, closing, gave_up, acks, pathVars, due>>
  BY DEF Pass, Idle, RcvTick, rxVars, rcvVars, trackVars, ackVars, wireVars
<1>2. UNCHANGED <<Waits, WaitsUpTo, RepairTime, LastWait, LastRequest, Rounding, FirstRepairBy,
                LastRepairBy, rtt, outage, lost, end_lost, phase>>
  BY <1>1, SameWaits DEF pathVars
<1>3. Active /\ ActiveGood
  BY <1>1 DEF RtInv, Active
<1>4. /\ Tracked = {0} /\ 0 \in BlockIds /\ rx_completed = {}
      /\ Entry \in EntryTypes /\ Counted(Entry) /\ r \in 0 .. MaxRounds
      /\ Entry.age \in 0 .. IdleTimeout /\ Entry.age \in Nat
      /\ Required(Entry) = IF Delivered THEN Waits[1] ELSE Waits[r + 1]
      /\ Required(Entry) \in Nat /\ Required(Entry) <= Waits[r + 1] /\ Waits[r + 1] <= LastWait
      /\ Waits[1] \in Nat /\ Waits[r + 1] \in Nat /\ LastWait \in Nat /\ end_lost \in BOOLEAN
      /\ now \in Nat /\ rtt \in Nat /\ outage \in Nat /\ phase \in 0 .. PollTick - 1
  BY <1>3, ActiveFacts, ConstantFacts DEF RtInv, PathGood
<1>5. Tracked' = {0} /\ Entry' = IF Entry.age < IdleTimeout THEN [Entry EXCEPT !.age = @ + 1] ELSE Entry
  <2>1. CASE RcvTick
    BY <1>4, <2>1 DEF RcvTick, Tracked, Entry
  <2>2. CASE (\A b \in Tracked : rx_blocks[b].age = IdleTimeout) /\ UNCHANGED rxVars
    <3>1. ~ Entry.age < IdleTimeout
      BY <1>4, <2>2, ConstantFacts DEF Entry
    <3> QED BY <1>4, <2>2, <3>1 DEF Tracked, Entry, rxVars, rcvVars, trackVars
  <2> QED BY <2>1, <2>2 DEF Pass
<1>6. /\ Entry' \in EntryTypes /\ Entry'.rounds = r
      /\ Entry'.received = Entry.received /\ Entry'.received_count = Entry.received_count
      /\ Entry'.age = IF Entry.age < IdleTimeout THEN Entry.age + 1 ELSE Entry.age
  <2>1. CASE Entry.age < IdleTimeout
    <3>1. Entry.age + 1 \in 0 .. IdleTimeout
      BY <1>4, <2>1, ConstantFacts
    <3> DEFINE next == [Entry EXCEPT !.age = @ + 1]
    <3>2. next \in EntryTypes
      BY <1>4, <3>1 DEF EntryTypes
    <3>3. /\ next.rounds = r /\ next.received = Entry.received /\ next.age = Entry.age + 1
          /\ next.received_count = Entry.received_count
      BY <1>4 DEF EntryTypes
    <3> HIDE DEF next
    <3>4. Entry' = next
      BY <1>5, <2>1 DEF next
    <3> QED BY <2>1, <3>2, <3>3, <3>4
  <2>2. CASE ~ Entry.age < IdleTimeout
    BY <1>4, <1>5, <2>2
  <2> QED BY <2>1, <2>2
<1>7. /\ EntryTypes' = EntryTypes /\ (Delivered)' = Delivered
      /\ Counted(Entry') /\ Counted(Entry)'
      /\ \A k : SweepBy(k)' = SweepBy(k)
  BY <1>2, <1>4, <1>6 DEF EntryTypes, Delivered, Counted, SweepBy
<1>8. Required(Entry') = Required(Entry)
  <2>1. /\ Entry'.total = Total(0) /\ Counted(Entry')
        /\ Entry'.end_seen = ~end_lost /\ Entry.end_seen = ~end_lost
    BY <1>4, <1>6, <1>7 DEF EntryTypes
  <2>2. Required(Entry') = IF Entry'.received = PacketIds(0) THEN Waits[1] ELSE Waits[Entry'.rounds + 1]
    BY <1>4, <1>6, <2>1, EntryFacts
  <2> QED BY <1>4, <1>6, <2>2 DEF Delivered
<1>9. Required(Entry) <= IdleTimeout
  <2>1. 1 \in 1 .. MaxRounds + 1 /\ r + 1 \in 1 .. MaxRounds + 1
    BY <1>3, ActiveFacts
  <2>2. Waits[1] \in 0 .. IdleTimeout /\ Waits[r + 1] \in 0 .. IdleTimeout
    BY <2>1, WaitFacts
  <2> QED BY <1>4, <2>2, ConstantFacts
<1>10. ASSUME NEW base \in Nat, Timer(base, now, Entry.age, Required(Entry), phase)
       PROVE  /\ Timer(base, now', Entry'.age, Required(Entry'), phase')
              /\ now' <= base + Required(Entry) + PollTick - 1
  <2>1. now % PollTick = phase => Entry.age < Required(Entry)
    <3>1. ASSUME now % PollTick = phase PROVE Entry.age < Required(Entry)
      <4>1. 0 \notin Ready
        BY <1>1, <3>1
      <4>2. ~ Entry.age >= Required(Entry)
        BY <1>4, <4>1 DEF Ready, Entry
      <4> QED BY <1>4, <4>2
    <3> QED BY <3>1
  <2>2. /\ Entry'.age \in Nat
        /\ Entry'.age = Entry.age + 1 \/ (Entry'.age = Entry.age /\ ~ Entry.age < Required(Entry))
    BY <1>4, <1>6, <1>9, ConstantFacts
  <2>3. Timer(base, now + 1, Entry'.age, Required(Entry), phase)
    BY <1>4, <1>10, <2>1, <2>2, TimerTick
  <2>4. now + 1 \in Nat
    BY <1>4
  <2>5. now + 1 <= base + Required(Entry) + PollTick - 1
    BY <1>4, <2>2, <2>3, <2>4, TimerBound
  <2> QED BY <1>1, <1>2, <1>8, <2>3, <2>5
<1>11. PathGood'
  BY <1>1, <1>2, <1>4 DEF RtInv, PathGood
<1>12. ShapeGood'
  BY <1>1, <1>3, <1>4, <1>5, ActiveFacts DEF ShapeGood
<1>13. EntryGood'
  BY <1>1, <1>3, <1>6, <1>7 DEF ActiveGood, EntryGood, Requests
<1>14. SweepBy(Entry.rounds)' = SweepBy(r) /\ SweepBy(Entry.rounds + 1)' = SweepBy(r + 1)
  BY <1>2, <1>6 DEF SweepBy
<1>15. /\ SweepBy(r) \in Nat /\ SweepBy(r + 1) \in Nat
       /\ SweepBy(r + 1) = SweepBy(r) + Waits[r + 1] + PollTick - 1
  BY <1>3, InTime
<1>16. ASSUME ~Delivered PROVE WaitingGood' /\ now' <= SweepBy(r + 1)
  <2>1. /\ WaitsUpTo[r] + Entry.age <= now
        /\ StartedBy(SweepBy(r))
        /\ \A x \in due : now <= x /\ rtt <= x /\ x <= LastRepairBy
        /\ due # {} => \E x \in due : x <= FirstRepairBy
        /\ due = {} => StartedBy(outage)
    BY <1>1, <1>3, <1>16 DEF ActiveGood, WaitingGood
  <2>2. WaitsUpTo[r] + Entry'.age <= now'
    <3>1. WaitsUpTo[r] \in Nat
      <4>1. r \in 0 .. MaxRounds + 1
        BY <1>4, ConstantFacts
      <4> QED BY <4>1, SumFacts
    <3> QED BY <1>1, <1>4, <1>6, <2>1, <3>1
  <2>3. /\ Timer(SweepBy(r), now', Entry'.age, Required(Entry'), phase')
        /\ now' <= SweepBy(r) + Required(Entry) + PollTick - 1
    BY <1>10, <1>15, <2>1 DEF StartedBy
  <2>4. StartedBy(SweepBy(Entry.rounds))'
    BY <1>14, <2>3 DEF StartedBy
  <2>5. ASSUME due = {}
        PROVE  StartedBy(outage)' /\ now' <= outage + LastWait + PollTick - 1
    <3>1. /\ Timer(outage, now', Entry'.age, Required(Entry'), phase')
          /\ now' <= outage + Required(Entry) + PollTick - 1
      BY <1>4, <1>10, <2>1, <2>5 DEF StartedBy
    <3>2. StartedBy(outage)'
      BY <1>2, <3>1 DEF StartedBy
    <3>3. now' <= outage + LastWait + PollTick - 1
      BY <1>1, <1>4, <3>1, ConstantFacts
    <3> QED BY <3>2, <3>3
  <2>6. \A x \in due : now' <= x
    <3> SUFFICES ASSUME NEW x \in due PROVE now' <= x
      OBVIOUS
    <3>1. x \in Nat /\ x # now
      BY <1>1 DEF RtInv, PathGood
    <3> QED BY <1>1, <1>4, <2>1, <3>1
  <2>7. now' <= SweepBy(r + 1)
    BY <1>1, <1>4, <1>15, <2>3, ConstantFacts
  <2>8. WaitingGood'
    BY <1>1, <1>2, <1>6, <2>1, <2>2, <2>4, <2>5, <2>6 DEF WaitingGood
  <2> QED BY <2>7, <2>8
<1>17. /\ LastRepairBy \in Nat /\ LastRepairBy <= SweepBy(MaxRounds) + rtt
  BY <1>4, LateFacts
<1>18. ASSUME Delivered
       PROVE  /\ DeliveredGood'
              /\ now' <= SweepBy(MaxRounds) + rtt + Waits[1] + PollTick - 1
              /\ rtt <= SweepBy(MaxRounds + 1)
  <2>1. /\ StartedBy(LastRepairBy) /\ rtt <= SweepBy(MaxRounds + 1)
        /\ \A x \in due : now <= x /\ x <= LastRepairBy
    BY <1>3, <1>18 DEF ActiveGood, DeliveredGood
  <2>2. /\ Timer(LastRepairBy, now', Entry'.age, Required(Entry'), phase')
        /\ now' <= LastRepairBy + Required(Entry) + PollTick - 1
    BY <1>10, <1>17, <2>1 DEF StartedBy
  <2>3. StartedBy(LastRepairBy)'
    BY <1>2, <2>2 DEF StartedBy
  <2>4. \A x \in due : now' <= x
    <3> SUFFICES ASSUME NEW x \in due PROVE now' <= x
      OBVIOUS
    <3>1. x \in Nat /\ x # now
      BY <1>1 DEF RtInv, PathGood
    <3> QED BY <1>1, <1>4, <2>1, <3>1
  <2>5. DeliveredGood'
    BY <1>1, <1>2, <1>7, <2>1, <2>3, <2>4 DEF DeliveredGood
  <2>6. SweepBy(MaxRounds) \in Nat
    <3>1. MaxRounds \in 0 .. MaxRounds + 1
      BY ConstantFacts
    <3> QED BY <3>1, SweepFacts
  <2>7. Required(Entry) = Waits[1]
    BY <1>4, <1>18
  <2> QED BY <1>1, <1>4, <1>17, <2>1, <2>2, <2>5, <2>6, <2>7, ConstantFacts
<1>19. RepairBudget'
  <2> DEFINE late == (MaxRounds + 1) * (PollTick - 1)
             last == SweepBy(MaxRounds + 1)
  <2>1. /\ late \in Nat /\ PollTick - 1 \in Nat /\ Rounding = late + (PollTick - 1)
        /\ last = RepairTime + late
    BY RoundingFacts, SweepFacts, ConstantFacts
  <2>2. /\ last \in Nat /\ RepairTime \in Nat /\ SweepBy(MaxRounds) \in Nat
        /\ SweepBy(r + 1) <= last
        /\ last = SweepBy(MaxRounds) + LastWait + PollTick - 1
        /\ Waits[1] <= LastWait
    <3>1. /\ r + 1 \in 0 .. MaxRounds + 1 /\ MaxRounds + 1 \in 0 .. MaxRounds + 1
          /\ MaxRounds \in 0 .. MaxRounds + 1 /\ MaxRounds \in 0 .. MaxRounds
          /\ MaxRounds + 1 \in 1 .. MaxRounds + 1
      BY <1>4, ConstantFacts
    <3> QED BY <3>1, SumFacts, SweepFacts, WaitFacts DEF RepairTime, LastWait
  <2> HIDE DEF late, last
  <2>3. now' <= last + last
    <3>1. CASE Delivered
      <4>1. /\ now' <= SweepBy(MaxRounds) + rtt + Waits[1] + PollTick - 1 /\ rtt <= last
        BY <1>18, <3>1 DEF last
      <4> QED BY <1>1, <1>4, <2>1, <2>2, <3>1, <4>1
    <3>2. CASE ~Delivered
      <4>1. now' <= SweepBy(r + 1)
        BY <1>16, <3>2
      <4> QED BY <1>1, <1>4, <1>15, <2>2, <4>1
    <3> QED BY <3>1, <3>2
  <2>4. now' <= 2 * RepairTime + 2 * Rounding
    BY <1>1, <1>4, <2>1, <2>2, <2>3
  <2>5. gave_up' = {} /\ closing' = {} /\ rx_completed' = {}
    BY <1>1, <1>3, <1>4 DEF ActiveGood, EntryGood
  <2> QED BY <1>2, <2>4, <2>5 DEF RepairBudget
<1>20. ActiveGood'
  BY <1>7, <1>13, <1>16, <1>18 DEF ActiveGood
<1> QED BY <1>11, <1>12, <1>19, <1>20 DEF RtInv

LEMMA RtStep == RtInv /\ [RtNext]_rtVars => RtInv'
<1> SUFFICES ASSUME RtInv, [RtNext]_rtVars PROVE RtInv'
  OBVIOUS
<1>1. CASE FirstTransmission
  BY <1>1, FirstTransmissionStep
<1>2. CASE Request
  BY <1>2, RequestStep
<1>3. CASE Repair
  BY <1>3, RepairStep
<1>4. CASE Sweep
  BY <1>4, SweepStep
<1>5. CASE Check
  BY <1>5, AckCompleteStep, AckGiveUpStep, AckMissingStep, AckRemoveStep DEF Check
<1>6. CASE Pass
  BY <1>6, PassStep
<1>7. CASE UNCHANGED rtVars
  <2>1. UNCHANGED <<rx_blocks, rx_completed, ready, closing, gave_up, acks, now, pathVars, due>>
    BY <1>7 DEF rtVars, rxVars, rcvVars, trackVars, ackVars, wireVars
  <2>2. UNCHANGED <<Waits, WaitsUpTo, RepairTime, LastWait, LastRequest, Rounding, FirstRepairBy,
                LastRepairBy, rtt, outage, lost, end_lost, phase>>
    BY <2>1, SameWaits DEF pathVars
  <2>3. /\ Tracked' = Tracked /\ Entry' = Entry /\ (Delivered)' = Delivered
        /\ \A k : SweepBy(k)' = SweepBy(k)
    BY <2>1, <2>2 DEF Tracked, Entry, Delivered, SweepBy
  <2>4. \A base : StartedBy(base)' <=> StartedBy(base)
    BY <2>1, <2>2, <2>3 DEF StartedBy
  <2>5. PathGood' /\ ShapeGood' /\ RepairBudget'
    BY <2>1, <2>2, <2>3 DEF RtInv, PathGood, ShapeGood, RepairBudget
  <2>6. Active => EntryGood'
    BY <2>1, <2>2, <2>3 DEF RtInv, ActiveGood, EntryGood, EntryTypes, Counted, Requests
  <2>7. Active /\ Delivered => DeliveredGood'
    BY <2>1, <2>2, <2>3, <2>4 DEF RtInv, ActiveGood, DeliveredGood
  <2>8. Active /\ ~Delivered => WaitingGood'
    BY <2>1, <2>2, <2>3, <2>4 DEF RtInv, ActiveGood, WaitingGood
  <2>9. Active' <=> Active
    BY <2>1, <2>3 DEF Active
  <2> QED BY <2>3, <2>5, <2>6, <2>7, <2>8, <2>9 DEF RtInv, ActiveGood
<1> QED BY <1>1, <1>2, <1>3, <1>4, <1>5, <1>6, <1>7 DEF RtNext

THEOREM RtInvariance == RtSpec => []RtInv
<1>1. RtInit => RtInv
  BY RtInitInv
<1>2. RtInv /\ [RtNext]_rtVars => RtInv'
  BY RtStep
<1> QED BY <1>1, <1>2, PTL DEF RtSpec

(* The receiver decides on a block neither too early nor too late, however *)
(* many repairs it has asked for in vain and whenever they restart the     *)
(* timer, for every grace period, idle timeout, poll tick and number of    *)
(* rounds (transport.rs: ready_for_check, touch_activity; receiver.rs:     *)
(* ack_manager_loop; sender.rs: the answer to a Missing).                  *)
THEOREM BudgetKept == RtSpec => []RepairBudget
<1>1. RtInv => RepairBudget
  BY DEF RtInv
<1> QED BY <1>1, RtInvariance, PTL

===============================================================================
