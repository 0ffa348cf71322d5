------------------------- MODULE DynamicTimer_proofs -------------------------
(***************************************************************************)
(* The timer of util.rs implements Coalesce, for any durations and any     *)
(* use: as many ticks as signals at most, and none of the signals forgotten*)
(***************************************************************************)
EXTENDS DynamicTimer, TLAPS

LEMMA TimerTypeStep ==
  ASSUME TimerTypeOK,
         \/ \E d \in Durations : SetTimeout(d)
         \/ RecvTick \/ TimerArm \/ TimerExpire \/ TimerElapse
         \/ UNCHANGED timerVars
  PROVE  TimerTypeOK'
<1> USE DurationsAssumption DEF TimerTypeOK
<1>1. ASSUME NEW d \in Durations, SetTimeout(d) PROVE TimerTypeOK'
  BY <1>1 DEF SetTimeout
<1>2. CASE RecvTick
  BY <1>2 DEF RecvTick
<1>3. CASE TimerArm
  <2>1. Head(timeout_rx) \in Durations /\ <<>> \in Seq(Durations) /\ Len(<<>>) = 0
    BY <1>3 DEF TimerArm, ArmWith
  <2>2. timeout_rx' \in Seq(Durations) /\ Len(timeout_rx') <= 1
    BY <1>3, <2>1 DEF TimerArm, ArmWith
  <2>3. next_timeout' \in Nat \cup {Pending} /\ tick_rx' \in {0, 1}
    BY <1>3, <2>1 DEF TimerArm, ArmWith
  <2> QED BY <2>2, <2>3
<1>4. CASE TimerExpire
  BY <1>4 DEF TimerExpire, ExpireWith, Pending
<1>5. CASE TimerElapse
  BY <1>5 DEF TimerElapse, Pending
<1>6. CASE UNCHANGED timerVars
  BY <1>6 DEF timerVars
<1> QED BY <1>1, <1>2, <1>3, <1>4, <1>5, <1>6

(* What of Coalesce has to be shown for a step of the timer.               *)
timerView == <<Len(timeout_rx) + (IF next_timeout = Pending THEN 0 ELSE 1), tick_rx = 1, TRUE>>

LEMMA TimerStepCoalesces ==
  ASSUME TimerTypeOK, [TimerNext]_timerVars
  PROVE  TimerSignals!Next \/ UNCHANGED timerView
<1> DEFINE armed   == IF next_timeout = Pending THEN 0 ELSE 1
           waiting == Len(timeout_rx) + armed
<1> USE DEF timerView
<1>1. waiting \in Nat /\ Len(timeout_rx) \in {0, 1} /\ tick_rx \in {0, 1}
  BY DEF TimerTypeOK
<1>2. ASSUME NEW d \in Durations, SetTimeout(d)
      PROVE  TimerSignals!Signal
  <2>1. Len(timeout_rx') = Len(timeout_rx) + 1
    BY <1>2 DEF SetTimeout
  <2> QED BY <1>1, <1>2, <2>1 DEF SetTimeout, TimerSignals!Signal
<1>3. CASE RecvTick
  BY <1>3 DEF RecvTick, TimerSignals!Take, TimerSignals!Next
<1>4. CASE TimerArm
  <2>1. Len(timeout_rx) = 1 /\ Len(timeout_rx') = 0 /\ next_timeout' # Pending
    <3>1. Head(timeout_rx) \in Durations
      BY <1>4 DEF TimerArm, ArmWith, TimerTypeOK
    <3>2. next_timeout' \in Nat
      BY <1>4, <3>1, DurationsAssumption DEF TimerArm, ArmWith
    <3>3. Len(timeout_rx) = 1 /\ Len(timeout_rx') = 0
      BY <1>1, <1>4 DEF TimerArm, ArmWith, TimerTypeOK
    <3> QED BY <3>2, <3>3 DEF Pending
  <2>2. tick_rx' = tick_rx
    BY <1>4 DEF TimerArm, ArmWith
  <2>3. CASE next_timeout = Pending
    BY <2>1, <2>2, <2>3
  <2>4. CASE next_timeout # Pending
    <3>1. TimerSignals!Merge
      BY <2>1, <2>2, <2>4 DEF TimerSignals!Merge
    <3> QED BY <3>1 DEF TimerSignals!Next
  <2> QED BY <2>3, <2>4
<1>5. CASE TimerExpire
  <2>1. TimerSignals!Emit
    BY <1>1, <1>5 DEF TimerExpire, ExpireWith, Pending, TimerSignals!Emit
  <2> QED BY <2>1 DEF TimerSignals!Next
<1>6. CASE TimerElapse
  BY <1>6 DEF TimerElapse, TimerTypeOK, Pending
<1>7. CASE UNCHANGED timerVars
  BY <1>7 DEF timerVars
<1> QED BY <1>2, <1>3, <1>4, <1>5, <1>6, <1>7 DEF TimerNext, TimerSignals!Next

(* The timer's channels never hold more than one message, and it sleeps or *)
(* waits for good, never in between (util.rs:17-40).                       *)
THEOREM TimerTypeCorrect == TimerSpec => []TimerTypeOK
<1>1. TimerInit => TimerTypeOK
  BY DEF TimerInit, TimerTypeOK
<1>2. TimerTypeOK /\ [TimerNext]_timerVars => TimerTypeOK'
  BY TimerTypeStep DEF TimerNext
<1> QED BY <1>1, <1>2, PTL DEF TimerSpec

(* However the timer is used, it never sends more ticks than set_timeout   *)
(* was called, and a timeout that is replaced, or whose tick does not fit, *)
(* has another tick that answers it (util.rs:24-40).                       *)
THEOREM TimerCoalescesHolds == TimerSpec => TimerCoalesces
<1>1. TimerInit => TimerSignals!Init
  BY DEF TimerInit, TimerSignals!Init
<1>2. TimerTypeOK /\ [TimerNext]_timerVars => [TimerSignals!Next]_timerView
  BY TimerStepCoalesces
<1> QED BY <1>1, <1>2, TimerTypeCorrect, PTL
    DEF TimerSpec, TimerCoalesces, TimerSignals!Spec, timerView
=============================================================================
