---------------------------- MODULE DynamicTimer ----------------------------
(***************************************************************************)
(* DynamicTimer of src/util.rs: a task that sleeps for the last duration   *)
(* it was sent and then sends one tick back.  Its two channels hold one    *)
(* message each; set_timeout waits for room, the tick is dropped if the    *)
(* previous one was not received yet.                                      *)
(*                                                                         *)
(* The task's select! has both branches ready when a new duration arrives  *)
(* as the old sleep ends, and takes either: TimerArm and TimerExpire are   *)
(* both enabled then.                                                      *)
(***************************************************************************)
EXTENDS Integers, Sequences

CONSTANT Durations     \* the durations the timer is set to, in ticks

ASSUME DurationsAssumption == Durations \subseteq Nat \ {0}

VARIABLES
  timeout_rx,    \* mpsc::channel(1) of durations to the task
  next_timeout,  \* ticks left of the sleep, or Pending
  tick_rx        \* mpsc::channel(1) of ticks from the task

timerVars == <<timeout_rx, next_timeout, tick_rx>>

Pending == -1    \* std::future::pending()

TimerTypeOK ==
  /\ timeout_rx \in Seq(Durations) /\ Len(timeout_rx) <= 1
  /\ next_timeout \in Nat \cup {Pending}
  /\ tick_rx \in {0, 1}

TimerInit == timeout_rx = <<>> /\ next_timeout = Pending /\ tick_rx = 0

-----------------------------------------------------------------------------
(* The owner of the timer: set_timeout completes once the channel has room.*)
SetTimeout(d) ==
  /\ timeout_rx = <<>>
  /\ timeout_rx' = <<d>>
  /\ UNCHANGED <<next_timeout, tick_rx>>

RecvTick ==
  /\ tick_rx = 1
  /\ tick_rx' = 0
  /\ UNCHANGED <<timeout_rx, next_timeout>>

(* The task takes a duration up, and sleeps for d from now on.             *)
ArmWith(d) ==
  /\ timeout_rx # <<>>
  /\ timeout_rx' = <<>>
  /\ next_timeout' = d
  /\ UNCHANGED tick_rx

(* Mutant: a new duration is ignored while the task sleeps.                *)
TimerArmKept ==
  ArmWith(IF next_timeout = Pending THEN Head(timeout_rx) ELSE next_timeout)

(* A new duration replaces the sleep the task is in.                       *)
TimerArm == ArmWith(Head(timeout_rx))

(* The sleep is over: what it is replaced with, what is in the channel.    *)
ExpireWith(sleep, ticks) ==
  /\ next_timeout = 0
  /\ next_timeout' = sleep
  /\ tick_rx' = ticks
  /\ UNCHANGED timeout_rx

(* Mutants: the channel has no bound; the sleep that is over is not        *)
(* replaced by pending(); no tick is sent.                                 *)
TimerExpireUnbounded == ExpireWith(Pending, tick_rx + 1)
TimerExpireAgain     == ExpireWith(0, 1)
TimerExpireSilent    == ExpireWith(Pending, tick_rx)

(* try_send: the channel holds one tick, whether this one or one that was  *)
(* not received yet, which makes this one be dropped.                      *)
TimerExpire == ExpireWith(Pending, 1)

(* A tick of time.  It is a conjunct of the actions that advance time.     *)
TimerElapse ==
  /\ next_timeout' = IF next_timeout > 0 THEN next_timeout - 1 ELSE next_timeout
  /\ UNCHANGED <<timeout_rx, tick_rx>>

TimerNext ==
  \/ \E d \in Durations : SetTimeout(d)
  \/ RecvTick
  \/ TimerArm
  \/ TimerExpire
  \/ TimerElapse

TimerSpec == TimerInit /\ [][TimerNext]_timerVars

-----------------------------------------------------------------------------
(* A tick will still be received for what the timer was set to.            *)
TickOwed == timeout_rx # <<>> \/ next_timeout # Pending \/ tick_rx = 1

(* The timer implements Coalesce: signals are calls of set_timeout.  Its   *)
(* owner receives the ticks and never ends.                                *)
TimerSignals == INSTANCE Coalesce WITH
  waiting <- Len(timeout_rx) + (IF next_timeout = Pending THEN 0 ELSE 1),
  tick    <- tick_rx = 1,
  open    <- TRUE

(* Every set_timeout is answered: no tick comes without one, there are     *)
(* never more ticks than calls, and the timeouts that a later call         *)
(* replaces or a full channel swallows (util.rs:24-40) leave a tick owed.  *)
TimerCoalesces == TimerSignals!Spec
=============================================================================
