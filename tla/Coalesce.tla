------------------------------ MODULE Coalesce ------------------------------
(***************************************************************************)
(* What both timing helpers of src/util.rs promise: a stream of signals is *)
(* turned into a stream of ticks.  A tick answers one or more signals, so  *)
(* there are never more ticks than signals; signals may be merged with     *)
(* each other, but the last of a burst is never dropped without a tick, as *)
(* long as somebody is there to receive it.                                *)
(***************************************************************************)
EXTENDS Naturals

VARIABLES
  waiting,   \* signals that no tick has answered yet
  tick,      \* is a tick waiting to be received?
  open       \* does the receiver of ticks still exist?

Init == waiting = 0 /\ tick = FALSE /\ open = TRUE

Signal == open /\ waiting' = waiting + 1 /\ UNCHANGED <<tick, open>>

(* Two signals of one burst get a single tick.                             *)
Merge == waiting > 1 /\ waiting' = waiting - 1 /\ UNCHANGED <<tick, open>>

(* A tick that was not received yet also stands for the new one.           *)
Emit == waiting > 0 /\ waiting' = waiting - 1 /\ tick' = TRUE /\ UNCHANGED open

Take == tick /\ tick' = FALSE /\ UNCHANGED <<waiting, open>>

(* Nothing is owed to a receiver that is gone.                             *)
Close == open /\ open' = FALSE /\ waiting' = 0 /\ tick' = FALSE

Next == Signal \/ Merge \/ Emit \/ Take \/ Close

Spec == Init /\ [][Next]_<<waiting, tick, open>>
=============================================================================
