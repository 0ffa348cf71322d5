------------------------------ MODULE MCParts ------------------------------
(***************************************************************************)
(* The parts that depend on no other part, one of them in each behaviour:  *)
(* the timer with a client that sets it to any duration at any time, until *)
(* it stops doing so, and that receives ticks when it likes; the debounce  *)
(* with its listener and its receiver; the table of caches, with any       *)
(* sequence of calls.                                                      *)
(***************************************************************************)
EXTENDS DynamicTimer, Debounce, MCCacheTable

CONSTANT SinceCap    \* bound: up to where `since` counts

ASSUME SinceCapAssumption ==
  /\ SinceCap \in Nat
  /\ \A d \in Durations \cup {QuietTime} : d <= SinceCap

VARIABLES
  part,    \* which of them this behaviour is about
  quiet,   \* the client of the timer sets no more timeouts
  since,   \* ticks since the task last took something up, capped
  wanted   \* the duration the timer's task took up last, 0 before the first

mcVars == <<timerVars, debounceVars, callVars, part, quiet, since, wanted>>

MCInit ==
  /\ part \in {"timer", "debounce", "table"}
  /\ TimerInit /\ DebounceInit /\ CallsInit
  /\ quiet = FALSE /\ since = 0 /\ wanted = 0

MCLater == since' = IF since < SinceCap THEN since + 1 ELSE since

MCTimer == part = "timer" /\ UNCHANGED <<part, debounceVars, callVars>>

MCSet == /\ MCTimer /\ ~quiet /\ \E d \in Durations : SetTimeout(d)
         /\ UNCHANGED <<quiet, since, wanted>>

MCQuiet == MCTimer /\ ~quiet /\ quiet' = TRUE /\ UNCHANGED <<timerVars, since, wanted>>

MCRecv == MCTimer /\ RecvTick /\ UNCHANGED <<quiet, since, wanted>>

MCArm == MCTimer /\ TimerArm /\ since' = 0 /\ wanted' = Head(timeout_rx) /\ UNCHANGED quiet

MCExpire == MCTimer /\ TimerExpire /\ UNCHANGED <<quiet, since, wanted>>

MCElapse == MCTimer /\ TimerElapse /\ MCLater /\ UNCHANGED <<quiet, wanted>>

MCDebounce ==
  /\ part = "debounce" /\ DebounceNext
  /\ IF stream' < stream THEN since' = 0
     ELSE IF timer' < timer THEN MCLater ELSE UNCHANGED since
  /\ UNCHANGED <<part, timerVars, callVars, quiet, wanted>>

MCTable ==
  /\ part = "table" /\ CallsNext
  /\ UNCHANGED <<part, timerVars, debounceVars, quiet, since, wanted>>

MCNext ==
  \/ MCSet \/ MCQuiet \/ MCRecv \/ MCArm \/ MCExpire \/ MCElapse
  \/ MCDebounce \/ MCTable

MCSpec ==
  /\ MCInit /\ [][MCNext]_mcVars
  /\ WF_mcVars(MCArm) /\ WF_mcVars(MCExpire) /\ WF_mcVars(MCElapse)
  /\ WF_mcVars(MCDebounce /\ StartQuiet) /\ WF_mcVars(MCDebounce /\ QuietOver)
  /\ WF_mcVars(MCDebounce /\ SendDebounced) /\ WF_mcVars(MCDebounce /\ DebounceEnds)
  /\ WF_mcVars(MCDebounce /\ DebounceElapse) /\ WF_mcVars(MCDebounce /\ RecvDebounced)

-----------------------------------------------------------------------------
(* A tick is sent only when the whole of the last duration the task took   *)
(* up has passed, never for an earlier one that it replaced (util.rs:26).  *)
SleepsForLastTimeout ==
  [][next_timeout # Pending /\ next_timeout' = Pending => since >= wanted]_mcVars

(* Once set_timeout is no longer called, a tick arrives for the last call. *)
TickAfterQuiet == quiet /\ (timeout_rx # <<>> \/ next_timeout # Pending) ~> tick_rx = 1

(* The tick of a burst leaves no earlier than QuietTime after the last     *)
(* event received (util.rs:62-68).                                         *)
QuietBeforeTick == phase = "send" => since >= QuietTime
=============================================================================
