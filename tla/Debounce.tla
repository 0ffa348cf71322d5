------------------------------ MODULE Debounce ------------------------------
(***************************************************************************)
(* debounce of src/util.rs: a task between two channels of capacity 1 that *)
(* waits for an event, then for a stretch of QuietTime ticks without any   *)
(* further event, and then sends one tick on.  discover/mod.rs puts it     *)
(* behind the netlink listener of discover/network.rs, so that a burst of  *)
(* address changes restarts discovery once.                                *)
(*                                                                         *)
(* The sender may be dropped; what it sent before is still delivered, and  *)
(* the task then ends and closes its own channel.  The receiver may be     *)
(* dropped as well, when the discover task returns; the task finds out as  *)
(* it sends.  The `else` arm of the inner select! is not an action: the    *)
(* sleep's pattern `_` always matches, so that arm is never the one taken. *)
(***************************************************************************)
EXTENDS Naturals

CONSTANT QuietTime    \* the timeout of the debounce, in ticks

ASSUME QuietTimeAssumption == QuietTime \in Nat \ {0}

VARIABLES
  stream,        \* messages in the channel from the listener
  stream_open,   \* the listener still holds its sender
  phase,         \* where the task is
  timer,         \* ticks left of its sleep
  out,           \* messages in the channel to the receiver
  out_open       \* the discover task still holds its receiver

debounceVars == <<stream, stream_open, phase, timer, out, out_open>>

DebounceTypeOK ==
  /\ stream \in {0, 1} /\ out \in {0, 1}
  /\ stream_open \in BOOLEAN /\ out_open \in BOOLEAN
  /\ phase \in {"idle", "quiet", "send", "ended"}
  /\ timer \in 0 .. QuietTime

DebounceInit ==
  /\ stream = 0 /\ stream_open = TRUE
  /\ phase = "idle" /\ timer = 0
  /\ out = 0 /\ out_open = TRUE

-----------------------------------------------------------------------------
(* The listener: `tx.send(()).await` for every netlink message.            *)
AddressEvent ==
  /\ stream_open /\ phase # "ended" /\ stream = 0
  /\ stream' = 1
  /\ UNCHANGED <<stream_open, phase, timer, out, out_open>>

(* The messages end, or one cannot be sent since the debounce has ended.   *)
ListenerEnds ==
  /\ stream_open
  /\ stream_open' = FALSE
  /\ UNCHANGED <<stream, phase, timer, out, out_open>>

(* The task receives an event and sleeps for d from now on.                *)
QuietFor(d) ==
  /\ phase \in {"idle", "quiet"} /\ stream = 1
  /\ stream' = 0 /\ phase' = "quiet" /\ timer' = d
  /\ UNCHANGED <<stream_open, out, out_open>>

(* Mutant: later events of a burst do not restart the sleep.               *)
StartQuietOnce == QuietFor(IF phase = "idle" THEN QuietTime ELSE timer)

(* The first event of a burst and every later one start the sleep anew.    *)
StartQuiet == QuietFor(QuietTime)

QuietOver ==
  /\ phase = "quiet" /\ timer = 0
  /\ phase' = "send"
  /\ UNCHANGED <<stream, stream_open, timer, out, out_open>>

SendWith(ticks) ==
  /\ phase = "send" /\ out_open
  /\ out' = ticks /\ phase' = "idle"
  /\ UNCHANGED <<stream, stream_open, timer, out_open>>

(* Mutant: the channel has no bound.                                       *)
SendDebouncedUnbounded == SendWith(out + 1)

(* tx.send(()).await: until there is room, further events have to wait.    *)
SendDebounced == out = 0 /\ SendWith(1)

(* The receiver is gone: the task returns and drops its own.               *)
SendFails ==
  /\ phase = "send" /\ ~out_open
  /\ phase' = "ended"
  /\ stream' = 0
  /\ UNCHANGED <<stream_open, timer, out, out_open>>

EndFrom(phases) ==
  /\ phase \in phases /\ stream = 0 /\ ~stream_open
  /\ phase' = "ended"
  /\ UNCHANGED <<stream, stream_open, timer, out, out_open>>

(* Mutant: the task also ends in the middle of a burst.                    *)
DebounceEndsEarly == EndFrom({"idle", "quiet"})

(* recv() is None only once the channel is closed and drained.             *)
DebounceEnds == EndFrom({"idle"})

DebounceElapse ==
  /\ timer' = IF timer > 0 THEN timer - 1 ELSE timer
  /\ UNCHANGED <<stream, stream_open, phase, out, out_open>>

(* The discover task.                                                      *)
RecvDebounced ==
  /\ out = 1
  /\ out' = 0
  /\ UNCHANGED <<stream, stream_open, phase, timer, out_open>>

ReceiverEnds ==
  /\ out_open
  /\ out_open' = FALSE
  /\ out' = 0
  /\ UNCHANGED <<stream, stream_open, phase, timer>>

DebounceNext ==
  \/ AddressEvent \/ ListenerEnds \/ StartQuiet \/ QuietOver
  \/ SendDebounced \/ SendFails \/ DebounceEnds \/ DebounceElapse
  \/ RecvDebounced \/ ReceiverEnds

DebounceSpec == DebounceInit /\ [][DebounceNext]_debounceVars

-----------------------------------------------------------------------------
DebounceSignals == INSTANCE Coalesce WITH
  waiting <- IF out_open THEN stream + (IF phase \in {"quiet", "send"} THEN 1 ELSE 0)
                         ELSE 0,
  tick    <- out = 1,
  open    <- out_open

(* A burst of address changes gives at least one and at most as many ticks *)
(* as there were changes; none is dropped without a tick after it, not     *)
(* even when the sender goes away meanwhile (util.rs:56-72).               *)
DebounceCoalesces == DebounceSignals!Spec

(* When the listener has gone, the change it reported last still gets its  *)
(* tick before the channel to the receiver closes: a closed channel gives  *)
(* up what is in it first, and the sleep ends the inner loop before its    *)
(* `else` could (util.rs:57-72).  The test allows more than the code does: *)
(* it takes a channel closed without a tick for a race (util.rs:264).      *)
LastChangeDelivered ==
  ~stream_open /\ (stream = 1 \/ phase = "quiet") ~> out = 1 \/ ~out_open
=============================================================================
