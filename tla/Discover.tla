------------------------------ MODULE Discover ------------------------------
(***************************************************************************)
(* The discover task of src/discover/mod.rs: it owns the UDP socket and    *)
(* sits between the local network and the manager.  Each time the          *)
(* addresses of the host change it starts over: it forgets its interfaces, *)
(* tells the manager, and looks for interfaces.  Then it serves            *)
(*   - datagrams, which it turns into events for the manager,              *)
(*   - the manager's requests to broadcast a Req,                          *)
(*   - the cancellation of the program.                                    *)
(* It awaits inside a handler where it sends an event: "announce" and      *)
(* "emit".  Sending a datagram awaits only the socket.                     *)
(***************************************************************************)
EXTENDS Channels

CONSTANTS
  OwnIps,    \* the addresses this host may have, some of Ips
  Outside    \* what comes from outside, in some settings

Setting ==
  [closes : BOOLEAN,     \* can the netlink listener end while the program runs?
   repeats : BOOLEAN,    \* do Advs come again and again?
   datagrams : Nat,      \* bound: how many datagrams come, such Advs aside
   changes : Nat,        \* bound: how often the addresses change
   handlers : Nat]       \* bound: how many requests are in flight at a time

ASSUME DiscoverAssumption == OwnIps \subseteq Ips /\ Outside \subseteq Setting

VARIABLES
  discover,        \* where the task is
  managed,         \* the addresses of the interfaces found
  emitting,        \* the event it is about to send, in a sequence
  addrs_changed,   \* the debounced channel of the netlink listener
  outside,         \* the setting
  datagrams,       \* datagrams received so far, as far as they are bounded
  changes          \* changes of addresses so far

inputVars    == <<outside, datagrams, changes>>
discoverVars == <<discover, managed, emitting, addrs_changed, inputVars>>

DiscoverTypeOK ==
  /\ discover \in {"announce", "find", "select", "emit", "ended"}
  /\ managed \in SUBSET OwnIps
  /\ IsChannel(emitting, Event)
  /\ addrs_changed \in {"empty", "tick", "closed"}
  /\ outside \in Outside
  /\ datagrams \in 0 .. outside.datagrams
  /\ changes \in 0 .. outside.changes

DiscoverInit ==
  /\ discover = "announce"
  /\ managed = {}
  /\ emitting = <<>>
  /\ addrs_changed = "empty"
  /\ outside \in Outside
  /\ datagrams = 0 /\ changes = 0

-----------------------------------------------------------------------------
(* The start of the outer loop.                                            *)
Announce ==
  /\ discover = "announce" /\ HasRoom(events)
  /\ events' = Append(events, NetworkChanged)
  /\ discover' = "find"
  /\ UNCHANGED <<managed, emitting, addrs_changed, inputVars,
                 requests, reports, discover_up, cancelled>>

(* find_eligible_ips: the addresses of running, physical interfaces that   *)
(* can broadcast.  Which ones those are is up to the kernel; an error      *)
(* leaves the host without interfaces until the next change.               *)
EligibleIps == SUBSET OwnIps

FindIps ==
  /\ discover = "find"
  /\ managed' \in EligibleIps
  /\ discover' = "select"
  /\ UNCHANGED <<emitting, addrs_changed, inputVars, channelVars>>

(* token.cancelled(): say goodbye, successfully or not, and return.        *)
EndOnCancel ==
  /\ discover = "select" /\ cancelled
  /\ discover' = "ended"
  /\ DropDiscover
  /\ UNCHANGED <<managed, emitting, addrs_changed, inputVars,
                 events, reports, cancelled>>

(* addrs_changed.recv(): a closed channel matches this branch as well.     *)
StartOver ==
  /\ discover = "select" /\ addrs_changed # "empty"
  /\ addrs_changed' = IF addrs_changed = "tick" THEN "empty" ELSE addrs_changed
  /\ managed' = {}
  /\ discover' = "announce"
  /\ UNCHANGED <<emitting, inputVars, channelVars>>

(* msg_rx.recv(): broadcast the Req on every interface.  One that fails    *)
(* ends the program.                                                       *)
Broadcast ==
  /\ discover = "select" /\ requests # <<>>
  /\ requests' = Tail(requests)
  /\ UNCHANGED <<discover, managed, emitting, addrs_changed, inputVars,
                 events, reports, discover_up, cancelled>>

BroadcastFails ==
  /\ discover = "select" /\ requests # <<>> /\ managed # {}
  /\ cancelled' = TRUE
  /\ discover' = "ended"
  /\ DropDiscover
  /\ UNCHANGED <<managed, emitting, addrs_changed, inputVars,
                 events, reports>>

(* sock.recv_from(..)                                                      *)
Receive(bounded) ==
  /\ discover = "select"
  /\ bounded => datagrams < outside.datagrams
  /\ datagrams' = IF bounded THEN datagrams + 1 ELSE datagrams
  /\ UNCHANGED <<outside, changes>>

(* A datagram comes that has no effect on this node: its own, one that     *)
(* does not parse or verify, or a Req, which it answers with an Adv when   *)
(* it has a cache to advertise.                                            *)
RecvNoEvent ==
  /\ Receive(TRUE)
  /\ UNCHANGED <<discover, managed, emitting, addrs_changed, channelVars>>

(* An Adv or a Goodbye of another host comes.                              *)
RecvEvent ==
  /\ \E event \in Event \ {NetworkChanged} :
       /\ Receive(~(outside.repeats /\ event.type = "adv"))
       /\ event.source_ip \notin managed
       /\ emitting' = <<event>>
  /\ discover' = "emit"
  /\ UNCHANGED <<managed, addrs_changed, channelVars>>

EmitWith(sent) ==
  /\ discover = "emit"
  /\ events' = sent
  /\ emitting' = <<>>
  /\ discover' = "select"
  /\ UNCHANGED <<managed, addrs_changed, inputVars,
                 requests, reports, discover_up, cancelled>>

(* Mutants: the send gives up when the program is cancelled; the event     *)
(* replaces one that the manager has not received yet.                     *)
EmitOrCancel ==
  \/ HasRoom(events) /\ EmitWith(events \o emitting)
  \/ cancelled /\ EmitWith(events)
EmitOver == EmitWith(emitting)

(* event_tx.send(..).await inside handle_datagram.                         *)
Emit == HasRoom(events) /\ EmitWith(events \o emitting)

DiscoverNext ==
  \/ Announce \/ FindIps \/ EndOnCancel \/ StartOver
  \/ Broadcast \/ BroadcastFails \/ RecvNoEvent \/ RecvEvent \/ Emit

-----------------------------------------------------------------------------
(* The netlink listener behind its debounce.                               *)
AddrsChange ==
  /\ addrs_changed = "empty" /\ changes < outside.changes
  /\ addrs_changed' = "tick"
  /\ changes' = changes + 1
  /\ UNCHANGED <<discover, managed, emitting, outside, datagrams, channelVars>>

ListenerEnds ==
  /\ outside.closes /\ addrs_changed = "empty"
  /\ addrs_changed' = "closed"
  /\ UNCHANGED <<discover, managed, emitting, inputVars, channelVars>>

ListenerNext == AddrsChange \/ ListenerEnds
=============================================================================
