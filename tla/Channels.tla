------------------------------ MODULE Channels ------------------------------
(***************************************************************************)
(* The three tokio channels between the tasks of one node.  Each is        *)
(* created with mpsc::channel(1): it holds a single message, and a sender  *)
(* waits, in the middle of whatever it is doing, until there is room.      *)
(*                                                                         *)
(*   events    discover task  --> manager task   what the network told     *)
(*   requests  manager task   --> discover task  broadcast a Req packet    *)
(*   reports   HTTP requests  --> manager task   a cache that failed       *)
(***************************************************************************)
EXTENDS CacheTable, Integers, Sequences

CONSTANTS
  Ips,         \* the addresses of other hosts on the local network
  Advertises   \* which URLs a host may advertise: pairs <<ip, url>>

ASSUME AdvertisesAssumption == Advertises \subseteq Ips \X Urls

VARIABLES
  events, requests, reports,
  discover_up,   \* the discover task runs and holds its ends of the channels
  cancelled      \* the CancellationToken that ends the whole program

channelVars == <<events, requests, reports, discover_up, cancelled>>

Capacity == 1

HasRoom(channel) == Len(channel) < Capacity

NetworkChanged == [type |-> "network_changed"]
Goodbye(ip)    == [type |-> "goodbye", source_ip |-> ip]
Adv(ip, url)   == [type |-> "adv", source_ip |-> ip, binary_cache_url |-> url]

Event == {NetworkChanged} \cup {Goodbye(ip) : ip \in Ips}
                          \cup {Adv(a[1], a[2]) : a \in Advertises}

IsChannel(channel, Message) ==
  channel \in Seq(Message) /\ Len(channel) <= Capacity

ChannelsTypeOK ==
  /\ IsChannel(events, Event)
  /\ IsChannel(requests, {"req"})
  /\ IsChannel(reports, Urls)
  /\ discover_up \in BOOLEAN
  /\ cancelled \in BOOLEAN

ChannelsInit ==
  /\ events = <<>> /\ requests = <<>> /\ reports = <<>>
  /\ discover_up = TRUE
  /\ cancelled = FALSE

-----------------------------------------------------------------------------
(* Mutant: the channel has no bound.                                       *)
BroadcastReqUnbounded ==
  /\ discover_up
  /\ requests' = Append(requests, "req")
  /\ UNCHANGED <<events, reports, discover_up, cancelled>>

(* broadcast_req: `msg_tx.send(Packet::Req).await` completes once there is *)
(* room, or fails once the discover task is gone, which ends the program.  *)
BroadcastReq ==
  \/ /\ discover_up /\ HasRoom(requests)
     /\ requests' = Append(requests, "req")
     /\ UNCHANGED <<events, reports, discover_up, cancelled>>
  \/ /\ ~discover_up
     /\ cancelled' = TRUE
     /\ UNCHANGED <<events, requests, reports, discover_up>>

(* The discover task returns, and what was sent to it is dropped.          *)
DropDiscover ==
  /\ discover_up
  /\ discover_up' = FALSE
  /\ requests' = <<>>
=============================================================================
