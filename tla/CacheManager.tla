---------------------------- MODULE CacheManager ----------------------------
(***************************************************************************)
(* The manager task that Server::new of src/binary_cache_proxy/mod.rs      *)
(* spawns: the only writer of the published cache table.  Its select! loop *)
(* waits for the refresh interval, the end of a batch of advertisements, a *)
(* bad cache reported by the proxy and an event of the discover task.      *)
(*                                                                         *)
(* A handler runs to its end before the next select!, and other tasks see  *)
(* it only through the published table, which it stores once, and through  *)
(* channels.  It is therefore one action up to each `.await` inside it:    *)
(*   "select"   the task is in select!                                     *)
(*   "arm"      in the Adv handler, in batch_timer.set_timeout(..).await   *)
(*   "request"  in discover.broadcast_req().await                          *)
(* "load" is the loop of Server::new over the configured caches, before    *)
(* anything else runs.                                                     *)
(***************************************************************************)
EXTENDS Channels, DynamicTimer

CONSTANTS
  BinaryCaches,    \* config.binary_caches, a sequence of hosts
  LocalStrategy,   \* config.local_binary_caches.error_strategy
  BatchDelay,      \* the second that a batch is held back, in ticks
  RefreshTime,     \* config.local_binary_caches.discovery_refresh_time
  LagBound         \* bound: how many ticks late the interval can be

Host == [url : Urls, priority : Priorities, error_strategy : ErrorStrategy]

ASSUME ConfigAssumption ==
  /\ BinaryCaches \in Seq(Host)
  /\ LocalStrategy \in ErrorStrategy
  /\ BatchDelay \in Durations
  /\ RefreshTime \in Nat \ {0} /\ LagBound \in Nat
  /\ 0 \in Priorities

VARIABLES
  table,          \* server.caches, the table the proxy reads
  local_caches,   \* the cache learned from each host
  batch,          \* advertised caches not yet in the table, with their hosts
  last_adv,       \* ticks during which the last Adv still spares a Req
  interval,       \* ticks until the interval is due, negative when late
  manager,        \* where the manager task is
  handling,       \* the Adv whose handler is at an await
  loaded,         \* how many configured caches are in the table
  configured,     \* history: URLs whose entry is still the configured one
  listed          \* history: URLs that were ever in the table

learnedVars == <<local_caches, batch>>
clockVars   == <<last_adv, interval>>
historyVars == <<configured, listed>>
managerVars == <<table, local_caches, batch, last_adv, interval,
                 manager, handling, loaded, configured, listed>>
vars        == <<managerVars, timerVars, channelVars>>

NoEvent == [type |-> "none"]

ManagerTypeOK ==
  /\ IsCacheData(table)
  /\ IsMap(local_caches, Ips, Urls)
  /\ IsMap(batch, Urls, Ips)
  /\ last_adv \in 0 .. RefreshTime
  /\ interval \in -LagBound .. RefreshTime
  /\ manager \in {"load", "select", "arm", "request"}
  /\ handling \in Event \cup {NoEvent}
  /\ loaded \in 0 .. Len(BinaryCaches)
  /\ configured \in SUBSET Urls
  /\ listed \in SUBSET Urls

TypeOK == ManagerTypeOK /\ TimerTypeOK /\ ChannelsTypeOK

ManagerInit ==
  /\ table = EmptyTable
  /\ local_caches = NoCaches
  /\ batch = NoCaches
  /\ last_adv = 0
  /\ interval = 0
  /\ manager = "load"
  /\ handling = NoEvent
  /\ loaded = 0
  /\ configured = {}
  /\ listed = {}

Init == ManagerInit /\ TimerInit /\ ChannelsInit

-----------------------------------------------------------------------------
(* Server::new inserts the configured caches in the order of the file; a   *)
(* URL listed twice moves to its last priority and keeps its first error   *)
(* strategy.                                                               *)
LoadHost ==
  /\ manager = "load" /\ loaded < Len(BinaryCaches)
  /\ LET host == BinaryCaches[loaded + 1]
     IN  /\ table' = InsertCache(table, host.priority, host.error_strategy, host.url)
         /\ configured' = configured \cup {host.url}
         /\ listed' = listed \cup {host.url}
  /\ loaded' = loaded + 1
  /\ UNCHANGED <<learnedVars, clockVars, manager, handling, timerVars, channelVars>>

SpawnManager ==
  /\ manager = "load" /\ loaded = Len(BinaryCaches)
  /\ manager' = "select"
  /\ UNCHANGED <<table, learnedVars, clockVars, handling, loaded,
                 historyVars, timerVars, channelVars>>

-----------------------------------------------------------------------------
(* The branches of the select!.                                            *)

(* The interval was due; the next tick is due one period after this one    *)
(* was, so that a late manager catches up in a burst.                      *)
IntervalDue(next) ==
  /\ manager = "select" /\ interval <= 0
  /\ interval' = interval + RefreshTime
  /\ manager' = next
  /\ UNCHANGED <<table, learnedVars, last_adv, handling, loaded,
                 historyVars, timerVars, channelVars>>

(* Mutant: asks when an Adv was heard lately.                              *)
IntervalTickSwapped == IntervalDue(IF last_adv > 0 THEN "request" ELSE "select")

(* interval.tick(): ask who is there, unless an Adv was heard lately.      *)
IntervalTick == IntervalDue(IF last_adv > 0 THEN "select" ELSE "request")

(* The caches `new` of the batch go into the table with priority 0, those  *)
(* `recorded` are noted for their hosts, and `kept` is left of the batch.  *)
(* The HashMap is drained in any order, so when a host advertised several  *)
(* new caches, any of them may end up as its cache.                        *)
DrainBatch(new, recorded, kept) ==
  /\ manager = "select"
  /\ RecvTick
  /\ table' = InsertNewCaches(table, 0, LocalStrategy, new)
  /\ LET hosts == {batch[u] : u \in recorded}
     IN  \E last \in [hosts -> recorded] :
           /\ \A ip \in hosts : batch[last[ip]] = ip
           /\ local_caches' = [ip \in DOMAIN local_caches \cup hosts |->
                                 IF ip \in hosts THEN last[ip] ELSE local_caches[ip]]
  /\ batch' = kept
  /\ listed' = listed \cup new
  /\ UNCHANGED <<clockVars, manager, handling, loaded, configured, channelVars>>

NewInBatch == DOMAIN batch \ Known(table)

(* Mutants: `retain` forgotten, known caches are inserted anew; the new    *)
(* caches are not recorded; known caches stay in the batch.                *)
BatchTimeoutNoRetain   == DrainBatch(DOMAIN batch, DOMAIN batch, NoCaches)
BatchTimeoutUnrecorded == DrainBatch(NewInBatch, {}, NoCaches)
BatchTimeoutKeepsKnown ==
  DrainBatch(NewInBatch, NewInBatch, Restrict(batch, DOMAIN batch \cap Known(table)))

(* batch_timeout.recv(): the caches that are in the table by now are       *)
(* dropped from the batch, the others enter it.                            *)
BatchTimeout == DrainBatch(NewInBatch, NewInBatch, NoCaches)

(* A report is received, and the cache is treated.                         *)
Treat(treated) ==
  /\ manager = "select" /\ reports # <<>>
  /\ reports' = Tail(reports)
  /\ table' = treated
  /\ configured' = configured \cap Known(table')
  /\ UNCHANGED <<learnedVars, clockVars, manager, handling, loaded, listed,
                 timerVars, events, requests, discover_up, cancelled>>

(* Mutant: its error strategy is not looked at.                            *)
BadCacheRemoved == Treat(RemoveCache(table, Head(reports)))

(* manage_rx.recv(): a cache the proxy could not use.                      *)
BadCache == Treat(ApplyErrorStrategy(table, Head(reports)))

(* events.recv().                                                          *)
TakeEvent ==
  /\ manager = "select" /\ events # <<>>
  /\ events' = Tail(events)
  /\ UNCHANGED <<interval, loaded, listed, timerVars, requests, reports,
                 discover_up, cancelled>>

(* The addresses of this host changed, so every cache that was learned on  *)
(* the old network is dropped and the new one is asked.                    *)
OnNetworkChanged ==
  /\ TakeEvent /\ Head(events) = NetworkChanged
  /\ table' = RemoveCaches(table, Range(local_caches))
  /\ configured' = configured \cap Known(table')
  /\ local_caches' = NoCaches
  /\ manager' = "request"
  /\ UNCHANGED <<batch, last_adv, handling>>

(* A host says goodbye: the cache learned from it, if any, is dropped.     *)
OnGoodbye ==
  /\ TakeEvent
  /\ \E ip \in Ips :
       /\ Head(events) = Goodbye(ip)
       /\ IF ip \in DOMAIN local_caches
          THEN /\ table' = RemoveCache(table, local_caches[ip])
               /\ local_caches' = Restrict(local_caches, DOMAIN local_caches \ {ip})
          ELSE UNCHANGED <<table, local_caches>>
  /\ configured' = configured \cap Known(table')
  /\ UNCHANGED <<batch, last_adv, manager, handling>>

(* A host advertises a cache: first half, up to the await.                 *)
OnAdv ==
  /\ TakeEvent /\ Head(events).type = "adv"
  /\ handling' = Head(events)
  /\ last_adv' = RefreshTime
  /\ manager' = "arm"
  /\ UNCHANGED <<table, learnedVars, configured>>

(* The advertised cache is noted, last.                                    *)
PutInBatch ==
  /\ manager = "arm"
  /\ LET url == handling.binary_cache_url
     IN  batch' = [u \in DOMAIN batch \cup {url} |->
                     IF u = url THEN handling.source_ip ELSE batch[u]]
  /\ handling' = NoEvent
  /\ manager' = "select"
  /\ UNCHANGED <<table, local_caches, clockVars, loaded, historyVars, channelVars>>

(* Mutant: the timer is not set.                                           *)
NoteAdvUntimed == PutInBatch /\ UNCHANGED timerVars

(* Second half: the timer took the new delay and the cache is noted.       *)
NoteAdv == SetTimeout(BatchDelay) /\ PutInBatch

(* The end of discover.broadcast_req(), wherever it was called from.       *)
SendReq ==
  /\ manager = "request"
  /\ BroadcastReq
  /\ manager' = "select"
  /\ UNCHANGED <<table, learnedVars, clockVars, handling, loaded, historyVars,
                 timerVars>>

ManagerNext ==
  \/ LoadHost \/ SpawnManager
  \/ IntervalTick \/ BatchTimeout \/ BadCache
  \/ OnNetworkChanged \/ OnGoodbye \/ OnAdv \/ NoteAdv \/ SendReq

-----------------------------------------------------------------------------
(* The timer's own task.                                                   *)
TimerTask == (TimerArm \/ TimerExpire) /\ UNCHANGED <<managerVars, channelVars>>

(* A tick of time, for the clocks of the manager, the timer and the table. *)
Tick ==
  /\ manager # "load"
  /\ last_adv' = IF last_adv > 0 THEN last_adv - 1 ELSE last_adv
  /\ interval' = IF interval > -LagBound THEN interval - 1 ELSE interval
  /\ table' = AgeTable(table)
  /\ TimerElapse
  /\ UNCHANGED <<learnedVars, manager, handling, loaded, historyVars, channelVars>>

-----------------------------------------------------------------------------
(* The other tasks of the node, as far as the manager can tell.  The       *)
(* discover task starts while Server::new is still running.                *)
EnvEvent ==
  /\ loaded = Len(BinaryCaches)
  /\ discover_up /\ HasRoom(events)
  /\ \E event \in Event : events' = Append(events, event)
  /\ UNCHANGED <<managerVars, timerVars, requests, reports, discover_up, cancelled>>

EnvTakeRequest ==
  /\ discover_up /\ requests # <<>>
  /\ requests' = Tail(requests)
  /\ UNCHANGED <<managerVars, timerVars, events, reports, discover_up, cancelled>>

(* A request of the proxy may work on an old table, so the cache it        *)
(* reports is one that is or was listed.                                   *)
EnvReport ==
  /\ manager # "load" /\ HasRoom(reports)
  /\ \E url \in listed : reports' = Append(reports, url)
  /\ UNCHANGED <<managerVars, timerVars, events, requests, discover_up, cancelled>>

(* A signal, or the end of the program for another reason.                 *)
EnvCancel ==
  /\ ~cancelled
  /\ cancelled' = TRUE
  /\ UNCHANGED <<managerVars, timerVars, events, requests, reports, discover_up>>

(* The discover task returns when the token is cancelled, or cancels it as *)
(* it returns with an error.                                               *)
EnvDiscoverEnds ==
  /\ DropDiscover
  /\ cancelled' = TRUE
  /\ UNCHANGED <<managerVars, timerVars, events, reports>>

EnvNext ==
  EnvEvent \/ EnvTakeRequest \/ EnvReport \/ EnvCancel \/ EnvDiscoverEnds

Next == ManagerNext \/ TimerTask \/ Tick \/ EnvNext

Spec == Init /\ [][Next]_vars

(* select! starts with a random branch every time, so a branch that is     *)
(* ready again and again is taken.  The other steps need only not be       *)
(* forgotten by the runtime.  Nothing is assumed of the other tasks.       *)
Fairness ==
  /\ WF_vars(LoadHost) /\ WF_vars(SpawnManager)
  /\ SF_vars(IntervalTick) /\ SF_vars(BatchTimeout) /\ SF_vars(BadCache)
  /\ SF_vars(OnNetworkChanged) /\ SF_vars(OnGoodbye) /\ SF_vars(OnAdv)
  /\ WF_vars(NoteAdv) /\ WF_vars(SendReq)
  /\ WF_vars(TimerTask) /\ WF_vars(Tick)

FairSpec == Spec /\ Fairness

-----------------------------------------------------------------------------
(* The two indexes of the published table agree at all times, so neither   *)
(* the manager nor a request reading the table panics (mod.rs:77, 103, 142)*)
TableConsistent == Consistent(table)

(* Every host that may advertise u sticks to it.                           *)
Sticky(u) == \A a, b \in Advertises : a[2] = u /\ b[1] = a[1] => b[2] = u

(* Every cache in the table that is not there by configuration is on       *)
(* record in local_caches, where a goodbye or a network change finds it    *)
(* (mod.rs:302, 330, 338), unless a host that advertises it advertises     *)
(* others too: local_caches has one per host.  No configured cache is on   *)
(* record, so that neither removes one: the TODO at mod.rs:331 has nothing *)
(* to restore.                                                             *)
Ownership ==
  /\ \A u \in Known(table) \ configured : Sticky(u) => u \in Range(local_caches)
  /\ configured \cap Range(local_caches) = {}

(* Where each entry of the table comes from shows: a configured cache has  *)
(* the last priority and the first error strategy the file gives it, and   *)
(* no advertisement changes them; every other one has priority 0 and the   *)
(* strategy of local caches (mod.rs:251, 298, 303).                        *)
Provenance ==
  \A u \in Known(table) :
    LET meta == table.caches[u]
        At   == {i \in 1 .. loaded : BinaryCaches[i].url = u}
    IN  IF u \in configured
        THEN /\ \E i \in At : /\ meta.priority = BinaryCaches[i].priority
                             /\ \A j \in At : j <= i
             /\ \E i \in At : /\ meta.error_strategy = BinaryCaches[i].error_strategy
                             /\ \A j \in At : j >= i
        ELSE meta.priority = 0 /\ meta.error_strategy = LocalStrategy

(* As long as an advertised cache waits in the batch, the tick that will   *)
(* put it in the table is on its way: none is lost between the Adv handler,*)
(* the timer's task and its two channels (mod.rs:295, 352; util.rs:24-40). *)
NoLostWakeup == batch # NoCaches => TickOwed

(* A configured cache leaves the table only because the proxy reported it  *)
(* and its own error strategy says so; what peers say, and changes of the  *)
(* network, leave it in (mod.rs:308-346).                                  *)
ConfiguredSurvive ==
  [][\A u \in configured :
       \/ u \in Known(table')
       \/ /\ reports # <<>> /\ Head(reports) = u /\ reports' = <<>>
          /\ table.caches[u].error_strategy.type = "remove"]_vars

(* When a network change has been handled, nothing learned on the old      *)
(* network is in the table any more, except for the second cache of a host *)
(* (mod.rs:302, 327-336).                                                  *)
NetworkChangeForgetsPeers ==
  [][OnNetworkChanged => \A u \in Known(table') : Sticky(u) => u \in configured]_vars

(* The manager implements PeerList: whatever its timers, its channels and  *)
(* its delays do, what it lists is the file, and the advertisements it was *)
(* sent, minus what their hosts took back, a network change made obsolete  *)
(* or a report and the error strategy of the entry removed.  No event or   *)
(* report is lost, counts twice or out of order, and none touches what is  *)
(* listed because of the file; only the batch may land late, after its     *)
(* host or its network has gone (mod.rs:250-253, 295-355).                 *)
Mapped == INSTANCE PeerList WITH
  peers   <- [batch |-> batch, local_caches |-> local_caches, known |-> Known(table)],
  loading <- manager = "load",
  events  <- IF manager = "arm" THEN <<handling>> \o events ELSE events,
  InFile  <- {host.url : host \in Range(BinaryCaches)},
  RemovedOnError <- {BinaryCaches[i].url : i \in {i \in DOMAIN BinaryCaches :
                       /\ BinaryCaches[i].error_strategy.type = "remove"
                       /\ \A j \in 1 .. i - 1 : BinaryCaches[j].url # BinaryCaches[i].url}},
  ForgetsBad     <- LocalStrategy.type = "remove"

KeepsPeerList == Mapped!PeersSpec

(* Hosts never stop advertising, and each time the delay of the batch is   *)
(* started anew, before a tick of it takes u out (mod.rs:352).             *)
HeldBack(u) == []<><<NoteAdv>>_vars /\ <>[](u \in DOMAIN batch)

(* An advertised cache gets into the table, however often any is heard of  *)
(* again, unless it is held back for good or the manager never gets its    *)
(* Req accepted (mod.rs:291, 295-307, 352).                                *)
BatchLands ==
  \A u \in Urls :
    \/ HeldBack(u)
    \/ <>[](manager = "request")
    \/ u \in DOMAIN batch ~> u \in Known(table)

(* The node never falls silent: it goes on asking who is there, except     *)
(* while it hears from somebody anyway.  Neither a late manager nor an Adv *)
(* that spares it a Req makes the interval stop (mod.rs:287-294, 351).     *)
KeepsAsking == []<>(manager = "request" \/ last_adv > 0)
=============================================================================
