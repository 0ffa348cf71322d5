------------------------ MODULE CacheManager_proofs ------------------------
(***************************************************************************)
(* Safety of the manager task, for any configuration, any hosts and any    *)
(* order of what the other tasks do.                                       *)
(***************************************************************************)
EXTENDS CacheManager, CacheTable_proofs, DynamicTimer_proofs, TLAPS

Assumptions ==
  /\ PrioritiesAssumption /\ DurationsAssumption
  /\ AdvertisesAssumption /\ ConfigAssumption

LEMMA AssumptionsHold == Assumptions
  BY PrioritiesAssumption, DurationsAssumption, AdvertisesAssumption, ConfigAssumption
  DEF Assumptions

-----------------------------------------------------------------------------
(* Channels of capacity 1.                                                 *)
LEMMA EmptyChannel ==
  ASSUME NEW M
  PROVE  IsChannel(<<>>, M)
  BY DEF IsChannel, Capacity

LEMMA TakeFromChannel ==
  ASSUME NEW ch, NEW M, IsChannel(ch, M), ch # <<>>
  PROVE  IsChannel(Tail(ch), M) /\ Head(ch) \in M /\ Tail(ch) = <<>>
  BY DEF IsChannel, Capacity

LEMMA PutInChannel ==
  ASSUME NEW ch, NEW M, IsChannel(ch, M), HasRoom(ch), NEW m \in M
  PROVE  IsChannel(Append(ch, m), M)
  BY DEF IsChannel, HasRoom, Capacity

-----------------------------------------------------------------------------
(* The type invariant and the agreement of the table's two indexes are     *)
(* inductive together: an operation on a table whose indexes disagree      *)
(* would look up a bucket that is not there.  The second half of the Adv   *)
(* handler needs to know that the first one left it an Adv.                *)
TypeInv == /\ TypeOK
           /\ Consistent(table)
           /\ manager = "arm" => handling.type = "adv"

LEMMA TypeInvGood ==
  ASSUME TypeInv
  PROVE  GoodTable(table)
  BY DEF TypeInv, TypeOK, ManagerTypeOK, GoodTable

LEMMA TypeInvInit == Init => TypeInv
<1> SUFFICES ASSUME Init PROVE TypeInv
  OBVIOUS
<1>1. GoodTable(table)
  BY EmptyTableGood DEF Init, ManagerInit
<1>2. ManagerTypeOK
  BY <1>1, ConfigAssumption
  DEF Init, ManagerInit, ManagerTypeOK, IsMap, NoCaches, GoodTable, Host
<1>3. TimerTypeOK
  BY DEF Init, TimerInit, TimerTypeOK
<1>4. ChannelsTypeOK
  <2>1. discover_up \in BOOLEAN /\ cancelled \in BOOLEAN
    BY DEF Init, ChannelsInit
  <2> QED BY <2>1, EmptyChannel DEF Init, ChannelsInit, ChannelsTypeOK
<1> QED BY <1>1, <1>2, <1>3, <1>4 DEF TypeInv, TypeOK, GoodTable, Init, ManagerInit

LEMMA ChannelsTypeStutter ==
  ASSUME ChannelsTypeOK, UNCHANGED channelVars
  PROVE  ChannelsTypeOK'
  BY DEF ChannelsTypeOK, channelVars

(* The manager took the event at the head of the channel.                  *)
LEMMA EventTaken ==
  ASSUME ChannelsTypeOK, events # <<>>, events' = Tail(events),
         UNCHANGED <<requests, reports, discover_up, cancelled>>
  PROVE  ChannelsTypeOK' /\ Head(events) \in Event
  BY TakeFromChannel DEF ChannelsTypeOK

(* A step that leaves the timer and the channels alone.                    *)
LEMMA TypeInvFrame ==
  ASSUME TypeInv, GoodTable(table)', ManagerTypeOK', manager' # "arm",
         UNCHANGED <<timerVars, channelVars>>
  PROVE  TypeInv'
  BY TimerTypeStep, ChannelsTypeStutter DEF TypeInv, TypeOK, GoodTable

-----------------------------------------------------------------------------
LEMMA TypeInvLoad ==
  ASSUME TypeInv, LoadHost \/ SpawnManager
  PROVE  TypeInv'
<1>1. CASE LoadHost
  <2> DEFINE host == BinaryCaches[loaded + 1]
  <2>1. host \in Host
    BY <1>1, ConfigAssumption DEF LoadHost, TypeInv, TypeOK, ManagerTypeOK
  <2>2. GoodTable(table)'
    BY <1>1, <2>1, TypeInvGood, InsertCacheGood DEF LoadHost, Host
  <2>3. ManagerTypeOK'
    BY <1>1, <2>1, <2>2, ConfigAssumption
    DEF LoadHost, Host, TypeInv, TypeOK, ManagerTypeOK, GoodTable, learnedVars, clockVars
  <2> QED BY <1>1, <2>2, <2>3, TypeInvFrame DEF LoadHost
<1>2. CASE SpawnManager
  <2>1. GoodTable(table)' /\ ManagerTypeOK'
    BY <1>2, TypeInvGood
    DEF SpawnManager, TypeInv, TypeOK, ManagerTypeOK, GoodTable, learnedVars, clockVars,
        historyVars
  <2> QED BY <1>2, <2>1, TypeInvFrame DEF SpawnManager
<1> QED BY <1>1, <1>2

LEMMA TypeInvIntervalTick ==
  ASSUME TypeInv, IntervalTick
  PROVE  TypeInv'
<1>1. GoodTable(table)' /\ ManagerTypeOK'
  BY TypeInvGood, ConfigAssumption
  DEF IntervalTick, IntervalDue, TypeInv, TypeOK, ManagerTypeOK, GoodTable,
      learnedVars, historyVars
<1> QED BY <1>1, TypeInvFrame DEF IntervalTick, IntervalDue

LEMMA TypeInvBatchTimeout ==
  ASSUME TypeInv, BatchTimeout
  PROVE  TypeInv'
<1> DEFINE new   == NewInBatch
           hosts == {batch[u] : u \in new}
<1>1. PICK last \in [hosts -> new] :
        local_caches' = [ip \in DOMAIN local_caches \cup hosts |->
                           IF ip \in hosts THEN last[ip] ELSE local_caches[ip]]
  BY DEF BatchTimeout, DrainBatch
<1>2. new \in SUBSET Urls /\ new \cap Known(table) = {} /\ hosts \subseteq Ips
  BY DEF NewInBatch, TypeInv, TypeOK, ManagerTypeOK, IsMap
<1>3. GoodTable(table)'
  <2>1. table' = InsertNewCaches(table, 0, LocalStrategy, new)
    BY DEF BatchTimeout, DrainBatch
  <2> HIDE DEF new
  <2> QED BY <1>2, <2>1, TypeInvGood, InsertNewCachesGood, ConfigAssumption
<1>4. IsMap(local_caches, Ips, Urls)'
  <2> HIDE DEF hosts, new
  <2> QED BY <1>1, <1>2 DEF TypeInv, TypeOK, ManagerTypeOK, IsMap
<1>5. ManagerTypeOK'
  BY <1>2, <1>3, <1>4
  DEF BatchTimeout, DrainBatch, TypeInv, TypeOK, ManagerTypeOK, GoodTable,
      clockVars, IsMap, NoCaches
<1>6. TimerTypeOK' /\ ChannelsTypeOK'
  BY TimerTypeStep, ChannelsTypeStutter DEF BatchTimeout, DrainBatch, TypeInv,
    TypeOK
<1> QED BY <1>3, <1>5, <1>6 DEF TypeInv, TypeOK, GoodTable, BatchTimeout, DrainBatch

LEMMA TypeInvBadCache ==
  ASSUME TypeInv, BadCache
  PROVE  TypeInv'
<1>1. GoodTable(table)'
  BY TypeInvGood, ApplyErrorStrategyGood DEF BadCache, Treat
<1>2. ManagerTypeOK'
  BY <1>1
  DEF BadCache, Treat, TypeInv, TypeOK, ManagerTypeOK, GoodTable, learnedVars,
      clockVars
<1>3. TimerTypeOK'
  BY TimerTypeStep DEF BadCache, Treat, TypeInv, TypeOK
<1>4. ChannelsTypeOK'
  BY TakeFromChannel DEF BadCache, Treat, TypeInv, TypeOK, ChannelsTypeOK
<1> QED BY <1>1, <1>2, <1>3, <1>4 DEF TypeInv, TypeOK, GoodTable, BadCache, Treat

LEMMA TypeInvOnNetworkChanged ==
  ASSUME TypeInv, OnNetworkChanged
  PROVE  TypeInv'
<1>1. GoodTable(table)'
  BY TypeInvGood, RemoveCachesGood DEF OnNetworkChanged, TakeEvent
<1>2. ManagerTypeOK'
  BY <1>1
  DEF OnNetworkChanged, TakeEvent, TypeInv, TypeOK, ManagerTypeOK, GoodTable,
      clockVars, IsMap, NoCaches
<1>3. TimerTypeOK' /\ ChannelsTypeOK'
  BY TimerTypeStep, EventTaken DEF OnNetworkChanged, TakeEvent, TypeInv, TypeOK
<1> QED BY <1>1, <1>2, <1>3 DEF TypeInv, TypeOK, GoodTable, OnNetworkChanged,
                                TakeEvent

LEMMA TypeInvOnGoodbye ==
  ASSUME TypeInv, OnGoodbye
  PROVE  TypeInv'
<1>1. PICK ip \in Ips :
        IF ip \in DOMAIN local_caches
        THEN /\ table' = RemoveCache(table, local_caches[ip])
             /\ local_caches' = Restrict(local_caches, DOMAIN local_caches \ {ip})
        ELSE UNCHANGED <<table, local_caches>>
  BY DEF OnGoodbye, TakeEvent
<1>2. GoodTable(table)'
  BY <1>1, TypeInvGood, RemoveCacheGood
<1>3. ManagerTypeOK'
  BY <1>1, <1>2
  DEF OnGoodbye, TakeEvent, TypeInv, TypeOK, ManagerTypeOK, GoodTable, clockVars,
      IsMap, Restrict
<1>4. TimerTypeOK' /\ ChannelsTypeOK'
  BY TimerTypeStep, EventTaken DEF OnGoodbye, TakeEvent, TypeInv, TypeOK
<1> QED BY <1>2, <1>3, <1>4 DEF TypeInv, TypeOK, GoodTable, OnGoodbye, TakeEvent

(* The two halves of the Adv handler.                                      *)
LEMMA EventIsAdv ==
  ASSUME NEW e \in Event \cup {NoEvent}, e.type = "adv"
  PROVE  <<e.source_ip, e.binary_cache_url>> \in Advertises
  BY AdvertisesAssumption DEF Event, NoEvent, NetworkChanged, Goodbye, Adv

LEMMA TypeInvOnAdv ==
  ASSUME TypeInv, OnAdv
  PROVE  TypeInv'
<1>1. TimerTypeOK' /\ ChannelsTypeOK' /\ Head(events) \in Event
  BY TimerTypeStep, EventTaken DEF OnAdv, TakeEvent, TypeInv, TypeOK
<1>2. GoodTable(table)' /\ ManagerTypeOK'
  BY <1>1, TypeInvGood, ConfigAssumption
  DEF OnAdv, TakeEvent, TypeInv, TypeOK, ManagerTypeOK, GoodTable, learnedVars,
      historyVars
<1> QED BY <1>1, <1>2 DEF TypeInv, TypeOK, GoodTable, OnAdv, TakeEvent

LEMMA TypeInvNoteAdv ==
  ASSUME TypeInv, NoteAdv
  PROVE  TypeInv'
<1>1. handling.source_ip \in Ips /\ handling.binary_cache_url \in Urls
  BY EventIsAdv, AdvertisesAssumption DEF NoteAdv, PutInBatch, TypeInv, TypeOK,
                                          ManagerTypeOK
<1>2. IsMap(batch, Urls, Ips)'
  BY <1>1 DEF NoteAdv, PutInBatch, TypeInv, TypeOK, ManagerTypeOK, IsMap
<1>3. GoodTable(table)' /\ ManagerTypeOK'
  BY <1>2, TypeInvGood
  DEF NoteAdv, PutInBatch, TypeInv, TypeOK, ManagerTypeOK, GoodTable, clockVars,
      historyVars
<1>4. TimerTypeOK' /\ ChannelsTypeOK'
  BY TimerTypeStep, ChannelsTypeStutter, ConfigAssumption DEF NoteAdv, PutInBatch,
    TypeInv, TypeOK
<1> QED BY <1>3, <1>4 DEF TypeInv, TypeOK, GoodTable, NoteAdv, PutInBatch

LEMMA TypeInvSendReq ==
  ASSUME TypeInv, SendReq
  PROVE  TypeInv'
<1>1. GoodTable(table)' /\ ManagerTypeOK'
  BY TypeInvGood
  DEF SendReq, TypeInv, TypeOK, ManagerTypeOK, GoodTable, learnedVars, clockVars, historyVars
<1>2. TimerTypeOK'
  BY TimerTypeStep DEF SendReq, TypeInv, TypeOK
<1>3. ChannelsTypeOK'
  BY PutInChannel DEF SendReq, BroadcastReq, TypeInv, TypeOK, ChannelsTypeOK
<1> QED BY <1>1, <1>2, <1>3 DEF TypeInv, TypeOK, GoodTable, SendReq

(* Steps that are not the manager's.                                       *)
LEMMA ManagerTypeStutter ==
  ASSUME TypeInv, UNCHANGED managerVars
  PROVE  GoodTable(table)' /\ ManagerTypeOK' /\ (manager = "arm" => handling.type = "adv")'
  BY TypeInvGood DEF TypeInv, TypeOK, ManagerTypeOK, managerVars, GoodTable

LEMMA TypeInvTick ==
  ASSUME TypeInv, Tick
  PROVE  TypeInv'
<1>1. GoodTable(table)'
  BY TypeInvGood, AgeTableGood DEF Tick
<1>2. /\ last_adv' \in 0 .. RefreshTime
      /\ interval' \in -LagBound .. RefreshTime
  BY ConfigAssumption DEF Tick, TypeInv, TypeOK, ManagerTypeOK
<1>3. ManagerTypeOK'
  BY <1>1, <1>2
  DEF Tick, TypeInv, TypeOK, ManagerTypeOK, GoodTable, learnedVars, historyVars
<1>4. TimerTypeOK' /\ ChannelsTypeOK'
  BY TimerTypeStep, ChannelsTypeStutter DEF Tick, TypeInv, TypeOK
<1> QED BY <1>1, <1>3, <1>4 DEF TypeInv, TypeOK, GoodTable, Tick

LEMMA TypeInvTimerTask ==
  ASSUME TypeInv, TimerTask
  PROVE  TypeInv'
<1>1. TimerTypeOK' /\ ChannelsTypeOK'
  BY TimerTypeStep, ChannelsTypeStutter DEF TimerTask, TypeInv, TypeOK
<1> QED BY <1>1, ManagerTypeStutter DEF TypeInv, TypeOK, GoodTable, TimerTask

LEMMA TypeInvEnv ==
  ASSUME TypeInv, EnvNext
  PROVE  TypeInv'
<1>1. UNCHANGED <<managerVars, timerVars>>
  BY DEF EnvNext, EnvEvent, EnvTakeRequest, EnvReport, EnvCancel, EnvDiscoverEnds
<1>2. TimerTypeOK'
  BY <1>1, TimerTypeStep DEF TypeInv, TypeOK
<1>3. ChannelsTypeOK'
  <2> USE DEF TypeInv, TypeOK, ChannelsTypeOK
  <2>1. CASE EnvEvent
    BY <2>1, PutInChannel DEF EnvEvent
  <2>2. CASE EnvTakeRequest
    BY <2>2, TakeFromChannel DEF EnvTakeRequest
  <2>3. CASE EnvReport
    BY <2>3, PutInChannel DEF EnvReport, ManagerTypeOK
  <2>4. CASE EnvCancel
    BY <2>4 DEF EnvCancel
  <2>5. CASE EnvDiscoverEnds
    BY <2>5, EmptyChannel DEF EnvDiscoverEnds, DropDiscover
  <2> QED BY <2>1, <2>2, <2>3, <2>4, <2>5 DEF EnvNext
<1> QED BY <1>1, <1>2, <1>3, ManagerTypeStutter DEF TypeInv, TypeOK, GoodTable

LEMMA TypeInvNext ==
  ASSUME TypeInv, [Next]_vars
  PROVE  TypeInv'
<1>1. CASE LoadHost \/ SpawnManager
  BY <1>1, TypeInvLoad
<1>2. CASE IntervalTick
  BY <1>2, TypeInvIntervalTick
<1>3. CASE BatchTimeout
  BY <1>3, TypeInvBatchTimeout
<1>4. CASE BadCache
  BY <1>4, TypeInvBadCache
<1>5. CASE OnNetworkChanged
  BY <1>5, TypeInvOnNetworkChanged
<1>6. CASE OnGoodbye
  BY <1>6, TypeInvOnGoodbye
<1>7. CASE OnAdv
  BY <1>7, TypeInvOnAdv
<1>8. CASE NoteAdv
  BY <1>8, TypeInvNoteAdv
<1>9. CASE SendReq
  BY <1>9, TypeInvSendReq
<1>10. CASE Tick
  BY <1>10, TypeInvTick
<1>11. CASE TimerTask
  BY <1>11, TypeInvTimerTask
<1>12. CASE EnvNext
  BY <1>12, TypeInvEnv
<1>13. CASE UNCHANGED vars
  <2>1. UNCHANGED <<managerVars, timerVars, channelVars>>
    BY <1>13 DEF vars
  <2> QED BY <2>1, ManagerTypeStutter, TimerTypeStep, ChannelsTypeStutter
          DEF TypeInv, TypeOK, GoodTable
<1> QED BY <1>1, <1>2, <1>3, <1>4, <1>5, <1>6, <1>7, <1>8, <1>9, <1>10, <1>11,
           <1>12, <1>13 DEF Next, ManagerNext

LEMMA TypeInvHolds == Spec => []TypeInv
  BY TypeInvInit, TypeInvNext, PTL DEF Spec

(* The manager's state and its channels keep their types: an entry of the  *)
(* table, of the batch or of a host's record is always a whole one, the    *)
(* batch timer is armed at a time it can reach, and no channel holds more  *)
(* than it has room for, whatever peers, requests and the clock do         *)
(* (mod.rs:242-362).                                                       *)
THEOREM TypeCorrect == Spec => []TypeOK
  BY TypeInvHolds, PTL DEF TypeInv

(* The two indexes of the published table always agree: no "Invalid state" *)
(* panic ends the manager and no request fails to find the metadata of a   *)
(* cache in a bucket (mod.rs:77, 103, 142).                                *)
THEOREM TableConsistentHolds == Spec => []TableConsistent
<1>1. TypeInv => TableConsistent
  BY DEF TypeInv, TableConsistent
<1> QED BY <1>1, TypeInvHolds, PTL

-----------------------------------------------------------------------------
(* Who owns the entries of the table.  Ownership is inductive once it is   *)
(* known that what waits in the batch and what is on record for a host are *)
(* URLs this host advertised, that configured caches are in the table, and *)
(* that nothing was learned while the configuration was loaded.            *)
Sourced ==
  /\ \A u \in DOMAIN batch : <<batch[u], u>> \in Advertises
  /\ \A ip \in DOMAIN local_caches : <<ip, local_caches[ip]>> \in Advertises

OwnInv ==
  /\ TypeInv
  /\ Sourced
  /\ configured \subseteq Known(table)
  /\ manager = "load" => DOMAIN local_caches = {}
  /\ Ownership

LEMMA OwnInvInit == Init => OwnInv
  BY TypeInvInit
  DEF Init, ManagerInit, OwnInv, Sourced, Ownership, NoCaches, EmptyTable, Known, Range

(* A step that adds nothing to the table and drops nothing of what hosts   *)
(* own, unless the cache goes with it.                                     *)
LEMMA OwnInvLess ==
  ASSUME OwnInv, TypeInv', UNCHANGED batch, manager' # "load",
         Known(table)' \subseteq Known(table),
         configured' = configured \cap Known(table)',
         DOMAIN local_caches' \subseteq DOMAIN local_caches,
         \A ip \in DOMAIN local_caches' : local_caches'[ip] = local_caches[ip],
         Range(local_caches) \cap Known(table)' \subseteq Range(local_caches')
  PROVE  OwnInv'
<1>1. Sourced'
  BY DEF OwnInv, Sourced
<1>2. Range(local_caches') \subseteq Range(local_caches)
  BY DEF Range
<1>3. Ownership'
  BY <1>2 DEF OwnInv, Ownership, Sticky
<1> QED BY <1>1, <1>3 DEF OwnInv

(* A step that changes neither what is in the table nor what is learned.   *)
LEMMA OwnInvFrame ==
  ASSUME OwnInv, TypeInv', UNCHANGED <<batch, local_caches, configured>>,
         Known(table)' = Known(table), manager' = "load" => manager = "load"
  PROVE  OwnInv'
<1>1. Sourced' /\ Ownership'
  BY DEF OwnInv, Sourced, Ownership, Sticky
<1> QED BY <1>1 DEF OwnInv

LEMMA OwnInvLoadHost ==
  ASSUME OwnInv, LoadHost
  PROVE  OwnInv'
<1> DEFINE host == BinaryCaches[loaded + 1]
<1>1. host \in Host
  BY ConfigAssumption DEF LoadHost, OwnInv, TypeInv, TypeOK, ManagerTypeOK
<1>2. Known(table)' = Known(table) \cup {host.url} /\ configured' = configured \cup {host.url}
  BY <1>1, TypeInvGood, InsertCacheGood DEF LoadHost, OwnInv, Host
<1>3. Sourced' /\ Range(local_caches') = {}
  BY DEF LoadHost, OwnInv, Sourced, learnedVars, Range
<1>4. Ownership'
  BY <1>2, <1>3 DEF OwnInv, Ownership, Sticky, LoadHost, learnedVars
<1> QED BY <1>2, <1>3, <1>4, TypeInvLoad DEF OwnInv, LoadHost, learnedVars

LEMMA OwnInvBatchTimeout ==
  ASSUME OwnInv, BatchTimeout
  PROVE  OwnInv'
<1> DEFINE new   == NewInBatch
           hosts == {batch[u] : u \in new}
<1>1. PICK last \in [hosts -> new] :
        /\ \A ip \in hosts : batch[last[ip]] = ip
        /\ local_caches' = [ip \in DOMAIN local_caches \cup hosts |->
                              IF ip \in hosts THEN last[ip] ELSE local_caches[ip]]
  BY DEF BatchTimeout, DrainBatch
<1>2. new \in SUBSET Urls /\ new \cap Known(table) = {} /\ new \subseteq DOMAIN batch
  BY DEF NewInBatch, OwnInv, TypeInv, TypeOK, ManagerTypeOK, IsMap
<1>3. Known(table)' = Known(table) \cup new
  <2>1. table' = InsertNewCaches(table, 0, LocalStrategy, new)
    BY DEF BatchTimeout, DrainBatch
  <2> HIDE DEF new
  <2> QED BY <1>2, <2>1, TypeInvGood, InsertNewCachesGood, ConfigAssumption DEF OwnInv
<1>4. \A u \in new : <<batch[u], u>> \in Advertises
  BY DEF NewInBatch, OwnInv, Sourced
<1>5. \A ip \in hosts : last[ip] \in new /\ <<ip, last[ip]>> \in Advertises
  BY <1>1, <1>4
<1>6. Sourced'
  <2>1. batch' = NoCaches
    BY DEF BatchTimeout, DrainBatch
  <2> HIDE DEF hosts, new
  <2> QED BY <1>1, <1>5, <2>1 DEF OwnInv, Sourced, NoCaches
<1>7. configured \cap Range(local_caches') = {}
  <2>1. ASSUME NEW ip \in DOMAIN local_caches' PROVE local_caches'[ip] \notin configured
    <3>1. CASE ip \in hosts
      BY <1>1, <1>2, <1>5, <3>1 DEF OwnInv
    <3>2. CASE ip \notin hosts
      <4>1. ip \in DOMAIN local_caches /\ local_caches'[ip] = local_caches[ip]
        BY <1>1, <3>2
      <4> QED BY <4>1 DEF OwnInv, Ownership, Range
    <3> QED BY <3>1, <3>2
  <2> QED BY <2>1 DEF Range
<1>8. ASSUME NEW u \in Known(table)' \ configured, Sticky(u)
      PROVE  u \in Range(local_caches')
  <2>1. CASE u \in new
    <3>1. batch[u] \in hosts
      BY <2>1
    <3>2. last[batch[u]] = u
      BY <1>4, <1>5, <1>8, <2>1, <3>1 DEF Sticky
    <3>3. batch[u] \in DOMAIN local_caches' /\ local_caches'[batch[u]] = u
      BY <1>1, <3>1, <3>2
    <3> QED BY <3>3 DEF Range
  <2>2. CASE u \in Known(table)
    <3>1. PICK ip \in DOMAIN local_caches : local_caches[ip] = u
      BY <1>8, <2>2 DEF OwnInv, Ownership, Range
    <3>2. <<ip, u>> \in Advertises
      BY <3>1 DEF OwnInv, Sourced
    <3>3. ip \in hosts => last[ip] = u
      BY <1>5, <1>8, <3>2 DEF Sticky
    <3>4. ip \in DOMAIN local_caches' /\ local_caches'[ip] = u
      <4> HIDE DEF hosts, new
      <4> QED BY <1>1, <3>1, <3>3
    <3> QED BY <3>4 DEF Range
  <2> QED BY <1>3, <2>1, <2>2
<1>9. Ownership' /\ configured' = configured
  BY <1>7, <1>8 DEF BatchTimeout, DrainBatch, Ownership, Sticky
<1> QED BY <1>3, <1>6, <1>9, TypeInvBatchTimeout DEF OwnInv, BatchTimeout,
  DrainBatch

LEMMA OwnInvOnGoodbye ==
  ASSUME OwnInv, OnGoodbye
  PROVE  OwnInv'
<1>1. PICK ip \in Ips :
        IF ip \in DOMAIN local_caches
        THEN /\ table' = RemoveCache(table, local_caches[ip])
             /\ local_caches' = Restrict(local_caches, DOMAIN local_caches \ {ip})
        ELSE UNCHANGED <<table, local_caches>>
  BY DEF OnGoodbye, TakeEvent
<1>2. TypeInv' /\ GoodTable(table)
  BY TypeInvOnGoodbye, TypeInvGood DEF OwnInv
<1>3. CASE ip \in DOMAIN local_caches
  <2>1. Known(table)' = Known(table) \ {local_caches[ip]}
    BY <1>1, <1>2, <1>3, RemoveCacheGood
  <2>2. local_caches' = [h \in DOMAIN local_caches \ {ip} |-> local_caches[h]]
    BY <1>1, <1>3 DEF Restrict
  <2>3. Range(local_caches) \cap Known(table)' \subseteq Range(local_caches')
    BY <2>1, <2>2 DEF Range
  <2> QED BY <1>2, <2>1, <2>2, <2>3, OwnInvLess DEF OnGoodbye, TakeEvent
<1>4. CASE ip \notin DOMAIN local_caches
  BY <1>1, <1>2, <1>4, OwnInvLess DEF OnGoodbye, TakeEvent, OwnInv
<1> QED BY <1>3, <1>4

LEMMA OwnInvNoteAdv ==
  ASSUME OwnInv, NoteAdv
  PROVE  OwnInv'
<1>1. <<handling.source_ip, handling.binary_cache_url>> \in Advertises
  BY EventIsAdv DEF NoteAdv, PutInBatch, OwnInv, TypeInv, TypeOK, ManagerTypeOK
<1>2. Sourced'
  BY <1>1 DEF NoteAdv, PutInBatch, OwnInv, Sourced
<1>3. Ownership'
  BY DEF NoteAdv, PutInBatch, OwnInv, Ownership, Sticky, historyVars
<1> QED BY <1>2, <1>3, TypeInvNoteAdv DEF OwnInv, NoteAdv, PutInBatch, historyVars

LEMMA OwnInvNext ==
  ASSUME OwnInv, [Next]_vars
  PROVE  OwnInv'
<1>0. TypeInv /\ TypeInv' /\ GoodTable(table)
  BY TypeInvNext, TypeInvGood DEF OwnInv
<1>1. CASE LoadHost
  BY <1>1, OwnInvLoadHost
<1>2. CASE BatchTimeout
  BY <1>2, OwnInvBatchTimeout
<1>3. CASE BadCache
  <2>1. Known(table)' \subseteq Known(table)
    BY <1>0, <1>3, ApplyErrorStrategyGood DEF BadCache, Treat, Keeps
  <2> QED BY <1>0, <1>3, <2>1, OwnInvLess DEF BadCache, Treat, learnedVars
<1>4. CASE OnNetworkChanged
  <2>1. Known(table)' = Known(table) \ Range(local_caches)
    BY <1>0, <1>4, RemoveCachesGood DEF OnNetworkChanged, TakeEvent
  <2>2. DOMAIN local_caches' = {}
    BY <1>4 DEF OnNetworkChanged, TakeEvent, NoCaches
  <2> QED BY <1>0, <1>4, <2>1, <2>2, OwnInvLess DEF OnNetworkChanged, TakeEvent
<1>5. CASE OnGoodbye
  BY <1>5, OwnInvOnGoodbye
<1>6. CASE NoteAdv
  BY <1>6, OwnInvNoteAdv
<1>7. CASE Tick
  <2>1. Known(table)' = Known(table)
    BY <1>0, <1>7, AgeTableGood DEF Tick
  <2> QED BY <1>0, <1>7, <2>1, OwnInvFrame DEF Tick, learnedVars, historyVars
<1>8. CASE SpawnManager \/ IntervalTick \/ OnAdv \/ SendReq
  BY <1>0, <1>8, OwnInvFrame
  DEF SpawnManager, IntervalTick, IntervalDue, OnAdv, TakeEvent, SendReq,
      learnedVars, historyVars
<1>9. CASE TimerTask \/ EnvNext \/ UNCHANGED vars
  <2>1. UNCHANGED managerVars
    BY <1>9 DEF TimerTask, EnvNext, EnvEvent, EnvTakeRequest, EnvReport, EnvCancel,
               EnvDiscoverEnds, vars
  <2> QED BY <1>0, <2>1, OwnInvFrame DEF managerVars
<1> QED BY <1>1, <1>2, <1>3, <1>4, <1>5, <1>6, <1>7, <1>8, <1>9 DEF Next, ManagerNext

(* Whatever hosts come, go and advertise, as long as each sticks to one    *)
(* URL, every cache that is not configured is on record for the host it    *)
(* was learned from; and no configured cache ever is (mod.rs:302, 331).    *)
THEOREM OwnershipHolds == Spec => []Ownership
<1>1. Spec => []OwnInv
  BY OwnInvInit, OwnInvNext, PTL DEF Spec
<1>2. OwnInv => Ownership
  BY DEF OwnInv
<1> QED BY <1>1, <1>2, PTL

-----------------------------------------------------------------------------
LEMMA ConfiguredSurviveStep ==
  ASSUME OwnInv, [Next]_vars, NEW u \in configured
  PROVE  \/ u \in Known(table')
         \/ /\ reports # <<>> /\ Head(reports) = u /\ reports' = <<>>
            /\ table.caches[u].error_strategy.type = "remove"
<1>0. GoodTable(table) /\ u \in Known(table) /\ u \notin Range(local_caches)
  BY TypeInvGood DEF OwnInv, Ownership
<1>1. CASE BadCache
  <2>1. reports' = <<>>
    BY <1>1, TakeFromChannel DEF BadCache, Treat, OwnInv, TypeInv, TypeOK,
                                 ChannelsTypeOK
  <2> QED BY <1>0, <1>1, <2>1, ApplyErrorStrategyGood DEF BadCache, Treat
<1>2. CASE OnNetworkChanged
  BY <1>0, <1>2, RemoveCachesGood DEF OnNetworkChanged, TakeEvent
<1>3. CASE OnGoodbye
  <2>1. PICK ip \in Ips :
          IF ip \in DOMAIN local_caches
          THEN table' = RemoveCache(table, local_caches[ip])
          ELSE UNCHANGED table
    BY <1>3 DEF OnGoodbye, TakeEvent
  <2>2. ip \in DOMAIN local_caches => local_caches[ip] # u
    BY <1>0 DEF Range
  <2> QED BY <1>0, <2>1, <2>2, RemoveCacheGood
<1>4. CASE ~(BadCache \/ OnNetworkChanged \/ OnGoodbye)
  <2>1. configured \subseteq configured'
    BY <1>4 DEF Next, ManagerNext, LoadHost, SpawnManager, IntervalTick,
                IntervalDue, BatchTimeout, DrainBatch, OnAdv, TakeEvent, NoteAdv,
                PutInBatch, SendReq, Tick, TimerTask, EnvNext, EnvEvent,
                EnvTakeRequest, EnvReport, EnvCancel, EnvDiscoverEnds, vars,
                managerVars, historyVars
  <2> QED BY <2>1, OwnInvNext DEF OwnInv, Known
<1> QED BY <1>1, <1>2, <1>3, <1>4

(* A configured cache leaves the table only on a report of the proxy and   *)
(* by its own error strategy (mod.rs:308-346).                             *)
THEOREM ConfiguredSurviveHolds == Spec => ConfiguredSurvive
<1>1. OwnInv /\ [Next]_vars =>
        [\A u \in configured :
           \/ u \in Known(table')
           \/ /\ reports # <<>> /\ Head(reports) = u /\ reports' = <<>>
              /\ table.caches[u].error_strategy.type = "remove"]_vars
  BY ConfiguredSurviveStep
<1> QED BY <1>1, OwnInvInit, OwnInvNext, PTL DEF Spec, ConfiguredSurvive

(* Once a network change is handled, all that is left is configured, if    *)
(* hosts stick to one URL each (mod.rs:327-336).                           *)
THEOREM NetworkChangeForgetsPeersHolds == Spec => NetworkChangeForgetsPeers
<1>1. ASSUME OwnInv, OnNetworkChanged, NEW u \in Known(table'), Sticky(u)
      PROVE  u \in configured
  <2>1. Known(table') = Known(table) \ Range(local_caches)
    BY <1>1, TypeInvGood, RemoveCachesGood DEF OnNetworkChanged, TakeEvent, OwnInv
  <2> QED BY <1>1, <2>1 DEF OwnInv, Ownership
<1>2. OwnInv /\ [Next]_vars =>
        [OnNetworkChanged =>
           \A u \in Known(table') : Sticky(u) => u \in configured]_vars
  BY <1>1
<1> QED BY <1>2, OwnInvInit, OwnInvNext, PTL DEF Spec, NetworkChangeForgetsPeers

-----------------------------------------------------------------------------
(* A tick that is owed stays owed until the manager receives it.           *)
LEMMA TickOwedStep ==
  ASSUME TimerTypeOK, TickOwed, TimerArm \/ TimerExpire \/ TimerElapse
  PROVE  TickOwed'
<1> USE DEF TickOwed
<1>1. CASE TimerArm
  <2>1. Head(timeout_rx) \in Durations
    BY <1>1 DEF TimerArm, ArmWith, TimerTypeOK
  <2>2. next_timeout' # Pending
    BY <1>1, <2>1, DurationsAssumption DEF TimerArm, ArmWith, Pending
  <2> QED BY <2>2
<1>2. CASE TimerExpire
  BY <1>2 DEF TimerExpire, ExpireWith, TimerTypeOK
<1>3. CASE TimerElapse
  BY <1>3 DEF TimerElapse, TimerTypeOK, Pending
<1> QED BY <1>1, <1>2, <1>3

LEMMA NoLostWakeupStep ==
  ASSUME TypeInv, NoLostWakeup, [Next]_vars
  PROVE  NoLostWakeup'
<1>0. TimerTypeOK
  BY DEF TypeInv, TypeOK
<1>1. CASE BatchTimeout
  BY <1>1 DEF BatchTimeout, DrainBatch, NoLostWakeup
<1>2. CASE NoteAdv
  <2>1. timeout_rx' # <<>>
    BY <1>2 DEF NoteAdv, PutInBatch, SetTimeout
  <2> QED BY <2>1 DEF NoLostWakeup, TickOwed
<1>3. CASE TimerTask
  BY <1>0, <1>3, TickOwedStep DEF TimerTask, NoLostWakeup, managerVars
<1>4. CASE Tick
  BY <1>0, <1>4, TickOwedStep DEF Tick, NoLostWakeup, learnedVars
<1>5. CASE ~(BatchTimeout \/ NoteAdv \/ TimerTask \/ Tick)
  <2>1. UNCHANGED <<batch, timeout_rx, next_timeout, tick_rx>>
    BY <1>5 DEF Next, ManagerNext, LoadHost, SpawnManager, IntervalTick,
                IntervalDue, BadCache, Treat, OnNetworkChanged, TakeEvent,
                OnGoodbye, OnAdv, SendReq, EnvNext, EnvEvent, EnvTakeRequest,
                EnvReport, EnvCancel, EnvDiscoverEnds, vars, managerVars,
                learnedVars, timerVars
  <2> QED BY <2>1 DEF NoLostWakeup, TickOwed
<1> QED BY <1>1, <1>2, <1>3, <1>4, <1>5

(* While an advertised cache waits in the batch, a duration, a sleep or a  *)
(* tick is under way in the timer, whatever arrives in between and however *)
(* the manager's and the timer's steps interleave (util.rs:24-40).         *)
THEOREM NoLostWakeupHolds == Spec => []NoLostWakeup
<1>1. Init => TypeInv /\ NoLostWakeup
  BY TypeInvInit DEF Init, ManagerInit, NoLostWakeup
<1>2. TypeInv /\ NoLostWakeup /\ [Next]_vars => TypeInv' /\ NoLostWakeup'
  BY TypeInvNext, NoLostWakeupStep
<1> QED BY <1>1, <1>2, PTL DEF Spec

-----------------------------------------------------------------------------
(* The configured URLs so far: while they are loaded, they and no others   *)
(* are in the table.                                                       *)
ProvInv ==
  /\ OwnInv
  /\ Provenance
  /\ manager = "load" => /\ Known(table) = configured
                         /\ \A i \in 1 .. loaded : BinaryCaches[i].url \in configured

(* What one known cache must satisfy, for a given position in the file.    *)
Entry(u, meta, conf, n) ==
  LET At == {i \in 1 .. n : BinaryCaches[i].url = u}
  IN  IF u \in conf
      THEN /\ \E i \in At : /\ meta.priority = BinaryCaches[i].priority
                           /\ \A j \in At : j <= i
           /\ \E i \in At : /\ meta.error_strategy = BinaryCaches[i].error_strategy
                           /\ \A j \in At : j >= i
      ELSE meta.priority = 0 /\ meta.error_strategy = LocalStrategy

LEMMA ProvenanceByEntry ==
  Provenance <=> \A u \in Known(table) : Entry(u, table.caches[u], configured, loaded)
  BY DEF Provenance, Entry

LEMMA EntrySame ==
  ASSUME NEW u, NEW m1, NEW m2, NEW conf, NEW n, Entry(u, m1, conf, n),
         m1.priority = m2.priority, m1.error_strategy = m2.error_strategy
  PROVE  Entry(u, m2, conf, n)
  BY DEF Entry

LEMMA EntryConfigured ==
  ASSUME NEW u, NEW m, NEW c1, NEW c2, NEW n, Entry(u, m, c1, n), u \in c1 <=> u \in c2
  PROVE  Entry(u, m, c2, n)
  BY DEF Entry

(* A step after which every cache in the table was there before, with the  *)
(* same priority and strategy, and configured if it was.                   *)
LEMMA ProvenanceKeep ==
  ASSUME Provenance, Keeps(table, table'), loaded' = loaded,
         \A u \in Known(table') : u \in configured' <=> u \in configured
  PROVE  Provenance'
<1>1. ASSUME NEW u \in Known(table')
      PROVE  Entry(u, table'.caches[u], configured', loaded')
  <2>1. Entry(u, table.caches[u], configured, loaded)
    BY ProvenanceByEntry DEF Keeps
  <2>2. Entry(u, table'.caches[u], configured, loaded)
    BY <2>1, EntrySame DEF Keeps
  <2> QED BY <2>2, EntryConfigured
<1>2. Provenance' <=> \A u \in Known(table') : Entry(u, table'.caches[u], configured', loaded')
  BY DEF Provenance, Entry, Known
<1> QED BY <1>1, <1>2

LEMMA ProvenanceLoadHost ==
  ASSUME ProvInv, LoadHost
  PROVE  /\ Provenance'
         /\ Known(table)' = configured'
         /\ \A i \in 1 .. loaded' : BinaryCaches[i].url \in configured'
<1> DEFINE host == BinaryCaches[loaded + 1]
           At(u, n) == {i \in 1 .. n : BinaryCaches[i].url = u}
<1>1. /\ host \in Host /\ loaded \in Nat /\ loaded' = loaded + 1
      /\ GoodTable(table) /\ manager = "load"
  BY ConfigAssumption, TypeInvGood
  DEF LoadHost, ProvInv, OwnInv, TypeInv, TypeOK, ManagerTypeOK
<1>2. /\ table' = InsertCache(table, host.priority, host.error_strategy, host.url)
      /\ configured' = configured \cup {host.url}
      /\ host.url \in Urls /\ host.priority \in Priorities
      /\ host.error_strategy \in ErrorStrategy
  BY <1>1 DEF LoadHost, Host
<1>3. Known(table)' = Known(table) \cup {host.url}
  BY <1>1, <1>2, InsertCacheGood
<1>4. /\ Known(table)' = configured'
      /\ \A i \in 1 .. loaded' : BinaryCaches[i].url \in configured'
  BY <1>1, <1>2, <1>3 DEF ProvInv
<1>5. /\ table'.caches[host.url].priority = host.priority
      /\ table'.caches[host.url].error_strategy
           = IF host.url \in Known(table)
             THEN table.caches[host.url].error_strategy ELSE host.error_strategy
      /\ \A u \in Known(table) \ {host.url} : table'.caches[u] = table.caches[u]
  <2> HIDE DEF host
  <2> QED BY <1>1, <1>2, InsertCacheMeta
<1>6. Entry(host.url, table'.caches[host.url], configured', loaded')
  <2>1. loaded + 1 \in At(host.url, loaded')
    BY <1>1
  <2>2. \A j \in At(host.url, loaded') : j <= loaded + 1
    BY <1>1
  <2>3. PICK i \in At(host.url, loaded') :
          /\ table'.caches[host.url].error_strategy = BinaryCaches[i].error_strategy
          /\ \A j \in At(host.url, loaded') : j >= i
    <3>1. CASE host.url \in Known(table)
      <4>1. Entry(host.url, table.caches[host.url], configured, loaded)
            /\ host.url \in configured
        BY <1>1, <3>1, ProvenanceByEntry DEF ProvInv
      <4>2. PICK i \in At(host.url, loaded) :
              /\ table.caches[host.url].error_strategy = BinaryCaches[i].error_strategy
              /\ \A j \in At(host.url, loaded) : j >= i
        BY <4>1 DEF Entry
      <4>3. i \in At(host.url, loaded') /\ \A j \in At(host.url, loaded') : j >= i
        BY <1>1, <4>2
      <4> QED BY <1>5, <3>1, <4>2, <4>3
    <3>2. CASE host.url \notin Known(table)
      <4>1. \A j \in At(host.url, loaded') : j = loaded + 1
        BY <1>1, <3>2 DEF ProvInv
      <4>2. table'.caches[host.url].error_strategy = BinaryCaches[loaded + 1].error_strategy
        BY <1>5, <3>2
      <4>3. \A j \in At(host.url, loaded') : j >= loaded + 1
        BY <1>1, <4>1
      <4> QED BY <2>1, <4>2, <4>3
    <3> QED BY <3>1, <3>2
  <2>4. host.url \in configured'
    BY <1>2
  <2> QED BY <1>5, <2>1, <2>2, <2>3, <2>4 DEF Entry
<1>7. ASSUME NEW u \in Known(table) \ {host.url}
      PROVE  Entry(u, table'.caches[u], configured', loaded')
  <2>1. Entry(u, table.caches[u], configured, loaded)
    BY ProvenanceByEntry DEF ProvInv
  <2>2. At(u, loaded') = At(u, loaded)
    BY <1>1, <1>7
  <2>3. u \in configured' <=> u \in configured
    BY <1>2, <1>7
  <2> QED BY <1>5, <1>7, <2>1, <2>2, <2>3 DEF Entry
<1>8. Provenance' <=> \A u \in Known(table') : Entry(u, table'.caches[u], configured', loaded')
  BY DEF Provenance, Entry, Known
<1> QED BY <1>3, <1>4, <1>6, <1>7, <1>8 DEF Known

LEMMA ProvenanceBatchTimeout ==
  ASSUME ProvInv, BatchTimeout
  PROVE  Provenance'
<1> DEFINE new == NewInBatch
<1>1. /\ new \in SUBSET Urls /\ new \cap Known(table) = {} /\ GoodTable(table)
      /\ configured \subseteq Known(table) /\ Provenance
  BY TypeInvGood DEF NewInBatch, ProvInv, OwnInv, TypeInv, TypeOK, ManagerTypeOK, IsMap
<1>2. /\ table' = InsertNewCaches(table, 0, LocalStrategy, new)
      /\ configured' = configured /\ loaded' = loaded
  BY DEF BatchTimeout, DrainBatch
<1>3. /\ Known(table') = Known(table) \cup new
      /\ \A u \in Known(table) : table'.caches[u] = table.caches[u]
      /\ \A u \in new : /\ table'.caches[u].priority = 0
                        /\ table'.caches[u].error_strategy = LocalStrategy
  <2> HIDE DEF new
  <2> QED BY <1>1, <1>2, InsertNewCachesGood, ConfigAssumption
<1>4. ASSUME NEW u \in Known(table) PROVE Entry(u, table'.caches[u], configured, loaded)
  BY <1>1, <1>3, ProvenanceByEntry
<1>5. ASSUME NEW u \in new PROVE Entry(u, table'.caches[u], configured, loaded)
  BY <1>1, <1>3 DEF Entry
<1>6. Provenance' <=> \A u \in Known(table') : Entry(u, table'.caches[u], configured', loaded')
  BY DEF Provenance, Entry, Known
<1> HIDE DEF new
<1> QED BY <1>2, <1>3, <1>4, <1>5, <1>6

LEMMA ProvInvNext ==
  ASSUME ProvInv, [Next]_vars
  PROVE  ProvInv'
<1>0. OwnInv' /\ TypeInv /\ GoodTable(table) /\ Provenance
  BY OwnInvNext, TypeInvGood DEF ProvInv, OwnInv
<1>1. CASE LoadHost
  BY <1>0, <1>1, ProvenanceLoadHost DEF ProvInv, Known
<1>2. CASE BatchTimeout
  BY <1>0, <1>2, ProvenanceBatchTimeout DEF ProvInv, BatchTimeout, DrainBatch
<1>3. ASSUME Keeps(table, table'), loaded' = loaded, manager' # "load",
             \/ configured' = configured
             \/ configured' = configured \cap Known(table')
      PROVE  ProvInv'
  <2>1. Provenance'
    BY <1>0, <1>3, ProvenanceKeep
  <2> QED BY <1>0, <1>3, <2>1 DEF ProvInv
<1>4. CASE BadCache
  BY <1>0, <1>3, <1>4, ApplyErrorStrategyGood DEF BadCache, Treat
<1>5. CASE OnNetworkChanged
  BY <1>0, <1>3, <1>5, RemoveCachesGood DEF OnNetworkChanged, TakeEvent
<1>6. CASE OnGoodbye
  <2>1. PICK ip \in Ips :
          IF ip \in DOMAIN local_caches
          THEN table' = RemoveCache(table, local_caches[ip])
          ELSE UNCHANGED table
    BY <1>6 DEF OnGoodbye, TakeEvent
  <2>2. Keeps(table, table')
    BY <1>0, <2>1, RemoveCacheGood DEF Keeps
  <2> QED BY <1>3, <1>6, <2>2 DEF OnGoodbye, TakeEvent
<1>7. CASE Tick
  BY <1>0, <1>3, <1>7, AgeTableGood DEF Tick, historyVars
<1>8. CASE SpawnManager \/ IntervalTick \/ OnAdv \/ NoteAdv \/ SendReq
  <2>1. UNCHANGED <<table, loaded, configured>> /\ manager' # "load"
    BY <1>8 DEF SpawnManager, IntervalTick, IntervalDue, OnAdv, TakeEvent, NoteAdv,
                PutInBatch, SendReq, historyVars
  <2>2. Keeps(table, table')
    BY <2>1 DEF Keeps
  <2> QED BY <1>3, <2>1, <2>2
<1>9. CASE TimerTask \/ EnvNext \/ UNCHANGED vars
  <2>1. UNCHANGED <<table, loaded, configured, manager>>
    BY <1>9 DEF TimerTask, EnvNext, EnvEvent, EnvTakeRequest, EnvReport, EnvCancel,
               EnvDiscoverEnds, vars, managerVars
  <2>2. Keeps(table, table')
    BY <2>1 DEF Keeps
  <2>3. Provenance'
    BY <1>0, <2>1, <2>2, ProvenanceKeep
  <2> QED BY <1>0, <2>1, <2>3 DEF ProvInv, Known
<1> QED BY <1>1, <1>2, <1>4, <1>5, <1>6, <1>7, <1>8, <1>9 DEF Next, ManagerNext

(* Priorities and error strategies come from the configuration alone, for  *)
(* any file, with URLs repeated in any way: an advertisement can neither   *)
(* promote nor reconfigure a configured cache (mod.rs:251, 298, 303).      *)
THEOREM ProvenanceHolds == Spec => []Provenance
<1>1. Init => ProvInv
  BY OwnInvInit DEF Init, ManagerInit, ProvInv, Provenance, EmptyTable, NoCaches, Known
<1>2. ProvInv => Provenance
  BY DEF ProvInv
<1> QED BY <1>1, <1>2, ProvInvNext, PTL DEF Spec

-----------------------------------------------------------------------------
(* The manager implements its abstract list of peers: each of its steps,   *)
(* seen through the refinement mapping of CacheManager, is an operation of *)
(* Peers or changes nothing.                                               *)
View(b, l, k) == [batch |-> b, local_caches |-> l, known |-> k]

peers == View(batch, local_caches, Known(table))

LEMMA ViewFields ==
  ASSUME NEW b, NEW l, NEW k
  PROVE  View(b, l, k).batch = b /\ View(b, l, k).local_caches = l /\ View(b, l, k).known = k
  BY DEF View

LEMMA BatchReplaced ==
  ASSUME NEW b, NEW l, NEW k, NEW x
  PROVE  [View(b, l, k) EXCEPT !.batch = x] = View(x, l, k)
  BY DEF View

LEMMA RecordReplaced ==
  ASSUME NEW b, NEW l, NEW k, NEW x
  PROVE  [View(b, l, k) EXCEPT !.local_caches = x] = View(b, x, k)
  BY DEF View

LEMMA ListReplaced ==
  ASSUME NEW b, NEW l, NEW k, NEW x
  PROVE  [View(b, l, k) EXCEPT !.known = x] = View(b, l, x)
  BY DEF View

(* The operations of Peers on such a record.                               *)
LEMMA StrikeView ==
  ASSUME NEW b, NEW l, NEW k, NEW ips, NEW urls
  PROVE  Mapped!Strike(View(b, l, k), ips, urls)
           = View(b, Mapped!Restrict(l, DOMAIN l \ ips), k \ urls)
<1> DEFINE v     == View(b, l, k)
           known == v.known \ urls
           left  == Mapped!Restrict(v.local_caches, DOMAIN v.local_caches \ ips)
<1>1. Mapped!Strike(v, ips, urls) = [[v EXCEPT !.known = known] EXCEPT !.local_caches = left]
  BY DEF Mapped!Strike
<1>2. known = k \ urls /\ left = Mapped!Restrict(l, DOMAIN l \ ips)
  BY ViewFields
<1> HIDE DEF known, left
<1>3. [v EXCEPT !.known = known] = View(b, l, known)
  BY ListReplaced
<1>4. [View(b, l, known) EXCEPT !.local_caches = left] = View(b, left, known)
  BY RecordReplaced
<1> QED BY <1>1, <1>2, <1>3, <1>4

LEMMA HoldBackView ==
  ASSUME NEW b, NEW l, NEW k, NEW key, NEW value
  PROVE  Mapped!HoldBack(View(b, l, k), key, value)
           = View([u \in DOMAIN b \cup {key} |-> IF u = key THEN value ELSE b[u]], l, k)
<1> DEFINE v    == View(b, l, k)
           held == [u \in DOMAIN v.batch \cup {key} |-> IF u = key THEN value ELSE v.batch[u]]
<1>1. Mapped!HoldBack(v, key, value) = [v EXCEPT !.batch = held]
  BY DEF Mapped!HoldBack
<1>2. held = [u \in DOMAIN b \cup {key} |-> IF u = key THEN value ELSE b[u]]
  BY ViewFields
<1> HIDE DEF held
<1>3. [v EXCEPT !.batch = held] = View(held, l, k)
  BY BatchReplaced
<1> QED BY <1>1, <1>2, <1>3

LEMMA ConfigureView ==
  ASSUME NEW b, NEW l, NEW k, NEW url
  PROVE  Mapped!Configure(View(b, l, k), url) = View(b, l, k \cup {url})
<1> DEFINE v     == View(b, l, k)
           known == v.known \cup {url}
<1>1. Mapped!Configure(v, url) = [v EXCEPT !.known = known]
  BY DEF Mapped!Configure
<1>2. known = k \cup {url}
  BY ViewFields
<1> HIDE DEF known
<1>3. [v EXCEPT !.known = known] = View(b, l, known)
  BY ListReplaced
<1> QED BY <1>1, <1>2, <1>3

(* The outcome of Landed for one choice of the caches on record.           *)
AfterLanding(p, new, hosts, last) ==
  [batch |-> Mapped!NoPeers.batch,
   known |-> p.known \cup new,
   local_caches |-> [ip \in DOMAIN p.local_caches \cup hosts |->
      IF ip \in hosts THEN last[ip] ELSE p.local_caches[ip]]]

LEMMA LandedHas ==
  ASSUME NEW p, NEW new, NEW hosts, NEW last \in [hosts -> new],
         new = DOMAIN p.batch \ p.known,
         hosts = {p.batch[u] : u \in new},
         \A ip \in hosts : p.batch[last[ip]] = ip
  PROVE  AfterLanding(p, new, hosts, last) \in Mapped!Landed(p)
<1> DEFINE fits == {f \in [hosts -> new] : \A ip \in hosts : p.batch[f[ip]] = ip}
<1>1. Mapped!Landed(p) = {AfterLanding(p, new, hosts, f) : f \in fits}
  BY DEF Mapped!Landed, AfterLanding
<1>2. last \in fits
  OBVIOUS
<1> HIDE DEF fits
<1> QED BY <1>1, <1>2

(* What the operations on the table do to the set of caches in it.         *)
LEMMA KnownAfter ==
  ASSUME NEW t, IsCacheData(t)
  PROVE  /\ \A p, s, u : Known(InsertCache(t, p, s, u)) = Known(t) \cup {u}
         /\ \A u : Known(RemoveCache(t, u)) = Known(t) \ {u}
         /\ \A p, s, us : Known(InsertNewCaches(t, p, s, us)) = Known(t) \cup us
         /\ \A us : Known(RemoveCaches(t, us)) = Known(t) \ us
         /\ \A u : Known(ApplyErrorStrategy(t, u)) =
              IF u \in Known(t) /\ t.caches[u].error_strategy.type = "remove"
              THEN Known(t) \ {u} ELSE Known(t)
         /\ Known(AgeTable(t)) = Known(t)
<1>1. \A p, s, us : Known(EnterCaches(t, p, s, us)) = Known(t) \cup us
  BY DEF EnterCaches, Known
<1>2. \A p, s, u : Known(InsertCache(t, p, s, u)) = Known(t) \cup {u}
  <2> TAKE p, s, u
  <2>1. CASE u \notin Known(t)
    BY <1>1, <2>1 DEF InsertCache
  <2>2. CASE u \in Known(t)
    BY <2>2 DEF InsertCache, Known
  <2> QED BY <2>1, <2>2
<1>3. \A u : Known(RemoveCache(t, u)) = Known(t) \ {u}
  BY DEF RemoveCache, Known, Restrict
<1>4. \A p, s, us : Known(InsertNewCaches(t, p, s, us)) = Known(t) \cup us
  BY <1>1 DEF InsertNewCaches
<1>5. \A us : Known(RemoveCaches(t, us)) = Known(t) \ us
  BY DEF RemoveCaches, TakeOut, Known, Restrict
<1>6. \A u : Known(TimeOutCache(t, u, t.caches[u].error_strategy.for)) = Known(t)
  BY DEF TimeOutCache, Known, IsCacheData
<1>7. \A u : Known(ApplyErrorStrategy(t, u)) =
          IF u \in Known(t) /\ t.caches[u].error_strategy.type = "remove"
          THEN Known(t) \ {u} ELSE Known(t)
  BY <1>3, <1>6 DEF ApplyErrorStrategy
<1>8. Known(AgeTable(t)) = Known(t)
  BY DEF AgeTable, Known, IsCacheData
<1> QED BY <1>2, <1>3, <1>4, <1>5, <1>7, <1>8

(* A step that leaves the batch, the record and the list alone.            *)
LEMMA PeersSame ==
  ASSUME UNCHANGED <<batch, local_caches>>, Known(table') = Known(table)
  PROVE  peers' = peers
  BY DEF peers

-----------------------------------------------------------------------------
(* What is on its way to the manager, with the Adv it is handling.         *)
inbox == IF manager = "arm" THEN <<handling>> \o events ELSE events

LEMMA Pushed ==
  ASSUME NEW S, NEW s \in Seq(S), NEW e \in S
  PROVE  /\ <<e>> \o s \in Seq(S) /\ <<e>> \o s # <<>>
         /\ Head(<<e>> \o s) = e /\ Tail(<<e>> \o s) = s
         /\ s # <<>> => <<Head(s)>> \o Tail(s) = s
         /\ \A f \in S : Append(<<e>> \o s, f) = <<e>> \o Append(s, f)
  OBVIOUS

(* The list is read from the file to its end before anything is handled.   *)
PeersInv ==
  /\ ProvInv
  /\ manager # "load" => loaded = Len(BinaryCaches)

LEMMA PeersInvNext ==
  ASSUME PeersInv, [Next]_vars
  PROVE  PeersInv'
<1>1. manager' # "load" => loaded' = Len(BinaryCaches)
  BY DEF PeersInv, Next, ManagerNext, LoadHost, SpawnManager, IntervalTick, IntervalDue,
         BatchTimeout, DrainBatch, BadCache, Treat, OnNetworkChanged, TakeEvent, OnGoodbye,
         OnAdv, NoteAdv, PutInBatch, SendReq, Tick, TimerTask, EnvNext, EnvEvent,
         EnvTakeRequest, EnvReport, EnvCancel, EnvDiscoverEnds, vars, managerVars
<1> QED BY <1>1, ProvInvNext DEF PeersInv

(* What PeersInv says of the types, and of the configured caches.          *)
LEMMA PeersTypes ==
  ASSUME PeersInv
  PROVE  /\ IsCacheData(table) /\ GoodTable(table)
         /\ events \in Seq(Event) /\ reports \in Seq(Urls)
         /\ Event \subseteq Event \cup {NoEvent} /\ handling \in Event \cup {NoEvent}
         /\ loaded \in 0 .. Len(BinaryCaches)
         /\ configured \subseteq Known(table)
         /\ configured \cap Range(local_caches) = {}
         /\ Mapped!Restrict(local_caches, DOMAIN local_caches \ {}) = local_caches
<1>1. TypeInv /\ OwnInv
  BY DEF PeersInv, ProvInv, OwnInv
<1>2. Mapped!Restrict(local_caches, DOMAIN local_caches \ {}) = local_caches
  BY <1>1 DEF Mapped!Restrict, TypeInv, TypeOK, ManagerTypeOK, IsMap
<1> QED BY <1>1, <1>2, TypeInvGood
        DEF OwnInv, Ownership, TypeInv, TypeOK, ManagerTypeOK, ChannelsTypeOK, IsChannel

(* The strategy of an entry is the one the file or LocalStrategy gives it, *)
(* so whether a report removes it can be told without the table.           *)
LEMMA RemovesIsStrategy ==
  ASSUME PeersInv, manager # "load", NEW u
  PROVE  Mapped!Removes(u) <=> /\ u \in Known(table)
                               /\ table.caches[u].error_strategy.type = "remove"
<1> DEFINE At == {i \in 1 .. loaded : BinaryCaches[i].url = u}
           InFileRemoved == {BinaryCaches[i].url : i \in {i \in DOMAIN BinaryCaches :
                               /\ BinaryCaches[i].error_strategy.type = "remove"
                               /\ \A j \in 1 .. i - 1 : BinaryCaches[j].url # BinaryCaches[i].url}}
<1>1. DOMAIN BinaryCaches = 1 .. loaded /\ loaded \in Nat
  BY ConfigAssumption DEF PeersInv
<1>2. Mapped!Removes(u) <=> /\ u \in Known(table)
                            /\ IF u \in configured THEN u \in InFileRemoved
                               ELSE LocalStrategy.type = "remove"
  BY ViewFields DEF Mapped!Removes, View
<1>3. ASSUME u \in Known(table), u \in configured
      PROVE  u \in InFileRemoved <=> table.caches[u].error_strategy.type = "remove"
  <2>1. PICK i \in At : /\ table.caches[u].error_strategy = BinaryCaches[i].error_strategy
                        /\ \A j \in At : j >= i
    BY <1>3 DEF PeersInv, ProvInv, Provenance
  <2>2. \A k \in 1 .. loaded :
          /\ BinaryCaches[k].url = u
          /\ \A j \in 1 .. k - 1 : BinaryCaches[j].url # u
          <=> k = i
    BY <1>1, <2>1
  <2> QED BY <1>1, <2>1, <2>2
<1>4. ASSUME u \in Known(table), u \notin configured
      PROVE  table.caches[u].error_strategy = LocalStrategy
  BY <1>4 DEF PeersInv, ProvInv, Provenance
<1> QED BY <1>2, <1>3, <1>4

-----------------------------------------------------------------------------
LEMMA PeersLoad ==
  ASSUME PeersInv, LoadHost
  PROVE  \E url \in {host.url : host \in Range(BinaryCaches)} : Mapped!Load(url)
<1> DEFINE host == BinaryCaches[loaded + 1]
<1>1. host \in Range(BinaryCaches)
  BY PeersTypes, ConfigAssumption DEF LoadHost, Range
<1>2. Known(table') = Known(table) \cup {host.url}
  BY KnownAfter, PeersTypes DEF LoadHost
<1>3. /\ UNCHANGED <<batch, local_caches, manager, inbox, reports>>
      /\ configured' = configured \cup {host.url} /\ manager = "load"
  BY DEF LoadHost, learnedVars, channelVars, inbox
<1> HIDE DEF host
<1>4. peers' = Mapped!Configure(peers, host.url)
  BY <1>2, <1>3, ConfigureView DEF peers
<1>5. Mapped!Load(host.url)
  BY <1>3, <1>4 DEF Mapped!Load, peers, View, inbox
<1> QED BY <1>1, <1>5

LEMMA PeersSpawn ==
  ASSUME PeersInv, SpawnManager
  PROVE  Mapped!Loaded
<1>1. /\ UNCHANGED <<table, batch, local_caches, configured, inbox, reports>>
      /\ manager = "load" /\ manager' = "select" /\ loaded = Len(BinaryCaches)
  BY DEF SpawnManager, learnedVars, historyVars, channelVars, inbox
<1>2. DOMAIN BinaryCaches = 1 .. loaded
  BY <1>1, ConfigAssumption
<1>3. ASSUME NEW u \in configured
      PROVE  \E host \in Range(BinaryCaches) : u = host.url
  <2>1. PICK i \in 1 .. loaded : BinaryCaches[i].url = u
    BY PeersTypes, <1>3 DEF PeersInv, ProvInv, Provenance
  <2> QED BY <1>2, <2>1 DEF Range
<1>4. ASSUME NEW host \in Range(BinaryCaches)
      PROVE  host.url \in configured
  BY <1>1, <1>2 DEF Range, PeersInv, ProvInv
<1>5. configured = {host.url : host \in Range(BinaryCaches)}
  BY <1>3, <1>4
<1>6. peers' = peers
  BY <1>1, PeersSame
<1> QED BY <1>1, <1>5, <1>6 DEF Mapped!Loaded, peers, View, inbox

LEMMA PeersBatchTimeout ==
  ASSUME PeersInv, BatchTimeout
  PROVE  Mapped!Land
<1> DEFINE new   == NewInBatch
           hosts == {batch[u] : u \in new}
<1>1. PICK last \in [hosts -> new] :
        /\ \A ip \in hosts : batch[last[ip]] = ip
        /\ local_caches' = [ip \in DOMAIN local_caches \cup hosts |->
                              IF ip \in hosts THEN last[ip] ELSE local_caches[ip]]
  BY DEF BatchTimeout, DrainBatch
<1>2. Known(table') = Known(table) \cup new
  BY KnownAfter, PeersTypes DEF BatchTimeout, DrainBatch
<1>3. batch' = Mapped!NoPeers.batch
  BY DEF BatchTimeout, DrainBatch, NoCaches, Mapped!NoPeers
<1>4. new = DOMAIN peers.batch \ peers.known /\ peers.batch = batch
  BY ViewFields DEF peers, NewInBatch
<1>5. peers' = AfterLanding(peers, new, hosts, last)
  BY <1>1, <1>2, <1>3, ViewFields DEF peers, View, AfterLanding
<1>6. hosts = {peers.batch[u] : u \in new}
  BY <1>4
<1> HIDE DEF new, hosts
<1>7. \A ip \in hosts : peers.batch[last[ip]] = ip
  BY <1>1, <1>4
<1>8. new = DOMAIN peers.batch \ peers.known
  BY <1>4
<1>9. peers' \in Mapped!Landed(peers)
  <2> HIDE DEF peers
  <2> QED BY <1>5, <1>6, <1>7, <1>8, LandedHas
<1>10. UNCHANGED <<configured, manager, inbox, reports>> /\ manager = "select"
  BY DEF BatchTimeout, DrainBatch, channelVars, inbox
<1> QED BY <1>9, <1>10 DEF Mapped!Land, peers, View, inbox

LEMMA PeersBadCache ==
  ASSUME PeersInv, BadCache
  PROVE  Mapped!TakeReport
<1> DEFINE url     == Head(reports)
           removed == {url} \cap {u \in Urls : Mapped!Removes(u)}
<1>1. /\ manager = "select" /\ reports # <<>> /\ reports' = Tail(reports)
      /\ UNCHANGED <<batch, local_caches, manager, inbox>>
      /\ configured' = configured \cap Known(table')
      /\ table' = ApplyErrorStrategy(table, url)
  BY DEF BadCache, Treat, learnedVars, inbox
<1>2. url \in Urls
  BY <1>1, PeersTypes
<1>3. url \in removed <=> /\ url \in Known(table)
                          /\ table.caches[url].error_strategy.type = "remove"
  BY <1>1, <1>2, RemovesIsStrategy
<1>4. removed \subseteq {url}
  OBVIOUS
<1> HIDE DEF removed
<1>5. Known(table') = Known(table) \ removed
  BY <1>1, <1>3, <1>4, KnownAfter, PeersTypes
<1>6. configured' = configured \ removed
  BY <1>1, <1>5, PeersTypes
<1>7. peers' = Mapped!Dropped(peers, removed)
  BY <1>1, <1>5, PeersTypes, StrikeView DEF peers, Mapped!Dropped
<1>8. removed = {Head(reports)} \cap {u \in Urls : Mapped!Removes(u)}
  BY DEF removed
<1> QED BY <1>1, <1>6, <1>7, <1>8 DEF Mapped!TakeReport, peers, View, inbox

-----------------------------------------------------------------------------
(* The event at the head of the channel is taken, by a handler that does   *)
(* not wait.                                                               *)
LEMMA PeersEventTaken ==
  ASSUME PeersInv, TakeEvent, manager' # "arm"
  PROVE  /\ inbox # <<>> /\ Head(inbox) = Head(events) /\ inbox' = Tail(inbox)
         /\ manager # "load" /\ UNCHANGED reports
  BY DEF TakeEvent, inbox

LEMMA PeersOnNetworkChanged ==
  ASSUME PeersInv, OnNetworkChanged
  PROVE  Mapped!TakeEvent
<1>0. TakeEvent /\ manager' = "request" /\ Head(events).type = "network_changed"
  BY DEF OnNetworkChanged, NetworkChanged
<1>1. Known(table') = Known(table) \ Range(local_caches)
  BY KnownAfter, PeersTypes DEF OnNetworkChanged
<1>2. local_caches' = NoCaches /\ batch' = batch
  BY DEF OnNetworkChanged
<1>3. Mapped!Restrict(local_caches, DOMAIN local_caches \ DOMAIN local_caches) = NoCaches
  BY DEF Mapped!Restrict, NoCaches
<1>4. Mapped!Range(local_caches) = Range(local_caches)
  BY DEF Mapped!Range, Range
<1>5. peers' = Mapped!Forgotten(peers)
  BY <1>1, <1>2, <1>3, <1>4, StrikeView, ViewFields DEF peers, Mapped!Forgotten
<1>6. configured' = configured
  BY <1>1, PeersTypes DEF OnNetworkChanged
<1>7. manager = "select"
  BY <1>0 DEF TakeEvent
<1> QED BY <1>0, <1>5, <1>6, <1>7, PeersEventTaken DEF Mapped!TakeEvent, peers, View, inbox

LEMMA PeersOnGoodbye ==
  ASSUME PeersInv, OnGoodbye
  PROVE  Mapped!TakeEvent
<1>1. PICK ip \in Ips :
        /\ Head(events) = Goodbye(ip)
        /\ IF ip \in DOMAIN local_caches
           THEN /\ table' = RemoveCache(table, local_caches[ip])
                /\ local_caches' = Restrict(local_caches, DOMAIN local_caches \ {ip})
           ELSE UNCHANGED <<table, local_caches>>
  BY DEF OnGoodbye
<1> DEFINE gone == {local_caches[h] : h \in {ip} \cap DOMAIN local_caches}
<1>2. /\ TakeEvent /\ manager = "select" /\ manager' = "select" /\ batch' = batch
      /\ configured' = configured \cap Known(table')
  BY DEF OnGoodbye, TakeEvent
<1>3. Known(table') = Known(table) \ gone
  BY <1>1, KnownAfter, PeersTypes
<1>4. local_caches' = Mapped!Restrict(local_caches, DOMAIN local_caches \ {ip})
  <2>1. CASE ip \in DOMAIN local_caches
    BY <1>1, <2>1 DEF Restrict, Mapped!Restrict
  <2>2. CASE ip \notin DOMAIN local_caches
    <3>1. DOMAIN local_caches \ {ip} = DOMAIN local_caches \ {}
      BY <2>2
    <3> QED BY <1>1, <2>2, <3>1, PeersTypes
  <2> QED BY <2>1, <2>2
<1>5. gone = {peers.local_caches[h] : h \in {ip} \cap DOMAIN peers.local_caches}
  BY ViewFields DEF peers
<1>6. peers' = Mapped!Gone(peers, ip)
  <2> HIDE DEF gone
  <2> QED BY <1>2, <1>3, <1>4, <1>5, StrikeView DEF peers, Mapped!Gone
<1>7. gone \subseteq Range(local_caches)
  BY DEF Range
<1>8. configured' = configured
  BY <1>2, <1>3, <1>7, PeersTypes
<1>9. Head(events).type = "goodbye" /\ Head(events).source_ip = ip
  BY <1>1 DEF Goodbye
<1> QED BY <1>2, <1>6, <1>8, <1>9, PeersEventTaken DEF Mapped!TakeEvent, peers, View, inbox

LEMMA PeersNoteAdv ==
  ASSUME PeersInv, NoteAdv
  PROVE  Mapped!TakeEvent
<1>1. /\ manager = "arm" /\ manager' = "select" /\ handling.type = "adv"
      /\ UNCHANGED <<table, local_caches, configured, events, reports>>
  BY DEF NoteAdv, PutInBatch, PeersInv, ProvInv, OwnInv, TypeInv, channelVars, historyVars
<1>2. peers' = Mapped!Heard(peers, handling.source_ip, handling.binary_cache_url)
  <2>1. batch' = [u \in DOMAIN batch \cup {handling.binary_cache_url} |->
                    IF u = handling.binary_cache_url THEN handling.source_ip ELSE batch[u]]
    BY DEF NoteAdv, PutInBatch
  <2>2. peers' = View(batch', local_caches, Known(table))
    BY <1>1 DEF peers
  <2> QED BY <2>1, <2>2, HoldBackView DEF peers, Mapped!Heard
<1>3. inbox # <<>> /\ Head(inbox) = handling /\ inbox' = Tail(inbox)
  <2>1. events \in Seq(Event \cup {NoEvent}) /\ handling \in Event \cup {NoEvent}
    BY PeersTypes
  <2>2. inbox = <<handling>> \o events /\ inbox' = events
    BY <1>1 DEF inbox
  <2> HIDE DEF inbox
  <2> QED BY <2>1, <2>2, Pushed
<1> QED BY <1>1, <1>2, <1>3 DEF Mapped!TakeEvent, peers, View, inbox

(* The first half of the handler of an Adv: the event is still to be told. *)
LEMMA PeersOnAdv ==
  ASSUME PeersInv, OnAdv
  PROVE  UNCHANGED <<peers, inbox, configured, reports>> /\ manager # "load" /\ manager' # "load"
<1>1. /\ manager = "select" /\ manager' = "arm" /\ events # <<>>
      /\ handling' = Head(events) /\ events' = Tail(events)
      /\ UNCHANGED <<table, batch, local_caches, configured, reports>>
  BY DEF OnAdv, TakeEvent, learnedVars
<1>2. inbox = events /\ inbox' = <<Head(events)>> \o Tail(events)
  BY <1>1 DEF inbox
<1>3. events \in Seq(Event) /\ Head(events) \in Event
  BY <1>1, PeersTypes
<1>4. inbox' = inbox
  <2> HIDE DEF inbox
  <2> QED BY <1>1, <1>2, <1>3, Pushed
<1> QED BY <1>1, <1>4, PeersSame

LEMMA PeersEnv ==
  ASSUME PeersInv, EnvEvent \/ EnvReport
  PROVE  Mapped!Tell \/ Mapped!Report
<1>1. CASE EnvEvent
  <2>1. PICK event \in Event : events' = Append(events, event)
    BY <1>1 DEF EnvEvent
  <2>2. UNCHANGED <<table, batch, local_caches, configured, manager, handling, reports>>
    BY <1>1 DEF EnvEvent, managerVars
  <2>3. inbox' = Append(inbox, event)
    <3>1. events \in Seq(Event \cup {NoEvent}) /\ handling \in Event \cup {NoEvent}
      BY PeersTypes
    <3>2. Append(<<handling>> \o events, event) = <<handling>> \o Append(events, event)
      BY <3>1, Pushed
    <3> QED BY <2>1, <2>2, <3>2 DEF inbox
  <2>4. peers' = peers
    BY <2>2, PeersSame
  <2> QED BY <2>2, <2>3, <2>4 DEF Mapped!Tell, peers, View, inbox
<1>2. CASE EnvReport
  <2>1. PICK url \in listed : reports' = Append(reports, url)
    BY <1>2 DEF EnvReport
  <2>2. listed \subseteq Urls
    BY DEF PeersInv, ProvInv, OwnInv, TypeInv, TypeOK, ManagerTypeOK
  <2>3. /\ manager # "load"
        /\ UNCHANGED <<table, batch, local_caches, configured, manager, handling, events>>
    BY <1>2 DEF EnvReport, managerVars
  <2>4. peers' = peers /\ inbox' = inbox
    BY <2>3, PeersSame DEF inbox
  <2> QED BY <2>1, <2>2, <2>3, <2>4 DEF Mapped!Report, peers, View, inbox
<1> QED BY <1>1, <1>2

(* The steps that cannot be told from none.                                *)
LEMMA PeersStutter ==
  ASSUME PeersInv,
         \/ IntervalTick \/ SendReq \/ Tick \/ TimerTask
         \/ EnvTakeRequest \/ EnvCancel \/ EnvDiscoverEnds \/ UNCHANGED vars
  PROVE  /\ UNCHANGED <<peers, inbox, configured, reports>>
         /\ manager' = "load" <=> manager = "load"
<1>1. CASE IntervalTick \/ SendReq
  <2>1. /\ UNCHANGED <<table, batch, local_caches, configured, events, reports>>
        /\ manager \notin {"load", "arm"} /\ manager' \notin {"load", "arm"}
    BY <1>1 DEF IntervalTick, IntervalDue, SendReq, BroadcastReq, learnedVars, historyVars,
                channelVars
  <2> QED BY <2>1, PeersSame DEF inbox
<1>2. CASE Tick
  <2>1. /\ UNCHANGED <<batch, local_caches, configured, events, reports, manager, handling>>
        /\ Known(table') = Known(table)
    BY <1>2, KnownAfter, PeersTypes DEF Tick, learnedVars, historyVars, channelVars
  <2> QED BY <2>1, PeersSame DEF inbox
<1>3. CASE TimerTask \/ EnvTakeRequest \/ EnvCancel \/ EnvDiscoverEnds \/ UNCHANGED vars
  <2>1. UNCHANGED <<table, batch, local_caches, configured, events, reports, manager, handling>>
    BY <1>3 DEF TimerTask, EnvTakeRequest, EnvCancel, EnvDiscoverEnds, vars, managerVars,
                channelVars
  <2> QED BY <2>1, PeersSame DEF inbox
<1> QED BY <1>1, <1>2, <1>3

-----------------------------------------------------------------------------
LEMMA PeersStep ==
  ASSUME PeersInv, [Next]_vars
  PROVE  [Mapped!PeersNext]_(Mapped!peersVars)
<1>1. CASE LoadHost
  BY <1>1, PeersLoad DEF Mapped!PeersNext
<1>2. CASE SpawnManager
  BY <1>2, PeersSpawn DEF Mapped!PeersNext
<1>3. CASE BatchTimeout
  BY <1>3, PeersBatchTimeout DEF Mapped!PeersNext
<1>4. CASE BadCache
  BY <1>4, PeersBadCache DEF Mapped!PeersNext
<1>5. CASE OnNetworkChanged \/ OnGoodbye \/ NoteAdv
  BY <1>5, PeersOnNetworkChanged, PeersOnGoodbye, PeersNoteAdv DEF Mapped!PeersNext
<1>6. CASE EnvEvent \/ EnvReport
  BY <1>6, PeersEnv DEF Mapped!PeersNext
<1>7. ASSUME UNCHANGED <<peers, inbox, configured, reports>>,
             manager' = "load" <=> manager = "load"
      PROVE  UNCHANGED Mapped!peersVars
  BY <1>7 DEF Mapped!peersVars, peers, View, inbox
<1>8. CASE OnAdv
  BY <1>7, <1>8, PeersOnAdv
<1>9. CASE \/ IntervalTick \/ SendReq \/ Tick \/ TimerTask
           \/ EnvTakeRequest \/ EnvCancel \/ EnvDiscoverEnds \/ UNCHANGED vars
  BY <1>7, <1>9, PeersStutter
<1> QED BY <1>1, <1>2, <1>3, <1>4, <1>5, <1>6, <1>8, <1>9 DEF Next, ManagerNext, EnvNext

(* For any file, any number of hosts and caches and any delays, the        *)
(* manager implements PeerList: the list is the file at first, a cache is  *)
(* added to it only when an Adv of it was taken, and one goes only when    *)
(* the goodbye of the host it is on record for, a network change or a      *)
(* report is taken, a configured one by its own strategy alone.  Each      *)
(* event and report is taken once, in order.  What waits in the batch      *)
(* lands, though its host said goodbye since (mod.rs:250-253, 295-355).    *)
THEOREM KeepsPeerListHolds == Spec => KeepsPeerList
<1>1. Init => Mapped!PeersInit
  BY DEF Init, ManagerInit, ChannelsInit, Mapped!PeersInit, Mapped!NoPeers, NoCaches,
         EmptyTable, Known
<1>2. Init => PeersInv
  BY OwnInvInit DEF Init, ManagerInit, PeersInv, ProvInv, Provenance, EmptyTable, NoCaches, Known
<1> QED BY <1>1, <1>2, PeersInvNext, PeersStep, PTL DEF Spec, KeepsPeerList, Mapped!PeersSpec
=============================================================================
