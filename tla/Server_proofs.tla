---------------------------- MODULE Server_proofs ----------------------------
(***************************************************************************)
(* The two halves of the server are what each expects of the other: the    *)
(* requests are an environment of CacheManager, and the manager is the one *)
(* of Proxy.  So what is proved of each alone holds in the server.         *)
(***************************************************************************)
EXTENDS Server, CacheManager_proofs

-----------------------------------------------------------------------------
(* The loop of Server::new: TableAfter is what its definition says.        *)
AfterHost(t, i) ==
  InsertCache(t, BinaryCaches[i].priority, BinaryCaches[i].error_strategy,
              BinaryCaches[i].url)

IsLoad(f, n) == f = [i \in 0 .. n |-> IF i = 0 THEN EmptyTable ELSE AfterHost(f[i - 1], i)]

LEMMA LoadExists ==
  ASSUME NEW N \in Nat
  PROVE  \E f : IsLoad(f, N)
<1> DEFINE bad == {n \in Nat : ~ \E f : IsLoad(f, n)}
<1>1. SUFFICES ASSUME bad # {} PROVE FALSE
  OBVIOUS
<1>2. PICK n \in bad : \A m \in bad : n <= m
  <2> HIDE DEF bad
  <2>1. bad \subseteq Nat
    BY DEF bad
  <2> QED BY <1>1, <2>1, LeastExists
<1>3. CASE n = 0
  <2>1. IsLoad([i \in 0 .. 0 |-> EmptyTable], 0)
    BY DEF IsLoad
  <2> QED BY <1>2, <1>3, <2>1
<1>4. CASE n # 0
  <2>1. n - 1 \in Nat /\ n - 1 \notin bad
    BY <1>2, <1>4
  <2>2. PICK f : IsLoad(f, n - 1)
    BY <2>1
  <2> DEFINE g == [i \in 0 .. n |-> IF i = n THEN AfterHost(f[n - 1], n) ELSE f[i]]
  <2>3. IsLoad(g, n)
    <3>1. \A i \in 0 .. n - 1 : g[i] = f[i]
      BY <1>2
    <3>2. \A i \in 0 .. n - 1 :
            f[i] = IF i = 0 THEN EmptyTable ELSE AfterHost(f[i - 1], i)
      BY <2>2 DEF IsLoad
    <3>3. ASSUME NEW i \in 0 .. n
          PROVE  g[i] = IF i = 0 THEN EmptyTable ELSE AfterHost(g[i - 1], i)
      <4>1. CASE i = n
        BY <1>2, <1>4, <3>1, <4>1
      <4>2. CASE i # n /\ i # 0
        <5>1. i \in 0 .. n - 1 /\ i - 1 \in 0 .. n - 1
          BY <1>2, <4>2
        <5> QED BY <3>1, <3>2, <4>2, <5>1
      <4>3. CASE i = 0
        BY <1>2, <1>4, <3>1, <3>2, <4>3
      <4> QED BY <4>1, <4>2, <4>3
    <3>4. g = [i \in 0 .. n |-> g[i]]
      OBVIOUS
    <3> HIDE DEF g
    <3> QED BY <3>3, <3>4 DEF IsLoad
  <2> QED BY <1>2, <2>3
<1> QED BY <1>3, <1>4

LEMMA TableAfterIs ==
  /\ TableAfter[0] = EmptyTable
  /\ \A i \in 1 .. Len(BinaryCaches) : TableAfter[i] = AfterHost(TableAfter[i - 1], i)
<1>1. Len(BinaryCaches) \in Nat
  BY ConfigAssumption
<1>2. TableAfter = CHOOSE f : IsLoad(f, Len(BinaryCaches))
  BY DEF TableAfter, IsLoad, AfterHost
<1>3. IsLoad(TableAfter, Len(BinaryCaches))
  BY <1>1, <1>2, LoadExists
<1>4. \A i \in 0 .. Len(BinaryCaches) :
        TableAfter[i] = IF i = 0 THEN EmptyTable ELSE AfterHost(TableAfter[i - 1], i)
  <2> HIDE DEF TableAfter
  <2> QED BY <1>3 DEF IsLoad
<1> QED BY <1>1, <1>4

-----------------------------------------------------------------------------
(* Proxy has the table's operations under names of its own.                *)
LEMMA SameOperations ==
  /\ \A t : P!Known(t) = Known(t)
  /\ \A t, url : P!ApplyErrorStrategy(t, url) = ApplyErrorStrategy(t, url)
  /\ \A t, p, s, urls : P!InsertNewCaches(t, p, s, urls) = InsertNewCaches(t, p, s, urls)
  /\ \A t, urls : P!RemoveCaches(t, urls) = RemoveCaches(t, urls)
  /\ \A t : P!AgeTable(t) = AgeTable(t)
<1>1. \A f, S : P!Restrict(f, S) = Restrict(f, S)
  BY DEF P!Restrict, Restrict
<1>2. \A t : P!Known(t) = Known(t)
  BY DEF P!Known, Known
<1>3. \A pm, p, url : P!LeaveBucket(pm, p, url) = LeaveBucket(pm, p, url)
  BY <1>1 DEF P!LeaveBucket, LeaveBucket
<1>4. \A t, url : P!RemoveCache(t, url) = RemoveCache(t, url)
  BY <1>1, <1>2, <1>3 DEF P!RemoveCache, RemoveCache
<1>5. \A t, url, d : P!TimeOutCache(t, url, d) = TimeOutCache(t, url, d)
  BY DEF P!TimeOutCache, TimeOutCache
<1>6. \A t, url : P!ApplyErrorStrategy(t, url) = ApplyErrorStrategy(t, url)
  BY <1>2, <1>4, <1>5 DEF P!ApplyErrorStrategy, ApplyErrorStrategy
<1>7. \A pm, p : P!Bucket(pm, p) = Bucket(pm, p)
  BY DEF P!Bucket, Bucket
<1>8. \A pm, p, urls : P!JoinBucket(pm, p, urls) = JoinBucket(pm, p, urls)
  BY <1>7 DEF P!JoinBucket, JoinBucket
<1>9. \A t, p, s, urls : P!EnterCaches(t, p, s, urls) = EnterCaches(t, p, s, urls)
  BY <1>2, <1>8 DEF P!EnterCaches, EnterCaches
<1>10. \A t, p, s, urls : P!InsertNewCaches(t, p, s, urls) = InsertNewCaches(t, p, s, urls)
  BY <1>9 DEF P!InsertNewCaches, InsertNewCaches
<1>11. \A t, urls : P!TakeOut(t, urls) = TakeOut(t, urls)
  BY <1>1, <1>2 DEF P!TakeOut, TakeOut
<1>12. \A t, urls : P!RemoveCaches(t, urls) = RemoveCaches(t, urls)
  BY <1>1, <1>11 DEF P!RemoveCaches, RemoveCaches
<1>13. \A t : P!AgeTable(t) = AgeTable(t)
  BY <1>2 DEF P!AgeTable, AgeTable
<1> QED BY <1>2, <1>6, <1>10, <1>12, <1>13

-----------------------------------------------------------------------------
(* A request knows of listed caches only: in the buckets of its snapshot,  *)
(* however old that is, and among those it waits for or reports.           *)
KnowsListed(x, urls) ==
  /\ DOMAIN x = {"phase", "snapshot", "todo", "waiting_for", "in_flight", "timeout",
                 "failed", "asked", "answered"}
  /\ DOMAIN x.snapshot = {"caches", "priority_map"}
  /\ DOMAIN x.snapshot.priority_map \subseteq Nat
  /\ x.todo \subseteq DOMAIN x.snapshot.priority_map
  /\ \A p \in DOMAIN x.snapshot.priority_map : x.snapshot.priority_map[p] \subseteq urls
  /\ x.waiting_for \subseteq urls /\ x.in_flight \subseteq urls /\ x.failed \subseteq urls

(* What the two halves need to know of each other: what was ever in the    *)
(* table includes what is in it, and while the configured caches are       *)
(* loaded no request works on the table.                                   *)
ListInv ==
  /\ ProvInv
  /\ DOMAIN table = {"caches", "priority_map"}
  /\ Known(table) \subseteq listed
  /\ manager = "load" => table = TableAfter[loaded]

ServerInv ==
  /\ ListInv
  /\ DOMAIN req = Requests
  /\ \A r \in Requests : KnowsListed(req[r], listed)

LEMMA KnowsMore ==
  ASSUME NEW x, NEW S, NEW T, KnowsListed(x, S), S \subseteq T
  PROVE  KnowsListed(x, T)
  BY DEF KnowsListed

LEMMA IdleKnows ==
  ASSUME NEW S
  PROVE  KnowsListed(P!Idle, S) /\ KnowsListed(P!Done, S)
<1>1. KnowsListed(P!Idle, S)
  BY DEF P!Idle, P!EmptyTable, P!NoCaches, KnowsListed
<1>2. P!Done = [P!Idle EXCEPT !.phase = "done"]
  BY DEF P!Done
<1> HIDE DEF P!Idle
<1>3. KnowsListed(P!Done, S)
  BY <1>1, <1>2 DEF KnowsListed
<1> QED BY <1>1, <1>3

LEMMA TableKnows ==
  ASSUME ServerInv
  PROVE  /\ DOMAIN table.priority_map \subseteq Nat
         /\ \A p \in DOMAIN table.priority_map : table.priority_map[p] \subseteq listed
<1>1. GoodTable(table) /\ Known(table) \subseteq listed
  BY TypeInvGood DEF ServerInv, ListInv, ProvInv, OwnInv
<1>2. DOMAIN table.priority_map \subseteq Priorities /\ Priorities \subseteq Nat
  BY <1>1, PrioritiesAssumption DEF GoodTable, IsCacheData, IsMap
<1>3. \A p \in DOMAIN table.priority_map : table.priority_map[p] \subseteq Known(table)
  BY <1>1 DEF GoodTable, Consistent
<1> QED BY <1>1, <1>2, <1>3

(* The tables that the operations return are records of two fields.        *)
LEMMA TableFields ==
  ASSUME NEW t, DOMAIN t = {"caches", "priority_map"}
  PROVE  /\ \A p, s, u : DOMAIN InsertCache(t, p, s, u) = DOMAIN t
         /\ \A u : DOMAIN RemoveCache(t, u) = DOMAIN t
         /\ \A p, s, us : DOMAIN InsertNewCaches(t, p, s, us) = DOMAIN t
         /\ \A us : DOMAIN RemoveCaches(t, us) = DOMAIN t
         /\ \A u : DOMAIN ApplyErrorStrategy(t, u) = DOMAIN t
         /\ DOMAIN AgeTable(t) = DOMAIN t
<1>1. \A p, s, us : DOMAIN EnterCaches(t, p, s, us) = DOMAIN t
  BY DEF EnterCaches
<1>2. \A p, s, u : DOMAIN InsertCache(t, p, s, u) = DOMAIN t
  BY <1>1 DEF InsertCache
<1>3. \A u : DOMAIN RemoveCache(t, u) = DOMAIN t
  BY DEF RemoveCache
<1>4. \A p, s, us : DOMAIN InsertNewCaches(t, p, s, us) = DOMAIN t
  BY <1>1 DEF InsertNewCaches
<1>5. \A us : DOMAIN RemoveCaches(t, us) = DOMAIN t
  BY DEF RemoveCaches, TakeOut
<1>6. \A u, d : DOMAIN TimeOutCache(t, u, d) = DOMAIN t
  BY DEF TimeOutCache
<1>7. \A u : DOMAIN ApplyErrorStrategy(t, u) = DOMAIN t
  BY <1>3, <1>6 DEF ApplyErrorStrategy
<1>8. DOMAIN AgeTable(t) = DOMAIN t
  BY DEF AgeTable
<1> QED BY <1>2, <1>3, <1>4, <1>5, <1>7, <1>8

-----------------------------------------------------------------------------
(* One step of a request: its caches stay listed, and what it sends to the *)
(* manager is one of them.                                                 *)
LEMMA RequestSteps ==
  ASSUME ServerInv, NEW r \in Requests, Request(r)
  PROVE  /\ DOMAIN req' = Requests
         /\ \A q \in Requests : KnowsListed(req'[q], listed)
         /\ \/ UNCHANGED reports
            \/ reports = <<>> /\ \E url \in listed : reports' = <<url>>
<1> DEFINE x == req[r]
<1>0. /\ manager # "load"
      /\ P!Arrive(r) \/ P!Handle(r) \/ P!Answer(r) \/ P!Disconnect(r)
  BY DEF Request, RequestStep
<1>1. KnowsListed(x, listed) /\ DOMAIN req = Requests
  BY DEF ServerInv, ListInv
<1>2. ASSUME NEW y, P!Becomes(r, y), KnowsListed(y, listed)
      PROVE  DOMAIN req' = Requests /\ \A q \in Requests : KnowsListed(req'[q], listed)
  BY <1>2 DEF P!Becomes, ServerInv
<1>3. CASE P!Arrive(r)
  <2> DEFINE y == [x EXCEPT !.phase = "next", !.snapshot = table,
                            !.todo = DOMAIN table.priority_map]
  <2>1. P!Becomes(r, y) /\ UNCHANGED reports
    BY <1>0, <1>3 DEF P!Arrive
  <2>2. DOMAIN table = {"caches", "priority_map"}
    BY DEF ServerInv, ListInv
  <2>3. KnowsListed(y, listed)
    BY <1>1, <2>2, TableKnows DEF KnowsListed
  <2> HIDE DEF y
  <2> QED BY <1>2, <2>1, <2>3
<1>4. CASE P!TryBucket(r)
  <2> DEFINE p      == P!Min(x.todo)
             bucket == x.snapshot.priority_map[p]
             ask    == {u \in bucket : x.snapshot.caches[u].timed_out_until = 0}
             y      == [x EXCEPT !.phase = "wait", !.todo = @ \ {p},
                                 !.waiting_for = bucket, !.in_flight = ask,
                                 !.timeout = P!TimeoutOf(p),
                                 !.asked = ask, !.answered = {}]
  <2>1. P!Becomes(r, y) /\ UNCHANGED reports /\ x.todo # {}
    BY <1>4 DEF P!TryBucket, P!HasBucket, P!AskBucket
  <2>2. p \in x.todo
    <3>1. x.todo \subseteq Nat
      BY <1>1 DEF KnowsListed
    <3> QED BY <2>1, <3>1, LeastExists DEF P!Min
  <2>3. KnowsListed(y, listed)
    <3>1. bucket \subseteq listed /\ ask \subseteq bucket
      BY <1>1, <2>2 DEF KnowsListed
    <3> HIDE DEF p, bucket, ask
    <3> QED BY <1>1, <3>1 DEF KnowsListed
  <2> HIDE DEF y
  <2> QED BY <1>2, <2>1, <2>3
<1>5. CASE P!NotFound(r) \/ P!Disconnect(r) \/ \E url \in Urls : P!Hit(r, url)
  <2>1. P!Becomes(r, P!Done) /\ UNCHANGED reports
    BY <1>5 DEF P!NotFound, P!Disconnect, P!Hit
  <2> QED BY <1>2, <2>1, IdleKnows
<1>6. ASSUME NEW url, NEW left, left \subseteq listed, NEW phase, NEW failed,
             url \in x.in_flight => failed \subseteq listed,
             P!Missed(r, url, left, phase, failed)
      PROVE  /\ DOMAIN req' = Requests /\ \A q \in Requests : KnowsListed(req'[q], listed)
             /\ UNCHANGED reports
  <2> DEFINE y == [x EXCEPT !.phase = phase, !.waiting_for = left,
                            !.in_flight = @ \ {url}, !.failed = failed,
                            !.answered = @ \cup {url}]
  <2>1. P!Becomes(r, y) /\ UNCHANGED reports /\ url \in x.in_flight
    BY <1>6 DEF P!Missed
  <2>2. KnowsListed(y, listed)
    BY <1>1, <1>6, <2>1 DEF KnowsListed
  <2> HIDE DEF y
  <2> QED BY <1>2, <2>1, <2>2
<1>7. CASE \E url \in Urls : P!BadStatus(r, url) \/ P!FetchError(r, url)
  <2>1. PICK url \in Urls : P!BadStatus(r, url) \/ P!FetchError(r, url)
    BY <1>7
  <2>2. PICK phase \in {"wait", "report"}, failed \in SUBSET {url} :
          P!Missed(r, url, x.waiting_for \ {url}, phase, failed)
    <3>1. {} \in SUBSET {url} /\ {url} \in SUBSET {url}
      OBVIOUS
    <3> QED BY <2>1, <3>1 DEF P!BadStatus, P!FetchError
  <2>3. /\ x.waiting_for \ {url} \subseteq listed
        /\ url \in x.in_flight => failed \subseteq listed
    BY <1>1 DEF KnowsListed
  <2> QED BY <1>6, <2>2, <2>3
<1>8. CASE P!SleepOver(r)
  <2> DEFINE y == [x EXCEPT !.phase = "deadline", !.in_flight = {}]
  <2>1. P!Becomes(r, y) /\ UNCHANGED reports
    BY <1>8 DEF P!SleepOver
  <2>2. KnowsListed(y, listed)
    BY <1>1 DEF KnowsListed
  <2> HIDE DEF y
  <2> QED BY <1>2, <2>1, <2>2
<1>9. CASE P!SendFailed(r)
  <2> DEFINE y == [x EXCEPT !.phase = "wait", !.failed = {}]
  <2>1. PICK url \in x.failed : reports = <<>> /\ reports' = <<url>> /\ P!Becomes(r, y)
    BY <1>9 DEF P!SendFailed, P!FailedSent
  <2>2. KnowsListed(y, listed) /\ url \in listed
    BY <1>1 DEF KnowsListed
  <2> HIDE DEF y
  <2> QED BY <1>2, <2>1, <2>2
<1>10. CASE P!SendLate(r)
  <2>1. PICK url \in x.waiting_for :
          /\ reports = <<>> /\ reports' = <<url>>
          /\ P!Becomes(r, [x EXCEPT !.waiting_for = @ \ {url}])
    BY <1>10 DEF P!SendLate
  <2> DEFINE y == [x EXCEPT !.waiting_for = @ \ {url}]
  <2>2. KnowsListed(y, listed) /\ url \in listed
    BY <1>1 DEF KnowsListed
  <2>3. P!Becomes(r, y)
    BY <2>1
  <2> HIDE DEF y
  <2> QED BY <1>2, <2>1, <2>2, <2>3
<1>11. CASE P!BucketDone(r)
  <2> DEFINE y == [x EXCEPT !.phase = "next"]
  <2>1. P!Becomes(r, y) /\ UNCHANGED reports
    BY <1>11 DEF P!BucketDone
  <2>2. KnowsListed(y, listed)
    BY <1>1 DEF KnowsListed
  <2> HIDE DEF y
  <2> QED BY <1>2, <2>1, <2>2
<1> QED BY <1>0, <1>3, <1>4, <1>5, <1>7, <1>8, <1>9, <1>10, <1>11
        DEF P!Handle, P!Answer, P!Deadline

-----------------------------------------------------------------------------
(* One step of the manager, whatever the other tasks are.                  *)
LEMMA ListInvStep ==
  ASSUME ListInv, [Next]_vars
  PROVE  ListInv' /\ listed \subseteq listed'
<1>0. /\ ProvInv' /\ TypeInv /\ IsCacheData(table)
      /\ DOMAIN table = {"caches", "priority_map"} /\ Known(table) \subseteq listed
  BY ProvInvNext DEF ListInv, ProvInv, OwnInv, TypeInv, TypeOK, ManagerTypeOK
<1>1. SUFFICES /\ DOMAIN table' = {"caches", "priority_map"}
               /\ Known(table') \subseteq listed' /\ listed \subseteq listed'
               /\ manager' = "load" => table' = TableAfter[loaded']
  BY <1>0, <1>1 DEF ListInv, Known
<1>2. CASE LoadHost
  <2> DEFINE host == BinaryCaches[loaded + 1]
  <2>1. /\ table' = InsertCache(table, host.priority, host.error_strategy, host.url)
        /\ listed' = listed \cup {host.url} /\ loaded' = loaded + 1
        /\ manager = "load" /\ loaded < Len(BinaryCaches)
    BY <1>2 DEF LoadHost
  <2>2. table' = TableAfter[loaded']
    <3>1. table = TableAfter[loaded]
      BY <2>1 DEF ListInv
    <3>2. loaded' \in 1 .. Len(BinaryCaches) /\ loaded' - 1 = loaded
      BY <1>0, <2>1, ConfigAssumption DEF TypeInv, TypeOK, ManagerTypeOK
    <3>3. TableAfter[loaded'] = AfterHost(TableAfter[loaded], loaded')
      BY <3>2, TableAfterIs
    <3> QED BY <2>1, <3>1, <3>3 DEF AfterHost
  <2> HIDE DEF host
  <2>3. Known(table') = Known(table) \cup {host.url}
    BY <1>0, <2>1, KnownAfter
  <2>4. DOMAIN table' = DOMAIN table
    BY <1>0, <2>1, TableFields
  <2> QED BY <1>0, <2>1, <2>2, <2>3, <2>4
<1>3. CASE BatchTimeout
  <2>1. /\ table' = InsertNewCaches(table, 0, LocalStrategy, NewInBatch)
        /\ listed' = listed \cup NewInBatch /\ manager' = "select"
    BY <1>3 DEF BatchTimeout, DrainBatch
  <2> QED BY <1>0, <2>1, KnownAfter, TableFields
<1>4. CASE BadCache
  <2>1. /\ table' = ApplyErrorStrategy(table, Head(reports))
        /\ listed' = listed /\ manager' = "select"
    BY <1>4 DEF BadCache, Treat
  <2>2. Known(table') \subseteq Known(table)
    BY <1>0, <2>1, KnownAfter
  <2> QED BY <1>0, <2>1, <2>2, TableFields
<1>5. CASE OnNetworkChanged
  <2>1. /\ table' = RemoveCaches(table, Range(local_caches))
        /\ listed' = listed /\ manager' = "request"
    BY <1>5 DEF OnNetworkChanged, TakeEvent
  <2> QED BY <1>0, <2>1, KnownAfter, TableFields
<1>6. CASE OnGoodbye
  <2>1. PICK ip \in Ips :
          IF ip \in DOMAIN local_caches
          THEN table' = RemoveCache(table, local_caches[ip])
          ELSE UNCHANGED table
    BY <1>6 DEF OnGoodbye, TakeEvent
  <2>2. listed' = listed /\ manager' = "select"
    BY <1>6 DEF OnGoodbye, TakeEvent
  <2>3. DOMAIN table' = DOMAIN table /\ Known(table') \subseteq Known(table)
    <3>1. CASE ip \in DOMAIN local_caches
      BY <1>0, <2>1, <3>1, KnownAfter, TableFields
    <3>2. CASE ip \notin DOMAIN local_caches
      BY <2>1, <3>2
    <3> QED BY <3>1, <3>2
  <2> QED BY <1>0, <2>2, <2>3
<1>7. CASE Tick
  <2>1. /\ table' = AgeTable(table) /\ listed' = listed
        /\ manager' = manager /\ manager # "load"
    BY <1>7 DEF Tick, historyVars
  <2> QED BY <1>0, <2>1, KnownAfter, TableFields
<1>8. CASE SpawnManager \/ IntervalTick \/ OnAdv \/ NoteAdv \/ SendReq
  <2>1. table' = table /\ listed' = listed /\ manager' # "load"
    BY <1>8 DEF SpawnManager, IntervalTick, IntervalDue, OnAdv, TakeEvent, NoteAdv,
                PutInBatch, SendReq, historyVars
  <2> QED BY <1>0, <2>1
<1>9. CASE TimerTask \/ EnvNext \/ UNCHANGED vars
  <2>1. UNCHANGED <<table, listed, manager, loaded>>
    BY <1>9 DEF TimerTask, EnvNext, EnvEvent, EnvTakeRequest, EnvReport, EnvCancel,
               EnvDiscoverEnds, vars, managerVars, historyVars
  <2> QED BY <1>0, <2>1 DEF ListInv
<1> QED BY <1>2, <1>3, <1>4, <1>5, <1>6, <1>7, <1>8, <1>9 DEF Next, ManagerNext

(* To the manager, each step of the server is one that it expects.         *)
LEMMA ServerStepIsManagers ==
  ASSUME ServerInv, [ServerNext]_serverVars
  PROVE  [Next]_vars
<1>1. CASE OtherStep
  BY <1>1 DEF OtherStep, Next, EnvNext
<1>2. CASE ServerTick
  BY <1>2 DEF ServerTick, Next
<1>3. ASSUME NEW r \in Requests, Request(r) PROVE [Next]_vars
  <2>1. /\ manager # "load"
        /\ UNCHANGED <<managerVars, timerVars, events, requests, discover_up, cancelled>>
    BY <1>3 DEF Request, RequestStep
  <2>2. CASE UNCHANGED reports
    BY <2>1, <2>2 DEF vars, channelVars
  <2>3. CASE reports = <<>> /\ \E url \in listed : reports' = <<url>>
    <3>1. HasRoom(reports) /\ \A url : Append(<<>>, url) = <<url>>
      BY <2>3 DEF HasRoom, Capacity
    <3>2. EnvReport
      BY <2>1, <2>3, <3>1 DEF EnvReport
    <3> QED BY <3>2 DEF Next, EnvNext
  <2> QED BY <1>3, <2>2, <2>3, RequestSteps
<1>4. CASE UNCHANGED serverVars
  BY <1>4 DEF serverVars
<1> QED BY <1>1, <1>2, <1>3, <1>4 DEF ServerNext

(* Time passes for the table that a request works on.                      *)
LEMMA TickKnows ==
  ASSUME ServerInv, P!ProxyTick
  PROVE  DOMAIN req' = Requests /\ \A r \in Requests : KnowsListed(req'[r], listed)
<1> SUFFICES ASSUME NEW r \in Requests PROVE KnowsListed(req'[r], listed)
  BY DEF P!ProxyTick
<1> DEFINE x    == req[r]
           aged == P!AgeTable(x.snapshot)
           left == IF x.timeout > 0 THEN x.timeout - 1 ELSE x.timeout
           y    == [x EXCEPT !.snapshot = aged, !.timeout = left]
<1>1. KnowsListed(x, listed)
  BY DEF ServerInv
<1>2. req'[r] = y
  BY DEF P!ProxyTick
<1>3. aged.priority_map = x.snapshot.priority_map /\ DOMAIN aged = DOMAIN x.snapshot
  BY <1>1 DEF P!AgeTable, KnowsListed
<1> HIDE DEF aged, left
<1>4. KnowsListed(y, listed)
  BY <1>1, <1>3 DEF KnowsListed
<1> QED BY <1>2, <1>4

LEMMA ServerInvNext ==
  ASSUME ServerInv, [ServerNext]_serverVars
  PROVE  ServerInv'
<1>1. ListInv' /\ listed \subseteq listed'
  BY ServerStepIsManagers, ListInvStep DEF ServerInv
<1>2. DOMAIN req' = Requests /\ \A r \in Requests : KnowsListed(req'[r], listed)
  <2>1. CASE OtherStep \/ UNCHANGED serverVars
    BY <2>1 DEF OtherStep, serverVars, ServerInv
  <2>2. CASE ServerTick
    BY <2>2, TickKnows DEF ServerTick
  <2>3. CASE \E r \in Requests : Request(r)
    BY <2>3, RequestSteps
  <2> QED BY <2>1, <2>2, <2>3 DEF ServerNext
<1> QED BY <1>1, <1>2, KnowsMore DEF ServerInv

LEMMA ServerInvInit == ServerInit => ServerInv
<1> SUFFICES ASSUME ServerInit PROVE ServerInv
  OBVIOUS
<1>1. ProvInv
  BY OwnInvInit
  DEF ServerInit, Init, ManagerInit, ProvInv, Provenance, EmptyTable, NoCaches, Known
<1>2. /\ table = EmptyTable /\ loaded = 0 /\ Known(table) = {}
  BY DEF ServerInit, Init, ManagerInit, EmptyTable, NoCaches, Known
<1>3. ListInv
  BY <1>1, <1>2, TableAfterIs DEF ListInv, EmptyTable
<1>4. req = [r \in Requests |-> P!Idle]
  BY DEF ServerInit
<1> QED BY <1>3, <1>4, IdleKnows DEF ServerInv

LEMMA ServerInvHolds == ServerSpec => []ServerInv
  BY ServerInvInit, ServerInvNext, PTL DEF ServerSpec

(* Whatever requests do, and however old their snapshots are, the manager  *)
(* meets nothing from them that it was not proved for: one report at a     *)
(* time, of a cache that is or was in the table (mod.rs:126, 194, 214).    *)
THEOREM ServerImplementsManager == ServerSpec => ManagerSpec
<1>1. ServerInit => Init
  BY DEF ServerInit
<1>2. ServerInv /\ [ServerNext]_serverVars => [Next]_vars
  BY ServerStepIsManagers
<1> QED BY <1>1, <1>2, ServerInvHolds, PTL DEF ServerSpec, ManagerSpec, Spec

-----------------------------------------------------------------------------
(* The table as a request finds it.                                        *)
shown == IF manager = "load" THEN ConfiguredTable ELSE table

requestsView == <<shown, req, reports, HasManager>>

(* What the manager forgets is local, or not in the table any more.        *)
LEMMA ForgetsLocal ==
  ASSUME ServerInv, manager # "load", manager' # "load", HasManager, HasManager',
         UNCHANGED <<req, reports>>,
         NEW urls, urls \subseteq Range(local_caches),
         table' = RemoveCaches(table, urls)
  PROVE  P!Forget
<1> DEFINE known == urls \cap Known(table)
<1>1. GoodTable(table) /\ Provenance /\ configured \cap Range(local_caches) = {}
  BY TypeInvGood DEF ServerInv, ListInv, ProvInv, OwnInv, Ownership
<1>2. table' = RemoveCaches(table, known)
  BY <1>1, RemoveOnlyKnown
<1>3. known \in SUBSET Known(table)
  OBVIOUS
<1>4. \A u \in known : /\ table.caches[u].priority = 0
                       /\ table.caches[u].error_strategy = LocalStrategy
  BY <1>1 DEF Provenance
<1>5. shown = table /\ shown' = table'
  BY DEF shown
<1> HIDE DEF known
<1> QED BY <1>2, <1>3, <1>4, <1>5, SameOperations DEF P!Forget, shown

LEMMA ServerStepIsRequests ==
  ASSUME ServerInv, [ServerNext]_serverVars
  PROVE  P!ProxyNext \/ UNCHANGED requestsView
<1>0. /\ TypeInv /\ TypeInv' /\ GoodTable(table) /\ HasManager /\ HasManager'
      /\ [Next]_vars
  <2>1. TypeInv /\ [Next]_vars
    BY ServerStepIsManagers DEF ServerInv, ListInv, ProvInv, OwnInv
  <2>2. TypeInv'
    BY <2>1, TypeInvNext
  <2> QED BY <2>1, <2>2, TypeInvGood DEF TypeInv, TypeOK, ManagerTypeOK, HasManager
<1>1. ASSUME shown' = shown, UNCHANGED <<req, reports>>
      PROVE  UNCHANGED requestsView
  BY <1>0, <1>1 DEF requestsView
<1>2. CASE ServerTick
  BY <1>2 DEF ServerTick, P!ProxyNext
<1>3. CASE \E r \in Requests : Request(r)
  BY <1>3 DEF Request, RequestStep, P!ProxyNext
<1>4. CASE UNCHANGED serverVars
  BY <1>4 DEF serverVars, vars, managerVars, channelVars, requestsView, shown, HasManager
<1>5. CASE OtherStep
  <2>0. req' = req
    BY <1>5 DEF OtherStep
  <2>1. CASE LoadHost
    <3>1. manager = "load" /\ manager' = "load" /\ reports' = reports
      BY <2>1 DEF LoadHost, channelVars
    <3> QED BY <1>1, <2>0, <3>1 DEF shown
  <2>2. CASE SpawnManager
    <3>1. /\ manager = "load" /\ manager' = "select" /\ reports' = reports
          /\ table' = table /\ table = TableAfter[loaded] /\ loaded = Len(BinaryCaches)
      BY <2>2 DEF SpawnManager, channelVars, ServerInv, ListInv
    <3> QED BY <1>1, <2>0, <3>1 DEF shown, ConfiguredTable
  <2>3. CASE BatchTimeout
    <3>1. /\ table' = InsertNewCaches(table, 0, LocalStrategy, NewInBatch)
          /\ manager = "select" /\ manager' = "select" /\ reports' = reports
      BY <2>3 DEF BatchTimeout, DrainBatch, channelVars
    <3>2. NewInBatch \in SUBSET (Urls \ Known(table))
      BY <1>0 DEF NewInBatch, TypeInv, TypeOK, ManagerTypeOK, IsMap
    <3>3. shown = table /\ shown' = table'
      BY <3>1 DEF shown
    <3>4. P!Learn
      BY <1>0, <2>0, <3>1, <3>2, <3>3, SameOperations DEF P!Learn, shown
    <3> QED BY <3>4 DEF P!ProxyNext
  <2>4. CASE BadCache
    <3>1. /\ table' = ApplyErrorStrategy(table, Head(reports))
          /\ manager = "select" /\ manager' = "select" /\ reports # <<>>
      BY <2>4 DEF BadCache, Treat
    <3>2. reports' = <<>>
      BY <1>0, <2>4, TakeFromChannel
      DEF BadCache, Treat, TypeInv, TypeOK, ChannelsTypeOK
    <3>3. shown = table /\ shown' = table'
      BY <3>1 DEF shown
    <3>4. P!TakeReport
      BY <1>0, <2>0, <3>1, <3>2, <3>3, SameOperations DEF P!TakeReport, shown
    <3> QED BY <3>4 DEF P!ProxyNext
  <2>5. CASE OnNetworkChanged
    <3>1. /\ table' = RemoveCaches(table, Range(local_caches))
          /\ manager = "select" /\ manager' = "request" /\ reports' = reports
      BY <2>5 DEF OnNetworkChanged, TakeEvent
    <3>2. P!Forget
      BY <1>0, <2>0, <3>1, ForgetsLocal
    <3> QED BY <3>2 DEF P!ProxyNext
  <2>6. CASE OnGoodbye
    <3>1. manager = "select" /\ manager' = "select" /\ reports' = reports
      BY <2>6 DEF OnGoodbye, TakeEvent
    <3>2. PICK ip \in Ips :
            IF ip \in DOMAIN local_caches
            THEN table' = RemoveCache(table, local_caches[ip])
            ELSE UNCHANGED table
      BY <2>6 DEF OnGoodbye, TakeEvent
    <3>3. CASE table' = table
      BY <1>1, <2>0, <3>1, <3>3 DEF shown
    <3>4. CASE ip \in DOMAIN local_caches /\ local_caches[ip] \in Known(table)
      <4> DEFINE url == local_caches[ip]
      <4>1. {url} \subseteq Range(local_caches)
        BY <3>4 DEF Range
      <4>2. table' = RemoveCaches(table, {url})
        BY <1>0, <3>2, <3>4, RemoveOne
      <4> HIDE DEF url
      <4>3. P!Forget
        BY <1>0, <2>0, <3>1, <4>1, <4>2, ForgetsLocal
      <4> QED BY <4>3 DEF P!ProxyNext
    <3>5. \/ table' = table
          \/ ip \in DOMAIN local_caches /\ local_caches[ip] \in Known(table)
      BY <3>2 DEF RemoveCache
    <3> QED BY <3>3, <3>4, <3>5
  <2>7. CASE IntervalTick \/ OnAdv \/ NoteAdv \/ SendReq
    <3>1. /\ manager # "load" /\ manager' # "load"
          /\ table' = table /\ reports' = reports
      BY <2>7 DEF IntervalTick, IntervalDue, OnAdv, TakeEvent, NoteAdv, PutInBatch,
                  SendReq, BroadcastReq, channelVars
    <3> QED BY <1>1, <2>0, <3>1 DEF shown
  <2>8. CASE TimerTask \/ EnvEvent \/ EnvTakeRequest \/ EnvCancel \/ EnvDiscoverEnds
    <3>1. UNCHANGED <<manager, table, reports>>
      BY <2>8 DEF TimerTask, EnvEvent, EnvTakeRequest, EnvCancel, EnvDiscoverEnds,
                  DropDiscover, managerVars, channelVars
    <3> QED BY <1>1, <2>0, <3>1 DEF shown
  <2> QED BY <1>5, <2>1, <2>2, <2>3, <2>4, <2>5, <2>6, <2>7, <2>8
          DEF OtherStep, ManagerNext
<1> QED BY <1>2, <1>3, <1>4, <1>5 DEF ServerNext

(* Whatever the network does, the manager meets the requests as the one    *)
(* they were proved for: it publishes the configured table first, adds     *)
(* unknown caches at priority 0, and takes out, besides reported caches,   *)
(* only what it had learned (mod.rs:295-346).                              *)
THEOREM ServerImplementsRequests == ServerSpec => RequestsSpec
<1>1. ServerInit => P!ProxyInit
  BY DEF ServerInit, Init, ManagerInit, ChannelsInit, P!ProxyInit, HasManager
<1>2. ServerInv /\ [ServerNext]_serverVars => [P!ProxyNext]_requestsView
  BY ServerStepIsRequests
<1> QED BY <1>1, <1>2, ServerInvHolds, PTL
    DEF ServerSpec, RequestsSpec, P!ProxySpec, P!proxyVars, requestsView, shown
=============================================================================
