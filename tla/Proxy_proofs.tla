---------------------------- MODULE Proxy_proofs ----------------------------
(***************************************************************************)
(* Safety of the proxy, for any number of requests, caches and priorities, *)
(* and whatever the manager does to the table meanwhile.  A request is     *)
(* looked at on its own: what it works on is its snapshot.                 *)
(***************************************************************************)
EXTENDS Proxy, CacheTable_proofs, TLAPS

Fields == {"phase", "snapshot", "todo", "waiting_for", "in_flight", "timeout",
           "failed", "asked", "answered"}

IsRequest(x) ==
  /\ DOMAIN x = Fields
  /\ x.phase \in Phases
  /\ GoodTable(x.snapshot)
  /\ x.todo \subseteq DOMAIN x.snapshot.priority_map
  /\ x.timeout \in Nat
  /\ x.waiting_for \subseteq Urls /\ x.in_flight \subseteq Urls /\ x.failed \subseteq Urls
  /\ x.asked \subseteq Urls /\ x.answered \subseteq Urls

(* While bucket p is tried, all that the handler knows of is in that       *)
(* bucket, and the buckets left are worse.                                 *)
Tries(x, p) ==
  /\ p \in Priorities
  /\ \A u \in x.waiting_for \cup x.asked :
       u \in Known(x.snapshot) /\ x.snapshot.caches[u].priority = p
  /\ \A q \in x.todo : p < q
  /\ x.in_flight \subseteq x.asked
  /\ (x.waiting_for \cup x.in_flight) \cap x.answered = {}

RequestInv(x) ==
  /\ IsRequest(x)
  /\ x.phase \in {"wait", "report", "deadline"} => \E p : Tries(x, p)

ProxyInv ==
  /\ GoodTable(table)
  /\ manage \in Seq(Urls) /\ Len(manage) <= 1 /\ managed \in BOOLEAN
  /\ DOMAIN req = Requests
  /\ \A r \in Requests : RequestInv(req[r])

-----------------------------------------------------------------------------
LEMMA IdleIsRequest == RequestInv(Idle) /\ RequestInv(Done)
<1>1. DOMAIN Idle = Fields
  BY DEF Idle, Fields
<1>2. DOMAIN Done = Fields
  BY <1>1 DEF Done
<1>3. RequestInv(Idle)
  BY <1>1, EmptyTableGood DEF Idle, RequestInv, IsRequest, Phases
<1>4. RequestInv(Done)
  BY <1>1, <1>2, EmptyTableGood DEF Done, Idle, RequestInv, IsRequest, Phases, Fields
<1> QED BY <1>3, <1>4

LEMMA OneRequest ==
  ASSUME ProxyInv, NEW r \in Requests, NEW local, RequestInv(local), Becomes(r, local)
  PROVE  DOMAIN req' = Requests /\ \A q \in Requests : RequestInv(req'[q])
  BY DEF ProxyInv, Becomes

(* A nonempty set of priorities has a least one.                           *)
LEMMA MinOfBuckets ==
  ASSUME NEW S, S \subseteq Nat, S # {}
  PROVE  Min(S) \in S /\ \A q \in S : Min(S) <= q
  BY LeastExists DEF Min

-----------------------------------------------------------------------------
(* The steps of one handler, on its own variables.                         *)
LEMMA ArriveKeeps ==
  ASSUME ProxyInv, NEW r \in Requests, Arrive(r)
  PROVE  DOMAIN req' = Requests /\ \A q \in Requests : RequestInv(req'[q])
<1> DEFINE x == req[r]
           y == [x EXCEPT !.phase = "next", !.snapshot = table,
                          !.todo = DOMAIN table.priority_map]
<1>1. RequestInv(x) /\ GoodTable(table)
  BY DEF ProxyInv
<1>2. /\ DOMAIN y = Fields
      /\ y.phase = "next" /\ y.snapshot = table /\ y.todo = DOMAIN table.priority_map
      /\ y.waiting_for = x.waiting_for /\ y.in_flight = x.in_flight /\ y.timeout = x.timeout
      /\ y.failed = x.failed /\ y.asked = x.asked /\ y.answered = x.answered
  BY <1>1 DEF RequestInv, IsRequest, Fields
<1>3. Becomes(r, y)
  BY DEF Arrive
<1> HIDE DEF y
<1>4. RequestInv(y)
  BY <1>1, <1>2 DEF RequestInv, IsRequest, Phases
<1> QED BY <1>3, <1>4, OneRequest

LEMMA TryBucketKeeps ==
  ASSUME ProxyInv, NEW r \in Requests, TryBucket(r)
  PROVE  DOMAIN req' = Requests /\ \A q \in Requests : RequestInv(req'[q])
<1> DEFINE x      == req[r]
           p      == Min(x.todo)
           bucket == x.snapshot.priority_map[p]
           ask    == {u \in bucket : x.snapshot.caches[u].timed_out_until = 0}
           y      == [x EXCEPT !.phase = "wait", !.todo = @ \ {p},
                               !.waiting_for = bucket, !.in_flight = ask,
                               !.timeout = TimeoutOf(p), !.asked = ask, !.answered = {}]
<1>1. RequestInv(x) /\ x.todo # {}
  BY DEF ProxyInv, TryBucket, HasBucket
<1>2. x.todo \subseteq Priorities /\ Priorities \subseteq Nat
  BY <1>1, PrioritiesAssumption DEF RequestInv, IsRequest, GoodTable, IsCacheData, IsMap
<1>3. p \in x.todo /\ \A q \in x.todo : p <= q
  BY <1>1, <1>2, MinOfBuckets
<1>4. \A q \in x.todo \ {p} : p < q
  <2> HIDE DEF p, x
  <2>1. p \in Nat /\ x.todo \subseteq Nat
    BY <1>2, <1>3
  <2> QED BY <1>3, <2>1
<1>5. TimeoutOf(p) \in Nat
  BY <1>2, <1>3, ProxyAssumption DEF TimeoutOf, IsMap
<1>6. /\ bucket \subseteq Urls
      /\ \A u \in bucket : u \in Known(x.snapshot) /\ x.snapshot.caches[u].priority = p
  BY <1>1, <1>3 DEF RequestInv, IsRequest, GoodTable, Consistent, IsCacheData, IsMap
<1>7. Becomes(r, y)
  BY DEF TryBucket, AskBucket
<1>8. ask \subseteq bucket
  OBVIOUS
<1> HIDE DEF p, bucket, ask
<1>9. /\ DOMAIN y = Fields
      /\ y.phase = "wait" /\ y.todo = x.todo \ {p} /\ y.waiting_for = bucket
      /\ y.in_flight = ask /\ y.timeout = TimeoutOf(p) /\ y.asked = ask /\ y.answered = {}
      /\ y.snapshot = x.snapshot /\ y.failed = x.failed
  BY <1>1 DEF RequestInv, IsRequest, Fields
<1> HIDE DEF y
<1>10. IsRequest(y)
  BY <1>1, <1>5, <1>6, <1>8, <1>9 DEF RequestInv, IsRequest, Phases
<1>11. Tries(y, p)
  BY <1>2, <1>3, <1>4, <1>6, <1>8, <1>9 DEF Tries
<1> QED BY <1>7, <1>10, <1>11, OneRequest DEF RequestInv

LEMMA MissedKeeps ==
  ASSUME ProxyInv, NEW r \in Requests, NEW url, NEW phase \in {"wait", "report"},
         NEW failed \in SUBSET Urls, Missed(r, url, req[r].waiting_for \ {url}, phase, failed)
  PROVE  DOMAIN req' = Requests /\ \A q \in Requests : RequestInv(req'[q])
<1> DEFINE x    == req[r]
           left == x.waiting_for \ {url}
           y    == [x EXCEPT !.phase = phase, !.waiting_for = left,
                             !.in_flight = @ \ {url}, !.failed = failed,
                             !.answered = @ \cup {url}]
<1>1. RequestInv(x) /\ x.phase = "wait" /\ url \in x.in_flight
  BY DEF ProxyInv, Missed
<1>2. Becomes(r, y)
  BY DEF Missed
<1> HIDE DEF left
<1>3. /\ DOMAIN y = Fields
      /\ y.phase = phase /\ y.waiting_for = left /\ y.in_flight = x.in_flight \ {url}
      /\ y.failed = failed /\ y.answered = x.answered \cup {url}
      /\ y.snapshot = x.snapshot /\ y.todo = x.todo /\ y.timeout = x.timeout
      /\ y.asked = x.asked
  BY <1>1 DEF RequestInv, IsRequest, Fields
<1> HIDE DEF y
<1>4. IsRequest(y)
  BY <1>1, <1>3 DEF RequestInv, IsRequest, Phases, left
<1>5. PICK p : Tries(x, p)
  BY <1>1 DEF RequestInv
<1>6. Tries(y, p)
  BY <1>3, <1>5 DEF Tries, left
<1> QED BY <1>2, <1>4, <1>6, OneRequest DEF RequestInv

LEMMA LoopKeeps ==
  ASSUME ProxyInv, NEW r \in Requests,
         SleepOver(r) \/ SendFailed(r) \/ BucketDone(r)
  PROVE  DOMAIN req' = Requests /\ \A q \in Requests : RequestInv(req'[q])
<1> DEFINE x == req[r]
<1>1. RequestInv(x)
  BY DEF ProxyInv
<1>2. CASE SleepOver(r)
  <2> DEFINE y == [x EXCEPT !.phase = "deadline", !.in_flight = {}]
  <2>1. Becomes(r, y) /\ x.phase = "wait"
    BY <1>2 DEF SleepOver
  <2>2. /\ DOMAIN y = Fields /\ y.phase = "deadline" /\ y.in_flight = {}
        /\ y.snapshot = x.snapshot /\ y.todo = x.todo /\ y.timeout = x.timeout
        /\ y.waiting_for = x.waiting_for /\ y.failed = x.failed
        /\ y.asked = x.asked /\ y.answered = x.answered
    BY <1>1 DEF RequestInv, IsRequest, Fields
  <2> HIDE DEF y
  <2>3. PICK p : Tries(x, p)
    BY <1>1, <2>1 DEF RequestInv
  <2>4. IsRequest(y) /\ Tries(y, p)
    BY <1>1, <2>2, <2>3 DEF RequestInv, IsRequest, Phases, Tries
  <2> QED BY <2>1, <2>4, OneRequest DEF RequestInv
<1>3. CASE SendFailed(r)
  <2> DEFINE y == [x EXCEPT !.phase = "wait", !.failed = {}]
  <2>1. Becomes(r, y) /\ x.phase = "report"
    BY <1>3 DEF SendFailed, FailedSent
  <2>2. /\ DOMAIN y = Fields /\ y.phase = "wait" /\ y.failed = {}
        /\ y.snapshot = x.snapshot /\ y.todo = x.todo /\ y.timeout = x.timeout
        /\ y.waiting_for = x.waiting_for /\ y.in_flight = x.in_flight
        /\ y.asked = x.asked /\ y.answered = x.answered
    BY <1>1 DEF RequestInv, IsRequest, Fields
  <2> HIDE DEF y
  <2>3. PICK p : Tries(x, p)
    BY <1>1, <2>1 DEF RequestInv
  <2>4. IsRequest(y) /\ Tries(y, p)
    BY <1>1, <2>2, <2>3 DEF RequestInv, IsRequest, Phases, Tries
  <2> QED BY <2>1, <2>4, OneRequest DEF RequestInv
<1>4. CASE BucketDone(r)
  <2> DEFINE y == [x EXCEPT !.phase = "next"]
  <2>1. Becomes(r, y)
    BY <1>4 DEF BucketDone
  <2>2. /\ DOMAIN y = Fields /\ y.phase = "next"
        /\ y.snapshot = x.snapshot /\ y.todo = x.todo /\ y.timeout = x.timeout
        /\ y.waiting_for = x.waiting_for /\ y.in_flight = x.in_flight
        /\ y.failed = x.failed /\ y.asked = x.asked /\ y.answered = x.answered
    BY <1>1 DEF RequestInv, IsRequest, Fields
  <2> HIDE DEF y
  <2>3. RequestInv(y)
    BY <1>1, <2>2 DEF RequestInv, IsRequest, Phases
  <2> QED BY <2>1, <2>3, OneRequest
<1> QED BY <1>2, <1>3, <1>4

LEMMA SendLateKeeps ==
  ASSUME ProxyInv, NEW r \in Requests, SendLate(r)
  PROVE  DOMAIN req' = Requests /\ \A q \in Requests : RequestInv(req'[q])
<1> DEFINE x == req[r]
<1>1. RequestInv(x) /\ x.phase = "deadline"
  BY DEF ProxyInv, SendLate
<1>2. PICK url \in x.waiting_for : Becomes(r, [x EXCEPT !.waiting_for = @ \ {url}])
  BY DEF SendLate
<1> DEFINE y == [x EXCEPT !.waiting_for = @ \ {url}]
<1>3. Becomes(r, y)
  BY <1>2
<1>4. /\ DOMAIN y = Fields /\ y.waiting_for = x.waiting_for \ {url}
      /\ y.phase = x.phase /\ y.snapshot = x.snapshot /\ y.todo = x.todo
      /\ y.timeout = x.timeout /\ y.in_flight = x.in_flight
      /\ y.failed = x.failed /\ y.asked = x.asked /\ y.answered = x.answered
  BY <1>1 DEF RequestInv, IsRequest, Fields
<1> HIDE DEF y
<1>5. PICK p : Tries(x, p)
  BY <1>1 DEF RequestInv
<1>6. IsRequest(y) /\ Tries(y, p)
  BY <1>1, <1>4, <1>5 DEF RequestInv, IsRequest, Phases, Tries
<1> QED BY <1>3, <1>6, OneRequest DEF RequestInv

(* A tick ages every snapshot and every deadline.                          *)
LEMMA TickKeeps ==
  ASSUME ProxyInv, ProxyTick
  PROVE  DOMAIN req' = Requests /\ \A q \in Requests : RequestInv(req'[q])
<1> SUFFICES ASSUME NEW r \in Requests PROVE RequestInv(req'[r])
  BY DEF ProxyTick
<1> DEFINE x == req[r]
           y == [x EXCEPT !.snapshot = AgeTable(@),
                          !.timeout = IF @ > 0 THEN @ - 1 ELSE @]
<1>1. RequestInv(x) /\ GoodTable(x.snapshot) /\ x.timeout \in Nat
  BY DEF ProxyInv, RequestInv, IsRequest
<1>2. req'[r] = y
  BY DEF ProxyTick
<1> DEFINE aged == AgeTable(x.snapshot)
           less == IF x.timeout > 0 THEN x.timeout - 1 ELSE x.timeout
<1>3. /\ GoodTable(aged) /\ Known(aged) = Known(x.snapshot)
      /\ aged.priority_map = x.snapshot.priority_map
      /\ \A u \in Known(aged) : aged.caches[u].priority = x.snapshot.caches[u].priority
  <2> DEFINE t == x.snapshot
  <2>1. GoodTable(t)
    BY <1>1
  <2> HIDE DEF t, x
  <2>2. AgeTable(t).priority_map = t.priority_map
    BY <2>1 DEF AgeTable, GoodTable, IsCacheData
  <2>3. GoodTable(AgeTable(t)) /\ Known(AgeTable(t)) = Known(t) /\ Keeps(t, AgeTable(t))
    BY <2>1, AgeTableGood
  <2> QED BY <2>2, <2>3 DEF Keeps, t
<1>4. less \in Nat
  BY <1>1
<1> HIDE DEF aged, less
<1>5. /\ DOMAIN y = Fields /\ y.snapshot = aged /\ y.timeout = less
      /\ y.phase = x.phase /\ y.todo = x.todo
      /\ y.waiting_for = x.waiting_for /\ y.in_flight = x.in_flight
      /\ y.failed = x.failed /\ y.asked = x.asked /\ y.answered = x.answered
  BY <1>1 DEF RequestInv, IsRequest, Fields, aged, less
<1> HIDE DEF y
<1>6. IsRequest(y)
  BY <1>1, <1>3, <1>4, <1>5 DEF RequestInv, IsRequest
<1>7. ASSUME NEW p, Tries(x, p) PROVE Tries(y, p)
  BY <1>3, <1>5, <1>7 DEF Tries
<1> QED BY <1>1, <1>2, <1>5, <1>6, <1>7 DEF RequestInv

(* A step of a handler leaves the table alone.                             *)
LEMMA HandlerKeeps ==
  ASSUME ProxyInv, NEW r \in Requests,
         Arrive(r) \/ Handle(r) \/ Answer(r) \/ Disconnect(r)
  PROVE  /\ DOMAIN req' = Requests /\ \A q \in Requests : RequestInv(req'[q])
         /\ table' = table /\ managed' = managed
<1>1. CASE Arrive(r)
  BY <1>1, ArriveKeeps DEF Arrive
<1>2. CASE TryBucket(r)
  BY <1>2, TryBucketKeeps DEF TryBucket, AskBucket
<1>3. CASE NotFound(r) \/ Disconnect(r) \/ \E url \in Urls : Hit(r, url)
  <2>1. Becomes(r, Done) /\ table' = table /\ managed' = managed
    BY <1>3 DEF NotFound, Disconnect, Hit
  <2> QED BY <2>1, IdleIsRequest, OneRequest
<1>4. CASE SleepOver(r) \/ SendFailed(r) \/ BucketDone(r)
  BY <1>4, LoopKeeps DEF SleepOver, SendFailed, FailedSent, BucketDone
<1>5. CASE SendLate(r)
  BY <1>5, SendLateKeeps DEF SendLate
<1>6. CASE \E url \in Urls : BadStatus(r, url) \/ FetchError(r, url)
  <2>1. PICK url \in Urls : BadStatus(r, url) \/ FetchError(r, url)
    BY <1>6
  <2>2. {url} \in SUBSET Urls /\ {} \in SUBSET Urls
    BY <2>1
  <2>3. CASE BadStatus(r, url)
    BY <2>2, <2>3, MissedKeeps DEF BadStatus, Missed
  <2>4. CASE FetchError(r, url) /\ ~ BadStatus(r, url)
    BY <2>2, <2>4, MissedKeeps DEF FetchError, Missed
  <2> QED BY <2>1, <2>3, <2>4
<1> QED BY <1>1, <1>2, <1>3, <1>4, <1>5, <1>6 DEF Handle, Answer, Deadline

LEMMA ChannelKeeps ==
  ASSUME ProxyInv, ProxyNext
  PROVE  manage' \in Seq(Urls) /\ Len(manage') <= 1
<1>1. CASE \E r \in Requests : SendFailed(r)
  <2>1. PICK r \in Requests : SendFailed(r)
    BY <1>1
  <2>2. PICK url \in req[r].failed : FailedSent(r, <<url>>)
    BY <2>1 DEF SendFailed
  <2>3. url \in Urls /\ manage' = <<url>>
    BY <2>2 DEF FailedSent, ProxyInv, RequestInv, IsRequest
  <2> QED BY <2>3
<1>2. CASE \E r \in Requests : SendLate(r)
  <2>1. PICK r \in Requests : SendLate(r)
    BY <1>2
  <2>2. PICK url \in req[r].waiting_for : manage' = <<url>>
    BY <2>1 DEF SendLate
  <2>3. url \in Urls
    BY <2>2 DEF ProxyInv, RequestInv, IsRequest
  <2> QED BY <2>2, <2>3
<1>3. CASE TakeReport
  BY <1>3 DEF TakeReport
<1>4. CASE manage' = manage
  BY <1>4 DEF ProxyInv
<1>5. \/ \E r \in Requests : SendFailed(r) \/ SendLate(r)
      \/ TakeReport \/ manage' = manage
  <2>1. CASE Learn \/ Forget \/ ProxyTick \/ TakeReport
    BY <2>1 DEF Learn, Forget, ProxyTick
  <2>2. CASE \E r \in Requests : Arrive(r) \/ Handle(r) \/ Answer(r) \/ Disconnect(r)
    <3>1. PICK r \in Requests : Arrive(r) \/ Handle(r) \/ Answer(r) \/ Disconnect(r)
      BY <2>2
    <3>2. CASE Arrive(r) \/ Handle(r) \/ Disconnect(r)
      BY <3>2 DEF Arrive, Handle, Disconnect, TryBucket, AskBucket, NotFound,
                  Deadline, SleepOver, BucketDone
    <3>3. CASE Answer(r)
      BY <3>3 DEF Answer, Hit, BadStatus, FetchError, Missed
    <3> QED BY <3>1, <3>2, <3>3
  <2> QED BY <2>1, <2>2 DEF ProxyNext
<1> QED BY <1>1, <1>2, <1>3, <1>4, <1>5

LEMMA ProxyInvNext == ProxyInv /\ [ProxyNext]_proxyVars => ProxyInv'
<1> SUFFICES ASSUME ProxyInv, [ProxyNext]_proxyVars PROVE ProxyInv'
  OBVIOUS
<1>1. CASE UNCHANGED proxyVars
  BY <1>1 DEF proxyVars, ProxyInv
<1>2. CASE ProxyNext
  <2>1. manage' \in Seq(Urls) /\ Len(manage') <= 1
    BY <1>2, ChannelKeeps
  <2>2. CASE \E r \in Requests : Arrive(r) \/ Handle(r) \/ Answer(r) \/ Disconnect(r)
    BY <2>1, <2>2, HandlerKeeps DEF ProxyInv
  <2>3. CASE ProxyTick
    <3>1. GoodTable(table') /\ managed' = managed
      BY <2>3, AgeTableGood DEF ProxyInv, ProxyTick
    <3> QED BY <2>1, <2>3, <3>1, TickKeeps DEF ProxyInv
  <2>4. CASE TakeReport
    <3>1. GoodTable(table')
      BY <2>4, ApplyErrorStrategyGood DEF ProxyInv, TakeReport
    <3> QED BY <2>1, <2>4, <3>1 DEF ProxyInv, TakeReport
  <2>5. CASE Learn
    <3>1. PICK urls \in SUBSET (Urls \ Known(table)) :
            table' = InsertNewCaches(table, 0, LocalStrategy, urls)
      BY <2>5 DEF Learn
    <3>2. /\ urls \in SUBSET Urls /\ urls \cap Known(table) = {}
          /\ 0 \in Priorities /\ LocalStrategy \in ErrorStrategy
      BY ProxyAssumption
    <3>3. GoodTable(table')
      BY <3>1, <3>2, InsertNewCachesGood DEF ProxyInv
    <3> QED BY <2>1, <2>5, <3>3 DEF ProxyInv, Learn
  <2>6. CASE Forget
    <3>1. GoodTable(table')
      BY <2>6, RemoveCachesGood DEF ProxyInv, Forget
    <3> QED BY <2>1, <2>6, <3>1 DEF ProxyInv, Forget
  <2> QED BY <1>2, <2>2, <2>3, <2>4, <2>5, <2>6 DEF ProxyNext
<1> QED BY <1>1, <1>2

LEMMA ProxyInvHolds == ProxySpec => []ProxyInv
<1>1. ProxyInit => ProxyInv
  BY IdleIsRequest, ProxyAssumption DEF ProxyInit, ProxyInv, GoodTable
<1> QED BY <1>1, ProxyInvNext, PTL DEF ProxySpec

-----------------------------------------------------------------------------
(* The types of the proxy, for every configuration (mod.rs:96-231).        *)
THEOREM ProxyTypeCorrect == ProxySpec => []ProxyTypeOK
<1>1. ProxyInv => ProxyTypeOK
  <2> SUFFICES ASSUME ProxyInv, NEW r \in Requests
               PROVE  /\ IsCacheData(req[r].snapshot)
                      /\ req[r].todo \subseteq Priorities
      BY DEF ProxyInv, ProxyTypeOK, RequestInv, IsRequest, GoodTable
  <2> QED BY DEF ProxyInv, RequestInv, IsRequest, GoodTable, IsCacheData, IsMap
<1> QED BY <1>1, ProxyInvHolds, PTL

(* What a handler reports at a deadline is in the bucket it was trying and *)
(* has not answered, for any number of buckets (mod.rs:136, 182, 211).     *)
THEOREM LateIsSilentHolds == ProxySpec => []LateIsSilent
<1>1. ProxyInv => LateIsSilent
  <2> SUFFICES ASSUME ProxyInv, NEW r \in Requests, req[r].phase = "deadline"
               PROVE  /\ req[r].waiting_for \cap req[r].answered = {}
                      /\ \A u, v \in req[r].waiting_for \cup req[r].asked :
                           req[r].snapshot.caches[u].priority
                             = req[r].snapshot.caches[v].priority
    BY DEF LateIsSilent
  <2>1. PICK p : Tries(req[r], p)
    BY DEF ProxyInv, RequestInv
  <2> QED BY <2>1 DEF Tries
<1> QED BY <1>1, ProxyInvHolds, PTL

(* A hit comes from the best bucket that is left, whatever the manager     *)
(* did to the table since the request came (mod.rs:133).                   *)
THEOREM HitIsBestHolds == ProxySpec => HitIsBest
<1> DEFINE Best ==
      \A r \in Requests, u \in Urls :
        Hit(r, u) => \A q \in req[r].todo : req[r].snapshot.caches[u].priority < q
<1>1. ProxyInv => Best
  <2> SUFFICES ASSUME ProxyInv, NEW r \in Requests, NEW u \in Urls, Hit(r, u)
               PROVE  \A q \in req[r].todo : req[r].snapshot.caches[u].priority < q
    OBVIOUS
  <2>1. req[r].phase = "wait" /\ u \in req[r].in_flight
    BY DEF Hit
  <2>2. PICK p : Tries(req[r], p)
    BY <2>1 DEF ProxyInv, RequestInv
  <2> QED BY <2>1, <2>2 DEF Tries
<1> QED BY <1>1, ProxyInvHolds, PTL DEF HitIsBest
=============================================================================
