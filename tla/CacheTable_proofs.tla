------------------------- MODULE CacheTable_proofs -------------------------
(***************************************************************************)
(* Every operation on a table of caches keeps its type and the agreement   *)
(* of its two indexes, for any URLs and any priorities.  The proofs see a  *)
(* map of buckets as what Bucket returns for each priority: first what the *)
(* bucket operations do to that, then what consistency says of it, then    *)
(* the operations on the table.                                            *)
(***************************************************************************)
EXTENDS CacheTable, WellFoundedInduction, TLAPS

(* A nonempty set of numbers has a least one: that of the best bucket, and *)
(* that of a loop's first step with which something goes wrong.            *)
LEMMA NatLess ==
  ASSUME NEW less, less = {ss \in Nat \X Nat : ss[1] < ss[2]},
         NEW S, S \subseteq Nat, NEW x \in S, \A y \in S : ~ (<<y, x>> \in less)
  PROVE  \A y \in S : x <= y
<1> SUFFICES ASSUME NEW y \in S PROVE x <= y
  OBVIOUS
<1>1. <<y, x>> \in Nat \X Nat /\ ~ (y < x)
  <2>1. <<y, x>> \in Nat \X Nat /\ <<y, x>>[1] = y /\ <<y, x>>[2] = x
    OBVIOUS
  <2>2. y < x => <<y, x>> \in less
    BY <2>1
  <2> QED BY <2>1, <2>2
<1> QED BY <1>1

LEMMA LeastExists ==
  ASSUME NEW S, S \subseteq Nat, S # {}
  PROVE  \E x \in S : \A y \in S : x <= y
<1>1. OpToRel(<, Nat) = {ss \in Nat \X Nat : ss[1] < ss[2]}
  BY Zenon DEF OpToRel
<1>2. \E x \in S : \A y \in S : ~ (<<y, x>> \in OpToRel(<, Nat))
  BY NatLessThanWellFounded, WFMin
<1> QED BY Zenon, <1>1, <1>2, NatLess

-----------------------------------------------------------------------------
(* A map of priorities to buckets, none of them empty.                     *)
GoodBuckets(pm) == /\ IsMap(pm, Priorities, SUBSET Urls)
                   /\ \A q \in DOMAIN pm : pm[q] # {}

(* A table as the code means it to be.                                     *)
GoodTable(t) == IsCacheData(t) /\ Consistent(t)

-----------------------------------------------------------------------------
(* Joining a bucket adds to it and leaves the other buckets alone.         *)
LEMMA JoinBucketEffect ==
  ASSUME NEW pm, GoodBuckets(pm),
         NEW p \in Priorities, NEW urls \in SUBSET Urls, urls # {}
  PROVE  /\ GoodBuckets(JoinBucket(pm, p, urls))
         /\ Bucket(JoinBucket(pm, p, urls), p) = Bucket(pm, p) \cup urls
         /\ \A q : q # p => Bucket(JoinBucket(pm, p, urls), q) = Bucket(pm, q)
  BY DEF GoodBuckets, IsMap, JoinBucket, Bucket

(* Leaving a bucket takes from it and leaves the other buckets alone; it   *)
(* needs the bucket to exist (mod.rs:77, 103).                             *)
LEMMA LeaveBucketEffect ==
  ASSUME NEW pm, GoodBuckets(pm), NEW p \in DOMAIN pm, NEW url
  PROVE  /\ GoodBuckets(LeaveBucket(pm, p, url))
         /\ Bucket(LeaveBucket(pm, p, url), p) = Bucket(pm, p) \ {url}
         /\ \A q : q # p => Bucket(LeaveBucket(pm, p, url), q) = Bucket(pm, q)
<1>1. CASE pm[p] \ {url} = {}
  BY <1>1 DEF GoodBuckets, IsMap, LeaveBucket, Bucket, Restrict
<1>2. CASE pm[p] \ {url} # {}
  BY <1>2 DEF GoodBuckets, IsMap, LeaveBucket, Bucket
<1> QED BY <1>1, <1>2

-----------------------------------------------------------------------------
(* A good table, bucket by bucket: bucket q holds exactly the caches of    *)
(* priority q.                                                             *)
LEMMA GoodTableByBucket ==
  ASSUME NEW t
  PROVE  GoodTable(t) <=>
           /\ IsMap(t.caches, Urls, CacheMeta)
           /\ GoodBuckets(t.priority_map)
           /\ \A q : Bucket(t.priority_map, q) = {u \in Known(t) : t.caches[u].priority = q}
<1> DEFINE ByBucket ==
      \A q : Bucket(t.priority_map, q) = {u \in Known(t) : t.caches[u].priority = q}
<1>1. ASSUME GoodTable(t)
      PROVE  IsMap(t.caches, Urls, CacheMeta) /\ GoodBuckets(t.priority_map) /\ ByBucket
  BY <1>1 DEF GoodTable, GoodBuckets, Consistent, Bucket, Known, IsCacheData, IsMap, CacheMeta
<1>2. ASSUME IsMap(t.caches, Urls, CacheMeta), GoodBuckets(t.priority_map), ByBucket
      PROVE  GoodTable(t)
  <2>1. \A u \in Known(t) : u \in Bucket(t.priority_map, t.caches[u].priority)
    BY <1>2
  <2>2. ASSUME NEW p \in DOMAIN t.priority_map
        PROVE  /\ t.priority_map[p] # {}
               /\ \A u \in t.priority_map[p] : u \in Known(t) /\ t.caches[u].priority = p
    <3>1. t.priority_map[p] = Bucket(t.priority_map, p)
      BY DEF Bucket
    <3> QED BY <1>2, <3>1 DEF GoodBuckets
  <2> QED BY <1>2, <2>1, <2>2 DEF GoodTable, IsCacheData, GoodBuckets, Consistent
<1> QED BY <1>1, <1>2

LEMMA EmptyTableGood == GoodTable(EmptyTable)
  BY DEF GoodTable, IsCacheData, IsMap, Consistent, EmptyTable, NoCaches, Known, Bucket

(* The bucket of a known cache exists: no "Invalid state".                 *)
LEMMA KnownHasBucket ==
  ASSUME NEW t, GoodTable(t), NEW url \in Known(t)
  PROVE  /\ t.caches[url] \in CacheMeta
         /\ t.caches[url].priority \in DOMAIN t.priority_map
         /\ url \in t.priority_map[t.caches[url].priority]
  BY DEF GoodTable, Consistent, Bucket, Known, IsCacheData, IsMap

-----------------------------------------------------------------------------
LEMMA InsertCacheGood ==
  ASSUME NEW t, GoodTable(t), NEW p \in Priorities, NEW s \in ErrorStrategy,
         NEW url \in Urls
  PROVE  /\ GoodTable(InsertCache(t, p, s, url))
         /\ Known(InsertCache(t, p, s, url)) = Known(t) \cup {url}
<1> DEFINE new == InsertCache(t, p, s, url)
<1> USE DEF Known
<1>1. /\ IsMap(t.caches, Urls, CacheMeta) /\ GoodBuckets(t.priority_map)
      /\ \A q : Bucket(t.priority_map, q) = {u \in Known(t) : t.caches[u].priority = q}
  BY GoodTableByBucket
<1>2. {url} \in SUBSET Urls /\ {url} # {}
  OBVIOUS
<1>3. CASE url \in Known(t) /\ t.caches[url].priority = p
  BY <1>3 DEF InsertCache
<1>4. CASE url \in Known(t) /\ t.caches[url].priority # p
  <2> DEFINE old  == t.caches[url].priority
             left == LeaveBucket(t.priority_map, old, url)
  <2>1. /\ new.caches = [t.caches EXCEPT ![url].priority = p]
        /\ new.priority_map = JoinBucket(left, p, {url})
    BY <1>4 DEF InsertCache
  <2>2. old \in DOMAIN t.priority_map
    BY <1>4, KnownHasBucket
  <2>3. /\ GoodBuckets(left)
        /\ Bucket(left, old) = Bucket(t.priority_map, old) \ {url}
        /\ \A q : q # old => Bucket(left, q) = Bucket(t.priority_map, q)
    <3> HIDE DEF old
    <3> QED BY <1>1, <2>2, LeaveBucketEffect
  <2>4. /\ GoodBuckets(new.priority_map)
        /\ Bucket(new.priority_map, p) = Bucket(left, p) \cup {url}
        /\ \A q : q # p => Bucket(new.priority_map, q) = Bucket(left, q)
    <3> HIDE DEF left, new
    <3> QED BY <1>2, <2>1, <2>3, JoinBucketEffect
  <2>5. /\ IsMap(new.caches, Urls, CacheMeta)
        /\ Known(new) = Known(t)
        /\ new.caches[url].priority = p
        /\ \A u \in Known(t) : u # url => new.caches[u].priority = t.caches[u].priority
    BY <1>1, <1>4, <2>1 DEF IsMap, CacheMeta
  <2>6. \A q : Bucket(new.priority_map, q) = {u \in Known(new) : new.caches[u].priority = q}
    <3> HIDE DEF new, left
    <3> QED BY <1>1, <1>4, <2>3, <2>4, <2>5
  <2> QED BY <1>4, <2>4, <2>5, <2>6, GoodTableByBucket
<1>5. CASE url \notin Known(t)
  <2>1. /\ new.priority_map = JoinBucket(t.priority_map, p, {url})
        /\ new.caches = [u \in Known(t) \cup {url} |->
                           IF u \in {url}
                           THEN [priority |-> p, error_strategy |-> s, timed_out_until |-> 0]
                           ELSE t.caches[u]]
    BY <1>5 DEF InsertCache, EnterCaches
  <2>2. /\ GoodBuckets(new.priority_map)
        /\ Bucket(new.priority_map, p) = Bucket(t.priority_map, p) \cup {url}
        /\ \A q : q # p => Bucket(new.priority_map, q) = Bucket(t.priority_map, q)
    <3> HIDE DEF new
    <3> QED BY <1>1, <1>2, <2>1, JoinBucketEffect
  <2>3. /\ IsMap(new.caches, Urls, CacheMeta)
        /\ Known(new) = Known(t) \cup {url}
        /\ new.caches[url].priority = p
        /\ \A u \in Known(t) : u # url => new.caches[u].priority = t.caches[u].priority
    BY <1>1, <2>1 DEF IsMap, CacheMeta
  <2>4. \A q : Bucket(new.priority_map, q) = {u \in Known(new) : new.caches[u].priority = q}
    <3> HIDE DEF new
    <3> QED BY <1>1, <1>5, <2>2, <2>3
  <2> QED BY <2>2, <2>3, <2>4, GoodTableByBucket
<1> QED BY <1>3, <1>4, <1>5

(* The cache gets the new priority but keeps an error strategy it has, and *)
(* stays timed out if it is.                                               *)
LEMMA InsertCacheMeta ==
  ASSUME NEW t, GoodTable(t), NEW p \in Priorities, NEW s \in ErrorStrategy,
         NEW url \in Urls
  PROVE  /\ InsertCache(t, p, s, url).caches[url].priority = p
         /\ InsertCache(t, p, s, url).caches[url].error_strategy
              = IF url \in Known(t) THEN t.caches[url].error_strategy ELSE s
         /\ url \in Known(t) => InsertCache(t, p, s, url).caches[url].timed_out_until
                                = t.caches[url].timed_out_until
         /\ \A u \in Known(t) \ {url} :
              InsertCache(t, p, s, url).caches[u] = t.caches[u]
<1>1. IsMap(t.caches, Urls, CacheMeta)
  BY GoodTableByBucket
<1>2. CASE url \in Known(t) /\ t.caches[url].priority = p
  BY <1>2 DEF InsertCache
<1>3. CASE url \in Known(t) /\ t.caches[url].priority # p
  BY <1>1, <1>3 DEF InsertCache, IsMap, CacheMeta, Known
<1>4. CASE url \notin Known(t)
  BY <1>4 DEF InsertCache, EnterCaches, Known
<1> QED BY <1>2, <1>3, <1>4

-----------------------------------------------------------------------------
(* What an operation that adds nothing leaves of the table: the caches     *)
(* that stay keep their priority and their error strategy.                 *)
Keeps(t, new) ==
  /\ Known(new) \subseteq Known(t)
  /\ \A u \in Known(new) :
       /\ new.caches[u].priority = t.caches[u].priority
       /\ new.caches[u].error_strategy = t.caches[u].error_strategy

LEMMA RemoveCacheGood ==
  ASSUME NEW t, GoodTable(t), NEW url
  PROVE  /\ GoodTable(RemoveCache(t, url))
         /\ Known(RemoveCache(t, url)) = Known(t) \ {url}
         /\ Keeps(t, RemoveCache(t, url))
<1> DEFINE new == RemoveCache(t, url)
<1> USE DEF Known
<1>1. /\ IsMap(t.caches, Urls, CacheMeta) /\ GoodBuckets(t.priority_map)
      /\ \A q : Bucket(t.priority_map, q) = {u \in Known(t) : t.caches[u].priority = q}
  BY GoodTableByBucket
<1>2. CASE url \notin Known(t)
  BY <1>2 DEF RemoveCache, Keeps
<1>3. CASE url \in Known(t)
  <2> DEFINE old == t.caches[url].priority
  <2>1. /\ new.caches = [u \in Known(t) \ {url} |-> t.caches[u]]
        /\ new.priority_map = LeaveBucket(t.priority_map, old, url)
    BY <1>3 DEF RemoveCache, Restrict
  <2>2. old \in DOMAIN t.priority_map
    BY <1>3, KnownHasBucket
  <2>3. /\ GoodBuckets(new.priority_map)
        /\ Bucket(new.priority_map, old) = Bucket(t.priority_map, old) \ {url}
        /\ \A q : q # old => Bucket(new.priority_map, q) = Bucket(t.priority_map, q)
    <3> HIDE DEF old, new
    <3> QED BY <1>1, <2>1, <2>2, LeaveBucketEffect
  <2>4. /\ IsMap(new.caches, Urls, CacheMeta)
        /\ Known(new) = Known(t) \ {url}
        /\ \A u \in Known(new) : new.caches[u] = t.caches[u]
    BY <1>1, <2>1 DEF IsMap
  <2>5. \A q : Bucket(new.priority_map, q) = {u \in Known(new) : new.caches[u].priority = q}
    <3> HIDE DEF new
    <3> QED BY <1>1, <1>3, <2>3, <2>4
  <2> QED BY <2>3, <2>4, <2>5, GoodTableByBucket DEF Keeps
<1> QED BY <1>2, <1>3

LEMMA RemoveCachesGood ==
  ASSUME NEW t, GoodTable(t), NEW urls
  PROVE  /\ GoodTable(RemoveCaches(t, urls))
         /\ Known(RemoveCaches(t, urls)) = Known(t) \ urls
         /\ Keeps(t, RemoveCaches(t, urls))
<1> DEFINE new == RemoveCaches(t, urls)
           left(p) == t.priority_map[p] \ urls
           stay == {q \in DOMAIN t.priority_map : left(q) # {}}
<1> USE DEF Known
<1>1. /\ IsMap(t.caches, Urls, CacheMeta) /\ GoodBuckets(t.priority_map)
      /\ \A q : Bucket(t.priority_map, q) = {u \in Known(t) : t.caches[u].priority = q}
  BY GoodTableByBucket
<1>2. /\ new.caches = [u \in Known(t) \ urls |-> t.caches[u]]
      /\ new.priority_map = [p \in stay |-> left(p)]
  BY DEF RemoveCaches, TakeOut, Restrict
<1>3. /\ IsMap(new.caches, Urls, CacheMeta)
      /\ Known(new) = Known(t) \ urls
      /\ \A u \in Known(new) : new.caches[u] = t.caches[u]
  BY <1>1, <1>2 DEF IsMap
<1>4. \A q \in DOMAIN t.priority_map : left(q) = {u \in Known(new) : t.caches[u].priority = q}
  BY <1>1, <1>3 DEF Bucket
<1>5. GoodBuckets(new.priority_map)
  <2>1. \A p \in stay : left(p) # {} /\ left(p) \in SUBSET Urls
    BY <1>1 DEF GoodBuckets, IsMap
  <2>2. stay \subseteq Priorities
    BY <1>1 DEF GoodBuckets, IsMap
  <2> HIDE DEF stay, left, new
  <2> QED BY <1>2, <2>1, <2>2 DEF GoodBuckets, IsMap
<1>6. ASSUME NEW q
      PROVE  Bucket(new.priority_map, q) = {u \in Known(new) : new.caches[u].priority = q}
  <2>1. CASE q \in stay
    BY <1>2, <1>3, <1>4, <2>1 DEF Bucket
  <2>2. CASE q \in DOMAIN t.priority_map \ stay
    BY <1>2, <1>3, <1>4, <2>2 DEF Bucket
  <2>3. CASE q \notin DOMAIN t.priority_map
    BY <1>1, <1>2, <1>3, <2>3 DEF Bucket
  <2> QED BY <2>1, <2>2, <2>3
<1> QED BY <1>3, <1>5, <1>6, GoodTableByBucket DEF Keeps

(* Only what the table holds is removed, and a cache alone like a set.     *)
LEMMA RemoveOnlyKnown ==
  ASSUME NEW t, GoodTable(t), NEW urls
  PROVE  RemoveCaches(t, urls) = RemoveCaches(t, urls \cap Known(t))
<1> DEFINE known == urls \cap Known(t)
<1>1. \A p \in DOMAIN t.priority_map : t.priority_map[p] \ urls = t.priority_map[p] \ known
  BY DEF GoodTable, Consistent
<1>2. Known(t) \ urls = Known(t) \ known
  OBVIOUS
<1> HIDE DEF known
<1>3. TakeOut(t, urls) = TakeOut(t, known)
  BY <1>1, <1>2 DEF TakeOut
<1> QED BY <1>3 DEF RemoveCaches, known

LEMMA RemoveOne ==
  ASSUME NEW t, GoodTable(t), NEW url \in Known(t)
  PROVE  RemoveCache(t, url) = RemoveCaches(t, {url})
<1> DEFINE pm  == t.priority_map
           old == t.caches[url].priority
           out == TakeOut(t, {url}).priority_map
           stay == {p \in DOMAIN out : out[p] # {}}
<1>1. old \in DOMAIN pm /\ url \in pm[old]
  BY KnownHasBucket
<1>2. /\ DOMAIN out = DOMAIN pm
      /\ \A p \in DOMAIN pm : out[p] = IF p = old THEN pm[p] \ {url} ELSE pm[p]
  <2>1. out = [p \in DOMAIN pm |-> pm[p] \ {url}]
    BY DEF TakeOut
  <2>2. \A p \in DOMAIN pm : p # old => url \notin pm[p]
    BY DEF GoodTable, Consistent
  <2> HIDE DEF pm, out, old
  <2> QED BY <2>1, <2>2
<1>3. \A p \in DOMAIN pm : pm[p] # {}
  BY DEF GoodTable, Consistent
<1>4. pm = [p \in DOMAIN pm |-> pm[p]]
  BY DEF GoodTable, IsCacheData, IsMap
<1>5. LeaveBucket(pm, old, url) = [p \in stay |-> out[p]]
  <2> HIDE DEF pm, old, out
  <2>1. CASE pm[old] \ {url} = {}
    <3>1. stay = DOMAIN pm \ {old}
      BY <1>1, <1>2, <1>3, <2>1
    <3>2. LeaveBucket(pm, old, url) = [p \in DOMAIN pm \ {old} |-> pm[p]]
      BY <2>1 DEF LeaveBucket, Restrict
    <3> QED BY <1>2, <3>1, <3>2
  <2>2. CASE pm[old] \ {url} # {}
    <3>1. stay = DOMAIN pm
      BY <1>1, <1>2, <1>3, <2>2
    <3>2. LeaveBucket(pm, old, url) = [p \in DOMAIN pm |-> IF p = old THEN pm[p] \ {url} ELSE pm[p]]
      BY <1>4, <2>2 DEF LeaveBucket
    <3> HIDE DEF stay
    <3> QED BY <1>2, <3>1, <3>2
  <2> QED BY <2>1, <2>2
<1>6. RemoveCache(t, url)
        = [caches |-> Restrict(t.caches, Known(t) \ {url}),
           priority_map |-> LeaveBucket(pm, old, url)]
  BY DEF RemoveCache
<1>7. RemoveCaches(t, {url})
        = [caches |-> Restrict(t.caches, Known(t) \ {url}),
           priority_map |-> [p \in stay |-> out[p]]]
  <2>1. RemoveCaches(t, {url}) = [TakeOut(t, {url}) EXCEPT !.priority_map = Restrict(out, stay)]
    BY DEF RemoveCaches
  <2> HIDE DEF stay
  <2>2. Restrict(out, stay) = [p \in stay |-> out[p]]
    BY DEF Restrict
  <2> HIDE DEF out
  <2> QED BY <2>1, <2>2 DEF TakeOut
<1> QED BY <1>5, <1>6, <1>7

LEMMA InsertNewCachesGood ==
  ASSUME NEW t, GoodTable(t), NEW p \in Priorities, NEW s \in ErrorStrategy,
         NEW urls \in SUBSET Urls, urls \cap Known(t) = {}
  PROVE  /\ GoodTable(InsertNewCaches(t, p, s, urls))
         /\ Known(InsertNewCaches(t, p, s, urls)) = Known(t) \cup urls
         /\ \A u \in Known(t) : InsertNewCaches(t, p, s, urls).caches[u] = t.caches[u]
         /\ \A u \in urls :
              /\ InsertNewCaches(t, p, s, urls).caches[u].priority = p
              /\ InsertNewCaches(t, p, s, urls).caches[u].error_strategy = s
<1> DEFINE new == InsertNewCaches(t, p, s, urls)
<1> USE DEF Known
<1>1. /\ IsMap(t.caches, Urls, CacheMeta) /\ GoodBuckets(t.priority_map)
      /\ \A q : Bucket(t.priority_map, q) = {u \in Known(t) : t.caches[u].priority = q}
  BY GoodTableByBucket
<1>2. CASE urls = {}
  BY <1>2 DEF InsertNewCaches
<1>3. CASE urls # {}
  <2>1. /\ new.priority_map = JoinBucket(t.priority_map, p, urls)
        /\ new.caches = [u \in Known(t) \cup urls |->
                           IF u \in urls
                           THEN [priority |-> p, error_strategy |-> s, timed_out_until |-> 0]
                           ELSE t.caches[u]]
    BY <1>3 DEF InsertNewCaches, EnterCaches
  <2>2. /\ GoodBuckets(new.priority_map)
        /\ Bucket(new.priority_map, p) = Bucket(t.priority_map, p) \cup urls
        /\ \A q : q # p => Bucket(new.priority_map, q) = Bucket(t.priority_map, q)
    <3> HIDE DEF new
    <3> QED BY <1>1, <1>3, <2>1, JoinBucketEffect
  <2>3. /\ IsMap(new.caches, Urls, CacheMeta)
        /\ Known(new) = Known(t) \cup urls
        /\ \A u \in urls : /\ new.caches[u].priority = p
                            /\ new.caches[u].error_strategy = s
        /\ \A u \in Known(t) : new.caches[u] = t.caches[u]
    BY <1>1, <2>1 DEF IsMap, CacheMeta
  <2>4. \A q : Bucket(new.priority_map, q) = {u \in Known(new) : new.caches[u].priority = q}
    <3> HIDE DEF new
    <3> QED BY <1>1, <2>2, <2>3
  <2> QED BY <2>2, <2>3, <2>4, GoodTableByBucket
<1> QED BY <1>2, <1>3

LEMMA TimeOutCacheGood ==
  ASSUME NEW t, GoodTable(t), NEW url \in Known(t), NEW d \in Nat
  PROVE  /\ GoodTable(TimeOutCache(t, url, d))
         /\ Known(TimeOutCache(t, url, d)) = Known(t)
         /\ Keeps(t, TimeOutCache(t, url, d))
<1> DEFINE new == TimeOutCache(t, url, d)
<1> USE DEF Known
<1>1. /\ IsMap(t.caches, Urls, CacheMeta) /\ GoodBuckets(t.priority_map)
      /\ \A q : Bucket(t.priority_map, q) = {u \in Known(t) : t.caches[u].priority = q}
  BY GoodTableByBucket
<1>2. /\ IsMap(new.caches, Urls, CacheMeta)
      /\ new.priority_map = t.priority_map
      /\ Known(new) = Known(t)
      /\ \A u \in Known(t) : /\ new.caches[u].priority = t.caches[u].priority
                              /\ new.caches[u].error_strategy = t.caches[u].error_strategy
  BY <1>1 DEF TimeOutCache, IsMap, CacheMeta
<1> HIDE DEF new
<1> QED BY <1>1, <1>2, GoodTableByBucket DEF Keeps, new

LEMMA AgeTableGood ==
  ASSUME NEW t, GoodTable(t)
  PROVE  /\ GoodTable(AgeTable(t))
         /\ Known(AgeTable(t)) = Known(t)
         /\ Keeps(t, AgeTable(t))
<1> DEFINE new == AgeTable(t)
<1> USE DEF Known
<1>1. /\ IsMap(t.caches, Urls, CacheMeta) /\ GoodBuckets(t.priority_map)
      /\ \A q : Bucket(t.priority_map, q) = {u \in Known(t) : t.caches[u].priority = q}
  BY GoodTableByBucket
<1>2. /\ IsMap(new.caches, Urls, CacheMeta)
      /\ new.priority_map = t.priority_map
      /\ Known(new) = Known(t)
      /\ \A u \in Known(t) : /\ new.caches[u].priority = t.caches[u].priority
                              /\ new.caches[u].error_strategy = t.caches[u].error_strategy
  BY <1>1 DEF AgeTable, IsMap, CacheMeta
<1> HIDE DEF new
<1> QED BY <1>1, <1>2, GoodTableByBucket DEF Keeps, new

LEMMA ApplyErrorStrategyGood ==
  ASSUME NEW t, GoodTable(t), NEW url
  PROVE  /\ GoodTable(ApplyErrorStrategy(t, url))
         /\ Keeps(t, ApplyErrorStrategy(t, url))
         /\ \A u \in Known(t) :
              \/ u \in Known(ApplyErrorStrategy(t, url))
              \/ u = url /\ t.caches[u].error_strategy.type = "remove"
<1>1. CASE url \notin Known(t)
  BY <1>1 DEF ApplyErrorStrategy, Keeps
<1>2. CASE url \in Known(t) /\ t.caches[url].error_strategy.type = "remove"
  BY <1>2, RemoveCacheGood DEF ApplyErrorStrategy
<1>3. CASE url \in Known(t) /\ t.caches[url].error_strategy.type # "remove"
  <2>1. t.caches[url].error_strategy \in ErrorStrategy
    BY <1>3, KnownHasBucket DEF CacheMeta
  <2>2. t.caches[url].error_strategy.for \in Nat
    BY <1>3, <2>1 DEF ErrorStrategy
  <2> QED BY <1>3, <2>2, TimeOutCacheGood DEF ApplyErrorStrategy
<1> QED BY <1>1, <1>2, <1>3

-----------------------------------------------------------------------------
(* What a loop over a batch does with one more cache.                      *)
LEMMA InsertAfterBatch ==
  ASSUME NEW t, NEW p, NEW s, NEW urls, NEW url,
         url \notin Known(t), url \notin urls
  PROVE  InsertCache(InsertNewCaches(t, p, s, urls), p, s, url)
           = InsertNewCaches(t, p, s, urls \cup {url})
<1>1. urls \cup {url} # {}
  OBVIOUS
<1>2. CASE urls = {}
  BY <1>2 DEF InsertNewCaches, InsertCache
<1>3. CASE urls # {}
  <2> DEFINE some == EnterCaches(t, p, s, urls)
             meta == [priority |-> p, error_strategy |-> s, timed_out_until |-> 0]
  <2>1. /\ some.caches = [u \in Known(t) \cup urls |-> IF u \in urls THEN meta ELSE t.caches[u]]
        /\ some.priority_map = JoinBucket(t.priority_map, p, urls)
    BY DEF EnterCaches
  <2>2. Known(some) = Known(t) \cup urls
    BY <2>1 DEF Known
  <2>3. InsertCache(some, p, s, url) = EnterCaches(some, p, s, {url})
    BY <2>2 DEF InsertCache
  <2> HIDE DEF meta, some
  <2>4. [u \in Known(some) \cup {url} |-> IF u \in {url} THEN meta ELSE some.caches[u]]
          = [u \in Known(t) \cup (urls \cup {url}) |->
               IF u \in urls \cup {url} THEN meta ELSE t.caches[u]]
    BY <2>1, <2>2
  <2>5. JoinBucket(some.priority_map, p, {url}) = JoinBucket(t.priority_map, p, urls \cup {url})
    BY <2>1 DEF JoinBucket, Bucket
  <2>6. EnterCaches(some, p, s, {url}) = EnterCaches(t, p, s, urls \cup {url})
    BY <2>4, <2>5 DEF EnterCaches, meta
  <2> QED BY <1>1, <1>3, <2>3, <2>6 DEF InsertNewCaches, some
<1> QED BY <1>2, <1>3

LEMMA RemoveCachesShape ==
  ASSUME NEW t, NEW urls
  PROVE  RemoveCaches(t, urls)
           = [caches |-> [u \in Known(t) \ urls |-> t.caches[u]],
              priority_map |->
                [q \in {q \in DOMAIN t.priority_map : t.priority_map[q] \ urls # {}} |->
                   t.priority_map[q] \ urls]]
<1> DEFINE out == [q \in DOMAIN t.priority_map |-> t.priority_map[q] \ urls]
           stay == {q \in DOMAIN out : out[q] # {}}
<1>1. TakeOut(t, urls)
        = [caches |-> [u \in Known(t) \ urls |-> t.caches[u]], priority_map |-> out]
  BY DEF TakeOut, Restrict
<1>2. [q \in stay |-> out[q]]
        = [q \in {q \in DOMAIN t.priority_map : t.priority_map[q] \ urls # {}} |->
             t.priority_map[q] \ urls]
  OBVIOUS
<1> HIDE DEF out
<1>3. TakeOut(t, urls).priority_map = out
  BY <1>1
<1>4. RemoveCaches(t, urls) = [TakeOut(t, urls) EXCEPT !.priority_map = [q \in stay |-> out[q]]]
  BY <1>3 DEF RemoveCaches, Restrict
<1> HIDE DEF stay
<1>5. RemoveCaches(t, urls)
        = [caches |-> [u \in Known(t) \ urls |-> t.caches[u]],
           priority_map |-> [q \in stay |-> out[q]]]
  BY <1>1, <1>4
<1> QED BY <1>2, <1>5 DEF stay

LEMMA RemoveAfterBatch ==
  ASSUME NEW t, GoodTable(t), NEW urls, NEW url
  PROVE  RemoveCache(RemoveCaches(t, urls), url) = RemoveCaches(t, urls \cup {url})
<1> DEFINE some == RemoveCaches(t, urls)
<1>1. GoodTable(some) /\ Known(some) = Known(t) \ urls
  BY RemoveCachesGood
<1>2. CASE url \in Known(some)
  <2> DEFINE left(q) == t.priority_map[q] \ urls
             stay == {q \in DOMAIN t.priority_map : left(q) # {}}
             more == urls \cup {url}
  <2>1. RemoveCache(some, url) = RemoveCaches(some, {url})
    <3> HIDE DEF some
    <3> QED BY <1>1, <1>2, RemoveOne
  <2>2. some = [caches |-> [u \in Known(t) \ urls |-> t.caches[u]],
                priority_map |-> [q \in stay |-> left(q)]]
    BY RemoveCachesShape
  <2>3. some.caches = [u \in Known(t) \ urls |-> t.caches[u]]
    BY <2>2
  <2>4. some.priority_map = [q \in stay |-> left(q)]
    BY <2>2
  <2> DEFINE last == {q \in DOMAIN some.priority_map : some.priority_map[q] \ {url} # {}}
             over == {q \in DOMAIN t.priority_map : t.priority_map[q] \ more # {}}
  <2>5. RemoveCaches(some, {url})
          = [caches |-> [u \in Known(some) \ {url} |-> some.caches[u]],
             priority_map |-> [q \in last |-> some.priority_map[q] \ {url}]]
    <3> HIDE DEF some
    <3> QED BY RemoveCachesShape
  <2>6. RemoveCaches(t, more)
          = [caches |-> [u \in Known(t) \ more |-> t.caches[u]],
             priority_map |-> [q \in over |-> t.priority_map[q] \ more]]
    BY RemoveCachesShape
  <2> HIDE DEF some
  <2>7. [u \in Known(some) \ {url} |-> some.caches[u]] = [u \in Known(t) \ more |-> t.caches[u]]
    BY <1>1, <2>3
  <2>8. last = over /\ \A q \in over : some.priority_map[q] \ {url} = t.priority_map[q] \ more
    BY <2>4
  <2> HIDE DEF last, over, more
  <2>9. [q \in last |-> some.priority_map[q] \ {url}] = [q \in over |-> t.priority_map[q] \ more]
    BY <2>8
  <2> QED BY <2>1, <2>5, <2>6, <2>7, <2>9 DEF some, more
<1>3. CASE url \notin Known(some)
  <2>1. RemoveCache(some, url) = some
    BY <1>3 DEF RemoveCache
  <2>2. (urls \cup {url}) \cap Known(t) = urls \cap Known(t)
    BY <1>1, <1>3
  <2>3. RemoveCaches(t, urls \cup {url}) = RemoveCaches(t, (urls \cup {url}) \cap Known(t))
    BY RemoveOnlyKnown
  <2>4. RemoveCaches(t, urls) = RemoveCaches(t, urls \cap Known(t))
    BY RemoveOnlyKnown
  <2> QED BY <2>1, <2>2, <2>3, <2>4
<1> QED BY <1>2, <1>3

LEMMA RemoveNone ==
  ASSUME NEW t, GoodTable(t), t = [caches |-> t.caches, priority_map |-> t.priority_map]
  PROVE  RemoveCaches(t, {}) = t
<1> DEFINE pm == [p \in DOMAIN t.priority_map |-> t.priority_map[p] \ {}]
<1>1. t.priority_map = [p \in DOMAIN t.priority_map |-> t.priority_map[p]]
  BY DEF GoodTable, IsCacheData, IsMap
<1>2. pm = t.priority_map
  <2>1. \A p \in DOMAIN t.priority_map : t.priority_map[p] \ {} = t.priority_map[p]
    OBVIOUS
  <2> QED BY <1>1, <2>1
<1>3. {p \in DOMAIN pm : pm[p] # {}} = DOMAIN t.priority_map
  BY <1>2 DEF GoodTable, Consistent
<1>4. Restrict(t.caches, Known(t) \ {}) = t.caches
  BY DEF GoodTable, IsCacheData, IsMap, Known, Restrict
<1>5. Restrict(pm, DOMAIN t.priority_map) = t.priority_map
  BY <1>1, <1>2 DEF Restrict
<1>6. TakeOut(t, {}) = [caches |-> t.caches, priority_map |-> pm]
  BY <1>4 DEF TakeOut
<1> HIDE DEF pm
<1>7. RemoveCaches(t, {}) = [caches |-> t.caches, priority_map |-> t.priority_map]
  BY <1>3, <1>5, <1>6 DEF RemoveCaches
<1> QED BY <1>7
=============================================================================
