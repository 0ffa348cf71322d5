----------------------------- MODULE CacheTable -----------------------------
(***************************************************************************)
(* CacheData of src/binary_cache_proxy/mod.rs: the table of known binary   *)
(* caches.  The same set of caches is held twice, by URL (`caches`, with   *)
(* the metadata of each) and by priority (`priority_map`, the buckets the  *)
(* proxy tries in order), and every operation has to update both.          *)
(*                                                                         *)
(* The operators are pure: they take a table and return a table, as        *)
(* the manager task does (it clones, edits and stores the clone).  A URL   *)
(* stands for a Unique<Url>: the Deduper interns every URL, so that equal  *)
(* URLs are equal pointers.                                                *)
(***************************************************************************)
EXTENDS Naturals, Functions

CONSTANTS
  Urls,        \* the URLs of binary caches
  Priorities   \* the priorities in use, some of the 256 values of a u8

ASSUME PrioritiesAssumption == Priorities \subseteq 0 .. 255

-----------------------------------------------------------------------------
(* What happens to a cache that failed: it is removed, or skipped for a    *)
(* number of ticks.                                                        *)
ErrorStrategy == [type : {"remove"}] \cup [type : {"timeout"}, for : Nat]

(* timed_out_until is an Option<Instant> in the code.  Here it is the      *)
(* number of ticks until that instant, and 0 stands both for None and for  *)
(* an instant that has passed: the only reader, `timed_out_until > now`,   *)
(* does not tell these apart.                                              *)
CacheMeta == [priority : Priorities, error_strategy : ErrorStrategy,
              timed_out_until : Nat]

IsMap(f, S, T) == DOMAIN f \subseteq S /\ f \in [DOMAIN f -> T]

IsCacheData(t) == /\ IsMap(t.caches, Urls, CacheMeta)
                  /\ IsMap(t.priority_map, Priorities, SUBSET Urls)

NoCaches == [x \in {} |-> x]

EmptyTable == [caches |-> NoCaches, priority_map |-> NoCaches]

-----------------------------------------------------------------------------
Known(t) == DOMAIN t.caches

Bucket(pm, p) == IF p \in DOMAIN pm THEN pm[p] ELSE {}

(* `priority_map.entry(p).or_default().insert(..)` for each of urls.       *)
JoinBucket(pm, p, urls) ==
  [q \in DOMAIN pm \cup {p} |-> IF q = p THEN Bucket(pm, p) \cup urls ELSE pm[q]]

(* Mutant: an emptied bucket stays in the map.                             *)
LeaveBucketEmpty(pm, p, url) == [pm EXCEPT ![p] = pm[p] \ {url}]

(* Take a URL out of bucket p, and the bucket out of the map if that       *)
(* empties it.                                                             *)
LeaveBucket(pm, p, url) ==
  LET left == pm[p] \ {url}
  IN  IF left = {} THEN Restrict(pm, DOMAIN pm \ {p})
                   ELSE [pm EXCEPT ![p] = left]

(* Enter each of urls as a new cache.                                      *)
EnterCaches(t, priority, error_strategy, urls) ==
  [caches |-> [u \in Known(t) \cup urls |->
                 IF u \in urls
                 THEN [priority |-> priority, error_strategy |-> error_strategy,
                       timed_out_until |-> 0]
                 ELSE t.caches[u]],
   priority_map |-> JoinBucket(t.priority_map, priority, urls)]

(* Mutant: a cache seen before is entered anew, the old bucket keeps it.   *)
InsertCacheAnew(t, priority, error_strategy, url) ==
  EnterCaches(t, priority, error_strategy, {url})

(* A cache seen before keeps its error strategy and its timeout, only its  *)
(* priority can change.                                                    *)
InsertCache(t, priority, error_strategy, url) ==
  IF url \in Known(t)
  THEN IF t.caches[url].priority = priority
       THEN t
       ELSE [caches |-> [t.caches EXCEPT ![url].priority = priority],
             priority_map |->
               JoinBucket(LeaveBucket(t.priority_map, t.caches[url].priority, url),
                          priority, {url})]
  ELSE EnterCaches(t, priority, error_strategy, {url})

RemoveCache(t, url) ==
  IF url \in Known(t)
  THEN [caches |-> Restrict(t.caches, Known(t) \ {url}),
        priority_map |-> LeaveBucket(t.priority_map, t.caches[url].priority, url)]
  ELSE t

(* The cache is skipped for the next d ticks.                              *)
TimeOutCache(t, url, d) == [t EXCEPT !.caches[url].timed_out_until = d]

(* What the manager does with a cache the proxy reported as bad.           *)
ApplyErrorStrategy(t, url) ==
  IF url \notin Known(t) THEN t
  ELSE IF t.caches[url].error_strategy.type = "remove"
       THEN RemoveCache(t, url)
       ELSE TimeOutCache(t, url, t.caches[url].error_strategy.for)

-----------------------------------------------------------------------------
(* The two loops of the manager, each as one operator: a batch of unknown  *)
(* caches inserted at one priority, and a set of caches removed.           *)
InsertNewCaches(t, priority, error_strategy, urls) ==
  IF urls = {} THEN t ELSE EnterCaches(t, priority, error_strategy, urls)

(* Also the mutant in which emptied buckets stay in the map.               *)
TakeOut(t, urls) ==
  [caches |-> Restrict(t.caches, Known(t) \ urls),
   priority_map |-> [p \in DOMAIN t.priority_map |-> t.priority_map[p] \ urls]]

RemoveCaches(t, urls) ==
  LET pm == TakeOut(t, urls).priority_map
  IN  [TakeOut(t, urls) EXCEPT
         !.priority_map = Restrict(pm, {p \in DOMAIN pm : pm[p] # {}})]

(* One tick of time, for every cache that is being skipped.                *)
AgeTable(t) ==
  [t EXCEPT !.caches = [u \in Known(t) |->
     [t.caches[u] EXCEPT !.timed_out_until = IF @ = 0 THEN 0 ELSE @ - 1]]]

-----------------------------------------------------------------------------
(* The two halves of the table agree: every cache is in the bucket of its  *)
(* priority and in no other, every bucket holds known caches only, and no  *)
(* bucket is empty.  `expect("Invalid state")` in insert_cache and remove, *)
(* and the unwrap of get_meta in the proxy, fail when this does not hold.  *)
Consistent(t) ==
  /\ \A u \in Known(t) : u \in Bucket(t.priority_map, t.caches[u].priority)
  /\ \A p \in DOMAIN t.priority_map :
       /\ t.priority_map[p] # {}
       /\ \A u \in t.priority_map[p] : u \in Known(t) /\ t.caches[u].priority = p
=============================================================================
