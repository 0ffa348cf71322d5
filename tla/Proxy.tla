------------------------------- MODULE Proxy -------------------------------
(***************************************************************************)
(* The HTTP handler `proxy` of src/binary_cache_proxy/mod.rs, for any      *)
(* number of concurrent requests.  A request takes a snapshot of the table *)
(* of caches and goes through its buckets in the order of their priority:  *)
(* it asks every cache of a bucket at once, answers with the first hit,    *)
(* and moves on when the deadline of the bucket passes.  Caches that fail  *)
(* are reported to the manager over a channel of capacity 1 that all       *)
(* requests share, and the handler waits there until there is room.        *)
(*                                                                         *)
(* The manager is here its effect on the table: it applies the error       *)
(* strategy of a reported cache, learns local caches and forgets them.     *)
(***************************************************************************)
EXTENDS CacheTable, Sequences, FiniteSetsExt

CONSTANTS
  Requests,         \* the requests, each made once
  PriorityTimeout,  \* config.priority_config: priority -> timeout
  DefaultTimeout,   \* config.default_cache_timeout
  InitTable,        \* the table of the configured caches
  LocalStrategy     \* what happens to a local cache on an error

ASSUME ProxyAssumption ==
  /\ IsMap(PriorityTimeout, Priorities, Nat) /\ DefaultTimeout \in Nat
  /\ IsCacheData(InitTable) /\ Consistent(InitTable)
  /\ LocalStrategy \in ErrorStrategy
  /\ 0 \in Priorities

VARIABLES
  table,      \* server.caches
  req,        \* the local variables of each handler
  manage,     \* the channel to the manager, capacity 1
  managed     \* is there a manager, i.e. config.local_binary_caches?

proxyVars == <<table, req, manage, managed>>

TimeoutOf(p) == IF p \in DOMAIN PriorityTimeout THEN PriorityTimeout[p]
                                                ELSE DefaultTimeout

(* Where a handler can be: not started, about to try a bucket, in the      *)
(* select! loop, sending a failed cache, sending the late ones, finished.  *)
Phases == {"idle", "next", "wait", "report", "deadline", "done"}

Idle == [phase |-> "idle", snapshot |-> EmptyTable, todo |-> {},
         waiting_for |-> {}, in_flight |-> {}, timeout |-> 0,
         failed |-> {},      \* the cache being reported
         asked |-> {},       \* history: asked in this bucket
         answered |-> {}]    \* history: of these, answered without a hit

Done == [Idle EXCEPT !.phase = "done"]

ProxyTypeOK ==
  /\ IsCacheData(table)
  /\ manage \in Seq(Urls) /\ Len(manage) <= 1 /\ managed \in BOOLEAN
  /\ DOMAIN req = Requests
  /\ \A r \in Requests :
       /\ req[r].phase \in Phases
       /\ IsCacheData(req[r].snapshot)
       /\ req[r].todo \subseteq Priorities
       /\ req[r].timeout \in Nat
       /\ \A urls \in {req[r].waiting_for, req[r].in_flight, req[r].failed,
                       req[r].asked, req[r].answered} : urls \subseteq Urls

ProxyInit ==
  /\ table = InitTable
  /\ req = [r \in Requests |-> Idle]
  /\ manage = <<>>
  /\ managed \in BOOLEAN

-----------------------------------------------------------------------------
Becomes(r, local) == req' = [req EXCEPT ![r] = local]

Arrive(r) ==
  /\ req[r].phase = "idle"
  /\ Becomes(r, [req[r] EXCEPT !.phase = "next", !.snapshot = table,
                               !.todo = DOMAIN table.priority_map])
  /\ UNCHANGED <<table, manage, managed>>

(* Bucket p is tried: every cache in it that is not timed out is asked,    *)
(* and the whole bucket is waited for.                                     *)
AskBucket(r, p) ==
  /\ LET snapshot == req[r].snapshot
         bucket   == snapshot.priority_map[p]
         ask      == {u \in bucket : snapshot.caches[u].timed_out_until = 0}
     IN  Becomes(r, [req[r] EXCEPT !.phase = "wait", !.todo = @ \ {p},
                                   !.waiting_for = bucket, !.in_flight = ask,
                                   !.timeout = TimeoutOf(p),
                                   !.asked = ask, !.answered = {}])
  /\ UNCHANGED <<table, manage, managed>>

HasBucket(r) == req[r].phase = "next" /\ req[r].todo # {}

(* Mutant: any of the buckets left is tried next.                          *)
TryAnyBucket(r) == HasBucket(r) /\ \E p \in req[r].todo : AskBucket(r, p)

TryBucket(r) == HasBucket(r) /\ AskBucket(r, Min(req[r].todo))

NotFound(r) ==
  /\ req[r].phase = "next" /\ req[r].todo = {}
  /\ Becomes(r, Done)
  /\ UNCHANGED <<table, manage, managed>>

(* The select! loop.  requests.next() is ready with an answer, ...         *)
Hit(r, url) ==
  /\ req[r].phase = "wait" /\ url \in req[r].in_flight
  /\ Becomes(r, Done)
  /\ UNCHANGED <<table, manage, managed>>

Missed(r, url, waiting_for, phase, failed) ==
  /\ req[r].phase = "wait" /\ url \in req[r].in_flight
  /\ Becomes(r, [req[r] EXCEPT !.phase = phase, !.waiting_for = waiting_for,
                               !.in_flight = @ \ {url}, !.failed = failed,
                               !.answered = @ \cup {url}])
  /\ UNCHANGED <<table, manage, managed>>

(* Mutant: a cache that has answered is still waited for.                  *)
BadStatusWaited(r, url) == Missed(r, url, req[r].waiting_for, "wait", {})

BadStatus(r, url) == Missed(r, url, req[r].waiting_for \ {url}, "wait", {})

FetchError(r, url) ==
  IF managed THEN Missed(r, url, req[r].waiting_for \ {url}, "report", {url})
             ELSE BadStatus(r, url)

SleepOver(r) ==
  /\ req[r].phase = "wait" /\ req[r].timeout = 0
  /\ Becomes(r, [req[r] EXCEPT !.phase = "deadline", !.in_flight = {}])
  /\ UNCHANGED <<table, manage, managed>>

(* Mutant: the handler waits until all have answered.                      *)
DeadlineIfAnswered(r) == req[r].in_flight = {} /\ SleepOver(r)

(* ... or the sleep is over.  Its pattern always matches, so the `else`    *)
(* arm is never taken, not even once all have answered.                    *)
Deadline(r) == SleepOver(r)

FailedSent(r, channel) ==
  /\ req[r].phase = "report"
  /\ manage' = channel
  /\ Becomes(r, [req[r] EXCEPT !.phase = "wait", !.failed = {}])
  /\ UNCHANGED <<table, managed>>

(* Mutant: the channel has no bound.                                       *)
SendFailedUnbounded(r) == \E url \in req[r].failed : FailedSent(r, Append(manage, url))

(* `tx.send(cache).await` inside the loop; the sleep goes on meanwhile.    *)
SendFailed(r) == manage = <<>> /\ \E url \in req[r].failed : FailedSent(r, <<url>>)

(* After the loop: what did not answer in time, one cache at a time.       *)
SendLate(r) ==
  /\ req[r].phase = "deadline" /\ managed /\ manage = <<>>
  /\ \E url \in req[r].waiting_for :
       /\ manage' = <<url>>
       /\ Becomes(r, [req[r] EXCEPT !.waiting_for = @ \ {url}])
  /\ UNCHANGED <<table, managed>>

BucketDone(r) ==
  /\ req[r].phase = "deadline"
  /\ managed => req[r].waiting_for = {}
  /\ Becomes(r, [req[r] EXCEPT !.phase = "next"])
  /\ UNCHANGED <<table, manage, managed>>

(* The client goes away, and the handler is dropped where it awaits.       *)
Disconnect(r) ==
  /\ req[r].phase \in {"wait", "report", "deadline"}
  /\ Becomes(r, Done)
  /\ UNCHANGED <<table, manage, managed>>

Handle(r) ==
  \/ TryBucket(r) \/ NotFound(r) \/ Deadline(r)
  \/ SendFailed(r) \/ SendLate(r) \/ BucketDone(r)

Answer(r) == \E url \in Urls : Hit(r, url) \/ BadStatus(r, url) \/ FetchError(r, url)

-----------------------------------------------------------------------------
(* The manager.                                                            *)
TakeReport ==
  /\ manage # <<>>
  /\ table' = ApplyErrorStrategy(table, Head(manage))
  /\ manage' = <<>>
  /\ UNCHANGED <<req, managed>>

Learn ==
  /\ managed
  /\ \E urls \in SUBSET (Urls \ Known(table)) :
       table' = InsertNewCaches(table, 0, LocalStrategy, urls)
  /\ UNCHANGED <<req, manage, managed>>

(* What it forgets it has learned, with priority 0 and its own strategy.   *)
Forget ==
  /\ managed
  /\ \E urls \in SUBSET Known(table) :
       /\ \A u \in urls : /\ table.caches[u].priority = 0
                          /\ table.caches[u].error_strategy = LocalStrategy
       /\ table' = RemoveCaches(table, urls)
  /\ UNCHANGED <<req, manage, managed>>

(* A tick of time, for every timeout.                                      *)
ProxyTick ==
  /\ table' = AgeTable(table)
  /\ req' = [r \in Requests |->
               [req[r] EXCEPT !.snapshot = AgeTable(@),
                              !.timeout = IF @ > 0 THEN @ - 1 ELSE @]]
  /\ UNCHANGED <<manage, managed>>

ProxyNext ==
  \/ \E r \in Requests : Arrive(r) \/ Handle(r) \/ Answer(r) \/ Disconnect(r)
  \/ TakeReport \/ Learn \/ Forget \/ ProxyTick

ProxySpec == ProxyInit /\ [][ProxyNext]_proxyVars

(* The runtime polls every handler that can go on, lets senders into the   *)
(* channel in the order they came, and time passes.  No cache has to       *)
(* answer, and nothing is assumed of the manager.                          *)
FairProxySpec ==
  /\ ProxySpec
  /\ WF_proxyVars(ProxyTick)
  /\ \A r \in Requests :
       /\ WF_proxyVars(TryBucket(r) \/ NotFound(r) \/ BucketDone(r))
       /\ WF_proxyVars(Deadline(r))
       /\ SF_proxyVars(SendFailed(r) \/ SendLate(r))

-----------------------------------------------------------------------------
(* A hit comes from the best bucket that is left: a cache is only asked    *)
(* when every bucket of a better priority has had its time (mod.rs:133).   *)
HitIsBest ==
  [][\A r \in Requests, u \in Urls :
       Hit(r, u) => \A q \in req[r].todo : req[r].snapshot.caches[u].priority < q]_proxyVars

(* What the handler reports at the deadline of a bucket is in that bucket  *)
(* and has not answered: no answer that raced the deadline, and no cache   *)
(* of an earlier bucket, is held against a cache (mod.rs:136, 182, 211).   *)
LateIsSilent ==
  \A r \in Requests :
    req[r].phase = "deadline" =>
      /\ req[r].waiting_for \cap req[r].answered = {}
      /\ \A u, v \in req[r].waiting_for \cup req[r].asked :
           req[r].snapshot.caches[u].priority = req[r].snapshot.caches[v].priority

(* What is reported as having exceeded its deadline was asked:             *)
(* "Cache response exceeded deadline" (mod.rs:212).  It was not, if it was *)
(* skipped for being timed out (mod.rs:136-148).                           *)
LateWasAsked ==
  \A r \in Requests :
    req[r].phase = "deadline" => req[r].waiting_for \subseteq req[r].asked

(* Every request ends, whatever the caches do, unless the manager stops    *)
(* taking reports: then the handlers wait for it without any deadline      *)
(* (mod.rs:178, 194, 214).                                                 *)
RequestsEnd ==
  \/ <>[](manage # <<>>)
  \/ \A r \in Requests : req[r].phase # "idle" ~> req[r].phase = "done"
=============================================================================
