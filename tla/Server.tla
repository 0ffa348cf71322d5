------------------------------- MODULE Server -------------------------------
(***************************************************************************)
(* Server::new of src/binary_cache_proxy/mod.rs as a whole: the manager    *)
(* and the requests, which read the table that it publishes and report to  *)
(* it over the channel of capacity 1.  Each takes the place of what the    *)
(* module of the other one assumes of it.                                  *)
(***************************************************************************)
EXTENDS CacheManager

CONSTANTS Requests, PriorityTimeout, DefaultTimeout   \* see Proxy

VARIABLE req

serverVars == <<vars, req>>

(* The table after i of the configured caches, and after all of them, with *)
(* which the server is built.                                              *)
TableAfter[i \in 0 .. Len(BinaryCaches)] ==
  IF i = 0 THEN EmptyTable
  ELSE LET host == BinaryCaches[i]
       IN  InsertCache(TableAfter[i - 1], host.priority, host.error_strategy, host.url)

ConfiguredTable == TableAfter[Len(BinaryCaches)]

(* There are local_binary_caches here, and thus a manager.                 *)
HasManager == manager \in {"load", "select", "arm", "request"}

P == INSTANCE Proxy WITH
  table     <- IF manager = "load" THEN ConfiguredTable ELSE table,
  manage    <- reports,
  managed   <- HasManager,
  InitTable <- ConfiguredTable

ServerInit == Init /\ req = [r \in Requests |-> P!Idle]

RequestStep(step) ==
  /\ manager # "load"
  /\ UNCHANGED <<managerVars, timerVars, events, requests, discover_up, cancelled>>
  /\ step

Request(r) ==
  RequestStep(P!Arrive(r) \/ P!Handle(r) \/ P!Answer(r) \/ P!Disconnect(r))

OtherStep ==
  /\ ManagerNext \/ TimerTask
     \/ EnvEvent \/ EnvTakeRequest \/ EnvCancel \/ EnvDiscoverEnds
  /\ UNCHANGED req

(* Time passes for the manager and for the requests.                       *)
ServerTick == Tick /\ P!ProxyTick

ServerNext == OtherStep \/ ServerTick \/ \E r \in Requests : Request(r)

ServerSpec == ServerInit /\ [][ServerNext]_serverVars

-----------------------------------------------------------------------------
(* To the manager the requests do only what CacheManager expects: they     *)
(* report, one at a time, caches that are or were in the table, however    *)
(* old the table is that they work on (mod.rs:126, 194, 214, 308).         *)
ManagerSpec == Spec

(* To the requests the manager does only what Proxy expects of it: it      *)
(* treats a cache they reported, adds unknown ones at priority 0, and      *)
(* removes none that is not a local cache (mod.rs:295-346).                *)
RequestsSpec == P!ProxySpec
=============================================================================
