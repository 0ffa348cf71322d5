------------------------------ MODULE MCProxy ------------------------------
(***************************************************************************)
(* Two requests and three caches: c and d are configured, in one bucket,   *)
(* c to be removed on an error and d to be timed out; a is a local cache.  *)
(***************************************************************************)
EXTENDS Proxy, TLC

CONSTANTS a, c, d, r1, r2

MCTimeOut == [type |-> "timeout", for |-> 2]
MCRemove  == [type |-> "remove"]

MCTable ==
  InsertCache(InsertCache(EmptyTable, 40, MCRemove, c), 40, MCTimeOut, d)

(* Only the cache that times out, for the run on liveness.                 *)
MCSmallTable == InsertCache(EmptyTable, 40, MCTimeOut, d)

(* The two caches of it in buckets of their own, for a node on its own.    *)
MCTwoBuckets == InsertCache(MCSmallTable, 0, MCRemove, a)

MCTimeouts == [p \in {0} |-> 1]

MCSymmetry == Permutations({r1, r2})
=============================================================================
