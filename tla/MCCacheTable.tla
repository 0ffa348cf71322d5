---------------------------- MODULE MCCacheTable ----------------------------
(***************************************************************************)
(* Any sequence of calls on a Deduper and a CacheData, as the unit tests   *)
(* of mod.rs make a few of them: URLs come in as values, from the file or  *)
(* the network, and are entered, looked up and removed by their address.   *)
(***************************************************************************)
EXTENDS CacheTable, Dedup, FiniteSetsExt

CONSTANT Values     \* the URLs themselves; Urls are their addresses

ASSUME AddressesAssumption ==
  IsFiniteSet(Values) /\ Urls = 1 .. Cardinality(Values)

MCStrategies == {[type |-> "remove"], [type |-> "timeout", for |-> 2]}

VARIABLES table, values

callVars == <<table, values>>

CallsInit == table = EmptyTable /\ values = NoValues

CallInsert(p, s, url) ==
  LET unique == GetOrInsert(values, url)
  IN  /\ values' = unique.values
      /\ table' = InsertCache(table, p, s, unique.ptr)

CallRemove(u) == table' = RemoveCache(table, u) /\ UNCHANGED values

CallReport(u) == table' = ApplyErrorStrategy(table, u) /\ UNCHANGED values

CallsNext ==
  \/ \E url \in Values, p \in Priorities, s \in MCStrategies : CallInsert(p, s, url)
  \/ \E u \in DOMAIN values : CallRemove(u) \/ CallReport(u)
  \/ table' = AgeTable(table) /\ UNCHANGED values

CallsSpec == CallsInit /\ [][CallsNext]_callVars

-----------------------------------------------------------------------------
(* The two indexes of the table never disagree, whatever insert_cache,     *)
(* remove and error handling are called with: the "Invalid state" panics   *)
(* (mod.rs:77, 103) and the unwrap of get_meta (mod.rs:142) are never hit. *)
TableConsistent == Consistent(table)

(* A URL is in the table once, however often and from wherever it was      *)
(* entered: the table is keyed by addresses, so that two of them for one   *)
(* URL would be two caches with strategies and timeouts of their own       *)
(* (dedup.rs:31-55, 75; mod.rs:251, 353).                                  *)
OneEntryPerUrl == \A u, v \in Known(table) : values[u] = values[v] => u = v

(* insert_cache on a known cache may move it, but never forgets that it is *)
(* timed out nor how it is to be treated on an error, and touches no other *)
(* cache (mod.rs:71-96).                                                   *)
InsertKeepsTheRest ==
  \A u \in Urls, p \in Priorities, s \in MCStrategies :
    LET t == InsertCache(table, p, s, u)
    IN  /\ Known(t) = Known(table) \cup {u}
        /\ t.caches[u].priority = p
        /\ \A v \in Known(table) :
             /\ t.caches[v].error_strategy = table.caches[v].error_strategy
             /\ t.caches[v].timed_out_until = table.caches[v].timed_out_until
             /\ v # u => t.caches[v].priority = table.caches[v].priority

(* Removing the drained local caches gives the same table in any order:    *)
(* RemoveCaches is the fold of RemoveCache (mod.rs:330-333).               *)
BatchRemoveIsLoop ==
  \A us \in SUBSET Urls :
    RemoveCaches(table, us) = FoldSet(LAMBDA u, t : RemoveCache(t, u), table, us)
=============================================================================
