--------------------------- MODULE MCCacheManager ---------------------------
(***************************************************************************)
(* The manager with up to two hosts on the network.  c is configured twice,*)
(* as a file may do by mistake; the first entry counts for what happens on *)
(* an error, the second one for the priority.                              *)
(***************************************************************************)
EXTENDS CacheManager

CONSTANTS a, b, c, h1, h2

MCRemove  == [type |-> "remove"]
MCTimeOut == [type |-> "timeout", for |-> 1]

MCBinaryCaches == <<
  [url |-> c, priority |-> 40, error_strategy |-> MCRemove],
  [url |-> c, priority |-> 30, error_strategy |-> MCTimeOut] >>

(* h1 serves a; h2 advertises, by a URL, the configured cache c.           *)
MCOneEach == {<<h1, a>>, <<h2, c>>}

(* No configured caches: what is found is what there is.                   *)
MCNoCaches == <<>>

(* One host with one cache.                                                *)
MCOneHost == {<<h1, a>>}

=============================================================================
