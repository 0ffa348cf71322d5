------------------------------ MODULE MCServer ------------------------------
(***************************************************************************)
(* A server with one configured cache c and one request, and a host on the *)
(* network that advertises a.                                              *)
(***************************************************************************)
EXTENDS Server

CONSTANTS a, c, h1

MCRemove  == [type |-> "remove"]
MCTimeOut == [type |-> "timeout", for |-> 1]

MCOneCache == << [url |-> c, priority |-> 40, error_strategy |-> MCTimeOut] >>

MCOneHost == {<<h1, a>>}

MCTimeouts == [p \in {0} |-> 1]
=============================================================================
