------------------------------- MODULE Dedup -------------------------------
(***************************************************************************)
(* Deduper of src/binary_cache_proxy/dedup.rs: it gives every value one    *)
(* allocation, so that values can be hashed, ordered and compared by their *)
(* address.  `values` is the allocations in the order they were made, an   *)
(* address is an index of it; none is ever freed or used again.            *)
(***************************************************************************)
EXTENDS Naturals, Sequences

NoValues == <<>>

(* get_or_insert(value) of a Deduper: its result `ptr`, and what it leaves.*)
Allocate(values, value) ==
  [values |-> Append(values, value), ptr |-> Len(values) + 1]

GetOrInsert(values, value) ==
  IF \E ptr \in DOMAIN values : values[ptr] = value
  THEN [values |-> values, ptr |-> CHOOSE ptr \in DOMAIN values : values[ptr] = value]
  ELSE Allocate(values, value)
=============================================================================
