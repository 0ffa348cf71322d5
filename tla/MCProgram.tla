----------------------------- MODULE MCProgram -----------------------------
(***************************************************************************)
(* A node that knows no cache but hears of one from a single other host.   *)
(***************************************************************************)
EXTENDS Program

CONSTANTS a, h1, me

MCRemove == [type |-> "remove"]

MCNoCaches == <<>>

MCOneHost == {<<h1, a>>}

InSetting(closes, repeats, n, m, k) ==
  [closes |-> closes, repeats |-> repeats, datagrams |-> n, changes |-> m, handlers |-> k]

(* For safety; for the circular wait, which takes two datagrams; and for   *)
(* liveness, one without end of network changes and one of Advs.           *)
MCAny   == {InSetting(TRUE, FALSE, 2, 1, 1)}
MCTwo   == {InSetting(FALSE, FALSE, 2, 0, 1)}
MCNever == {InSetting(TRUE, FALSE, 1, 0, 1), InSetting(FALSE, TRUE, 0, 0, 0)}
=============================================================================
