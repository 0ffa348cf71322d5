------------------------------- MODULE MCLan -------------------------------
(***************************************************************************)
(* Two nodes, one of which advertises a URL or a port and the other a      *)
(* port, and an address that neither of them has.                          *)
(***************************************************************************)
EXTENDS Lan

CONSTANTS n1, n2, other, k1, k2, u1

MCUrlCache  == [advertise |-> "url", url |-> u1]
MCIpCache   == [advertise |-> "ip", port |-> 8080]
MCCaches == {MCUrlCache, MCIpCache}

MCUrlAt(cache, ip) == IF cache.advertise = "url" THEN cache.url ELSE <<ip, cache.port>>

(* The URL of n1 is too long for the buffer of a receiver.                 *)
MCSizeOf == [c \in MCCaches |-> IF c = MCUrlCache THEN 1500 ELSE 200]

MCNode(cache, public, private, clock) ==
  [local_cache |-> {cache}, public_keys |-> public, private_key |-> private,
   clock |-> clock]

MCPair(cache, trusted, ahead) ==
  [n \in Nodes |-> IF n = n1 THEN MCNode(cache, trusted, {k1}, 0)
                             ELSE MCNode(MCIpCache, {k1, k2}, {k2}, ahead)]

(* Clocks half a second apart; n1 does not trust n2; the URL; clocks too   *)
(* far apart to meet.                                                      *)
MCSettings == {MCPair(MCIpCache, {k1, k2}, 1), MCPair(MCIpCache, {k1}, 0),
               MCPair(MCUrlCache, {k1, k2}, 0), MCPair(MCIpCache, {k1, k2}, 5)}

MCMeetSettings == {MCPair(MCIpCache, {k1, k2}, 1)}

(* Two faults, without delay, and one datagram that is late.               *)
MCBound(k, halves, f, r) == [in_flight |-> k, age |-> halves, faults |-> f, relays |-> r]
MCBounds     == {MCBound(2, 0, 2, 1), MCBound(1, 3, 2, 0)}
MCMeetBounds == {MCBound(2, 0, 2, 0)}
=============================================================================
