------------------------------- MODULE Peers -------------------------------
(***************************************************************************)
(* What the manager of src/binary_cache_proxy/mod.rs promises about the    *)
(* caches of other hosts, whatever its tasks, timers and channels do: an   *)
(* advertised cache is held back for a while, is then listed and put on    *)
(* record for its host unless it is listed already, and is taken off the   *)
(* list when that host says goodbye, when the network changes, or when a   *)
(* request found it to be bad.  A record p holds the batch, the record of  *)
(* hosts and the list: [batch, local_caches, known].                       *)
(***************************************************************************)
EXTENDS Functions

NoPeers == [batch |-> [u \in {} |-> u], local_caches |-> [ip \in {} |-> ip], known |-> {}]

Configure(p, url) == [p EXCEPT !.known = @ \cup {url}]

HoldBack(p, key, value) ==
  [p EXCEPT !.batch = [u \in DOMAIN @ \cup {key} |-> IF u = key THEN value ELSE @[u]]]

(* Mutant: the host and the URL are swapped.                               *)
HeardSwapped(p, ip, url) == HoldBack(p, ip, url)

Heard(p, ip, url) == HoldBack(p, url, ip)

(* Of several new caches of one host, any may be the one on record.        *)
Landed(p) ==
  LET new   == DOMAIN p.batch \ p.known
      hosts == {p.batch[u] : u \in new}
  IN  {[batch |-> NoPeers.batch,
        known |-> p.known \cup new,
        local_caches |-> [ip \in DOMAIN p.local_caches \cup hosts |->
                            IF ip \in hosts THEN last[ip] ELSE p.local_caches[ip]]] :
       last \in {f \in [hosts -> new] : \A ip \in hosts : p.batch[f[ip]] = ip}}

(* What is on record for some hosts goes, with the entries of the list.    *)
Strike(p, ips, urls) ==
  [p EXCEPT !.known = @ \ urls, !.local_caches = Restrict(@, DOMAIN @ \ ips)]

(* Mutant: the host is struck off the record only.                         *)
GoneKept(p, ip) == Strike(p, {ip}, {})

(* The batch is not looked at: what it holds of the host still lands.      *)
Gone(p, ip) == Strike(p, {ip}, {p.local_caches[h] : h \in {ip} \cap DOMAIN p.local_caches})

Forgotten(p) == Strike(p, DOMAIN p.local_caches, Range(p.local_caches))

(* The record of hosts is not looked at.                                   *)
Dropped(p, urls) == Strike(p, {}, urls)

=============================================================================
