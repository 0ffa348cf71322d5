------------------------------ MODULE PeerList ------------------------------
(***************************************************************************)
(* The abstract specification of the manager of                            *)
(* src/binary_cache_proxy/mod.rs, as those see it who send to it: what is  *)
(* on its list follows from the file it was configured by, the events it   *)
(* was sent by the discover task, and the reports of the requests, each    *)
(* taken once and in order, by the operations of Peers.  There are no      *)
(* timers, no priorities and no handler that waits.                        *)
(***************************************************************************)
EXTENDS Peers, Sequences

CONSTANTS
  Urls, Event,
  InFile,           \* the URLs of the configured caches
  RemovedOnError,   \* those of them whose error strategy is to be removed
  ForgetsBad        \* is that the strategy of local caches?

VARIABLES
  peers,        \* the batch, the record of hosts and the list
  loading,      \* the file is being read
  configured,   \* the URLs that are listed because of the file
  events,       \* events on their way to the manager
  reports       \* reports on their way to the manager

peersVars == <<peers, loading, configured, events, reports>>

PeersInit ==
  /\ peers = NoPeers
  /\ loading = TRUE /\ configured = {}
  /\ events = <<>> /\ reports = <<>>

Load(url) ==
  /\ loading
  /\ peers' = Configure(peers, url)
  /\ configured' = configured \cup {url}
  /\ UNCHANGED <<loading, events, reports>>

Loaded ==
  /\ loading /\ configured = InFile
  /\ loading' = FALSE
  /\ UNCHANGED <<peers, configured, events, reports>>

Land ==
  /\ ~loading
  /\ peers' \in Landed(peers)
  /\ UNCHANGED <<loading, configured, events, reports>>

(* No event touches what is listed because of the file.                    *)
TakeEvent ==
  /\ ~loading /\ events # <<>>
  /\ LET event == Head(events)
     IN  \/ /\ event.type = "adv"
            /\ peers' = Heard(peers, event.source_ip, event.binary_cache_url)
         \/ event.type = "goodbye" /\ peers' = Gone(peers, event.source_ip)
         \/ event.type = "network_changed" /\ peers' = Forgotten(peers)
  /\ events' = Tail(events)
  /\ UNCHANGED <<loading, configured, reports>>

Removes(url) ==
  /\ url \in peers.known
  /\ IF url \in configured THEN url \in RemovedOnError ELSE ForgetsBad

(* A cache that is only skipped for a while stays on the list.             *)
TakeReport ==
  /\ ~loading /\ reports # <<>>
  /\ LET removed == {Head(reports)} \cap {u \in Urls : Removes(u)}
     IN  /\ peers' = Dropped(peers, removed)
         /\ configured' = configured \ removed
  /\ reports' = Tail(reports)
  /\ UNCHANGED <<loading, events>>

(* The discover task and the requests.                                     *)
Tell ==
  /\ \E event \in Event : events' = Append(events, event)
  /\ UNCHANGED <<peers, loading, configured, reports>>

Report ==
  /\ ~loading
  /\ \E url \in Urls : reports' = Append(reports, url)
  /\ UNCHANGED <<peers, loading, configured, events>>

PeersNext ==
  \/ \E url \in InFile : Load(url)
  \/ Loaded \/ Land \/ TakeEvent \/ TakeReport \/ Tell \/ Report

PeersSpec == PeersInit /\ [][PeersNext]_peersVars
=============================================================================
