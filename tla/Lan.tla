-------------------------------- MODULE Lan --------------------------------
(***************************************************************************)
(* Several nodes on one local network.  Each one is its discover task (the *)
(* Req, Adv and Goodbye packets of src/discover/mod.rs), as far as it      *)
(* meets the network, and its manager as Peers has it; of what is between  *)
(* the two, the subject of Node, only their circular wait is here.  A      *)
(* datagram received and handled later is here one received later.         *)
(*                                                                         *)
(* A broadcast is one datagram for each of the others that are up.  The    *)
(* network may lose each of them, deliver it late, out of order and more   *)
(* than once, and pass a copy on from another address: a signature covers  *)
(* the packet, not the address it comes from.  Nodes stop with or without  *)
(* saying goodbye, and start again.  Their clocks run at one speed and are *)
(* apart by a constant.  Time is in halves of a second, packets are        *)
(* stamped in whole ones.                                                  *)
(***************************************************************************)
EXTENDS Wire, Peers, FiniteSetsExt

CONSTANTS
  Nodes,         \* the nodes, by the address each has
  Addresses,     \* all addresses of the network, those of the nodes among them
  Settings,      \* how the nodes may be configured, see Setting
  UrlAt(_, _),   \* the URL of a cache advertised from an address
  Bounds         \* how much may go on in a behaviour, see Bound

Option(S) == {{}} \cup {{x} : x \in S}

(* local_cache and public_keys of the file, NIX_STORE_PRIVATE_KEY, and how *)
(* far the clock of the host is ahead of time, for each node.              *)
Setting == [Nodes -> [local_cache : Option(LocalCaches), public_keys : SUBSET Keys,
                      private_key : Option(Keys), clock : Nat]]

(* How many datagrams are in flight, how long each is delayed, how often   *)
(* nodes stop, get stuck or change their network or a packet is passed on, *)
(* and by how many addresses.                                              *)
Bound == [in_flight : Nat, age : Nat, faults : Nat, relays : Nat]

ASSUME LanAssumption ==
  /\ Nodes \subseteq Addresses /\ IsFiniteSet(Addresses)
  /\ \A s \in Settings : s \in Setting
  /\ \A b \in Bounds : b \in Bound

VARIABLES
  config,   \* the setting of this behaviour
  bound,    \* its bounds
  up,       \* the nodes that run
  peers,    \* what the manager of each has
  asking,   \* the nodes whose manager has told them to broadcast a Req
  stuck,    \* those of them whose manager and discover task wait for each other
  spared,   \* the nodes that heard an Adv since their interval was due
  net,      \* datagrams in flight
  half,     \* in the second half of a second?
  faults,   \* faults so far
  told,     \* history: <<n, a>>, a goodbye is the last that n took from a
  relayed   \* history: <<h, a>>, a packet of h was passed on from a

lanVars == <<config, bound, up, peers, asking, stuck, spared, net, half, faults, told, relayed>>

(* Signed with the key of `by`, and from the address that `from` is.       *)
InFlight == [by : Nodes, from : Addresses, to : Nodes, packet : Packet, age : 0 .. bound.age]

LanTypeOK ==
  /\ config \in Settings /\ bound \in Bounds
  /\ up \in SUBSET Nodes /\ asking \in SUBSET up /\ spared \in SUBSET up
  /\ stuck \in SUBSET asking
  /\ net \in SUBSET InFlight /\ Cardinality(net) <= bound.in_flight
  /\ \A n \in Nodes :
       /\ DOMAIN peers[n].local_caches \subseteq Addresses
       /\ Range(peers[n].batch) \subseteq Addresses
  /\ half \in BOOLEAN
  /\ faults \in 0 .. bound.faults
  /\ told \in SUBSET (Nodes \X Addresses) /\ relayed \in SUBSET (Nodes \X Addresses)

LanInit ==
  /\ config \in Settings /\ bound \in Bounds
  /\ up = {} /\ asking = {} /\ stuck = {} /\ spared = {}
  /\ peers = [n \in Nodes |-> NoPeers]
  /\ net = {}
  /\ half = FALSE
  /\ faults = 0
  /\ told = {} /\ relayed = {}

-----------------------------------------------------------------------------
(* run of src/main.rs: the keys of the file and of the environment.        *)
KeyStore(n) == NewKeyStore(config[n].public_keys, config[n].private_key)

(* ... without which it refuses to advertise.                              *)
Refuses(n) == config[n].local_cache # {} /\ ~HasPrivateKey(KeyStore(n))

(* current_timestamp() of n, `age` halves of a second ago.                 *)
Epoch == 1000
Seconds(n, age) == (Epoch + (IF half THEN 1 ELSE 0) + config[n].clock - age) \div 2

(* The datagram that is in flight, and what its receiver makes of it.      *)
Bytes(m) == ToBytes(m.packet, KeyStore(m.by), Seconds(m.by, m.age))

Understood(m) ==
  Parse(Received(Bytes(m), Size(m.packet)), KeyStore(m.to), Seconds(m.to, 0))

(* A packet is sent on every interface; it is lost where one fails, and    *)
(* the interfaces after that get none.  Nothing is sent if it cannot be    *)
(* signed.                                                                 *)
Copies(n, packet) ==
  IF IsDatagram(ToBytes(packet, KeyStore(n), 0))
  THEN {[by |-> n, from |-> n, to |-> m, packet |-> packet, age |-> 0] : m \in up \ {n}}
  ELSE {}

Send(before, copies) ==
  /\ net' \in {before \cup arriving : arriving \in SUBSET copies}
  /\ Cardinality(net') <= bound.in_flight

-----------------------------------------------------------------------------
(* A node that starts asks who is there.                                   *)
Start(n) ==
  /\ n \notin up /\ ~Refuses(n)
  /\ up' = up \cup {n} /\ asking' = asking \cup {n}
  /\ UNCHANGED <<config, bound, peers, stuck, spared, net, half, faults, told, relayed>>

(* The interval of n is due: it asks, unless it heard an Adv lately.       *)
IntervalDue(n, spares) ==
  /\ n \in up \ asking
  /\ asking' = IF n \in spared THEN asking ELSE asking \cup {n}
  /\ spared' = spared \ spares
  /\ UNCHANGED <<config, bound, up, peers, stuck, net, half, faults, told, relayed>>

(* Mutant: once spared, a node is spared for good.                         *)
IntervalSpares(n) == IntervalDue(n, {})

Interval(n) == IntervalDue(n, {n})

Ask(n) ==
  /\ n \in asking \ stuck
  /\ asking' = asking \ {n}
  /\ Send(net, Copies(n, Req))
  /\ UNCHANGED <<config, bound, up, peers, stuck, spared, half, faults, told, relayed>>

(* While the manager waits to have a Req broadcast, the discover task      *)
(* comes to wait for the manager to take an event: for good (see           *)
(* CircularWait in Program).                                               *)
Wedge(n) ==
  /\ n \in asking \ stuck /\ faults < bound.faults
  /\ faults' = faults + 1
  /\ stuck' = stuck \cup {n}
  /\ UNCHANGED <<config, bound, up, peers, asking, spared, net, half, told, relayed>>

(* handle_datagram: what m.to does with the packet that it parsed.  What   *)
(* an Adv or a Goodbye is about is the address it comes from.              *)
Answer(m, left) ==
  /\ Send(left, UNION {Copies(m.to, Adv(c)) : c \in config[m.to].local_cache})
  /\ UNCHANGED <<peers, spared, told>>

TakeAdv(m, left, cache) ==
  /\ peers' = [peers EXCEPT ![m.to] = Heard(@, m.from, UrlAt(cache, m.from))]
  /\ spared' = spared \cup {m.to}
  /\ told' = told \ {<<m.to, m.from>>}
  /\ net' = left

TakeGoodbye(m, left) ==
  /\ peers' = [peers EXCEPT ![m.to] = Gone(@, m.from)]
  /\ told' = IF m.from \in Range(peers[m.to].batch)
             THEN told ELSE told \cup {<<m.to, m.from>>}
  /\ net' = left
  /\ UNCHANGED spared

Ignore(left) == net' = left /\ UNCHANGED <<peers, spared, told>>

(* One that seems to be of its own is passed over; a node that is down or  *)
(* stuck takes none.                                                       *)
Heeded(m) ==
  IF m.to \in up \ stuck /\ m.from # m.to THEN Understood(m) ELSE Error("unheeded")

(* A datagram is delivered, for the last time or not.                      *)
Deliver(m) ==
  /\ \E left \in {net, net \ {m}} :
       LET packet == Heeded(m)
       IN  \/ packet = Req            /\ Answer(m, left)
           \/ packet.type = "adv"     /\ TakeAdv(m, left, packet.binary_cache)
           \/ packet = Goodbye        /\ TakeGoodbye(m, left)
           \/ packet \notin Packet    /\ Ignore(left)
  /\ UNCHANGED <<config, bound, up, asking, stuck, half, faults, relayed>>

(* A copy of an Adv or a Goodbye is passed on, from another address than   *)
(* its host's.                                                             *)
Relay(m) ==
  /\ m.packet # Req /\ faults < bound.faults
  /\ faults' = faults + 1
  /\ \E a \in Addresses \ {m.by}, n \in up :
       /\ Send(net, {[m EXCEPT !.from = a, !.to = n]})
       /\ relayed' = relayed \cup {<<m.by, a>>}
  /\ Cardinality(relayed') <= bound.relays
  /\ UNCHANGED <<config, bound, up, peers, asking, stuck, spared, half, told>>

(* The batch timer of n.                                                   *)
Land(n) ==
  /\ n \in up \ stuck /\ peers[n].batch # NoPeers.batch
  /\ \E p \in Landed(peers[n]) : peers' = [peers EXCEPT ![n] = p]
  /\ UNCHANGED <<config, bound, up, asking, stuck, spared, net, half, faults, told, relayed>>

(* The addresses of n change: it starts over, on the same network.         *)
StartOver(n) ==
  /\ n \in up \ stuck /\ faults < bound.faults
  /\ faults' = faults + 1
  /\ peers' = [peers EXCEPT ![n] = Forgotten(@)]
  /\ asking' = asking \cup {n}
  /\ UNCHANGED <<config, bound, up, stuck, spared, net, half, told, relayed>>

(* What a node knows of the others it keeps in memory only.                *)
Stop(n, last) ==
  /\ n \in up /\ faults < bound.faults
  /\ faults' = faults + 1
  /\ up' = up \ {n} /\ asking' = asking \ {n} /\ spared' = spared \ {n}
  /\ stuck' = stuck \ {n}
  /\ peers' = [peers EXCEPT ![n] = NoPeers]
  /\ told' = {p \in told : p[1] # n}
  /\ Send(net, last)
  /\ UNCHANGED <<config, bound, half, relayed>>

(* send_goodbye, when there is a key to sign it with.                      *)
Shutdown(n) == n \notin stuck /\ Stop(n, Copies(n, Goodbye))

(* It ends without a word, or is killed: nothing else ends a stuck one.    *)
Crash(n) == Stop(n, {})

(* Half a second passes.                                                   *)
LanTick ==
  /\ bound.age > 0
  /\ half' = ~half
  /\ net' = {[m EXCEPT !.age = @ + 1] : m \in {o \in net : o.age < bound.age}}
  /\ UNCHANGED <<config, bound, up, peers, asking, stuck, spared, faults, told, relayed>>

LanNext ==
  \/ \E n \in Nodes : \/ Start(n) \/ Interval(n) \/ Ask(n) \/ Wedge(n) \/ Land(n)
                      \/ StartOver(n) \/ Shutdown(n) \/ Crash(n)
  \/ \E m \in net : Deliver(m) \/ Relay(m)
  \/ LanTick

LanSpec == LanInit /\ [][LanNext]_lanVars

Sent(packets, n, h) ==
  \E m \in net' : m.by = n /\ m.from = n /\ m.to = h /\ m.packet \in packets

Hears(n) == \E m \in net : m.to = n /\ Heeded(m).type = "adv" /\ Deliver(m)

Arrives(n, packet) ==
  \E m \in net : m.to = n /\ m.packet = packet /\ Deliver(m) /\ m \notin net'

Answers(n) == n \in up \ stuck /\ Arrives(n, Req)

(* The interval and the select! of a node that is not stuck run, and its   *)
(* batch timer does or yet another Adv restarts it (mod.rs:352).  Of the   *)
(* network it is assumed that no datagram stays in flight, and that what n *)
(* broadcasts again and again gets to h again and again.                   *)
FairLanSpec ==
  /\ LanSpec
  /\ \A n \in Nodes : /\ WF_lanVars(Interval(n)) /\ WF_lanVars(Ask(n))
                      /\ WF_lanVars(Land(n) \/ Hears(n))
  /\ \A n \in Nodes, packet \in Packet : WF_lanVars(Arrives(n, packet))
  /\ \A n \in Nodes : \A h \in Nodes \ {n} :
       /\ []<><<Ask(n)>>_lanVars => []<><<Ask(n) /\ Sent({Req}, n, h)>>_lanVars
       /\ []<><<Answers(n)>>_lanVars => []<><<Answers(n) /\ Sent(SignedPacket, n, h)>>_lanVars

-----------------------------------------------------------------------------
Trusts(n, h) == config[h].private_key \cap config[n].public_keys # {}

(* Packets of h have come from a: its own address, or one that passed them *)
(* on.                                                                     *)
ComesFrom(h, a) == a = h \/ <<h, a>> \in relayed

(* u is what h advertises, as it comes from a; n can receive and trusts it. *)
Offers(h, a, n, u) ==
  /\ Trusts(n, h) /\ ComesFrom(h, a)
  /\ \E c \in config[h].local_cache : /\ u = UrlAt(c, a)
                                      /\ SizeOf[c] <= PACKET_MAXIMUM_REASONABLE_SIZE

(* What a node lists, and what waits to be listed, was advertised by a     *)
(* host whose key it trusts, and is held against the address that the Adv  *)
(* came from: that of the host, or one that passed its packet on, which    *)
(* nothing in the packet vouches for (README.md:7, proto.rs:126,           *)
(* discover/mod.rs:86, 92).                                                *)
Authentic ==
  \A n \in Nodes :
    /\ \A u \in DOMAIN peers[n].batch :
         \E h \in Nodes : Offers(h, peers[n].batch[u], n, u)
    /\ \A a \in DOMAIN peers[n].local_caches :
         \E h \in Nodes : Offers(h, a, n, peers[n].local_caches[a])
    /\ \A u \in peers[n].known : \E h \in Nodes, a \in Addresses : Offers(h, a, n, u)

PassesOn(a) == \E h \in Nodes : <<h, a>> \in relayed

(* Once a node has taken a goodbye from an address, and until it takes an  *)
(* Adv from there again, it has nothing on record for that address, and    *)
(* lists nothing that was advertised from there only (mod.rs:337-346).     *)
(* There are two exceptions: the batch held an Adv from there, which lands *)
(* although it is the older of the two, and is not taken off again; and    *)
(* the address has passed on Advs of several hosts, of which one only is   *)
(* on record.  A late or repeated Adv lists a host again that has left,    *)
(* and so does a goodbye that was lost, or refused, leave it listed.       *)
NoGhosts ==
  \A p \in told :
    LET n == p[1]
        a == p[2]
    IN  /\ a \notin Range(peers[n].batch) \cup DOMAIN peers[n].local_caches
        /\ ~PassesOn(a) => \A u \in peers[n].known :
                            \E h \in Nodes, o \in Addresses \ {a} : Offers(h, o, n, u)

(* How old a packet is by the clocks of its sender and its receiver.       *)
ApparentAge(m) == m.age + config[m.to].clock - config[m.by].clock

(* Clocks are read in whole seconds: of the signed packets in flight, all  *)
(* those count that are up to five seconds off, into the past or into the  *)
(* future, and none that is off by six, so a goodbye or an Adv that comes  *)
(* late or twice does its harm within that time (proto.rs:131-140).        *)
TimeWindow ==
  \A m \in net :
    LET within(n) == ApparentAge(m) \in -n .. n
        fits == Size(m.packet) <= PACKET_MAXIMUM_REASONABLE_SIZE
    IN  m.packet # Req =>
          /\ Understood(m) = m.packet => within(2 * MaxTimeDiff + 1)
          /\ within(2 * MaxTimeDiff) /\ fits /\ Trusts(m.to, m.by)
               => Understood(m) = m.packet

(* Advs without end keep the batch of n from ever being listed.            *)
HeldBack(n) == []<><<Hears(n)>>_lanVars /\ <>[](peers[n].batch # NoPeers.batch)

(* Two nodes that stay up find each other, unless one of them gets stuck   *)
(* in the circular wait of its tasks, or Advs hold back what one has heard *)
(* (README.md:6-8, discover/mod.rs:66-84, mod.rs:291, 331-336, 352).       *)
NodesMeet ==
  \A n \in Nodes : \A h \in Nodes \ {n} :
    \/ []<>({n, h} \notin SUBSET (up \ stuck))
    \/ HeldBack(n)
    \/ <>[](\A c \in config[h].local_cache :
              Offers(h, h, n, UrlAt(c, h)) => UrlAt(c, h) \in peers[n].known)
=============================================================================
