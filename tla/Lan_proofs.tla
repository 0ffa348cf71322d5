----------------------------- MODULE Lan_proofs -----------------------------
(***************************************************************************)
(* What holds on a network of any number of nodes, however it loses,       *)
(* delays, reorders, repeats and passes on datagrams, and whichever nodes  *)
(* crash or get stuck: what is listed was advertised by a trusted host,    *)
(* goodbyes count, and the time window is exact.                           *)
(*                                                                         *)
(* The predicates below take the configuration and the history of packets  *)
(* passed on as parameters: the one never changes, the other only grows.   *)
(***************************************************************************)
EXTENDS Lan, FiniteSetTheorems, TLAPS

(* rel is the history `relayed`.                                           *)
Source(rel, h, a) == a = h \/ <<h, a>> \in rel

Shared(rel, a) == \E h \in Nodes : <<h, a>> \in rel

Offer(cfg, rel, h, a, n, u) ==
  /\ h \in Nodes /\ a \in Addresses /\ Source(rel, h, a)
  /\ cfg[h].private_key \cap cfg[n].public_keys # {}
  /\ \E c \in cfg[h].local_cache : /\ u = UrlAt(c, a)
                                   /\ SizeOf[c] <= PACKET_MAXIMUM_REASONABLE_SIZE

Offered(cfg, rel, a, n, u) == \E h \in Nodes : Offer(cfg, rel, h, a, n, u)

PeerFields == {"batch", "local_caches", "known"}

(* All that a node knows was offered to it, and what it lists it has on    *)
(* record, except where an address passes packets of others on.            *)
GoodPeers(cfg, rel, n, p) ==
  /\ DOMAIN p = PeerFields
  /\ \A u \in DOMAIN p.batch : Offered(cfg, rel, p.batch[u], n, u)
  /\ \A a \in DOMAIN p.local_caches : Offered(cfg, rel, a, n, p.local_caches[a])
  /\ \A u \in p.known :
       \/ \E a \in DOMAIN p.local_caches : p.local_caches[a] = u
       \/ \E a \in Addresses : Shared(rel, a) /\ Offered(cfg, rel, a, n, u)

(* A datagram could be made, and it advertises what its host has.          *)
GoodMessage(cfg, rel, m) ==
  /\ DOMAIN m = {"by", "from", "to", "packet", "age"}
  /\ m.by \in Nodes /\ m.from \in Addresses /\ Source(rel, m.by, m.from)
  /\ m.to \in Nodes /\ m.packet \in Packet /\ m.age \in Nat
  /\ m.packet # Req => /\ cfg[m.by].private_key # {}
                       /\ Size(m.packet) <= UDP_MAX_DATAGRAM_SIZE
  /\ \A c \in LocalCaches : m.packet = Adv(c) => c \in cfg[m.by].local_cache

(* Nothing of an address is on record or on its way there.                 *)
Left(a, p) == a \notin Range(p.batch) \cup DOMAIN p.local_caches

LanInv ==
  /\ config \in Setting
  /\ up \subseteq Nodes /\ asking \subseteq up /\ stuck \subseteq asking
  /\ DOMAIN peers = Nodes
  /\ \A n \in Nodes : GoodPeers(config, relayed, n, peers[n])
  /\ \A m \in net : GoodMessage(config, relayed, m)
  /\ half \in BOOLEAN
  /\ told \subseteq Nodes \X Addresses /\ relayed \subseteq Nodes \X Addresses
  /\ \A n \in Nodes, a \in Addresses : <<n, a>> \in told => Left(a, peers[n])

-----------------------------------------------------------------------------
(* The operations on what a node has.  From an address that passes nothing *)
(* on one URL only is offered, that of the host whose address it is.       *)
LEMMA OneOffer ==
  ASSUME NEW cfg \in Setting, NEW rel, NEW a, NEW n, NEW u, NEW v,
         ~ Shared(rel, a), Offered(cfg, rel, a, n, u), Offered(cfg, rel, a, n, v)
  PROVE  u = v
<1>1. a \in Nodes /\ Offer(cfg, rel, a, a, n, u) /\ Offer(cfg, rel, a, a, n, v)
  BY DEF Offered, Offer, Source, Shared
<1>2. cfg[a].local_cache \in Option(LocalCaches)
  BY <1>1 DEF Setting
<1> QED BY <1>1, <1>2 DEF Offer, Option

(* What was offered stays so when more addresses pass packets on.          *)
LEMMA OfferGrows ==
  ASSUME NEW cfg, NEW rel, NEW more, rel \subseteq more
  PROVE  /\ \A a, n, u : Offered(cfg, rel, a, n, u) => Offered(cfg, more, a, n, u)
         /\ \A a : Shared(rel, a) => Shared(more, a)
         /\ \A n, p : GoodPeers(cfg, rel, n, p) => GoodPeers(cfg, more, n, p)
         /\ \A m : GoodMessage(cfg, rel, m) => GoodMessage(cfg, more, m)
<1>1. \A a, n, u : Offered(cfg, rel, a, n, u) => Offered(cfg, more, a, n, u)
  BY DEF Offered, Offer, Source
<1>2. \A a : Shared(rel, a) => Shared(more, a)
  BY DEF Shared
<1>3. \A m : GoodMessage(cfg, rel, m) => GoodMessage(cfg, more, m)
  BY DEF GoodMessage, Source
<1> QED BY <1>1, <1>2, <1>3 DEF GoodPeers

LEMMA NoPeersGood ==
  ASSUME NEW cfg, NEW rel, NEW n
  PROVE  GoodPeers(cfg, rel, n, NoPeers) /\ Range(NoPeers.batch) = {}
                                         /\ DOMAIN NoPeers.local_caches = {}
  BY DEF GoodPeers, NoPeers, PeerFields, Range

LEMMA HeardGood ==
  ASSUME NEW cfg, NEW rel, NEW n, NEW p, GoodPeers(cfg, rel, n, p),
         NEW a, NEW u, Offered(cfg, rel, a, n, u)
  PROVE  /\ GoodPeers(cfg, rel, n, Heard(p, a, u))
         /\ Range(Heard(p, a, u).batch) \subseteq Range(p.batch) \cup {a}
         /\ Heard(p, a, u).local_caches = p.local_caches
<1> DEFINE held == [v \in DOMAIN p.batch \cup {u} |-> IF v = u THEN a ELSE p.batch[v]]
           q    == [p EXCEPT !.batch = held]
<1>1. Heard(p, a, u) = q
  BY DEF Heard, HoldBack
<1>2. /\ \A v \in DOMAIN held : Offered(cfg, rel, held[v], n, v)
      /\ Range(held) \subseteq Range(p.batch) \cup {a}
  BY DEF GoodPeers, Range
<1> HIDE DEF held
<1>3. /\ DOMAIN q = PeerFields /\ q.batch = held
      /\ q.local_caches = p.local_caches /\ q.known = p.known
  BY DEF GoodPeers, PeerFields
<1> HIDE DEF q
<1> QED BY <1>1, <1>2, <1>3 DEF GoodPeers

LEMMA LandedGood ==
  ASSUME NEW cfg \in Setting, NEW rel, NEW n, NEW p, GoodPeers(cfg, rel, n, p),
         NEW q \in Landed(p)
  PROVE  /\ GoodPeers(cfg, rel, n, q)
         /\ Range(q.batch) = {}
         /\ DOMAIN q.local_caches \subseteq DOMAIN p.local_caches \cup Range(p.batch)
<1> DEFINE new   == DOMAIN p.batch \ p.known
           hosts == {p.batch[u] : u \in new}
<1>1. PICK last \in [hosts -> new] :
        /\ \A ip \in hosts : p.batch[last[ip]] = ip
        /\ q = [batch |-> NoPeers.batch,
                known |-> p.known \cup new,
                local_caches |-> [ip \in DOMAIN p.local_caches \cup hosts |->
                                    IF ip \in hosts THEN last[ip] ELSE p.local_caches[ip]]]
  BY DEF Landed
<1>2. /\ DOMAIN q = PeerFields
      /\ q.batch = NoPeers.batch
      /\ q.known = p.known \cup new
      /\ DOMAIN q.local_caches = DOMAIN p.local_caches \cup hosts
      /\ \A ip \in hosts : q.local_caches[ip] = last[ip]
      /\ \A ip \in DOMAIN p.local_caches \ hosts : q.local_caches[ip] = p.local_caches[ip]
  BY <1>1 DEF PeerFields
<1>3. Range(q.batch) = {} /\ DOMAIN q.batch = {}
  BY <1>2 DEF NoPeers, Range
<1>4. \A ip \in hosts : last[ip] \in new /\ p.batch[last[ip]] = ip
  BY <1>1
<1>5. hosts \subseteq Range(p.batch)
  BY DEF Range
<1>6. \A u \in new : Offered(cfg, rel, p.batch[u], n, u) /\ p.batch[u] \in hosts
  BY DEF GoodPeers
<1> HIDE DEF new, hosts
<1>7. \A ip \in DOMAIN q.local_caches : Offered(cfg, rel, ip, n, q.local_caches[ip])
  BY <1>2, <1>4, <1>6 DEF GoodPeers
<1> DEFINE Listed(u) == \/ \E a \in DOMAIN q.local_caches : q.local_caches[a] = u
                        \/ \E a \in Addresses : Shared(rel, a) /\ Offered(cfg, rel, a, n, u)
<1>8. ASSUME NEW u, NEW a \in DOMAIN q.local_caches, Offered(cfg, rel, a, n, u)
      PROVE  Listed(u)
  <2>1. CASE Shared(rel, a)
    BY <1>8, <2>1 DEF Offered, Offer
  <2>2. CASE ~ Shared(rel, a)
    BY <1>7, <1>8, <2>2, OneOffer
  <2> QED BY <2>1, <2>2
<1>9. \A u \in p.known : Listed(u)
  <2> SUFFICES ASSUME NEW u \in p.known PROVE Listed(u)
    OBVIOUS
  <2>1. CASE \E a \in DOMAIN p.local_caches : p.local_caches[a] = u
    BY <1>2, <1>8, <2>1 DEF GoodPeers
  <2>2. CASE \E a \in Addresses : Shared(rel, a) /\ Offered(cfg, rel, a, n, u)
    BY <2>2
  <2> HIDE DEF Listed
  <2> QED BY <2>1, <2>2 DEF GoodPeers
<1>10. \A u \in new : Listed(u)
  BY <1>2, <1>6, <1>8
<1> QED BY <1>2, <1>3, <1>5, <1>7, <1>9, <1>10 DEF GoodPeers

LEMMA StrikeFields ==
  ASSUME NEW p, DOMAIN p = PeerFields, NEW ips, NEW urls
  PROVE  LET q == Strike(p, ips, urls)
         IN  /\ DOMAIN q = PeerFields
             /\ q.batch = p.batch
             /\ q.known = p.known \ urls
             /\ DOMAIN q.local_caches = DOMAIN p.local_caches \ ips
             /\ \A h \in DOMAIN q.local_caches : q.local_caches[h] = p.local_caches[h]
<1> DEFINE known == p.known \ urls
           left  == Restrict(p.local_caches, DOMAIN p.local_caches \ ips)
           r     == [p EXCEPT !.known = known]
           q     == [r EXCEPT !.local_caches = left]
<1>1. Strike(p, ips, urls) = q
  BY DEF Strike, PeerFields
<1>2. /\ DOMAIN left = DOMAIN p.local_caches \ ips
      /\ \A h \in DOMAIN left : left[h] = p.local_caches[h]
  BY DEF Restrict
<1> HIDE DEF left, known
<1>3. /\ DOMAIN r = PeerFields /\ r.known = known
      /\ r.batch = p.batch /\ r.local_caches = p.local_caches
  BY DEF PeerFields
<1> HIDE DEF r
<1>4. /\ DOMAIN q = PeerFields /\ q.local_caches = left
      /\ q.batch = r.batch /\ q.known = r.known
  BY <1>3 DEF PeerFields
<1> HIDE DEF q
<1> QED BY <1>1, <1>2, <1>3, <1>4 DEF known

LEMMA GoneGood ==
  ASSUME NEW cfg, NEW rel, NEW n, NEW p, GoodPeers(cfg, rel, n, p), NEW h
  PROVE  /\ GoodPeers(cfg, rel, n, Gone(p, h))
         /\ Gone(p, h).batch = p.batch
         /\ DOMAIN Gone(p, h).local_caches = DOMAIN p.local_caches \ {h}
<1> DEFINE urls == {p.local_caches[i] : i \in {h} \cap DOMAIN p.local_caches}
           q    == Strike(p, {h}, urls)
<1>1. Gone(p, h) = q
  BY DEF Gone
<1>2. h \in DOMAIN p.local_caches => p.local_caches[h] \in urls
  OBVIOUS
<1> HIDE DEF urls
<1>3. /\ DOMAIN q = PeerFields /\ q.batch = p.batch /\ q.known = p.known \ urls
      /\ DOMAIN q.local_caches = DOMAIN p.local_caches \ {h}
      /\ \A i \in DOMAIN q.local_caches : q.local_caches[i] = p.local_caches[i]
  BY StrikeFields DEF GoodPeers
<1> HIDE DEF q
<1> QED BY <1>1, <1>2, <1>3 DEF GoodPeers

LEMMA ForgottenGood ==
  ASSUME NEW cfg, NEW rel, NEW n, NEW p, GoodPeers(cfg, rel, n, p)
  PROVE  /\ GoodPeers(cfg, rel, n, Forgotten(p))
         /\ Forgotten(p).batch = p.batch
         /\ DOMAIN Forgotten(p).local_caches = {}
<1> DEFINE q == Strike(p, DOMAIN p.local_caches, Range(p.local_caches))
<1>1. Forgotten(p) = q
  BY DEF Forgotten
<1>2. /\ DOMAIN q = PeerFields /\ q.batch = p.batch
      /\ q.known = p.known \ Range(p.local_caches)
      /\ DOMAIN q.local_caches = {}
  BY StrikeFields DEF GoodPeers
<1> HIDE DEF q
<1> QED BY <1>1, <1>2 DEF GoodPeers, Range

-----------------------------------------------------------------------------
(* What a receiver makes of a datagram.  One that is cut off has a body    *)
(* that nobody signed.                                                     *)
Fits(packet) == Size(packet) <= PACKET_MAXIMUM_REASONABLE_SIZE

Age(m) == Diff(Seconds(m.to, 0), Seconds(m.by, m.age))

LEMMA ReqUnderstood ==
  ASSUME NEW m, m.packet = Req
  PROVE  Understood(m) = Req
<1> DEFINE d == Bytes(m)
<1>1. d = [magic |-> TRUE, signature |-> {}, content |-> [msg |-> Req]]
  BY DEF Bytes, ToBytes, Datagram
<1>2. d.magic = TRUE /\ d.signature = {} /\ d.content.msg = Req
  BY <1>1
<1>3. Size(m.packet) = 0
  BY DEF Size, Req
<1>4. Received(d, Size(m.packet)) = d
  BY <1>3 DEF Received, PACKET_MAXIMUM_REASONABLE_SIZE
<1>5. Understood(m) = Parse(d, KeyStore(m.to), Seconds(m.to, 0))
  BY <1>4 DEF Understood
<1> HIDE DEF d
<1>6. Parse(d, KeyStore(m.to), Seconds(m.to, 0)) = Req
  BY <1>2 DEF Parse
<1> QED BY <1>5, <1>6

LEMMA PacketTypes ==
  /\ \A packet \in Packet : packet.type \in {"adv", "goodbye", "req"}
  /\ \A packet \in Packet : packet.type = "adv" =>
       \E c \in LocalCaches : packet = Adv(c) /\ packet.binary_cache = c
  /\ \A packet \in Packet : packet.type = "goodbye" => packet = Goodbye
  /\ \A packet \in Packet : packet # Req <=> packet \in SignedPacket
  /\ Req.type = "req" /\ Goodbye.type = "goodbye" /\ \A c : Adv(c).type = "adv"
  BY DEF Packet, SignedPacket, Adv, Goodbye, Req

LEMMA SignedUnderstood ==
  ASSUME config \in Setting, NEW m, GoodMessage(config, relayed, m), m.packet # Req
  PROVE  Understood(m) = IF ~ (Trusts(m.to, m.by) /\ Fits(m.packet)) THEN Error("Verify")
                         ELSE IF Age(m) > MaxTimeDiff THEN Error("TimestampDiff")
                         ELSE m.packet
<1> DEFINE from   == KeyStore(m.by)
           to     == KeyStore(m.to)
           stamp  == Seconds(m.by, m.age)
           body   == [timestamp |-> stamp, msg |-> m.packet]
           signed == Sign(from, body)
           cut    == [body EXCEPT !.msg = Error("cut")]
           d      == [magic |-> TRUE, signature |-> signed, content |-> body]
           got    == Received(d, Size(m.packet))
<1>1. /\ m.packet \in SignedPacket
      /\ m.packet.type \in {"adv", "goodbye"}
  BY PacketTypes DEF GoodMessage, SignedPacket, Adv, Goodbye
<1>2. Size(m.packet) \in Nat
  BY PacketTypes, WireAssumption DEF Size, GoodMessage
<1>3. signed = {[by |-> key, of |-> body] : key \in config[m.by].private_key}
  BY DEF Sign, KeyStore, NewKeyStore
<1>4. signed # {} /\ \A signature \in signed : signature.of = body
  <2>1. PICK key : key \in config[m.by].private_key
    BY DEF GoodMessage
  <2> HIDE DEF signed, body
  <2>2. [by |-> key, of |-> body] \in signed
    BY <1>3, <2>1
  <2>3. ASSUME NEW signature \in signed PROVE signature.of = body
    <3>1. PICK k : signature = [by |-> k, of |-> body]
      BY <1>3
    <3> QED BY <3>1
  <2> QED BY <2>2, <2>3
<1>5. Trusts(m.to, m.by) <=> \E signature \in signed : Verify(to, signature, body)
  <2>1. \A signature : Verify(to, signature, body) <=>
          \E key \in config[m.to].public_keys : signature = [by |-> key, of |-> body]
    BY DEF Verify, KeyStore, NewKeyStore
  <2> HIDE DEF signed, body, to
  <2>2. ASSUME Trusts(m.to, m.by)
        PROVE  \E signature \in signed : Verify(to, signature, body)
    <3>1. PICK key : key \in config[m.by].private_key /\ key \in config[m.to].public_keys
      BY <2>2 DEF Trusts
    <3>2. [by |-> key, of |-> body] \in signed
      BY <1>3, <3>1
    <3>3. Verify(to, [by |-> key, of |-> body], body)
      BY <2>1, <3>1
    <3> QED BY <3>2, <3>3
  <2>3. ASSUME NEW signature \in signed, Verify(to, signature, body)
        PROVE  Trusts(m.to, m.by)
    <3>1. PICK k \in config[m.by].private_key : signature = [by |-> k, of |-> body]
      BY <1>3
    <3>2. PICK l \in config[m.to].public_keys : signature = [by |-> l, of |-> body]
      BY <2>1, <2>3
    <3>3. k = signature.by /\ l = signature.by
      BY <3>1, <3>2
    <3> QED BY <3>3 DEF Trusts
  <2> QED BY <2>2, <2>3
<1>6. body.timestamp = stamp /\ body.msg = m.packet
  OBVIOUS
<1>7. Bytes(m) = d /\ Understood(m) = Parse(got, to, Seconds(m.to, 0))
  <2>1. from.private # {}
    BY DEF GoodMessage, KeyStore, NewKeyStore
  <2>2. ~ (Size(m.packet) > UDP_MAX_DATAGRAM_SIZE)
    BY <1>2 DEF GoodMessage, UDP_MAX_DATAGRAM_SIZE
  <2> HIDE DEF from, to
  <2>3. ToBytes(m.packet, from, stamp) = d
    BY <2>1, <2>2 DEF ToBytes, HasPrivateKey, Datagram
  <2>4. Bytes(m) = d
    BY <2>3 DEF Bytes, from
  <2> HIDE DEF d
  <2> QED BY <2>4 DEF Understood, to
<1>8. cut # body
  <2>1. cut.msg = Error("cut")
    OBVIOUS
  <2>2. Error("cut").type = "cut"
    BY DEF Error
  <2>3. cut.msg.type = "cut" /\ body.msg.type # "cut"
    BY <1>1, <1>6, <2>1, <2>2
  <2> QED BY <2>3
<1>9. CASE ~ Fits(m.packet)
  <2>1. got.magic = TRUE /\ got.signature = signed /\ got.content = cut
    BY <1>2, <1>9 DEF Received, Fits, PACKET_MAXIMUM_REASONABLE_SIZE
  <2>2. \A signature \in signed : ~ Verify(to, signature, cut)
    <3> HIDE DEF signed, cut, body
    <3> QED BY <1>4, <1>8 DEF Verify
  <2> HIDE DEF got, signed, cut, to
  <2>3. Parse(got, to, Seconds(m.to, 0)) = Error("Verify")
    BY <1>4, <2>1, <2>2 DEF Parse
  <2> QED BY <1>7, <1>9, <2>3
<1>10. CASE Fits(m.packet)
  <2>1. got.magic = TRUE /\ got.signature = signed /\ got.content = body
    BY <1>2, <1>10 DEF Received, Fits, PACKET_MAXIMUM_REASONABLE_SIZE
  <2> HIDE DEF got, signed, to, body, stamp
  <2>2. Parse(got, to, Seconds(m.to, 0)) =
          IF ~ Trusts(m.to, m.by) THEN Error("Verify")
          ELSE IF Diff(Seconds(m.to, 0), stamp) > MaxTimeDiff THEN Error("TimestampDiff")
          ELSE m.packet
    BY <1>1, <1>4, <1>5, <1>6, <2>1 DEF Parse
  <2> QED BY <1>7, <1>10, <2>2 DEF Age, stamp
<1> QED BY <1>9, <1>10

(* What is understood is what was sent.                                    *)
LEMMA UnderstoodIsSent ==
  ASSUME config \in Setting, NEW m, GoodMessage(config, relayed, m)
  PROVE  /\ Understood(m) = Req => m.packet = Req
         /\ Understood(m).type = "adv" \/ Understood(m) = Goodbye =>
              /\ Understood(m) = m.packet
              /\ Trusts(m.to, m.by) /\ Fits(m.packet)
<1>1. \A e \in {"Verify", "TimestampDiff"} :
        Error(e) # Req /\ Error(e).type # "adv" /\ Error(e) # Goodbye
  <2>1. \A e : Error(e).type = e
    BY DEF Error
  <2> QED BY <2>1, PacketTypes
<1>2. CASE m.packet = Req
  BY <1>2, ReqUnderstood, PacketTypes
<1>3. CASE m.packet # Req
  BY <1>1, <1>3, SignedUnderstood
<1> QED BY <1>2, <1>3

-----------------------------------------------------------------------------
(* What is sent.                                                           *)
LEMMA CopiesGood ==
  ASSUME LanInv, NEW n \in Nodes, NEW packet \in Packet,
         \A c \in LocalCaches : packet = Adv(c) => c \in config[n].local_cache,
         NEW m \in Copies(n, packet)
  PROVE  GoodMessage(config, relayed, m) /\ m.packet = packet
<1>1. PICK to \in up : m = [by |-> n, from |-> n, to |-> to, packet |-> packet, age |-> 0]
  BY DEF Copies
<1>2. /\ DOMAIN m = {"by", "from", "to", "packet", "age"}
      /\ m.by = n /\ m.from = n /\ m.to = to /\ m.packet = packet /\ m.age = 0
  BY <1>1
<1>3. IsDatagram(ToBytes(packet, KeyStore(n), 0))
  BY DEF Copies
<1>4. \A e : ~ IsDatagram(Error(e))
  BY DEF IsDatagram, Error
<1>5. packet # Req => /\ config[n].private_key # {}
                      /\ ~ (Size(packet) > UDP_MAX_DATAGRAM_SIZE)
  <2>1. packet # Req => HasPrivateKey(KeyStore(n)) /\ ~ (Size(packet) > UDP_MAX_DATAGRAM_SIZE)
    BY <1>3, <1>4 DEF ToBytes
  <2>2. HasPrivateKey(KeyStore(n)) => config[n].private_key # {}
    BY DEF HasPrivateKey, KeyStore, NewKeyStore
  <2> QED BY <2>1, <2>2
<1>6. Size(packet) \in Nat
  BY PacketTypes, WireAssumption DEF Size
<1>7. to \in Nodes
  BY <1>1 DEF LanInv
<1> QED BY <1>2, <1>5, <1>6, <1>7, LanAssumption DEF GoodMessage, Source, UDP_MAX_DATAGRAM_SIZE

LEMMA SendAdds ==
  ASSUME NEW before, NEW copies, Send(before, copies)
  PROVE  net' \subseteq before \cup copies
  BY DEF Send

-----------------------------------------------------------------------------
(* The steps.                                                              *)
LEMMA SendKeeps ==
  ASSUME LanInv, NEW n \in up, NEW packet \in Packet,
         \A c \in LocalCaches : packet = Adv(c) => c \in config[n].local_cache,
         NEW copies, copies \subseteq Copies(n, packet), net' \subseteq net \cup copies
  PROVE  \A m \in net' : GoodMessage(config, relayed, m)
<1>1. n \in Nodes
  BY DEF LanInv
<1>2. \A m \in copies : GoodMessage(config, relayed, m)
  BY <1>1, CopiesGood
<1> QED BY <1>2 DEF LanInv

LEMMA AskKeeps ==
  ASSUME LanInv, NEW n \in Nodes, Start(n) \/ Interval(n) \/ Ask(n) \/ Wedge(n)
  PROVE  LanInv'
<1>1. CASE Start(n)
  BY <1>1 DEF Start, LanInv
<1>2. CASE Interval(n)
  BY <1>2 DEF Interval, IntervalDue, LanInv
<1>3. CASE Wedge(n)
  BY <1>3 DEF Wedge, LanInv
<1>4. CASE Ask(n)
  <2>1. /\ UNCHANGED <<config, up, peers, stuck, half, told, relayed>>
        /\ asking' = asking \ {n} /\ n \in up /\ n \notin stuck
        /\ net' \subseteq net \cup Copies(n, Req)
    BY <1>4, SendAdds DEF Ask, LanInv
  <2>2. /\ Req \in Packet /\ \A c : Req # Adv(c)
    BY PacketTypes DEF Packet
  <2>3. \A m \in net' : GoodMessage(config, relayed, m)
    BY <2>1, <2>2, SendKeeps
  <2> QED BY <2>1, <2>3 DEF LanInv
<1> QED BY <1>1, <1>2, <1>3, <1>4

LEMMA LandKeeps ==
  ASSUME LanInv, NEW n \in Nodes, Land(n) \/ StartOver(n)
  PROVE  LanInv'
<1>1. /\ UNCHANGED <<config, up, stuck, net, half, told, relayed>>
      /\ asking' \subseteq up /\ stuck \subseteq asking'
  BY DEF Land, StartOver, LanInv
<1>2. PICK q : /\ peers' = [peers EXCEPT ![n] = q]
               /\ GoodPeers(config, relayed, n, q)
               /\ Range(q.batch) \cup DOMAIN q.local_caches
                    \subseteq Range(peers[n].batch) \cup DOMAIN peers[n].local_caches
  <2>1. GoodPeers(config, relayed, n, peers[n]) /\ config \in Setting
    BY DEF LanInv
  <2>2. CASE Land(n)
    <3>1. PICK q \in Landed(peers[n]) : peers' = [peers EXCEPT ![n] = q]
      BY <2>2 DEF Land
    <3> QED BY <2>1, <3>1, LandedGood
  <2>3. CASE StartOver(n)
    <3>1. peers' = [peers EXCEPT ![n] = Forgotten(peers[n])]
      BY <2>3 DEF StartOver
    <3> QED BY <2>1, <3>1, ForgottenGood
  <2> QED BY <2>2, <2>3
<1>3. /\ DOMAIN peers' = Nodes
      /\ \A k \in Nodes : peers'[k] = IF k = n THEN q ELSE peers[k]
  BY <1>2 DEF LanInv
<1>4. \A k \in Nodes, a \in Addresses : <<k, a>> \in told => Left(a, peers'[k])
  BY <1>2, <1>3 DEF LanInv, Left
<1>5. \A k \in Nodes : GoodPeers(config, relayed, k, peers'[k])
  BY <1>2, <1>3 DEF LanInv
<1> QED BY <1>1, <1>3, <1>4, <1>5 DEF LanInv

LEMMA StopKeeps ==
  ASSUME LanInv, NEW n \in Nodes, Shutdown(n) \/ Crash(n)
  PROVE  LanInv'
<1>1. /\ UNCHANGED <<config, half, relayed>>
      /\ up' = up \ {n} /\ asking' = asking \ {n} /\ stuck' = stuck \ {n} /\ n \in up
      /\ told' = {p \in told : p[1] # n}
      /\ peers' = [peers EXCEPT ![n] = NoPeers]
      /\ net' \subseteq net \cup Copies(n, Goodbye)
  BY SendAdds DEF Shutdown, Crash, Stop
<1>2. Goodbye \in Packet /\ \A c : Goodbye # Adv(c)
  BY PacketTypes DEF Packet, SignedPacket
<1>3. \A m \in net' : GoodMessage(config, relayed, m)
  BY <1>1, <1>2, SendKeeps
<1>4. /\ DOMAIN peers' = Nodes
      /\ \A k \in Nodes : peers'[k] = IF k = n THEN NoPeers ELSE peers[k]
  BY <1>1 DEF LanInv
<1>5. \A k \in Nodes : GoodPeers(config, relayed, k, peers'[k])
  BY <1>4, NoPeersGood DEF LanInv
<1>6. \A k \in Nodes, a \in Addresses : <<k, a>> \in told' => Left(a, peers'[k])
  BY <1>1, <1>4 DEF LanInv
<1> QED BY <1>1, <1>3, <1>4, <1>5, <1>6 DEF LanInv

LEMMA LanTickKeeps ==
  ASSUME LanInv, LanTick
  PROVE  LanInv'
<1>1. UNCHANGED <<config, up, peers, asking, stuck, told, relayed>> /\ half' \in BOOLEAN
  BY DEF LanTick
<1>2. ASSUME NEW m \in net'
      PROVE  GoodMessage(config, relayed, m)
  <2>1. PICK o \in net : m = [o EXCEPT !.age = @ + 1]
    BY <1>2 DEF LanTick
  <2>2. GoodMessage(config, relayed, o)
    BY DEF LanInv
  <2>3. /\ DOMAIN m = DOMAIN o /\ m.by = o.by /\ m.from = o.from /\ m.to = o.to
        /\ m.packet = o.packet /\ m.age = o.age + 1
    BY <2>1, <2>2 DEF GoodMessage
  <2> QED BY <2>2, <2>3 DEF GoodMessage
<1> QED BY <1>1, <1>2 DEF LanInv

(* A packet is passed on: its host is still the one that signed it.        *)
LEMMA RelayKeeps ==
  ASSUME LanInv, NEW m \in net, Relay(m)
  PROVE  LanInv'
<1>1. PICK a \in Addresses \ {m.by}, n \in up :
        /\ Send(net, {[m EXCEPT !.from = a, !.to = n]})
        /\ relayed' = relayed \cup {<<m.by, a>>}
  BY DEF Relay
<1>2. UNCHANGED <<config, up, peers, asking, stuck, half, told>>
  BY DEF Relay
<1>3. GoodMessage(config, relayed, m) /\ n \in Nodes
  BY DEF LanInv
<1> DEFINE copy == [m EXCEPT !.from = a, !.to = n]
<1>4. /\ DOMAIN copy = DOMAIN m /\ copy.by = m.by /\ copy.from = a /\ copy.to = n
      /\ copy.packet = m.packet /\ copy.age = m.age
  BY <1>3 DEF GoodMessage
<1>5. net' \subseteq net \cup {copy}
  BY <1>1, SendAdds
<1> HIDE DEF copy
<1>6. GoodMessage(config, relayed', copy)
  BY <1>1, <1>3, <1>4 DEF GoodMessage, Source
<1>7. relayed \subseteq relayed' /\ relayed' \subseteq Nodes \X Addresses
  BY <1>1, <1>3 DEF GoodMessage, LanInv
<1>8. \A o \in net' : GoodMessage(config, relayed', o)
  BY <1>5, <1>6, <1>7, OfferGrows DEF LanInv
<1>9. \A k \in Nodes : GoodPeers(config, relayed', k, peers[k])
  BY <1>7, OfferGrows DEF LanInv
<1> QED BY <1>2, <1>7, <1>8, <1>9 DEF LanInv

LEMMA AnswerKeeps ==
  ASSUME LanInv, NEW m \in net, m.to \in up, NEW left, left \subseteq net, Answer(m, left),
         UNCHANGED <<config, up, asking, stuck, half, relayed>>
  PROVE  LanInv'
<1> DEFINE copies == UNION {Copies(m.to, Adv(c)) : c \in config[m.to].local_cache}
<1>1. m.to \in Nodes
  BY DEF LanInv
<1>2. net' \subseteq net \cup copies /\ peers' = peers /\ told' = told
  BY SendAdds DEF Answer
<1>3. ASSUME NEW o \in copies PROVE GoodMessage(config, relayed, o)
  <2>1. PICK c \in config[m.to].local_cache : o \in Copies(m.to, Adv(c))
    OBVIOUS
  <2>2. config[m.to].local_cache \in Option(LocalCaches)
    BY <1>1 DEF LanInv, Setting
  <2>3. c \in LocalCaches
    BY <2>2 DEF Option
  <2>4. Adv(c) \in Packet
    BY <2>3 DEF Packet, SignedPacket
  <2>5. \A d \in LocalCaches : Adv(c) = Adv(d) => d \in config[m.to].local_cache
    <3>1. \A d : Adv(d).binary_cache = d
      BY DEF Adv
    <3>2. \A d : Adv(c) = Adv(d) => c = d
      BY <3>1
    <3> QED BY <3>2
  <2> QED BY <1>1, <2>1, <2>4, <2>5, CopiesGood
<1> HIDE DEF copies
<1>4. \A o \in net' : GoodMessage(config, relayed, o)
  BY <1>2, <1>3 DEF LanInv
<1> QED BY <1>2, <1>4 DEF LanInv

LEMMA TakeAdvKeeps ==
  ASSUME LanInv, NEW m \in net, NEW left, left \subseteq net, NEW c \in LocalCaches,
         m.packet = Adv(c), Trusts(m.to, m.by), Fits(m.packet),
         TakeAdv(m, left, c), UNCHANGED <<config, up, asking, stuck, half, relayed>>
  PROVE  LanInv'
<1> DEFINE n == m.to
           a == m.from
           u == UrlAt(c, a)
           q == Heard(peers[n], a, u)
<1>1. GoodMessage(config, relayed, m) /\ n \in Nodes /\ GoodPeers(config, relayed, n, peers[n])
  BY DEF LanInv, GoodMessage
<1>2. /\ peers' = [peers EXCEPT ![n] = q] /\ net' = left
      /\ told' = told \ {<<n, a>>}
  BY DEF TakeAdv
<1>3. m.packet.type = "adv" /\ m.packet.binary_cache = c
  BY DEF Adv
<1>4. Offered(config, relayed, a, n, u)
  <2>1. SizeOf[c] <= PACKET_MAXIMUM_REASONABLE_SIZE
    BY <1>3 DEF Fits, Size
  <2>2. c \in config[m.by].local_cache
    BY <1>1 DEF GoodMessage
  <2>3. m.by \in Nodes /\ a \in Addresses /\ Source(relayed, m.by, a)
    BY <1>1 DEF GoodMessage
  <2> QED BY <2>1, <2>2, <2>3 DEF Offered, Offer, Trusts
<1> HIDE DEF u, q
<1>5. /\ GoodPeers(config, relayed, n, q)
      /\ Range(q.batch) \subseteq Range(peers[n].batch) \cup {a}
      /\ q.local_caches = peers[n].local_caches
  BY <1>1, <1>4, HeardGood DEF q
<1>6. /\ DOMAIN peers' = Nodes
      /\ \A k \in Nodes : peers'[k] = IF k = n THEN q ELSE peers[k]
  BY <1>1, <1>2 DEF LanInv
<1> HIDE DEF n, a
<1>7. ASSUME NEW k \in Nodes, NEW i \in Addresses, <<k, i>> \in told'
      PROVE  Left(i, peers'[k])
  <2>1. Left(i, peers[k]) /\ (k = n => i # a)
    BY <1>2, <1>7 DEF LanInv
  <2> QED BY <1>5, <1>6, <2>1 DEF Left
<1>8. \A k \in Nodes : GoodPeers(config, relayed, k, peers'[k])
  BY <1>5, <1>6 DEF LanInv
<1> QED BY <1>2, <1>6, <1>7, <1>8 DEF LanInv

LEMMA TakeGoodbyeKeeps ==
  ASSUME LanInv, NEW m \in net, NEW left, left \subseteq net,
         TakeGoodbye(m, left), UNCHANGED <<config, up, asking, stuck, half, relayed>>
  PROVE  LanInv'
<1> DEFINE n == m.to
           a == m.from
           q == Gone(peers[n], a)
<1>1. n \in Nodes /\ a \in Addresses /\ GoodPeers(config, relayed, n, peers[n])
  BY DEF LanInv, GoodMessage
<1>2. /\ peers' = [peers EXCEPT ![n] = q] /\ net' = left
      /\ told' = IF a \in Range(peers[n].batch) THEN told ELSE told \cup {<<n, a>>}
  BY DEF TakeGoodbye
<1> HIDE DEF q
<1>3. /\ GoodPeers(config, relayed, n, q) /\ q.batch = peers[n].batch
      /\ DOMAIN q.local_caches = DOMAIN peers[n].local_caches \ {a}
  BY <1>1, GoneGood DEF q
<1>4. /\ DOMAIN peers' = Nodes
      /\ \A k \in Nodes : peers'[k] = IF k = n THEN q ELSE peers[k]
  BY <1>1, <1>2 DEF LanInv
<1> HIDE DEF n, a
<1>5. ASSUME NEW k \in Nodes, NEW i \in Addresses, <<k, i>> \in told'
      PROVE  Left(i, peers'[k])
  <2>1. CASE <<k, i>> \in told
    <3>1. Left(i, peers[k])
      BY <2>1 DEF LanInv
    <3> QED BY <1>3, <1>4, <3>1 DEF Left
  <2>2. CASE <<k, i>> \notin told
    <3>1. k = n /\ i = a /\ a \notin Range(peers[n].batch)
      BY <1>2, <1>5, <2>2
    <3> QED BY <1>3, <1>4, <3>1 DEF Left
  <2> QED BY <2>1, <2>2
<1>6. told' \subseteq Nodes \X Addresses
  BY <1>1, <1>2 DEF LanInv
<1>7. \A k \in Nodes : GoodPeers(config, relayed, k, peers'[k])
  BY <1>3, <1>4 DEF LanInv
<1> QED BY <1>2, <1>4, <1>5, <1>6, <1>7 DEF LanInv

LEMMA DeliverKeeps ==
  ASSUME LanInv, NEW m \in net, Deliver(m)
  PROVE  LanInv'
<1> DEFINE packet == Heeded(m)
<1>1. UNCHANGED <<config, up, asking, stuck, half, relayed>>
  BY DEF Deliver
<1>2. PICK left \in {net, net \ {m}} :
        \/ packet = Req            /\ Answer(m, left)
        \/ packet.type = "adv"     /\ TakeAdv(m, left, packet.binary_cache)
        \/ packet = Goodbye        /\ TakeGoodbye(m, left)
        \/ packet \notin Packet    /\ Ignore(left)
  BY DEF Deliver
<1>3. left \subseteq net /\ config \in Setting /\ GoodMessage(config, relayed, m)
  BY <1>2 DEF LanInv
<1>4. Error("unheeded").type = "unheeded"
  BY DEF Error
<1>5. CASE packet = Req /\ Answer(m, left)
  <2>1. m.to \in up
    BY <1>4, <1>5, PacketTypes DEF Heeded
  <2> QED BY <1>1, <1>3, <1>5, <2>1, AnswerKeeps
<1>6. CASE packet.type = "adv" /\ TakeAdv(m, left, packet.binary_cache)
  <2>1. Understood(m).type = "adv" /\ packet = Understood(m)
    BY <1>4, <1>6 DEF Heeded
  <2>2. packet = m.packet /\ Trusts(m.to, m.by) /\ Fits(m.packet)
    BY <1>3, <2>1, UnderstoodIsSent
  <2>3. PICK c \in LocalCaches : m.packet = Adv(c) /\ packet.binary_cache = c
    BY <1>3, <1>6, <2>2, PacketTypes DEF GoodMessage
  <2> QED BY <1>1, <1>3, <1>6, <2>2, <2>3, TakeAdvKeeps
<1>7. CASE packet = Goodbye /\ TakeGoodbye(m, left)
  BY <1>1, <1>3, <1>7, TakeGoodbyeKeeps
<1>8. CASE packet \notin Packet /\ Ignore(left)
  <2>1. net' \subseteq net /\ UNCHANGED <<peers, told>>
    BY <1>3, <1>8 DEF Ignore
  <2> QED BY <1>1, <2>1 DEF LanInv
<1> QED BY <1>2, <1>5, <1>6, <1>7, <1>8

LEMMA LanInvNext == LanInv /\ [LanNext]_lanVars => LanInv'
<1> SUFFICES ASSUME LanInv, [LanNext]_lanVars PROVE LanInv'
  OBVIOUS
<1>1. CASE UNCHANGED lanVars
  BY <1>1 DEF lanVars, LanInv
<1>2. CASE LanNext
  BY <1>2, AskKeeps, LandKeeps, StopKeeps, DeliverKeeps, RelayKeeps, LanTickKeeps DEF LanNext
<1> QED BY <1>1, <1>2

LEMMA LanInvHolds == LanSpec => []LanInv
<1>1. LanInit => LanInv
  BY LanAssumption, NoPeersGood DEF LanInit, LanInv
<1> QED BY <1>1, LanInvNext, PTL DEF LanSpec

-----------------------------------------------------------------------------
(* On any network what a node lists was advertised by a host whose key it  *)
(* trusts, and is held against the address it came from: that of the host, *)
(* or one that passed its packet on (README.md:7, discover/mod.rs:86, 92). *)
LEMMA OfferedOffers ==
  ASSUME NEW n, NEW a, NEW u, Offered(config, relayed, a, n, u)
  PROVE  a \in Addresses /\ \E h \in Nodes : Offers(h, a, n, u)
  BY DEF Offered, Offer, Offers, Source, ComesFrom, Trusts

THEOREM AuthenticHolds == LanSpec => []Authentic
<1>1. LanInv => Authentic
  <2> SUFFICES ASSUME LanInv, NEW n \in Nodes
               PROVE  /\ \A u \in DOMAIN peers[n].batch :
                           \E h \in Nodes : Offers(h, peers[n].batch[u], n, u)
                      /\ \A a \in DOMAIN peers[n].local_caches :
                           \E h \in Nodes : Offers(h, a, n, peers[n].local_caches[a])
                      /\ \A u \in peers[n].known :
                           \E h \in Nodes, a \in Addresses : Offers(h, a, n, u)
    BY DEF Authentic
  <2>1. GoodPeers(config, relayed, n, peers[n])
    BY DEF LanInv
  <2>2. /\ \A u \in DOMAIN peers[n].batch :
             \E h \in Nodes : Offers(h, peers[n].batch[u], n, u)
        /\ \A a \in DOMAIN peers[n].local_caches :
             a \in Addresses /\ \E h \in Nodes : Offers(h, a, n, peers[n].local_caches[a])
    BY <2>1, OfferedOffers DEF GoodPeers
  <2>3. \A u \in peers[n].known : \E h \in Nodes, a \in Addresses : Offers(h, a, n, u)
    BY <2>1, <2>2, OfferedOffers DEF GoodPeers
  <2> QED BY <2>2, <2>3
<1> QED BY <1>1, LanInvHolds, PTL

(* A goodbye that was taken counts until an Adv is taken from there again: *)
(* nothing is on record for the address, and what is listed comes from     *)
(* another one.  The exceptions are those NoGhosts names: an Adv that      *)
(* waited in the batch, and addresses that pass packets on.                *)
THEOREM NoGhostsHolds == LanSpec => []NoGhosts
<1>1. LanInv => NoGhosts
  <2> SUFFICES ASSUME LanInv, NEW n \in Nodes, NEW a \in Addresses, <<n, a>> \in told
               PROVE  /\ a \notin Range(peers[n].batch) \cup DOMAIN peers[n].local_caches
                      /\ ~PassesOn(a) => \A u \in peers[n].known :
                           \E h \in Nodes, o \in Addresses \ {a} : Offers(h, o, n, u)
    BY DEF NoGhosts, LanInv
  <2>1. a \notin Range(peers[n].batch) \cup DOMAIN peers[n].local_caches
    BY DEF LanInv, Left
  <2>2. ASSUME ~PassesOn(a), NEW u \in peers[n].known
        PROVE  \E h \in Nodes, o \in Addresses \ {a} : Offers(h, o, n, u)
    <3>1. GoodPeers(config, relayed, n, peers[n])
      BY DEF LanInv
    <3>2. \E o : o # a /\ Offered(config, relayed, o, n, u)
      BY <2>1, <2>2, <3>1 DEF GoodPeers, PassesOn, Shared
    <3> QED BY <3>2, OfferedOffers
  <2> QED BY <2>1, <2>2
<1> QED BY <1>1, LanInvHolds, PTL

(* The window is exact up to the second that clocks are cut down to, for   *)
(* every size of it and any difference of clocks (proto.rs:131-140).       *)
LEMMA WholeSeconds ==
  ASSUME NEW x \in Int, NEW y \in Int, NEW max \in Nat
  PROVE  /\ Diff(x \div 2, y \div 2) <= max => x - y \in -(2 * max + 1) .. 2 * max + 1
         /\ x - y \in -(2 * max) .. 2 * max => Diff(x \div 2, y \div 2) <= max
  BY DEF Diff

THEOREM TimeWindowHolds == LanSpec => []TimeWindow
<1>1. LanInv => TimeWindow
  <2> SUFFICES ASSUME LanInv, NEW m \in net, m.packet # Req
               PROVE  /\ Understood(m) = m.packet
                           => ApparentAge(m) \in -(2 * MaxTimeDiff + 1) .. 2 * MaxTimeDiff + 1
                      /\ ApparentAge(m) \in -(2 * MaxTimeDiff) .. 2 * MaxTimeDiff
                           /\ Fits(m.packet) /\ Trusts(m.to, m.by)
                           => Understood(m) = m.packet
    BY DEF TimeWindow, Fits
  <2> DEFINE now == Epoch + IF half THEN 1 ELSE 0
             x   == now + config[m.to].clock
             y   == now + config[m.by].clock - m.age
  <2>1. config \in Setting /\ GoodMessage(config, relayed, m) /\ MaxTimeDiff \in Nat
    BY WireAssumption DEF LanInv
  <2>2. x \in Int /\ y \in Int /\ ApparentAge(m) = m.age + config[m.to].clock - config[m.by].clock
    BY <2>1 DEF GoodMessage, Setting, Epoch, ApparentAge
  <2>3. ApparentAge(m) = x - y
    BY <2>1, <2>2 DEF GoodMessage, Setting, Epoch
  <2>4. Age(m) = Diff(x \div 2, y \div 2)
    BY <2>1 DEF Age, Seconds, GoodMessage, Setting, Epoch
  <2> HIDE DEF x, y
  <2>5. /\ Age(m) <= MaxTimeDiff
             => ApparentAge(m) \in -(2 * MaxTimeDiff + 1) .. 2 * MaxTimeDiff + 1
        /\ ApparentAge(m) \in -(2 * MaxTimeDiff) .. 2 * MaxTimeDiff => Age(m) <= MaxTimeDiff
    BY <2>1, <2>2, <2>3, <2>4, WholeSeconds
  <2>6. Age(m) \in Int
    BY <2>2, <2>4 DEF Diff
  <2>7. \A e \in {"Verify", "TimestampDiff"} : Error(e) # m.packet
    <3>1. \A e : Error(e).type = e
      BY DEF Error
    <3> QED BY <2>1, <3>1, PacketTypes DEF GoodMessage
  <2> QED BY <2>1, <2>5, <2>6, <2>7, SignedUnderstood
<1> QED BY <1>1, LanInvHolds, PTL

-----------------------------------------------------------------------------
(* The types of the network.  Its bounds hold because there are finitely   *)
(* many nodes, so that a broadcast adds finitely many datagrams.           *)
SmallNet(messages) ==
  /\ messages \subseteq InFlight
  /\ IsFiniteSet(messages) /\ Cardinality(messages) <= bound.in_flight

LanTypeInv ==
  /\ LanInv
  /\ config \in Settings /\ bound \in Bounds
  /\ spared \subseteq up
  /\ SmallNet(net)
  /\ faults \in 0 .. bound.faults

LEMMA BoundType ==
  ASSUME LanTypeInv
  PROVE  bound.in_flight \in Nat /\ bound.age \in Nat /\ bound.faults \in Nat
  BY LanAssumption DEF LanTypeInv, Bound

(* The image of a finite set under a function.                             *)
LEMMA ImageSmall ==
  ASSUME NEW S, IsFiniteSet(S), NEW f, f = [x \in S |-> f[x]]
  PROVE  IsFiniteSet(Range(f)) /\ Cardinality(Range(f)) <= Cardinality(S)
<1>1. f \in Surjection(S, Range(f))
  BY DEF Surjection, Range
<1> QED BY <1>1, FS_Surjection

LEMMA CopiesFinite ==
  ASSUME LanTypeInv, NEW n \in Nodes, NEW packet \in Packet
  PROVE  IsFiniteSet(Copies(n, packet)) /\ Copies(n, packet) \subseteq InFlight
<1> DEFINE Copy(m) == [by |-> n, from |-> n, to |-> m, packet |-> packet, age |-> 0]
           f == [m \in up \ {n} |-> Copy(m)]
<1>0. up \subseteq Nodes
  BY DEF LanTypeInv, LanInv
<1>1. IsFiniteSet(up \ {n})
  BY <1>0, LanAssumption, FS_Subset
<1>2. IsFiniteSet(Range(f))
  BY <1>1, ImageSmall
<1>3. Range(f) = {Copy(m) : m \in up \ {n}}
  BY DEF Range
<1>4. Copies(n, packet) = {Copy(m) : m \in up \ {n}} \/ Copies(n, packet) = {}
  BY DEF Copies
<1>5. {Copy(m) : m \in up \ {n}} \subseteq InFlight
  BY <1>0, LanAssumption, BoundType DEF InFlight
<1> HIDE DEF f, Copy
<1> QED BY <1>2, <1>3, <1>4, <1>5, FS_EmptySet

LEMMA SendSmall ==
  ASSUME NEW before, SmallNet(before), NEW copies, IsFiniteSet(copies),
         copies \subseteq InFlight, Send(before, copies)
  PROVE  SmallNet(net')
<1>1. PICK arriving \in SUBSET copies : net' = before \cup arriving
  BY DEF Send
<1>2. IsFiniteSet(arriving)
  BY FS_Subset
<1>3. IsFiniteSet(net')
  BY <1>1, <1>2, FS_Union DEF SmallNet
<1>4. net' \subseteq InFlight
  BY <1>1 DEF SmallNet
<1> QED BY <1>3, <1>4 DEF SmallNet, Send

LEMMA LessSmall ==
  ASSUME LanTypeInv, NEW messages, SmallNet(messages), NEW left \in SUBSET messages
  PROVE  SmallNet(left)
<1>1. IsFiniteSet(left) /\ Cardinality(left) <= Cardinality(messages)
  BY FS_Subset DEF SmallNet
<1>2. Cardinality(left) \in Nat /\ Cardinality(messages) \in Nat
  BY <1>1, FS_CardinalityType DEF SmallNet
<1> QED BY <1>1, <1>2, BoundType DEF SmallNet

(* Time passes: datagrams grow older, and those at the bound are gone.     *)
LEMMA TickSmall ==
  ASSUME LanTypeInv, LanTick
  PROVE  SmallNet(net')
<1> DEFINE young == {o \in net : o.age < bound.age}
           f == [o \in young |-> [o EXCEPT !.age = @ + 1]]
<1>1. SmallNet(young)
  BY LessSmall DEF LanTypeInv
<1>2. IsFiniteSet(Range(f)) /\ Cardinality(Range(f)) <= Cardinality(young)
  BY <1>1, ImageSmall DEF SmallNet
<1>3. net' = Range(f)
  BY DEF LanTick, Range
<1>4. ASSUME NEW m \in net'
      PROVE  m \in InFlight
  <2>1. PICK o \in young : m = [o EXCEPT !.age = @ + 1]
    BY DEF LanTick
  <2>2. o \in InFlight /\ o.age < bound.age
    BY DEF LanTypeInv, SmallNet
  <2> QED BY <2>1, <2>2, BoundType DEF InFlight
<1>5. Cardinality(Range(f)) \in Nat /\ Cardinality(young) \in Nat
  BY <1>1, <1>2, FS_CardinalityType DEF SmallNet
<1> HIDE DEF f
<1>6. Cardinality(net') <= bound.in_flight
  BY <1>1, <1>2, <1>3, <1>5, BoundType DEF SmallNet
<1> QED BY <1>2, <1>3, <1>4, <1>6 DEF SmallNet

LEMMA AnswerSmall ==
  ASSUME LanTypeInv, NEW m \in net, NEW left \in SUBSET net, Answer(m, left)
  PROVE  SmallNet(net')
<1> DEFINE answer == UNION {Copies(m.to, Adv(c)) : c \in config[m.to].local_cache}
<1>1. m.to \in Nodes /\ up \subseteq Nodes /\ config \in Setting
  BY DEF LanTypeInv, LanInv, GoodMessage
<1>2. config[m.to].local_cache \in Option(LocalCaches)
  BY <1>1 DEF Setting
<1>3. answer = {} \/ \E c \in LocalCaches : answer = Copies(m.to, Adv(c))
  BY <1>2 DEF Option
<1> HIDE DEF answer
<1>4. IsFiniteSet(answer) /\ answer \subseteq InFlight
  <2>1. CASE answer = {}
    BY <2>1, FS_EmptySet
  <2>2. CASE \E c \in LocalCaches : answer = Copies(m.to, Adv(c))
    BY <1>1, <2>2, CopiesFinite DEF Packet, SignedPacket
  <2> QED BY <1>3, <2>1, <2>2
<1>5. SmallNet(left)
  BY LessSmall DEF LanTypeInv
<1>6. Send(left, answer)
  BY DEF Answer, answer
<1> QED BY <1>4, <1>5, <1>6, SendSmall

LEMMA RelaySmall ==
  ASSUME LanTypeInv, NEW m \in net, Relay(m)
  PROVE  SmallNet(net')
<1>1. PICK a \in Addresses, n \in up : Send(net, {[m EXCEPT !.from = a, !.to = n]})
  BY DEF Relay
<1>2. m \in InFlight /\ n \in Nodes
  BY DEF LanTypeInv, SmallNet, LanInv
<1>3. {[m EXCEPT !.from = a, !.to = n]} \subseteq InFlight
  BY <1>2 DEF InFlight
<1>4. IsFiniteSet({[m EXCEPT !.from = a, !.to = n]})
  BY FS_Singleton
<1> QED BY <1>1, <1>3, <1>4, SendSmall DEF LanTypeInv

LEMMA DeliverTypes ==
  ASSUME LanTypeInv, NEW m \in net, Deliver(m)
  PROVE  SmallNet(net') /\ spared' \subseteq up' /\ UNCHANGED <<config, bound, faults>>
<1>1. PICK left \in {net, net \ {m}} :
        LET packet == Heeded(m)
        IN  \/ packet = Req            /\ Answer(m, left)
            \/ packet.type = "adv"     /\ TakeAdv(m, left, packet.binary_cache)
            \/ packet = Goodbye        /\ TakeGoodbye(m, left)
            \/ packet \notin Packet    /\ Ignore(left)
  BY DEF Deliver
<1> DEFINE packet == Heeded(m)
<1>2. left \in SUBSET net /\ SmallNet(left) /\ UNCHANGED <<config, bound, up, faults>>
  BY LessSmall DEF Deliver, LanTypeInv
<1>3. CASE Answer(m, left)
  BY <1>2, <1>3, AnswerSmall DEF Answer, LanTypeInv
<1>4. CASE packet.type = "adv" /\ TakeAdv(m, left, packet.binary_cache)
  <2>1. m.to \in up
    BY <1>4 DEF Heeded, Error
  <2> QED BY <1>2, <1>4, <2>1 DEF TakeAdv, LanTypeInv
<1>5. CASE TakeGoodbye(m, left) \/ Ignore(left)
  BY <1>2, <1>5 DEF TakeGoodbye, Ignore, LanTypeInv
<1> QED BY <1>1, <1>3, <1>4, <1>5

LEMMA NodeTypes ==
  ASSUME LanTypeInv, NEW n \in Nodes,
         \/ Start(n) \/ Interval(n) \/ Ask(n) \/ Wedge(n) \/ Land(n)
         \/ StartOver(n) \/ Shutdown(n) \/ Crash(n)
  PROVE  /\ SmallNet(net') /\ spared' \subseteq up' /\ UNCHANGED <<config, bound>>
         /\ faults' \in 0 .. bound.faults
<1> USE DEF LanTypeInv
<1>0. up \subseteq Nodes
  BY DEF LanInv
<1>1. CASE Start(n) \/ Interval(n) \/ Land(n)
  BY <1>1 DEF Start, Interval, IntervalDue, Land
<1>2. CASE StartOver(n) \/ Wedge(n)
  BY <1>2, BoundType DEF StartOver, Wedge
<1>3. CASE Ask(n)
  <2>1. Send(net, Copies(n, Req)) /\ UNCHANGED <<config, bound, up, spared, faults>>
    BY <1>3 DEF Ask
  <2>2. SmallNet(net')
    BY <1>0, <2>1, CopiesFinite, SendSmall DEF Packet
  <2> QED BY <2>1, <2>2
<1>4. CASE Shutdown(n) \/ Crash(n)
  <2>1. PICK last \in {Copies(n, Goodbye), {}} : Stop(n, last)
    BY <1>4 DEF Shutdown, Crash
  <2>2. IsFiniteSet(last) /\ last \subseteq InFlight
    BY <1>0, CopiesFinite, FS_EmptySet DEF Packet, SignedPacket
  <2>3. SmallNet(net')
    BY <2>1, <2>2, SendSmall DEF Stop
  <2>4. spared' \subseteq up' /\ UNCHANGED <<config, bound>> /\ faults' \in 0 .. bound.faults
    BY <2>1, BoundType DEF Stop
  <2> QED BY <2>3, <2>4
<1> QED BY <1>1, <1>2, <1>3, <1>4

LEMMA LanTypeInvNext == LanTypeInv /\ [LanNext]_lanVars => LanTypeInv'
<1> SUFFICES ASSUME LanTypeInv, [LanNext]_lanVars PROVE LanTypeInv'
  OBVIOUS
<1>1. LanInv'
  BY LanInvNext DEF LanTypeInv
<1>2. UNCHANGED bound => (SmallNet(net') => SmallNet(net)')
  BY DEF SmallNet, InFlight
<1>3. CASE UNCHANGED lanVars
  BY <1>1, <1>2, <1>3 DEF lanVars, LanTypeInv
<1>4. CASE LanTick
  BY <1>1, <1>2, <1>4, TickSmall DEF LanTick, LanTypeInv
<1>5. CASE \E n \in Nodes : \/ Start(n) \/ Interval(n) \/ Ask(n) \/ Wedge(n) \/ Land(n)
                            \/ StartOver(n) \/ Shutdown(n) \/ Crash(n)
  BY <1>1, <1>2, <1>5, NodeTypes DEF LanTypeInv
<1>6. CASE \E m \in net : Deliver(m)
  BY <1>1, <1>2, <1>6, DeliverTypes DEF LanTypeInv
<1>7. CASE \E m \in net : Relay(m)
  <2>1. PICK m \in net : Relay(m)
    BY <1>7
  <2>2. SmallNet(net')
    BY <2>1, RelaySmall
  <2>3. UNCHANGED <<config, bound, up, spared>> /\ faults < bound.faults /\ faults' = faults + 1
    BY <2>1 DEF Relay
  <2> QED BY <1>1, <1>2, <2>2, <2>3, BoundType DEF LanTypeInv
<1> QED BY <1>3, <1>4, <1>5, <1>6, <1>7 DEF LanNext

(* Only a node that runs asks or spares a request, what a node holds on    *)
(* record or in its batch is held against addresses of it, and the         *)
(* network holds whole datagrams within its bounds, whatever is lost,      *)
(* repeated or late (discover/mod.rs:140-184).                             *)
THEOREM LanTypeCorrect == LanSpec => []LanTypeOK
<1>1. LanInit => LanTypeInv
  <2> SUFFICES ASSUME LanInit PROVE LanTypeInv
    OBVIOUS
  <2>1. LanInv
    BY LanAssumption, NoPeersGood DEF LanInit, LanInv
  <2>2. bound \in Bound
    BY LanAssumption DEF LanInit
  <2>3. SmallNet(net)
    BY <2>2, FS_EmptySet DEF LanInit, SmallNet, Bound
  <2> QED BY <2>1, <2>2, <2>3 DEF LanInit, LanTypeInv, Bound
<1>2. LanTypeInv => LanTypeOK
  <2> SUFFICES ASSUME LanTypeInv PROVE LanTypeOK
    OBVIOUS
  <2>1. ASSUME NEW n \in Nodes
        PROVE  /\ DOMAIN peers[n].local_caches \subseteq Addresses
               /\ Range(peers[n].batch) \subseteq Addresses
    BY DEF LanTypeInv, LanInv, GoodPeers, Offered, Offer, Range
  <2> QED BY <2>1 DEF LanTypeInv, LanInv, LanTypeOK, SmallNet
<1> QED BY <1>1, <1>2, LanTypeInvNext, PTL DEF LanSpec
=============================================================================
