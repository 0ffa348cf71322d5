-------------------------------- MODULE Wire --------------------------------
(***************************************************************************)
(* The datagrams of src/discover/proto.rs and the keys of src/signing.rs,  *)
(* as pure operators: how a packet is turned into a datagram, and what a   *)
(* node that knows certain public keys, and has a clock of its own, makes  *)
(* of a datagram it receives.                                              *)
(*                                                                         *)
(* A datagram is a record of the parts the parser tells apart.  A          *)
(* signature names the key and the body it was made for: no other key and  *)
(* no other body verifies it.                                              *)
(***************************************************************************)
EXTENDS Integers

CONSTANTS
  Keys,          \* key pairs, each named once for both its halves
  LocalCaches,   \* what nodes advertise: a URL, or a port of their own
  SizeOf,        \* SizeOf[c]: bytes of the datagram that advertises c
  MaxTimeDiff    \* MAX_PACKAGE_TIME_DIFF, in seconds

ASSUME WireAssumption ==
  /\ \A c \in LocalCaches : c.advertise \in {"url", "ip"}
  /\ SizeOf \in [LocalCaches -> Nat]
  /\ MaxTimeDiff \in Nat

PACKET_MAXIMUM_REASONABLE_SIZE == 1024
UDP_MAX_DATAGRAM_SIZE == 65507

Adv(cache) == [type |-> "adv", binary_cache |-> cache]
Goodbye    == [type |-> "goodbye"]
Req        == [type |-> "req"]

SignedPacket == {Adv(c) : c \in LocalCaches} \cup {Goodbye}
Packet       == SignedPacket \cup {Req}

Error(e) == [type |-> e]

-----------------------------------------------------------------------------
(* KeyStore.  `public` has no duplicates, `private` has at most one key.   *)
NewKeyStore(public_keys, private_key) == [public |-> public_keys, private |-> private_key]

HasPrivateKey(store) == store.private # {}

Sign(store, body) == {[by |-> key, of |-> body] : key \in store.private}

(* Mutant: the body may be anybody's.                                      *)
VerifyAny(store, signature, body) == signature.of = body

Verify(store, signature, body) ==
  \E key \in store.public : signature = [by |-> key, of |-> body]

-----------------------------------------------------------------------------
Datagram(signature, content) ==
  [magic |-> TRUE, signature |-> signature, content |-> content]

Size(packet) == IF packet.type = "adv" THEN SizeOf[packet.binary_cache] ELSE 0

(* Packet::to_bytes.  Only a Req goes unsigned and without a timestamp.    *)
ToBytes(packet, store, now) ==
  LET body == [timestamp |-> now, msg |-> packet]
  IN  IF packet = Req THEN Datagram({}, [msg |-> packet])
      ELSE IF ~HasPrivateKey(store) THEN Error("MissingKey")
      ELSE IF Size(packet) > UDP_MAX_DATAGRAM_SIZE THEN Error("PackageTooBig")
      ELSE Datagram(Sign(store, body), body)

IsDatagram(d) == "magic" \in DOMAIN d

(* recv_from: what does not fit into the buffer is cut off, silently.      *)
Received(d, size) ==
  IF size > PACKET_MAXIMUM_REASONABLE_SIZE
  THEN [d EXCEPT !.content = [@ EXCEPT !.msg = Error("cut")]]
  ELSE d

(* Mutants: of two unsigned numbers, a - b is 0 where it would be          *)
(* negative; it wraps around.                                              *)
DiffSaturated(a, b) == IF a < b THEN 0 ELSE a - b
DiffWrapped(a, b)   == IF a < b THEN 2 ^ 30 ELSE a - b

Diff(a, b) == IF a < b THEN b - a ELSE a - b

(* Packet::parse.                                                          *)
Parse(d, store, now) ==
  IF ~d.magic THEN Error("InvalidHeader")
  ELSE IF d.signature = {}
       THEN IF d.content.msg = Req THEN Req ELSE Error("ParseBody")
  ELSE IF ~\E signature \in d.signature : Verify(store, signature, d.content)
       THEN Error("Verify")
  ELSE IF Diff(now, d.content.timestamp) > MaxTimeDiff THEN Error("TimestampDiff")
  ELSE IF d.content.msg \in SignedPacket THEN d.content.msg ELSE Error("ParseBody")
=============================================================================
