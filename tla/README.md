# A TLA+ model of cashewnix

cashewnix is an HTTP proxy for Nix binary caches. It forwards a request to the caches it
knows, best priority first, and it adds caches that other hosts of the local network
advertise by signed UDP broadcasts. This directory holds TLA+ modules for the program and
for several of it on one network, TLC configurations that check them on small instances, and
TLAPS proofs for any number of hosts, caches and requests.

Paths below are relative to the repository: `mod.rs` alone means
`src/binary_cache_proxy/mod.rs`.

## 1. Inventory

| Component | Code | State | Operations |
|---|---|---|---|
| Cache table | `mod.rs` 32-121 | `caches`: URL to metadata; `priority_map`: priority to URLs | insert, remove, look up, time out |
| URL interning | `src/binary_cache_proxy/dedup.rs` | set of URLs | `get_or_insert` |
| Manager task | `mod.rs` 242-362 | published table, `local_caches`, `batch`, `last_adv`, `interval` | load the configured caches; select! over interval, batch timer, reports, events |
| Batch timer | `src/util.rs` 9-51 | two channels of one message, the current sleep | set_timeout, expire |
| Debounce | `src/util.rs` 53-77, `src/discover/network.rs` 33-46 | two channels of one message, the current sleep | event, tick |
| Discover task | `src/discover/mod.rs` | `managed` interfaces, UDP socket, channel ends | announce a change, find interfaces, handle a datagram, broadcast, say goodbye |
| HTTP proxy | `mod.rs` 123-226 | per request: snapshot, `waiting_for`, requests in flight, deadline | try a bucket, answer, report, time out |
| Wire protocol | `src/discover/proto.rs`, `combinators.rs` | none | build and parse packets, timestamp window |
| Key store | `src/signing.rs` | trusted keys, own key | sign, verify |
| Program | `src/main.rs` | cancellation token, set of tasks, requests being drained | start, serve, signal, drain, join |
| Interfaces | `src/discover/network.rs` 51-123 | none (the kernel's) | list suitable addresses |
| Configuration | `src/config.rs` | none after loading | deserialise |

**Interaction.** The tasks of a node share one structure, the table in `server.caches`. The
manager is its only writer and replaces it as a whole (an `ArcSwap`); a request takes the
table that is current when it starts and keeps it. Everything else goes through tokio
channels of capacity 1, on which a sender waits *inside* the handler that sends:

```
 netlink listener --> debounce --> discover task --events--> manager task <--> batch timer
                                   |   ^           <-requests- manager task --table--> requests
                                   v   |                       manager task <-reports- requests
                              UDP broadcasts
```

**What is hard.** Two tasks that send to each other over full channels; a timer that is
reset, expires and is received by three tasks at once; advertisements held back in a batch
while the table changes underneath; two indexes of one set, edited by four handlers; a
handler whose deadline races its answers; reports based on an old table; a listener, a
discover task or a client that goes away in the middle of something; a shutdown that waits
for requests that wait for a task; datagrams that are lost, late, repeated and overtaken;
clocks that differ. The full list, with lines, is under `hazards` in `PROJECT.json`.

**What makes each part correct.**
- *Table and interning*: the two indexes agree; an insertion keeps what is known of a cache;
  a URL is in the table once.
- *Manager*: everything learned can be forgotten; nothing configured is lost or altered by
  what peers say; an advertised cache gets into the table.
- *Timers*: each signal is answered by a tick, after the right time, and none is lost.
- *Discover and node*: it behaves as the manager expects; nobody waits forever.
- *Proxy*: the best cache answers; only a cache that failed is reported; requests end.
- *Program*: it ends when it is asked to, and says goodbye after the last request.
- *Wire, keys, network*: a node lists what a trusted key signed recently and nothing else; a
  goodbye that was taken counts; nodes that stay find each other.

## 2. Modules

| Module | Models | Extends |
|---|---|---|
| `CacheTable` | the table as pure operators | |
| `Dedup` | the interning of URLs as pure operators | |
| `DynamicTimer` | the batch timer | |
| `Debounce` | the debounce and its listener | |
| `Coalesce` | *abstract*: signals in, ticks out | |
| `Channels` | the three channels of a node, `broadcast_req` | `CacheTable` |
| `CacheManager` | the manager and, as `Env...` actions, what it may assume of the others | `Channels`, `DynamicTimer` |
| `Peers` | *abstract*: the operations on what a node has heard of other hosts, as pure operators | |
| `PeerList` | *abstract*: the list that follows from the file, the events and the reports | `Peers` |
| `Discover` | the discover task towards its node | `Channels` |
| `Node` | manager, timer and discover task together | `CacheManager`, `Discover` |
| `Program` | `run` of `main.rs` around a node, with requests that have to end | `Node` |
| `Proxy` | concurrent requests; the manager reduced to its effect on the table | `CacheTable` |
| `Server` | manager and requests together, each in the place of the other's environment | `CacheManager`, instance of `Proxy` |
| `Wire` | packets, keys and clocks as pure operators | |
| `Lan` | several nodes on a network: the discover task towards the others, the manager as `Peers` | `Wire`, `Peers` |
| `..._proofs` | theorems | |
| `MC...` | instances for TLC | |

The modules form three views of one program. `Node` and `Program` show its tasks in full and
leave the inside of a request and of a datagram out. `Proxy` and `Server` show requests in
full. `Lan` shows datagrams in full and several nodes, each reduced to its `Peers`. They are
tied together by refinement: `Program` implements `Node`, `Node` and `Server` implement
`CacheManager`, `Server` implements `Proxy`, and `CacheManager` implements `PeerList`, whose
operations are those `Lan` is made of.

`PeerList` says what the senders of events and reports may rely on. A URL gets on the list
from the file, while the file is loaded, or from an Adv that was taken and has waited in the
batch; it gets off by a goodbye of the host it is on record for, by a network change, or by a
report, if the strategy of its cache is to be removed. Each event and report is taken once, in
order. It promises no more than the code does: the batch survives a goodbye and a network
change, and a URL that two hosts advertise is on record for one of them.

Operators whose comment begins with "Mutant:" are deliberately wrong variants of the
definition that follows them. They are used by no specification; substituting one for its
original has to make a property fail, which shows that the property depends on the code.

### How the models correspond to the code

**Atomicity.** tokio switches tasks at `.await` only, and threads share nothing but channels
and the table. An action therefore runs from one await that can block on another task to
the next: the Adv handler is `OnAdv`, which ends at `set_timeout(..).await`, and `NoteAdv`;
the handlers that broadcast a Req leave the manager in `"request"` until `SendReq`. In the
discover task the awaits are `"announce"` and `"emit"`. Sending a datagram waits only for
the socket and is no boundary. A `select!` is the choice between the actions enabled where
it stands; an `else` arm next to a branch that always matches (the sleeps in `mod.rs` 179
and `util.rs` 66) cannot be reached and has no action.

**Time** advances by `Tick`, `ProxyTick`, `TimerElapse` and `DebounceElapse`, in steps as
long as the second of the batch delay, and by `LanTick` in halves of a second, because packets
are stamped in whole ones. An `Instant` is kept as the ticks left until it. A step of a task
takes no time but may be delayed by any number of ticks. `Lan` has no timers: batches land
and intervals are due at any time.

**URLs** are model values: interning makes equal URLs equal pointers, so that a URL and its
`Unique<Url>` can be identified. `MCCacheTable` does not take that for granted: its calls
bring values, which `Dedup` turns into the addresses that the table is keyed by. **Loops**
over a batch or over `local_caches` are one operator each. For the removal, which has a
definition of its own, run `parts` checks, and `Parts_proofs` proves for any table and batch,
that it equals the fold of the single operation. An insertion of new caches is the same
operator for one cache and for many, so that there is nothing to check; that it does equal the
fold is a lemma (`InsertNewIsFold`). Where the order of a `HashMap` shows (`batch.drain()`
overwriting `local_caches`), the model chooses freely.

**Datagrams** are records of what the parser tells apart: the header, the signature, the
timestamp, the packet. A signature is the pair of a key and a body, so that nobody can sign
without the key and no signature fits another body. A datagram is made by `ToBytes` of its
sender and stays in flight as what it was made of; what a receiver makes of it is `Parse` of
`Received`, with its own clock, at the time it is delivered. What does not fit into the
receive buffer of 1024 bytes is cut off and then fails the verification.

**Addresses.** A signature covers a packet and not the address it comes from, and the code
takes from the socket both the address of an advertised port and the host a cache is held
against (`src/discover/mod.rs` 86, 92, 105). `Lan` keeps the two apart: a datagram is signed
by one node (`by`) and comes from some address (`from`), and `Relay` passes a packet on from
another address, within its time. What a node can rely on is therefore that the *content* was
signed by a host it trusts; the address is that of whoever passed the packet on last.
`Authentic` says so, and the statement of `README.md` 7-8 of the repository, that a broadcast
is added "if the message can be authenticated", is about the message only. The code passes
over datagrams that come from an address of its own (`discover/mod.rs` 228), and so does
`Heeded`.

**Stuck nodes.** `Wedge` stands in `Lan` for the circular wait that `Program` has in full
(finding 1): from then on the node asks, answers and hears nothing, and ends only by being
killed.

**The end of things.** When the discover task returns it drops its channel ends
(`DropDiscover`); a Req waiting in the channel is lost, and `broadcast_req` then fails and
cancels the program. A closed `addrs_changed` matches its branch at once, over and over
(`StartOver` with `"closed"`). A client that disconnects drops the handler where it stands.
When `run` returns, every other task is dropped. The manager task never returns before that,
and it owns the timer, so the failures of a send to either are not modelled.

**History variables**: `configured` and `listed` in `CacheManager`, `asked` and `answered` in
`Proxy`, `told` and `relayed` in `Lan`, and `since`, `wanted` and `quiet` in `MCParts`. No guard of the
code's actions reads them, with the exception that `EnvReport` reports, and `CacheFails`
needs, a URL that was once `listed`.

## 3. Runs

| Run | Instance | Shows |
|---|---|---|
| `parts` | timer with durations 1 and 3; debounce with quiet time 5; table and interning with 3 URLs and 3 priorities | timer and debounce implement `Coalesce`, sleep for the right time and lose nothing; the indexes agree after any calls; a URL is in the table once; the removal of many equals the loop |
| `manager_peers` | two hosts; one advertises a new cache, one a configured cache, which is configured twice | types, table, ownership, provenance, no lost wakeup, survival of configured caches, network change, and the refinement of `PeerList` |
| `manager_lands` | one host, fair | an advertised cache gets into the table, unless Advs without end hold the batch back or the Req is never accepted; the node goes on asking who is there |
| `server` | one host, a configured cache, one request | manager and requests each keep to what the module of the other assumes |
| `program` | one peer, 2 datagrams, 1 change of address, one request, the listener may end | the program implements the manager with its environment; the circular wait is final; the goodbye is last |
| `program_ends` | one peer, fair; with 1 datagram, one request and a listener that may end, and with Advs without end | it ends when it is asked to, or is in the circular wait; it lists what is advertised, or is in the circular wait or held back by further Advs |
| `program_stuck` | one peer, 2 datagrams, fair | **violated**: see finding 1 |
| `proxy` | 2 requests, 3 caches in 2 buckets | hits in order of priority; the late list is right about who answered |
| `proxy_end` | 2 requests, 2 caches in 2 buckets, with a manager and without one, fair | every request ends unless the manager stops taking reports |
| `proxy_late` | as `proxy` | **violated**: see finding 2 |
| `lan` | 2 nodes, 3 addresses, 4 settings of keys, clocks and caches | what is listed was advertised by a trusted host and is held against the address it came from; a goodbye that was taken counts until the next Adv, but for the batch; the time window is exact |
| `lan_meet` | 2 nodes, fair | nodes that stay up list each other, whoever starts first, unless one is stuck in the circular wait or Advs without end hold back what it heard |

### Bounds, and why they are enough

- *Channels* have the capacity of the code, which is 1.
- *Hosts and URLs*: handlers treat hosts alike and touch the entry of one host or of all of
  them, so two hosts make every pair of handlers meet, and three URLs give the table a
  bucket that is shared and one that is not. That two hosts may advertise one URL, or one
  host two URLs, is covered by the theorems of section 5, which hold for any number.
- *Durations*: `BatchDelay = RefreshTime = 1` in the manager; only the order of expiries
  matters, and a tick may come between any two steps. The timer itself is run with two
  different durations.
- `LagBound` caps how late the interval can be: with 1 a late manager sees two ticks in a
  row, with 0 (all runs but `manager_peers`) it does not catch up.
- `Outside` bounds what comes to a node from outside, as a set of settings. In `program` two
  datagrams come (they fill the event channel and block the task on the next), the addresses
  change once and one request is in flight, and the listener may end; requests meet the other
  tasks only in the report channel, which one fills, and in being waited for. `program_stuck`
  needs the two datagrams only. `program_ends` has two settings, as two inputs without end at
  once are beyond TLC: in one the listener may end, after which network changes are announced
  without end, with one datagram and one request; in the other Advs come without end, so that
  they can restart the delay of the batch for ever, and no request comes.
- `Bounds` of the network, also as a set. Untimed (`age = 0`): two datagrams in flight, so
  that one overtakes the other or is repeated after it; two faults, so that one node leaves
  and the other follows, gets stuck or changes its network, or a packet is passed on and a
  goodbye follows; one address that passes on a host's packets. Timed: one datagram, up to
  three halves of a second old. With the window of `MaxTimeDiff = 1` second (five in the
  code) and clocks that are equal, half a second and two and a half seconds apart, a datagram
  crosses the window in both directions. Starting again is not counted. `lan_meet` is
  untimed, because everything that happens again and again is young once, and has no packets
  passed on, of which there are finitely many at any bound.
- `SinceCap` caps the history `since` above the longest duration (`SinceCapAssumption`).
- Deadlock is checked where the system may not stop. It may in the runs of the program, when
  `run` has returned, and in those of the network, when nobody is left and the faults are used
  up. Elsewhere time can always pass, so that the check only finds a model without that step;
  the deadlock of the program is the predicate `CircularWait`.

### Fairness

Weak fairness is assumed of a step that stays enabled once it is: a wake-up is not lost by
the runtime, and time passes. Strong fairness is assumed of a branch of a `select!`: tokio's
`select!` polls its branches from a random one, so a branch that is ready again and again is
eventually taken, in the manager and in the discover task. The three kinds of events are one
branch: the head of their channel stays until it is taken. `FairProgramSpec` assumes this only
of the branches its properties need, and nothing of the interval, of changes of address and of
the receipt of datagrams. A request that has nothing to report ends, which is what
`RequestsEnd` shows of `Proxy`.

Nothing is assumed of the outside: caches need not answer, datagrams need not arrive,
addresses need not change, requests need not come, and nobody need ask the program to end. In
`Proxy` nothing is assumed of the manager either, so `RequestsEnd` has to name the case that it
stops. `FairLanSpec` is the exception it has to be: nodes meet only if the network is fair, so
a packet that is broadcast to a node infinitely often is assumed to reach it infinitely often.
Of the nodes it assumes what the code gives: the interval comes due; a node told to ask does,
unless it is or gets stuck (`Ask` is disabled then, and `Wedge` can happen any time before);
and while something waits in the batch, it lands or a further Adv is taken, which restarts its
delay. `NodesMeet` accordingly has three outcomes: one of the two is down or stuck again and
again (or for good), Advs without end hold a batch back, or each lists the other. Without
either of the first two TLC finds a counterexample.

## 4. Findings

1. **Circular wait (`program_stuck`).** `README.md` lines 7-8 say that an authenticated
   broadcast is added to the list of caches. The manager sends its Req from inside its
   `select!` loop (`mod.rs` 291, 335) and the discover task sends its events from inside its
   own (`src/discover/mod.rs` 91, 104, 184). With one message in each channel, each waits
   for the other to receive. It can happen as the program starts, without any time passing:
   the first tick of the interval puts a Req into the channel, the announced network change
   makes the manager send another one, and the discover task, finding both a Req and
   datagrams in its `select!`, takes two datagrams first. `CircularWaitIsFinal` shows that
   nothing ends it, cancellation included, and `program_ends` that nothing else keeps the
   program from ending: a signal then has no effect, since the discover task does not get to
   look at the token. Nothing else keeps an advertisement from being listed either, except
   further advertisements: each restarts the delay of the batch (`mod.rs` 352), and if they
   never pause for a second, the batch waits for good (`HeldBack`). The consequence for requests is
   the exception in `RequestsEnd`: reports fill their channel, and handlers that have to
   report wait without a deadline.
2. **Skipped caches count as late (`proxy_late`).** `waiting_for` starts as the whole bucket
   (`mod.rs` 137), but a timed-out cache is skipped (144-148). If the deadline passes it is
   logged as "Cache response exceeded deadline" (212) and reported, although it was never
   asked, so that its timeout starts anew with every request that is slow or misses.

One test says more than the code does. `debounce_sender_dropped_stops_output` (`src/util.rs`
244-267) accepts, in line 264, that the output closes without a tick for the event sent before
the sender went: "Task already exited before tick fired (race)". The code has no such race. A
closed channel gives up what is in it before `recv` returns `None`, so the event is taken; in
the inner loop the closed channel only disables its branch, and the `else` of line 67 is not
reached while the sleep is pending; so the tick is sent and the output closes after it.
`LastChangeDelivered` states that, and run `parts` shows it. As the test allows an outcome and
requires none, there is nothing for a run to violate: it is the comment that is wrong, and the
test would not notice a debounce that loses the last change.

## 5. Proofs

`tlapm` checks every proof. The constants are arbitrary up to the named assumptions:
priorities fit a `u8`, hosts advertise URLs, durations are positive, the configuration is a
sequence of hosts, 0 (the priority of local caches) is a priority, a host advertises at most
one cache and has at most one private key, the addresses of a network are finitely many and
those of its nodes are among them. Run
`parts` has two of its own: as many addresses as values, and both finitely many; and a
`SinceCap` no less than any duration.

Every safety property that a passing run checks is the conclusion of a theorem, mostly for
the specification of the run itself. What is proved of a part holds in the whole by the
refinements: `PartsKeepTheirSpecs`, `ProgramKeepsNode` and `ProgramKeepsManager`,
`ServerImplementsManager`, `ServerImplementsRequests`.

- `CacheTable_proofs`: each operator keeps a well-formed, consistent table well-formed and
  consistent, and what it does to the set of known caches and to the entries. The lemmas are
  cited wherever a table changes. `InsertAfterBatch` and `RemoveAfterBatch` say that a batch
  is the same as the batch without one of its caches, whichever, and then that cache.
- `DynamicTimer_proofs`: types of the timer, and that it implements `Coalesce`, for any
  durations and any use. The types suffice as invariant; each step is a signal, a tick, a
  merge of two signals, or a stutter.
- `Parts_proofs`, for the other properties of run `parts`:
  - the debounce has its types and implements `Coalesce`, as the timer does;
  - `QuietBeforeTickHolds` and `SleepsForLastTimeoutHolds` rest on `QuietInv` and `SleepInv`:
    while a task sleeps, what has passed since its last reset and what is left of the sleep
    make up the whole delay. The properties alone are not inductive, as they speak of the
    end of the sleep only;
  - `TableConsistentHolds`, `OneEntryPerUrlHolds` and `InsertKeepsTheRestHolds` rest on
    `CallsInv`: the table is a good one, the deduper holds each value once, and the table is
    keyed by addresses the deduper has handed out;
  - `BatchRemoveIsLoopHolds`. A fold is a function on the subsets
    of the batch; where it differs from the operator, it does so on a smallest subset
    (`LoopsAgree`), and the lemmas on batches exclude that. This takes the place of the
    induction that the prover does not do.
- `CacheManager_proofs`: three inductive invariants, and a refinement.
  - `TypeInv` is `TypeOK` with the consistency of the table, and that the manager holds an
    Adv in its hands when it is in `"arm"`. The consistency is needed for typing (a bucket
    is looked up by the priority of an entry), the other part for the types of what
    `NoteAdv` puts in the batch. `NoLostWakeup` is inductive on top of it.
  - `OwnInv` adds `Ownership`, that configured caches are in the table, that nothing is
    learned while loading, and `Sourced`: what is in the batch and in `local_caches` was
    advertised by that host. Only with `Sourced`, and for hosts that stick to one URL
    (`Sticky`), does a later advertisement of a host not overwrite the record of another
    cache.
  - `ProvInv` adds `Provenance`, and that while loading the table holds exactly the hosts
    read so far, so that an insertion that finds a cache finds a configured one. From then
    on priorities and strategies of known caches do not change, because `BatchTimeout`
    inserts only unknown ones.

  From these follow `TypeCorrect`, `TableConsistentHolds`, `OwnershipHolds`,
  `NoLostWakeupHolds`, `ProvenanceHolds`, and the action properties `ConfiguredSurviveHolds`
  and `NetworkChangeForgetsPeersHolds`. `KeepsPeerListHolds` is the refinement of `PeerList`:
  the mapping is a record, the first lemmas say how the operations of `Peers` act on its
  fields, and one step then treats each action of the manager. An Adv that the manager holds
  in its hands is still the head of the abstract channel (`inbox`), until `NoteAdv` takes it.
  `PeersInv` adds to `ProvInv` that the whole file has been read when the loading is over;
  with it a report removes a cache exactly if its strategy, that of the file or that of local
  caches, says so (`RemovesIsStrategy`). A batch is a single step of both, so no induction
  over it is needed.
- `Program_proofs`: `NodeImplementsManager` maps each step of the discover task to an `Env...`
  action or a stutter, with the invariant that the task runs exactly until it is `"ended"`
  and that it emits one event at a time. `CircularWaitIsFinalHolds` shows for every node what
  run `program` shows for one. With `ProgramImplementsNode`, all theorems on the manager and
  the node hold in the program (`ProgramKeepsNode`, `ProgramKeepsManager`).
  `GoodbyeAfterDrainHolds` needs `EndInv`: whoever cancels the token before `main` does, does
  so only when the discover task is gone already, because `broadcast_req` fails only then.
  `ProgramTypeCorrect` needs `ProgramInv`, which adds `TypeInv` and `DiscoverInv` to the types
  of `main` and the discover task, as these share the channels with the manager.
- `Proxy_proofs`: `ProxyInv` says of each request, on its own, that its snapshot is a good
  table, and that while a bucket `p` is tried everything the handler waits for or has asked
  is in the snapshot with priority `p`, everything in flight was asked, nothing that answered
  is waited for, and all buckets left are worse (`Tries`). It is inductive whatever the
  manager does, because a snapshot only ages. `LateIsSilentHolds`, `HitIsBestHolds` and
  `ProxyTypeCorrect` follow.
- `Server_proofs`: `ServerImplementsManager` and `ServerImplementsRequests` discharge what
  manager and requests assume of each other. `ServerInv` says that a request knows of listed
  caches only, however old its snapshot is, so that what it reports `EnvReport` allows; and
  that the table being loaded is `TableAfter` so many hosts, so that the requests find it as
  `ConfiguredTable` when the loading is over. The latter takes no induction: the sequence of
  hosts is loaded one per step, and `TableAfter` is a recursive function whose equation is
  shown by looking at its least counterexample. From `ProvInv` comes that the manager inserts
  unknown caches only.
- `Lan_proofs`: `AuthenticHolds`, `NoGhostsHolds` and `TimeWindowHolds`, for any number of
  nodes, addresses and datagrams and whatever the bounds are. `SignedUnderstood` says what a
  receiver makes of any signed datagram: one that is cut off has a body nobody signed, any
  other verifies exactly if its host is trusted. `LanInv` says that what is in flight could be
  made by its host and comes from its address or from one that passed it on; that all a node
  holds was so offered to it; that what it lists is on record, except at addresses that pass
  packets on; and that nothing of an address whose goodbye was its last word is on record or in
  the batch (`Left`). All of this stays true as more packets are passed on (`OfferGrows`). It
  needs that a host advertises one cache (`local_cache` is an `Option`, `src/config.rs` 73): a
  second one would have no record, and its goodbye would leave it listed, which is why an
  address that passes on packets of others is an exception of `NoGhosts`. The other exception
  is the batch: an Adv that waits in it when the goodbye comes still lands, and the host stays
  listed until a network change or, with that strategy, a failed request. A goodbye that is
  lost, or refused for its time, is not covered, as nothing in the code makes up for it.
  `LanTypeCorrect` adds in `LanTypeInv` that the datagrams in flight are a finite set within
  its bound; this is the one place that needs finitely many nodes, as a broadcast sends to each
  of them.

**Only model-checked** is what is claimed under fairness: `TickAfterQuiet`,
`LastChangeDelivered`, `BatchLands`, `KeepsAsking`, `AdvertisedIsListedOrStuck`,
`EndsWhenAsked`, `RequestsEnd` and `NodesMeet`. The prover handles neither fairness nor the
`ENABLED` in it. The two findings are counterexamples, which only TLC can show.

## 6. Not modelled

- *Bytes*: the layout of packets, MessagePack, base64 and the signature scheme. Datagrams are
  those that `to_bytes` makes, whole or cut off by the receive buffer.
- *The choice of interfaces*: `find_eligible_ips` and the filtering of netlink replies have no
  state and get their input from the kernel. `EligibleIps` is any set of addresses.
- *Interfaces in `Lan`*: a node has one address of its own. That a failing interface leaves the others
  without a packet is there as a packet that some of the receivers do not get; that it ends
  the discover task is in `Discover`.
- *Configuration files*: their values are constants, their reading is library code. A
  `discovery_refresh_time` of zero, which makes `tokio::time::interval` panic and ends the
  manager, is excluded by `ConfigAssumption`: nothing says what it should mean.
- *The program without `local_binary_caches`*: there is no manager and no discover task then.
  What remains is `Proxy` with `managed = FALSE`.
- *Three and more nodes* are beyond TLC for `NodesMeet`. `PROJECT.json` lists the hazard that
  remains there: an Adv spares a host its Req whoever sent it, so that a third host may never
  be asked by the two others.
- *HTTP*: contents of messages, `cache_info` (a constant string), logging; the NixOS module
  and its VM tests.
