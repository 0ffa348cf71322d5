---------------------------- MODULE Parts_proofs ----------------------------
(***************************************************************************)
(* The three parts that depend on no other, for all values of their        *)
(* constants: the debounce implements Coalesce, as the timer does, and     *)
(* both keep to their delays; any sequence of calls on the deduper and the *)
(* table of caches keeps each URL in the table once; and the operators     *)
(* that stand for the loops of the manager are those loops, for any order. *)
(***************************************************************************)
EXTENDS MCParts, CacheTable_proofs, DynamicTimer_proofs, FiniteSetTheorems

(* The part that a behaviour of MCParts is about does what it does alone,  *)
(* and the other two do nothing: what is proved of each alone holds there. *)
THEOREM PartsKeepTheirSpecs == MCSpec => TimerSpec /\ DebounceSpec /\ CallsSpec
<1>1. MCInit => TimerInit /\ DebounceInit /\ CallsInit
  BY DEF MCInit
<1>2. ASSUME [MCNext]_mcVars
      PROVE  [TimerNext]_timerVars /\ [DebounceNext]_debounceVars /\ [CallsNext]_callVars
  <2>1. CASE MCSet \/ MCQuiet \/ MCRecv
    BY <2>1 DEF MCSet, MCQuiet, MCRecv, MCTimer, TimerNext
  <2>2. CASE MCArm \/ MCExpire \/ MCElapse
    BY <2>2 DEF MCArm, MCExpire, MCElapse, MCTimer, TimerNext
  <2>3. CASE MCDebounce
    BY <2>3 DEF MCDebounce
  <2>4. CASE MCTable
    BY <2>4 DEF MCTable
  <2>5. CASE UNCHANGED mcVars
    BY <2>5 DEF mcVars
  <2> QED BY <1>2, <2>1, <2>2, <2>3, <2>4, <2>5 DEF MCNext
<1> QED BY <1>1, <1>2, PTL DEF MCSpec, TimerSpec, DebounceSpec, CallsSpec

-----------------------------------------------------------------------------
LEMMA DebounceTypeStep ==
  ASSUME DebounceTypeOK, [DebounceNext]_debounceVars
  PROVE  DebounceTypeOK'
<1> USE QuietTimeAssumption DEF DebounceTypeOK
<1>1. CASE AddressEvent \/ ListenerEnds
  BY <1>1 DEF AddressEvent, ListenerEnds
<1>2. CASE StartQuiet \/ QuietOver
  BY <1>2 DEF StartQuiet, QuietFor, QuietOver
<1>3. CASE SendDebounced \/ SendFails \/ DebounceEnds \/ DebounceElapse
  BY <1>3 DEF SendDebounced, SendWith, SendFails, DebounceEnds, EndFrom, DebounceElapse
<1>4. CASE RecvDebounced \/ ReceiverEnds \/ UNCHANGED debounceVars
  BY <1>4 DEF RecvDebounced, ReceiverEnds, debounceVars
<1> QED BY <1>1, <1>2, <1>3, <1>4 DEF DebounceNext

(* Signals that no tick has answered: one in the channel, and one that the *)
(* task is busy with.                                                      *)
pending == IF out_open THEN stream + (IF phase \in {"quiet", "send"} THEN 1 ELSE 0) ELSE 0

debounceView == <<pending, out = 1, out_open>>

LEMMA DebounceStepCoalesces ==
  ASSUME DebounceTypeOK, [DebounceNext]_debounceVars
  PROVE  DebounceSignals!Next \/ UNCHANGED debounceView
<1> USE DEF debounceView, pending
<1>1. pending \in Nat /\ stream \in {0, 1} /\ out \in {0, 1}
  BY DEF DebounceTypeOK
<1>2. CASE AddressEvent
  <2>1. CASE out_open
    <3>1. DebounceSignals!Signal
      BY <1>1, <1>2, <2>1 DEF AddressEvent, DebounceSignals!Signal
    <3> QED BY <3>1 DEF DebounceSignals!Next
  <2>2. CASE ~out_open
    BY <1>2, <2>2 DEF AddressEvent
  <2> QED BY <2>1, <2>2
<1>3. CASE StartQuiet
  <2>1. /\ stream = 1 /\ stream' = 0 /\ phase' = "quiet" /\ phase \in {"idle", "quiet"}
        /\ UNCHANGED <<out, out_open>>
    BY <1>3 DEF StartQuiet, QuietFor
  <2>2. CASE out_open /\ phase = "quiet"
    <3>1. DebounceSignals!Merge
      BY <2>1, <2>2 DEF DebounceSignals!Merge
    <3> QED BY <3>1 DEF DebounceSignals!Next
  <2>3. CASE ~out_open \/ phase = "idle"
    BY <2>1, <2>3
  <2> QED BY <2>1, <2>2, <2>3
<1>4. CASE SendDebounced
  <2>1. DebounceSignals!Emit
    BY <1>1, <1>4 DEF SendDebounced, SendWith, DebounceSignals!Emit
  <2> QED BY <2>1 DEF DebounceSignals!Next
<1>5. CASE RecvDebounced
  <2>1. DebounceSignals!Take
    BY <1>5 DEF RecvDebounced, DebounceSignals!Take
  <2> QED BY <2>1 DEF DebounceSignals!Next
<1>6. CASE ReceiverEnds
  <2>1. DebounceSignals!Close
    BY <1>6 DEF ReceiverEnds, DebounceSignals!Close
  <2> QED BY <2>1 DEF DebounceSignals!Next
<1>7. CASE ListenerEnds \/ QuietOver \/ SendFails \/ DebounceEnds \/ DebounceElapse
  BY <1>7 DEF ListenerEnds, QuietOver, SendFails, DebounceEnds, EndFrom, DebounceElapse
<1>8. CASE UNCHANGED debounceVars
  BY <1>8 DEF debounceVars
<1> QED BY <1>2, <1>3, <1>4, <1>5, <1>6, <1>7, <1>8 DEF DebounceNext

(* The debounce's channels never hold more than one message and its sleep  *)
(* is never longer than the quiet time, whichever end goes first           *)
(* (util.rs:50-72).                                                        *)
THEOREM DebounceTypeCorrect == DebounceSpec => []DebounceTypeOK
<1>1. DebounceInit => DebounceTypeOK
  BY QuietTimeAssumption DEF DebounceInit, DebounceTypeOK
<1>2. DebounceTypeOK /\ [DebounceNext]_debounceVars => DebounceTypeOK'
  BY DebounceTypeStep
<1> QED BY <1>1, <1>2, PTL DEF DebounceSpec

(* A burst of address changes, of any length, gives at least one tick and  *)
(* never more ticks than changes; and the last change is not forgotten     *)
(* when the listener ends in the middle of the burst (util.rs:56-72).      *)
THEOREM DebounceCoalescesHolds == DebounceSpec => DebounceCoalesces
<1>1. DebounceInit => DebounceSignals!Init
  BY DEF DebounceInit, DebounceSignals!Init
<1>2. DebounceTypeOK /\ [DebounceNext]_debounceVars => [DebounceSignals!Next]_debounceView
  BY DebounceStepCoalesces
<1> QED BY <1>1, <1>2, DebounceTypeCorrect, PTL
    DEF DebounceSpec, DebounceCoalesces, DebounceSignals!Spec, debounceView, pending

(* While the task sleeps, the sleep is over no earlier than the quiet time *)
(* after the last event it received.                                       *)
QuietInv ==
  /\ DebounceTypeOK
  /\ since \in 0 .. SinceCap
  /\ part # "debounce" => phase = "idle"
  /\ phase = "quiet" => since + timer >= QuietTime
  /\ phase = "send" => since >= QuietTime

LEMMA QuietInvNext ==
  ASSUME QuietInv, [MCNext]_mcVars
  PROVE  QuietInv'
<1> USE QuietTimeAssumption, SinceCapAssumption
<1>1. CASE MCDebounce
  <2>1. part = "debounce" /\ part' = part /\ DebounceNext
    BY <1>1 DEF MCDebounce
  <2>2. DebounceTypeOK'
    BY <2>1, DebounceTypeStep DEF QuietInv
  <2>3. IF stream' < stream THEN since' = 0
        ELSE IF timer' < timer THEN MCLater ELSE UNCHANGED since
    BY <1>1 DEF MCDebounce
  <2>4. since' \in 0 .. SinceCap
    BY <2>3 DEF QuietInv, MCLater
  <2>5. /\ phase' = "quiet" => since' + timer' >= QuietTime
        /\ phase' = "send" => since' >= QuietTime
    <3> USE DEF QuietInv, DebounceTypeOK
    <3>1. CASE StartQuiet
      BY <2>3, <3>1 DEF StartQuiet, QuietFor
    <3>2. CASE QuietOver
      BY <2>3, <3>2 DEF QuietOver
    <3>3. CASE SendDebounced \/ SendFails \/ DebounceEnds
      BY <2>3, <3>3 DEF SendDebounced, SendWith, SendFails, DebounceEnds, EndFrom
    <3>4. CASE DebounceElapse
      BY <2>3, <3>4 DEF DebounceElapse, MCLater
    <3>5. CASE AddressEvent \/ ListenerEnds \/ RecvDebounced \/ ReceiverEnds
      BY <2>3, <3>5 DEF AddressEvent, ListenerEnds, RecvDebounced, ReceiverEnds
    <3> QED BY <2>1, <3>1, <3>2, <3>3, <3>4, <3>5 DEF DebounceNext
  <2> QED BY <2>1, <2>2, <2>4, <2>5 DEF QuietInv
<1>2. CASE ~MCDebounce
  <2>1. UNCHANGED <<debounceVars, part>> /\ (part = "timer" \/ UNCHANGED since)
    BY <1>2
    DEF MCNext, MCSet, MCQuiet, MCRecv, MCArm, MCExpire, MCElapse, MCTimer, MCTable, mcVars
  <2>2. since' \in 0 .. SinceCap
    BY <1>2
    DEF MCNext, MCSet, MCQuiet, MCRecv, MCArm, MCExpire, MCElapse, MCLater, MCTable, mcVars,
        QuietInv
  <2> QED BY <2>1, <2>2 DEF QuietInv, DebounceTypeOK, debounceVars
<1> QED BY <1>1, <1>2

(* The tick of a burst of any length leaves no earlier than the quiet time *)
(* after the last of it (util.rs:62-68).                                   *)
THEOREM QuietBeforeTickHolds == MCSpec => []QuietBeforeTick
<1>1. MCInit => QuietInv
  BY QuietTimeAssumption, SinceCapAssumption
  DEF MCInit, DebounceInit, QuietInv, DebounceTypeOK
<1>2. QuietInv => QuietBeforeTick
  BY DEF QuietInv, QuietBeforeTick
<1> QED BY <1>1, <1>2, QuietInvNext, PTL DEF MCSpec

-----------------------------------------------------------------------------
(* The timer.                                                              *)
(* While the task sleeps, what is left of the sleep and what has passed    *)
(* make up the duration it took up last.                                   *)
SleepInv ==
  /\ TimerTypeOK
  /\ since \in 0 .. SinceCap /\ wanted \in 0 .. SinceCap
  /\ part # "timer" => next_timeout = Pending
  /\ next_timeout # Pending => since + next_timeout >= wanted

LEMMA SleepInvNext ==
  ASSUME SleepInv, [MCNext]_mcVars
  PROVE  SleepInv'
<1> USE SinceCapAssumption, DurationsAssumption
<1>1. TimerTypeOK'
  <2>1. [TimerNext]_timerVars
    BY DEF MCNext, MCSet, MCQuiet, MCRecv, MCArm, MCExpire, MCElapse, MCTimer, TimerNext,
           MCDebounce, MCTable, mcVars
  <2> QED BY <2>1, TimerTypeStep DEF SleepInv, TimerNext
<1>2. CASE MCSet \/ MCQuiet \/ MCRecv \/ UNCHANGED mcVars
  <2>1. UNCHANGED <<next_timeout, part, since, wanted>>
    BY <1>2 DEF MCSet, SetTimeout, MCQuiet, MCRecv, RecvTick, MCTimer, timerVars, mcVars
  <2> QED BY <1>1, <2>1 DEF SleepInv
<1>3. CASE MCArm
  <2>1. /\ since' = 0 /\ wanted' = Head(timeout_rx) /\ next_timeout' = Head(timeout_rx)
        /\ part' = part /\ part = "timer" /\ timeout_rx # <<>>
    BY <1>3 DEF MCArm, MCTimer, TimerArm, ArmWith
  <2>2. Head(timeout_rx) \in Durations
    BY <2>1 DEF SleepInv, TimerTypeOK
  <2>3. \A d \in Durations : d \in 0 .. SinceCap
    OBVIOUS
  <2>4. Head(timeout_rx) \in 0 .. SinceCap
    BY <2>2, <2>3
  <2> QED BY <1>1, <2>1, <2>4 DEF SleepInv
<1>4. CASE MCExpire
  BY <1>1, <1>4 DEF MCExpire, MCTimer, TimerExpire, ExpireWith, SleepInv
<1>5. CASE MCElapse
  <2>1. since' \in 0 .. SinceCap /\ UNCHANGED <<part, wanted>> /\ part = "timer"
    BY <1>5 DEF MCElapse, MCTimer, MCLater, SleepInv
  <2>2. next_timeout' # Pending => since' + next_timeout' >= wanted
    BY <1>5 DEF MCElapse, TimerElapse, MCLater, SleepInv, TimerTypeOK, Pending
  <2> QED BY <1>1, <2>1, <2>2 DEF SleepInv
<1>6. CASE MCDebounce \/ MCTable
  <2>1. UNCHANGED <<next_timeout, part, wanted>> /\ part # "timer" /\ since' \in 0 .. SinceCap
    BY <1>6 DEF MCDebounce, MCTable, MCLater, timerVars, SleepInv
  <2> QED BY <1>1, <2>1 DEF SleepInv
<1> QED BY <1>2, <1>3, <1>4, <1>5, <1>6 DEF MCNext

(* A tick is the end of a whole sleep of the last duration that was set,   *)
(* however often and when it was set before (util.rs:26).                  *)
THEOREM SleepsForLastTimeoutHolds == MCSpec => SleepsForLastTimeout
<1>1. MCInit => SleepInv
  BY SinceCapAssumption DEF MCInit, TimerInit, SleepInv, TimerTypeOK
<1>2. SleepInv /\ [MCNext]_mcVars =>
        [next_timeout # Pending /\ next_timeout' = Pending => since >= wanted]_mcVars
  <2> SUFFICES ASSUME SleepInv, [MCNext]_mcVars, next_timeout # Pending, next_timeout' = Pending
               PROVE  since >= wanted
    OBVIOUS
  <2>1. CASE MCExpire
    BY <2>1 DEF MCExpire, TimerExpire, ExpireWith, SleepInv, Pending
  <2>2. CASE MCArm
    <3>1. next_timeout' \in Durations
      BY <2>2 DEF MCArm, TimerArm, ArmWith, SleepInv, TimerTypeOK
    <3> QED BY <3>1, DurationsAssumption DEF Pending
  <2>3. CASE MCElapse
    BY <2>3 DEF MCElapse, TimerElapse, SleepInv, TimerTypeOK, Pending
  <2>4. CASE MCSet \/ MCQuiet \/ MCRecv \/ MCDebounce \/ MCTable \/ UNCHANGED mcVars
    BY <2>4 DEF MCSet, SetTimeout, MCQuiet, MCRecv, RecvTick, MCDebounce, MCTable, timerVars, mcVars
  <2> QED BY <2>1, <2>2, <2>3, <2>4 DEF MCNext
<1> QED BY <1>1, <1>2, SleepInvNext, PTL DEF MCSpec, SleepsForLastTimeout

-----------------------------------------------------------------------------
(* The deduper: values come in any number of times, each has one address.  *)
Interned(vs) ==
  /\ vs \in Seq(Values)
  /\ \A i, j \in DOMAIN vs : vs[i] = vs[j] => i = j

(* There are enough addresses for the values.                              *)
LEMMA AddressIsUrl ==
  ASSUME NEW vs, Interned(vs)
  PROVE  DOMAIN vs \subseteq Urls
<1>1. vs \in Injection(DOMAIN vs, Values)
  <2>1. vs \in [DOMAIN vs -> Values]
    BY DEF Interned
  <2>2. IsInjective(vs)
    BY DEF Interned, IsInjective
  <2> QED BY <2>1, <2>2 DEF Injection
<1>2. Cardinality(DOMAIN vs) <= Cardinality(Values)
  BY <1>1, FS_Injection, AddressesAssumption
<1>3. DOMAIN vs = 1 .. Len(vs) /\ Len(vs) \in Nat
  BY DEF Interned
<1>4. Cardinality(DOMAIN vs) = Len(vs)
  <2>1. Cardinality(1 .. Len(vs)) = IF 1 > Len(vs) THEN 0 ELSE Len(vs) - 1 + 1
    BY <1>3, FS_Interval
  <2> QED BY <1>3, <2>1
<1>5. Cardinality(Values) \in Nat
  BY AddressesAssumption, FS_CardinalityType
<1> QED BY <1>2, <1>3, <1>4, <1>5, AddressesAssumption

(* get_or_insert returns the address of the value, which it makes if there *)
(* is none, and moves no other (dedup.rs:31-55).                           *)
LEMMA GetOrInsertInterns ==
  ASSUME NEW vs, Interned(vs), NEW value \in Values,
         NEW unique, unique = GetOrInsert(vs, value)
  PROVE  /\ Interned(unique.values)
         /\ unique.ptr \in DOMAIN unique.values
         /\ unique.values[unique.ptr] = value
         /\ DOMAIN vs \subseteq DOMAIN unique.values
         /\ \A i \in DOMAIN vs : unique.values[i] = vs[i]
<1>1. CASE \E ptr \in DOMAIN vs : vs[ptr] = value
  <2>1. /\ unique.values = vs
        /\ unique.ptr = CHOOSE ptr \in DOMAIN vs : vs[ptr] = value
    BY <1>1 DEF GetOrInsert
  <2>2. unique.ptr \in DOMAIN vs /\ vs[unique.ptr] = value
    BY <1>1, <2>1
  <2> QED BY <2>1, <2>2
<1>2. CASE \A ptr \in DOMAIN vs : vs[ptr] # value
  <2>1. unique.values = Append(vs, value) /\ unique.ptr = Len(vs) + 1
    BY <1>2 DEF GetOrInsert, Allocate
  <2>2. /\ vs \in Seq(Values) /\ DOMAIN vs = 1 .. Len(vs) /\ Len(vs) \in Nat
        /\ \A i, j \in DOMAIN vs : vs[i] = vs[j] => i = j
    BY DEF Interned
  <2> DEFINE longer == Append(vs, value)
  <2>3. /\ longer \in Seq(Values) /\ DOMAIN longer = 1 .. Len(vs) + 1
        /\ \A i \in DOMAIN vs : longer[i] = vs[i]
        /\ longer[Len(vs) + 1] = value
    BY <2>2
  <2> HIDE DEF longer
  <2>4. Interned(longer)
    <3> SUFFICES ASSUME NEW i \in DOMAIN longer, NEW j \in DOMAIN longer, longer[i] = longer[j]
                 PROVE  i = j
      BY <2>3 DEF Interned
    <3>1. \A k \in DOMAIN longer : k \in DOMAIN vs \/ k = Len(vs) + 1
      BY <2>2, <2>3
    <3> QED BY <1>2, <2>2, <2>3, <3>1
  <2>5. unique.values = longer
    BY <2>1 DEF longer
  <2>6. unique.ptr \in DOMAIN unique.values /\ DOMAIN vs \subseteq DOMAIN unique.values
    BY <2>1, <2>2, <2>3, <2>5
  <2> QED BY <2>1, <2>3, <2>4, <2>5, <2>6
<1> QED BY <1>1, <1>2

-----------------------------------------------------------------------------
(* Any sequence of calls.                                                  *)
IsTable(t) == t = [caches |-> t.caches, priority_map |-> t.priority_map]

CallsInv ==
  /\ GoodTable(table) /\ IsTable(table)
  /\ Interned(values)
  /\ Known(table) \subseteq DOMAIN values

LEMMA StrategiesAreGood == MCStrategies \subseteq ErrorStrategy
  BY DEF MCStrategies, ErrorStrategy

LEMMA CallsInvInit == CallsInit => CallsInv
<1> SUFFICES ASSUME CallsInit PROVE CallsInv
  OBVIOUS
<1>1. table = EmptyTable /\ values = <<>>
  BY DEF CallsInit, NoValues
<1>2. GoodTable(table) /\ IsTable(table)
  BY <1>1, EmptyTableGood DEF IsTable, EmptyTable
<1>3. Interned(values)
  BY <1>1 DEF Interned
<1>4. Known(table) = {}
  BY <1>1 DEF Known, EmptyTable, NoCaches
<1> QED BY <1>2, <1>3, <1>4 DEF CallsInv

LEMMA CallInsertKeeps ==
  ASSUME CallsInv, NEW url \in Values, NEW p \in Priorities, NEW s \in MCStrategies,
         CallInsert(p, s, url)
  PROVE  CallsInv'
<1> DEFINE unique == GetOrInsert(values, url)
<1>1. table' = InsertCache(table, p, s, unique.ptr) /\ values' = unique.values
  BY DEF CallInsert
<1>2. /\ Interned(values') /\ unique.ptr \in DOMAIN values'
      /\ DOMAIN values \subseteq DOMAIN values'
  BY <1>1, GetOrInsertInterns DEF CallsInv
<1>3. unique.ptr \in Urls /\ s \in ErrorStrategy
  BY <1>2, AddressIsUrl, StrategiesAreGood
<1> HIDE DEF unique
<1>4. GoodTable(table') /\ Known(table') = Known(table) \cup {unique.ptr}
  BY <1>1, <1>3, InsertCacheGood DEF CallsInv
<1>5. IsTable(table')
  BY <1>1 DEF CallsInv, IsTable, InsertCache, EnterCaches
<1>6. Known(table') \subseteq DOMAIN values'
  BY <1>2, <1>4 DEF CallsInv
<1> QED BY <1>2, <1>4, <1>5, <1>6 DEF CallsInv

LEMMA LessKeepsCalls ==
  ASSUME CallsInv, GoodTable(table'), IsTable(table'), Keeps(table, table'), UNCHANGED values
  PROVE  CallsInv'
  BY DEF CallsInv, Keeps, Interned

LEMMA CallsInvNext == CallsInv /\ [CallsNext]_callVars => CallsInv'
<1> SUFFICES ASSUME CallsInv, [CallsNext]_callVars PROVE CallsInv'
  OBVIOUS
<1>1. ASSUME NEW url \in Values, NEW p \in Priorities, NEW s \in MCStrategies,
             CallInsert(p, s, url)
      PROVE  CallsInv'
  BY <1>1, CallInsertKeeps
<1>2. ASSUME NEW u, CallRemove(u)
      PROVE  CallsInv'
  <2>1. table' = RemoveCache(table, u) /\ UNCHANGED values
    BY <1>2 DEF CallRemove
  <2>2. IsTable(table')
    BY <2>1 DEF CallsInv, IsTable, RemoveCache
  <2> QED BY <2>1, <2>2, RemoveCacheGood, LessKeepsCalls DEF CallsInv
<1>3. ASSUME NEW u, CallReport(u)
      PROVE  CallsInv'
  <2>1. table' = ApplyErrorStrategy(table, u) /\ UNCHANGED values
    BY <1>3 DEF CallReport
  <2>2. IsTable(table')
    BY <2>1 DEF CallsInv, IsTable, ApplyErrorStrategy, RemoveCache, TimeOutCache
  <2> QED BY <2>1, <2>2, ApplyErrorStrategyGood, LessKeepsCalls DEF CallsInv
<1>4. CASE table' = AgeTable(table) /\ UNCHANGED values
  <2>1. IsTable(table')
    BY <1>4 DEF CallsInv, IsTable, AgeTable
  <2> QED BY <1>4, <2>1, AgeTableGood, LessKeepsCalls DEF CallsInv
<1>5. CASE UNCHANGED callVars
  BY <1>5 DEF callVars, CallsInv
<1> QED BY <1>1, <1>2, <1>3, <1>4, <1>5 DEF CallsNext

LEMMA CallsInvHolds == CallsSpec => []CallsInv
  BY CallsInvInit, CallsInvNext, PTL DEF CallsSpec

(* However a CacheData is used, its two indexes agree, so that none of the *)
(* panics and unwraps that rely on it is hit (mod.rs:77, 103, 142).        *)
THEOREM TableConsistentHolds == CallsSpec => []TableConsistent
<1>1. CallsInv => TableConsistent
  BY DEF CallsInv, GoodTable, TableConsistent
<1> QED BY <1>1, CallsInvHolds, PTL

(* A URL, however often and from wherever it is entered, is one cache of   *)
(* the table (dedup.rs:31-55, 75; mod.rs:251, 353).                        *)
THEOREM OneEntryPerUrlHolds == CallsSpec => []OneEntryPerUrl
<1>1. CallsInv => OneEntryPerUrl
  BY DEF CallsInv, Interned, OneEntryPerUrl
<1> QED BY <1>1, CallsInvHolds, PTL

(* insert_cache never forgets that a cache is timed out nor how it is to   *)
(* be treated on an error, and touches no other cache (mod.rs:71-96).      *)
THEOREM InsertKeepsTheRestHolds == CallsSpec => []InsertKeepsTheRest
<1>1. CallsInv => InsertKeepsTheRest
  <2> SUFFICES ASSUME CallsInv, NEW u \in Urls, NEW p \in Priorities, NEW s \in MCStrategies
               PROVE  LET t == InsertCache(table, p, s, u)
                      IN  /\ Known(t) = Known(table) \cup {u}
                          /\ t.caches[u].priority = p
                          /\ \A v \in Known(table) :
                               /\ t.caches[v].error_strategy = table.caches[v].error_strategy
                               /\ t.caches[v].timed_out_until = table.caches[v].timed_out_until
                               /\ v # u => t.caches[v].priority = table.caches[v].priority
    BY DEF InsertKeepsTheRest
  <2>1. GoodTable(table) /\ s \in ErrorStrategy
    BY StrategiesAreGood DEF CallsInv
  <2> QED BY <2>1, InsertCacheGood, InsertCacheMeta
<1> QED BY <1>1, CallsInvHolds, PTL

-----------------------------------------------------------------------------
(* The loops of the manager, which iterate over sets in any order: a fold  *)
(* is a function on the subsets of a set that is given by its values on    *)
(* smaller ones.                                                           *)
LEMMA LoopsAgree ==
  ASSUME NEW S, IsFiniteSet(S), NEW f, NEW g, f[{}] = g[{}],
         \A set \in (SUBSET S) \ {{}} : \E x \in set : f[set \ {x}] = g[set \ {x}] => f[set] = g[set]
  PROVE  f[S] = g[S]
<1> DEFINE bad   == {set \in SUBSET S : f[set] # g[set]}
           sizes == {Cardinality(set) : set \in bad}
<1>1. \A set \in SUBSET S : IsFiniteSet(set) /\ Cardinality(set) \in Nat
  BY FS_Subset, FS_CardinalityType
<1>2. SUFFICES ASSUME bad # {} PROVE FALSE
  OBVIOUS
<1>3. sizes \subseteq Nat /\ sizes # {}
  BY <1>1, <1>2
<1>4. PICK n \in sizes : \A m \in sizes : n <= m
  <2> HIDE DEF sizes
  <2> QED BY <1>3, LeastExists
<1>5. PICK set \in bad : Cardinality(set) = n
  OBVIOUS
<1>6. PICK x \in set : f[set \ {x}] = g[set \ {x}] => f[set] = g[set]
  <2>1. set \in (SUBSET S) \ {{}}
    BY <1>5
  <2> QED BY <2>1
<1>7. Cardinality(set \ {x}) = Cardinality(set) - 1
  BY <1>1, <1>5, <1>6, FS_RemoveElement
<1>8. set \ {x} \in SUBSET S /\ set \ {x} \notin bad
  <2>1. Cardinality(set) \in Nat
    BY <1>1, <1>5
  <2>2. ~ (n <= Cardinality(set \ {x}))
    BY <1>5, <1>7, <2>1
  <2> QED BY <1>4, <2>2
<1> QED BY <1>5, <1>6, <1>8

InsertFold(t, p, s, us) == FoldSet(LAMBDA u, left : InsertCache(left, p, s, u), t, us)

InsertLoop(t, p, s, us, f) ==
  f = [set \in SUBSET us |->
         IF set = {} THEN t
         ELSE InsertCache(f[set \ {CHOOSE u \in set : TRUE}], p, s, CHOOSE u \in set : TRUE)]

LEMMA InsertFoldIsLoop ==
  ASSUME NEW t, NEW p, NEW s, NEW us
  PROVE  InsertFold(t, p, s, us) = (CHOOSE f : InsertLoop(t, p, s, us, f))[us]
  BY DEF InsertFold, FoldSet, MapThenFoldSet, InsertLoop

(* EnterCaches enters unknown caches together as insert_cache enters each  *)
(* alone, so that the step for a drained batch is its loop (mod.rs:300-304)*)
LEMMA InsertNewIsFold ==
  ASSUME NEW t, NEW p, NEW s, NEW us, IsFiniteSet(us), us \cap Known(t) = {}
  PROVE  InsertNewCaches(t, p, s, us) = InsertFold(t, p, s, us)
<1> DEFINE h == [set \in SUBSET us |-> InsertNewCaches(t, p, s, set)]
           g == CHOOSE f : InsertLoop(t, p, s, us, f)
<1>1. ASSUME NEW set \in SUBSET us, NEW x \in set
      PROVE  h[set] = InsertCache(h[set \ {x}], p, s, x)
  <2>1. x \notin Known(t) /\ x \notin set \ {x} /\ (set \ {x}) \cup {x} = set
    OBVIOUS
  <2>2. InsertCache(InsertNewCaches(t, p, s, set \ {x}), p, s, x) = InsertNewCaches(t, p, s, set)
    BY <2>1, InsertAfterBatch
  <2> QED BY <2>2
<1>2. h[{}] = t
  BY DEF InsertNewCaches
<1>3. h[us] = InsertNewCaches(t, p, s, us) /\ h = [set \in SUBSET us |-> h[set]]
  OBVIOUS
<1> HIDE DEF h
<1>4. InsertLoop(t, p, s, us, h)
  <2> DEFINE step(set) == IF set = {} THEN t
                          ELSE InsertCache(h[set \ {CHOOSE u \in set : TRUE}], p, s,
                                           CHOOSE u \in set : TRUE)
  <2>1. ASSUME NEW set \in SUBSET us
        PROVE  h[set] = step(set)
    BY <1>1, <1>2
  <2>2. h = [set \in SUBSET us |-> step(set)]
    BY <1>3, <2>1
  <2> QED BY <2>2 DEF InsertLoop
<1>5. InsertLoop(t, p, s, us, g)
  BY <1>4
<1> HIDE DEF g
<1>6. \A set \in (SUBSET us) \ {{}} :
        \E x \in set : g[set \ {x}] = h[set \ {x}] => g[set] = h[set]
  <2> SUFFICES ASSUME NEW set \in (SUBSET us) \ {{}}
               PROVE  \E x \in set : g[set \ {x}] = h[set \ {x}] => g[set] = h[set]
    OBVIOUS
  <2> DEFINE x == CHOOSE u \in set : TRUE
  <2>1. x \in set
    OBVIOUS
  <2>2. g[set] = InsertCache(g[set \ {x}], p, s, x)
    BY <1>5 DEF InsertLoop
  <2> HIDE DEF x
  <2>3. h[set] = InsertCache(h[set \ {x}], p, s, x)
    BY <1>1, <2>1
  <2> QED BY <2>1, <2>2, <2>3
<1>7. g[{}] = h[{}]
  BY <1>2, <1>5 DEF InsertLoop
<1>8. g[us] = h[us]
  BY <1>6, <1>7, LoopsAgree
<1> QED BY <1>3, <1>8, InsertFoldIsLoop DEF g

RemoveFold(t, us) == FoldSet(LAMBDA u, left : RemoveCache(left, u), t, us)

RemoveLoop(t, us, f) ==
  f = [set \in SUBSET us |->
         IF set = {} THEN t
         ELSE RemoveCache(f[set \ {CHOOSE u \in set : TRUE}], CHOOSE u \in set : TRUE)]

LEMMA RemoveFoldIsLoop ==
  ASSUME NEW t, NEW us
  PROVE  RemoveFold(t, us) = (CHOOSE f : RemoveLoop(t, us, f))[us]
  BY DEF RemoveFold, FoldSet, MapThenFoldSet, RemoveLoop

LEMMA RemoveIsFold ==
  ASSUME NEW t, GoodTable(t), IsTable(t), NEW us, IsFiniteSet(us)
  PROVE  RemoveCaches(t, us) = RemoveFold(t, us)
<1> DEFINE h == [set \in SUBSET us |-> RemoveCaches(t, set)]
           g == CHOOSE f : RemoveLoop(t, us, f)
<1>1. ASSUME NEW set \in SUBSET us, NEW x \in set
      PROVE  h[set] = RemoveCache(h[set \ {x}], x)
  <2>1. (set \ {x}) \cup {x} = set
    OBVIOUS
  <2>2. RemoveCache(RemoveCaches(t, set \ {x}), x) = RemoveCaches(t, set)
    BY <2>1, RemoveAfterBatch
  <2> QED BY <2>2
<1>2. h[{}] = t
  BY RemoveNone DEF IsTable
<1>3. h[us] = RemoveCaches(t, us) /\ h = [set \in SUBSET us |-> h[set]]
  OBVIOUS
<1> HIDE DEF h
<1>4. RemoveLoop(t, us, h)
  <2> DEFINE step(set) == IF set = {} THEN t
                          ELSE RemoveCache(h[set \ {CHOOSE u \in set : TRUE}],
                                           CHOOSE u \in set : TRUE)
  <2>1. ASSUME NEW set \in SUBSET us
        PROVE  h[set] = step(set)
    BY <1>1, <1>2
  <2>2. h = [set \in SUBSET us |-> step(set)]
    BY <1>3, <2>1
  <2> QED BY <2>2 DEF RemoveLoop
<1>5. RemoveLoop(t, us, g)
  BY <1>4
<1> HIDE DEF g
<1>6. \A set \in (SUBSET us) \ {{}} :
        \E x \in set : g[set \ {x}] = h[set \ {x}] => g[set] = h[set]
  <2> SUFFICES ASSUME NEW set \in (SUBSET us) \ {{}}
               PROVE  \E x \in set : g[set \ {x}] = h[set \ {x}] => g[set] = h[set]
    OBVIOUS
  <2> DEFINE x == CHOOSE u \in set : TRUE
  <2>1. x \in set
    OBVIOUS
  <2>2. g[set] = RemoveCache(g[set \ {x}], x)
    BY <1>5 DEF RemoveLoop
  <2> HIDE DEF x
  <2>3. h[set] = RemoveCache(h[set \ {x}], x)
    BY <1>1, <2>1
  <2> QED BY <2>1, <2>2, <2>3
<1>7. g[{}] = h[{}]
  BY <1>2, <1>5 DEF RemoveLoop
<1>8. g[us] = h[us]
  BY <1>6, <1>7, LoopsAgree
<1> QED BY <1>3, <1>8, RemoveFoldIsLoop DEF g

LEMMA UrlsFinite ==
  ASSUME NEW us \in SUBSET Urls
  PROVE  IsFiniteSet(us)
<1>1. IsFiniteSet(1 .. Cardinality(Values))
  BY AddressesAssumption, FS_CardinalityType, FS_Interval
<1> QED BY <1>1, AddressesAssumption, FS_Subset

(* The manager's one step for the removal of the caches of all peers is    *)
(* the loop that the code is, for any number of them; by RemoveAfterBatch, *)
(* any may come last, so that the order is free (mod.rs:330-333).          *)
THEOREM BatchRemoveIsLoopHolds == CallsSpec => []BatchRemoveIsLoop
<1>1. CallsInv => BatchRemoveIsLoop
  <2>1. ASSUME CallsInv, NEW us \in SUBSET Urls
        PROVE  RemoveCaches(table, us) = RemoveFold(table, us)
    BY <2>1, UrlsFinite, RemoveIsFold DEF CallsInv
  <2> QED BY <2>1 DEF BatchRemoveIsLoop, RemoveFold
<1> QED BY <1>1, CallsInvHolds, PTL
=============================================================================
