--------------------------- MODULE Program_proofs ---------------------------
(***************************************************************************)
(* The node implements the specification of its manager, so everything     *)
(* proved of the manager holds in the node; and a circular wait, once      *)
(* reached, never ends.  The program of main.rs does nothing to the tasks  *)
(* of the node that Node does not allow for, so that all of this holds in  *)
(* the program too; and it says goodbye last.                              *)
(***************************************************************************)
EXTENDS Program, CacheManager_proofs

(* The discover task holds its channels until it ends, and has an event at *)
(* hand when it is about to send one.                                      *)
DiscoverInv ==
  /\ discover_up <=> discover # "ended"
  /\ discover = "emit" => \E event \in Event : emitting = <<event>>

LEMMA DiscoverInvInit == NodeInit => DiscoverInv
  BY DEF NodeInit, Init, ChannelsInit, DiscoverInit, DiscoverInv

LEMMA DiscoverInvNext ==
  ASSUME DiscoverInv, [NodeNext]_nodeVars
  PROVE  DiscoverInv'
<1> USE DEF DiscoverInv
<1>1. CASE ManagerStep
  <2>1. UNCHANGED discover_up
    BY <1>1 DEF ManagerStep, ManagerNext, LoadHost, SpawnManager, IntervalTick,
                IntervalDue, BatchTimeout, DrainBatch, BadCache, Treat,
                OnNetworkChanged, TakeEvent, OnGoodbye, OnAdv, NoteAdv, PutInBatch,
                SendReq, BroadcastReq, TimerTask, Tick, channelVars
  <2> QED BY <1>1, <2>1 DEF ManagerStep, discoverVars
<1>2. CASE DiscoverStep
  <2>1. DiscoverNext
    BY <1>2 DEF DiscoverStep
  <2>2. CASE RecvEvent
    BY <2>2 DEF RecvEvent, Receive, channelVars
  <2>3. CASE EndOnCancel \/ BroadcastFails
    BY <2>3 DEF EndOnCancel, BroadcastFails, DropDiscover
  <2>4. CASE Announce \/ FindIps \/ StartOver \/ Broadcast \/ RecvNoEvent \/ Emit
    BY <2>4 DEF Announce, FindIps, StartOver, Broadcast, RecvNoEvent, Receive, Emit,
                EmitWith, channelVars
  <2> QED BY <2>1, <2>2, <2>3, <2>4 DEF DiscoverNext
<1>3. CASE ListenerStep
  BY <1>3 DEF ListenerStep, ListenerNext, AddrsChange, ListenerEnds, channelVars
<1>4. CASE RestStep
  BY <1>4 DEF RestStep, EnvReport, EnvCancel, discoverVars
<1>5. CASE UNCHANGED nodeVars
  BY <1>5 DEF nodeVars, vars, channelVars, discoverVars
<1> QED BY <1>1, <1>2, <1>3, <1>4, <1>5 DEF NodeNext

-----------------------------------------------------------------------------
LEMMA NodeStepIsManagerStep ==
  ASSUME DiscoverInv, [NodeNext]_nodeVars
  PROVE  [Next]_vars
<1>1. CASE ManagerStep
  BY <1>1 DEF ManagerStep, Next
<1>2. CASE DiscoverStep
  <2>0. DiscoverNext /\ loaded = Len(BinaryCaches) /\ UNCHANGED <<managerVars, timerVars>>
    BY <1>2 DEF DiscoverStep
  <2>1. CASE Announce
    <3>1. NetworkChanged \in Event /\ discover_up
      BY <2>1 DEF Event, Announce, DiscoverInv
    <3>2. EnvEvent
      BY <2>0, <2>1, <3>1 DEF Announce, EnvEvent
    <3> QED BY <3>2 DEF Next, EnvNext
  <2>2. CASE Emit
    <3>1. PICK event \in Event : emitting = <<event>>
      BY <2>2 DEF Emit, EmitWith, DiscoverInv
    <3>2. discover_up /\ HasRoom(events) /\ events' = events \o <<event>>
      BY <2>2, <3>1 DEF Emit, EmitWith, DiscoverInv
    <3>3. events \o <<event>> = Append(events, event)
      OBVIOUS
    <3>4. EnvEvent
      BY <2>0, <2>2, <3>2, <3>3 DEF Emit, EmitWith, EnvEvent
    <3> QED BY <3>4 DEF Next, EnvNext
  <2>3. CASE EndOnCancel \/ BroadcastFails
    <3>1. EnvDiscoverEnds
      BY <2>0, <2>3 DEF EndOnCancel, BroadcastFails, EnvDiscoverEnds
    <3> QED BY <3>1 DEF Next, EnvNext
  <2>4. CASE Broadcast
    <3>1. EnvTakeRequest
      BY <2>0, <2>4 DEF Broadcast, EnvTakeRequest, DiscoverInv
    <3> QED BY <3>1 DEF Next, EnvNext
  <2>5. CASE FindIps \/ StartOver \/ RecvNoEvent \/ RecvEvent
    BY <2>0, <2>5 DEF FindIps, StartOver, RecvNoEvent, RecvEvent, vars
  <2> QED BY <2>0, <2>1, <2>2, <2>3, <2>4, <2>5 DEF DiscoverNext
<1>3. CASE ListenerStep
  BY <1>3 DEF ListenerStep, ListenerNext, AddrsChange, ListenerEnds, vars
<1>4. CASE RestStep
  BY <1>4 DEF RestStep, Next, EnvNext
<1>5. CASE UNCHANGED nodeVars
  BY <1>5 DEF nodeVars
<1> QED BY <1>1, <1>2, <1>3, <1>4, <1>5 DEF NodeNext

(* The discover task, for any datagrams, address changes and failures,     *)
(* keeps to what the manager's specification expects of its environment.   *)
THEOREM NodeImplementsManager == NodeSpec => ManagerSpec
<1>1. NodeInit => Init
  BY DEF NodeInit
<1>2. DiscoverInv /\ [NodeNext]_nodeVars => [Next]_vars
  BY NodeStepIsManagerStep
<1>3. DiscoverInv /\ [NodeNext]_nodeVars => DiscoverInv'
  BY DiscoverInvNext
<1> QED BY <1>1, <1>2, <1>3, DiscoverInvInit, PTL DEF NodeSpec, ManagerSpec, Spec

(* No step of any task leaves a circular wait: the manager cannot finish   *)
(* its send and the discover task cannot finish its own.                   *)
THEOREM CircularWaitIsFinalHolds == NodeSpec => CircularWaitIsFinal
<1>1. ASSUME CircularWait, [NodeNext]_nodeVars
      PROVE  CircularWait'
  <2> USE DEF CircularWait
  <2>1. CASE ManagerStep
    <3>1. TimerTask \/ Tick
      BY <1>1, <2>1
      DEF ManagerStep, ManagerNext, LoadHost, SpawnManager, IntervalTick,
          IntervalDue, BatchTimeout, DrainBatch, BadCache, Treat, OnNetworkChanged,
          TakeEvent, OnGoodbye, OnAdv, NoteAdv, PutInBatch, SendReq, BroadcastReq
    <3>2. UNCHANGED <<manager, requests, events, discover_up, discover>>
      BY <2>1, <3>1 DEF ManagerStep, TimerTask, Tick, managerVars, channelVars, discoverVars
    <3> QED BY <1>1, <3>2 DEF HasRoom
  <2>2. ~DiscoverStep
    BY <1>1
    DEF DiscoverStep, DiscoverNext, Announce, FindIps, EndOnCancel, StartOver,
        Broadcast, BroadcastFails, RecvNoEvent, RecvEvent, Receive, Emit, EmitWith
  <2>3. CASE ListenerStep
    BY <1>1, <2>3 DEF ListenerStep, ListenerNext, AddrsChange, ListenerEnds, managerVars,
       channelVars, HasRoom
  <2>4. CASE RestStep
    BY <1>1, <2>4 DEF RestStep, EnvReport, EnvCancel, managerVars, discoverVars, HasRoom
  <2>5. CASE UNCHANGED nodeVars
    BY <1>1, <2>5 DEF nodeVars, vars, managerVars, channelVars, discoverVars, HasRoom
  <2> QED BY <1>1, <2>1, <2>2, <2>3, <2>4, <2>5 DEF NodeNext
<1>2. [NodeNext]_nodeVars => [CircularWait => CircularWait']_nodeVars
  BY <1>1
<1> QED BY <1>2, PTL DEF NodeSpec, CircularWaitIsFinal

-----------------------------------------------------------------------------
(* A step of the program that is not one of a task of the node cancels the *)
(* token, reports a cache, or does nothing to the node.                    *)
LEMMA ProgramStepIsNodeStep ==
  ASSUME [ProgramNext]_programVars
  PROVE  [NodeNext]_nodeVars
<1>1. CASE While(ManagerStep \/ DiscoverStep \/ ListenerStep)
  BY <1>1 DEF While, NodeNext
<1>2. CASE Drain \/ Drained
  <2>1. cancelled' = cancelled \/ cancelled' = TRUE
    BY <1>2 DEF Drain, DrainWhen, Drained
  <2>2. UNCHANGED <<managerVars, timerVars, events, requests, reports, discover_up,
                    discoverVars>>
    BY <1>2 DEF Drain, DrainWhen, Drained
  <2>3. CASE cancelled' = cancelled
    BY <2>2, <2>3 DEF nodeVars, vars, channelVars
  <2>4. CASE cancelled' # cancelled
    <3>1. cancelled' = TRUE
      BY <2>1, <2>4
    <3>2. CASE cancelled
      <4>1. cancelled' = cancelled
        BY <3>1, <3>2
      <4> QED BY <2>4, <4>1
    <3>3. CASE ~cancelled
      BY <2>2, <3>1, <3>3 DEF NodeNext, RestStep, EnvCancel
    <3> QED BY <3>2, <3>3
  <2> QED BY <2>3, <2>4
<1>3. CASE StartFails \/ Serve \/ Join \/ Signal
  BY <1>3 DEF StartFails, Serve, Join, Signal
<1>4. CASE Accept \/ CacheFails \/ HandlerEnds
  BY <1>4 DEF Accept, CacheFails, HandlerEnds
<1>5. CASE Report
  BY <1>5 DEF Report, NodeNext, RestStep
<1>6. CASE UNCHANGED programVars
  BY <1>6 DEF programVars
<1> QED BY <1>1, <1>2, <1>3, <1>4, <1>5, <1>6 DEF ProgramNext, MainNext, HandlerNext

(* What is proved of a node holds in the program.                          *)
THEOREM ProgramImplementsNode == ProgramSpec => NodeSpec
<1>1. ProgramInit => NodeInit
  BY DEF ProgramInit
<1>2. [ProgramNext]_programVars => [NodeNext]_nodeVars
  BY ProgramStepIsNodeStep
<1> QED BY <1>1, <1>2, PTL DEF ProgramSpec, NodeSpec

(* In the whole program, the manager meets the environment it is proved    *)
(* for, so that the theorems of CacheManager_proofs are about the program; *)
(* and a circular wait is not ended by main either (main.rs:66-82).        *)
THEOREM ProgramKeepsNode == ProgramSpec => ManagerSpec /\ CircularWaitIsFinal
  BY ProgramImplementsNode, NodeImplementsManager, CircularWaitIsFinalHolds, PTL

(* The safety of the manager, as a property of the whole program: whatever *)
(* main, the discover task and the requests do, the indexes of the table   *)
(* agree, what was learned can be forgotten, no batch is left without a    *)
(* tick, and the configured caches stay as configured (mod.rs:242-362).    *)
THEOREM ProgramKeepsManager ==
  ProgramSpec => /\ [](TableConsistent /\ Ownership /\ NoLostWakeup /\ Provenance)
                 /\ ConfiguredSurvive /\ NetworkChangeForgetsPeers /\ KeepsPeerList
<1>1. ProgramSpec => Spec
  BY ProgramKeepsNode DEF ManagerSpec
<1> QED BY <1>1, TableConsistentHolds, OwnershipHolds, NoLostWakeupHolds, ProvenanceHolds,
           ConfiguredSurviveHolds, NetworkChangeForgetsPeersHolds, KeepsPeerListHolds, PTL

-----------------------------------------------------------------------------
(* Nobody but main tells the discover task to end.  A task that fails      *)
(* cancels the token as well, but only when the discover task is gone.     *)
EndInv ==
  /\ discover_up \/ discover = "ended"
  /\ cancelled => discover = "ended" \/ main \in {"join", "exit"}

LEMMA EndInvManager ==
  ASSUME EndInv, ManagerStep, UNCHANGED main
  PROVE  EndInv'
<1>1. UNCHANGED discover
  BY DEF ManagerStep, discoverVars
<1>2. UNCHANGED <<discover_up, cancelled>> \/ (BroadcastReq /\ UNCHANGED discover_up)
  <2>1. CASE LoadHost \/ SpawnManager \/ IntervalTick \/ NoteAdv \/ TimerTask \/ Tick
    BY <2>1
    DEF LoadHost, SpawnManager, IntervalTick, IntervalDue, NoteAdv, PutInBatch, TimerTask,
        Tick, channelVars
  <2>2. CASE BatchTimeout \/ BadCache
    BY <2>2 DEF BatchTimeout, DrainBatch, BadCache, Treat, channelVars
  <2>3. CASE OnNetworkChanged \/ OnGoodbye \/ OnAdv
    BY <2>3 DEF OnNetworkChanged, OnGoodbye, OnAdv, TakeEvent
  <2>4. CASE SendReq
    BY <2>4 DEF SendReq, BroadcastReq
  <2> QED BY <2>1, <2>2, <2>3, <2>4 DEF ManagerStep, ManagerNext
<1> QED BY <1>1, <1>2 DEF EndInv, BroadcastReq

LEMMA EndInvDiscover ==
  ASSUME EndInv, DiscoverStep, UNCHANGED main
  PROVE  EndInv'
<1>1. CASE Announce \/ FindIps \/ StartOver \/ Broadcast \/ RecvNoEvent \/ RecvEvent \/ Emit
  BY <1>1
  DEF EndInv, Announce, FindIps, StartOver, Broadcast, RecvNoEvent, RecvEvent, Receive, Emit,
      EmitWith, channelVars
<1>2. CASE EndOnCancel \/ BroadcastFails
  BY <1>2 DEF EndInv, EndOnCancel, BroadcastFails
<1> QED BY <1>1, <1>2 DEF DiscoverStep, DiscoverNext

LEMMA EndInvNext ==
  ASSUME EndInv, [ProgramNext]_programVars
  PROVE  EndInv'
<1>1. CASE While(ManagerStep \/ DiscoverStep \/ ListenerStep)
  <2>1. UNCHANGED main
    BY <1>1 DEF While, mainVars
  <2>2. CASE ListenerStep
    BY <2>1, <2>2
    DEF EndInv, ListenerStep, ListenerNext, AddrsChange, ListenerEnds, channelVars
  <2> QED BY <1>1, <2>1, <2>2, EndInvManager, EndInvDiscover DEF While
<1>2. CASE MainNext
  BY <1>2
  DEF EndInv, MainNext, StartFails, Serve, Drain, DrainWhen, Drained, Join, nodeVars, vars,
      channelVars, discoverVars
<1>3. CASE Signal \/ Accept \/ CacheFails \/ HandlerEnds \/ UNCHANGED programVars
  BY <1>3
  DEF EndInv, Signal, Accept, CacheFails, HandlerEnds, programVars, mainVars, nodeVars, vars,
      channelVars, discoverVars
<1>4. CASE Report
  BY <1>4 DEF EndInv, Report, EnvReport, discoverVars
<1> QED BY <1>1, <1>2, <1>3, <1>4 DEF ProgramNext, HandlerNext

(* No host is told goodbye while requests are still served or left to end, *)
(* whichever tasks fail and in whatever order (main.rs:66, 70).            *)
THEOREM GoodbyeAfterDrainHolds == ProgramSpec => GoodbyeAfterDrain
<1>1. ProgramInit => EndInv
  BY DEF ProgramInit, NodeInit, Init, ChannelsInit, EndInv
<1>2. EndInv /\ [ProgramNext]_programVars => [EndOnCancel => main = "join"]_programVars
  <2> SUFFICES ASSUME EndInv, ProgramNext, EndOnCancel
               PROVE  main = "join"
    OBVIOUS
  <2>1. main # "exit"
    BY DEF ProgramNext, While, MainNext, StartFails, Serve, Drain, DrainWhen, Drained, Join,
           Signal, HandlerNext, Accept, CacheFails, Report, HandlerEnds
  <2> QED BY <2>1 DEF EndInv, EndOnCancel
<1> QED BY <1>1, <1>2, EndInvNext, PTL DEF ProgramSpec, GoodbyeAfterDrain

-----------------------------------------------------------------------------
(* What comes from outside in one behaviour is settled by its setting.     *)
LEMMA SettingSame ==
  ASSUME [NodeNext]_nodeVars
  PROVE  UNCHANGED outside
<1>1. CASE DiscoverStep
  BY <1>1
  DEF DiscoverStep, DiscoverNext, Announce, FindIps, EndOnCancel, StartOver, Broadcast,
      BroadcastFails, RecvNoEvent, RecvEvent, Receive, Emit, EmitWith, inputVars
<1>2. CASE ListenerStep
  BY <1>2 DEF ListenerStep, ListenerNext, AddrsChange, ListenerEnds, inputVars
<1>3. CASE ManagerStep \/ RestStep \/ UNCHANGED nodeVars
  BY <1>3 DEF ManagerStep, RestStep, nodeVars, discoverVars, inputVars
<1> QED BY <1>1, <1>2, <1>3 DEF NodeNext

LEMMA SettingTypes ==
  ASSUME outside \in Outside
  PROVE  outside.datagrams \in Nat /\ outside.changes \in Nat /\ outside.handlers \in Nat
  BY DiscoverAssumption DEF Setting

(* The discover task only ever sends the manager events that the network   *)
(* can give rise to: an address change, or an Adv or a Goodbye of another  *)
(* host (discover/mod.rs:91, 104, 184).                                    *)
LEMMA DiscoverTypeInit == ProgramInit => DiscoverTypeOK
  BY SettingTypes
  DEF ProgramInit, NodeInit, DiscoverInit, DiscoverTypeOK, IsChannel, Capacity

LEMMA DiscoverTypeStutter ==
  ASSUME DiscoverTypeOK, UNCHANGED discoverVars
  PROVE  DiscoverTypeOK'
  BY DEF DiscoverTypeOK, discoverVars, inputVars, IsChannel

LEMMA OneInChannel ==
  ASSUME NEW Message, NEW m \in Message
  PROVE  IsChannel(<<m>>, Message)
  BY DEF IsChannel, Capacity

LEMMA NoneInChannel ==
  ASSUME NEW Message
  PROVE  IsChannel(<<>>, Message)
  BY DEF IsChannel, Capacity

LEMMA DiscoverTypeStep ==
  ASSUME DiscoverTypeOK, DiscoverNext
  PROVE  DiscoverTypeOK'
<1> USE DiscoverAssumption
<1>1. CASE Announce \/ FindIps \/ EndOnCancel \/ StartOver \/ Broadcast \/ BroadcastFails
  <2>1. UNCHANGED <<emitting, inputVars>> /\ managed' \in SUBSET OwnIps
    BY <1>1
    DEF Announce, FindIps, EligibleIps, EndOnCancel, StartOver, Broadcast, BroadcastFails,
        DiscoverTypeOK
  <2>2. /\ discover' \in {"announce", "find", "select", "emit", "ended"}
        /\ addrs_changed' \in {"empty", "tick", "closed"}
    BY <1>1
    DEF Announce, FindIps, EndOnCancel, StartOver, Broadcast, BroadcastFails, DiscoverTypeOK
  <2> QED BY <2>1, <2>2 DEF DiscoverTypeOK, IsChannel, inputVars
<1>0. ASSUME NEW bounded, Receive(bounded)
      PROVE  UNCHANGED <<outside, changes>> /\ datagrams' \in 0 .. outside.datagrams
  BY <1>0, SettingTypes DEF Receive, DiscoverTypeOK
<1>2. CASE RecvNoEvent
  BY <1>0, <1>2 DEF RecvNoEvent, DiscoverTypeOK, IsChannel
<1>3. CASE RecvEvent
  <2>1. PICK event \in Event : emitting' = <<event>>
    BY <1>3 DEF RecvEvent
  <2>2. IsChannel(emitting', Event)
    BY <2>1, OneInChannel
  <2>3. /\ discover' = "emit" /\ datagrams' \in 0 .. outside.datagrams
        /\ UNCHANGED <<managed, addrs_changed, outside, changes>>
    BY <1>0, <1>3 DEF RecvEvent
  <2> QED BY <2>2, <2>3 DEF DiscoverTypeOK
<1>4. CASE Emit
  <2>1. /\ emitting' = <<>> /\ discover' = "select"
        /\ UNCHANGED <<managed, addrs_changed, outside, datagrams, changes>>
    BY <1>4 DEF Emit, EmitWith, inputVars
  <2>2. IsChannel(emitting', Event)
    BY <2>1, NoneInChannel
  <2> QED BY <2>1, <2>2 DEF DiscoverTypeOK
<1> QED BY <1>1, <1>2, <1>3, <1>4 DEF DiscoverNext

LEMMA DiscoverTypeNext ==
  ASSUME DiscoverTypeOK, [NodeNext]_nodeVars
  PROVE  DiscoverTypeOK'
<1>1. CASE DiscoverStep
  BY <1>1, DiscoverTypeStep DEF DiscoverStep
<1>2. CASE ListenerStep
  BY <1>2, SettingTypes
  DEF ListenerStep, ListenerNext, AddrsChange, ListenerEnds, DiscoverTypeOK, inputVars, IsChannel
<1>3. CASE ManagerStep \/ RestStep \/ UNCHANGED nodeVars
  BY <1>3, DiscoverTypeStutter DEF ManagerStep, RestStep, nodeVars
<1> QED BY <1>1, <1>2, <1>3 DEF NodeNext

(* main counts the requests in flight.                                     *)
MainTypeOK ==
  /\ main \in {"start", "serve", "drain", "join", "exit"}
  /\ signalled \in BOOLEAN
  /\ handlers \in 0 .. outside.handlers /\ reporting \in 0 .. handlers

LEMMA MainTypeNext ==
  ASSUME MainTypeOK, outside \in Outside, [ProgramNext]_programVars
  PROVE  MainTypeOK'
<1> USE DEF MainTypeOK
<1>0. UNCHANGED outside /\ outside.handlers \in Nat
  BY ProgramStepIsNodeStep, SettingSame, SettingTypes
<1>1. CASE While(ManagerStep \/ DiscoverStep \/ ListenerStep) \/ UNCHANGED programVars
  BY <1>0, <1>1 DEF While, mainVars, programVars
<1>2. CASE MainNext
  BY <1>0, <1>2 DEF MainNext, StartFails, Serve, Drain, DrainWhen, Drained, Join
<1>3. CASE Signal
  BY <1>0, <1>3 DEF Signal
<1>4. CASE HandlerNext
  BY <1>0, <1>4 DEF HandlerNext, Accept, CacheFails, Report, HandlerEnds
<1> QED BY <1>1, <1>2, <1>3, <1>4 DEF ProgramNext

(* The type invariant of the program is inductive only together with what  *)
(* ties the discover task to its channels (DiscoverInv) and with the       *)
(* consistency of the table (TypeInv).                                     *)
ProgramInv == TypeInv /\ DiscoverTypeOK /\ DiscoverInv /\ MainTypeOK

LEMMA ProgramInvInit == ProgramInit => ProgramInv
<1> SUFFICES ASSUME ProgramInit PROVE ProgramInv
  OBVIOUS
<1>1. TypeInv
  BY TypeInvInit DEF ProgramInit, NodeInit
<1>2. DiscoverInv
  BY DiscoverInvInit DEF ProgramInit
<1>3. MainTypeOK
  <2>1. main = "start" /\ signalled = FALSE /\ handlers = 0 /\ reporting = 0
    BY DEF ProgramInit
  <2>2. signalled \in BOOLEAN
    BY <2>1
  <2>3. handlers \in 0 .. outside.handlers /\ reporting \in 0 .. handlers
    BY <2>1, SettingTypes DEF ProgramInit, NodeInit, DiscoverInit
  <2> QED BY <2>1, <2>2, <2>3 DEF MainTypeOK
<1> QED BY <1>1, <1>2, <1>3, DiscoverTypeInit DEF ProgramInv

LEMMA ProgramInvNext ==
  ASSUME ProgramInv, [ProgramNext]_programVars
  PROVE  ProgramInv'
<1>1. [NodeNext]_nodeVars
  BY ProgramStepIsNodeStep
<1>2. [Next]_vars
  BY <1>1, NodeStepIsManagerStep DEF ProgramInv
<1>3. TypeInv'
  BY <1>2, TypeInvNext DEF ProgramInv
<1>4. DiscoverTypeOK' /\ DiscoverInv'
  BY <1>1, DiscoverTypeNext, DiscoverInvNext DEF ProgramInv
<1>5. MainTypeOK'
  BY MainTypeNext DEF ProgramInv, DiscoverTypeOK
<1> QED BY <1>3, <1>4, <1>5 DEF ProgramInv

(* Every task of the program keeps its state in the types of the code,     *)
(* whatever main, the signals and the requests do meanwhile: no channel    *)
(* holds more than one message, and no more reports are awaited than there *)
(* are requests in flight (main.rs:56-82; discover/mod.rs:91, 184; mod.rs: *)
(* 229-237).                                                               *)
THEOREM ProgramTypeCorrect == ProgramSpec => []ProgramTypeOK
<1>1. ProgramInv => ProgramTypeOK
  BY DEF ProgramInv, TypeInv, MainTypeOK, ProgramTypeOK, NodeTypeOK
<1> QED BY <1>1, ProgramInvInit, ProgramInvNext, PTL DEF ProgramSpec
=============================================================================
