-------------------------------- MODULE Node --------------------------------
(***************************************************************************)
(* One node: the manager task, its batch timer and the discover task,      *)
(* joined by the channels of capacity 1 between them.  The discover task   *)
(* takes the place of the environment of CacheManager.                     *)
(***************************************************************************)
EXTENDS CacheManager, Discover

nodeVars == <<vars, discoverVars>>

NodeTypeOK == TypeOK /\ DiscoverTypeOK

NodeInit == Init /\ DiscoverInit

(* Discover::run spawns its task once the configured caches are loaded.    *)
DiscoverStep ==
  /\ loaded = Len(BinaryCaches)
  /\ DiscoverNext
  /\ UNCHANGED <<managerVars, timerVars>>

ListenerStep == ListenerNext /\ UNCHANGED <<managerVars, timerVars>>

ManagerStep ==
  /\ ManagerNext \/ TimerTask \/ Tick
  /\ UNCHANGED discoverVars

(* The rest of the program: main and the HTTP requests.                    *)
RestStep == (EnvReport \/ EnvCancel) /\ UNCHANGED discoverVars

NodeNext == ManagerStep \/ DiscoverStep \/ ListenerStep \/ RestStep

NodeSpec == NodeInit /\ [][NodeNext]_nodeVars

-----------------------------------------------------------------------------
(* The discover task does to the channels only what CacheManager expects   *)
(* of its environment, so that what is proved of the manager there holds   *)
(* in the node (discover/mod.rs:91, 104, 184, 214).                        *)
ManagerSpec == Spec

(* The manager waits for the discover task to take its Req while the       *)
(* discover task waits for the manager to take its event: both channels    *)
(* are full and each of the two receives nothing until its send is done.   *)
CircularWait ==
  /\ manager = "request" /\ ~HasRoom(requests) /\ discover_up
  /\ discover \in {"announce", "emit"} /\ ~HasRoom(events)

(* The circular wait is for good: no timeout, no other task and not even   *)
(* the cancellation of the program, which the discover task only looks at  *)
(* in its select!, ends it (discover/mod.rs:91, 207; mod.rs:291, 335).     *)
CircularWaitIsFinal == [][CircularWait => CircularWait']_nodeVars
=============================================================================
