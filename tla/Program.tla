------------------------------ MODULE Program ------------------------------
(***************************************************************************)
(* The whole program with local_binary_caches: `run` of src/main.rs starts *)
(* the tasks of Node, serves HTTP, and ends all of it on a signal or when  *)
(* the token is cancelled.  A request is here what it does to the others:  *)
(* it has to end before the program can, and it may wait for the manager   *)
(* to take its report; what goes on inside it is the subject of Proxy.     *)
(***************************************************************************)
EXTENDS Node

VARIABLES
  main,        \* where `run` is
  signalled,   \* a signal came
  handlers,    \* requests in flight
  reporting    \* those of them that are about to report a cache

mainVars    == <<main, signalled, handlers, reporting>>
programVars == <<nodeVars, mainVars>>

ProgramTypeOK ==
  /\ NodeTypeOK
  /\ main \in {"start", "serve", "drain", "join", "exit"}
  /\ signalled \in BOOLEAN
  /\ handlers \in 0 .. outside.handlers /\ reporting \in 0 .. handlers

ProgramInit ==
  /\ NodeInit
  /\ main = "start"
  /\ signalled = FALSE
  /\ handlers = 0 /\ reporting = 0

-----------------------------------------------------------------------------
(* Server::new or TcpListener::bind fails.  The tasks that run by then are *)
(* dropped at their awaits: what was advertised meanwhile is not taken     *)
(* back by a goodbye.                                                      *)
StartFails ==
  /\ main = "start"
  /\ manager # "load" \/ (discover = "announce" /\ events = <<>>)
  /\ main' = "exit"
  /\ UNCHANGED <<nodeVars, signalled, handlers, reporting>>

Serve ==
  /\ main = "start" /\ manager # "load"
  /\ main' = "serve"
  /\ UNCHANGED <<nodeVars, signalled, handlers, reporting>>

(* SIGINT or SIGTERM, at any time.  Further ones have no effect.           *)
Signal ==
  /\ main # "exit" /\ signalled' = TRUE
  /\ UNCHANGED <<nodeVars, main, handlers, reporting>>

(* The future `shutdown` is ready: no more connections are accepted, and   *)
(* the requests in flight are left to end.                                 *)
DrainWhen(asked, token) ==
  /\ main = "serve" /\ asked
  /\ main' = "drain"
  /\ cancelled' = token
  /\ UNCHANGED <<managerVars, timerVars, events, requests, reports, discover_up,
                 discoverVars, signalled, handlers, reporting>>

(* Mutants: the token does not end the program; it is cancelled at once.   *)
DrainOnSignal  == DrainWhen(signalled, cancelled)
DrainCancelled == DrainWhen(signalled \/ cancelled, TRUE)

Drain == DrainWhen(signalled \/ cancelled, cancelled)

(* axum::serve returns: the other tasks are told to end.                   *)
Drained ==
  /\ main = "drain" /\ handlers = 0
  /\ main' = "join"
  /\ cancelled' = TRUE
  /\ UNCHANGED <<managerVars, timerVars, events, requests, reports, discover_up,
                 discoverVars, signalled, handlers, reporting>>

(* The only task to wait for is the discover task.                         *)
Join ==
  /\ main = "join" /\ discover = "ended"
  /\ main' = "exit"
  /\ UNCHANGED <<nodeVars, signalled, handlers, reporting>>

MainNext == StartFails \/ Serve \/ Drain \/ Drained \/ Join

-----------------------------------------------------------------------------
(* Requests.                                                               *)
Accept ==
  /\ main = "serve" /\ handlers < outside.handlers
  /\ handlers' = handlers + 1
  /\ UNCHANGED <<nodeVars, main, signalled, reporting>>

CacheFails ==
  /\ main # "exit" /\ reporting < handlers /\ listed # {}
  /\ reporting' = reporting + 1
  /\ UNCHANGED <<nodeVars, main, signalled, handlers>>

Report ==
  /\ main # "exit" /\ reporting > 0
  /\ EnvReport
  /\ reporting' = reporting - 1
  /\ UNCHANGED <<discoverVars, main, signalled, handlers>>

HandlerEnds ==
  /\ main # "exit" /\ reporting < handlers
  /\ handlers' = handlers - 1
  /\ UNCHANGED <<nodeVars, main, signalled, reporting>>

HandlerNext == Accept \/ CacheFails \/ Report \/ HandlerEnds

(* Nothing goes on once `run` has returned.                                *)
While(step) == main # "exit" /\ step /\ UNCHANGED mainVars

ProgramNext ==
  \/ While(ManagerStep \/ DiscoverStep \/ ListenerStep)
  \/ MainNext \/ Signal \/ HandlerNext

ProgramSpec == ProgramInit /\ [][ProgramNext]_programVars

ManagerDoes(step)  == While(step /\ UNCHANGED discoverVars)
DiscoverDoes(step) == While(DiscoverStep /\ step)

(* A branch of a select! that is ready again and again is taken, in the    *)
(* discover task as in the manager, as far as the properties need it.  A   *)
(* request ends if its reports are taken (Proxy).  Nothing makes datagrams *)
(* arrive, addresses change, requests come or fail, or a signal.           *)
FairProgramSpec ==
  /\ ProgramSpec
  /\ WF_programVars(ManagerDoes(LoadHost \/ SpawnManager \/ NoteAdv \/ SendReq))
  /\ WF_programVars(ManagerDoes(TimerTask))
  /\ WF_programVars(ManagerDoes(Tick))
  /\ SF_programVars(ManagerDoes(BatchTimeout))
  /\ SF_programVars(ManagerDoes(BadCache))
  /\ SF_programVars(ManagerDoes(OnNetworkChanged \/ OnGoodbye \/ OnAdv))
  /\ WF_programVars(DiscoverDoes(Announce \/ FindIps \/ Emit))
  /\ SF_programVars(DiscoverDoes(EndOnCancel))
  /\ SF_programVars(DiscoverDoes(Broadcast))
  /\ WF_programVars(MainNext)
  /\ WF_programVars(Report) /\ SF_programVars(HandlerEnds)

-----------------------------------------------------------------------------
(* The goodbye comes last: while requests are served or left to end, the   *)
(* discover task is not told to end, by whichever task cancels the token   *)
(* (main.rs:66, 70; discover/mod.rs:208, 220, 269).                        *)
GoodbyeAfterDrain == [][EndOnCancel => main = "join"]_programVars

(* A program that is asked to end, by a signal or by a task that failed,   *)
(* ends in the time its requests take, even if the addresses change all    *)
(* the time or their listener is gone; the circular wait is the only thing *)
(* to prevent that, also by way of a request that waits for the manager    *)
(* (main.rs:26-30, 66, 72; discover/mod.rs:207, 212).                      *)
EndsWhenAsked == signalled \/ cancelled ~> main = "exit" \/ CircularWait

Advertised(u) ==
  \E event \in Range(events) \cup Range(emitting) \cup {handling} :
    event.type = "adv" /\ event.binary_cache_url = u

(* A cache whose advertisement was authenticated gets into the list of     *)
(* caches as long as the program runs (README.md:7).  It does not: see     *)
(* CircularWait.                                                           *)
AdvertisedIsListed ==
  \A u \in Urls : Advertised(u) \/ u \in DOMAIN batch ~> u \in Known(table) \/ main = "exit"

(* What holds instead: it gets there unless the node is in a circular wait *)
(* or it is held back for good by Advs that never cease.  A listener that  *)
(* is gone, network changes and datagrams without end, failing caches and  *)
(* requests do not keep it from the list (mod.rs:291, 335, 352;            *)
(* discover/mod.rs:91, 184, 212).                                          *)
AdvertisedIsListedOrStuck ==
  \A u \in Urls :
    \/ HeldBack(u)
    \/ Advertised(u) \/ u \in DOMAIN batch
         ~> u \in Known(table) \/ main = "exit" \/ CircularWait
=============================================================================
