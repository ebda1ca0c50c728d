---------------------------- MODULE IdleWatcher -----------------------------
(***************************************************************************)
(* The idle watcher of the gateway (gateway/manager.go, StartIdleWatcher,  *)
(* checkIdle and cascadeStop): a goroutine that looks once a minute for    *)
(* entry points without recent activity and stops them together with       *)
(* their dependency chains, dependents first.                              *)
(*                                                                         *)
(* The watcher decides on a snapshot of the activity and then talks to     *)
(* Docker one call at a time, without the mutexes of the start attempts.   *)
(* Each call is a step here, and the world moves between the steps.  Spec  *)
(* closes the watcher with such a world; module Gateway replaces it by the *)
(* rest of the gateway.                                                    *)
(***************************************************************************)
EXTENDS Dependencies

CONSTANTS
    HasHost,        \* containers with a host: the entry points
    IdleTimeout,    \* IdleTimeout[c], in ticks; 0 where there is none
    None,           \* "no timestamp"
    MaxAge,         \* bound on the age of a timestamp, where it saturates
    Faults          \* what may happen: "crash": containers exit, "remove": they
                    \* are removed, "start": they start during a cascade
                    \* too, "api": Docker calls fail

ASSUME IdleTimeoutAssumption ==
    /\ HasHost \subseteq Container
    /\ IdleTimeout \in [Container -> 0..MaxAge]
    /\ MaxAge \in Nat /\ None \notin 0..MaxAge

VARIABLES
    docker,         \* as in ContainerManager
    startStates,    \* as in ContainerManager
    lastSeen,       \* as in ContainerManager
    wpc,            \* where the watcher stands
    toStop,         \* the shutdown set of the cascade under way
    queue,          \* what is left of it, in stop order
    asked           \* dependents of Head(queue) that do not need it

shared == <<docker, startStates, lastSeen>>
watcher == <<wpc, toStop, queue, asked>>
vars == <<docker, startStates, lastSeen, wpc, toStop, queue, asked>>

WatcherTypeOK ==
    /\ wpc \in {"idle", "dependents", "stop", "clear"}
    /\ toStop \subseteq Container
    /\ queue \in Seq(toStop)
    /\ asked \subseteq Container \ toStop
    /\ wpc = "idle" <=> queue = <<>>

WatcherInit ==
    /\ wpc = "idle"
    /\ toStop = {}
    /\ queue = <<>>
    /\ asked = {}

Running(c) == docker[c] \in {"booting", "ready"}

-----------------------------------------------------------------------------
\* checkIdle: entry points with a timeout that were seen and are idle now.
IdleEntryPoints ==
    {c \in HasHost : /\ IdleTimeout[c] # 0
                     /\ lastSeen[c] # None
                     /\ lastSeen[c] >= IdleTimeout[c]}

\* Mutant: dependencies are stopped first.
CheckIdleForward ==
    /\ wpc = "idle"
    /\ IdleEntryPoints # {}
    /\ toStop' = ChainOf(IdleEntryPoints)
    /\ queue' \in TopoMergeStop(toStop')
    /\ wpc' = "dependents"
    /\ asked' = {}
    /\ UNCHANGED shared

\* Mutant: the loop over the stop order misses the first container.
CheckIdleOffByOne ==
    /\ wpc = "idle"
    /\ IdleEntryPoints # {}
    /\ toStop' = ChainOf(IdleEntryPoints)
    /\ \E order \in TopoMergeStop(toStop') : queue' = Tail(Reverse(order))
    /\ wpc' = "dependents"
    /\ asked' = {}
    /\ UNCHANGED shared

\* One look at the snapshot; the cascade's order is fixed with it.
CheckIdle ==
    /\ wpc = "idle"
    /\ IdleEntryPoints # {}
    /\ toStop' = ChainOf(IdleEntryPoints)
    /\ \E order \in TopoMergeStop(toStop') : queue' = Reverse(order)
    /\ wpc' = "dependents"
    /\ asked' = {}
    /\ UNCHANGED shared

\* continue: on to the next container, or done.
NextInQueue ==
    /\ queue' = Tail(queue)
    /\ asked' = {}
    /\ IF Tail(queue) = <<>> THEN wpc' = "idle" /\ toStop' = {}
                             ELSE wpc' = "dependents" /\ UNCHANGED toStop

\* Mutant: dependents that are about to be stopped are asked too.
ToAskEverybody == BuildReverseDeps(Head(queue)) \ asked

\* Dependents outside the shutdown set whose status is still to be read.
ToAsk == BuildReverseDeps(Head(queue)) \ (toStop \cup asked)

\* A running dependent saves the container; a failed call does not.
StillNeeded ==
    /\ wpc = "dependents"
    /\ \E d \in ToAsk : Running(d)
    /\ NextInQueue
    /\ UNCHANGED shared

NotNeededBy(d) ==
    /\ wpc = "dependents"
    /\ d \in ToAsk
    /\ ~Running(d) \/ "api" \in Faults
    /\ asked' = asked \cup {d}
    /\ UNCHANGED <<shared, wpc, toStop, queue>>

\* Mutant: dependents that have not been asked are ignored.
ToBeStoppedEarly ==
    /\ wpc = "dependents"
    /\ Running(Head(queue))
    /\ wpc' = "stop"
    /\ UNCHANGED <<shared, toStop, queue, asked>>

\* The container's own status.
ToBeStopped ==
    /\ wpc = "dependents"
    /\ ToAsk = {}
    /\ Running(Head(queue))
    /\ wpc' = "stop"
    /\ UNCHANGED <<shared, toStop, queue, asked>>

NotRunning ==
    /\ wpc = "dependents"
    /\ ToAsk = {}
    /\ ~Running(Head(queue)) \/ "api" \in Faults
    /\ NextInQueue
    /\ UNCHANGED shared

\* docker stop of a container: nothing happens to one that does not run.
Stopped(c) == [docker EXCEPT ![c] = IF Running(c) THEN "exited" ELSE @]

StopContainer ==
    /\ wpc = "stop"
    /\ docker[Head(queue)] # "absent"
    /\ docker' = Stopped(Head(queue))
    /\ wpc' = "clear"
    /\ UNCHANGED <<startStates, lastSeen, toStop, queue, asked>>

StopFails ==
    /\ wpc = "stop"
    /\ docker[Head(queue)] = "absent" \/ "api" \in Faults
    /\ docker' \in {docker, Stopped(Head(queue))}
    /\ NextInQueue
    /\ UNCHANGED <<startStates, lastSeen>>

ClearStartState ==
    /\ wpc = "clear"
    /\ startStates' = [startStates EXCEPT ![Head(queue)] = "unknown"]
    /\ NextInQueue
    /\ UNCHANGED <<docker, lastSeen>>

CascadeStop ==
    \/ StillNeeded
    \/ \E d \in Container : NotNeededBy(d)
    \/ ToBeStopped \/ NotRunning
    \/ StopContainer \/ StopFails
    \/ ClearStartState

Watch == CheckIdle \/ CascadeStop

-----------------------------------------------------------------------------
(***************************************************************************)
(* The world of the watcher when it is checked alone: containers that      *)
(* start and exit, requests that are forwarded and minutes that pass.      *)
(***************************************************************************)
Init ==
    /\ docker \in [Container -> {"exited", "ready"}]
    /\ startStates = [c \in Container |-> "unknown"]
    /\ lastSeen = [c \in Container |-> None]
    /\ WatcherInit

Start(c) ==
    /\ wpc = "idle" \/ "start" \in Faults
    /\ docker[c] = "exited"
    /\ docker' = [docker EXCEPT ![c] = "ready"]
    /\ UNCHANGED <<startStates, lastSeen, watcher>>

Crash(c) ==
    /\ "crash" \in Faults
    /\ Running(c)
    /\ docker' = [docker EXCEPT ![c] = "exited"]
    /\ UNCHANGED <<startStates, lastSeen, watcher>>

\* docker rm -f and docker create.
RemoveContainer(c) ==
    /\ "remove" \in Faults
    /\ docker[c] # "absent"
    /\ docker' = [docker EXCEPT ![c] = "absent"]
    /\ UNCHANGED <<startStates, lastSeen, watcher>>

CreateContainer(c) ==
    /\ docker[c] = "absent"
    /\ docker' = [docker EXCEPT ![c] = "exited"]
    /\ UNCHANGED <<startStates, lastSeen, watcher>>

\* A request for c is forwarded: RecordActivityChain.
Serve(c) ==
    /\ Running(c)
    /\ lastSeen' = [d \in Container |-> IF d \in ChainOf({c}) THEN 0 ELSE lastSeen[d]]
    /\ UNCHANGED <<docker, startStates, watcher>>

Older(age) == IF age \in 0..(MaxAge - 1) THEN age + 1 ELSE age

Tick ==
    /\ lastSeen' = [c \in Container |-> Older(lastSeen[c])]
    /\ UNCHANGED <<docker, startStates, watcher>>

Next ==
    \/ Watch
    \/ \E c \in Container :
        \/ Start(c) \/ Crash(c) \/ Serve(c)
        \/ RemoveContainer(c) \/ CreateContainer(c)
    \/ Tick

Spec == Init /\ [][Next]_vars

\* The ticker of the watcher keeps firing, time goes on.
FairSpec == Spec /\ WF_vars(CheckIdle) /\ WF_vars(CascadeStop) /\ WF_vars(Tick)

-----------------------------------------------------------------------------
(***************************************************************************)
(* Properties.                                                             *)
(***************************************************************************)
\* manager.go:335: the stop order is reverse topological.  However the map
\* of topoMergeStop is walked, whoever depends on the container at hand has
\* had its turn already.
DependentsFirst ==
    queue # <<>> => BuildReverseDeps(Head(queue)) \cap ToSet(Tail(queue)) = {}

\* manager.go:336-337: a container is not stopped while one outside the
\* shutdown set runs and depends on it directly.  That holds at docker stop
\* although the dependents were asked one after the other, if nothing starts
\* during a cascade and every status call is answered.
SparesNeeded ==
    wpc = "stop" =>
        \A d \in BuildReverseDeps(Head(queue)) \ toStop : ~Running(d)

\* The same with the dependencies of dependencies.
SparesNeededIndirectly ==
    wpc = "stop" =>
        \A d \in Container \ toStop :
            Head(queue) \in ChainOf({d}) => ~Running(d)

\* how-it-works.md:121: a container that has a timeout of its own is stopped
\* when its last request is longer ago than that.
StopsOnlyIdle ==
    wpc = "stop" /\ Head(queue) \in HasHost /\ IdleTimeout[Head(queue)] # 0 =>
        lastSeen[Head(queue)] \notin 0..(IdleTimeout[Head(queue)] - 1)

\* config.go:91, how-it-works.md:125: idle_timeout 0 disables auto-stop, so
\* an entry point without a timeout is never stopped by the watcher.
NeverAutoStop ==
    wpc = "stop" /\ Head(queue) \in HasHost => IdleTimeout[Head(queue)] # 0

\* An entry point that nobody depends on is stopped when its requests stop: one
\* that runs on for ever is served again and again (manager.go:422-437).
HasTimeout(c) == IdleTimeout[c] # 0 /\ lastSeen[c] # None /\ Running(c)
StopsOrServes(c) == <>[]HasTimeout(c) => []<><<Serve(c)>>_lastSeen

IdleStops ==
    \A c \in HasHost : BuildReverseDeps(c) = {} => StopsOrServes(c)

\* groups-and-dependencies.md:126: each group member manages its own
\* idle_timeout.  Members need no host.
IdleMemberStops ==
    \A c \in Container \ HasHost : BuildReverseDeps(c) = {} => StopsOrServes(c)
=============================================================================
