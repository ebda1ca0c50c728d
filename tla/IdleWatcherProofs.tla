-------------------------- MODULE IdleWatcherProofs --------------------------
(***************************************************************************)
(* Theorems about IdleWatcher, for any containers, dependencies, timeouts  *)
(* and orders of a cascade.                                                *)
(***************************************************************************)
EXTENDS IdleWatcher, DependenciesProofs

DockerTypeOK == docker \in [Container -> {"absent", "exited", "booting", "ready"}]

\* What the cascade knows of the dependents outside the shutdown set: a status
\* that was read is still true, and before docker stop all have been read.
AskedStopped ==
    /\ asked \subseteq Container
    /\ wpc # "idle" => \A d \in asked : ~Running(d)

AllAsked == wpc = "stop" => BuildReverseDeps(Head(queue)) \subseteq toStop \cup asked

CascadeInv == DockerTypeOK /\ AskedStopped /\ AllAsked

\* The container at hand is done with.
LEMMA NextInQueueStep ==
    ASSUME NextInQueue, DockerTypeOK'
    PROVE  CascadeInv'
  BY DEF NextInQueue, CascadeInv, AskedStopped, AllAsked

LEMMA CascadeInit == Init => CascadeInv
  BY DEF Init, WatcherInit, CascadeInv, DockerTypeOK, AskedStopped, AllAsked

LEMMA CascadeStep ==
    ASSUME "start" \notin Faults, "api" \notin Faults
    PROVE  CascadeInv /\ [Next]_vars => CascadeInv'
  <1> SUFFICES ASSUME CascadeInv, [Next]_vars
               PROVE  CascadeInv'
    OBVIOUS
  <1> USE DEF CascadeInv, DockerTypeOK
  <1>1. CASE CheckIdle
    BY <1>1 DEF CheckIdle, shared, AskedStopped, AllAsked
  <1>2. CASE StillNeeded \/ NotRunning
    BY <1>2, NextInQueueStep DEF StillNeeded, NotRunning, shared
  <1>3. ASSUME NEW d \in Container, NotNeededBy(d)
        PROVE  CascadeInv'
    BY <1>3 DEF NotNeededBy, shared, Running, AskedStopped, AllAsked
  <1>4. CASE ToBeStopped
    BY <1>4 DEF ToBeStopped, ToAsk, shared, Running, AskedStopped, AllAsked
  <1>5. CASE StopContainer
    <2>1. /\ docker' = Stopped(Head(queue))
          /\ wpc' = "clear" /\ wpc # "idle"
          /\ asked' = asked
      BY <1>5 DEF StopContainer
    <2>2. DockerTypeOK'
      BY <2>1 DEF Stopped
    <2>3. \A d \in asked : docker'[d] = docker[d] \/ docker'[d] = "exited"
      BY <2>1 DEF Stopped
    <2> QED
      BY <2>1, <2>2, <2>3 DEF Running, AskedStopped, AllAsked
  <1>6. CASE StopFails
    <2>1. DockerTypeOK'
      BY <1>6 DEF StopFails, Stopped
    <2> QED
      BY <1>6, <2>1, NextInQueueStep DEF StopFails
  <1>7. CASE ClearStartState
    BY <1>7, NextInQueueStep DEF ClearStartState
  <1>8. ASSUME NEW c \in Container, Start(c)
        PROVE  CascadeInv'
    BY <1>8 DEF Start, watcher, AskedStopped, AllAsked
  <1>9. ASSUME NEW c \in Container, Crash(c) \/ RemoveContainer(c) \/ CreateContainer(c)
        PROVE  CascadeInv'
    <2>1. /\ UNCHANGED watcher
          /\ \/ docker' = [docker EXCEPT ![c] = "exited"]
             \/ docker' = [docker EXCEPT ![c] = "absent"]
      BY <1>9 DEF Crash, RemoveContainer, CreateContainer
    <2>2. \A d \in asked : Running(d)' => Running(d)
      BY <2>1 DEF Running, AskedStopped
    <2> QED
      BY <2>1, <2>2 DEF watcher, AskedStopped, AllAsked
  <1>10. CASE (\E c \in Container : Serve(c)) \/ Tick
    BY <1>10 DEF Serve, Tick, watcher, Running, AskedStopped, AllAsked
  <1>11. CASE UNCHANGED vars
    BY <1>11 DEF vars, Running, AskedStopped, AllAsked
  <1> QED
    BY <1>1, <1>2, <1>3, <1>4, <1>5, <1>6, <1>7, <1>8, <1>9, <1>10, <1>11
       DEF Next, Watch, CascadeStop

\* cascadeStop asks Docker for its dependents one call at a time before it
\* stops a container.  When nothing starts during a cascade and no status call
\* fails, what the first call has seen is still true at docker stop: no
\* direct dependent outside the shutdown set runs, for any dependencies and
\* whatever exits, is removed or is created in between.
THEOREM SparesNeededAlways ==
    ASSUME "start" \notin Faults, "api" \notin Faults
    PROVE  Spec => []SparesNeeded
  <1>1. CascadeInv => SparesNeeded
    BY DEF CascadeInv, AskedStopped, AllAsked, SparesNeeded
  <1> QED
    BY CascadeInit, CascadeStep, <1>1, PTL DEF Spec

-----------------------------------------------------------------------------
(***************************************************************************)
(* The queue of the cascade, whatever the rest of the gateway does.        *)
(***************************************************************************)
QueueInv == WatcherTypeOK /\ DependentsAhead(queue)

LEMMA IdleEntryPointsType == IdleEntryPoints \in SUBSET Container
  BY IdleTimeoutAssumption DEF IdleEntryPoints

\* A cascade begins with the whole shutdown set, dependents first.
LEMMA CheckIdleStep ==
    ASSUME CheckIdle
    PROVE  QueueInv'
  <1> DEFINE S == ChainOf(IdleEntryPoints)
  <1>1. PICK order \in TopoMergeStop(S) : queue' = Reverse(order)
    BY DEF CheckIdle
  <1>2. S \in SUBSET Container /\ S # {}
    BY IdleEntryPointsType, ChainOfType DEF CheckIdle
  <1> HIDE DEF S
  <1>3. queue' \in Seq(S) /\ ToSet(queue') = S /\ DependentsAhead(queue')
    BY <1>1, <1>2, CascadeOrder
  <1>4. queue' # <<>>
    BY <1>2, <1>3, EmptyOrder
  <1>5. toStop' = S /\ wpc' = "dependents" /\ asked' = {}
    BY DEF CheckIdle, S
  <1> QED
    BY <1>2, <1>3, <1>4, <1>5 DEF QueueInv, WatcherTypeOK

LEMMA NextInQueueKeeps ==
    ASSUME QueueInv, wpc # "idle", NextInQueue
    PROVE  QueueInv'
  <1>1. queue \in Seq(toStop) /\ queue # <<>> /\ DependentsAhead(queue)
    BY DEF QueueInv, WatcherTypeOK
  <1>2. Tail(queue) \in Seq(toStop) /\ DependentsAhead(Tail(queue))
    BY <1>1, TailKeepsAhead
  <1>3. CASE Tail(queue) = <<>>
    <2>1. queue' = <<>> /\ wpc' = "idle" /\ toStop' = {} /\ asked' = {}
      BY <1>3 DEF NextInQueue
    <2>2. DependentsAhead(<<>>)
      BY <1>2, <1>3
    <2>3. WatcherTypeOK'
      BY <2>1 DEF WatcherTypeOK
    <2> QED
      BY <2>1, <2>2, <2>3 DEF QueueInv
  <1>4. CASE Tail(queue) # <<>>
    <2>1. queue' = Tail(queue) /\ wpc' = "dependents" /\ toStop' = toStop /\ asked' = {}
      BY <1>4 DEF NextInQueue
    <2> QED
      BY <1>2, <1>4, <2>1 DEF QueueInv, WatcherTypeOK
  <1> QED
    BY <1>3, <1>4

LEMMA CascadeStopKeeps ==
    ASSUME QueueInv, CascadeStop
    PROVE  QueueInv'
  <1>1. CASE StillNeeded \/ NotRunning \/ StopFails \/ ClearStartState
    BY <1>1, NextInQueueKeeps DEF StillNeeded, NotRunning, StopFails, ClearStartState
  <1>2. ASSUME NEW d \in Container, NotNeededBy(d)
        PROVE  QueueInv'
    BY <1>2 DEF NotNeededBy, ToAsk, QueueInv, WatcherTypeOK
  <1>3. CASE ToBeStopped \/ StopContainer
    BY <1>3 DEF ToBeStopped, StopContainer, QueueInv, WatcherTypeOK
  <1> QED
    BY <1>1, <1>2, <1>3 DEF CascadeStop

LEMMA QueueKept ==
    ASSUME QueueInv, UNCHANGED watcher
    PROVE  QueueInv'
  BY DEF QueueInv, WatcherTypeOK, watcher

LEMMA WatcherInitQueue ==
    ASSUME WatcherInit
    PROVE  QueueInv
  BY DEF WatcherInit, QueueInv, WatcherTypeOK, DependentsAhead

LEMMA QueueDependentsFirst ==
    ASSUME QueueInv
    PROVE  DependentsFirst
  <1> SUFFICES ASSUME queue # <<>>
               PROVE  BuildReverseDeps(Head(queue)) \cap ToSet(Tail(queue)) = {}
    BY DEF DependentsFirst
  <1>1. \A d \in ToSet(Tail(queue)) : Head(queue) \notin DepSet(d)
    BY TailKeepsAhead DEF QueueInv, WatcherTypeOK
  <1> QED
    BY <1>1 DEF BuildReverseDeps, DepSet

LEMMA QueueStep ==
    ASSUME QueueInv, [Next]_vars
    PROVE  QueueInv'
  <1>1. CASE Watch
    BY <1>1, CheckIdleStep, CascadeStopKeeps DEF Watch
  <1>2. CASE UNCHANGED watcher
    BY <1>2, QueueKept
  <1> QED
    BY <1>1, <1>2 DEF Next, Start, Crash, Serve, RemoveContainer, CreateContainer,
                      Tick, vars, watcher

\* The state of the watcher is what its code expects of it; in particular the
\* cascade never asks for the head of an empty queue, because the chain of an
\* idle entry point has at least the entry point, and topoMergeStop loses none.
THEOREM WatcherTyped == Spec => []WatcherTypeOK
  <1>1. Init => QueueInv
    BY WatcherInitQueue DEF Init
  <1>2. QueueInv /\ [Next]_vars => QueueInv'
    BY QueueStep
  <1>3. QueueInv => WatcherTypeOK
    BY DEF QueueInv
  <1> QED
    BY <1>1, <1>2, <1>3, PTL DEF Spec

\* cascadeStop reaches a container when all that depend on it and are to stop
\* have had their turn, for every graph without cycles, every set of idle
\* entry points and every order in which Go walks the map of topoMergeStop.
THEOREM DependentsFirstAlways == Spec => []DependentsFirst
  <1>1. Init => QueueInv
    BY WatcherInitQueue DEF Init
  <1>2. QueueInv /\ [Next]_vars => QueueInv'
    BY QueueStep
  <1>3. QueueInv => DependentsFirst
    BY QueueDependentsFirst
  <1> QED
    BY <1>1, <1>2, <1>3, PTL DEF Spec
=============================================================================
