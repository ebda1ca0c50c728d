------------------------------ MODULE Gateway -------------------------------
(***************************************************************************)
(* The gateway as a whole: the HTTP handlers (gateway/server.go), the cron *)
(* jobs (gateway/scheduler.go) and the idle watcher (module IdleWatcher)   *)
(* around one ContainerManager (module ContainerManager).                  *)
(*                                                                         *)
(* A handler reads the status of its container from Docker, decides, and   *)
(* acts on the decision in later steps: it forwards the request or serves  *)
(* the loading page and leaves a goroutine behind.  Everybody shares       *)
(* Docker, the start states and the activity timestamps.                   *)
(*                                                                         *)
(* The access gate of scheduled containers is not modelled here: it only   *)
(* answers requests without touching any of this state.                    *)
(***************************************************************************)
EXTENDS StartJobs, Integers

CONSTANTS
    Proc, None, HTTPProbe, Faults, MaxAge,      \* as in ContainerManager
    HasHost, IdleTimeout,                       \* as in IdleWatcher
    Handler,        \* handlers that can be at work at a time
    Requested,      \* containers that requests name, by host or ?container=
    Groups,         \* the member lists of the configured groups
    Wakeable,       \* containers that the dashboard wakes
    StartJob,       \* containers with a schedule_start
    StopJob         \* containers with a schedule_stop

ASSUME GatewayAssumption ==
    /\ Requested \cup Wakeable \cup StartJob \cup StopJob \subseteq Container
    /\ \A g \in Groups : g \in Seq(Container) /\ g # <<>>
    /\ HasHost \subseteq Container
    /\ IdleTimeout \in [Container -> 0..MaxAge]
    /\ MaxAge \in Nat
    /\ None \notin Container /\ None \notin Proc /\ None \notin 0..MaxAge

VARIABLES
    docker, startStates, lastSeen, locks, pc, plan, at, expired, \* manager
    wpc, toStop, queue, asked,                                   \* watcher
    hpc,            \* hpc[h]: where handler h stands
    target,         \* target[h]: the container of its request, or None
    members,        \* members[h]: the group of its request, or <<>>
    todo,           \* todo[h]: dependencies whose status is still to be read
    picks           \* picks[g]: the round-robin counter, modulo the group

manager == <<docker, startStates, lastSeen, locks, pc, plan, at, expired>>
watcher == <<wpc, toStop, queue, asked>>
handlers == <<hpc, target, members, todo, picks>>
vars == <<docker, startStates, lastSeen, locks, pc, plan, at, expired,
          wpc, toStop, queue, asked, hpc, target, members, todo, picks>>

\* All the calls that the gateway makes of the manager.
GatewayJobs ==
    {RequestJob(c) : c \in Requested}
        \cup {RepairJob(c) : c \in {d \in Requested : DependsOn[d] # <<>>}}
        \cup {WakeJob(c) : c \in Wakeable \cup StartJob}
        \cup {GroupJob(g) : g \in Groups}

\* The containers that the gateway may stop.
StoppedByGateway ==
    StopJob \cup ChainOf({c \in HasHost : IdleTimeout[c] # 0})

CM == INSTANCE ContainerManager
        WITH Jobs <- GatewayJobs, Stoppable <- StoppedByGateway
IW == INSTANCE IdleWatcher

ASSUME ProbesAndFaultsAssumption ==
    HTTPProbe \subseteq Container /\ Faults \subseteq CM!FaultKind

HandlerLocation ==
    {"idle", "status", "deps", "init", "repair", "activity",
     "memberStatus", "groupInit", "groupActivity", "proxy"}

TypeOK ==
    /\ CM!TypeOK
    /\ IW!WatcherTypeOK
    /\ hpc \in [Handler -> HandlerLocation]
    /\ target \in [Handler -> Container \cup {None}]
    /\ members \in [Handler -> Groups \cup {<<>>}]
    /\ todo \in [Handler -> Seq(Container)]
    /\ picks \in [Groups -> Nat]
    /\ \A g \in Groups : picks[g] < Len(g)
    /\ \A h \in Handler : hpc[h] # "idle" <=> target[h] # None

HandlersInit ==
    /\ hpc = [h \in Handler |-> "idle"]
    /\ target = [h \in Handler |-> None]
    /\ members = [h \in Handler |-> <<>>]
    /\ todo = [h \in Handler |-> <<>>]
    /\ picks = [g \in Groups |-> 0]

Init == CM!Init /\ IW!WatcherInit /\ HandlersInit

Running(c) == CM!Running(c)

\* A Docker call of a handler may fail: no such container, or an API error.
StatusFails(c) == docker[c] = "absent" \/ "api" \in Faults

-----------------------------------------------------------------------------
(***************************************************************************)
(* handleRequest                                                           *)
(***************************************************************************)
Goto(h, l) == hpc' = [hpc EXCEPT ![h] = l]

\* Mutant: the next request inherits the target.
RespondDirty(h) ==
    /\ Goto(h, "idle")
    /\ UNCHANGED <<target, members, todo, picks>>

\* The response is written; the handler is gone.
Respond(h) ==
    /\ Goto(h, "idle")
    /\ target' = [target EXCEPT ![h] = None]
    /\ members' = [members EXCEPT ![h] = <<>>]
    /\ todo' = [todo EXCEPT ![h] = <<>>]
    /\ UNCHANGED picks

Request(h, c) ==
    /\ hpc[h] = "idle"
    /\ target' = [target EXCEPT ![h] = c]
    /\ Goto(h, "status")
    /\ UNCHANGED <<manager, watcher, members, todo, picks>>

\* No status, no start: the error page.
StatusError(h) ==
    /\ hpc[h] = "status"
    /\ StatusFails(target[h])
    /\ Respond(h)
    /\ UNCHANGED <<manager, watcher>>

FoundStopped(h) ==
    /\ hpc[h] = "status"
    /\ docker[target[h]] = "exited"
    /\ Goto(h, "init")
    /\ UNCHANGED <<manager, watcher, target, members, todo, picks>>

\* Mutant: the dependencies of a running container are not checked.
FoundRunningUnchecked(h) ==
    /\ hpc[h] = "status"
    /\ Running(target[h])
    /\ Goto(h, "activity")
    /\ UNCHANGED <<manager, watcher, target, members, todo, picks>>

FoundRunning(h) ==
    /\ hpc[h] = "status"
    /\ Running(target[h])
    /\ todo' = [todo EXCEPT ![h] = DependsOn[target[h]]]
    /\ Goto(h, IF DependsOn[target[h]] = <<>> THEN "activity" ELSE "deps")
    /\ UNCHANGED <<manager, watcher, target, members, picks>>

DependencyUp(h) ==
    /\ hpc[h] = "deps"
    /\ Running(Head(todo[h]))
    /\ todo' = [todo EXCEPT ![h] = Tail(@)]
    /\ Goto(h, IF Tail(todo[h]) = <<>> THEN "activity" ELSE "deps")
    /\ UNCHANGED <<manager, watcher, target, members, picks>>

\* The error of the status call is ignored: no status counts as not running.
DependencyDown(h) ==
    /\ hpc[h] = "deps"
    /\ ~Running(Head(todo[h])) \/ "api" \in Faults
    /\ Goto(h, "repair")
    /\ UNCHANGED <<manager, watcher, target, members, todo, picks>>

\* InitStartState, the goroutine and the loading page.  The handler waits for
\* a goroutine of the model to be free, which bounds how many there are.
Spawn(job) == \E p \in Proc : CM!Call(p, job)

\* Mutant: without the dependencies.
StartTargetAlone(h) ==
    /\ hpc[h] = "init"
    /\ Spawn(WakeJob(target[h]))
    /\ Respond(h)
    /\ UNCHANGED watcher

\* Mutant: nothing but the dependencies, if there are any.
StartTargetNever(h) ==
    /\ hpc[h] = "init"
    /\ Spawn(RepairJob(target[h]))
    /\ Respond(h)
    /\ UNCHANGED watcher

StartTarget(h) ==
    /\ hpc[h] = "init"
    /\ Spawn(RequestJob(target[h]))
    /\ Respond(h)
    /\ UNCHANGED watcher

StartDependencies(h) ==
    /\ hpc[h] = "repair"
    /\ Spawn(RepairJob(target[h]))
    /\ Respond(h)
    /\ UNCHANGED watcher

\* Mutant: a forwarded request marks the container as running.
RecordActivityAndState(h) ==
    /\ hpc[h] = "activity"
    /\ lastSeen' = [c \in Container |->
                      IF c \in ChainOf({target[h]}) THEN 0 ELSE lastSeen[c]]
    /\ startStates' = [startStates EXCEPT ![target[h]] = "running"]
    /\ Goto(h, "proxy")
    /\ UNCHANGED <<docker, locks, pc, plan, at, expired, watcher, target,
                   members, todo, picks>>

RecordActivityChain(h) ==
    /\ hpc[h] = "activity"
    /\ CM!RecordActivity(ChainOf({target[h]}))
    /\ Goto(h, "proxy")
    /\ UNCHANGED <<watcher, target, members, todo, picks>>

\* proxyRequest: a request without an address gets an error page.
ProxyRequest(h) ==
    /\ hpc[h] = "proxy"
    /\ Respond(h)
    /\ UNCHANGED <<manager, watcher>>

-----------------------------------------------------------------------------
(***************************************************************************)
(* handleGroupRequest                                                      *)
(***************************************************************************)
\* GroupRouter.Pick: the counter moves on for every request of the group.
GroupRequest(h, g) ==
    /\ hpc[h] = "idle"
    /\ target' = [target EXCEPT ![h] = g[picks[g] + 1]]
    /\ members' = [members EXCEPT ![h] = g]
    /\ picks' = [picks EXCEPT ![g] = (@ + 1) % Len(g)]
    /\ Goto(h, "memberStatus")
    /\ UNCHANGED <<manager, watcher, todo>>

\* An error counts as not running.
MemberDown(h) ==
    /\ hpc[h] = "memberStatus"
    /\ ~Running(target[h]) \/ StatusFails(target[h])
    /\ Goto(h, "groupInit")
    /\ UNCHANGED <<manager, watcher, target, members, todo, picks>>

MemberUp(h) ==
    /\ hpc[h] = "memberStatus"
    /\ Running(target[h])
    /\ Goto(h, "groupActivity")
    /\ UNCHANGED <<manager, watcher, target, members, todo, picks>>

StartGroup(h) ==
    /\ hpc[h] = "groupInit"
    /\ Spawn(GroupJob(members[h]))
    /\ Respond(h)
    /\ UNCHANGED watcher

\* The activity counts for every member, not only for the picked one.
RecordGroupActivity(h) ==
    /\ hpc[h] = "groupActivity"
    /\ CM!RecordActivity(ChainOf(ToSet(members[h])))
    /\ Goto(h, "proxy")
    /\ UNCHANGED <<watcher, target, members, todo, picks>>

Handle(h) ==
    \/ StatusError(h) \/ FoundStopped(h) \/ FoundRunning(h)
    \/ DependencyUp(h) \/ DependencyDown(h)
    \/ StartTarget(h) \/ StartDependencies(h)
    \/ RecordActivityChain(h)
    \/ MemberDown(h) \/ MemberUp(h) \/ StartGroup(h) \/ RecordGroupActivity(h)
    \/ ProxyRequest(h)

-----------------------------------------------------------------------------
(***************************************************************************)
(* The dashboard and the cron jobs.                                        *)
(***************************************************************************)
StatusWake(c) ==
    /\ c \in Wakeable
    /\ Spawn(WakeJob(c))
    /\ UNCHANGED <<watcher, handlers>>

ScheduledStart(c) ==
    /\ c \in StartJob
    /\ Spawn(WakeJob(c))
    /\ UNCHANGED <<watcher, handlers>>

\* docker stop and nothing else: start states and activity stay.
ScheduledStop(c) ==
    /\ c \in StopJob
    /\ CM!StopContainer(c)
    /\ UNCHANGED <<watcher, handlers>>

-----------------------------------------------------------------------------
(***************************************************************************)
(* Everything together.                                                    *)
(***************************************************************************)
Manage(p) == (CM!AcquireLock(p) \/ CM!Proceed(p)) /\ UNCHANGED <<watcher, handlers>>

Expire(p) == CM!Expire(p) /\ UNCHANGED <<watcher, handlers>>

Watch == IW!Watch /\ UNCHANGED <<locks, pc, plan, at, expired, handlers>>

Environment(c) == CM!Environment(c) /\ UNCHANGED <<watcher, handlers>>

Tick == CM!Tick /\ UNCHANGED <<watcher, handlers>>

Restart ==
    /\ CM!Restart
    /\ hpc' = [h \in Handler |-> "idle"]
    /\ target' = [h \in Handler |-> None]
    /\ members' = [h \in Handler |-> <<>>]
    /\ todo' = [h \in Handler |-> <<>>]
    /\ picks' = [g \in Groups |-> 0]
    /\ wpc' = "idle" /\ toStop' = {} /\ queue' = <<>> /\ asked' = {}

Next ==
    \/ \E h \in Handler, c \in Requested : Request(h, c)
    \/ \E h \in Handler, g \in Groups : GroupRequest(h, g)
    \/ \E h \in Handler : Handle(h)
    \/ \E c \in Container : StatusWake(c) \/ ScheduledStart(c) \/ ScheduledStop(c)
    \/ \E p \in Proc : Manage(p) \/ Expire(p)
    \/ Watch
    \/ \E c \in Container : Environment(c)
    \/ Tick
    \/ Restart

Spec == Init /\ [][Next]_vars

\* Handlers and goroutines run; containers that were started come up.
FairSpec ==
    /\ Spec
    /\ \A h \in Handler : SF_vars(Handle(h))
    /\ \A p \in Proc :
        /\ WF_vars(CM!Proceed(p) /\ UNCHANGED <<watcher, handlers>>)
        /\ SF_vars(CM!AcquireLock(p) /\ UNCHANGED <<watcher, handlers>>)
    /\ \A c \in Container : WF_vars(CM!Boot(c) /\ UNCHANGED <<watcher, handlers>>)

-----------------------------------------------------------------------------
(***************************************************************************)
(* Properties.                                                             *)
(***************************************************************************)
\* Handlers, cron jobs and the idle watcher use the manager as ContainerManager
\* says: what holds there of any callers holds of the gateway.
ImplementsManager == CM!Spec

\* config.go:108: dependencies run before docker start is called for the
\* container that lists them.
DependenciesFirst ==
    \A p \in Proc : pc[p] = "start" /\ ~expired[p] =>
        \A d \in ToSet(DependsOn[CM!Cur(p)]) : Running(d)

\* A request is on its way to the application.
Forwarding(h) == hpc[h] = "proxy" /\ Running(target[h])

\* The check of the dependencies still holds when the request is forwarded,
\* although the statuses were read one by one (containers do not stop).
ForwardWithDependencies ==
    \A h \in Handler : Forwarding(h) /\ members[h] = <<>> =>
        \A d \in ToSet(DependsOn[target[h]]) : Running(d)

\* groups-and-dependencies.md:157: the same for the members of a group.
GroupForwardWithDependencies ==
    \A h \in Handler : Forwarding(h) /\ members[h] # <<>> =>
        \A d \in ToSet(DependsOn[target[h]]) : Running(d)

\* how-it-works.md:116: only a container that passed the readiness probe
\* gets requests.
ForwardOnlyReady ==
    \A h \in Handler : Forwarding(h) => docker[target[h]] = "ready"

\* server.go:393-394: the loading page polls /_health to know when to
\* redirect or to show an error, so "starting" must come to an end.
StartingResolves ==
    \A c \in Container : startStates[c] = "starting" ~> startStates[c] # "starting"

\* What the gateway is for: a request for a sleeping container brings up the
\* container and everything that it needs, if nothing fails.
WakesUp ==
    \A h \in Handler, c \in Requested :
        /\ hpc[h] = "init"
        /\ target[h] = c
        /\ \A d \in ChainOf({c}) : docker[d] # "absent"
        ~> \A d \in ChainOf({c}) : docker[d] = "ready"
=============================================================================
