-------------------------- MODULE ContainerManager --------------------------
(***************************************************************************)
(* The ContainerManager of the gateway (gateway/manager.go): goroutines    *)
(* that bring containers up one after another through EnsureRunning, the   *)
(* per-container mutex that serialises them, the start states that         *)
(* /_health serves and the activity timestamps of the idle watcher.        *)
(*                                                                         *)
(* A goroutine runs one call of EnsureRunning, EnsureDepsRunning or        *)
(* EnsureGroupRunning.  All three bring up a list of containers in order   *)
(* and give up at the first error, so a call is a "plan": a sequence of    *)
(* steps, each with the container's name and whether the loop calls        *)
(* InitStartState in front of EnsureRunning.  Which plans there are is up  *)
(* to the callers (CONSTANT Jobs); module Gateway gives the real ones.     *)
(*                                                                         *)
(* Every action between two calls of the Docker API is atomic, every call  *)
(* of the API is a step of its own, and the Docker daemon, the containers  *)
(* and their operators move in between.                                    *)
(***************************************************************************)
EXTENDS Integers, Sequences

CONSTANTS
    Container,      \* names of the configured containers
    Proc,           \* goroutines that can be inside the manager at a time
    None,           \* "no goroutine" and "no timestamp"
    Jobs,           \* the calls that can be made: [marks, plan] records
    HTTPProbe,      \* containers with a health_path (HTTP probe, not TCP)
    Stoppable,      \* containers that the gateway itself may stop
    Faults,         \* what may go wrong, a subset of FaultKind
    MaxAge          \* bound on the age of a timestamp, where it saturates

\* crash:    a container exits on its own
\* operator: somebody else starts containers
\* remove:   somebody else removes and creates containers
\* api:      a call of the Docker API fails, before or after it took effect
\* deadline: a goroutine's context may expire
\* restart:  the gateway's process dies and starts anew
FaultKind == {"crash", "operator", "remove", "api", "deadline", "restart"}

Step == [name : Container, init : BOOLEAN]

Job == [marks : SUBSET Container, plan : Seq(Step)]

ASSUME NoneAssumption == None \notin Proc
ASSUME JobsAssumption == \A j \in Jobs : j \in Job /\ j.plan # <<>>
ASSUME SubsetsAssumption ==
    /\ HTTPProbe \subseteq Container
    /\ Stoppable \subseteq Container
    /\ Faults \subseteq FaultKind
ASSUME MaxAgeAssumption == MaxAge \in Nat /\ None \notin 0..MaxAge

VARIABLES
    docker,         \* docker[c]: the container as the daemon has it
    startStates,    \* startStates[c]: what GetStartState returns
    lastSeen,       \* lastSeen[c]: age of the last activity, or None
    locks,          \* locks[c]: the goroutine that holds c's mutex, or None
    pc,             \* pc[p]: where goroutine p stands
    plan,           \* plan[p]: the steps of p's call
    at,             \* at[p]: the step of plan[p] that p is at
    expired         \* expired[p]: p's context is past its deadline

memory == <<startStates, lastSeen>>
goroutine == <<locks, pc, plan, at, expired>>
vars == <<docker, startStates, lastSeen, locks, pc, plan, at, expired>>

\* "booting" and "ready" are both "running" for Docker; the application of a
\* ready container also answers the readiness probe.
DockerState == {"absent", "exited", "booting", "ready"}
StartStatus == {"unknown", "starting", "running", "failed"}
Location == {"idle", "init", "lock", "check", "start", "address", "wait",
             "probe", "mark"}

TypeOK ==
    /\ docker \in [Container -> DockerState]
    /\ startStates \in [Container -> StartStatus]
    /\ lastSeen \in [Container -> 0..MaxAge \cup {None}]
    /\ locks \in [Container -> Proc \cup {None}]
    /\ pc \in [Proc -> Location]
    /\ plan \in [Proc -> Seq(Step)]
    /\ at \in [Proc -> Nat]
    /\ expired \in [Proc -> BOOLEAN]
    /\ \A p \in Proc : pc[p] # "idle" => at[p] \in 1..Len(plan[p])

Init ==
    /\ docker \in [Container -> DockerState]
    /\ startStates = [c \in Container |-> "unknown"]
    /\ lastSeen = [c \in Container |-> None]
    /\ locks = [c \in Container |-> None]
    /\ pc = [p \in Proc |-> "idle"]
    /\ plan = [p \in Proc |-> <<>>]
    /\ at = [p \in Proc |-> 0]
    /\ expired = [p \in Proc |-> FALSE]

Cur(p) == plan[p][at[p]].name

\* The statuses of GetContainerStatus that EnsureRunning tells apart.
Running(c) == docker[c] \in {"booting", "ready"}

\* A Docker call of p can answer, and can return an error.
CanReply(p) == ~expired[p]
CanFail(p) == expired[p] \/ "api" \in Faults

-----------------------------------------------------------------------------
(***************************************************************************)
(* The goroutines.                                                         *)
(***************************************************************************)
Goto(p, l) == pc' = [pc EXCEPT ![p] = l]

setStartState(c, status) == startStates' = [startStates EXCEPT ![c] = status]

\* The first location of a step: the loops call InitStartState, direct
\* callers of EnsureRunning have done so before.
Entry(step) == IF step.init THEN "init" ELSE "lock"

\* The goroutine's function returns; a free goroutine remembers nothing.
Finish(p) ==
    /\ Goto(p, "idle")
    /\ plan' = [plan EXCEPT ![p] = <<>>]
    /\ at' = [at EXCEPT ![p] = 0]
    /\ expired' = [expired EXCEPT ![p] = FALSE]

\* EnsureRunning returns nil: unlock, go on with the loop or leave it.
Return(p) ==
    /\ locks' = [locks EXCEPT ![Cur(p)] = None]
    /\ IF at[p] < Len(plan[p])
       THEN /\ at' = [at EXCEPT ![p] = @ + 1]
            /\ Goto(p, Entry(plan[p][at[p] + 1]))
            /\ UNCHANGED <<plan, expired>>
       ELSE Finish(p)

\* Mutant: the loop goes on after an error.
FailAndGoOn(p) ==
    /\ setStartState(Cur(p), "failed")
    /\ Return(p)
    /\ UNCHANGED lastSeen

\* Mutant: an error path without the unlock.
FailLocked(p) ==
    /\ setStartState(Cur(p), "failed")
    /\ Finish(p)
    /\ UNCHANGED <<lastSeen, locks>>

\* EnsureRunning returns an error: state "failed", unlock, drop the plan.
Fail(p) ==
    /\ setStartState(Cur(p), "failed")
    /\ locks' = [locks EXCEPT ![Cur(p)] = None]
    /\ Finish(p)
    /\ UNCHANGED lastSeen

\* Mutant: the loop begins in front of the list.
CallOffByOne(p, job) ==
    /\ pc[p] = "idle"
    /\ startStates' = [c \in Container |->
                        IF c \in job.marks THEN "starting" ELSE startStates[c]]
    /\ plan' = [plan EXCEPT ![p] = job.plan]
    /\ Goto(p, Entry(job.plan[1]))
    /\ UNCHANGED <<docker, lastSeen, locks, at, expired>>

\* A handler marks containers as "starting" and spawns a goroutine.
Call(p, job) ==
    /\ pc[p] = "idle"
    /\ startStates' = [c \in Container |->
                        IF c \in job.marks THEN "starting" ELSE startStates[c]]
    /\ plan' = [plan EXCEPT ![p] = job.plan]
    /\ at' = [at EXCEPT ![p] = 1]
    /\ Goto(p, Entry(job.plan[1]))
    /\ UNCHANGED <<docker, lastSeen, locks, expired>>

InitStartState(p) ==
    /\ pc[p] = "init"
    /\ setStartState(Cur(p), "starting")
    /\ Goto(p, "lock")
    /\ UNCHANGED <<docker, lastSeen, locks, plan, at, expired>>

\* Mutant: nobody waits for the mutex.
EnterUnlocked(p) ==
    /\ pc[p] = "lock"
    /\ locks' = [locks EXCEPT ![Cur(p)] = p]
    /\ Goto(p, "check")
    /\ UNCHANGED <<docker, memory, plan, at, expired>>

AcquireLock(p) ==
    /\ pc[p] = "lock"
    /\ locks[Cur(p)] = None
    /\ locks' = [locks EXCEPT ![Cur(p)] = p]
    /\ Goto(p, "check")
    /\ UNCHANGED <<docker, memory, plan, at, expired>>

\* The early return: only the activity is recorded, the start state stays.
FoundRunning(p) ==
    /\ pc[p] = "check"
    /\ CanReply(p)
    /\ Running(Cur(p))
    /\ lastSeen' = [lastSeen EXCEPT ![Cur(p)] = 0]
    /\ Return(p)
    /\ UNCHANGED <<docker, startStates>>

\* Mutant: the start state is left to the callers' InitStartState.
FoundStoppedSilently(p) ==
    /\ pc[p] = "check"
    /\ ~Running(Cur(p)) \/ CanFail(p)
    /\ Goto(p, "start")
    /\ UNCHANGED <<docker, memory, locks, plan, at, expired>>

\* Mutant: the mutex covers the status check only.
FoundStoppedUnlocking(p) ==
    /\ pc[p] = "check"
    /\ ~Running(Cur(p)) \/ CanFail(p)
    /\ setStartState(Cur(p), "starting")
    /\ locks' = [locks EXCEPT ![Cur(p)] = None]
    /\ Goto(p, "start")
    /\ UNCHANGED <<docker, lastSeen, plan, at, expired>>

\* Not running, or the status is not known: both go on to docker start.
FoundStopped(p) ==
    /\ pc[p] = "check"
    /\ ~Running(Cur(p)) \/ CanFail(p)
    /\ setStartState(Cur(p), "starting")
    /\ Goto(p, "start")
    /\ UNCHANGED <<docker, lastSeen, locks, plan, at, expired>>

\* docker start of a container: a running one is left as it is.
Started(c) == [docker EXCEPT ![c] = IF @ = "exited" THEN "booting" ELSE @]

StartContainer(p) ==
    /\ pc[p] = "start"
    /\ CanReply(p)
    /\ docker[Cur(p)] # "absent"
    /\ docker' = Started(Cur(p))
    /\ Goto(p, "address")
    /\ UNCHANGED <<memory, locks, plan, at, expired>>

StartRejected(p) ==
    /\ pc[p] = "start"
    /\ docker[Cur(p)] = "absent" \/ CanFail(p)
    /\ Fail(p)
    /\ UNCHANGED docker

\* The daemon starts the container and the answer is lost.
StartReplyLost(p) ==
    /\ pc[p] = "start"
    /\ "api" \in Faults
    /\ docker[Cur(p)] # "absent"
    /\ docker' = Started(Cur(p))
    /\ Fail(p)

\* Only a container that runs has an address.
GetContainerAddress(p) ==
    /\ pc[p] = "address"
    /\ CanReply(p)
    /\ Running(Cur(p))
    /\ Goto(p, "wait")
    /\ UNCHANGED <<docker, memory, locks, plan, at, expired>>

NoAddress(p) ==
    /\ pc[p] = "address"
    /\ ~Running(Cur(p)) \/ CanFail(p)
    /\ Fail(p)
    /\ UNCHANGED docker

\* Mutant: the status of the container does not end the attempt.
CrashUnnoticed(p) ==
    /\ pc[p] = "wait"
    /\ CanReply(p)
    /\ docker[Cur(p)] = "exited"
    /\ Goto(p, "probe")
    /\ UNCHANGED <<docker, memory, locks, plan, at, expired>>

\* The select of the polling loop: ctx.Done() ...
GiveUp(p) ==
    /\ pc[p] = "wait"
    /\ expired[p]
    /\ Fail(p)
    /\ UNCHANGED docker

\* ... or the ticker, which may win although the context is done.
CrashedOnBoot(p) ==
    /\ pc[p] = "wait"
    /\ CanReply(p)
    /\ docker[Cur(p)] = "exited"
    /\ Fail(p)
    /\ UNCHANGED docker

\* The error of the status call is ignored: no status is not a crash.
StillBooting(p) ==
    /\ pc[p] = "wait"
    /\ docker[Cur(p)] # "exited" \/ CanFail(p)
    /\ Goto(p, "probe")
    /\ UNCHANGED <<docker, memory, locks, plan, at, expired>>

\* Mutant: a container that runs counts as ready.
ProbeSucceedsEarly(p) ==
    /\ pc[p] = "probe"
    /\ Running(Cur(p))
    /\ Goto(p, "mark")
    /\ UNCHANGED <<docker, memory, locks, plan, at, expired>>

\* The TCP probe is one dial that ignores the context; the HTTP probe loops
\* until it gets an answer or the context is done.
ProbeSucceeds(p) ==
    /\ pc[p] = "probe"
    /\ docker[Cur(p)] = "ready"
    /\ Cur(p) \in HTTPProbe => CanReply(p)
    /\ Goto(p, "mark")
    /\ UNCHANGED <<docker, memory, locks, plan, at, expired>>

ProbeFails(p) ==
    /\ pc[p] = "probe"
    /\ IF Cur(p) \in HTTPProbe THEN expired[p] ELSE docker[Cur(p)] # "ready"
    /\ Goto(p, "wait")
    /\ UNCHANGED <<docker, memory, locks, plan, at, expired>>

MarkRunning(p) ==
    /\ pc[p] = "mark"
    /\ lastSeen' = [lastSeen EXCEPT ![Cur(p)] = 0]
    /\ setStartState(Cur(p), "running")
    /\ Return(p)
    /\ UNCHANGED docker

Expire(p) ==
    /\ "deadline" \in Faults
    /\ pc[p] # "idle"
    /\ ~expired[p]
    /\ expired' = [expired EXCEPT ![p] = TRUE]
    /\ UNCHANGED <<docker, memory, locks, pc, plan, at>>

\* What a goroutine does by itself, except waiting for the mutex.
Proceed(p) ==
    \/ InitStartState(p)
    \/ FoundRunning(p) \/ FoundStopped(p)
    \/ StartContainer(p) \/ StartRejected(p) \/ StartReplyLost(p)
    \/ GetContainerAddress(p) \/ NoAddress(p)
    \/ GiveUp(p) \/ CrashedOnBoot(p) \/ StillBooting(p)
    \/ ProbeSucceeds(p) \/ ProbeFails(p)
    \/ MarkRunning(p)

-----------------------------------------------------------------------------
(***************************************************************************)
(* The rest of the gateway, as far as it touches the manager's state.      *)
(***************************************************************************)
\* A request was forwarded: RecordActivityChain of the containers reached.
RecordActivity(S) ==
    /\ lastSeen' = [c \in Container |-> IF c \in S THEN 0 ELSE lastSeen[c]]
    /\ UNCHANGED <<docker, startStates, goroutine>>

\* docker stop by the idle watcher or a cron job; no mutex is taken.
StopContainer(c) ==
    /\ c \in Stoppable
    /\ Running(c)
    /\ docker' = [docker EXCEPT ![c] = "exited"]
    /\ UNCHANGED <<memory, goroutine>>

\* The idle watcher's setStartState(name, "unknown", "") after a stop.
ClearStartState(c) ==
    /\ c \in Stoppable
    /\ setStartState(c, "unknown")
    /\ UNCHANGED <<docker, lastSeen, goroutine>>

\* The process dies and comes back: all but Docker's state is gone.
Restart ==
    /\ "restart" \in Faults
    /\ startStates' = [c \in Container |-> "unknown"]
    /\ lastSeen' = [c \in Container |-> None]
    /\ locks' = [c \in Container |-> None]
    /\ pc' = [p \in Proc |-> "idle"]
    /\ plan' = [p \in Proc |-> <<>>]
    /\ at' = [p \in Proc |-> 0]
    /\ expired' = [p \in Proc |-> FALSE]
    /\ UNCHANGED docker

Tick ==
    /\ lastSeen' = [c \in Container |->
                      IF lastSeen[c] \in 0..(MaxAge - 1) THEN lastSeen[c] + 1
                                                         ELSE lastSeen[c]]
    /\ UNCHANGED <<docker, startStates, goroutine>>

-----------------------------------------------------------------------------
(***************************************************************************)
(* Docker, the applications and the operators.                             *)
(***************************************************************************)
Becomes(c, from, to) ==
    /\ docker[c] \in from
    /\ docker' = [docker EXCEPT ![c] = to]
    /\ UNCHANGED <<memory, goroutine>>

Boot(c) == Becomes(c, {"booting"}, "ready")
Crash(c) == "crash" \in Faults /\ Becomes(c, {"booting", "ready"}, "exited")
OperatorStart(c) == "operator" \in Faults /\ Becomes(c, {"exited"}, "booting")
Remove(c) == "remove" \in Faults /\ Becomes(c, {"exited"}, "absent")
Create(c) == "remove" \in Faults /\ Becomes(c, {"absent"}, "exited")

Environment(c) ==
    Boot(c) \/ Crash(c) \/ OperatorStart(c) \/ Remove(c) \/ Create(c)

-----------------------------------------------------------------------------
Next ==
    \/ \E p \in Proc, job \in Jobs : Call(p, job)
    \/ \E p \in Proc : AcquireLock(p) \/ Proceed(p) \/ Expire(p)
    \/ \E S \in SUBSET Container : RecordActivity(S)
    \/ \E c \in Container : StopContainer(c) \/ ClearStartState(c)
    \/ \E c \in Container : Environment(c)
    \/ Restart
    \/ Tick

Spec == Init /\ [][Next]_vars

(***************************************************************************)
(* The Go scheduler runs every goroutine that can go on.  sync.Mutex hands *)
(* the lock to a waiter that starves.  A select with several ready cases   *)
(* picks one at random, so the done context wins in the end.  Nothing is   *)
(* assumed of the callers, of Docker or of the applications.               *)
(***************************************************************************)
Fairness ==
    \A p \in Proc :
        /\ WF_vars(Proceed(p))
        /\ SF_vars(AcquireLock(p))
        /\ SF_vars(GiveUp(p))

\* The timers of the contexts fire.
Deadlines == \A p \in Proc : WF_vars(Expire(p))

FairSpec == Spec /\ Fairness

-----------------------------------------------------------------------------
(***************************************************************************)
(* Properties.                                                             *)
(***************************************************************************)
\* p holds the mutex of its current container.
InCriticalSection(p) ==
    pc[p] \in {"check", "start", "address", "wait", "probe", "mark"}

\* p has found its container stopped and has no result yet.
Attempting(p) == InCriticalSection(p) /\ pc[p] # "check"

\* The mutex invariant that the properties below rest on: EnsureRunning holds
\* the mutex of its container from the status check to its return.
MutexHeld == \A p \in Proc : InCriticalSection(p) => locks[Cur(p)] = p

\* However many requests arrive for a sleeping container, one goroutine at a
\* time is between the status check and the result (getLock, EnsureRunning).
OneAttempt ==
    \A p, q \in Proc :
        p # q /\ InCriticalSection(p) /\ InCriticalSection(q) => Cur(p) # Cur(q)

\* Every way out of EnsureRunning unlocks: a mutex that is taken belongs to a
\* goroutine that is inside EnsureRunning of its container, whatever fails and
\* whatever dies.  Who waits for a mutex therefore waits for a goroutine that
\* waits for none.
MutexHasHolder ==
    \A c \in Container : locks[c] # None =>
        InCriticalSection(locks[c]) /\ Cur(locks[c]) = c

\* EnsureRunning asks Docker to start only what does not run: the status that
\* it read still holds when it calls docker start, unless the status call
\* failed or an operator started the container meanwhile.
StartOnlyStopped ==
    Faults \cap {"operator", "api"} = {} =>
        \A p \in Proc : pc[p] = "start" /\ ~expired[p] => ~Running(Cur(p))

\* While an attempt is under way /_health says "starting", whatever other
\* requests, goroutines and attempts do, unless the gateway stops the
\* container behind the attempt's back (cascadeStop takes no mutex).
AttemptVisible ==
    \A p \in Proc : Attempting(p) /\ Cur(p) \notin Stoppable =>
                        startStates[Cur(p)] = "starting"

\* EnsureRunning sets "running" only after the probe: if containers stop
\* neither by themselves nor by the gateway, "running" means ready.
RunningMeansReady ==
    "crash" \notin Faults =>
        \A c \in Container \ Stoppable :
            startStates[c] = "running" => docker[c] = "ready"

\* The strengthening that makes RunningMeansReady inductive: what the probe
\* has seen still holds when the result is recorded.
ProbedReady ==
    "crash" \notin Faults =>
        \A p \in Proc : pc[p] = "mark" /\ Cur(p) \notin Stoppable =>
                            docker[Cur(p)] = "ready"

\* config.go:108: dependencies must be running before the container starts.
\* A goroutine at step n of its plan has left behind containers that run, as
\* long as nobody stops them.
PredecessorsRunning ==
    "crash" \notin Faults =>
        \A p \in Proc : pc[p] # "idle" =>
            \A i \in 1..(at[p] - 1) :
                plan[p][i].name \notin Stoppable => Running(plan[p][i].name)

\* manager.go:219: each dependency must pass its readiness probe before the
\* next one begins.
PredecessorsReady ==
    \A p \in Proc : pc[p] # "idle" =>
        \A i \in 1..(at[p] - 1) : docker[plan[p][i].name] = "ready"

\* Every goroutine comes back from the manager: deadlines and mutexes leave
\* nobody stuck, however the plans overlap.
AttemptsEnd == Deadlines => \A p \in Proc : pc[p] # "idle" ~> pc[p] = "idle"

\* manager.go:190: a container that exits while it boots is found out by the
\* polling loop, even if no deadline ever ends the attempt.
BootCrashSeen(c) ==
    \E p \in Proc : pc[p] \in {"wait", "probe"} /\ Cur(p) = c /\ docker[c] = "exited"
CrashDetected ==
    \A c \in Container \ HTTPProbe : BootCrashSeen(c) ~> ~BootCrashSeen(c)

\* health-probe-and-discovery.md:49: with an HTTP probe it is the same.
HTTPCrashDetected ==
    \A c \in HTTPProbe : BootCrashSeen(c) ~> ~BootCrashSeen(c)
=============================================================================
