----------------------------- MODULE StartJobs ------------------------------
(***************************************************************************)
(* The calls that the gateway's handlers make of its ContainerManager, in  *)
(* the form that module ContainerManager takes them: the containers that   *)
(* the handler marks as starting before it spawns the goroutine, and the   *)
(* steps that the goroutine goes through.                                  *)
(***************************************************************************)
EXTENDS Dependencies

\* One EnsureRunning, with or without an InitStartState in front of it.
Bring(c, init) == [name |-> c, init |-> init]
InLoop(names) == [i \in DOMAIN names |-> Bring(names[i], TRUE)]

\* EnsureDepsRunning(target)
DepsPlan(target) == InLoop(DepsInOrder(target))

\* handleRequest, container not running: dependencies, then the container.
RequestJob(c) ==
    [marks |-> {c}, plan |-> Append(DepsPlan(c), Bring(c, FALSE))]

\* handleRequest, container running and a dependency not: dependencies only.
RepairJob(c) == [marks |-> {c}, plan |-> DepsPlan(c)]

\* handleStatusWake and the schedule_start job: the container alone.
WakeJob(c) == [marks |-> {c}, plan |-> <<Bring(c, FALSE)>>]

\* handleGroupRequest and EnsureGroupRunning: the dependencies of each
\* member, member by member, then the members.
GroupDepsPlan(members) ==
    LET after[i \in 0..Len(members)] ==
            IF i = 0 THEN <<>> ELSE after[i - 1] \o DepsPlan(members[i])
    IN  after[Len(members)]

GroupJob(members) ==
    [marks |-> ToSet(members), plan |-> GroupDepsPlan(members) \o InLoop(members)]
=============================================================================
