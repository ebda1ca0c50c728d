------------------------------ MODULE Serving -------------------------------
(***************************************************************************)
(* One request while the configuration is reloaded under it                *)
(* (gateway/server.go).  ReloadConfig replaces the server's configuration  *)
(* with all its indexes under a lock; a request takes that lock again and  *)
(* again, for the group, for the container, for a member, for the list of  *)
(* all containers, and the goroutine that it leaves behind takes it once   *)
(* more.  What it has read stays with it: the entry found under one        *)
(* configuration is used with the list of another.                         *)
(*                                                                         *)
(* Here Docker only answers; what the starts do is in module Gateway.      *)
(* Requests share nothing but the configuration, so one is enough.         *)
(***************************************************************************)
EXTENDS Configuration

CONSTANTS
    Configs,        \* the configurations that the server may have
    Requests,       \* [host, container]: Host header and ?container= parameter
    MaxReloads      \* bound on the reloads during a request

\* Both LoadConfig and runDiscovery check what they hand on.
ASSUME ConfigsAssumption ==
    Configs \subseteq GatewayConfig /\ \A c \in Configs : Validate(c)

\* A request comes to some host.
ASSUME RequestsAssumption == (\A r \in Requests : r.host # NoHost) /\ MaxReloads \in Nat

\* What discovery pushes: mergeConfigs leaves the groups out (module Discovery).
Pushed == {c \in Configs : c.groups = {}}

NoEntry == [name |-> NoHost, host |-> NoHost, deps |-> <<>>, scheduled |-> FALSE]
NoGroup == [host |-> NoHost, members |-> <<>>]
NoRequest == [host |-> NoHost, container |-> NoHost]

VARIABLES
    config,         \* Server.cfg, hostIndex, groupIndex and containerMap
    pc,             \* where the request, later its goroutine, stands
    request,        \* the request
    group,          \* the GroupConfig found for it
    entry,          \* the ContainerConfig found for it
    list,           \* the allContainers that it goes on with
    plan,           \* the names that the goroutine starts, in order
    active,         \* the containers whose activity was recorded
    result,         \* how it ended
    since,          \* the configurations in force since it began
    reloads         \* how many there were

vars == <<config, pc, request, group, entry, list, plan, active, result,
          since, reloads>>

Location == {"idle", "resolve", "lookup", "status", "deps", "repair", "start",
             "activity", "member", "memberStatus", "groupStart",
             "groupActivity", "done"}
Result == {"none", "notFound", "noMember", "error", "unresolved", "started",
           "forwarded"}

ServingTypeOK ==
    /\ config.containers \in Seq(ContainerConfig)
    /\ config.groups \subseteq GroupConfig
    /\ pc \in Location
    /\ request \in Requests \cup {NoRequest}
    /\ group \in GroupConfig \cup {NoGroup}
    /\ entry \in ContainerConfig \cup {NoEntry}
    /\ list \in Seq(ContainerConfig)
    /\ plan \in Seq(Name)
    /\ active \subseteq Name
    /\ result \in Result
    /\ pc # "idle" => config \in since
    /\ reloads \in 0..MaxReloads
    /\ pc = "idle" <=> request = NoRequest
    /\ pc = "done" <=> result # "none"

Init ==
    /\ config \in Configs
    /\ pc = "idle"
    /\ request = NoRequest /\ group = NoGroup /\ entry = NoEntry
    /\ list = <<>> /\ plan = <<>> /\ active = {}
    /\ result = "none"
    /\ since = {}
    /\ reloads = 0

Goto(l) == pc' = l /\ UNCHANGED result
End(r) == pc' = "done" /\ result' = r

found == <<group, entry, list>>
effects == <<plan, active>>
server == <<config, since, reloads>>

-----------------------------------------------------------------------------
\* Mutant: the groups of the file are kept, as hot-reload.md:30 has it.
ReloadWithGroups ==
    /\ pc # "done" /\ reloads < MaxReloads
    /\ \E c \in Configs :
        /\ config' = c
        /\ since' = IF pc = "idle" THEN {} ELSE since \cup {c}
    /\ reloads' = IF pc = "idle" THEN 0 ELSE reloads + 1
    /\ UNCHANGED <<pc, request, found, effects, result>>

\* ReloadConfig, called by a discovery pass.  A request that is done is not
\* interested any more.
ReloadConfig ==
    /\ pc # "done" /\ reloads < MaxReloads
    /\ \E c \in Pushed :
        /\ config' = c
        /\ since' = IF pc = "idle" THEN {} ELSE since \cup {c}
    /\ reloads' = IF pc = "idle" THEN 0 ELSE reloads + 1
    /\ UNCHANGED <<pc, request, found, effects, result>>

Arrive ==
    /\ pc = "idle"
    /\ request' \in Requests
    /\ since' = {config}
    /\ reloads' = 0
    /\ Goto("resolve")
    /\ UNCHANGED <<config, found, effects>>

\* The response is out and the goroutine has returned.
Forget ==
    /\ pc = "done"
    /\ request' = NoRequest /\ group' = NoGroup /\ entry' = NoEntry
    /\ list' = <<>> /\ plan' = <<>> /\ active' = {}
    /\ since' = {} /\ reloads' = 0
    /\ pc' = "idle" /\ result' = "none"
    /\ UNCHANGED config

-----------------------------------------------------------------------------
(***************************************************************************)
(* handleRequest                                                           *)
(***************************************************************************)
GroupsAt(host) == {g \in config.groups : g.host = host}

\* The host index first, then the parameter.
EntriesFor(r) ==
    LET cs == ToSet(config.containers)
        byHost == {c \in cs : c.host = r.host /\ c.host # NoHost}
    IN  IF byHost # {} THEN byHost ELSE {c \in cs : c.name = r.container}

resolveGroup ==
    /\ pc = "resolve"
    /\ \/ /\ group' \in GroupsAt(request.host)
          /\ Goto("member")
       \/ /\ GroupsAt(request.host) = {}
          /\ Goto("lookup")
          /\ UNCHANGED group
    /\ UNCHANGED <<server, request, entry, list, effects>>

FindEntry ==
    /\ pc = "lookup"
    /\ entry' \in EntriesFor(request)
    /\ Goto("status")
    /\ UNCHANGED <<server, request, group, list, effects>>

\* Mutant: the return is missing.
NotFoundAndGoOn ==
    /\ pc = "lookup"
    /\ EntriesFor(request) = {}
    /\ pc' = "status" /\ result' = "notFound"
    /\ UNCHANGED <<server, request, found, effects>>

NotFound ==
    /\ pc = "lookup"
    /\ EntriesFor(request) = {}
    /\ End("notFound")
    /\ UNCHANGED <<server, request, found, effects>>

\* Whatever Docker says.
Status ==
    /\ pc = "status"
    /\ \/ End("error")
       \/ Goto(IF entry.deps = <<>> THEN "activity" ELSE "deps")
       \/ Goto("start")
    /\ UNCHANGED <<server, request, found, effects>>

\* The container runs: the list is read before the dependencies are asked,
\* and it is the one that the goroutine gets.
CheckDeps ==
    /\ pc = "deps"
    /\ list' = config.containers
    /\ Goto("activity") \/ Goto("repair")
    /\ UNCHANGED <<server, request, group, entry, effects>>

(***************************************************************************)
(* EnsureDepsRunning(target): the order without the target, or an error.   *)
(***************************************************************************)
DepsInOrder(target, containers) ==
    LET order == TopologicalSort(target, containers).order
    IN  Loop(<<>>, [i \in DOMAIN order |-> [names \in Seq(Name) |->
                        IF order[i] = target THEN names ELSE Append(names, order[i])]])

Repair ==
    /\ pc = "repair"
    /\ IF TopologicalSort(entry.name, list).failed
       THEN End("unresolved") /\ UNCHANGED plan
       ELSE End("started") /\ plan' = DepsInOrder(entry.name, list)
    /\ UNCHANGED <<server, request, found, active>>

\* Mutant: the dependencies that the entry lists, and no others.
StartListed ==
    /\ pc = "start"
    /\ list' = config.containers
    /\ plan' = Append(entry.deps, entry.name)
    /\ End("started")
    /\ UNCHANGED <<server, request, group, entry, active>>

\* The goroutine reads the list; whether there are dependencies is decided
\* by the entry of the request.
Start ==
    /\ pc = "start"
    /\ list' = config.containers
    /\ IF entry.deps # <<>> /\ TopologicalSort(entry.name, list').failed
       THEN End("unresolved") /\ UNCHANGED plan
       ELSE /\ End("started")
            /\ plan' = IF entry.deps = <<>> THEN <<entry.name>>
                       ELSE Append(DepsInOrder(entry.name, list'), entry.name)
    /\ UNCHANGED <<server, request, group, entry, active>>

\* Mutant: a root that does not resolve is left out.
ActivityChainResolved(roots, containers) ==
    UNION {LET search == TopologicalSort(r, containers)
           IN  IF search.failed THEN {} ELSE ToSet(search.order) : r \in roots}

\* RecordActivityChain: a root that does not resolve is recorded alone.
ActivityChain(roots, containers) ==
    UNION {LET search == TopologicalSort(r, containers)
           IN  IF search.failed THEN {r} ELSE ToSet(search.order) : r \in roots}

RecordActivity ==
    /\ pc = "activity"
    /\ list' = config.containers
    /\ active' = ActivityChain({entry.name}, list')
    /\ End("forwarded")
    /\ UNCHANGED <<server, request, group, entry, plan>>

-----------------------------------------------------------------------------
(***************************************************************************)
(* handleGroupRequest                                                      *)
(***************************************************************************)
\* Pick takes any member; its entry comes from the containerMap.
FindMember ==
    /\ pc = "member"
    /\ \E m \in ToSet(group.members) \cap Names(config.containers) :
        entry' = ByName(config.containers, m)
    /\ Goto("memberStatus")
    /\ UNCHANGED <<server, request, group, list, effects>>

NoMember ==
    /\ pc = "member"
    /\ ~ (ToSet(group.members) \subseteq Names(config.containers))
    /\ End("noMember")
    /\ UNCHANGED <<server, request, found, effects>>

MemberStatus ==
    /\ pc = "memberStatus"
    /\ Goto("groupStart") \/ Goto("groupActivity")
    /\ UNCHANGED <<server, request, found, effects>>

\* EnsureGroupRunning: the dependencies of each member, then the members.  At
\* the first that does not resolve it stops, after what came before.
GroupPlan(members, containers) ==
    Loop(Begin, [i \in DOMAIN members |-> [p \in Search |->
                    IF p.failed \/ TopologicalSort(members[i], containers).failed
                    THEN Fail(p)
                    ELSE [p EXCEPT !.order = @ \o DepsInOrder(members[i], containers)]]])

StartGroup ==
    /\ pc = "groupStart"
    /\ list' = config.containers
    /\ LET deps == GroupPlan(group.members, list') IN
        IF deps.failed THEN End("unresolved") /\ plan' = deps.order
                       ELSE End("started") /\ plan' = deps.order \o group.members
    /\ UNCHANGED <<server, request, group, entry, active>>

RecordGroupActivity ==
    /\ pc = "groupActivity"
    /\ list' = config.containers
    /\ active' = ActivityChain(ToSet(group.members), list')
    /\ End("forwarded")
    /\ UNCHANGED <<server, request, group, entry, plan>>

Handle ==
    \/ resolveGroup \/ FindEntry \/ NotFound \/ Status
    \/ CheckDeps \/ Repair \/ Start \/ RecordActivity
    \/ FindMember \/ NoMember \/ MemberStatus
    \/ StartGroup \/ RecordGroupActivity

Next == ReloadConfig \/ Arrive \/ Handle \/ Forget

Spec == Init /\ [][Next]_vars

-----------------------------------------------------------------------------
(***************************************************************************)
(* Properties.                                                             *)
(***************************************************************************)
\* The search of detectDependencyCycles finds every cycle: no configuration
\* that the server ever has contains one, by the definition without a search.
ServedAcyclic == Acyclic(config.containers)

\* The containers that a request is for, under a configuration.
Roots == IF group = NoGroup THEN {entry.name} ELSE ToSet(group.members)

\* p starts everything that the roots need under c, dependencies first.
CompleteUnder(c, p) ==
    /\ NeededBy(Roots, c.containers) \subseteq ToSet(p) \cup Roots
    /\ \A i \in DOMAIN p : \A d \in ToSet(DepsOf(c.containers)[p[i]]) :
        \E j \in 1..(i - 1) : p[j] = d

\* server.go:320 and 367: the entry and the list may belong to different
\* configurations, but what a request starts is complete and in order for one
\* that was in force since it came, never a mixture of two.
PlanOfOneConfig ==
    result = "started" => \E c \in since : CompleteUnder(c, plan)

\* manager.go:219-222 and 90-121: resolution fails, and a member is missing,
\* only for names that a reload took away; cycles and unknown dependencies
\* have been ruled out for all others.
FailsOnlyIfRemoved ==
    result \in {"unresolved", "noMember"} =>
        \E c \in since : ~(Roots \subseteq Names(c.containers))

\* server.go:220-257: the group and the container are looked up under two
\* locks.  A request is not found only if some configuration in force
\* meanwhile had neither for it.
ServedBy(c, r) ==
    \/ \E g \in c.groups : g.host = r.host
    \/ \E k \in ToSet(c.containers) : k.host = r.host \/ k.name = r.container
NotFoundOnlyIfUnserved ==
    result = "notFound" => \E c \in since : ~ServedBy(c, request)

\* Forwarding keeps the whole chain of its container awake, as some
\* configuration in force meanwhile defines it (manager.go:84-89).
ActivityReachesChain ==
    result = "forwarded" =>
        \E c \in since : active = NeededBy(Roots, c.containers)
=============================================================================
