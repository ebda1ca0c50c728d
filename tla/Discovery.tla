----------------------------- MODULE Discovery ------------------------------
(***************************************************************************)
(* Where the gateway's configuration comes from: the static file, read at  *)
(* startup (main.go) and again on SIGHUP, and the labels of the containers *)
(* that Docker lists (gateway/discovery.go).  A discovery pass merges the  *)
(* two, compares the result with the last one and pushes it to the server, *)
(* which swaps its configuration and re-registers the cron jobs            *)
(* (Server.ReloadConfig, ScheduleManager.Sync).                            *)
(*                                                                         *)
(* Passes run in three threads: in main at startup, in the ticker's        *)
(* goroutine, and in the goroutine that handles signals.  The mutex of the *)
(* DiscoveryManager covers the merge and the comparison, each for itself,  *)
(* but neither the whole pass nor the push.                                *)
(***************************************************************************)
EXTENDS Configuration

CONSTANTS
    StaticConfigs,  \* what the file may contain
    LabelLists,     \* what Docker may list
    None,           \* "no configuration"
    Faults,         \* "list": a listing may fail, "overlap": the passes of
                    \* the ticker and of a signal may overlap
    MaxChanges      \* bound on the edits of the file and of the labels

\* LoadConfig checks the file.
ASSUME StaticConfigsAssumption ==
    StaticConfigs \subseteq GatewayConfig /\ \A s \in StaticConfigs : Validate(s)
ASSUME LabelListsAssumption == LabelLists \subseteq Seq(ContainerConfig)
ASSUME MaxChangesAssumption == MaxChanges \in Nat

\* Containers with dag.enabled, in the order of Docker's list; one without a
\* dag.host is passed over.
DiscoverLabeledContainers(listed) ==
    Loop(<<>>, [i \in DOMAIN listed |-> [cs \in Seq(ContainerConfig) |->
        IF listed[i].host = NoHost THEN cs ELSE Append(cs, listed[i])]])

\* mergeConfigs: static containers first, discovered ones unless host or name
\* is taken.  Of the static configuration only the gateway section and the
\* containers are copied.
Merge(static, discovered) ==
    [containers |->
        Loop(static.containers, [i \in DOMAIN discovered |-> [cs \in Seq(ContainerConfig) |->
            IF discovered[i].host \in Hosts(cs) \/ discovered[i].name \in Names(cs)
            THEN cs ELSE Append(cs, discovered[i])]]),
     groups |-> {}]

\* The containers that Sync registers jobs for.
Scheduled(cfg) == {c.name : c \in {d \in ToSet(cfg.containers) : d.scheduled}}

Thread == {"main", "ticker", "signal"}

VARIABLES
    file,           \* the content of config.yaml
    labels,         \* the labelled containers, as Docker lists them
    staticConfig,   \* DiscoveryManager.staticConfig
    lastConfig,     \* DiscoveryManager.lastConfig
    served,         \* Server.cfg, with the indexes that are built from it
    jobs,           \* containers with registered cron jobs
    stage,          \* stage[t]: where thread t stands
    listing,        \* listing[t]: the containers listed in t's pass
    merged,         \* merged[t]: the configuration that t's pass has built
    changes         \* edits so far

outside == <<file, labels, changes>>
discovery == <<file, labels, staticConfig, lastConfig, served, jobs, stage,
               listing, merged, changes>>

Config ==
    UNION {StaticConfigs, {Merge(s, DiscoverLabeledContainers(l)) : s \in StaticConfigs, l \in LabelLists}}

DiscoveryTypeOK ==
    /\ file \in StaticConfigs /\ labels \in LabelLists
    /\ staticConfig \in StaticConfigs
    /\ lastConfig \in Config \cup {None}
    /\ served \in Config
    /\ jobs \subseteq UNION {Scheduled(c) : c \in Config}
    /\ stage \in [Thread -> {"off", "idle", "list", "merge", "compare", "push", "sync"}]
    /\ listing \in [Thread -> {DiscoverLabeledContainers(l) : l \in LabelLists} \cup {<<>>}]
    /\ merged \in [Thread -> Config \cup {None}]
    /\ changes \in 0..MaxChanges

\* main has read the file and built the server; its first pass begins.
DiscoveryInit ==
    /\ file \in StaticConfigs
    /\ labels \in LabelLists
    /\ staticConfig = file
    /\ lastConfig = None
    /\ served = file
    /\ jobs = {}
    /\ stage = [t \in Thread |-> IF t = "main" THEN "list" ELSE "off"]
    /\ listing = [t \in Thread |-> <<>>]
    /\ merged = [t \in Thread |-> None]
    /\ changes = 0

-----------------------------------------------------------------------------
(***************************************************************************)
(* runDiscovery                                                            *)
(***************************************************************************)
Enter(t, l) == stage' = [stage EXCEPT ![t] = l]

\* The pass is over.  After the first one main starts the ticker and goes on
\* to the scheduler.
EndPass(t) ==
    /\ stage' = IF t = "main" THEN [stage EXCEPT !["main"] = "sync", !["ticker"] = "idle"]
                              ELSE [stage EXCEPT ![t] = "idle"]
    /\ listing' = [listing EXCEPT ![t] = <<>>]
    /\ merged' = [merged EXCEPT ![t] = None]

List(t) ==
    /\ stage[t] = "list"
    /\ listing' = [listing EXCEPT ![t] = DiscoverLabeledContainers(labels)]
    /\ Enter(t, "merge")
    /\ UNCHANGED <<outside, staticConfig, lastConfig, served, jobs, merged>>

ListFails(t) ==
    /\ stage[t] = "list"
    /\ "list" \in Faults
    /\ EndPass(t)
    /\ UNCHANGED <<outside, staticConfig, lastConfig, served, jobs>>

\* Mutant: the merge is not validated.
MergeUnchecked(t) ==
    /\ stage[t] = "merge"
    /\ merged' = [merged EXCEPT ![t] = Merge(staticConfig, listing[t])]
    /\ Enter(t, "compare")
    /\ UNCHANGED <<outside, staticConfig, lastConfig, served, jobs, listing>>

\* Mutant: a merge that is not valid is remembered.
MergeAndRemember(t) ==
    /\ stage[t] = "merge"
    /\ LET new == Merge(staticConfig, listing[t]) IN
        IF Validate(new)
        THEN /\ merged' = [merged EXCEPT ![t] = new]
             /\ Enter(t, "compare")
             /\ UNCHANGED <<lastConfig, listing>>
        ELSE /\ lastConfig' = new
             /\ EndPass(t)
    /\ UNCHANGED <<outside, staticConfig, served, jobs>>

\* Mutant: discovered containers are appended to the static configuration.
MergeInPlace(t) ==
    /\ stage[t] = "merge"
    /\ LET new == Merge(staticConfig, listing[t]) IN
        /\ staticConfig' = new
        /\ IF Validate(new)
           THEN /\ merged' = [merged EXCEPT ![t] = new]
                /\ Enter(t, "compare")
                /\ UNCHANGED listing
           ELSE EndPass(t)
    /\ UNCHANGED <<outside, lastConfig, served, jobs>>

MergeConfigs(t) ==
    /\ stage[t] = "merge"
    /\ LET new == Merge(staticConfig, listing[t]) IN
        IF Validate(new)
        THEN /\ merged' = [merged EXCEPT ![t] = new]
             /\ Enter(t, "compare")
             /\ UNCHANGED listing
        ELSE EndPass(t)
    /\ UNCHANGED <<outside, staticConfig, lastConfig, served, jobs>>

\* Mutant: as many containers as before count as no change.
UnchangedLength(t) ==
    /\ stage[t] = "compare"
    /\ lastConfig # None
    /\ Len(lastConfig.containers) = Len(merged[t].containers)
    /\ EndPass(t)
    /\ UNCHANGED <<outside, staticConfig, lastConfig, served, jobs>>

Unchanged(t) ==
    /\ stage[t] = "compare"
    /\ lastConfig = merged[t]
    /\ EndPass(t)
    /\ UNCHANGED <<outside, staticConfig, lastConfig, served, jobs>>

Changed(t) ==
    /\ stage[t] = "compare"
    /\ lastConfig # merged[t]
    /\ lastConfig' = merged[t]
    /\ Enter(t, "push")
    /\ UNCHANGED <<outside, staticConfig, served, jobs, listing, merged>>

\* onConfigChange: ReloadConfig, under the server's lock, with its Sync.
Push(t) ==
    /\ stage[t] = "push"
    /\ served' = merged[t]
    /\ jobs' = Scheduled(merged[t])
    /\ EndPass(t)
    /\ UNCHANGED <<outside, staticConfig, lastConfig>>

Proceed(t) ==
    \/ List(t) \/ ListFails(t) \/ MergeConfigs(t)
    \/ Unchanged(t) \/ Changed(t) \/ Push(t)

-----------------------------------------------------------------------------
(***************************************************************************)
(* What starts the passes, and the rest of main.                           *)
(***************************************************************************)
\* Nothing in the code keeps the passes of two threads apart.  Without this
\* fault the timing does.
MayBegin == "overlap" \in Faults \/ \A t \in Thread : stage[t] \in {"off", "idle"}

TickerFires ==
    /\ stage["ticker"] = "idle"
    /\ MayBegin
    /\ Enter("ticker", "list")
    /\ UNCHANGED <<outside, staticConfig, lastConfig, served, jobs, listing, merged>>

\* main registers the jobs of the configuration that it read at startup: no
\* SIGHUP has been handled yet.  From here on signals are.
SyncAtStartup ==
    /\ stage["main"] = "sync"
    /\ jobs' = Scheduled(staticConfig)
    /\ stage' = [stage EXCEPT !["main"] = "off", !["signal"] = "idle"]
    /\ UNCHANGED <<outside, staticConfig, lastConfig, served, listing, merged>>

\* LoadConfig and UpdateStaticConfig.
Sighup ==
    /\ stage["signal"] = "idle"
    /\ MayBegin
    /\ staticConfig' = file
    /\ lastConfig' = None
    /\ Enter("signal", "list")
    /\ UNCHANGED <<outside, served, jobs, listing, merged>>

\* The operator edits the file; containers with labels come and go.
Edit ==
    /\ changes < MaxChanges
    /\ changes' = changes + 1
    /\ \/ file' \in StaticConfigs \ {file} /\ UNCHANGED labels
       \/ labels' \in LabelLists \ {labels} /\ UNCHANGED file
    /\ UNCHANGED <<staticConfig, lastConfig, served, jobs, stage, listing, merged>>

DiscoveryNext ==
    \/ \E t \in Thread : Proceed(t)
    \/ TickerFires
    \/ SyncAtStartup
    \/ Sighup
    \/ Edit

DiscoverySpec == DiscoveryInit /\ [][DiscoveryNext]_discovery

\* Threads run, the ticker keeps firing and listing does not fail for ever.
DiscoveryFairSpec ==
    /\ DiscoverySpec
    /\ \A t \in Thread : WF_discovery(Proceed(t)) /\ SF_discovery(List(t))
    /\ WF_discovery(TickerFires)
    /\ WF_discovery(SyncAtStartup)

-----------------------------------------------------------------------------
(***************************************************************************)
(* Properties.                                                             *)
(***************************************************************************)
\* No pass is under way.
Quiet == \A t \in Thread : stage[t] \in {"off", "idle"}

\* runDiscovery: whatever labels containers carry, the server never gets a
\* configuration that Validate refuses, which means that the dependencies of
\* its containers have no cycle.
ServerValid == Validate(served) /\ Acyclic(served.containers)

\* discovery.go:18: lastConfig is the last configuration that was pushed, so
\* between passes it is what the server has (if passes do not overlap).
LastConfigPushed == Quiet /\ lastConfig # None => served = lastConfig

\* hot-reload.md:29 and 31: a reloaded file and the labels get to the server.
\* With edits and signals at an end it settles on their merge, unless
\* Validate refuses that.
Converges ==
    LET goal == Merge(staticConfig, DiscoverLabeledContainers(labels))
    IN  <>[](Validate(goal) => served = goal)

\* hot-reload.md:30: the groups of the file get to the server too.
GroupsServed == Quiet => served.groups = staticConfig.groups

\* roadmap.md:76: label-discovered containers have their schedules, so
\* between passes the jobs are those of the configuration served.
JobsServed == Quiet => jobs = Scheduled(served)
=============================================================================
