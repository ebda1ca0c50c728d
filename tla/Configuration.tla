--------------------------- MODULE Configuration ----------------------------
(***************************************************************************)
(* What a configuration is, what the gateway checks of it                  *)
(* (gateway/config.go, Validate and detectDependencyCycles) and the start  *)
(* order that it takes from it (gateway/group.go, TopologicalSort), with   *)
(* the errors that both can end in.  Module Dependencies has the orders of *)
(* a graph that is known to be valid.                                      *)
(*                                                                         *)
(* A configuration is a list of containers [name, host, deps, scheduled]   *)
(* and a set of groups [host, members]; deps and members are lists of      *)
(* names, in the order of the file.                                        *)
(***************************************************************************)
EXTENDS Naturals, SequencesExt

CONSTANTS
    Name,           \* the names that configurations use, declared or not
    Host,           \* their hosts
    NoHost          \* the host of a container without one

ASSUME NamesAssumption == IsFiniteSet(Name) /\ NoHost \notin Host

ContainerConfig ==
    [name : Name, host : Host \cup {NoHost}, deps : Seq(Name), scheduled : BOOLEAN]
GroupConfig == [host : Host, members : Seq(Name)]
GatewayConfig == [containers : Seq(ContainerConfig), groups : SUBSET GroupConfig]

Names(containers) == {c.name : c \in ToSet(containers)}
Hosts(containers) == {c.host : c \in ToSet(containers)} \ {NoHost}
GroupMembers(config) == UNION {ToSet(g.members) : g \in config.groups}
DepTargets(config) == UNION {ToSet(c.deps) : c \in ToSet(config.containers)}

\* BuildContainerMap: the container of that name.
ByName(containers, n) == CHOOSE c \in ToSet(containers) : c.name = n

\* The depends_on list of every name; names without a container have none.
DepsOf(containers) ==
    [n \in Name |-> IF n \in Names(containers) THEN ByName(containers, n).deps
                                               ELSE <<>>]

\* A loop: first, after one step after the other.
Loop(first, steps) ==
    LET after[i \in 0..Len(steps)] ==
            IF i = 0 THEN first ELSE steps[i][after[i - 1]]
    IN  after[Len(steps)]

(***************************************************************************)
(* The depth-first search.  visit[path][n][s] is the search s after a      *)
(* visit of n.  path holds the nodes that are being visited (the state     *)
(* "visiting"), order those that were left ("visited").  A search fails at *)
(* a node on its own path, and at a node that is not known; nothing is     *)
(* visited then.                                                           *)
(***************************************************************************)
Search == [order : Seq(Name), failed : BOOLEAN]

Begin == [order |-> <<>>, failed |-> FALSE]
Fail(s) == [s EXCEPT !.failed = TRUE]

\* Behind what it depends on.
Leave(s, n) == IF s.failed THEN s ELSE [s EXCEPT !.order = Append(@, n)]

\* Mutant: a node on the path counts as visited.
VisitLeniently(deps, known) ==
    LET visit[path \in SUBSET Name] ==
            [n \in Name |-> [s \in Search |->
                IF s.failed \/ Contains(s.order, n) \/ n \in path THEN s
                ELSE IF n \notin known THEN Fail(s)
                ELSE Leave(Loop(s, [i \in DOMAIN deps[n] |-> visit[path \cup {n}][deps[n][i]]]), n)]]
    IN  visit

Visit(deps, known) ==
    LET visit[path \in SUBSET Name] ==
            [n \in Name |-> [s \in Search |->
                IF s.failed \/ Contains(s.order, n) THEN s
                ELSE IF n \in path \/ n \notin known THEN Fail(s)
                ELSE Leave(Loop(s, [i \in DOMAIN deps[n] |-> visit[path \cup {n}][deps[n][i]]]), n)]]
    IN  visit

\* One search through all containers; unknown names have been ruled out.
detectDependencyCycles(containers) ==
    LET visit == Visit(DepsOf(containers), Name)[{}]
    IN  Loop(Begin, [i \in DOMAIN containers |-> visit[containers[i].name]]).failed

\* Dependency-first order with the target at the end.  It fails when the
\* target or a dependency is not in the list, or on a cycle.
TopologicalSort(target, containers) ==
    Visit(DepsOf(containers), Names(containers))[{}][target][Begin]

-----------------------------------------------------------------------------
\* Names and hosts are unique, references exist.
ReferencesValid(config) ==
    LET cs == config.containers IN
    /\ \A c \in ToSet(cs) :
        /\ c.host = NoHost => c.name \in GroupMembers(config) \cup DepTargets(config)
        /\ ToSet(c.deps) \subseteq Names(cs) \ {c.name}
    /\ \A i, j \in DOMAIN cs : i # j =>
        /\ cs[i].name # cs[j].name
        /\ cs[i].host = cs[j].host => cs[i].host = NoHost
    /\ \A g \in config.groups :
        /\ g.members # <<>>
        /\ ToSet(g.members) \subseteq Names(cs)
        /\ g.host \notin Hosts(cs)
    /\ \A g, h \in config.groups : g # h => g.host # h.host

\* Mutant: cycles are not looked for.
ValidateLoosely(config) == ReferencesValid(config)

\* GatewayConfig.Validate, as far as containers and groups go.
Validate(config) ==
    ReferencesValid(config) /\ ~detectDependencyCycles(config.containers)

(***************************************************************************)
(* Reference definitions for the properties.                               *)
(***************************************************************************)
\* No set of names in which everyone depends on somebody in the set.
Acyclic(containers) ==
    \A S \in (SUBSET Names(containers)) \ {{}} :
        \E n \in S : ToSet(DepsOf(containers)[n]) \cap S = {}

\* The least set with the roots and everything that its members depend on.
NeededBy(roots, containers) ==
    LET closed == {S \in SUBSET Name :
                    roots \subseteq S /\ \A n \in S : ToSet(DepsOf(containers)[n]) \subseteq S}
    IN  {n \in Name : \A S \in closed : n \in S}
=============================================================================
