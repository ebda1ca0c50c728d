---------------------------- MODULE Dependencies ----------------------------
(***************************************************************************)
(* The dependency graph of the configured containers and the orders that   *)
(* the gateway derives from it: the start order of a target                *)
(* (TopologicalSort, group.go), the direct dependents of a container       *)
(* (BuildReverseDeps, manager.go) and the stop orders of a set of          *)
(* containers (topoMergeStop, manager.go).                                 *)
(*                                                                         *)
(* The graphs are the ones a validated configuration can have: every       *)
(* dependency exists and there is no cycle (config.go, Validate and        *)
(* detectDependencyCycles).  On such a graph the visits never meet a node  *)
(* that they are in the middle of, so the error paths are left out.        *)
(***************************************************************************)
EXTENDS Naturals, SequencesExt

CONSTANTS
    Container,      \* the names of the configured containers
    DependsOn       \* DependsOn[c]: the depends_on list of c, in file order

\* No set of containers in which everyone depends on somebody in the set.
Acyclic ==
    \A S \in (SUBSET Container) \ {{}} :
        \E c \in S : ToSet(DependsOn[c]) \cap S = {}

ASSUME DependsOnAssumption ==
    /\ IsFiniteSet(Container)
    /\ DependsOn \in [Container -> Seq(Container)]
    /\ Acyclic

(***************************************************************************)
(* The depth-first visit of the code: visit[c][order] is the order after   *)
(* visiting c, which appends c behind its dependencies unless it is there  *)
(* already.  TopologicalSort follows all edges, topoMergeStop only those   *)
(* that stay within the shutdown set.  after[i] is the order behind the    *)
(* first i turns of a loop, here and below.                                *)
(***************************************************************************)
VisitWithin(nodes) ==
    LET visit[c \in Container] ==
            [order \in Seq(Container) |->
                IF Contains(order, c) THEN order
                ELSE LET deps == DependsOn[c]
                         after[i \in 0..Len(deps)] ==
                             IF i = 0 THEN order
                             ELSE IF deps[i] \in nodes THEN visit[deps[i]][after[i - 1]]
                             ELSE after[i - 1]
                     IN  Append(after[Len(deps)], c)]
    IN  visit

\* Dependency-first order of target's dependency closure, target last.
TopologicalSort(target) == VisitWithin(Container)[target][<<>>]

\* EnsureDepsRunning walks the order and skips the target itself.
DepsInOrder(target) ==
    LET order == TopologicalSort(target)
        after[i \in 0..Len(order)] ==
            IF i = 0 THEN <<>>
            ELSE IF order[i] = target THEN after[i - 1]
            ELSE Append(after[i - 1], order[i])
    IN  after[Len(order)]

\* The containers an idle shutdown or an activity record reaches.
Closure == [c \in Container |-> ToSet(TopologicalSort(c))]
ChainOf(roots) == UNION {Closure[r] : r \in roots}

\* Direct dependents: the containers that list c in their depends_on.
BuildReverseDeps(c) == {d \in Container : c \in ToSet(DependsOn[d])}

\* The code ranges over a Go map: every order of the roots can occur.
StopOrders ==
    [toStop \in SUBSET Container |->
        LET visit == VisitWithin(toStop)
            Merge(roots) ==
                LET after[i \in 0..Len(roots)] ==
                        IF i = 0 THEN <<>> ELSE visit[roots[i]][after[i - 1]]
                IN  after[Len(roots)]
        IN  {Merge(roots) : roots \in SetToSeqs(toStop)}]

TopoMergeStop(toStop) == StopOrders[toStop]
=============================================================================
