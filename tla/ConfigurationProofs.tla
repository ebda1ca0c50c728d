------------------------ MODULE ConfigurationProofs -------------------------
(***************************************************************************)
(* Theorems about everything that works on the configuration, for any      *)
(* names, configurations, requests, files, labels and faults.              *)
(*                                                                         *)
(* Part 1, Configuration: a search that does not fail has an order with    *)
(* the dependencies first; a configuration that Validate accepts has no    *)
(* cycle, and on it only unknown names fail.                               *)
(*                                                                         *)
(* Part 2, Serving: what a request finds and starts under reloads.         *)
(*                                                                         *)
(* Part 3, Discovery: what a pass pushes.  Its last theorem but one is     *)
(* what Serving assumes of the configurations and of the reloads.          *)
(***************************************************************************)
EXTENDS Serving, Discovery, Recursion, FiniteSetTheorems

-----------------------------------------------------------------------------
(***************************************************************************)
(* Part 1: Configuration.                                                  *)
(***************************************************************************)

Order == Seq(Name)
Walk == [Search -> Search]

\* What depends_on says, for every name.
Graph == [Name -> Order]

(***************************************************************************)
(* The searches: loops.                                                    *)
(***************************************************************************)
\* f[i] is what the loop has behind its i-th step.
IsRun(S, first, steps, f) ==
    /\ \A i \in 0..Len(steps) : f[i] \in S
    /\ f[0] = first
    /\ \A i \in 1..Len(steps) : f[i] = steps[i][f[i - 1]]

LEMMA LoopRuns ==
    ASSUME NEW S, NEW first \in S, NEW steps \in Seq([S -> S])
    PROVE  \E f : IsRun(S, first, steps, f) /\ Loop(first, steps) = f[Len(steps)]
  <1> DEFINE N == Len(steps)
             F(h) == [i \in 0..N |-> IF i = 0 THEN first ELSE steps[i][h[i - 1]]]
             f == CHOOSE h : h = F(h)
  <1>1. N \in Nat /\ steps \in [1..N -> [S -> S]]
    OBVIOUS
  <1>2. Loop(first, steps) = f[N]
    BY DEF Loop
  <1> HIDE DEF N
  <1>3. PICK g \in [0..N -> S] : g[0] = first /\ \A i \in 1..N : g[i] = steps[i][g[i - 1]]
    <2>1. IsTurns(N, S, first, steps)
      BY <1>1 DEF IsTurns
    <2> QED
      BY <2>1, LoopDefined
  <1>4. \A i \in 0..N : i # 0 => i \in 1..N
    BY <1>1
  <1>5. \A i \in 1..N : i \in 0..N /\ i # 0 /\ i - 1 \in 0..N
    BY <1>1
  <1>6. g = F(g)
    <2>1. \A i \in 0..N : g[i] = IF i = 0 THEN first ELSE steps[i][g[i - 1]]
      BY <1>3, <1>4
    <2> QED
      BY <2>1
  <1>7. f = F(f)
    <2> HIDE DEF F
    <2> QED
      BY <1>6, Zenon
  <1> HIDE DEF f
  <1>8. 0 \in 0..N
    BY <1>1
  <1>9. f[0] = first /\ \A i \in 1..N : f[i] = steps[i][f[i - 1]]
    BY <1>5, <1>7, <1>8
  <1> DEFINE T == {i \in 0..N : f[i] \in S}
  <1>10. 0 \in T
    BY <1>8, <1>9
  <1>11. ASSUME NEW i \in 1..N, i - 1 \in T
         PROVE  i \in T
    BY <1>1, <1>5, <1>9, <1>11
  <1>12. 0..N \subseteq T
    <2> HIDE DEF T
    <2> QED
      BY <1>1, <1>10, <1>11, LoopInduction
  <1>13. IsRun(S, first, steps, f)
    BY <1>9, <1>12 DEF IsRun, N
  <1> QED
    BY <1>2, <1>13 DEF N

\* What every step keeps, the loop keeps.
LEMMA LoopKeeps ==
    ASSUME NEW S, NEW Good \in SUBSET S, NEW first \in Good, NEW steps \in Seq([S -> S]),
           \A i \in 1..Len(steps) : \A s \in Good : steps[i][s] \in Good
    PROVE  Loop(first, steps) \in Good
  <1> DEFINE N == Len(steps)
  <1>1. N \in Nat /\ 0 \in 0..N /\ N \in 0..N /\ \A i \in 1..N : i \in 0..N
    OBVIOUS
  <1>2. PICK f : IsRun(S, first, steps, f) /\ Loop(first, steps) = f[N]
    BY LoopRuns
  <1> DEFINE T == {i \in 0..N : f[i] \in Good}
  <1>3. 0 \in T
    BY <1>1, <1>2 DEF IsRun
  <1>4. ASSUME NEW i \in 1..N, i - 1 \in T
        PROVE  i \in T
    BY <1>1, <1>2, <1>4 DEF IsRun
  <1>5. 0..N \subseteq T
    <2> HIDE DEF T, N
    <2> QED
      BY <1>1, <1>3, <1>4, LoopInduction
  <1> QED
    BY <1>1, <1>2, <1>5

-----------------------------------------------------------------------------
(***************************************************************************)
(* The definition of Visit.  Going deeper makes the path longer, and there *)
(* are only finitely many names to put on it.                              *)
(***************************************************************************)
\* The paths that are longer than a path.
Longer(path) == {q \in SUBSET Name : path \subseteq q /\ q # path}

\* Every set of paths has a longest one.
LEMMA LongestPath ==
    ASSUME NEW T \in SUBSET SUBSET Name, T # {}
    PROVE  \E path \in T : Longer(path) \cap T = {}
  <1> DEFINE Left(q) == Cardinality(Name \ q)
             Sizes == {Left(q) : q \in T}
  <1>1. \A q \in SUBSET Name : IsFiniteSet(Name \ q) /\ Left(q) \in Nat
    <2> SUFFICES ASSUME NEW q \in SUBSET Name
                 PROVE  IsFiniteSet(Name \ q) /\ Left(q) \in Nat
      OBVIOUS
    <2>1. IsFiniteSet(Name \ q)
      BY NamesAssumption, FS_Difference
    <2> QED
      BY <2>1, FS_CardinalityType
  <1>2. Sizes \in SUBSET Nat /\ Sizes # {}
    BY <1>1
  <1>3. PICK m \in Sizes : \A k \in Sizes : m <= k
    <2> HIDE DEF Sizes
    <2> QED
      BY <1>2, NatMinimum
  <1>4. PICK path \in T : m = Left(path)
    BY <1>3
  <1>5. ASSUME NEW q \in Longer(path), q \in T
        PROVE  FALSE
    <2>1. path \in SUBSET Name /\ q \in SUBSET Name /\ path \subseteq q /\ q # path
      BY <1>5 DEF Longer
    <2>2. (Name \ q) \subseteq (Name \ path) /\ (Name \ q) # (Name \ path)
      BY <2>1
    <2>3. IsFiniteSet(Name \ path) /\ Left(path) \in Nat /\ Left(q) \in Nat
      BY <1>1, <2>1
    <2>4. Left(q) < Left(path)
      <3>1. Cardinality(Name \ q) <= Cardinality(Name \ path)
            /\ (Cardinality(Name \ q) = Cardinality(Name \ path) => (Name \ q) = (Name \ path))
        BY <2>2, <2>3, FS_Subset
      <3> QED
        BY <2>2, <2>3, <3>1
    <2>5. Left(path) <= Left(q)
      BY <1>3, <1>4, <1>5
    <2> HIDE DEF Left
    <2> QED
      BY <2>3, <2>4, <2>5
  <1> QED
    BY <1>5

\* What holds of a path whenever it holds of the longer ones holds of all.
LEMMA PathInduction ==
    ASSUME NEW T, \A path \in SUBSET Name : Longer(path) \subseteq T => path \in T
    PROVE  SUBSET Name \subseteq T
  <1> SUFFICES ASSUME (SUBSET Name) \ T # {}
               PROVE  FALSE
    OBVIOUS
  <1>1. PICK path \in (SUBSET Name) \ T : Longer(path) \cap ((SUBSET Name) \ T) = {}
    BY LongestPath
  <1>2. Longer(path) \subseteq T
    BY <1>1 DEF Longer
  <1> QED
    BY <1>1, <1>2

\* The visits of the names in a list, one after the other.
Steps(visits, names) == [i \in DOMAIN names |-> visits[names[i]]]

LEMMA StepsType ==
    ASSUME NEW visits \in [Name -> Walk], NEW names \in Order
    PROVE  /\ Steps(visits, names) \in Seq(Walk)
           /\ Len(Steps(visits, names)) = Len(names)
           /\ \A i \in 1..Len(names) : Steps(visits, names)[i] = visits[names[i]]
  <1>1. DOMAIN names = 1..Len(names) /\ Len(names) \in Nat /\ \A i \in 1..Len(names) : names[i] \in Name
    BY DEF Order
  <1>2. Steps(visits, names) = [i \in 1..Len(names) |-> visits[names[i]]]
    BY <1>1 DEF Steps
  <1>3. Steps(visits, names) \in [1..Len(names) -> Walk]
    BY <1>1, <1>2
  <1> QED
    BY <1>1, <1>2, <1>3

LEMMA SearchTypes ==
    /\ Begin \in Search /\ Begin.order = <<>> /\ ~ Begin.failed
    /\ \A s \in Search : s.order \in Order /\ s.failed \in BOOLEAN
    /\ \A s \in Search : Fail(s) \in Search /\ Fail(s).failed /\ Fail(s).order = s.order
    /\ \A s \in Search : \A n \in Name :
        /\ Leave(s, n) \in Search
        /\ Leave(s, n).failed = s.failed
        /\ ~ s.failed => Leave(s, n).order = Append(s.order, n)
  <1>1. \A s \in Search : s.order \in Order /\ s.failed \in BOOLEAN
    BY DEF Search, Order
  <1>2. <<>> \in Order
    BY DEF Order
  <1>3. Begin \in Search /\ Begin.order = <<>> /\ ~ Begin.failed
    BY <1>2 DEF Begin, Search, Order
  <1>4. \A s \in Search : Fail(s) \in Search /\ Fail(s).failed /\ Fail(s).order = s.order
    BY DEF Fail, Search
  <1>5. ASSUME NEW s \in Search, NEW n \in Name
        PROVE  /\ Leave(s, n) \in Search
               /\ Leave(s, n).failed = s.failed
               /\ ~ s.failed => Leave(s, n).order = Append(s.order, n)
    <2>1. Append(s.order, n) \in Seq(Name)
      BY <1>1 DEF Order
    <2>2. CASE s.failed
      BY <2>2 DEF Leave
    <2>3. CASE ~ s.failed
      <3>1. Leave(s, n) = [s EXCEPT !.order = Append(@, n)]
        BY <2>3 DEF Leave
      <3>2. s = [order |-> s.order, failed |-> s.failed]
        BY DEF Search
      <3>3. Leave(s, n) = [order |-> Append(s.order, n), failed |-> s.failed]
        BY <3>1, <3>2
      <3> QED
        BY <1>1, <2>1, <3>3 DEF Search
    <2> QED
      BY <2>2, <2>3
  <1> QED
    BY <1>1, <1>3, <1>4, <1>5

\* One visit, if the visits on longer paths are what v says.
VisitBody(deps, known, v, path) ==
    [n \in Name |-> [s \in Search |->
        IF s.failed \/ Contains(s.order, n) THEN s
        ELSE IF n \in path \/ n \notin known THEN Fail(s)
        ELSE Leave(Loop(s, Steps(v[path \cup {n}], deps[n])), n)]]

LEMMA LoopStepsType ==
    ASSUME NEW visits \in [Name -> Walk], NEW names \in Order, NEW s \in Search
    PROVE  Loop(s, Steps(visits, names)) \in Search
  <1>1. Steps(visits, names) \in Seq([Search -> Search])
    BY StepsType DEF Walk
  <1>2. \A i \in 1..Len(Steps(visits, names)) : \A t \in Search : Steps(visits, names)[i][t] \in Search
    BY <1>1
  <1> QED
    BY <1>1, <1>2, LoopKeeps

\* The recursive definition has a solution, so Visit is one.
LEMMA VisitDefined ==
    ASSUME NEW deps \in Graph, NEW known
    PROVE  /\ Visit(deps, known) \in [SUBSET Name -> [Name -> Walk]]
           /\ \A path \in SUBSET Name :
                Visit(deps, known)[path] = VisitBody(deps, known, Visit(deps, known), path)
  <1> DEFINE Paths == SUBSET Name
             Table == [Name -> Walk]
             Under == [path \in Paths |-> Longer(path)]
             Ok == [path \in Paths |-> Table]
             H == [path \in Paths |-> [v \in [Paths -> Table] |-> VisitBody(deps, known, v, path)]]
  <1>0. \A path \in Paths : \A n \in Name : n \notin path => path \cup {n} \in Longer(path)
    BY DEF Longer
  <1>1. \A path \in Paths : \A v :
            (\A q \in Longer(path) : v[q] \in Table) => VisitBody(deps, known, v, path) \in Table
    <2> SUFFICES ASSUME NEW path \in Paths, NEW v, \A q \in Longer(path) : v[q] \in Table,
                        NEW n \in Name, NEW s \in Search, n \notin path
                 PROVE  Leave(Loop(s, Steps(v[path \cup {n}], deps[n])), n) \in Search
      BY SearchTypes DEF VisitBody, Walk
    <2>1. v[path \cup {n}] \in [Name -> Walk] /\ deps[n] \in Order
      BY <1>0 DEF Graph
    <2>2. Loop(s, Steps(v[path \cup {n}], deps[n])) \in Search
      BY <2>1, LoopStepsType
    <2> QED
      BY <2>2, SearchTypes
  <1>2. /\ Under \in [Paths -> SUBSET Paths]
        /\ Ok \in [Paths -> SUBSET Table]
        /\ H \in [Paths -> [[Paths -> Table] -> Table]]
    <2>1. Under \in [Paths -> SUBSET Paths]
      BY DEF Longer
    <2>2. Ok \in [Paths -> SUBSET Table]
      OBVIOUS
    <2>3. H \in [Paths -> [[Paths -> Table] -> Table]]
      <3>1. \A path \in Paths : \A v \in [Paths -> Table] : VisitBody(deps, known, v, path) \in Table
        <4>1. \A path \in Paths : Longer(path) \subseteq Paths
          BY DEF Longer
        <4> HIDE DEF Table, Paths
        <4> QED
          BY <1>1, <4>1
      <3> HIDE DEF Table, Paths
      <3> QED
        BY <3>1
    <2> QED
      BY <2>1, <2>2, <2>3
  <1>3. WellFounded(Paths, Under)
    <2> SUFFICES ASSUME NEW S \in (SUBSET Paths) \ {{}}
                 PROVE  \E path \in S : Under[path] \cap S = {}
      BY DEF WellFounded
    <2> QED
      BY LongestPath
  <1>4. \A path \in Paths : Ok[path] # {}
    <2>1. [n \in Name |-> [s \in Search |-> s]] \in Table
      BY DEF Walk
    <2> HIDE DEF Table
    <2> QED
      BY <2>1
  <1>5. \A path \in Paths : \A v \in [Paths -> Table] :
            H[path][v] = VisitBody(deps, known, v, path)
    OBVIOUS
  <1>6. \A path \in Paths : Ok[path] = Table /\ Under[path] = Longer(path) /\ Longer(path) \subseteq Paths
    BY DEF Longer
  <1> HIDE DEF Ok, Under, H, Paths, Table
  <1>7. StaysOk(Paths, Table, Under, Ok, H)
    BY <1>1, <1>5, <1>6 DEF StaysOk
  <1>8. LooksBelow(Paths, Table, Under, Ok, H)
    <2> SUFFICES ASSUME NEW path \in Paths, NEW v \in [Paths -> Table],
                        NEW w \in [Paths -> Table], \A q \in Longer(path) : v[q] = w[q]
                 PROVE  VisitBody(deps, known, v, path) = VisitBody(deps, known, w, path)
      BY <1>5, <1>6 DEF LooksBelow, Agree
    <2>1. \A n \in Name : n \notin path => v[path \cup {n}] = w[path \cup {n}]
      BY <1>0
    <2> QED
      BY <2>1 DEF VisitBody
  <1>9. PICK v \in [Paths -> Table] : \A path \in Paths : v[path] = H[path][v] /\ v[path] \in Ok[path]
    <2>1. GraphRecursion(Paths, Table, Under, Ok, H)
      BY <1>2, <1>3, <1>4, <1>7, <1>8 DEF GraphRecursion
    <2> QED
      BY <2>1, WellFoundedRecursion
  <1> DEFINE F(w) == [path \in Paths |-> VisitBody(deps, known, w, path)]
             W == Visit(deps, known)
  <1>10. v = F(v)
    BY <1>5, <1>9
  <1>11. W = CHOOSE w : w = F(w)
    BY DEF Visit, VisitBody, Steps, Paths
  <1>12. W = F(W)
    <2> HIDE DEF F, W
    <2> QED
      BY <1>10, <1>11, Zenon
  <1> HIDE DEF W
  <1>13. DOMAIN W = Paths /\ \A path \in Paths : W[path] = VisitBody(deps, known, W, path)
    BY <1>12
  <1>14. Paths \subseteq {path \in Paths : W[path] \in Table}
    <2> DEFINE T == {path \in Paths : W[path] \in Table}
    <2>1. ASSUME NEW path \in Paths, Longer(path) \subseteq T
          PROVE  path \in T
      BY <1>1, <1>13, <2>1
    <2> HIDE DEF T
    <2>2. Paths \subseteq T
      BY <2>1, PathInduction DEF Paths
    <2> QED
      BY <2>2 DEF T
  <1>15. W \in [Paths -> Table]
    BY <1>12, <1>14
  <1> QED
    BY <1>13, <1>15 DEF W, Paths, Table

\* The search behind the visits of the dependencies of n.
Under(deps, known, path, n, s) == Loop(s, Steps(Visit(deps, known)[path \cup {n}], deps[n]))

\* What a visit returns: the search itself if it is over or n was visited, a
\* failure on the path and for unknown names, else the search behind the
\* visits of the dependencies with n at its end.
LEMMA VisitReturns ==
    ASSUME NEW deps \in Graph, NEW known, NEW path \in SUBSET Name, NEW n \in Name, NEW s \in Search
    PROVE  /\ Visit(deps, known)[path][n][s] \in Search
           /\ Under(deps, known, path, n, s) \in Search
           /\ s.failed \/ n \in ToSet(s.order) => Visit(deps, known)[path][n][s] = s
           /\ ~ s.failed /\ n \notin ToSet(s.order) =>
                Visit(deps, known)[path][n][s] =
                    IF n \in path \/ n \notin known THEN Fail(s)
                    ELSE Leave(Under(deps, known, path, n, s), n)
  <1> DEFINE V == Visit(deps, known)
             below == Under(deps, known, path, n, s)
  <1>0. below = Loop(s, Steps(V[path \cup {n}], deps[n]))
    BY DEF Under
  <1> HIDE DEF V, below
  <1>1. V \in [SUBSET Name -> [Name -> Walk]] /\ V[path] = VisitBody(deps, known, V, path)
    BY VisitDefined DEF V
  <1>2. V[path] \in [Name -> Walk] /\ V[path \cup {n}] \in [Name -> Walk] /\ deps[n] \in Order
    BY <1>1 DEF Graph
  <1>3. below \in Search
    BY <1>0, <1>2, LoopStepsType
  <1>4. V[path][n][s] = IF s.failed \/ Contains(s.order, n) THEN s
                        ELSE IF n \in path \/ n \notin known THEN Fail(s)
                        ELSE Leave(below, n)
    BY <1>0, <1>1 DEF VisitBody
  <1>5. Contains(s.order, n) <=> n \in ToSet(s.order)
    BY SearchTypes, InToSet DEF Order
  <1>6. V[path][n][s] \in Search
    BY <1>2 DEF Walk
  <1> QED
    BY <1>3, <1>4, <1>5, <1>6 DEF V, below

-----------------------------------------------------------------------------
(***************************************************************************)
(* What a search that does not fail adds to its order.                     *)
(***************************************************************************)
ClosedIn(deps, D) == \A x \in D : ToSet(deps[x]) \subseteq D

\* Dependencies first.
Sorted(deps, s) ==
    \A i \in 1..Len(s) : \A d \in ToSet(deps[s[i]]) : \E j \in 1..(i - 1) : s[j] = d

\* Visits of names make of the search s the search r: they add the names and
\* what those need, and nothing that is on the path.
Adds(deps, path, names, s, r) ==
    ~ r.failed =>
        /\ ~ s.failed
        /\ names \subseteq ToSet(r.order)
        /\ ToSet(s.order) \subseteq ToSet(r.order)
        /\ ToSet(r.order) \cap path \subseteq ToSet(s.order)
        /\ Sorted(deps, s.order) => Sorted(deps, r.order)
        /\ \A D \in SUBSET Name : ClosedIn(deps, D) /\ names \subseteq D =>
                ToSet(r.order) \subseteq ToSet(s.order) \cup D

LEMMA AddsNothing ==
    ASSUME NEW deps, NEW path, NEW s
    PROVE  Adds(deps, path, {}, s, s)
  BY DEF Adds

LEMMA AddsMore ==
    ASSUME NEW deps, NEW path, NEW A, NEW B, NEW s, NEW t, NEW r,
           Adds(deps, path, A, s, t), Adds(deps, path, B, t, r)
    PROVE  Adds(deps, path, A \cup B, s, r)
  <1> SUFFICES ASSUME ~ r.failed
               PROVE  Adds(deps, path, A \cup B, s, r)
    BY DEF Adds
  <1>1. /\ ~ t.failed
        /\ B \subseteq ToSet(r.order)
        /\ ToSet(t.order) \subseteq ToSet(r.order)
        /\ ToSet(r.order) \cap path \subseteq ToSet(t.order)
        /\ Sorted(deps, t.order) => Sorted(deps, r.order)
        /\ \A D \in SUBSET Name : ClosedIn(deps, D) /\ B \subseteq D =>
                ToSet(r.order) \subseteq ToSet(t.order) \cup D
    BY DEF Adds
  <1>2. /\ ~ s.failed
        /\ A \subseteq ToSet(t.order)
        /\ ToSet(s.order) \subseteq ToSet(t.order)
        /\ ToSet(t.order) \cap path \subseteq ToSet(s.order)
        /\ Sorted(deps, s.order) => Sorted(deps, t.order)
        /\ \A D \in SUBSET Name : ClosedIn(deps, D) /\ A \subseteq D =>
                ToSet(t.order) \subseteq ToSet(s.order) \cup D
    BY <1>1 DEF Adds
  <1>3. ASSUME NEW D \in SUBSET Name, ClosedIn(deps, D), A \cup B \subseteq D
        PROVE  ToSet(r.order) \subseteq ToSet(s.order) \cup D
    <2>1. ToSet(r.order) \subseteq ToSet(t.order) \cup D
      BY <1>1, <1>3
    <2>2. ToSet(t.order) \subseteq ToSet(s.order) \cup D
      BY <1>2, <1>3
    <2> QED
      BY <2>1, <2>2
  <1>4. A \cup B \subseteq ToSet(r.order) /\ ToSet(s.order) \subseteq ToSet(r.order)
        /\ ToSet(r.order) \cap path \subseteq ToSet(s.order)
    BY <1>1, <1>2
  <1> QED
    BY <1>1, <1>2, <1>3, <1>4 DEF Adds

LEMMA LoopAdds ==
    ASSUME NEW deps, NEW path, NEW visits \in [Name -> Walk], NEW names \in Order,
           NEW s \in Search,
           \A n \in ToSet(names) : \A t \in Search : Adds(deps, path, {n}, t, visits[n][t])
    PROVE  Adds(deps, path, ToSet(names), s, Loop(s, Steps(visits, names)))
  <1> DEFINE N == Len(names)
             steps == Steps(visits, names)
             First(i) == {names[j] : j \in 1..i}
  <1>1. /\ N \in Nat /\ 0 \in 0..N /\ N \in 0..N
        /\ \A i \in 1..N : i \in 0..N /\ i - 1 \in 0..N /\ names[i] \in ToSet(names)
    BY InToSet DEF Order
  <1>2. steps \in Seq([Search -> Search]) /\ Len(steps) = N /\ \A i \in 1..N : steps[i] = visits[names[i]]
    BY StepsType DEF Walk
  <1> HIDE DEF steps
  <1>3. PICK f : IsRun(Search, s, steps, f) /\ Loop(s, steps) = f[N]
    BY <1>2, LoopRuns
  <1>4. /\ \A i \in 0..N : f[i] \in Search
        /\ f[0] = s
        /\ \A i \in 1..N : f[i] = visits[names[i]][f[i - 1]]
    BY <1>2, <1>3 DEF IsRun
  <1> DEFINE T == {i \in 0..N : Adds(deps, path, First(i), s, f[i])}
  <1>5. 0 \in T
    <2>1. First(0) = {}
      OBVIOUS
    <2>2. Adds(deps, path, {}, s, s)
      BY AddsNothing
    <2> HIDE DEF First
    <2> QED
      BY <1>1, <1>4, <2>1, <2>2
  <1>6. ASSUME NEW i \in 1..N, i - 1 \in T
        PROVE  i \in T
    <2>1. First(i) = First(i - 1) \cup {names[i]}
      BY <1>1
    <2> HIDE DEF First
    <2>2. Adds(deps, path, First(i - 1), s, f[i - 1])
      BY <1>6
    <2>3. Adds(deps, path, {names[i]}, f[i - 1], f[i])
      BY <1>1, <1>4
    <2>4. Adds(deps, path, First(i - 1) \cup {names[i]}, s, f[i])
      BY <2>2, <2>3, AddsMore
    <2> QED
      BY <1>1, <2>1, <2>4
  <1>7. 0..N \subseteq T
    <2> HIDE DEF T, N
    <2> QED
      BY <1>1, <1>5, <1>6, LoopInduction
  <1>8. First(N) = ToSet(names)
    <2>1. \A x : x \in ToSet(names) <=> \E i \in 1..N : names[i] = x
      BY InToSet DEF Order
    <2> QED
      BY <2>1
  <1> HIDE DEF First, N
  <1> QED
    BY <1>1, <1>3, <1>7, <1>8 DEF steps

\* An append of n behind its dependencies.
LEMMA AppendSorted ==
    ASSUME NEW deps, NEW s \in Order, NEW n \in Name, Sorted(deps, s), ToSet(deps[n]) \subseteq ToSet(s)
    PROVE  Sorted(deps, Append(s, n))
  <1> DEFINE t == Append(s, n)
             N == Len(s)
  <1>1. /\ N \in Nat /\ Len(t) = N + 1 /\ t[N + 1] = n
        /\ \A i \in 1..N : t[i] = s[i]
    BY AppendToSet DEF Order
  <1>2. \A x \in ToSet(s) : \E j \in 1..N : s[j] = x
    BY InToSet DEF Order
  <1> HIDE DEF t
  <1> SUFFICES ASSUME NEW i \in 1..(N + 1), NEW d \in ToSet(deps[t[i]])
               PROVE  \E j \in 1..(i - 1) : t[j] = d
    BY <1>1 DEF Sorted, t
  <1>3. CASE i = N + 1
    <2>1. PICK j \in 1..N : s[j] = d
      BY <1>1, <1>2, <1>3
    <2>2. j \in 1..(i - 1) /\ t[j] = d
      BY <1>1, <1>3, <2>1
    <2> QED
      BY <2>2
  <1>4. CASE i # N + 1
    <2>1. i \in 1..N /\ t[i] = s[i]
      BY <1>1, <1>4
    <2>2. PICK j \in 1..(i - 1) : s[j] = d
      BY <2>1 DEF Sorted
    <2>3. j \in 1..N /\ t[j] = d
      BY <1>1, <2>1, <2>2
    <2> QED
      BY <2>3
  <1> QED
    BY <1>3, <1>4

\* In an order with dependencies first the dependencies are complete.
LEMMA SortedClosed ==
    ASSUME NEW deps, NEW s \in Order, Sorted(deps, s)
    PROVE  ClosedIn(deps, ToSet(s))
  <1> SUFFICES ASSUME NEW x \in ToSet(s), NEW d \in ToSet(deps[x])
               PROVE  d \in ToSet(s)
    BY DEF ClosedIn
  <1>1. PICK i \in 1..Len(s) : s[i] = x
    BY InToSet DEF Order
  <1>2. PICK j \in 1..(i - 1) : s[j] = d
    BY <1>1 DEF Sorted
  <1>3. j \in 1..Len(s)
    BY DEF Order
  <1> QED
    BY <1>2, <1>3, InToSet DEF Order

\* The search before the first visit.
LEMMA BeginFacts ==
    /\ Begin \in Search /\ ~ Begin.failed /\ Begin.order = <<>>
    /\ ToSet(Begin.order) = {}
    /\ \A deps : Sorted(deps, Begin.order)
  <1>1. Begin \in Search /\ ~ Begin.failed /\ Begin.order = <<>>
    BY SearchTypes
  <1>2. <<>> \in Seq(Name) /\ Len(<<>>) = 0 /\ 1..0 = {}
    OBVIOUS
  <1>3. ToSet(<<>>) = {}
    BY <1>2, InToSet
  <1>4. \A deps : Sorted(deps, <<>>)
    BY <1>2 DEF Sorted
  <1> QED
    BY <1>1, <1>3, <1>4

LEMMA VisitAdds ==
    ASSUME NEW deps \in Graph, NEW known
    PROVE  \A path \in SUBSET Name : \A n \in Name : \A s \in Search :
                Adds(deps, path, {n}, s, Visit(deps, known)[path][n][s])
  <1> DEFINE V == Visit(deps, known)
             T == {path \in SUBSET Name : \A n \in Name : \A s \in Search :
                        Adds(deps, path, {n}, s, V[path][n][s])}
  <1> HIDE DEF V
  <1>1. ASSUME NEW path \in SUBSET Name, Longer(path) \subseteq T
        PROVE  path \in T
    <2> SUFFICES ASSUME NEW n \in Name, NEW s \in Search
                 PROVE  Adds(deps, path, {n}, s, V[path][n][s])
      OBVIOUS
    <2> DEFINE r == V[path][n][s]
               below == Under(deps, known, path, n, s)
    <2>1. /\ r \in Search
          /\ below \in Search
          /\ s.failed \/ n \in ToSet(s.order) => r = s
          /\ ~ s.failed /\ n \notin ToSet(s.order) =>
                r = IF n \in path \/ n \notin known THEN Fail(s) ELSE Leave(below, n)
      <3> HIDE DEF below
      <3> QED
        BY VisitReturns DEF V, below
    <2> HIDE DEF r, below
    <2> SUFFICES ASSUME ~ r.failed
                 PROVE  Adds(deps, path, {n}, s, r)
      BY DEF Adds, r
    <2>2. CASE s.failed \/ n \in ToSet(s.order)
      BY <2>1, <2>2 DEF Adds
    <2>3. CASE ~ s.failed /\ n \notin ToSet(s.order)
      <3>1. n \notin path /\ r = Leave(below, n)
        BY <2>1, <2>3, SearchTypes
      <3>2. path \cup {n} \in Longer(path) /\ path \cup {n} \in SUBSET Name
        BY <3>1 DEF Longer
      <3>3. V[path \cup {n}] \in [Name -> Walk] /\ deps[n] \in Order
        BY <3>2, VisitDefined DEF Graph, V
      <3>4. \A d \in ToSet(deps[n]) : d \in Name
        BY <3>3, InToSet DEF Order
      <3>5. \A d \in ToSet(deps[n]) : \A t \in Search :
                Adds(deps, path \cup {n}, {d}, t, V[path \cup {n}][d][t])
        BY <1>1, <3>2, <3>4
      <3>6. Adds(deps, path \cup {n}, ToSet(deps[n]), s, below)
        BY <3>3, <3>5, LoopAdds DEF below, Under, V
      <3>7. ~ below.failed /\ r.order = Append(below.order, n) /\ below.order \in Order
        BY <2>1, <3>1, SearchTypes
      <3>8. ToSet(r.order) = ToSet(below.order) \cup {n}
        BY <3>7, AppendToSet DEF Order
      <3>9. /\ ToSet(deps[n]) \subseteq ToSet(below.order)
            /\ ToSet(s.order) \subseteq ToSet(below.order)
            /\ ToSet(below.order) \cap (path \cup {n}) \subseteq ToSet(s.order)
            /\ Sorted(deps, s.order) => Sorted(deps, below.order)
            /\ \A D \in SUBSET Name : ClosedIn(deps, D) /\ ToSet(deps[n]) \subseteq D =>
                    ToSet(below.order) \subseteq ToSet(s.order) \cup D
        BY <3>6, <3>7 DEF Adds
      <3>10. Sorted(deps, s.order) => Sorted(deps, r.order)
        BY <3>7, <3>9, AppendSorted
      <3>11. ASSUME NEW D \in SUBSET Name, ClosedIn(deps, D), {n} \subseteq D
             PROVE  ToSet(r.order) \subseteq ToSet(s.order) \cup D
        BY <3>8, <3>9, <3>11 DEF ClosedIn
      <3>12. /\ {n} \subseteq ToSet(r.order)
             /\ ToSet(s.order) \subseteq ToSet(r.order)
             /\ ToSet(r.order) \cap path \subseteq ToSet(s.order)
        BY <3>1, <3>8, <3>9
      <3> QED
        BY <2>3, <3>10, <3>11, <3>12 DEF Adds
    <2> QED
      BY <2>2, <2>3
  <1> HIDE DEF T
  <1>2. SUBSET Name \subseteq T
    BY <1>1, PathInduction
  <1> QED
    BY <1>2 DEF T, V

-----------------------------------------------------------------------------
(***************************************************************************)
(* When a visit does not fail: the names have ranks, and dependencies are  *)
(* known and of a lower rank.                                              *)
(***************************************************************************)
IsRanking(deps, known, rank) ==
    /\ rank \in [Name -> Nat]
    /\ \A n \in known : \A d \in ToSet(deps[n]) : rank[d] < rank[n]

LEMMA VisitSucceeds ==
    ASSUME NEW deps \in Graph, NEW known \in SUBSET Name, NEW rank,
           IsRanking(deps, known, rank), ClosedIn(deps, known)
    PROVE  \A path \in SUBSET Name : \A n \in known : \A s \in Search :
                ~ s.failed /\ (\A p \in path : rank[n] < rank[p]) =>
                    ~ Visit(deps, known)[path][n][s].failed
  <1> DEFINE V == Visit(deps, known)
             Clear(path, n) == \A p \in path : rank[n] < rank[p]
             T == {path \in SUBSET Name : \A n \in known : \A s \in Search :
                        ~ s.failed /\ Clear(path, n) => ~ V[path][n][s].failed}
  <1> HIDE DEF V
  <1>1. ASSUME NEW path \in SUBSET Name, Longer(path) \subseteq T
        PROVE  path \in T
    <2> SUFFICES ASSUME NEW n \in known, NEW s \in Search, ~ s.failed, Clear(path, n)
                 PROVE  ~ V[path][n][s].failed
      OBVIOUS
    <2> DEFINE below == Under(deps, known, path, n, s)
               q == path \cup {n}
    <2> HIDE DEF below
    <2>1. n \in Name /\ rank[n] \in Nat /\ \A p \in path : rank[p] \in Nat
      BY DEF IsRanking
    <2>2. n \notin path
      BY <2>1
    <2>3. q \in Longer(path) /\ q \in SUBSET Name
      BY <2>1, <2>2 DEF Longer
    <2>4. \A d \in ToSet(deps[n]) : d \in known /\ rank[d] \in Nat /\ rank[d] < rank[n]
      BY <2>1 DEF IsRanking, ClosedIn
    <2>5. \A d \in ToSet(deps[n]) : Clear(q, d)
      BY <2>1, <2>4
    <2>6. V[q] \in [Name -> Walk] /\ deps[n] \in Order
      BY <2>1, <2>3, VisitDefined DEF Graph, V
    <2> DEFINE Good == {t \in Search : ~ t.failed}
               steps == Steps(V[q], deps[n])
    <2>7. \A d \in ToSet(deps[n]) : \A t \in Good : V[q][d][t] \in Good
      <3> SUFFICES ASSUME NEW d \in ToSet(deps[n]), NEW t \in Good
                   PROVE  V[q][d][t] \in Good
        OBVIOUS
      <3>1. ~ V[q][d][t].failed
        BY <1>1, <2>3, <2>4, <2>5
      <3>2. V[q][d][t] \in Search
        BY <2>4, <2>6 DEF Walk
      <3> QED
        BY <3>1, <3>2
    <2>8. /\ steps \in Seq([Search -> Search])
          /\ \A i \in 1..Len(steps) : steps[i] = V[q][deps[n][i]] /\ deps[n][i] \in ToSet(deps[n])
      <3> DEFINE visits == V[q]
                 names == deps[n]
      <3>1. visits \in [Name -> Walk] /\ names \in Order
        BY <2>6
      <3> HIDE DEF visits, names
      <3>2. /\ Steps(visits, names) \in Seq(Walk)
            /\ Len(Steps(visits, names)) = Len(names)
            /\ \A i \in 1..Len(names) : Steps(visits, names)[i] = visits[names[i]]
        BY <3>1, StepsType
      <3>3. \A i \in 1..Len(names) : names[i] \in ToSet(names)
        BY <3>1, InToSet DEF Order
      <3> QED
        BY <3>2, <3>3 DEF visits, names, Walk
    <2>9. below \in Good
      <3> HIDE DEF steps, Good
      <3>1. \A i \in 1..Len(steps) : \A t \in Good : steps[i][t] \in Good
        BY <2>7, <2>8
      <3>2. Good \in SUBSET Search /\ s \in Good
        BY DEF Good
      <3>3. Loop(s, steps) \in Good
        BY <2>8, <3>1, <3>2, LoopKeeps
      <3> QED
        BY <3>3 DEF steps, below, Under, V
    <2>10. /\ n \in ToSet(s.order) => V[path][n][s] = s
           /\ n \notin ToSet(s.order) => V[path][n][s] = Leave(below, n)
      BY <2>1, <2>2, VisitReturns DEF V, below
    <2>11. ~ Leave(below, n).failed
      BY <2>1, <2>9, SearchTypes
    <2> QED
      BY <2>10, <2>11
  <1> HIDE DEF T
  <1>2. SUBSET Name \subseteq T
    BY <1>1, PathInduction
  <1> QED
    BY <1>2 DEF T, V

\* An order with dependencies first gives ranks to the names in it: their
\* first places.
LEMMA OrderRanks ==
    ASSUME NEW deps, NEW s \in Order, Sorted(deps, s)
    PROVE  \E rank : IsRanking(deps, ToSet(s), rank)
  <1> DEFINE N == Len(s)
             Places(n) == {i \in 1..N : s[i] = n}
             First(n, i) == i \in Places(n) /\ \A j \in Places(n) : i <= j
             rank == [n \in Name |-> CHOOSE i \in Nat : n \in ToSet(s) => First(n, i)]
  <1>1. N \in Nat /\ \A n : n \in ToSet(s) <=> \E i \in 1..N : s[i] = n
    BY InToSet DEF Order
  <1>2. \A n : \E i \in Nat : n \in ToSet(s) => First(n, i)
    <2> SUFFICES ASSUME NEW n, n \in ToSet(s)
                 PROVE  \E i \in Nat : First(n, i)
      OBVIOUS
    <2>1. Places(n) \in SUBSET Nat /\ Places(n) # {}
      BY <1>1
    <2> HIDE DEF Places
    <2>2. PICK i \in Places(n) : \A j \in Places(n) : i <= j
      BY <2>1, NatMinimum
    <2> QED
      BY <2>1, <2>2
  <1>3. rank \in [Name -> Nat] /\ \A n \in Name : n \in ToSet(s) => First(n, rank[n])
    <2> HIDE DEF First
    <2> QED
      BY <1>2
  <1> HIDE DEF rank
  <1>4. ASSUME NEW n \in ToSet(s), NEW d \in ToSet(deps[n])
        PROVE  rank[d] < rank[n]
    <2>1. n \in Name /\ First(n, rank[n])
      BY <1>3, InToSet DEF Order
    <2>2. rank[n] \in 1..N /\ s[rank[n]] = n
      BY <2>1
    <2>3. PICK j \in 1..(rank[n] - 1) : s[j] = d
      BY <2>2 DEF Sorted
    <2>4. j \in 1..N /\ j < rank[n]
      BY <1>1, <2>2
    <2>5. d \in ToSet(s) /\ d \in Name
      BY <1>1, <2>3, <2>4, InToSet DEF Order
    <2>6. rank[d] <= j /\ rank[d] \in Nat
      BY <1>3, <2>3, <2>4, <2>5
    <2> QED
      BY <2>2, <2>4, <2>6
  <1> QED
    BY <1>3, <1>4 DEF IsRanking

-----------------------------------------------------------------------------
(***************************************************************************)
(* Configurations.                                                         *)
(***************************************************************************)
Containers == Seq(ContainerConfig)

LEMMA NamesType ==
    ASSUME NEW cs \in Containers
    PROVE  /\ Names(cs) \subseteq Name
           /\ \A k \in ToSet(cs) : k \in ContainerConfig /\ k.name \in Names(cs)
                                   /\ k.name \in Name /\ k.deps \in Order
           /\ \A n \in Names(cs) : ByName(cs, n) \in ToSet(cs) /\ ByName(cs, n).name = n
           /\ DepsOf(cs) \in Graph
           /\ \A n \in Name : DepsOf(cs)[n] = IF n \in Names(cs) THEN ByName(cs, n).deps ELSE <<>>
           /\ \A n \in Name : ToSet(DepsOf(cs)[n]) \subseteq Name
  <1>1. \A k \in ToSet(cs) : k \in ContainerConfig
    BY InToSet DEF Containers
  <1>2. \A k \in ToSet(cs) : k.name \in Names(cs) /\ k.name \in Name /\ k.deps \in Order
    BY <1>1 DEF Names, ContainerConfig, Order
  <1>3. Names(cs) \subseteq Name
    BY <1>2 DEF Names
  <1>4. \A n \in Names(cs) : ByName(cs, n) \in ToSet(cs) /\ ByName(cs, n).name = n
    BY DEF Names, ByName
  <1>5. <<>> \in Order
    BY DEF Order
  <1>6. \A n \in Name : DepsOf(cs)[n] = IF n \in Names(cs) THEN ByName(cs, n).deps ELSE <<>>
    BY DEF DepsOf
  <1>7. \A n \in Name : DepsOf(cs)[n] \in Order
    BY <1>2, <1>4, <1>5, <1>6
  <1>8. DepsOf(cs) \in Graph
    BY <1>7 DEF DepsOf, Graph
  <1>9. \A n \in Name : ToSet(DepsOf(cs)[n]) \subseteq Name
    BY <1>7, InToSet DEF Order
  <1> QED
    BY <1>1, <1>2, <1>3, <1>4, <1>6, <1>8, <1>9

\* Names are unique and the dependencies of containers are containers.
LEMMA ReferencesFacts ==
    ASSUME NEW c \in GatewayConfig, Validate(c)
    PROVE  /\ \A k \in ToSet(c.containers) : ByName(c.containers, k.name) = k
           /\ \A k \in ToSet(c.containers) : DepsOf(c.containers)[k.name] = k.deps
           /\ ClosedIn(DepsOf(c.containers), Names(c.containers))
  <1> DEFINE cs == c.containers
  <1>1. cs \in Containers
    BY DEF GatewayConfig, Containers
  <1>2. /\ \A k \in ToSet(cs) : ToSet(k.deps) \subseteq Names(cs) \ {k.name}
        /\ \A i, j \in DOMAIN cs : i # j => cs[i].name # cs[j].name
    BY DEF Validate, ReferencesValid
  <1>3. DOMAIN cs = 1..Len(cs)
    BY <1>1 DEF Containers
  <1>4. \A k \in ToSet(cs) : \E i \in DOMAIN cs : cs[i] = k
    BY <1>1, <1>3, InToSet DEF Containers
  <1> HIDE DEF cs
  <1>5. ASSUME NEW k \in ToSet(cs)
        PROVE  ByName(cs, k.name) = k
    <2>1. ByName(cs, k.name) \in ToSet(cs) /\ ByName(cs, k.name).name = k.name
      BY <1>1, NamesType
    <2>2. PICK i \in DOMAIN cs : cs[i] = k
      BY <1>4
    <2>3. PICK j \in DOMAIN cs : cs[j] = ByName(cs, k.name)
      BY <1>4, <2>1
    <2> QED
      BY <1>2, <2>1, <2>2, <2>3
  <1>6. \A k \in ToSet(cs) : DepsOf(cs)[k.name] = k.deps
    BY <1>1, <1>5, NamesType
  <1>7. ClosedIn(DepsOf(cs), Names(cs))
    <2> SUFFICES ASSUME NEW n \in Names(cs)
                 PROVE  ToSet(DepsOf(cs)[n]) \subseteq Names(cs)
      BY DEF ClosedIn
    <2>1. PICK k \in ToSet(cs) : k.name = n
      BY DEF Names
    <2> QED
      BY <1>2, <1>6, <2>1
  <1> QED
    BY <1>5, <1>6, <1>7 DEF cs

\* The search of the validation goes through all containers; if it does not
\* fail, its order has them all, dependencies first.
LEMMA ValidOrder ==
    ASSUME NEW c \in GatewayConfig, Validate(c)
    PROVE  \E s \in Order : /\ Names(c.containers) \subseteq ToSet(s)
                            /\ Sorted(DepsOf(c.containers), s)
  <1> DEFINE cs == c.containers
             deps == DepsOf(cs)
             visits == Visit(deps, Name)[{}]
             names == [i \in 1..Len(cs) |-> cs[i].name]
             r == Loop(Begin, Steps(visits, names))
  <1>1. cs \in Containers /\ Len(cs) \in Nat /\ DOMAIN cs = 1..Len(cs)
    BY DEF GatewayConfig, Containers
  <1>2. deps \in Graph
    BY <1>1, NamesType
  <1>3. names \in Order /\ DOMAIN names = 1..Len(cs)
    <2>1. \A i \in 1..Len(cs) : cs[i].name \in Name
      <3>1. \A i \in 1..Len(cs) : cs[i] \in ToSet(cs)
        BY <1>1, InToSet DEF Containers
      <3> QED
        BY <1>1, <3>1, NamesType
    <2>2. names \in [1..Len(cs) -> Name]
      BY <2>1
    <2> QED
      BY <1>1, <2>2 DEF Order
  <1>4. ~ r.failed
    <2>1. ~ detectDependencyCycles(cs)
      BY DEF Validate
    <2>2. Steps(visits, names) = [i \in DOMAIN cs |-> visits[cs[i].name]]
      <3>1. \A i \in 1..Len(cs) : names[i] = cs[i].name
        OBVIOUS
      <3> HIDE DEF visits, names, cs
      <3> QED
        BY <1>1, <1>3, <3>1 DEF Steps
    <2> HIDE DEF names, cs
    <2>3. detectDependencyCycles(cs) = r.failed
      BY <2>2 DEF detectDependencyCycles
    <2> QED
      BY <2>1, <2>3
  <1> HIDE DEF deps, visits, names
  <1>5. visits \in [Name -> Walk]
    BY <1>2, VisitDefined DEF visits
  <1>6. Begin \in Search /\ r \in Search
    BY <1>3, <1>5, BeginFacts, LoopStepsType
  <1>7. \A n \in ToSet(names) : \A t \in Search : Adds(deps, {}, {n}, t, visits[n][t])
    <2>1. ToSet(names) \subseteq Name
      BY <1>3, InToSet DEF Order
    <2> QED
      BY <1>2, <2>1, VisitAdds DEF visits
  <1>8. Adds(deps, {}, ToSet(names), Begin, r)
    BY <1>3, <1>5, <1>6, <1>7, LoopAdds
  <1> HIDE DEF r
  <1>9. r.order \in Order
    BY <1>6, SearchTypes
  <1>10. ToSet(names) \subseteq ToSet(r.order) /\ Sorted(deps, r.order)
    <2>1. Sorted(deps, Begin.order)
      BY BeginFacts
    <2> QED
      BY <1>4, <1>8, <2>1 DEF Adds
  <1>11. Names(cs) \subseteq ToSet(names)
    <2> SUFFICES ASSUME NEW n \in Names(cs)
                 PROVE  n \in ToSet(names)
      OBVIOUS
    <2>1. PICK k \in ToSet(cs) : k.name = n
      BY DEF Names
    <2>2. PICK i \in 1..Len(cs) : cs[i] = k
      BY <1>1, InToSet DEF Containers
    <2>3. names[i] = n /\ i \in 1..Len(names)
      BY <1>1, <1>3, <2>1, <2>2 DEF names
    <2> QED
      BY <1>3, <2>3, InToSet DEF Order
  <1> QED
    BY <1>9, <1>10, <1>11 DEF deps

\* A valid configuration has ranks, and therefore no cycle.
LEMMA ValidRanks ==
    ASSUME NEW c \in GatewayConfig, Validate(c)
    PROVE  \E rank : IsRanking(DepsOf(c.containers), Names(c.containers), rank)
  <1>1. PICK s \in Order : /\ Names(c.containers) \subseteq ToSet(s)
                           /\ Sorted(DepsOf(c.containers), s)
    BY ValidOrder
  <1>2. PICK rank : IsRanking(DepsOf(c.containers), ToSet(s), rank)
    BY <1>1, OrderRanks
  <1>3. IsRanking(DepsOf(c.containers), Names(c.containers), rank)
    BY <1>1, <1>2 DEF IsRanking
  <1> QED
    BY <1>3

\* config.go:340-381: what Validate accepts contains no cycle.
THEOREM ValidAcyclic ==
    ASSUME NEW c \in GatewayConfig, Validate(c)
    PROVE  Acyclic(c.containers)
  <1> DEFINE cs == c.containers
             deps == DepsOf(cs)
  <1>1. cs \in Containers
    BY DEF GatewayConfig, Containers
  <1>2. PICK rank : IsRanking(deps, Names(cs), rank)
    BY ValidRanks
  <1>3. Names(cs) \subseteq Name
    BY <1>1, NamesType
  <1> HIDE DEF cs, deps
  <1> SUFFICES ASSUME NEW S \in (SUBSET Names(cs)) \ {{}}
               PROVE  \E n \in S : ToSet(deps[n]) \cap S = {}
    BY DEF Acyclic, cs, deps
  <1>4. \A n \in S : n \in Names(cs) /\ rank[n] \in Nat
    BY <1>2, <1>3 DEF IsRanking
  <1> DEFINE Ranks == {rank[n] : n \in S}
  <1>5. Ranks \in SUBSET Nat /\ Ranks # {}
    BY <1>4
  <1>6. PICK m \in Ranks : \A k \in Ranks : m <= k
    <2> HIDE DEF Ranks
    <2> QED
      BY <1>5, NatMinimum
  <1>7. PICK n \in S : m = rank[n]
    BY <1>6
  <1>8. ASSUME NEW d \in ToSet(deps[n]), d \in S
        PROVE  FALSE
    <2>1. rank[d] < rank[n]
      BY <1>2, <1>4 DEF IsRanking
    <2>2. rank[n] <= rank[d]
      BY <1>6, <1>7, <1>8
    <2> QED
      BY <1>4, <1>8, <2>1, <2>2
  <1> QED
    BY <1>8

-----------------------------------------------------------------------------
(***************************************************************************)
(* The least closed sets.                                                  *)
(***************************************************************************)
LEMMA NeededFacts ==
    ASSUME NEW cs \in Containers, NEW roots \in SUBSET Name
    PROVE  /\ NeededBy(roots, cs) \in SUBSET Name
           /\ roots \subseteq NeededBy(roots, cs)
           /\ ClosedIn(DepsOf(cs), NeededBy(roots, cs))
           /\ \A D \in SUBSET Name : ClosedIn(DepsOf(cs), D) /\ roots \subseteq D =>
                NeededBy(roots, cs) \subseteq D
  <1> DEFINE deps == DepsOf(cs)
             All == {D \in SUBSET Name : roots \subseteq D /\ \A n \in D : ToSet(deps[n]) \subseteq D}
             X == NeededBy(roots, cs)
  <1>1. \A n \in Name : ToSet(deps[n]) \subseteq Name
    BY NamesType
  <1>2. \A x : x \in X <=> x \in Name /\ \A D \in All : x \in D
    BY DEF NeededBy
  <1> HIDE DEF deps, X
  <1>3. X \in SUBSET Name /\ roots \subseteq X
    BY <1>2
  <1>4. ASSUME NEW x \in X, NEW d \in ToSet(deps[x])
        PROVE  d \in X
    <2>1. x \in Name /\ d \in Name
      BY <1>1, <1>2
    <2>2. \A D \in All : d \in D
      BY <1>2
    <2> HIDE DEF All
    <2> QED
      BY <1>2, <2>1, <2>2
  <1>5. ClosedIn(deps, X)
    BY <1>4 DEF ClosedIn
  <1>6. \A D \in SUBSET Name : ClosedIn(deps, D) /\ roots \subseteq D => X \subseteq D
    <2> SUFFICES ASSUME NEW D \in SUBSET Name, ClosedIn(deps, D), roots \subseteq D
                 PROVE  X \subseteq D
      OBVIOUS
    <2>1. D \in All
      BY DEF ClosedIn
    <2> HIDE DEF All
    <2> QED
      BY <1>2, <2>1
  <1> QED
    BY <1>3, <1>5, <1>6 DEF deps, X

\* What several roots need is what each of them needs.
LEMMA NeededUnion ==
    ASSUME NEW cs \in Containers, NEW roots \in SUBSET Name
    PROVE  NeededBy(roots, cs) = UNION {NeededBy({r}, cs) : r \in roots}
  <1> DEFINE deps == DepsOf(cs)
             One(r) == NeededBy({r}, cs)
             All == NeededBy(roots, cs)
             U == UNION {One(r) : r \in roots}
  <1>1. \A r \in roots : /\ One(r) \in SUBSET Name /\ r \in One(r) /\ ClosedIn(deps, One(r))
                         /\ \A D \in SUBSET Name : ClosedIn(deps, D) /\ r \in D => One(r) \subseteq D
    <2> SUFFICES ASSUME NEW r \in roots
                 PROVE  /\ One(r) \in SUBSET Name /\ r \in One(r) /\ ClosedIn(deps, One(r))
                        /\ \A D \in SUBSET Name : ClosedIn(deps, D) /\ r \in D => One(r) \subseteq D
      OBVIOUS
    <2>1. {r} \in SUBSET Name
      OBVIOUS
    <2> QED
      BY <2>1, NeededFacts
  <1>2. /\ All \in SUBSET Name /\ roots \subseteq All /\ ClosedIn(deps, All)
        /\ \A D \in SUBSET Name : ClosedIn(deps, D) /\ roots \subseteq D => All \subseteq D
    BY NeededFacts
  <1> HIDE DEF deps, One, All
  <1>3. U \in SUBSET Name /\ roots \subseteq U
    BY <1>1
  <1>4. ClosedIn(deps, U)
    BY <1>1 DEF ClosedIn
  <1>5. All \subseteq U
    <2> HIDE DEF U
    <2> QED
      BY <1>2, <1>3, <1>4
  <1>6. U \subseteq All
    BY <1>1, <1>2
  <1> QED
    BY <1>5, <1>6 DEF One, All

-----------------------------------------------------------------------------
(***************************************************************************)
(* TopologicalSort.                                                        *)
(***************************************************************************)
\* On a valid configuration it fails for unknown targets only.
THEOREM SortFails ==
    ASSUME NEW c \in GatewayConfig, Validate(c), NEW target \in Name
    PROVE  TopologicalSort(target, c.containers).failed <=> target \notin Names(c.containers)
  <1> DEFINE cs == c.containers
             deps == DepsOf(cs)
             known == Names(cs)
  <1>1. cs \in Containers
    BY DEF GatewayConfig, Containers
  <1>2. deps \in Graph /\ known \in SUBSET Name /\ ClosedIn(deps, known)
    BY <1>1, NamesType, ReferencesFacts
  <1>3. PICK rank : IsRanking(deps, known, rank)
    BY ValidRanks
  <1>4. Begin \in Search /\ ~ Begin.failed /\ {} \in SUBSET Name
    BY BeginFacts
  <1>5. TopologicalSort(target, cs) = Visit(deps, known)[{}][target][Begin]
    BY DEF TopologicalSort
  <1> HIDE DEF cs, deps, known
  <1>6. target \in known => ~ Visit(deps, known)[{}][target][Begin].failed
    BY <1>2, <1>3, <1>4, VisitSucceeds
  <1>7. target \notin known => Visit(deps, known)[{}][target][Begin] = Fail(Begin)
    <2>1. target \notin ToSet(Begin.order)
      BY BeginFacts
    <2> QED
      BY <1>2, <1>4, <2>1, VisitReturns
  <1> QED
    BY <1>4, <1>5, <1>6, <1>7, SearchTypes DEF cs, known

\* If it does not fail, the target is at the end and nowhere else, behind what
\* it needs and nothing else, dependencies first.
SortsAs(target, cs, front) ==
    /\ front \in Order
    /\ TopologicalSort(target, cs).order = Append(front, target)
    /\ target \notin ToSet(front)
    /\ Sorted(DepsOf(cs), Append(front, target))
    /\ ToSet(front) \cup {target} = NeededBy({target}, cs)

THEOREM SortOrder ==
    ASSUME NEW cs \in Containers, NEW target \in Name, ~ TopologicalSort(target, cs).failed
    PROVE  \E front : SortsAs(target, cs, front)
  <1> DEFINE deps == DepsOf(cs)
             known == Names(cs)
             r == TopologicalSort(target, cs)
             below == Under(deps, known, {}, target, Begin)
             front == below.order
  <1>1. deps \in Graph
    BY NamesType
  <1>2. Begin \in Search /\ ~ Begin.failed /\ {} \in SUBSET Name
    BY BeginFacts
  <1>3. r = Visit(deps, known)[{}][target][Begin]
    BY DEF TopologicalSort
  <1> HIDE DEF deps, known, r, below
  <1>4. target \notin ToSet(Begin.order) /\ ToSet(Begin.order) = {} /\ Sorted(deps, Begin.order)
    BY BeginFacts
  <1>5. /\ r \in Search /\ below \in Search
        /\ r = IF target \in {} \/ target \notin known THEN Fail(Begin) ELSE Leave(below, target)
    BY <1>1, <1>2, <1>3, <1>4, VisitReturns DEF below
  <1>6. r = Leave(below, target) /\ ~ r.failed
    BY <1>2, <1>5, SearchTypes DEF r
  <1>7. ~ below.failed /\ front \in Order /\ r.order = Append(front, target)
    BY <1>5, <1>6, SearchTypes
  <1>8. Adds(deps, {}, {target}, Begin, r)
    BY <1>1, <1>2, <1>3, VisitAdds
  <1>9. /\ Sorted(deps, r.order)
        /\ \A D \in SUBSET Name : ClosedIn(deps, D) /\ {target} \subseteq D => ToSet(r.order) \subseteq D
    BY <1>4, <1>6, <1>8 DEF Adds
  <1>10. ToSet(r.order) = ToSet(front) \cup {target} /\ r.order \in Order
    BY <1>7, AppendToSet DEF Order
  <1>11. target \notin ToSet(front)
    <2> DEFINE q == {target}
    <2>1. q \in SUBSET Name
      OBVIOUS
    <2>2. Visit(deps, known)[q] \in [Name -> Walk] /\ deps[target] \in Order
      BY <1>1, <2>1, VisitDefined DEF Graph
    <2>3. \A d \in ToSet(deps[target]) : d \in Name
      BY <2>2, InToSet DEF Order
    <2>4. \A d \in ToSet(deps[target]) : \A t \in Search :
                Adds(deps, q, {d}, t, Visit(deps, known)[q][d][t])
      BY <1>1, <2>1, <2>3, VisitAdds
    <2>5. below = Loop(Begin, Steps(Visit(deps, known)[q], deps[target]))
      <3>1. {} \cup {target} = q
        OBVIOUS
      <3> HIDE DEF q
      <3> QED
        BY <3>1 DEF below, Under
    <2>6. Adds(deps, q, ToSet(deps[target]), Begin, below)
      <3> HIDE DEF q
      <3> QED
        BY <1>2, <2>2, <2>4, <2>5, LoopAdds
    <2>7. ToSet(front) \cap q \subseteq ToSet(Begin.order)
      BY <1>7, <2>6 DEF Adds
    <2> QED
      BY <1>4, <2>7
  <1>12. ClosedIn(deps, ToSet(r.order))
    BY <1>9, <1>10, SortedClosed
  <1>13. ToSet(r.order) = NeededBy({target}, cs)
    <2>1. {target} \in SUBSET Name /\ ToSet(r.order) \in SUBSET Name /\ target \in ToSet(r.order)
      BY <1>10, InToSet DEF Order
    <2>2. /\ NeededBy({target}, cs) \in SUBSET Name
          /\ {target} \subseteq NeededBy({target}, cs)
          /\ ClosedIn(deps, NeededBy({target}, cs))
          /\ \A D \in SUBSET Name : ClosedIn(deps, D) /\ {target} \subseteq D =>
                NeededBy({target}, cs) \subseteq D
      BY <2>1, NeededFacts DEF deps
    <2>3. ToSet(r.order) \subseteq NeededBy({target}, cs)
      BY <1>9, <2>2
    <2>4. NeededBy({target}, cs) \subseteq ToSet(r.order)
      BY <1>12, <2>1, <2>2
    <2> QED
      BY <2>3, <2>4
  <1>14. SortsAs(target, cs, front)
    BY <1>7, <1>9, <1>10, <1>11, <1>13 DEF SortsAs, r, deps
  <1> QED
    BY <1>14

-----------------------------------------------------------------------------
(***************************************************************************)
(* Part 2: Serving.                                                        *)
(***************************************************************************)

(***************************************************************************)
(* The plans for one container.                                            *)
(***************************************************************************)
LEMMA SameOrder ==
    ASSUME NEW s \in Order, NEW t \in Order, Len(s) = Len(t), \A i \in 1..Len(s) : s[i] = t[i]
    PROVE  s = t
  BY DEF Order

\* The loop of EnsureDepsRunning over an order.
SkipSteps(order, target) ==
    [i \in DOMAIN order |-> [names \in Seq(Name) |->
        IF order[i] = target THEN names ELSE Append(names, order[i])]]

LEMMA SkipStepsType ==
    ASSUME NEW order \in Order, NEW target
    PROVE  /\ SkipSteps(order, target) \in Seq([Order -> Order])
           /\ Len(SkipSteps(order, target)) = Len(order)
           /\ \A i \in 1..Len(order) : \A names \in Order :
                SkipSteps(order, target)[i][names]
                    = IF order[i] = target THEN names ELSE Append(names, order[i])
  <1> DEFINE Turn(i) == [names \in Order |->
                            IF order[i] = target THEN names ELSE Append(names, order[i])]
             steps == SkipSteps(order, target)
  <1>1. DOMAIN order = 1..Len(order) /\ Len(order) \in Nat /\ \A i \in 1..Len(order) : order[i] \in Name
    BY DEF Order
  <1>2. steps = [i \in 1..Len(order) |-> Turn(i)]
    BY <1>1 DEF SkipSteps, Order
  <1>3. \A i \in 1..Len(order) : Turn(i) \in [Order -> Order]
    BY <1>1, AppendToSet DEF Order
  <1>4. \A i \in 1..Len(order) : \A names \in Order :
            Turn(i)[names] = IF order[i] = target THEN names ELSE Append(names, order[i])
    OBVIOUS
  <1> HIDE DEF Turn, steps
  <1>5. steps \in [1..Len(order) -> [Order -> Order]]
    BY <1>2, <1>3
  <1>6. steps \in Seq([Order -> Order]) /\ Len(steps) = Len(order)
    BY <1>1, <1>5
  <1>7. \A i \in 1..Len(order) : steps[i] = Turn(i)
    BY <1>2
  <1> QED
    BY <1>4, <1>6, <1>7 DEF steps

LEMMA DepsInOrderType ==
    ASSUME NEW cs \in Containers, NEW target \in Name
    PROVE  DepsInOrder(target, cs) \in Order
  <1> DEFINE order == TopologicalSort(target, cs).order
             steps == SkipSteps(order, target)
  <1>1. order \in Order
    <2>1. DepsOf(cs) \in Graph /\ {} \in SUBSET Name /\ Begin \in Search
      BY NamesType, BeginFacts
    <2>2. TopologicalSort(target, cs) \in Search
      BY <2>1, VisitReturns DEF TopologicalSort
    <2> QED
      BY <2>2, SearchTypes
  <1>2. DepsInOrder(target, cs) = Loop(<<>>, steps)
    BY DEF DepsInOrder, SkipSteps
  <1> HIDE DEF order, steps
  <1>3. steps \in Seq([Order -> Order]) /\ <<>> \in Order
    BY <1>1, SkipStepsType DEF steps, Order
  <1>4. \A i \in 1..Len(steps) : \A s \in Order : steps[i][s] \in Order
    BY <1>3
  <1> QED
    BY <1>2, <1>3, <1>4, LoopKeeps

\* It skips the last name of the order and no other.
LEMMA DepsInOrderFront ==
    ASSUME NEW cs, NEW target \in Name, NEW front, SortsAs(target, cs, front)
    PROVE  DepsInOrder(target, cs) = front
  <1> DEFINE order == TopologicalSort(target, cs).order
             steps == SkipSteps(order, target)
             N == Len(front)
  <1>1. /\ front \in Order /\ order = Append(front, target) /\ target \notin ToSet(front)
        /\ N \in Nat
    BY DEF SortsAs, Order
  <1>2. DepsInOrder(target, cs) = Loop(<<>>, steps)
    BY DEF DepsInOrder, SkipSteps
  <1> HIDE DEF order
  <1>3. /\ order \in Order /\ Len(order) = N + 1 /\ order[N + 1] = target
        /\ \A i \in 1..N : order[i] = front[i] /\ front[i] # target /\ front[i] \in Name
    BY <1>1, AppendToSet, InToSet DEF Order
  <1>4. /\ steps \in Seq([Order -> Order]) /\ Len(steps) = N + 1
        /\ \A i \in 1..(N + 1) : \A names \in Order :
                steps[i][names] = IF order[i] = target THEN names ELSE Append(names, order[i])
    BY <1>3, SkipStepsType
  <1>5. <<>> \in Order
    BY DEF Order
  <1> HIDE DEF steps, N
  <1>6. PICK f : IsRun(Order, <<>>, steps, f) /\ Loop(<<>>, steps) = f[N + 1]
    BY <1>4, <1>5, LoopRuns
  <1>7. /\ \A i \in 0..(N + 1) : f[i] \in Order
        /\ f[0] = <<>>
        /\ \A i \in 1..(N + 1) : f[i] = IF order[i] = target THEN f[i - 1] ELSE Append(f[i - 1], order[i])
    <2>1. \A i \in 1..(N + 1) : i - 1 \in 0..(N + 1)
      BY <1>1
    <2> QED
      BY <1>4, <1>6, <2>1 DEF IsRun
  <1> DEFINE T == {i \in 0..N : Len(f[i]) = i /\ \A j \in 1..i : f[i][j] = front[j]}
  <1>8. 0 \in T
    BY <1>1, <1>7
  <1>9. ASSUME NEW i \in 1..N, i - 1 \in T
        PROVE  i \in T
    <2>1. i \in 1..(N + 1) /\ i \in 0..N /\ i - 1 \in 0..(N + 1)
      BY <1>1
    <2> DEFINE s == f[i - 1]
    <2>2. s \in Seq(Name) /\ Len(s) = i - 1 /\ \A j \in 1..(i - 1) : s[j] = front[j]
      BY <1>7, <1>9, <2>1 DEF Order
    <2>3. f[i] = Append(s, front[i]) /\ front[i] \in Name
      BY <1>3, <1>7, <2>1
    <2> HIDE DEF s
    <2>4. Len(f[i]) = i /\ \A j \in 1..i : f[i][j] = front[j]
      BY <2>1, <2>2, <2>3
    <2> QED
      BY <2>1, <2>4
  <1>10. 0..N \subseteq T
    <2> HIDE DEF T
    <2> QED
      BY <1>1, <1>8, <1>9, LoopInduction
  <1>11. N \in 0..N /\ N \in 0..(N + 1) /\ N + 1 \in 1..(N + 1) /\ (N + 1) - 1 = N
    BY <1>1
  <1>12. f[N] = front
    <2>1. f[N] \in Order /\ Len(f[N]) = N /\ \A j \in 1..N : f[N][j] = front[j]
      BY <1>7, <1>10, <1>11
    <2> QED
      BY <1>1, <2>1, SameOrder DEF N
  <1>13. f[N + 1] = f[N]
    BY <1>3, <1>7, <1>11
  <1> QED
    BY <1>2, <1>6, <1>12, <1>13

\* An order behind another one: what the second needs is in the first, or
\* earlier in the second.
LEMMA JoinSorted ==
    ASSUME NEW deps, NEW a \in Order, NEW b \in Order, Sorted(deps, a),
           \A i \in 1..Len(b) : \A d \in ToSet(deps[b[i]]) :
                d \in ToSet(a) \/ \E j \in 1..(i - 1) : b[j] = d
    PROVE  a \o b \in Order /\ Sorted(deps, a \o b) /\ ToSet(a \o b) = ToSet(a) \cup ToSet(b)
  <1> DEFINE t == a \o b
             m == Len(a)
             n == Len(b)
  <1>1. /\ m \in Nat /\ n \in Nat /\ t \in Order /\ Len(t) = m + n
        /\ \A i \in 1..m : t[i] = a[i]
        /\ \A i \in 1..n : t[m + i] = b[i]
    BY DEF Order
  <1>2. /\ \A x : x \in ToSet(a) <=> \E i \in 1..m : a[i] = x
        /\ \A x : x \in ToSet(b) <=> \E i \in 1..n : b[i] = x
    BY InToSet DEF Order
  <1> HIDE DEF t
  <1>3. \A x : x \in ToSet(t) <=> \E i \in 1..(m + n) : t[i] = x
    <2>1. t \in Seq(Name) /\ Len(t) = m + n
      BY <1>1 DEF Order
    <2>2. \A x : x \in ToSet(t) <=> \E i \in 1..Len(t) : t[i] = x
      BY <2>1, InToSet
    <2> QED
      BY <2>1, <2>2
  <1>4. \A i \in 1..(m + n) : i \in 1..m \/ (i - m \in 1..n /\ m + (i - m) = i)
    BY <1>1
  <1>5. (\A i \in 1..m : i \in 1..(m + n)) /\ (\A i \in 1..n : m + i \in 1..(m + n))
    BY <1>1
  <1>6. ToSet(t) \subseteq ToSet(a) \cup ToSet(b)
    <2> SUFFICES ASSUME NEW x \in ToSet(t)
                 PROVE  x \in ToSet(a) \/ x \in ToSet(b)
      OBVIOUS
    <2>1. PICK i \in 1..(m + n) : t[i] = x
      BY <1>3
    <2>2. CASE i \in 1..m
      BY <1>1, <1>2, <2>1, <2>2
    <2>3. CASE i - m \in 1..n
      <3>1. b[i - m] = x
        BY <1>1, <1>4, <2>1, <2>3
      <3> QED
        BY <1>2, <2>3, <3>1
    <2> QED
      BY <1>4, <2>2, <2>3
  <1>7. ToSet(a) \subseteq ToSet(t)
    BY <1>1, <1>2, <1>3, <1>5
  <1>8. ToSet(b) \subseteq ToSet(t)
    <2> SUFFICES ASSUME NEW x \in ToSet(b)
                 PROVE  x \in ToSet(t)
      OBVIOUS
    <2>1. PICK i \in 1..n : b[i] = x
      BY <1>2
    <2>2. t[m + i] = x /\ m + i \in 1..(m + n)
      BY <1>1, <1>5, <2>1
    <2> QED
      BY <1>3, <2>2
  <1>9. Sorted(deps, t)
    <2> SUFFICES ASSUME NEW i \in 1..(m + n), NEW d \in ToSet(deps[t[i]])
                 PROVE  \E j \in 1..(i - 1) : t[j] = d
      BY <1>1 DEF Sorted
    <2>1. CASE i \in 1..m
      <3>1. PICK j \in 1..(i - 1) : a[j] = d
        BY <1>1, <2>1 DEF Sorted
      <3>2. j \in 1..m
        BY <1>1, <2>1
      <3> QED
        BY <1>1, <3>1, <3>2
    <2>2. CASE i - m \in 1..n
      <3> DEFINE k == i - m
      <3>1. t[i] = b[k] /\ k \in 1..n
        BY <1>1, <1>4, <2>2
      <3>2. d \in ToSet(a) \/ \E j \in 1..(k - 1) : b[j] = d
        BY <3>1
      <3>3. CASE d \in ToSet(a)
        <4>1. PICK j \in 1..m : a[j] = d
          BY <1>2, <3>3
        <4>2. j \in 1..(i - 1) /\ t[j] = d
          BY <1>1, <2>2, <4>1
        <4> QED
          BY <4>2
      <3>4. CASE \E j \in 1..(k - 1) : b[j] = d
        <4>1. PICK j \in 1..(k - 1) : b[j] = d
          BY <3>4
        <4>2. j \in 1..n /\ m + j \in 1..(i - 1)
          BY <1>1, <2>2
        <4>3. t[m + j] = d
          BY <1>1, <4>1, <4>2
        <4> QED
          BY <4>2, <4>3
      <3> QED
        BY <3>2, <3>3, <3>4
    <2> QED
      BY <1>4, <2>1, <2>2
  <1> QED
    BY <1>1, <1>6, <1>7, <1>8, <1>9 DEF t

\* What comes before the target is sorted, and has what the target depends on.
LEMMA FrontFacts ==
    ASSUME NEW cs, NEW target \in Name, NEW front, SortsAs(target, cs, front)
    PROVE  /\ front \in Order
           /\ Sorted(DepsOf(cs), front)
           /\ ToSet(DepsOf(cs)[target]) \subseteq ToSet(front)
  <1> DEFINE deps == DepsOf(cs)
             t == Append(front, target)
             N == Len(front)
  <1>1. front \in Order /\ Sorted(deps, t)
    BY DEF SortsAs
  <1>2. /\ N \in Nat /\ Len(t) = N + 1 /\ t[N + 1] = target
        /\ \A i \in 1..N : t[i] = front[i]
    BY <1>1, AppendToSet DEF Order
  <1> HIDE DEF t, deps
  <1>3. \A i \in 1..(N + 1) : \A d \in ToSet(deps[t[i]]) : \E j \in 1..(i - 1) : t[j] = d
    BY <1>1, <1>2 DEF Sorted
  <1>4. \A i \in 1..(N + 1) : \A j \in 1..(i - 1) : j \in 1..N /\ t[j] = front[j]
    BY <1>2
  <1>5. Sorted(deps, front)
    <2> SUFFICES ASSUME NEW i \in 1..N, NEW d \in ToSet(deps[front[i]])
                 PROVE  \E j \in 1..(i - 1) : front[j] = d
      BY DEF Sorted
    <2>1. i \in 1..(N + 1) /\ t[i] = front[i]
      BY <1>2
    <2>2. PICK j \in 1..(i - 1) : t[j] = d
      BY <1>3, <2>1
    <2>3. front[j] = d
      BY <1>4, <2>1, <2>2
    <2> QED
      BY <2>3
  <1>6. ASSUME NEW d \in ToSet(deps[target])
        PROVE  d \in ToSet(front)
    <2>1. N + 1 \in 1..(N + 1)
      BY <1>2
    <2>2. PICK j \in 1..((N + 1) - 1) : t[j] = d
      BY <1>2, <1>3, <2>1
    <2>3. j \in 1..N /\ front[j] = d
      BY <1>4, <2>1, <2>2
    <2> QED
      BY <1>1, <2>3, InToSet DEF Order
  <1> QED
    BY <1>1, <1>5, <1>6 DEF deps

\* What a start has to do for its roots: everything they need, dependencies
\* first.
Complete(roots, cs, p) ==
    /\ NeededBy(roots, cs) \subseteq ToSet(p) \cup roots
    /\ Sorted(DepsOf(cs), p)

\* The plans for one container: its dependencies, or those and itself.
LEMMA SinglePlan ==
    ASSUME NEW cs \in Containers, NEW target \in Name, ~ TopologicalSort(target, cs).failed
    PROVE  /\ DepsInOrder(target, cs) \in Order
           /\ Complete({target}, cs, DepsInOrder(target, cs))
           /\ Append(DepsInOrder(target, cs), target) \in Order
           /\ Complete({target}, cs, Append(DepsInOrder(target, cs), target))
  <1>1. PICK front : SortsAs(target, cs, front)
    BY SortOrder
  <1>2. DepsInOrder(target, cs) = front
    BY <1>1, DepsInOrderFront
  <1>3. front \in Order /\ Sorted(DepsOf(cs), front)
    BY <1>1, FrontFacts
  <1>4. Append(front, target) \in Order /\ ToSet(Append(front, target)) = ToSet(front) \cup {target}
    BY <1>3, AppendToSet DEF Order
  <1>5. /\ Sorted(DepsOf(cs), Append(front, target))
        /\ NeededBy({target}, cs) = ToSet(front) \cup {target}
    BY <1>1 DEF SortsAs
  <1> QED
    BY <1>2, <1>3, <1>4, <1>5 DEF Complete

\* A container without dependencies needs nothing else.
LEMMA NeededAlone ==
    ASSUME NEW cs \in Containers, NEW n \in Name, DepsOf(cs)[n] = <<>>
    PROVE  NeededBy({n}, cs) = {n}
  <1>1. {n} \in SUBSET Name
    OBVIOUS
  <1>2. ToSet(DepsOf(cs)[n]) = {}
    BY BeginFacts
  <1>3. ClosedIn(DepsOf(cs), {n})
    BY <1>2 DEF ClosedIn
  <1> QED
    BY <1>1, <1>3, NeededFacts

LEMMA LonePlan ==
    ASSUME NEW cs \in Containers, NEW n \in Name, DepsOf(cs)[n] = <<>>
    PROVE  <<n>> \in Order /\ Complete({n}, cs, <<n>>)
  <1>1. NeededBy({n}, cs) = {n}
    BY NeededAlone
  <1>2. <<n>> \in Seq(Name) /\ Len(<<n>>) = 1 /\ <<n>>[1] = n
    OBVIOUS
  <1>3. n \in ToSet(<<n>>)
    <2> DEFINE s == <<n>>
    <2>1. s \in Seq(Name) /\ 1 \in 1..Len(s) /\ s[1] = n
      BY <1>2
    <2> HIDE DEF s
    <2>2. n \in ToSet(s)
      BY <2>1, InToSet
    <2> QED
      BY <2>2 DEF s
  <1>4. Sorted(DepsOf(cs), <<n>>)
    <2>1. ToSet(DepsOf(cs)[n]) = {}
      BY BeginFacts
    <2>2. \A i \in 1..1 : i = 1
      OBVIOUS
    <2> QED
      BY <1>2, <2>1, <2>2 DEF Sorted
  <1> QED
    BY <1>1, <1>2, <1>3, <1>4 DEF Complete, Order

-----------------------------------------------------------------------------
(***************************************************************************)
(* The plan for a group, and the activity of several containers.           *)
(***************************************************************************)
\* One turn of EnsureGroupRunning.
GroupTurn(m, cs, p) ==
    IF p.failed \/ TopologicalSort(m, cs).failed
    THEN Fail(p)
    ELSE [p EXCEPT !.order = @ \o DepsInOrder(m, cs)]

\* The plan has what m depends on, and what it needs.
Covers(p, cs, m) ==
    /\ ~ TopologicalSort(m, cs).failed
    /\ ToSet(DepsOf(cs)[m]) \subseteq ToSet(p.order)
    /\ NeededBy({m}, cs) \subseteq ToSet(p.order) \cup {m}

LEMMA GroupTurnFacts ==
    ASSUME NEW cs \in Containers, NEW m \in Name, NEW p \in Search
    PROVE  /\ GroupTurn(m, cs, p) \in Search
           /\ GroupTurn(m, cs, p).failed <=> p.failed \/ TopologicalSort(m, cs).failed
           /\ ~ GroupTurn(m, cs, p).failed /\ Sorted(DepsOf(cs), p.order) =>
                /\ Sorted(DepsOf(cs), GroupTurn(m, cs, p).order)
                /\ ToSet(p.order) \subseteq ToSet(GroupTurn(m, cs, p).order)
                /\ Covers(GroupTurn(m, cs, p), cs, m)
  <1> DEFINE r == GroupTurn(m, cs, p)
             b == DepsInOrder(m, cs)
  <1>1. p.order \in Order /\ p.failed \in BOOLEAN
    BY SearchTypes
  <1>2. CASE p.failed \/ TopologicalSort(m, cs).failed
    <2>1. r = Fail(p)
      BY <1>2 DEF GroupTurn
    <2>2. r \in Search /\ r.failed
      BY <2>1, SearchTypes
    <2> QED
      BY <1>2, <2>2
  <1>3. CASE ~ p.failed /\ ~ TopologicalSort(m, cs).failed
    <2>1. PICK front : SortsAs(m, cs, front)
      BY <1>3, SortOrder
    <2>2. b = front
      BY <2>1, DepsInOrderFront
    <2>3. /\ front \in Order /\ Sorted(DepsOf(cs), front)
          /\ ToSet(DepsOf(cs)[m]) \subseteq ToSet(front)
      BY <2>1, FrontFacts
    <2>4. ToSet(front) \cup {m} = NeededBy({m}, cs)
      BY <2>1 DEF SortsAs
    <2>5. r = [p EXCEPT !.order = @ \o b]
      BY <1>3 DEF GroupTurn
    <2> HIDE DEF r, b
    <2>6. p.order \o front \in Seq(Name)
      BY <1>1, <2>3 DEF Order
    <2>7. r \in Search /\ r.order = p.order \o front /\ ~ r.failed
      BY <1>3, <2>2, <2>5, <2>6 DEF Search
    <2>8. ASSUME Sorted(DepsOf(cs), p.order)
          PROVE  Sorted(DepsOf(cs), r.order) /\ ToSet(r.order) = ToSet(p.order) \cup ToSet(front)
      <3>1. \A i \in 1..Len(front) : \A d \in ToSet(DepsOf(cs)[front[i]]) :
                \E j \in 1..(i - 1) : front[j] = d
        BY <2>3 DEF Sorted
      <3> DEFINE deps == DepsOf(cs)
                 a == p.order
      <3>2. a \in Order /\ Sorted(deps, a)
        BY <1>1, <2>8
      <3> HIDE DEF deps, a
      <3>3. Sorted(deps, a \o front) /\ ToSet(a \o front) = ToSet(a) \cup ToSet(front)
        <4>1. \A i \in 1..Len(front) : \A d \in ToSet(deps[front[i]]) :
                d \in ToSet(a) \/ \E j \in 1..(i - 1) : front[j] = d
          BY <3>1 DEF deps
        <4> QED
          BY <2>3, <3>2, <4>1, JoinSorted
      <3> QED
        BY <2>7, <3>3 DEF deps, a
    <2>9. Sorted(DepsOf(cs), p.order) => Covers(r, cs, m)
      BY <1>3, <2>3, <2>4, <2>8 DEF Covers
    <2> QED
      BY <1>3, <2>7, <2>8, <2>9 DEF r
  <1> QED
    BY <1>2, <1>3

LEMMA CoversMore ==
    ASSUME NEW p, NEW r, NEW cs, NEW m, Covers(p, cs, m), ToSet(p.order) \subseteq ToSet(r.order)
    PROVE  Covers(r, cs, m)
  BY DEF Covers

\* The plan in the making, after the first i members.
Planned(i, p, members, cs) ==
    /\ p \in Search
    /\ p.failed => \E j \in 1..i : TopologicalSort(members[j], cs).failed
    /\ ~ p.failed =>
        /\ Sorted(DepsOf(cs), p.order)
        /\ \A j \in 1..i : Covers(p, cs, members[j])

LEMMA GroupPlanned ==
    ASSUME NEW cs \in Containers, NEW members \in Order
    PROVE  Planned(Len(members), GroupPlan(members, cs), members, cs)
  <1> DEFINE N == Len(members)
             Turn(i) == [p \in Search |-> GroupTurn(members[i], cs, p)]
             steps == [i \in 1..N |-> Turn(i)]
  <1>1. /\ N \in Nat /\ 0 \in 0..N /\ N \in 0..N /\ DOMAIN members = 1..N
        /\ \A i \in 1..N : members[i] \in Name /\ i \in 0..N /\ i - 1 \in 0..N
    BY DEF Order
  <1>2. GroupPlan(members, cs) = Loop(Begin, steps)
    BY <1>1 DEF GroupPlan, GroupTurn
  <1>3. \A i \in 1..N : Turn(i) \in [Search -> Search]
    BY <1>1, GroupTurnFacts
  <1>4. \A i \in 1..N : \A p \in Search : Turn(i)[p] = GroupTurn(members[i], cs, p)
    OBVIOUS
  <1>5. steps \in Seq([Search -> Search]) /\ Len(steps) = N /\ \A i \in 1..N : steps[i] = Turn(i)
    <2> HIDE DEF Turn
    <2>1. steps \in [1..N -> [Search -> Search]]
      BY <1>3
    <2> QED
      BY <1>1, <2>1
  <1> HIDE DEF Turn, steps
  <1>6. Begin \in Search
    BY BeginFacts
  <1>7. PICK f : IsRun(Search, Begin, steps, f) /\ Loop(Begin, steps) = f[N]
    BY <1>5, <1>6, LoopRuns
  <1>8. /\ \A i \in 0..N : f[i] \in Search
        /\ f[0] = Begin
        /\ \A i \in 1..N : f[i] = GroupTurn(members[i], cs, f[i - 1])
    BY <1>1, <1>4, <1>5, <1>7 DEF IsRun
  <1> DEFINE T == {i \in 0..N : Planned(i, f[i], members, cs)}
  <1>9. 0 \in T
    <2>1. ~ Begin.failed /\ Sorted(DepsOf(cs), Begin.order)
      BY BeginFacts
    <2>2. \A j : j \notin 1..0
      OBVIOUS
    <2> QED
      BY <1>1, <1>6, <1>8, <2>1, <2>2 DEF Planned
  <1>10. ASSUME NEW i \in 1..N, i - 1 \in T
         PROVE  i \in T
    <2> DEFINE p == f[i - 1]
               r == f[i]
    <2>1. p \in Search /\ r = GroupTurn(members[i], cs, p) /\ members[i] \in Name
      BY <1>1, <1>8
    <2>2. Planned(i - 1, p, members, cs)
      BY <1>10
    <2>3. \A j \in 1..i : j \in 1..(i - 1) \/ j = i
      BY <1>1
    <2>4. i \in 1..i /\ \A j \in 1..(i - 1) : j \in 1..i
      BY <1>1
    <2> HIDE DEF p, r
    <2>5. /\ r \in Search
          /\ r.failed <=> p.failed \/ TopologicalSort(members[i], cs).failed
          /\ ~ r.failed /\ Sorted(DepsOf(cs), p.order) =>
                /\ Sorted(DepsOf(cs), r.order)
                /\ ToSet(p.order) \subseteq ToSet(r.order)
                /\ Covers(r, cs, members[i])
      BY <2>1, GroupTurnFacts
    <2>6. CASE r.failed
      <3>1. \E j \in 1..i : TopologicalSort(members[j], cs).failed
        BY <2>2, <2>4, <2>5, <2>6 DEF Planned
      <3> QED
        BY <1>1, <2>5, <2>6, <3>1 DEF Planned, r
    <2>7. CASE ~ r.failed
      <3>1. Sorted(DepsOf(cs), p.order) /\ \A j \in 1..(i - 1) : Covers(p, cs, members[j])
        BY <2>2, <2>5, <2>7 DEF Planned
      <3>2. \A j \in 1..(i - 1) : Covers(r, cs, members[j])
        BY <2>5, <2>7, <3>1, CoversMore
      <3>3. \A j \in 1..i : Covers(r, cs, members[j])
        BY <2>3, <2>5, <2>7, <3>1, <3>2
      <3> QED
        BY <1>1, <2>5, <2>7, <3>1, <3>3 DEF Planned, r
    <2> QED
      BY <2>6, <2>7
  <1>11. 0..N \subseteq T
    <2> HIDE DEF T, N
    <2> QED
      BY <1>1, <1>9, <1>10, LoopInduction
  <1>12. Planned(N, f[N], members, cs)
    BY <1>1, <1>11
  <1> QED
    BY <1>2, <1>7, <1>12

\* The plan of a group fails for a member that does not resolve; otherwise it
\* is complete for all of them.
LEMMA GroupPlanFacts ==
    ASSUME NEW cs \in Containers, NEW members \in Order
    PROVE  /\ GroupPlan(members, cs).order \in Order
           /\ GroupPlan(members, cs).order \o members \in Order
           /\ GroupPlan(members, cs).failed =>
                \E m \in ToSet(members) : m \in Name /\ TopologicalSort(m, cs).failed
           /\ ~ GroupPlan(members, cs).failed =>
                Complete(ToSet(members), cs, GroupPlan(members, cs).order \o members)
  <1> DEFINE p == GroupPlan(members, cs)
             a == p.order
             deps == DepsOf(cs)
             N == Len(members)
  <1>1. Planned(N, p, members, cs)
    BY GroupPlanned
  <1>2. N \in Nat /\ ToSet(members) \subseteq Name /\ \A x : x \in ToSet(members) <=> \E i \in 1..N : members[i] = x
    BY InToSet DEF Order
  <1> HIDE DEF p, N, deps
  <1>3. p \in Search /\ a \in Order
    BY <1>1, SearchTypes DEF Planned
  <1>4. a \o members \in Order
    BY <1>3 DEF Order
  <1>5. p.failed => \E m \in ToSet(members) : m \in Name /\ TopologicalSort(m, cs).failed
    BY <1>1, <1>2 DEF Planned
  <1>6. ASSUME ~ p.failed
        PROVE  Complete(ToSet(members), cs, a \o members)
    <2>1. /\ Sorted(deps, a)
          /\ \A i \in 1..N : /\ ToSet(deps[members[i]]) \subseteq ToSet(a)
                             /\ NeededBy({members[i]}, cs) \subseteq ToSet(a) \cup {members[i]}
      BY <1>1, <1>6 DEF Planned, Covers, deps
    <2> HIDE DEF a
    <2>2. \A i \in 1..Len(members) : \A d \in ToSet(deps[members[i]]) :
            d \in ToSet(a) \/ \E j \in 1..(i - 1) : members[j] = d
      BY <2>1 DEF N
    <2>3. Sorted(deps, a \o members) /\ ToSet(a \o members) = ToSet(a) \cup ToSet(members)
      BY <1>3, <2>1, <2>2, JoinSorted
    <2>4. NeededBy(ToSet(members), cs) = UNION {NeededBy({r}, cs) : r \in ToSet(members)}
      BY <1>2, NeededUnion
    <2>5. \A r \in ToSet(members) : NeededBy({r}, cs) \subseteq ToSet(a) \cup ToSet(members)
      BY <1>2, <2>1
    <2>6. NeededBy(ToSet(members), cs) \subseteq ToSet(a) \cup ToSet(members)
      BY <2>4, <2>5
    <2> QED
      BY <2>3, <2>6 DEF Complete, deps
  <1> QED
    BY <1>3, <1>4, <1>5, <1>6 DEF p

\* On a valid configuration RecordActivityChain reaches what the roots need.
LEMMA ChainFacts ==
    ASSUME NEW c \in GatewayConfig, Validate(c), NEW roots \in SUBSET Name
    PROVE  ActivityChain(roots, c.containers) = NeededBy(roots, c.containers)
  <1> DEFINE cs == c.containers
             Of(r) == LET search == TopologicalSort(r, cs)
                      IN  IF search.failed THEN {r} ELSE ToSet(search.order)
  <1>1. cs \in Containers
    BY DEF GatewayConfig, Containers
  <1>2. ASSUME NEW r \in roots
        PROVE  Of(r) = NeededBy({r}, cs)
    <2>1. r \in Name
      OBVIOUS
    <2>2. CASE TopologicalSort(r, cs).failed
      <3>1. r \notin Names(cs)
        BY <2>1, <2>2, SortFails
      <3>2. DepsOf(cs)[r] = <<>>
        BY <1>1, <2>1, <3>1, NamesType
      <3>3. NeededBy({r}, cs) = {r}
        BY <1>1, <2>1, <3>2, NeededAlone
      <3> QED
        BY <2>2, <3>3
    <2>3. CASE ~ TopologicalSort(r, cs).failed
      <3>1. PICK front : SortsAs(r, cs, front)
        BY <1>1, <2>1, <2>3, SortOrder
      <3>2. /\ front \in Order
            /\ TopologicalSort(r, cs).order = Append(front, r)
            /\ ToSet(front) \cup {r} = NeededBy({r}, cs)
        BY <3>1 DEF SortsAs
      <3>3. ToSet(Append(front, r)) = ToSet(front) \cup {r}
        BY <2>1, <3>2, AppendToSet DEF Order
      <3>4. Of(r) = ToSet(TopologicalSort(r, cs).order)
        BY <2>3
      <3> HIDE DEF Of, cs
      <3> QED
        BY <3>2, <3>3, <3>4
    <2> QED
      BY <2>2, <2>3
  <1>3. ActivityChain(roots, cs) = UNION {Of(r) : r \in roots}
    BY DEF ActivityChain
  <1>4. NeededBy(roots, cs) = UNION {NeededBy({r}, cs) : r \in roots}
    BY <1>1, NeededUnion
  <1> HIDE DEF Of, cs
  <1>5. UNION {Of(r) : r \in roots} = UNION {NeededBy({r}, cs) : r \in roots}
    BY <1>2
  <1> QED
    BY <1>3, <1>4, <1>5 DEF cs

-----------------------------------------------------------------------------
(***************************************************************************)
(* The invariant.  What a request holds comes from configurations in force *)
(* since it came: its entry from one of them, and before a repair its list *)
(* from one, maybe another.  A request for a group has its group, one for  *)
(* a container has none, and there was none for its host at the lookup.    *)
(***************************************************************************)
Single == {"status", "deps", "repair", "start", "activity"}
ForContainer == {"idle", "resolve", "lookup"} \cup Single
ForGroup == {"member", "memberStatus", "groupStart", "groupActivity"}

Origins ==
    /\ config \in Configs /\ since \subseteq Configs
    /\ pc \in ForContainer => group = NoGroup
    /\ pc = "lookup" => GroupsAt(request.host) = {}
    /\ pc \in Single => \E c \in since : entry \in ToSet(c.containers)
    /\ pc = "repair" => \E c \in since : list = c.containers
    /\ pc \in ForGroup => group \in GroupConfig

Answers ==
    /\ PlanOfOneConfig
    /\ FailsOnlyIfRemoved
    /\ NotFoundOnlyIfUnserved
    /\ ActivityReachesChain

ServingInv == ServingTypeOK /\ Origins /\ Answers

LEMMA ServedConfigs ==
    \A c \in Configs : /\ c \in GatewayConfig /\ Validate(c)
                       /\ c.containers \in Containers
                       /\ c.groups \subseteq GroupConfig
  BY ConfigsAssumption DEF GatewayConfig, Containers

\* An entry that comes from a configuration.
LEMMA EntryFacts ==
    ASSUME NEW c \in Configs, NEW k \in ToSet(c.containers)
    PROVE  /\ k \in ContainerConfig /\ k.name \in Name /\ k.deps \in Order
           /\ DepsOf(c.containers)[k.name] = k.deps
  BY ServedConfigs, NamesType, ReferencesFacts

LEMMA GroupFacts ==
    ASSUME NEW g \in GroupConfig
    PROVE  /\ g.members \in Order /\ ToSet(g.members) \in SUBSET Name
           /\ g # NoGroup
  <1>1. g.members \in Order /\ g.host \in Host
    BY DEF GroupConfig, Order
  <1>2. ToSet(g.members) \in SUBSET Name
    BY <1>1, InToSet DEF Order
  <1>3. g # NoGroup
    BY <1>1, NamesAssumption DEF NoGroup
  <1> QED
    BY <1>1, <1>2, <1>3

\* A request that is under way has not been answered.
LEMMA NoAnswer ==
    /\ result = "none" => Answers
    /\ result' = "none" => Answers'
  BY DEF Answers, PlanOfOneConfig, FailsOnlyIfRemoved, NotFoundOnlyIfUnserved, ActivityReachesChain

LEMMA InitServing ==
    Init => ServingInv
  <1> SUFFICES ASSUME Init
               PROVE  ServingInv
    OBVIOUS
  <1>1. config.containers \in Seq(ContainerConfig) /\ config.groups \subseteq GroupConfig
    BY ServedConfigs DEF Init, Containers
  <1>2. <<>> \in Seq(ContainerConfig) /\ <<>> \in Seq(Name) /\ 0 \in 0..MaxReloads
    BY RequestsAssumption
  <1>3. pc \in Location /\ result \in Result /\ pc = "idle" /\ result = "none"
    BY DEF Init, Location, Result
  <1>4. ServingTypeOK
    BY <1>1, <1>2, <1>3 DEF ServingTypeOK, Init
  <1>5. Origins
    BY DEF Origins, Init, ForContainer, Single, ForGroup
  <1>6. Answers
    BY NoAnswer DEF Init
  <1> QED
    BY <1>4, <1>5, <1>6 DEF ServingInv

\* A step of the request, which leaves the configuration alone.
LEMMA StepTyped ==
    ASSUME ServingTypeOK, pc # "idle", UNCHANGED <<server, request>>,
           pc' \in Location, pc' # "idle", result' \in Result, pc' = "done" <=> result' # "none",
           group' \in GroupConfig \cup {NoGroup}, entry' \in ContainerConfig \cup {NoEntry},
           list' \in Seq(ContainerConfig), plan' \in Order, active' \in SUBSET Name
    PROVE  ServingTypeOK'
  BY DEF ServingTypeOK, server, Order

\* What a step knows.
LEMMA UnderWay ==
    ASSUME ServingInv, pc # "idle"
    PROVE  /\ config \in since /\ config \in Configs
           /\ \A c \in since : c \in Configs
           /\ config.containers \in Containers
           /\ list \in Containers /\ plan \in Order /\ active \in SUBSET Name
           /\ group \in GroupConfig \cup {NoGroup}
           /\ entry \in ContainerConfig \cup {NoEntry}
           /\ pc # "done" => result = "none"
  BY DEF ServingInv, ServingTypeOK, Origins, Containers, Order

\* A step after which the request has not been answered.
LEMMA StepOn ==
    ASSUME ServingInv, pc # "idle", pc # "done", UNCHANGED <<server, request, effects, result>>,
           pc' \in Location \ {"idle", "done"},
           group' \in GroupConfig \cup {NoGroup}, entry' \in ContainerConfig \cup {NoEntry},
           list' \in Seq(ContainerConfig), Origins'
    PROVE  ServingInv'
  <1>1. result' = "none" /\ plan' \in Order /\ active' \in SUBSET Name
    BY UnderWay DEF effects
  <1>2. ServingTypeOK'
    BY <1>1, StepTyped DEF ServingInv, Result
  <1> QED
    BY <1>1, <1>2, NoAnswer DEF ServingInv

\* The step that answers it.
LEMMA StepEnds ==
    ASSUME ServingInv, pc # "idle", UNCHANGED <<server, request, group, entry>>,
           pc' = "done", result' \in Result \ {"none"},
           list' \in Seq(ContainerConfig), plan' \in Order, active' \in SUBSET Name, Answers'
    PROVE  ServingInv'
  <1>1. ServingTypeOK'
    <2>1. pc' \in Location /\ result' # "none"
      BY DEF Location
    <2> QED
      BY <2>1, UnderWay, StepTyped DEF ServingInv
  <1>2. Origins'
    BY DEF ServingInv, Origins, server, ForContainer, Single, ForGroup
  <1> QED
    BY <1>1, <1>2 DEF ServingInv

\* Answers that no property asks about.
LEMMA ErrorAnswer ==
    result' = "error" => Answers'
  BY DEF Answers, PlanOfOneConfig, FailsOnlyIfRemoved, NotFoundOnlyIfUnserved, ActivityReachesChain

LEMMA StartedAnswer ==
    ASSUME result' = "started", plan' \in Order,
           \E c \in since' : Complete(Roots', c.containers, plan')
    PROVE  Answers'
  <1>1. PICK c \in since' : Complete(Roots', c.containers, plan')
    OBVIOUS
  <1>2. DOMAIN plan' = 1..Len(plan')
    BY DEF Order
  <1>3. CompleteUnder(c, plan)'
    BY <1>1, <1>2 DEF CompleteUnder, Complete, Sorted
  <1>4. PlanOfOneConfig'
    BY <1>3 DEF PlanOfOneConfig
  <1> QED
    BY <1>4 DEF Answers, FailsOnlyIfRemoved, NotFoundOnlyIfUnserved, ActivityReachesChain

LEMMA FailedAnswer ==
    ASSUME result' \in {"unresolved", "noMember"},
           \E c \in since' : ~ (Roots' \subseteq Names(c.containers))
    PROVE  Answers'
  <1>1. FailsOnlyIfRemoved'
    BY DEF FailsOnlyIfRemoved
  <1> QED
    BY <1>1 DEF Answers, PlanOfOneConfig, NotFoundOnlyIfUnserved, ActivityReachesChain

LEMMA ForwardedAnswer ==
    ASSUME result' = "forwarded",
           \E c \in since' : active' = NeededBy(Roots', c.containers)
    PROVE  Answers'
  <1>1. ActivityReachesChain'
    BY DEF ActivityReachesChain
  <1> QED
    BY <1>1 DEF Answers, PlanOfOneConfig, FailsOnlyIfRemoved, NotFoundOnlyIfUnserved

\* The roots of a request for a container, and of one for a group.
LEMMA RootsFacts ==
    /\ group' = NoGroup => Roots' = {entry'.name}
    /\ group' \in GroupConfig => Roots' = ToSet(group'.members)
  <1>1. group' \in GroupConfig => group' # NoGroup
    BY GroupFacts
  <1> QED
    BY <1>1 DEF Roots

-----------------------------------------------------------------------------
(***************************************************************************)
(* The steps.                                                              *)
(***************************************************************************)
LEMMA ReloadKeeps ==
    ServingInv /\ ReloadConfig => ServingInv'
  <1> SUFFICES ASSUME ServingInv, ReloadConfig
               PROVE  ServingInv'
    OBVIOUS
  <1>1. PICK c \in Pushed : /\ config' = c
                            /\ since' = IF pc = "idle" THEN {} ELSE since \cup {c}
    BY DEF ReloadConfig
  <1>2. c \in Configs /\ c.groups = {} /\ c.containers \in Seq(ContainerConfig)
    BY ServedConfigs DEF Pushed, Containers
  <1>3. /\ pc # "done" /\ UNCHANGED <<pc, request, group, entry, list, plan, active, result>>
        /\ reloads < MaxReloads
        /\ reloads' = IF pc = "idle" THEN 0 ELSE reloads + 1
    BY DEF ReloadConfig, found, effects
  <1>4. reloads' \in 0..MaxReloads
    BY <1>3, RequestsAssumption DEF ServingInv, ServingTypeOK
  <1>5. ServingTypeOK'
    BY <1>1, <1>2, <1>3, <1>4 DEF ServingInv, ServingTypeOK
  <1>6. Origins'
    <2>1. since' \subseteq Configs /\ config' \in Configs
      BY <1>1, <1>2 DEF ServingInv, Origins
    <2>2. GroupsAt(request.host)' = {}
      BY <1>1, <1>2 DEF GroupsAt
    <2>3. pc # "idle" => since \subseteq since'
      BY <1>1
    <2>4. /\ pc \in Single => pc # "idle"
          /\ pc = "repair" => pc # "idle"
      BY DEF Single
    <2>5. pc' \in Single => \E k \in since' : entry' \in ToSet(k.containers)
      BY <1>3, <2>3, <2>4 DEF ServingInv, Origins
    <2>6. pc' = "repair" => \E k \in since' : list' = k.containers
      BY <1>3, <2>3, <2>4 DEF ServingInv, Origins
    <2>7. /\ pc' \in ForContainer => group' = NoGroup
          /\ pc' \in ForGroup => group' \in GroupConfig
      BY <1>3 DEF ServingInv, Origins
    <2> QED
      BY <2>1, <2>2, <2>5, <2>6, <2>7 DEF Origins
  <1>7. result' = "none"
    BY <1>3 DEF ServingInv, ServingTypeOK
  <1> QED
    BY <1>5, <1>6, <1>7, NoAnswer DEF ServingInv

LEMMA ArriveKeeps ==
    ServingInv /\ Arrive => ServingInv'
  <1> SUFFICES ASSUME ServingInv, Arrive
               PROVE  ServingInv'
    OBVIOUS
  <1>1. /\ pc = "idle" /\ pc' = "resolve" /\ request' \in Requests /\ since' = {config} /\ reloads' = 0
        /\ UNCHANGED <<config, group, entry, list, plan, active, result>>
    BY DEF Arrive, Goto, found, effects
  <1>2. request' # NoRequest
    BY <1>1, RequestsAssumption DEF NoRequest
  <1>3. reloads' \in 0..MaxReloads /\ pc' \in Location /\ pc' # "idle" /\ pc' # "done"
    BY <1>1, RequestsAssumption DEF Location
  <1>4. result = "none"
    BY <1>1 DEF ServingInv, ServingTypeOK
  <1>5. ServingTypeOK'
    BY <1>1, <1>2, <1>3, <1>4 DEF ServingInv, ServingTypeOK
  <1>6. Origins'
    BY <1>1 DEF ServingInv, Origins, ForContainer, Single, ForGroup
  <1> QED
    BY <1>1, <1>4, <1>5, <1>6, NoAnswer DEF ServingInv

LEMMA ForgetKeeps ==
    ServingInv /\ Forget => ServingInv'
  <1> SUFFICES ASSUME ServingInv, Forget
               PROVE  ServingInv'
    OBVIOUS
  <1>1. /\ request' = NoRequest /\ group' = NoGroup /\ entry' = NoEntry
        /\ list' = <<>> /\ plan' = <<>> /\ active' = {} /\ since' = {} /\ reloads' = 0
        /\ pc' = "idle" /\ result' = "none" /\ config' = config
    BY DEF Forget
  <1>2. <<>> \in Seq(ContainerConfig) /\ <<>> \in Seq(Name) /\ 0 \in 0..MaxReloads
    BY RequestsAssumption
  <1>3. pc' \in Location /\ result' \in Result
    BY <1>1 DEF Location, Result
  <1>4. ServingTypeOK'
    BY <1>1, <1>2, <1>3 DEF ServingInv, ServingTypeOK
  <1>5. Origins'
    BY <1>1 DEF ServingInv, Origins, ForContainer, Single, ForGroup
  <1> QED
    BY <1>1, <1>4, <1>5, NoAnswer DEF ServingInv

\* Group or container.
LEMMA LookupsKeep ==
    ServingInv /\ (resolveGroup \/ FindEntry \/ NotFound) => ServingInv'
  <1> SUFFICES ASSUME ServingInv, resolveGroup \/ FindEntry \/ NotFound
               PROVE  ServingInv'
    OBVIOUS
  <1>1. pc # "idle" /\ pc # "done" /\ pc \in ForContainer
    BY DEF resolveGroup, FindEntry, NotFound, ForContainer
  <1>2. /\ config \in since /\ config \in Configs /\ result = "none"
        /\ list \in Seq(ContainerConfig) /\ plan \in Order /\ active \in SUBSET Name
        /\ entry \in ContainerConfig \cup {NoEntry} /\ group = NoGroup
    BY <1>1, UnderWay DEF ServingInv, Origins, Containers
  <1>3. config.groups \subseteq GroupConfig /\ config.containers \in Containers
    BY <1>2, ServedConfigs
  <1>4. CASE resolveGroup
    <2>1. /\ UNCHANGED <<server, request, entry, list, effects, result>>
          /\ \/ pc' = "member" /\ group' \in GroupConfig
             \/ pc' = "lookup" /\ group' = NoGroup /\ GroupsAt(request.host) = {}
      BY <1>2, <1>3, <1>4 DEF resolveGroup, Goto, GroupsAt
    <2>2. pc' \in Location \ {"idle", "done"}
      BY <2>1 DEF Location
    <2>3. Origins'
      <3>1. config' = config /\ since' = since /\ request' = request
        BY <2>1 DEF server
      <3>2. GroupsAt(request.host)' = GroupsAt(request.host)
        BY <3>1 DEF GroupsAt
      <3> QED
        BY <2>1, <3>1, <3>2 DEF ServingInv, Origins, ForContainer, Single, ForGroup
    <2> QED
      BY <1>1, <1>2, <2>1, <2>2, <2>3, StepOn
  <1>5. CASE FindEntry
    <2>1. /\ UNCHANGED <<server, request, group, list, effects, result>>
          /\ pc' = "status" /\ entry' \in ToSet(config.containers)
      BY <1>5 DEF FindEntry, Goto, EntriesFor
    <2>2. pc' \in Location \ {"idle", "done"}
      BY <2>1 DEF Location
    <2>3. entry' \in ContainerConfig
      BY <1>2, <2>1, EntryFacts
    <2>4. Origins'
      BY <1>2, <2>1 DEF ServingInv, Origins, ForContainer, Single, ForGroup, server
    <2> QED
      BY <1>1, <1>2, <2>1, <2>2, <2>3, <2>4, StepOn
  <1>6. CASE NotFound
    <2>1. /\ UNCHANGED <<server, request, group, entry, list, plan, active>>
          /\ pc = "lookup" /\ pc' = "done" /\ result' = "notFound" /\ EntriesFor(request) = {}
      BY <1>6 DEF NotFound, End, found, effects
    <2>2. ~ ServedBy(config, request)
      <3>1. \A g \in config.groups : g.host # request.host
        BY <2>1 DEF ServingInv, Origins, GroupsAt
      <3>2. request.host # NoHost
        <4>1. request \in Requests
          BY <1>1 DEF ServingInv, ServingTypeOK
        <4> QED
          BY <4>1, RequestsAssumption
      <3>3. \A k \in ToSet(config.containers) : k.host # request.host /\ k.name # request.container
        BY <2>1, <3>2 DEF EntriesFor
      <3> QED
        BY <3>1, <3>3 DEF ServedBy
    <2>3. config' = config /\ since' = since /\ request' = request
      BY <2>1 DEF server
    <2>4. NotFoundOnlyIfUnserved'
      BY <1>2, <2>2, <2>3 DEF NotFoundOnlyIfUnserved
    <2>5. Answers'
      BY <2>1, <2>4 DEF Answers, PlanOfOneConfig, FailsOnlyIfRemoved, ActivityReachesChain
    <2>6. result' \in Result \ {"none"}
      BY <2>1 DEF Result
    <2> QED
      BY <1>1, <1>2, <2>1, <2>5, <2>6, StepEnds
  <1> QED
    BY <1>4, <1>5, <1>6

\* The steps of a request for a container.
LEMMA StatusKeeps ==
    ServingInv /\ (Status \/ CheckDeps) => ServingInv'
  <1> SUFFICES ASSUME ServingInv, Status \/ CheckDeps
               PROVE  ServingInv'
    OBVIOUS
  <1>1. pc # "idle" /\ pc # "done" /\ pc \in Single
    BY DEF Status, CheckDeps, Single
  <1>2. /\ config \in since /\ config.containers \in Seq(ContainerConfig) /\ result = "none"
        /\ list \in Seq(ContainerConfig) /\ plan \in Order /\ active \in SUBSET Name
        /\ entry \in ContainerConfig \cup {NoEntry} /\ group = NoGroup
        /\ \E c \in since : entry \in ToSet(c.containers)
    BY <1>1, UnderWay DEF ServingInv, Origins, Containers, ForContainer
  <1>3. CASE Status
    <2>1. UNCHANGED <<server, request, group, entry, list, plan, active>>
      BY <1>3 DEF Status, found, effects
    <2>2. CASE pc' = "done" /\ result' = "error"
      BY <1>1, <1>2, <2>1, <2>2, ErrorAnswer, StepEnds DEF Result
    <2>3. CASE pc' \in {"activity", "deps", "start"} /\ UNCHANGED result
      <3>1. Origins'
        BY <1>2, <2>1, <2>3 DEF ServingInv, Origins, ForContainer, Single, ForGroup, server
      <3>2. pc' \in Location \ {"idle", "done"}
        BY <2>3 DEF Location
      <3> QED
        BY <1>1, <1>2, <2>1, <2>3, <3>1, <3>2, StepOn DEF effects
    <2> QED
      BY <1>3, <2>2, <2>3 DEF Status, End, Goto
  <1>4. CASE CheckDeps
    <2>1. /\ UNCHANGED <<server, request, group, entry, effects, result>>
          /\ list' = config.containers
          /\ pc' \in {"activity", "repair"}
      BY <1>4 DEF CheckDeps, Goto
    <2>2. Origins'
      BY <1>2, <2>1 DEF ServingInv, Origins, ForContainer, Single, ForGroup, server
    <2>3. pc' \in Location \ {"idle", "done"}
      BY <2>1 DEF Location
    <2> QED
      BY <1>1, <1>2, <2>1, <2>2, <2>3, StepOn
  <1> QED
    BY <1>3, <1>4

LEMMA RepairKeeps ==
    ServingInv /\ Repair => ServingInv'
  <1> SUFFICES ASSUME ServingInv, Repair
               PROVE  ServingInv'
    OBVIOUS
  <1>1. pc = "repair"
    BY DEF Repair
  <1>2. /\ \A c \in since : c \in Configs
        /\ list \in Seq(ContainerConfig) /\ plan \in Order /\ active \in SUBSET Name
        /\ entry \in ContainerConfig \cup {NoEntry} /\ group = NoGroup
        /\ \E c \in since : entry \in ToSet(c.containers)
        /\ \E c \in since : list = c.containers
    BY <1>1, UnderWay DEF ServingInv, Origins, Containers, ForContainer, Single
  <1>3. PICK c \in since : list = c.containers
    BY <1>2
  <1>4. c \in GatewayConfig /\ Validate(c) /\ list \in Containers
    BY <1>2, <1>3, ServedConfigs
  <1>5. entry.name \in Name
    BY <1>2, EntryFacts
  <1>6. UNCHANGED <<server, request, group, entry, list, active>> /\ since' = since
    BY DEF Repair, found, server
  <1>7. Roots' = {entry.name}
    BY <1>2, <1>6, RootsFacts
  <1>8. CASE TopologicalSort(entry.name, list).failed
    <2>1. pc' = "done" /\ result' = "unresolved" /\ plan' = plan
      BY <1>8 DEF Repair, End
    <2>2. entry.name \notin Names(c.containers)
      BY <1>3, <1>4, <1>5, <1>8, SortFails
    <2>3. Answers'
      BY <1>6, <1>7, <2>1, <2>2, FailedAnswer
    <2> QED
      BY <1>1, <1>2, <1>6, <2>1, <2>3, StepEnds DEF Result
  <1>9. CASE ~ TopologicalSort(entry.name, list).failed
    <2>1. pc' = "done" /\ result' = "started" /\ plan' = DepsInOrder(entry.name, list)
      BY <1>9 DEF Repair, End
    <2>2. plan' \in Order /\ Complete({entry.name}, list, plan')
      BY <1>4, <1>5, <1>9, <2>1, SinglePlan
    <2>3. Answers'
      BY <1>3, <1>6, <1>7, <2>1, <2>2, StartedAnswer
    <2> QED
      BY <1>1, <1>2, <1>6, <2>1, <2>2, <2>3, StepEnds DEF Result
  <1> QED
    BY <1>8, <1>9

LEMMA StartKeeps ==
    ServingInv /\ Start => ServingInv'
  <1> SUFFICES ASSUME ServingInv, Start
               PROVE  ServingInv'
    OBVIOUS
  <1>1. pc = "start"
    BY DEF Start
  <1>2. /\ \A c \in since : c \in Configs
        /\ config \in since /\ config \in Configs
        /\ plan \in Order /\ active \in SUBSET Name /\ group = NoGroup
        /\ \E c \in since : entry \in ToSet(c.containers)
    BY <1>1, UnderWay DEF ServingInv, Origins, ForContainer, Single
  <1>3. PICK c \in since : entry \in ToSet(c.containers)
    BY <1>2
  <1>4. entry.name \in Name /\ DepsOf(c.containers)[entry.name] = entry.deps
    BY <1>2, <1>3, EntryFacts
  <1>5. /\ UNCHANGED <<server, request, group, entry, active>> /\ since' = since
        /\ list' = config.containers
    BY DEF Start, server
  <1>6. /\ config \in GatewayConfig /\ Validate(config) /\ config.containers \in Containers
        /\ c.containers \in Containers /\ list' \in Seq(ContainerConfig)
    BY <1>2, <1>3, <1>5, ServedConfigs DEF Containers
  <1>7. Roots' = {entry.name}
    BY <1>2, <1>5, RootsFacts
  <1>8. CASE entry.deps # <<>> /\ TopologicalSort(entry.name, config.containers).failed
    <2>1. pc' = "done" /\ result' = "unresolved" /\ plan' = plan
      BY <1>5, <1>8 DEF Start, End
    <2>2. entry.name \notin Names(config.containers)
      BY <1>4, <1>6, <1>8, SortFails
    <2>3. Answers'
      BY <1>2, <1>5, <1>7, <2>1, <2>2, FailedAnswer
    <2> QED
      BY <1>1, <1>2, <1>5, <1>6, <2>1, <2>3, StepEnds DEF Result
  <1>9. CASE entry.deps # <<>> /\ ~ TopologicalSort(entry.name, config.containers).failed
    <2>1. /\ pc' = "done" /\ result' = "started"
          /\ plan' = Append(DepsInOrder(entry.name, config.containers), entry.name)
      BY <1>5, <1>9 DEF Start, End
    <2>2. plan' \in Order /\ Complete({entry.name}, config.containers, plan')
      BY <1>4, <1>6, <1>9, <2>1, SinglePlan
    <2>3. Answers'
      BY <1>2, <1>5, <1>7, <2>1, <2>2, StartedAnswer
    <2> QED
      BY <1>1, <1>2, <1>5, <1>6, <2>1, <2>2, <2>3, StepEnds DEF Result
  <1>10. CASE entry.deps = <<>>
    <2>1. pc' = "done" /\ result' = "started" /\ plan' = <<entry.name>>
      BY <1>5, <1>10 DEF Start, End
    <2>2. plan' \in Order /\ Complete({entry.name}, c.containers, plan')
      BY <1>4, <1>6, <1>10, <2>1, LonePlan
    <2>3. Answers'
      BY <1>3, <1>5, <1>7, <2>1, <2>2, StartedAnswer
    <2> QED
      BY <1>1, <1>2, <1>5, <1>6, <2>1, <2>2, <2>3, StepEnds DEF Result
  <1> QED
    BY <1>8, <1>9, <1>10

LEMMA RecordActivityKeeps ==
    ServingInv /\ RecordActivity => ServingInv'
  <1> SUFFICES ASSUME ServingInv, RecordActivity
               PROVE  ServingInv'
    OBVIOUS
  <1>1. pc = "activity"
    BY DEF RecordActivity
  <1>2. /\ \A c \in since : c \in Configs
        /\ config \in since /\ config \in Configs
        /\ plan \in Order /\ group = NoGroup
        /\ \E c \in since : entry \in ToSet(c.containers)
    BY <1>1, UnderWay DEF ServingInv, Origins, ForContainer, Single
  <1>3. {entry.name} \in SUBSET Name
    BY <1>2, EntryFacts
  <1>4. /\ UNCHANGED <<server, request, group, entry, plan>> /\ since' = since
        /\ list' = config.containers
        /\ active' = ActivityChain({entry.name}, config.containers)
        /\ pc' = "done" /\ result' = "forwarded"
    BY DEF RecordActivity, server, End
  <1>5. config \in GatewayConfig /\ Validate(config) /\ config.containers \in Containers
    BY <1>2, ServedConfigs
  <1>6. /\ active' = NeededBy({entry.name}, config.containers)
        /\ active' \in SUBSET Name /\ list' \in Seq(ContainerConfig)
    <2>1. ActivityChain({entry.name}, config.containers) = NeededBy({entry.name}, config.containers)
      BY <1>3, <1>5, ChainFacts
    <2>2. NeededBy({entry.name}, config.containers) \in SUBSET Name
      BY <1>3, <1>5, NeededFacts
    <2> QED
      BY <1>4, <1>5, <2>1, <2>2 DEF Containers
  <1>7. Roots' = {entry.name}
    BY <1>2, <1>4, RootsFacts
  <1>8. Answers'
    BY <1>2, <1>4, <1>6, <1>7, ForwardedAnswer
  <1> QED
    BY <1>1, <1>2, <1>4, <1>6, <1>8, StepEnds DEF Result

\* The steps of a request for a group.
LEMMA MemberKeeps ==
    ServingInv /\ (FindMember \/ NoMember \/ MemberStatus) => ServingInv'
  <1> SUFFICES ASSUME ServingInv, FindMember \/ NoMember \/ MemberStatus
               PROVE  ServingInv'
    OBVIOUS
  <1>1. pc # "idle" /\ pc # "done" /\ pc \in ForGroup
    BY DEF FindMember, NoMember, MemberStatus, ForGroup
  <1>2. /\ config \in since /\ config \in Configs /\ config.containers \in Containers
        /\ list \in Seq(ContainerConfig) /\ plan \in Order /\ active \in SUBSET Name
        /\ entry \in ContainerConfig \cup {NoEntry} /\ group \in GroupConfig
        /\ result = "none"
    BY <1>1, UnderWay DEF ServingInv, Origins, Containers
  <1>3. CASE FindMember
    <2>1. /\ UNCHANGED <<server, request, group, list, effects, result>>
          /\ pc' = "memberStatus"
          /\ \E m \in Names(config.containers) : entry' = ByName(config.containers, m)
      BY <1>3 DEF FindMember, Goto
    <2>2. entry' \in ContainerConfig
      BY <1>2, <2>1, NamesType
    <2>3. Origins'
      BY <1>2, <2>1 DEF ServingInv, Origins, ForContainer, Single, ForGroup, server
    <2>4. pc' \in Location \ {"idle", "done"}
      BY <2>1 DEF Location
    <2> QED
      BY <1>1, <1>2, <2>1, <2>2, <2>3, <2>4, StepOn
  <1>4. CASE NoMember
    <2>1. /\ UNCHANGED <<server, request, group, entry, list, plan, active>> /\ since' = since
          /\ pc' = "done" /\ result' = "noMember"
          /\ ~ (ToSet(group.members) \subseteq Names(config.containers))
      BY <1>4 DEF NoMember, End, found, effects, server
    <2>2. Roots' = ToSet(group.members)
      BY <1>2, <2>1, RootsFacts
    <2>3. Answers'
      BY <1>2, <2>1, <2>2, FailedAnswer
    <2> QED
      BY <1>1, <1>2, <2>1, <2>3, StepEnds DEF Result
  <1>5. CASE MemberStatus
    <2>1. /\ UNCHANGED <<server, request, group, entry, list, effects, result>>
          /\ pc' \in {"groupStart", "groupActivity"}
      BY <1>5 DEF MemberStatus, Goto, found
    <2>2. Origins'
      BY <1>2, <2>1 DEF ServingInv, Origins, ForContainer, Single, ForGroup, server
    <2>3. pc' \in Location \ {"idle", "done"}
      BY <2>1 DEF Location
    <2> QED
      BY <1>1, <1>2, <2>1, <2>2, <2>3, StepOn
  <1> QED
    BY <1>3, <1>4, <1>5

LEMMA StartGroupKeeps ==
    ServingInv /\ StartGroup => ServingInv'
  <1> SUFFICES ASSUME ServingInv, StartGroup
               PROVE  ServingInv'
    OBVIOUS
  <1> DEFINE members == group.members
             p == GroupPlan(members, config.containers)
  <1>1. pc = "groupStart"
    BY DEF StartGroup
  <1>2. /\ config \in since /\ config \in Configs
        /\ active \in SUBSET Name /\ group \in GroupConfig
    BY <1>1, UnderWay DEF ServingInv, Origins, ForGroup
  <1>3. /\ UNCHANGED <<server, request, group, entry, active>> /\ since' = since
        /\ list' = config.containers /\ pc' = "done"
        /\ IF p.failed THEN result' = "unresolved" /\ plan' = p.order
                       ELSE result' = "started" /\ plan' = p.order \o members
    BY DEF StartGroup, server, End
  <1>4. /\ config \in GatewayConfig /\ Validate(config) /\ config.containers \in Containers
        /\ list' \in Seq(ContainerConfig)
    BY <1>2, <1>3, ServedConfigs DEF Containers
  <1>5. members \in Order /\ Roots' = ToSet(members)
    BY <1>2, <1>3, GroupFacts, RootsFacts
  <1>6. /\ p.order \in Order /\ p.order \o members \in Order
        /\ p.failed => \E m \in ToSet(members) :
                            m \in Name /\ TopologicalSort(m, config.containers).failed
        /\ ~ p.failed => Complete(ToSet(members), config.containers, p.order \o members)
    <2> DEFINE cs == config.containers
    <2>1. cs \in Containers
      BY <1>4
    <2> HIDE DEF members, cs
    <2> QED
      BY <1>5, <2>1, GroupPlanFacts DEF cs
  <1> HIDE DEF members, p
  <1>7. CASE p.failed
    <2>1. PICK m \in ToSet(members) : m \in Name /\ TopologicalSort(m, config.containers).failed
      BY <1>6, <1>7
    <2>2. m \notin Names(config.containers)
      BY <1>4, <2>1, SortFails
    <2>3. result' = "unresolved" /\ plan' \in Order
      BY <1>3, <1>6, <1>7
    <2>4. ~ (Roots' \subseteq Names(config.containers))
      BY <1>5, <2>1, <2>2
    <2>5. Answers'
      BY <1>2, <1>3, <2>3, <2>4, FailedAnswer
    <2> QED
      BY <1>1, <1>2, <1>3, <1>4, <2>3, <2>5, StepEnds DEF Result
  <1>8. CASE ~ p.failed
    <2>1. result' = "started" /\ plan' \in Order /\ Complete(Roots', config.containers, plan')
      BY <1>3, <1>5, <1>6, <1>8
    <2>2. Answers'
      BY <1>2, <1>3, <2>1, StartedAnswer
    <2> QED
      BY <1>1, <1>2, <1>3, <1>4, <2>1, <2>2, StepEnds DEF Result
  <1> QED
    BY <1>7, <1>8

LEMMA RecordGroupActivityKeeps ==
    ServingInv /\ RecordGroupActivity => ServingInv'
  <1> SUFFICES ASSUME ServingInv, RecordGroupActivity
               PROVE  ServingInv'
    OBVIOUS
  <1> DEFINE members == ToSet(group.members)
  <1>1. pc = "groupActivity"
    BY DEF RecordGroupActivity
  <1>2. config \in since /\ config \in Configs /\ plan \in Order /\ group \in GroupConfig
    BY <1>1, UnderWay DEF ServingInv, Origins, ForGroup
  <1>3. /\ UNCHANGED <<server, request, group, entry, plan>> /\ since' = since
        /\ list' = config.containers
        /\ active' = ActivityChain(members, config.containers)
        /\ pc' = "done" /\ result' = "forwarded"
    BY DEF RecordGroupActivity, server, End
  <1>4. config \in GatewayConfig /\ Validate(config) /\ config.containers \in Containers
    BY <1>2, ServedConfigs
  <1>5. members \in SUBSET Name /\ Roots' = members
    BY <1>2, <1>3, GroupFacts, RootsFacts
  <1> HIDE DEF members
  <1>6. /\ active' = NeededBy(members, config.containers)
        /\ active' \in SUBSET Name /\ list' \in Seq(ContainerConfig)
    <2>1. ActivityChain(members, config.containers) = NeededBy(members, config.containers)
      BY <1>4, <1>5, ChainFacts
    <2>2. NeededBy(members, config.containers) \in SUBSET Name
      BY <1>4, <1>5, NeededFacts
    <2> QED
      BY <1>3, <1>4, <2>1, <2>2 DEF Containers
  <1>7. Answers'
    BY <1>2, <1>3, <1>5, <1>6, ForwardedAnswer
  <1> QED
    BY <1>1, <1>2, <1>3, <1>6, <1>7, StepEnds DEF Result

LEMMA ServingInductive ==
    ServingInv /\ [Next]_vars => ServingInv'
  <1> SUFFICES ASSUME ServingInv, [Next]_vars
               PROVE  ServingInv'
    OBVIOUS
  <1>1. CASE Next
    BY <1>1, ReloadKeeps, ArriveKeeps, ForgetKeeps, LookupsKeep, StatusKeeps, RepairKeeps,
       StartKeeps, RecordActivityKeeps, MemberKeeps, StartGroupKeeps, RecordGroupActivityKeeps
       DEF Next, Handle
  <1>2. CASE UNCHANGED vars
    <2>1. UNCHANGED <<config, pc, request, group, entry, list, plan, active, result, since, reloads>>
      BY <1>2 DEF vars
    <2>2. ServingTypeOK'
      BY <2>1 DEF ServingInv, ServingTypeOK
    <2>3. Origins'
      <3>1. GroupsAt(request.host)' = GroupsAt(request.host)
        BY <2>1 DEF GroupsAt
      <3> QED
        BY <2>1, <3>1 DEF ServingInv, Origins
    <2>4. Roots' = Roots
      BY <2>1 DEF Roots
    <2>5. Answers'
      BY <2>1, <2>4 DEF ServingInv, Answers, PlanOfOneConfig, FailsOnlyIfRemoved,
                        NotFoundOnlyIfUnserved, ActivityReachesChain, CompleteUnder
    <2> QED
      BY <2>2, <2>3, <2>5 DEF ServingInv
  <1> QED
    BY <1>1, <1>2

LEMMA ServingInvariant ==
    Spec => []ServingInv
  BY InitServing, ServingInductive, PTL DEF Spec

-----------------------------------------------------------------------------
(***************************************************************************)
(* The theorems.                                                           *)
(***************************************************************************)
\* Every state of a request and of the configuration has its types.
THEOREM ServingTyped == Spec => []ServingTypeOK
  <1>1. ServingInv => ServingTypeOK
    BY DEF ServingInv
  <1> QED
    BY <1>1, ServingInvariant, PTL

\* config.go:340-381: no configuration that the server ever has contains a
\* dependency cycle.
THEOREM ServedAcyclicAlways == Spec => []ServedAcyclic
  <1>1. ServingInv => ServedAcyclic
    BY ServedConfigs, ValidAcyclic DEF ServingInv, Origins, ServedAcyclic
  <1> QED
    BY <1>1, ServingInvariant, PTL

\* server.go:320 and 367: whatever is reloaded under a request, what it starts
\* is complete and in order for one configuration that was in force meanwhile.
THEOREM PlanOfOneConfigAlways == Spec => []PlanOfOneConfig
  <1>1. ServingInv => PlanOfOneConfig
    BY DEF ServingInv, Answers
  <1> QED
    BY <1>1, ServingInvariant, PTL

\* manager.go:219-222 and 90-121: resolution fails, and a member is missing,
\* only for names that a reload took away.
THEOREM FailsOnlyIfRemovedAlways == Spec => []FailsOnlyIfRemoved
  <1>1. ServingInv => FailsOnlyIfRemoved
    BY DEF ServingInv, Answers
  <1> QED
    BY <1>1, ServingInvariant, PTL

\* server.go:220-257: a request is not found only if a configuration in force
\* meanwhile had neither a group nor a container for it.
THEOREM NotFoundOnlyIfUnservedAlways == Spec => []NotFoundOnlyIfUnserved
  <1>1. ServingInv => NotFoundOnlyIfUnserved
    BY DEF ServingInv, Answers
  <1> QED
    BY <1>1, ServingInvariant, PTL

\* manager.go:84-89: forwarding keeps all that the container needs awake, as
\* one configuration in force meanwhile has it.
THEOREM ActivityReachesChainAlways == Spec => []ActivityReachesChain
  <1>1. ServingInv => ActivityReachesChain
    BY DEF ServingInv, Answers
  <1> QED
    BY <1>1, ServingInvariant, PTL

-----------------------------------------------------------------------------
(***************************************************************************)
(* Part 3: Discovery.                                                      *)
(***************************************************************************)

PC == {"off", "idle", "list", "merge", "compare", "push", "sync"}

Listing == {DiscoverLabeledContainers(l) : l \in LabelLists}

(***************************************************************************)
(* Types.  A thread in the middle of a pass has what the pass built so     *)
(* far: a listing before the merge, a configuration after it.              *)
(***************************************************************************)
InPass ==
    \A t \in Thread :
        /\ stage[t] = "merge" => listing[t] \in Listing
        /\ stage[t] \in {"compare", "push"} => merged[t] \in Config

DiscoveryTypeInv == DiscoveryTypeOK /\ InPass

\* The end of a pass leaves the other threads in their passes.
LEMMA EndPassLeaves ==
    ASSUME DiscoveryTypeOK, NEW t \in Thread, EndPass(t)
    PROVE  /\ \A u \in Thread :
                \/ stage'[u] \in {"idle", "sync"}
                \/ u # t /\ stage'[u] = stage[u]
           /\ \A u \in Thread \ {t} : listing'[u] = listing[u] /\ merged'[u] = merged[u]
  BY DEF EndPass, DiscoveryTypeOK, Thread

\* The end of a pass keeps the types of what the pass owns.
LEMMA EndPassType ==
    ASSUME DiscoveryTypeInv, NEW t \in Thread, EndPass(t)
    PROVE  /\ stage' \in [Thread -> PC]
           /\ listing' \in [Thread -> Listing \cup {<<>>}]
           /\ merged' \in [Thread -> Config \cup {None}]
           /\ InPass'
  <1>1. InPass'
    BY EndPassLeaves DEF DiscoveryTypeInv, InPass, Listing, Config
  <1> QED
    BY <1>1 DEF DiscoveryTypeInv, EndPass, DiscoveryTypeOK, Listing, Thread, PC

LEMMA DiscoveryTypeInit == DiscoveryInit => DiscoveryTypeInv
  BY MaxChangesAssumption DEF DiscoveryInit, DiscoveryTypeInv, DiscoveryTypeOK, InPass, Config, Thread

LEMMA DiscoveryTypeStep == DiscoveryTypeInv /\ [DiscoveryNext]_discovery => DiscoveryTypeInv'
  <1> SUFFICES ASSUME DiscoveryTypeInv, [DiscoveryNext]_discovery
               PROVE  DiscoveryTypeInv'
    OBVIOUS
  <1> USE DEF DiscoveryTypeInv
  <1>1. ASSUME NEW t \in Thread, List(t)
        PROVE  DiscoveryTypeInv'
    <2>1. listing'[t] \in Listing
      BY <1>1 DEF List, DiscoveryTypeOK, Listing
    <2> QED
      BY <1>1, <2>1 DEF List, Enter, outside, DiscoveryTypeOK, InPass, Config, Listing
  <1>2. ASSUME NEW t \in Thread, ListFails(t)
        PROVE  DiscoveryTypeInv'
    BY <1>2, EndPassType DEF ListFails, outside, DiscoveryTypeOK, Config, Listing, PC
  <1>3. ASSUME NEW t \in Thread, MergeConfigs(t)
        PROVE  DiscoveryTypeInv'
    <2> DEFINE new == Merge(staticConfig, listing[t])
    <2>1. new \in Config
      BY <1>3 DEF MergeConfigs, DiscoveryTypeOK, InPass, Listing, Config
    <2> HIDE DEF new
    <2>2. CASE Validate(new)
      <3>1. /\ merged' = [merged EXCEPT ![t] = new]
            /\ stage' = [stage EXCEPT ![t] = "compare"]
            /\ UNCHANGED <<file, labels, changes, staticConfig, lastConfig,
                           served, jobs, listing>>
        BY <1>3, <2>2 DEF MergeConfigs, Enter, outside, new
      <3> QED
        BY <2>1, <3>1 DEF DiscoveryTypeOK, InPass, Config, Listing
    <2>3. CASE ~Validate(new)
      <3>1. /\ EndPass(t)
            /\ UNCHANGED <<file, labels, changes, staticConfig, lastConfig,
                           served, jobs>>
        BY <1>3, <2>3 DEF MergeConfigs, outside, new
      <3> QED
        BY <3>1, EndPassType DEF DiscoveryTypeOK, Config, Listing, PC
    <2> QED
      BY <2>2, <2>3
  <1>4. ASSUME NEW t \in Thread, Unchanged(t)
        PROVE  DiscoveryTypeInv'
    BY <1>4, EndPassType DEF Unchanged, outside, DiscoveryTypeOK, Config, Listing, PC
  <1>5. ASSUME NEW t \in Thread, Changed(t)
        PROVE  DiscoveryTypeInv'
    BY <1>5 DEF Changed, Enter, outside, DiscoveryTypeOK, InPass, Config, Listing
  <1>6. ASSUME NEW t \in Thread, Push(t)
        PROVE  DiscoveryTypeInv'
    <2>1. merged[t] \in Config
      BY <1>6 DEF Push, InPass
    <2>2. served' \in Config /\ jobs' \subseteq UNION {Scheduled(c) : c \in Config}
      BY <1>6, <2>1 DEF Push
    <2>3. UNCHANGED <<file, labels, changes, staticConfig, lastConfig>> /\ EndPass(t)
      BY <1>6 DEF Push, outside
    <2> QED
      BY <2>2, <2>3, EndPassType DEF DiscoveryTypeOK, Config, Listing, PC
  <1>7. CASE TickerFires
    <2>1. /\ stage' = [stage EXCEPT !["ticker"] = "list"]
          /\ UNCHANGED <<file, labels, changes, staticConfig, lastConfig,
                         served, jobs, listing, merged>>
      BY <1>7 DEF TickerFires, Enter, outside
    <2>2. stage' \in [Thread -> PC]
      BY <2>1 DEF DiscoveryTypeOK, PC
    <2>3. InPass'
      BY <2>1 DEF DiscoveryTypeOK, InPass, Config, Listing
    <2> QED
      BY <2>1, <2>2, <2>3 DEF DiscoveryTypeOK, Config, PC
  <1>8. CASE SyncAtStartup
    <2>1. jobs' \subseteq UNION {Scheduled(c) : c \in Config}
      BY <1>8 DEF SyncAtStartup, DiscoveryTypeOK, Config
    <2>2. /\ stage' = [stage EXCEPT !["main"] = "off", !["signal"] = "idle"]
          /\ UNCHANGED <<file, labels, changes, staticConfig, lastConfig,
                         served, listing, merged>>
      BY <1>8 DEF SyncAtStartup, outside
    <2>3. stage' \in [Thread -> PC]
      BY <2>2 DEF DiscoveryTypeOK, PC
    <2>4. InPass'
      BY <2>2 DEF DiscoveryTypeOK, InPass, Config, Listing
    <2> QED
      BY <2>1, <2>2, <2>3, <2>4 DEF DiscoveryTypeOK, Config, PC
  <1>9. CASE Sighup
    <2>1. /\ staticConfig' = file /\ lastConfig' = None
          /\ stage' = [stage EXCEPT !["signal"] = "list"]
          /\ UNCHANGED <<file, labels, changes, served, jobs, listing, merged>>
      BY <1>9 DEF Sighup, Enter, outside
    <2>2. stage' \in [Thread -> PC]
      BY <2>1 DEF DiscoveryTypeOK, PC
    <2>3. InPass'
      BY <2>1 DEF DiscoveryTypeOK, InPass, Config, Listing
    <2> QED
      BY <2>1, <2>2, <2>3 DEF DiscoveryTypeOK, Config, PC
  <1>10. CASE Edit
    BY <1>10, MaxChangesAssumption DEF Edit, DiscoveryTypeOK, InPass, Config, Listing
  <1>11. CASE UNCHANGED discovery
    BY <1>11 DEF discovery, DiscoveryTypeOK, InPass, Config, Listing
  <1> QED
    BY <1>1, <1>2, <1>3, <1>4, <1>5, <1>6, <1>7, <1>8, <1>9, <1>10, <1>11
       DEF DiscoveryNext, Proceed

\* Whatever the file and the labels become and whichever passes overlap,
\* main.go, the ticker and the signals keep every variable in its range.
THEOREM DiscoveryTypeCorrect == DiscoverySpec => []DiscoveryTypeOK
  <1>1. DiscoveryTypeInv => DiscoveryTypeOK
    BY DEF DiscoveryTypeInv
  <1> QED
    BY DiscoveryTypeInit, DiscoveryTypeStep, <1>1, PTL DEF DiscoverySpec

-----------------------------------------------------------------------------
(***************************************************************************)
(* Validation.  A merge gets past "merge" only if it is valid, so every    *)
(* configuration on its way to the server is, whichever passes overlap.    *)
(***************************************************************************)
ServedValid == Validate(served)

InPassValid ==
    \A t \in Thread : stage[t] \in {"compare", "push"} =>
        Validate(merged[t]) /\ merged[t].groups = {}

ValidInv == ServedValid /\ InPassValid

LEMMA ValidStep == DiscoveryTypeInv /\ ValidInv /\ [DiscoveryNext]_discovery => ValidInv'
  <1> SUFFICES ASSUME DiscoveryTypeInv, ValidInv, [DiscoveryNext]_discovery
               PROVE  ValidInv'
    OBVIOUS
  <1>0. DiscoveryTypeOK
    BY DEF DiscoveryTypeInv
  <1>1. ASSUME NEW t \in Thread, EndPass(t), served' = served
        PROVE  ValidInv'
    BY <1>0, <1>1, EndPassLeaves DEF ValidInv, ServedValid, InPassValid
  <1>2. ASSUME NEW t \in Thread, MergeConfigs(t)
        PROVE  ValidInv'
    <2> DEFINE new == Merge(staticConfig, listing[t])
    <2>1. CASE Validate(new)
      <3>1. /\ merged' = [merged EXCEPT ![t] = new]
            /\ stage' = [stage EXCEPT ![t] = "compare"]
            /\ served' = served
        BY <1>2, <2>1 DEF MergeConfigs, Enter
      <3>2. new.groups = {}
        BY DEF Merge
      <3> HIDE DEF new
      <3> QED
        BY <1>0, <2>1, <3>1, <3>2 DEF DiscoveryTypeOK, ValidInv, ServedValid, InPassValid
    <2>2. CASE ~Validate(new)
      BY <1>1, <1>2, <2>2 DEF MergeConfigs
    <2> QED
      BY <2>1, <2>2
  <1>3. ASSUME NEW t \in Thread, Push(t)
        PROVE  ValidInv'
    BY <1>0, <1>3, EndPassLeaves DEF Push, ValidInv, ServedValid, InPassValid
  <1>4. ASSUME NEW t \in Thread, List(t) \/ Changed(t)
        PROVE  ValidInv'
    BY <1>0, <1>4 DEF List, Changed, Enter, DiscoveryTypeOK, ValidInv, ServedValid, InPassValid
  <1>5. CASE TickerFires
    BY <1>0, <1>5 DEF TickerFires, Enter, DiscoveryTypeOK, ValidInv, ServedValid, InPassValid
  <1>6. CASE SyncAtStartup
    BY <1>0, <1>6 DEF SyncAtStartup, DiscoveryTypeOK, ValidInv, ServedValid, InPassValid
  <1>7. CASE Sighup
    BY <1>0, <1>7 DEF Sighup, Enter, DiscoveryTypeOK, ValidInv, ServedValid, InPassValid
  <1>8. CASE Edit \/ UNCHANGED discovery
    BY <1>8 DEF Edit, discovery, ValidInv, ServedValid, InPassValid
  <1> QED
    BY <1>1, <1>2, <1>3, <1>4, <1>5, <1>6, <1>7, <1>8
       DEF DiscoveryNext, Proceed, ListFails, Unchanged

-----------------------------------------------------------------------------
(***************************************************************************)
(* What discovery makes of the file and the labels is a configuration, so  *)
(* the theorems about Validate apply to it.                                *)
(***************************************************************************)
LEMMA AppendLoop ==
    ASSUME NEW first \in Containers, NEW more \in Containers, NEW turn,
           \A i \in 1..Len(more) : turn[i] \in [Containers -> Containers]
    PROVE  Loop(first, [i \in DOMAIN more |-> turn[i]]) \in Containers
  <1> DEFINE steps == [i \in DOMAIN more |-> turn[i]]
  <1>1. DOMAIN more = 1..Len(more) /\ Len(more) \in Nat
    BY DEF Containers
  <1>2. steps \in [1..Len(more) -> [Containers -> Containers]]
    BY <1>1
  <1> HIDE DEF steps
  <1>3. steps \in Seq([Containers -> Containers])
    BY <1>1, <1>2
  <1>4. \A i \in 1..Len(steps) : \A cs \in Containers : steps[i][cs] \in Containers
    BY <1>3
  <1>5. Loop(first, steps) \in Containers
    BY <1>3, <1>4, LoopKeeps
  <1> QED
    BY <1>5 DEF steps

LEMMA ContainersAppend ==
    ASSUME NEW more \in Containers, NEW i \in 1..Len(more), NEW cs \in Containers
    PROVE  Append(cs, more[i]) \in Containers
  BY DEF Containers

LEMMA ListedType ==
    ASSUME NEW listed \in Containers
    PROVE  DiscoverLabeledContainers(listed) \in Containers
  <1> DEFINE Turn(i) == [cs \in Containers |->
                            IF listed[i].host = NoHost THEN cs ELSE Append(cs, listed[i])]
             turn == [i \in DOMAIN listed |-> Turn(i)]
  <1>1. DOMAIN listed = 1..Len(listed) /\ <<>> \in Containers
    BY DEF Containers
  <1>2. \A i \in 1..Len(listed) : Turn(i) \in [Containers -> Containers]
    BY ContainersAppend
  <1>3. DiscoverLabeledContainers(listed) = Loop(<<>>, turn)
    BY DEF DiscoverLabeledContainers, Containers
  <1> HIDE DEF Turn
  <1>4. \A i \in 1..Len(listed) : turn[i] \in [Containers -> Containers]
    BY <1>1, <1>2
  <1>5. turn = [i \in DOMAIN listed |-> turn[i]]
    OBVIOUS
  <1> HIDE DEF turn
  <1>6. Loop(<<>>, [i \in DOMAIN listed |-> turn[i]]) \in Containers
    BY <1>1, <1>4, AppendLoop
  <1> QED
    BY <1>3, <1>5, <1>6

LEMMA MergeType ==
    ASSUME NEW s \in GatewayConfig, NEW more \in Containers
    PROVE  Merge(s, more) \in GatewayConfig
  <1> DEFINE Turn(i) == [cs \in Containers |->
                            IF more[i].host \in Hosts(cs) \/ more[i].name \in Names(cs)
                            THEN cs ELSE Append(cs, more[i])]
             turn == [i \in DOMAIN more |-> Turn(i)]
  <1>1. DOMAIN more = 1..Len(more) /\ s.containers \in Containers
    BY DEF Containers, GatewayConfig
  <1>2. \A i \in 1..Len(more) : Turn(i) \in [Containers -> Containers]
    BY ContainersAppend
  <1>3. Merge(s, more) = [containers |-> Loop(s.containers, turn), groups |-> {}]
    BY DEF Merge, Containers
  <1> HIDE DEF Turn
  <1>4. \A i \in 1..Len(more) : turn[i] \in [Containers -> Containers]
    BY <1>1, <1>2
  <1>5. turn = [i \in DOMAIN more |-> turn[i]]
    OBVIOUS
  <1> HIDE DEF turn
  <1>6. Loop(s.containers, [i \in DOMAIN more |-> turn[i]]) \in Containers
    BY <1>1, <1>4, AppendLoop
  <1>7. Loop(s.containers, turn) \in Containers
    BY <1>5, <1>6
  <1> QED
    BY <1>3, <1>7 DEF GatewayConfig, Containers

LEMMA KnownConfigs == Config \subseteq GatewayConfig
  <1>1. StaticConfigs \subseteq GatewayConfig
    BY StaticConfigsAssumption
  <1>2. \A l \in LabelLists : DiscoverLabeledContainers(l) \in Containers
    BY LabelListsAssumption, ListedType DEF Containers
  <1>3. \A s \in StaticConfigs : \A l \in LabelLists :
            Merge(s, DiscoverLabeledContainers(l)) \in GatewayConfig
    BY <1>1, <1>2, MergeType
  <1> QED
    BY <1>1, <1>3 DEF Config

\* runDiscovery returns before the push if Validate fails: the server never
\* has a configuration that Validate refuses, and therefore none with a cycle
\* of dependencies, whatever the labels are and however the passes of main,
\* the ticker and the signals interleave.
THEOREM ServerValidAlways == DiscoverySpec => []ServerValid
  <1>1. DiscoveryInit => ValidInv
    BY StaticConfigsAssumption DEF DiscoveryInit, ValidInv, ServedValid, InPassValid, Thread
  <1>2. DiscoveryTypeInv /\ ValidInv => ServerValid
    <2> SUFFICES ASSUME DiscoveryTypeInv, ValidInv
                 PROVE  ServerValid
      OBVIOUS
    <2>1. served \in GatewayConfig /\ Validate(served)
      BY KnownConfigs DEF DiscoveryTypeInv, DiscoveryTypeOK, ValidInv, ServedValid
    <2> QED
      BY <2>1, ValidAcyclic DEF ServerValid
  <1> QED
    BY DiscoveryTypeInit, DiscoveryTypeStep, ValidStep, <1>1, <1>2, PTL DEF DiscoverySpec

(***************************************************************************)
(* What Serving assumes: the server has a configuration that Validate      *)
(* accepts, and what a pass pushes has no groups.                          *)
(***************************************************************************)
Valid == {c \in GatewayConfig : Validate(c)}
ValidWithoutGroups == {c \in Valid : c.groups = {}}

\* The assumption ConfigsAssumption of Serving and its Pushed, which stands
\* for onConfigChange, are what the passes of runDiscovery guarantee: the
\* server starts with a valid configuration, and every change of it is to a
\* valid configuration without groups.
THEOREM PushesAsServed ==
    DiscoverySpec => []( served \in Valid )
                     /\ [][served' = served \/ served' \in ValidWithoutGroups]_discovery
  <1>1. DiscoveryInit => ValidInv
    BY StaticConfigsAssumption DEF DiscoveryInit, ValidInv, ServedValid, InPassValid, Thread
  <1>2. DiscoveryTypeInv /\ ValidInv => served \in Valid
    BY KnownConfigs DEF DiscoveryTypeInv, DiscoveryTypeOK, ValidInv, ServedValid, Valid
  <1>3. DiscoveryTypeInv /\ ValidInv /\ [DiscoveryNext]_discovery
            => [served' = served \/ served' \in ValidWithoutGroups]_discovery
    <2> SUFFICES ASSUME DiscoveryTypeInv, ValidInv, [DiscoveryNext]_discovery
                 PROVE  served' = served \/ served' \in ValidWithoutGroups
      OBVIOUS
    <2>1. ASSUME NEW t \in Thread, Push(t)
          PROVE  served' \in ValidWithoutGroups
      <3>1. merged[t] \in GatewayConfig
        BY <2>1, KnownConfigs DEF Push, DiscoveryTypeInv, InPass
      <3> QED
        BY <2>1, <3>1 DEF Push, ValidInv, InPassValid, Valid, ValidWithoutGroups
    <2> QED
      BY <2>1 DEF DiscoveryNext, Proceed, List, ListFails, MergeConfigs, Unchanged, Changed,
                  TickerFires, SyncAtStartup, Sighup, Edit, discovery
  <1> QED
    BY DiscoveryTypeInit, DiscoveryTypeStep, ValidStep, <1>1, <1>2, <1>3, PTL DEF DiscoverySpec

-----------------------------------------------------------------------------
(***************************************************************************)
(* The record of the last push.  Between Changed, which writes lastConfig, *)
(* and Push, which serves it, record and server differ.  They      *)
(* agree again at the end of the pass because the pass was alone.          *)
(***************************************************************************)
OnePass ==
    \A t, u \in Thread : t # u => stage[t] \in {"off", "idle"} \/ stage[u] \in {"off", "idle"}

Recorded == \A t \in Thread : stage[t] = "push" => lastConfig = merged[t]

RecordServed == (\A t \in Thread : stage[t] # "push") /\ lastConfig # None => served = lastConfig

PushInv == OnePass /\ Recorded /\ RecordServed

\* A pass that ends without a push changes neither the record nor the server.
LEMMA EndPassPush ==
    ASSUME DiscoveryTypeOK, PushInv, NEW t \in Thread, EndPass(t),
           stage[t] \notin {"off", "idle", "push"},
           UNCHANGED <<lastConfig, served>>
    PROVE  PushInv'
  <1>1. \A u \in Thread \ {t} : stage[u] \in {"off", "idle"}
    BY DEF PushInv, OnePass
  <1>2. OnePass' /\ \A u \in Thread : stage'[u] # "push"
    BY <1>1 DEF EndPass, DiscoveryTypeOK, OnePass, Thread
  <1>3. \A u \in Thread : stage[u] # "push"
    BY <1>1
  <1> QED
    BY <1>2, <1>3 DEF PushInv, Recorded, RecordServed

\* A thread that goes on in its pass without a push.
LEMMA EnterPush ==
    ASSUME DiscoveryTypeOK, PushInv, NEW t \in Thread, NEW l \in PC, Enter(t, l), l # "push",
           \A u \in Thread \ {t} : stage[u] \in {"off", "idle"},
           stage[t] # "push",
           lastConfig' = lastConfig \/ lastConfig' = None,
           served' = served
    PROVE  PushInv'
  <1>1. \A u \in Thread : stage'[u] = IF u = t THEN l ELSE stage[u]
    BY DEF Enter, DiscoveryTypeOK
  <1>2. \A u \in Thread : stage[u] # "push" /\ stage'[u] # "push"
    BY <1>1
  <1>3. OnePass'
    BY <1>1 DEF OnePass
  <1> QED
    BY <1>2, <1>3 DEF PushInv, Recorded, RecordServed

LEMMA PushStep ==
    ASSUME "overlap" \notin Faults
    PROVE  DiscoveryTypeInv /\ PushInv /\ [DiscoveryNext]_discovery => PushInv'
  <1> SUFFICES ASSUME DiscoveryTypeInv, PushInv, [DiscoveryNext]_discovery
               PROVE  PushInv'
    OBVIOUS
  <1>0. DiscoveryTypeOK
    BY DEF DiscoveryTypeInv
  <1>a. \A t \in Thread : stage[t] \notin {"off", "idle"} =>
            \A u \in Thread \ {t} : stage[u] \in {"off", "idle"}
    BY DEF PushInv, OnePass
  <1>1. ASSUME NEW t \in Thread, List(t)
        PROVE  PushInv'
    BY <1>0, <1>1, <1>a, EnterPush DEF List, PC
  <1>2. ASSUME NEW t \in Thread, ListFails(t) \/ Unchanged(t)
        PROVE  PushInv'
    BY <1>0, <1>2, EndPassPush DEF ListFails, Unchanged
  <1>3. ASSUME NEW t \in Thread, MergeConfigs(t)
        PROVE  PushInv'
    <2>1. /\ stage[t] = "merge"
          /\ UNCHANGED <<lastConfig, served>>
          /\ Enter(t, "compare") \/ EndPass(t)
      BY <1>3 DEF MergeConfigs
    <2>2. CASE Enter(t, "compare")
      BY <1>0, <1>a, <2>1, <2>2, EnterPush DEF PC
    <2>3. CASE EndPass(t)
      BY <1>0, <2>1, <2>3, EndPassPush
    <2> QED
      BY <2>1, <2>2, <2>3
  <1>4. ASSUME NEW t \in Thread, Changed(t)
        PROVE  PushInv'
    <2>1. \A u \in Thread : stage'[u] = IF u = t THEN "push" ELSE stage[u]
      BY <1>0, <1>4 DEF Changed, Enter, DiscoveryTypeOK
    <2>2. \A u \in Thread \ {t} : stage[u] \in {"off", "idle"}
      BY <1>4, <1>a DEF Changed
    <2>3. OnePass'
      BY <2>1, <2>2 DEF OnePass
    <2>4. Recorded'
      BY <1>4, <2>1, <2>2 DEF Changed, Recorded
    <2> QED
      BY <2>1, <2>3, <2>4 DEF PushInv, RecordServed
  <1>5. ASSUME NEW t \in Thread, Push(t)
        PROVE  PushInv'
    <2>1. \A u \in Thread \ {t} : stage[u] \in {"off", "idle"}
      BY <1>5, <1>a DEF Push
    <2>2. served' = lastConfig /\ lastConfig' = lastConfig
      BY <1>5 DEF Push, PushInv, Recorded
    <2>3. OnePass' /\ \A u \in Thread : stage'[u] # "push"
      BY <1>0, <1>5, <2>1 DEF Push, EndPass, DiscoveryTypeOK, OnePass, Thread
    <2> QED
      BY <2>2, <2>3 DEF PushInv, Recorded, RecordServed
  <1>6. CASE TickerFires
    <2>1. \A u \in Thread : stage[u] \in {"off", "idle"}
      BY <1>6 DEF TickerFires, MayBegin
    <2> QED
      BY <1>0, <1>6, <2>1, EnterPush DEF TickerFires, PC, Thread
  <1>7. CASE SyncAtStartup
    <2>1. \A u \in Thread \ {"main"} : stage[u] \in {"off", "idle"}
      BY <1>7, <1>a DEF SyncAtStartup, Thread
    <2>2. \A u \in Thread : stage[u] # "push" /\ stage'[u] \in {"off", "idle"}
      BY <1>0, <1>7, <2>1 DEF SyncAtStartup, DiscoveryTypeOK, Thread
    <2> QED
      BY <1>7, <2>2 DEF SyncAtStartup, PushInv, OnePass, Recorded, RecordServed
  <1>8. CASE Sighup
    <2>1. \A u \in Thread : stage[u] \in {"off", "idle"}
      BY <1>8 DEF Sighup, MayBegin
    <2> QED
      BY <1>0, <1>8, <2>1, EnterPush DEF Sighup, PC, Thread
  <1>9. CASE Edit \/ UNCHANGED discovery
    BY <1>9 DEF Edit, discovery, PushInv, OnePass, Recorded, RecordServed
  <1> QED
    BY <1>1, <1>2, <1>3, <1>4, <1>5, <1>6, <1>7, <1>8, <1>9 DEF DiscoveryNext, Proceed

\* runDiscovery writes lastConfig before the push, in a critical section of
\* its own.  As long as no two passes overlap, lastConfig is nevertheless
\* what the server has between passes, so a later pass that finds "no change"
\* is right to push nothing.
THEOREM LastConfigPushedAlways ==
    ASSUME "overlap" \notin Faults
    PROVE  DiscoverySpec => []LastConfigPushed
  <1>1. DiscoveryInit => PushInv
    BY DEF DiscoveryInit, PushInv, OnePass, Recorded, RecordServed, Thread
  <1>2. PushInv => LastConfigPushed
    BY DEF PushInv, RecordServed, LastConfigPushed, Quiet
  <1> QED
    BY DiscoveryTypeInit, DiscoveryTypeStep, PushStep, <1>1, <1>2, PTL DEF DiscoverySpec
=============================================================================
