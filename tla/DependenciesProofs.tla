------------------------- MODULE DependenciesProofs --------------------------
(***************************************************************************)
(* Theorems about the orders that the gateway derives from its graph, for  *)
(* every graph without cycles.  First the recursive definition of visit is *)
(* shown to have a solution, then what a visit does to an order is proved  *)
(* by induction along the edges of the graph.                              *)
(***************************************************************************)
EXTENDS Dependencies, Recursion, FiniteSetTheorems

Order == Seq(Container)
Visits == [Order -> Order]

DepSet(c) == ToSet(DependsOn[c])

\* The dependencies of a container are containers.
LEMMA DepsType ==
    ASSUME NEW c \in Container
    PROVE  /\ DependsOn[c] \in Order
           /\ Len(DependsOn[c]) \in Nat
           /\ \A i \in 1..Len(DependsOn[c]) : DependsOn[c][i] \in DepSet(c)
           /\ DepSet(c) \subseteq Container
  <1>1. DependsOn[c] \in Order
    BY DependsOnAssumption DEF Order
  <1> QED
    BY <1>1, InToSet DEF Order, DepSet

\* Acyclic as a principle of induction: what holds of a container whenever it
\* holds of its dependencies holds of all.
LEMMA GraphInduction ==
    ASSUME NEW S, \A c \in Container : DepSet(c) \subseteq S => c \in S
    PROVE  Container \subseteq S
  <1> SUFFICES ASSUME Container \ S # {}
               PROVE  FALSE
    OBVIOUS
  <1>1. PICK c \in Container \ S : ToSet(DependsOn[c]) \cap (Container \ S) = {}
    BY DependsOnAssumption DEF Acyclic
  <1> QED
    BY <1>1, DepsType DEF DepSet

-----------------------------------------------------------------------------
(***************************************************************************)
(* The definition of VisitWithin.                                          *)
(***************************************************************************)
\* One turn of the loop over the dependencies of c, if visits are what v says.
Turn(nodes, v, c, i, order) ==
    IF DependsOn[c][i] \in nodes THEN v[DependsOn[c][i]][order] ELSE order

\* The loop itself.
Loop(nodes, v, c, order) ==
    CHOOSE after :
        after = [i \in 0..Len(DependsOn[c]) |->
                    IF i = 0 THEN order
                    ELSE IF DependsOn[c][i] \in nodes THEN v[DependsOn[c][i]][after[i - 1]]
                    ELSE after[i - 1]]

VisitBody(nodes, v, c) ==
    [order \in Order |->
        IF Contains(order, c) THEN order
        ELSE Append(Loop(nodes, v, c, order)[Len(DependsOn[c])], c)]

\* What the orders behind its turns are.
IsLoop(nodes, v, c, order, f) ==
    /\ \A i \in 0..Len(DependsOn[c]) : f[i] \in Order
    /\ f[0] = order
    /\ \A i \in 1..Len(DependsOn[c]) : f[i] = Turn(nodes, v, c, i, f[i - 1])

LEMMA LoopTurns ==
    ASSUME NEW nodes, NEW v, NEW c \in Container, NEW order \in Order,
           \A d \in DepSet(c) : v[d] \in Visits
    PROVE  IsLoop(nodes, v, c, order, Loop(nodes, v, c, order))
  <1> DEFINE f == Loop(nodes, v, c, order)
             N == Len(DependsOn[c])
             D == [i \in 1..N |-> [s \in Order |-> Turn(nodes, v, c, i, s)]]
  <1>1. N \in Nat /\ \A i \in 1..N : DependsOn[c][i] \in DepSet(c)
    BY DepsType
  <1>2. \A i \in 1..N : \A s \in Order : Turn(nodes, v, c, i, s) \in Order
    BY <1>1 DEF Visits, Turn
  <1>3. D \in [1..N -> [Order -> Order]]
    BY <1>2
  <1>4. \A i \in 1..N : \A s \in Order : D[i][s] = Turn(nodes, v, c, i, s)
    OBVIOUS
  <1> HIDE DEF f, N, D
  <1>5. PICK g \in [0..N -> Order] : g[0] = order /\ \A i \in 1..N : g[i] = D[i][g[i - 1]]
    <2>1. IsTurns(N, Order, order, D)
      BY <1>1, <1>3 DEF IsTurns
    <2> QED
      BY <2>1, LoopDefined
  <1>6. \A i \in 0..N : i = 0 \/ (i \in 1..N /\ i - 1 \in 0..N)
    BY <1>1
  <1>7. \A i \in 1..N : i \in 0..N /\ i # 0 /\ i - 1 \in 0..N
    BY <1>1
  <1>8. 0 \in 0..N
    BY <1>1
  <1>9. \A i \in 0..N : g[i] = IF i = 0 THEN order ELSE Turn(nodes, v, c, i, g[i - 1])
    <2> SUFFICES ASSUME NEW i \in 0..N
                 PROVE  g[i] = IF i = 0 THEN order ELSE Turn(nodes, v, c, i, g[i - 1])
      OBVIOUS
    <2>1. CASE i = 0
      BY <1>5, <2>1
    <2>2. CASE i # 0
      <3>1. i \in 1..N /\ g[i - 1] \in Order
        BY <1>6, <2>2
      <3> QED
        BY <1>4, <1>5, <2>2, <3>1
    <2> QED
      BY <2>1, <2>2
  <1>10. g = [i \in 0..N |-> IF i = 0 THEN order ELSE Turn(nodes, v, c, i, g[i - 1])]
    BY <1>9
  <1>11. f = [i \in 0..N |-> IF i = 0 THEN order ELSE Turn(nodes, v, c, i, f[i - 1])]
    <2> DEFINE F(h) == [i \in 0..N |-> IF i = 0 THEN order ELSE Turn(nodes, v, c, i, h[i - 1])]
    <2>1. f = CHOOSE h : h = F(h)
      BY DEF Loop, N, Turn, f
    <2>2. \E h : h = F(h)
      BY <1>10
    <2> HIDE DEF F
    <2>3. f = F(f)
      BY <2>1, <2>2, Zenon
    <2> QED
      BY <2>3 DEF F
  <1>12. f[0] = order
    BY <1>8, <1>11
  <1>13. \A i \in 1..N : f[i] = Turn(nodes, v, c, i, f[i - 1])
    BY <1>7, <1>11
  <1>14. 0..N \subseteq {i \in 0..N : f[i] \in Order}
    <2> DEFINE T == {i \in 0..N : f[i] \in Order}
    <2>1. 0 \in T
      BY <1>8, <1>12
    <2>2. ASSUME NEW i \in 1..N, i - 1 \in T
          PROVE  i \in T
      BY <1>2, <1>7, <1>13, <2>2
    <2> HIDE DEF T
    <2>3. 0..N \subseteq T
      BY <1>1, <2>1, <2>2, LoopInduction
    <2> QED
      BY <2>3 DEF T
  <1> QED
    BY <1>12, <1>13, <1>14 DEF N, f, IsLoop

\* The loop asks v for the dependencies of c only.
LEMMA LoopLocal ==
    ASSUME NEW nodes, NEW c \in Container, NEW order \in Order,
           NEW v \in [Container -> Visits], NEW w \in [Container -> Visits],
           \A d \in DepSet(c) : v[d] = w[d]
    PROVE  Loop(nodes, v, c, order)[Len(DependsOn[c])]
             = Loop(nodes, w, c, order)[Len(DependsOn[c])]
  <1> DEFINE f == Loop(nodes, v, c, order)
             g == Loop(nodes, w, c, order)
             N == Len(DependsOn[c])
             T == {i \in 0..N : f[i] = g[i]}
  <1> HIDE DEF N
  <1>1. N \in Nat /\ 0 \in 0..N /\ N \in 0..N /\ \A i \in 1..N : i \in 0..N
    BY DepsType DEF N
  <1>2. IsLoop(nodes, v, c, order, f) /\ IsLoop(nodes, w, c, order, g)
    <2>1. \A d \in DepSet(c) : v[d] \in Visits /\ w[d] \in Visits
      BY DepsType
    <2> QED
      BY <2>1, LoopTurns
  <1> HIDE DEF f, g
  <1>4. 0 \in T
    BY <1>1, <1>2 DEF IsLoop
  <1>5. ASSUME NEW i \in 1..N, i - 1 \in T
        PROVE  i \in T
    <2>1. v[DependsOn[c][i]] = w[DependsOn[c][i]]
      BY DepsType DEF N
    <2>2. f[i] = g[i]
      BY <1>2, <1>5, <2>1 DEF IsLoop, Turn, N
    <2> QED
      BY <1>1, <2>2
  <1> HIDE DEF T
  <1>6. 0..N \subseteq T
    BY <1>1, <1>4, <1>5, LoopInduction
  <1>7. N \in T
    BY <1>1, <1>6
  <1> QED
    BY <1>7 DEF T, N, f, g

\* The recursive definition has a solution, so VisitWithin is one.
LEMMA VisitDefined ==
    ASSUME NEW nodes
    PROVE  /\ VisitWithin(nodes) \in [Container -> Visits]
           /\ \A c \in Container : VisitWithin(nodes)[c] = VisitBody(nodes, VisitWithin(nodes), c)
  <1> DEFINE Under == [c \in Container |-> DepSet(c)]
             Ok == [c \in Container |-> Visits]
             H == [c \in Container |->
                    [v \in [Container -> Visits] |-> VisitBody(nodes, v, c)]]
  <1>1. \A c \in Container : \A v :
            (\A d \in DepSet(c) : v[d] \in Visits) => VisitBody(nodes, v, c) \in Visits
    <2> SUFFICES ASSUME NEW c \in Container, NEW v, \A d \in DepSet(c) : v[d] \in Visits,
                        NEW order \in Order
                 PROVE  Append(Loop(nodes, v, c, order)[Len(DependsOn[c])], c) \in Order
      BY DEF VisitBody, Visits
    <2> DEFINE f == Loop(nodes, v, c, order)
    <2>1. IsLoop(nodes, v, c, order, f)
      BY LoopTurns
    <2> HIDE DEF f
    <2>2. Len(DependsOn[c]) \in 0..Len(DependsOn[c])
      BY DepsType
    <2>3. f[Len(DependsOn[c])] \in Order
      BY <2>1, <2>2 DEF IsLoop
    <2> QED
      BY <2>3, AppendToSet DEF Order, f
  <1>2. /\ Under \in [Container -> SUBSET Container]
        /\ Ok \in [Container -> SUBSET Visits]
        /\ H \in [Container -> [[Container -> Visits] -> Visits]]
    BY <1>1, DepsType
  <1>3. WellFounded(Container, Under)
    BY DependsOnAssumption DEF Acyclic, DepSet, WellFounded
  <1>4. \A c \in Container : Ok[c] # {}
    <2>1. [order \in Order |-> order] \in Visits
      BY DEF Visits
    <2> QED
      BY <2>1
  <1>5. \A c \in Container : \A v \in [Container -> Visits] : H[c][v] = VisitBody(nodes, v, c)
    OBVIOUS
  <1>6. StaysOk(Container, Visits, Under, Ok, H)
    <2>1. \A c \in Container : Ok[c] = Visits /\ Under[c] = DepSet(c)
      OBVIOUS
    <2> HIDE DEF Ok, Under, H
    <2> QED
      BY <1>1, <1>5, <2>1, DepsType DEF StaysOk
  <1>7. LooksBelow(Container, Visits, Under, Ok, H)
    <2> SUFFICES ASSUME NEW c \in Container, NEW v \in [Container -> Visits],
                        NEW w \in [Container -> Visits], \A d \in DepSet(c) : v[d] = w[d]
                 PROVE  VisitBody(nodes, v, c) = VisitBody(nodes, w, c)
      BY <1>5 DEF LooksBelow, Agree
    <2>1. \A order \in Order : Loop(nodes, v, c, order)[Len(DependsOn[c])]
                                 = Loop(nodes, w, c, order)[Len(DependsOn[c])]
      BY LoopLocal
    <2> QED
      BY <2>1 DEF VisitBody
  <1> HIDE DEF Under, Ok, H
  <1>8. PICK v \in [Container -> Visits] :
            \A c \in Container : v[c] = H[c][v] /\ v[c] \in Ok[c]
    <2>1. GraphRecursion(Container, Visits, Under, Ok, H)
      BY <1>2, <1>3, <1>4, <1>6, <1>7 DEF GraphRecursion
    <2> QED
      BY <2>1, WellFoundedRecursion
  <1>9. v = [c \in Container |-> VisitBody(nodes, v, c)]
    BY <1>5, <1>8
  <1> DEFINE F(w) == [c \in Container |-> VisitBody(nodes, w, c)]
             W == VisitWithin(nodes)
  <1>10. W = CHOOSE w : w = F(w)
    BY DEF VisitWithin, VisitBody, Loop, Order
  <1>11. \E w : w = F(w)
    BY <1>9
  <1>12. W = F(W)
    <2> HIDE DEF F, W
    <2> QED
      BY <1>10, <1>11, Zenon
  <1> HIDE DEF W
  <1>13. DOMAIN W = Container /\ \A c \in Container : W[c] = VisitBody(nodes, W, c)
    BY <1>12
  <1>14. Container \subseteq {c \in Container : W[c] \in Visits}
    <2> DEFINE T == {c \in Container : W[c] \in Visits}
    <2>1. ASSUME NEW c \in Container, DepSet(c) \subseteq T
          PROVE  c \in T
      BY <1>1, <1>13, <2>1
    <2> HIDE DEF T
    <2>2. Container \subseteq T
      BY <2>1, GraphInduction
    <2> QED
      BY <2>2 DEF T
  <1>15. W \in [Container -> Visits]
    BY <1>12, <1>14
  <1> QED
    BY <1>13, <1>15 DEF W

\* What a visit of c returns: the order itself if c is there, else the order
\* behind the loop with c at its end.
LEMMA VisitReturns ==
    ASSUME NEW nodes, NEW c \in Container, NEW order \in Order
    PROVE  /\ VisitWithin(nodes)[c][order] \in Order
           /\ c \in ToSet(order) => VisitWithin(nodes)[c][order] = order
           /\ c \notin ToSet(order) =>
                \E f : /\ IsLoop(nodes, VisitWithin(nodes), c, order, f)
                       /\ VisitWithin(nodes)[c][order] = Append(f[Len(DependsOn[c])], c)
  <1> DEFINE V == VisitWithin(nodes)
             f == Loop(nodes, V, c, order)
  <1> HIDE DEF V
  <1>1. V \in [Container -> Visits] /\ V[c] = VisitBody(nodes, V, c)
    BY VisitDefined DEF V
  <1>2. V[c][order] = IF Contains(order, c) THEN order ELSE Append(f[Len(DependsOn[c])], c)
    BY <1>1 DEF VisitBody
  <1>3. V[c][order] \in Order
    BY <1>1 DEF Visits
  <1>4. IsLoop(nodes, V, c, order, f)
    <2>1. \A d \in DepSet(c) : V[d] \in Visits
      BY <1>1, DepsType
    <2> QED
      BY <2>1, LoopTurns
  <1>5. Contains(order, c) <=> c \in ToSet(order)
    BY InToSet DEF Order
  <1> HIDE DEF f
  <1> QED
    BY <1>2, <1>3, <1>4, <1>5 DEF V

-----------------------------------------------------------------------------
(***************************************************************************)
(* Closed sets of containers, and the least ones: what is below a          *)
(* container, and what a start of it reaches.                              *)
(***************************************************************************)
Closed(D) == \A c \in D : DepSet(c) \subseteq D

Below(c) == {x \in Container : \A D \in SUBSET Container :
                                    Closed(D) /\ DepSet(c) \subseteq D => x \in D}

Reach(c) == Below(c) \cup {c}

LEMMA BelowClosed ==
    ASSUME NEW c \in Container
    PROVE  /\ Below(c) \subseteq Container
           /\ DepSet(c) \subseteq Below(c)
           /\ Closed(Below(c))
           /\ Closed(Reach(c))
           /\ \A D \in SUBSET Container : Closed(D) /\ DepSet(c) \subseteq D => Below(c) \subseteq D
  <1>1. Below(c) \subseteq Container
    BY DEF Below
  <1>2. DepSet(c) \subseteq Below(c)
    BY DepsType DEF Below
  <1>3. Closed(Below(c))
    <2>1. ASSUME NEW x \in Below(c), NEW d \in DepSet(x),
                 NEW D \in SUBSET Container, Closed(D), DepSet(c) \subseteq D
          PROVE  d \in D
      <3>1. x \in D
        BY <2>1 DEF Below
      <3> QED
        BY <2>1, <3>1 DEF Closed
    <2>2. \A x \in Below(c) : \A d \in DepSet(x) : d \in Container
      BY <1>1, DepsType
    <2>3. \A x \in Below(c) : \A d \in DepSet(x) : d \in Below(c)
      BY <2>1, <2>2 DEF Below
    <2> QED
      BY <2>3 DEF Closed
  <1>4. Closed(Reach(c))
    BY <1>2, <1>3 DEF Closed, Reach
  <1> QED
    BY <1>1, <1>2, <1>3, <1>4 DEF Below

\* No container is below itself.
LEMMA NotBelowItself ==
    ASSUME NEW c \in Container
    PROVE  c \notin Below(c)
  <1> SUFFICES ASSUME c \in Below(c)
               PROVE  FALSE
    OBVIOUS
  <1> DEFINE X == {x \in Below(c) : c \in Below(x)}
  <1>1. X \in (SUBSET Container) \ {{}} /\ c \in X
    BY BelowClosed
  <1> HIDE DEF X
  <1>2. PICK x \in X : DepSet(x) \cap X = {}
    BY <1>1, DependsOnAssumption DEF Acyclic, DepSet
  <1>3. x \in Container /\ x \in Below(c) /\ c \in Below(x)
    BY <1>1, <1>2 DEF X
  <1>4. \A d \in DepSet(x) : d \in Container /\ d \in Below(c) /\ c \notin Below(d) /\ d # c
    BY <1>1, <1>2, <1>3, DepsType, BelowClosed DEF X, Closed
  <1> DEFINE D == {y \in Container : \E d \in DepSet(x) : y = d \/ y \in Below(d)}
  <1>5. Closed(D)
    <2> SUFFICES ASSUME NEW y \in D, NEW z \in DepSet(y)
                 PROVE  z \in D
      BY DEF Closed
    <2>1. PICK d \in DepSet(x) : y = d \/ y \in Below(d)
      OBVIOUS
    <2>2. z \in Below(d)
      BY <1>4, <2>1, BelowClosed DEF Closed
    <2>3. z \in Container
      BY <1>4, <2>2, BelowClosed
    <2> QED
      BY <2>2, <2>3
  <1>6. DepSet(x) \subseteq D
    BY <1>4
  <1>7. D \in SUBSET Container /\ c \notin D
    BY <1>4
  <1> HIDE DEF D
  <1> QED
    BY <1>3, <1>5, <1>6, <1>7, BelowClosed

-----------------------------------------------------------------------------
(***************************************************************************)
(* What a visit does to an order.                                          *)
(***************************************************************************)
\* r begins with s.
Prolongs(s, r) ==
    /\ Len(s) <= Len(r)
    /\ \A i \in 1..Len(s) : r[i] = s[i]

LEMMA ProlongsFacts ==
    ASSUME NEW s \in Order, NEW r \in Order, NEW c \in Container, Prolongs(s, r)
    PROVE  /\ ToSet(s) \subseteq ToSet(r)
           /\ Prolongs(s, Append(r, c))
           /\ \A q \in Order : Prolongs(r, q) => Prolongs(s, q)
  <1>1. Len(s) \in Nat /\ Len(r) \in Nat /\ Len(s) <= Len(r)
        /\ \A i \in 1..Len(s) : i \in 1..Len(r) /\ r[i] = s[i]
    BY DEF Prolongs, Order
  <1>2. ToSet(s) \subseteq ToSet(r)
    <2> SUFFICES ASSUME NEW x \in ToSet(s)
                 PROVE  x \in ToSet(r)
      OBVIOUS
    <2>1. PICK i \in 1..Len(s) : s[i] = x
      BY InToSet DEF Order
    <2>2. i \in 1..Len(r) /\ r[i] = x
      BY <1>1, <2>1
    <2> QED
      BY <2>2, InToSet DEF Order
  <1>3. Prolongs(s, Append(r, c))
    BY <1>1, AppendToSet DEF Prolongs, Order
  <1>4. ASSUME NEW q \in Order, Prolongs(r, q)
        PROVE  Prolongs(s, q)
    BY <1>1, <1>4 DEF Prolongs, Order
  <1> QED
    BY <1>2, <1>3, <1>4

\* What a visit of d makes of order, within D.
Grows(D, d, order, r) ==
    /\ Prolongs(order, r)
    /\ d \in ToSet(r)
    /\ ToSet(r) \subseteq ToSet(order) \cup D

LEMMA LoopGrows ==
    ASSUME NEW nodes, NEW D \in SUBSET Container, NEW c \in Container, NEW order \in Order,
           NEW f, IsLoop(nodes, VisitWithin(nodes), c, order, f),
           \A d \in DepSet(c) \cap nodes : \A s \in Order :
                Grows(D, d, s, VisitWithin(nodes)[d][s])
    PROVE  LET last == f[Len(DependsOn[c])]
           IN  /\ last \in Order
               /\ Prolongs(order, last)
               /\ ToSet(last) \subseteq ToSet(order) \cup D
               /\ DepSet(c) \cap nodes \subseteq ToSet(last)
  <1> DEFINE N == Len(DependsOn[c])
             Visited(i) == \A j \in 1..i : DependsOn[c][j] \in nodes => DependsOn[c][j] \in ToSet(f[i])
             T == {i \in 0..N : /\ Prolongs(order, f[i])
                                /\ ToSet(f[i]) \subseteq ToSet(order) \cup D
                                /\ Visited(i)}
  <1>1. N \in Nat /\ \A i \in 1..N : DependsOn[c][i] \in DepSet(c)
    BY DepsType
  <1>2. /\ \A i \in 0..N : f[i] \in Order
        /\ f[0] = order
        /\ \A i \in 1..N : f[i] = Turn(nodes, VisitWithin(nodes), c, i, f[i - 1])
    BY DEF IsLoop
  <1>3. 0 \in T
    BY <1>1, <1>2 DEF Prolongs, Order
  <1>4. ASSUME NEW i \in 1..N, i - 1 \in T
        PROVE  i \in T
    <2> DEFINE d == DependsOn[c][i]
               s == f[i - 1]
               r == f[i]
    <2>1. i \in 0..N /\ i - 1 \in 0..N /\ s \in Order /\ r \in Order /\ d \in DepSet(c)
      BY <1>1, <1>2
    <2>2. Prolongs(order, s) /\ ToSet(s) \subseteq ToSet(order) \cup D /\ Visited(i - 1)
      BY <1>4
    <2>3. r = Turn(nodes, VisitWithin(nodes), c, i, s)
      BY <1>2
    <2> HIDE DEF s, r
    <2>4. Prolongs(s, r) /\ ToSet(r) \subseteq ToSet(s) \cup D /\ (d \in nodes => d \in ToSet(r))
      <3>1. CASE d \in nodes
        BY <2>1, <2>3, <3>1 DEF Turn, Grows
      <3>2. CASE d \notin nodes
        BY <2>1, <2>3, <3>2 DEF Turn, Prolongs, Order
      <3> QED
        BY <3>1, <3>2
    <2>5. Prolongs(order, r) /\ ToSet(s) \subseteq ToSet(r)
      BY <2>1, <2>2, <2>4, ProlongsFacts
    <2>6. ToSet(r) \subseteq ToSet(order) \cup D
      BY <2>2, <2>4
    <2>7. Visited(i)
      <3> SUFFICES ASSUME NEW j \in 1..i, DependsOn[c][j] \in nodes
                   PROVE  DependsOn[c][j] \in ToSet(r)
        BY DEF r
      <3>1. CASE j = i
        BY <2>4, <3>1
      <3>2. CASE j # i
        <4>1. j \in 1..(i - 1)
          BY <3>2
        <4> QED
          BY <2>2, <2>5, <4>1 DEF s
      <3> QED
        BY <3>1, <3>2
    <2> QED
      BY <2>1, <2>5, <2>6, <2>7 DEF r
  <1> HIDE DEF T
  <1>5. 0..N \subseteq T
    <2> HIDE DEF N
    <2> QED
      BY <1>1, <1>3, <1>4, LoopInduction
  <1>6. N \in 0..N
    BY <1>1
  <1>7. /\ Prolongs(order, f[N])
        /\ ToSet(f[N]) \subseteq ToSet(order) \cup D
        /\ Visited(N)
    BY <1>5, <1>6 DEF T
  <1>8. DepSet(c) \cap nodes \subseteq ToSet(f[N])
    <2> SUFFICES ASSUME NEW x \in DepSet(c), x \in nodes
                 PROVE  x \in ToSet(f[N])
      OBVIOUS
    <2>1. PICK j \in 1..N : DependsOn[c][j] = x
      <3>1. DependsOn[c] \in Seq(Container) /\ x \in ToSet(DependsOn[c])
        BY DepsType DEF DepSet, Order
      <3> QED
        BY <3>1, InToSet
    <2> QED
      BY <1>7, <2>1
  <1> QED
    BY <1>2, <1>6, <1>7, <1>8

\* A visit prolongs the order, ends with c in it and stays within what a
\* set D that is closed in nodes has.
LEMMA VisitGrows ==
    ASSUME NEW nodes, NEW D \in SUBSET Container,
           \A c \in D : DepSet(c) \cap nodes \subseteq D
    PROVE  \A c \in D : \A order \in Order : Grows(D, c, order, VisitWithin(nodes)[c][order])
  <1> DEFINE V == VisitWithin(nodes)
             T == {c \in Container : c \in D => \A order \in Order : Grows(D, c, order, V[c][order])}
  <1> HIDE DEF V
  <1>1. ASSUME NEW c \in Container, DepSet(c) \subseteq T
        PROVE  c \in T
    <2> SUFFICES ASSUME c \in D, NEW order \in Order
                 PROVE  Grows(D, c, order, V[c][order])
      OBVIOUS
    <2>1. CASE c \in ToSet(order)
      <3>1. V[c][order] = order
        BY <2>1, VisitReturns DEF V
      <3> QED
        BY <2>1, <3>1 DEF Grows, Prolongs, Order
    <2>2. CASE c \notin ToSet(order)
      <3>1. PICK f : IsLoop(nodes, V, c, order, f) /\ V[c][order] = Append(f[Len(DependsOn[c])], c)
        BY <2>2, VisitReturns DEF V
      <3> DEFINE last == f[Len(DependsOn[c])]
      <3>2. \A d \in DepSet(c) \cap nodes : \A s \in Order : Grows(D, d, s, V[d][s])
        BY <1>1
      <3>3. last \in Order /\ Prolongs(order, last) /\ ToSet(last) \subseteq ToSet(order) \cup D
        BY <3>1, <3>2, LoopGrows DEF V
      <3> HIDE DEF last
      <3>4. V[c][order] = Append(last, c)
        BY <3>1 DEF last
      <3>5. ToSet(Append(last, c)) = ToSet(last) \cup {c}
        BY <3>3, AppendToSet DEF Order
      <3>6. Prolongs(order, Append(last, c))
        BY <3>3, ProlongsFacts
      <3> QED
        BY <3>3, <3>4, <3>5, <3>6 DEF Grows
    <2> QED
      BY <2>1, <2>2
  <1> HIDE DEF T
  <1>2. Container \subseteq T
    BY <1>1, GraphInduction
  <1> QED
    BY <1>2 DEF T, V

\* Induction over a visit: a set of orders that is left by no append of a
\* container behind its dependencies is left by no visit.
LEMMA VisitInduction ==
    ASSUME NEW nodes, NEW Good \in SUBSET Order,
           \A s \in Good : \A c \in Container \ ToSet(s) :
                DepSet(c) \cap nodes \subseteq ToSet(s) => Append(s, c) \in Good
    PROVE  \A c \in Container : \A order \in Good : VisitWithin(nodes)[c][order] \in Good
  <1> DEFINE V == VisitWithin(nodes)
             T == {c \in Container : \A order \in Good : V[c][order] \in Good}
  <1> HIDE DEF V
  <1>1. ASSUME NEW c \in Container, DepSet(c) \subseteq T
        PROVE  c \in T
    <2> SUFFICES ASSUME NEW order \in Good
                 PROVE  V[c][order] \in Good
      OBVIOUS
    <2>1. CASE c \in ToSet(order)
      BY <2>1, VisitReturns DEF V
    <2>2. CASE c \notin ToSet(order)
      <3>1. PICK f : IsLoop(nodes, V, c, order, f) /\ V[c][order] = Append(f[Len(DependsOn[c])], c)
        BY <2>2, VisitReturns DEF V
      <3> DEFINE N == Len(DependsOn[c])
                 last == f[N]
                 G == {i \in 0..N : f[i] \in Good}
      <3>2. N \in Nat /\ 0 \in 0..N /\ N \in 0..N /\ \A i \in 1..N : i \in 0..N /\ DependsOn[c][i] \in DepSet(c)
        BY DepsType
      <3>3. f[0] = order /\ \A i \in 1..N : f[i] = Turn(nodes, V, c, i, f[i - 1])
        BY <3>1 DEF IsLoop
      <3>4. 0 \in G
        BY <3>2, <3>3
      <3>5. ASSUME NEW i \in 1..N, i - 1 \in G
            PROVE  i \in G
        <4>1. \A s \in Good : Turn(nodes, V, c, i, s) \in Good
          BY <1>1, <3>2 DEF Turn
        <4> QED
          BY <3>2, <3>3, <3>5, <4>1
      <3>6. last \in Good
        <4> HIDE DEF N, G
        <4>1. 0..N \subseteq G
          BY <3>2, <3>4, <3>5, LoopInduction
        <4>2. N \in G
          BY <3>2, <4>1
        <4> QED
          BY <4>2 DEF G
      <3>7. \A d \in DepSet(c) \cap nodes : \A s \in Order : Grows(Below(c), d, s, V[d][s])
        <4>1. Below(c) \in SUBSET Container /\ \A d \in Below(c) : DepSet(d) \cap nodes \subseteq Below(c)
          BY BelowClosed DEF Closed
        <4>2. \A d \in Below(c) : \A s \in Order : Grows(Below(c), d, s, V[d][s])
          BY <4>1, VisitGrows DEF V
        <4> QED
          BY <4>2, BelowClosed
      <3>8. ToSet(last) \subseteq ToSet(order) \cup Below(c) /\ DepSet(c) \cap nodes \subseteq ToSet(last)
        BY <3>1, <3>7, BelowClosed, LoopGrows DEF V
      <3>9. c \notin ToSet(last)
        BY <2>2, <3>8, NotBelowItself
      <3> HIDE DEF last
      <3>10. Append(last, c) \in Good
        BY <3>6, <3>8, <3>9
      <3> QED
        BY <3>1, <3>10 DEF last
    <2> QED
      BY <2>1, <2>2
  <1> HIDE DEF T
  <1>2. Container \subseteq T
    BY <1>1, GraphInduction
  <1> QED
    BY <1>2 DEF T, V

-----------------------------------------------------------------------------
(***************************************************************************)
(* The orders: no container twice, dependencies first.                     *)
(***************************************************************************)
Distinct(s) == \A i, j \in 1..Len(s) : s[i] = s[j] => i = j

\* What a container in the order depends on is in it before, as far as it is
\* in nodes.
Sorted(nodes, s) ==
    \A i \in 1..Len(s) : \A d \in DepSet(s[i]) \cap nodes : \E j \in 1..(i - 1) : s[j] = d

Orders(nodes) == {s \in Order : Distinct(s) /\ Sorted(nodes, s)}

LEMMA AppendKeepsOrder ==
    ASSUME NEW nodes, NEW s \in Orders(nodes), NEW c \in Container \ ToSet(s),
           DepSet(c) \cap nodes \subseteq ToSet(s)
    PROVE  Append(s, c) \in Orders(nodes)
  <1> DEFINE t == Append(s, c)
             n == Len(s)
  <1>1. s \in Seq(Container) /\ Distinct(s) /\ Sorted(nodes, s)
    BY DEF Orders, Order
  <1>2. /\ n \in Nat
        /\ t \in Seq(Container)
        /\ Len(t) = n + 1
        /\ \A i \in 1..n : t[i] = s[i]
        /\ t[n + 1] = c
    BY <1>1, AppendToSet
  <1>3. \A x \in ToSet(s) : \E i \in 1..n : s[i] = x
    BY <1>1, InToSet
  <1>4. \A i \in 1..n : s[i] \in ToSet(s)
    BY <1>1, InToSet
  <1> HIDE DEF t
  <1>5. Distinct(t)
    <2> SUFFICES ASSUME NEW i \in 1..(n + 1), NEW j \in 1..(n + 1), t[i] = t[j]
                 PROVE  i = j
      BY <1>2 DEF Distinct
    <2>1. CASE i \in 1..n /\ j \in 1..n
      BY <1>1, <1>2, <2>1 DEF Distinct
    <2>2. CASE i \in 1..n /\ j = n + 1
      BY <1>2, <1>4, <2>2
    <2>3. CASE i = n + 1 /\ j \in 1..n
      BY <1>2, <1>4, <2>3
    <2> QED
      BY <1>2, <2>1, <2>2, <2>3
  <1>6. Sorted(nodes, t)
    <2> SUFFICES ASSUME NEW i \in 1..(n + 1), NEW d \in DepSet(t[i]) \cap nodes
                 PROVE  \E j \in 1..(i - 1) : t[j] = d
      BY <1>2 DEF Sorted
    <2>1. CASE i = n + 1
      <3>1. PICK j \in 1..n : s[j] = d
        BY <1>2, <1>3, <2>1
      <3>2. j \in 1..(i - 1) /\ t[j] = d
        BY <1>2, <2>1, <3>1
      <3> QED
        BY <3>2
    <2>2. CASE i # n + 1
      <3>1. i \in 1..n /\ t[i] = s[i]
        BY <1>2, <2>2
      <3>2. PICK j \in 1..(i - 1) : s[j] = d
        BY <1>1, <3>1 DEF Sorted
      <3>3. j \in 1..n /\ t[j] = d
        BY <1>2, <3>1, <3>2
      <3> QED
        BY <3>2, <3>3
    <2> QED
      BY <2>1, <2>2
  <1> QED
    BY <1>2, <1>5, <1>6 DEF t, Orders, Order

LEMMA EmptyOrder ==
    ASSUME NEW nodes
    PROVE  <<>> \in Orders(nodes) /\ ToSet(<<>>) = {}
  <1>1. <<>> \in Seq(Container) /\ Len(<<>>) = 0 /\ 1..0 = {}
    OBVIOUS
  <1>2. ToSet(<<>>) = {}
    BY <1>1, InToSet
  <1> QED
    BY <1>1, <1>2 DEF Orders, Order, Distinct, Sorted

LEMMA VisitKeepsOrder ==
    ASSUME NEW nodes, NEW c \in Container, NEW s \in Orders(nodes)
    PROVE  VisitWithin(nodes)[c][s] \in Orders(nodes)
  <1>1. Orders(nodes) \in SUBSET Order
    BY DEF Orders
  <1> QED
    BY <1>1, AppendKeepsOrder, VisitInduction

\* In an order of the whole graph dependencies are complete.
LEMMA OrderClosed ==
    ASSUME NEW s \in Orders(Container)
    PROVE  Closed(ToSet(s))
  <1> SUFFICES ASSUME NEW x \in ToSet(s), NEW d \in DepSet(x)
               PROVE  d \in ToSet(s)
    BY DEF Closed
  <1>1. s \in Seq(Container) /\ Sorted(Container, s)
    BY DEF Orders, Order
  <1>2. PICK i \in 1..Len(s) : s[i] = x
    BY <1>1, InToSet
  <1>3. d \in Container
    BY <1>1, <1>2, DepsType, InToSet
  <1>4. PICK j \in 1..(i - 1) : s[j] = d
    BY <1>1, <1>2, <1>3 DEF Sorted
  <1>5. j \in 1..Len(s)
    BY <1>1
  <1> QED
    BY <1>1, <1>4, <1>5, InToSet

\* The start order of a target: everything it needs and nothing else, no
\* container twice, each behind its dependencies, the target at the end.
THEOREM StartOrder ==
    ASSUME NEW target \in Container, NEW order, order = TopologicalSort(target)
    PROVE  /\ order \in Orders(Container)
           /\ ToSet(order) = Reach(target)
           /\ Len(order) \in Nat \ {0}
           /\ order[Len(order)] = target
  <1> DEFINE V == VisitWithin(Container)
  <1>1. order = V[target][<<>>] /\ <<>> \in Order /\ ToSet(<<>>) = {}
    BY EmptyOrder DEF TopologicalSort, Order
  <1>2. order \in Orders(Container)
    BY <1>1, EmptyOrder, VisitKeepsOrder
  <1>3. target \in ToSet(order) /\ ToSet(order) \subseteq Reach(target)
    <2>1. Reach(target) \in SUBSET Container /\ target \in Reach(target)
          /\ \A c \in Reach(target) : DepSet(c) \cap Container \subseteq Reach(target)
      BY BelowClosed DEF Reach, Closed
    <2>2. Grows(Reach(target), target, <<>>, V[target][<<>>])
      BY <1>1, <2>1, VisitGrows
    <2> QED
      BY <1>1, <2>2 DEF Grows
  <1>4. Reach(target) \subseteq ToSet(order)
    <2>1. Closed(ToSet(order)) /\ ToSet(order) \in SUBSET Container
      BY <1>2, OrderClosed, InToSet DEF Orders, Order
    <2>2. DepSet(target) \subseteq ToSet(order)
      BY <1>3, <2>1 DEF Closed
    <2> QED
      BY <1>3, <2>1, <2>2, BelowClosed DEF Reach
  <1>5. PICK f : IsLoop(Container, V, target, <<>>, f)
                 /\ order = Append(f[Len(DependsOn[target])], target)
    BY <1>1, VisitReturns
  <1>6. Len(order) \in Nat \ {0} /\ order[Len(order)] = target
    <2> DEFINE last == f[Len(DependsOn[target])]
    <2>1. last \in Seq(Container)
      BY <1>5, DepsType DEF IsLoop, Order
    <2> HIDE DEF last
    <2>2. order = Append(last, target)
      BY <1>5 DEF last
    <2> QED
      BY <2>1, <2>2
  <1> QED
    BY <1>2, <1>3, <1>4, <1>6

\* The chain of containers: a closed set around them.
LEMMA ChainOfType ==
    ASSUME NEW roots \in SUBSET Container
    PROVE  /\ ChainOf(roots) = UNION {Reach(r) : r \in roots}
           /\ ChainOf(roots) \in SUBSET Container
           /\ roots \subseteq ChainOf(roots)
           /\ Closed(ChainOf(roots))
  <1>1. \A r \in Container : Closure[r] = Reach(r)
    BY StartOrder DEF Closure
  <1>2. ChainOf(roots) = UNION {Reach(r) : r \in roots}
    BY <1>1 DEF ChainOf
  <1>3. \A x : x \in ChainOf(roots) <=> \E r \in roots : x \in Reach(r)
    BY <1>2
  <1>4. \A r \in roots : Reach(r) \in SUBSET Container /\ r \in Reach(r) /\ Closed(Reach(r))
    BY BelowClosed DEF Reach
  <1>5. Closed(ChainOf(roots))
    BY <1>3, <1>4 DEF Closed
  <1> QED
    BY <1>2, <1>3, <1>4, <1>5

-----------------------------------------------------------------------------
(***************************************************************************)
(* The dependencies of a target in start order: the loop of                *)
(* EnsureDepsRunning skips the last container of the order and no other.   *)
(***************************************************************************)
SkipLoop(order, target) ==
    CHOOSE after :
        after = [i \in 0..Len(order) |->
                    IF i = 0 THEN <<>>
                    ELSE IF order[i] = target THEN after[i - 1]
                    ELSE Append(after[i - 1], order[i])]

Skips(order, target, f) ==
    /\ f[0] = <<>>
    /\ \A i \in 1..Len(order) :
          f[i] = IF order[i] = target THEN f[i - 1] ELSE Append(f[i - 1], order[i])

LEMMA SkipLoopTurns ==
    ASSUME NEW order \in Order, NEW target
    PROVE  Skips(order, target, SkipLoop(order, target))
  <1> DEFINE f == SkipLoop(order, target)
             N == Len(order)
             Turn2(i, s) == IF order[i] = target THEN s ELSE Append(s, order[i])
             D == [i \in 1..N |-> [s \in Order |-> Turn2(i, s)]]
             F(h) == [i \in 0..N |-> IF i = 0 THEN <<>> ELSE Turn2(i, h[i - 1])]
  <1>1. N \in Nat /\ \A i \in 1..N : order[i] \in Container
    BY DEF Order
  <1>2. \A i \in 1..N : \A s \in Order : Turn2(i, s) \in Order
    BY <1>1, AppendToSet DEF Order
  <1>3. D \in [1..N -> [Order -> Order]] /\ <<>> \in Order
    BY <1>2 DEF Order
  <1>4. \A i \in 1..N : \A s \in Order : D[i][s] = Turn2(i, s)
    OBVIOUS
  <1> HIDE DEF f, N, D, Turn2
  <1>5. PICK g \in [0..N -> Order] : g[0] = <<>> /\ \A i \in 1..N : g[i] = D[i][g[i - 1]]
    <2> DEFINE first == <<>>
    <2>1. IsTurns(N, Order, <<>>, D)
      BY <1>1, <1>3 DEF IsTurns
    <2> QED
      BY <2>1, LoopDefined
  <1>6. \A i \in 0..N : i # 0 => i \in 1..N /\ i - 1 \in 0..N
    BY <1>1
  <1>7. g = F(g)
    <2>1. \A i \in 0..N : g[i] = IF i = 0 THEN <<>> ELSE Turn2(i, g[i - 1])
      BY <1>4, <1>5, <1>6
    <2> QED
      BY <2>1
  <1>8. f = F(f)
    <2>1. f = CHOOSE h : h = F(h)
      BY DEF Turn2, N, SkipLoop, f
    <2> HIDE DEF F
    <2> QED
      BY <1>7, <2>1, Zenon
  <1>9. 0 \in 0..N /\ \A i \in 1..N : i \in 0..N /\ i # 0
    BY <1>1
  <1>10. f[0] = <<>>
    BY <1>8, <1>9
  <1>11. \A i \in 1..N : f[i] = Turn2(i, f[i - 1])
    BY <1>8, <1>9
  <1> QED
    BY <1>10, <1>11 DEF Turn2, N, f, Skips

\* EnsureDepsRunning brings up everything the target needs, each container
\* behind its dependencies, and not the target.
THEOREM DependenciesInOrder ==
    ASSUME NEW target \in Container
    PROVE  /\ DepsInOrder(target) \in Orders(Container)
           /\ ToSet(DepsInOrder(target)) = Below(target)
           /\ TopologicalSort(target) = Append(DepsInOrder(target), target)
  <1> DEFINE order == TopologicalSort(target)
             N == Len(order)
             M == N - 1
             f == SkipLoop(order, target)
             d == DepsInOrder(target)
  <1>1. /\ order \in Orders(Container) /\ order \in Seq(Container)
        /\ ToSet(order) = Reach(target)
        /\ N \in Nat \ {0} /\ order[N] = target
    BY StartOrder DEF Orders, Order
  <1>2. d = f[N]
    BY DEF DepsInOrder, SkipLoop
  <1>3. /\ f[0] = <<>>
        /\ \A i \in 1..N : f[i] = IF order[i] = target THEN f[i - 1] ELSE Append(f[i - 1], order[i])
    <2>1. order \in Order
      BY <1>1 DEF Order
    <2>2. Skips(order, target, f)
      BY <2>1, SkipLoopTurns
    <2> HIDE DEF order, f
    <2> QED
      BY <2>2 DEF Skips
  <1> HIDE DEF f, order, d
  <1>4. M \in Nat /\ N \in 1..N /\ \A i \in 1..M : i \in 1..N /\ i # N
    BY <1>1
  <1>5. \A i \in 1..M : order[i] # target
    BY <1>1, <1>4 DEF Orders, Distinct
  <1> DEFINE T == {i \in 0..M : /\ f[i] \in Seq(Container) /\ Len(f[i]) = i
                                /\ \A j \in 1..i : f[i][j] = order[j]}
  <1>6. 0 \in T
    <2>1. 0 \in 0..M /\ 1..0 = {} /\ <<>> \in Seq(Container) /\ Len(<<>>) = 0
      BY <1>4
    <2> HIDE DEF M, N
    <2> QED
      BY <1>3, <2>1
  <1>7. ASSUME NEW i \in 1..M, i - 1 \in T
        PROVE  i \in T
    <2> DEFINE s == f[i - 1]
    <2>1. i \in 0..M /\ i - 1 \in 0..M /\ (i - 1) + 1 = i /\ order[i] \in Container
      BY <1>1, <1>4
    <2>2. s \in Seq(Container) /\ Len(s) = i - 1 /\ \A j \in 1..(i - 1) : s[j] = order[j]
      BY <1>7
    <2>3. f[i] = Append(s, order[i])
      BY <1>3, <1>4, <1>5
    <2> HIDE DEF s, M
    <2>4. /\ Append(s, order[i]) \in Seq(Container)
          /\ Len(Append(s, order[i])) = i
          /\ \A j \in 1..(i - 1) : Append(s, order[i])[j] = s[j]
          /\ Append(s, order[i])[i] = order[i]
      BY <2>1, <2>2, AppendToSet
    <2>5. \A j \in 1..i : j = i \/ j \in 1..(i - 1)
      BY <2>1
    <2> QED
      BY <2>1, <2>2, <2>3, <2>4, <2>5
  <1>8. M \in T
    <2> HIDE DEF T, M
    <2>1. 0..M \subseteq T
      BY <1>4, <1>6, <1>7, LoopInduction
    <2>2. M \in 0..M
      BY <1>4
    <2> QED
      BY <2>1, <2>2
  <1>9. d = f[M]
    BY <1>1, <1>2, <1>3, <1>4
  <1>10. d \in Seq(Container) /\ Len(d) = M /\ \A j \in 1..M : d[j] = order[j]
    BY <1>8, <1>9
  <1> HIDE DEF T
  <1>11. order = Append(d, target)
    <2> DEFINE t == Append(d, target)
    <2>1. t \in Seq(Container) /\ Len(t) = N /\ t[N] = target /\ \A j \in 1..M : t[j] = order[j]
      <3>1. M + 1 = N
        BY <1>1
      <3> HIDE DEF M
      <3> QED
        BY <1>10, <3>1, AppendToSet
    <2> HIDE DEF t
    <2>2. \A j \in 1..N : j = N \/ j \in 1..M
      BY <1>1
    <2>3. \A j \in 1..N : t[j] = order[j]
      BY <1>1, <2>1, <2>2
    <2> HIDE DEF N
    <2>4. t = order
      BY <1>1, <2>1, <2>3 DEF N
    <2> QED
      BY <2>4 DEF t
  <1>12. d \in Orders(Container)
    <2>1. \A i \in 1..M : \A j \in 1..(i - 1) : j \in 1..M
      BY <1>4
    <2>2. Distinct(d)
      BY <1>1, <1>4, <1>10 DEF Orders, Distinct
    <2>3. Sorted(Container, d)
      <3> SUFFICES ASSUME NEW i \in 1..M, NEW x \in DepSet(d[i]) \cap Container
                   PROVE  \E j \in 1..(i - 1) : d[j] = x
        BY <1>10 DEF Sorted
      <3>1. d[i] = order[i] /\ i \in 1..N
        BY <1>4, <1>10
      <3>2. PICK j \in 1..(i - 1) : order[j] = x
        BY <1>1, <3>1 DEF Orders, Sorted
      <3> QED
        BY <1>10, <2>1, <3>2
    <2> QED
      BY <1>10, <2>2, <2>3 DEF Orders, Order
  <1>13. ToSet(d) = Below(target)
    <2>1. Reach(target) = ToSet(d) \cup {target}
      BY <1>1, <1>10, <1>11, AppendToSet
    <2>2. target \notin ToSet(d)
      BY <1>5, <1>10, InToSet
    <2> QED
      BY <2>1, <2>2, NotBelowItself DEF Reach
  <1> QED
    BY <1>11, <1>12, <1>13 DEF d, order

-----------------------------------------------------------------------------
(***************************************************************************)
(* The stop orders: topoMergeStop visits the members of the shutdown set   *)
(* in the order of a walk over a Go map, which is any.                     *)
(***************************************************************************)
MergeLoop(toStop, roots) ==
    CHOOSE after :
        after = [i \in 0..Len(roots) |->
                    IF i = 0 THEN <<>> ELSE VisitWithin(toStop)[roots[i]][after[i - 1]]]

Merges(toStop, roots, f) ==
    /\ f[0] = <<>>
    /\ \A i \in 1..Len(roots) : f[i] = VisitWithin(toStop)[roots[i]][f[i - 1]]

LEMMA MergeLoopTurns ==
    ASSUME NEW toStop \in SUBSET Container, NEW roots \in Seq(toStop)
    PROVE  Merges(toStop, roots, MergeLoop(toStop, roots))
  <1> DEFINE V == VisitWithin(toStop)
             f == MergeLoop(toStop, roots)
             N == Len(roots)
             D == [i \in 1..N |-> V[roots[i]]]
             F(h) == [i \in 0..N |-> IF i = 0 THEN <<>> ELSE V[roots[i]][h[i - 1]]]
  <1>1. N \in Nat /\ \A i \in 1..N : roots[i] \in Container
    OBVIOUS
  <1>2. V \in [Container -> Visits]
    BY VisitDefined
  <1> HIDE DEF V
  <1>3. D \in [1..N -> [Order -> Order]] /\ <<>> \in Order
    BY <1>1, <1>2 DEF Visits, Order
  <1>4. \A i \in 1..N : D[i] = V[roots[i]]
    OBVIOUS
  <1> HIDE DEF f, N, D
  <1>5. PICK g \in [0..N -> Order] : g[0] = <<>> /\ \A i \in 1..N : g[i] = D[i][g[i - 1]]
    <2>1. IsTurns(N, Order, <<>>, D)
      BY <1>1, <1>3 DEF IsTurns
    <2> QED
      BY <2>1, LoopDefined
  <1>6. \A i \in 0..N : i # 0 => i \in 1..N
    BY <1>1
  <1>7. g = F(g)
    <2>1. \A i \in 0..N : g[i] = IF i = 0 THEN <<>> ELSE V[roots[i]][g[i - 1]]
      BY <1>4, <1>5, <1>6
    <2> QED
      BY <2>1
  <1>8. f = F(f)
    <2>1. f = CHOOSE h : h = F(h)
      BY DEF N, MergeLoop, f, V
    <2> HIDE DEF F
    <2> QED
      BY <1>7, <2>1, Zenon
  <1>9. 0 \in 0..N /\ \A i \in 1..N : i \in 0..N /\ i # 0
    BY <1>1
  <1>10. f[0] = <<>>
    BY <1>8, <1>9
  <1>11. \A i \in 1..N : f[i] = V[roots[i]][f[i - 1]]
    BY <1>8, <1>9
  <1> QED
    BY <1>10, <1>11 DEF N, f, V, Merges

\* A walk over a set of containers visits all of them.
LEMMA WalkVisitsAll ==
    ASSUME NEW toStop \in SUBSET Container, NEW roots \in SetToSeqs(toStop)
    PROVE  /\ roots \in Seq(toStop)
           /\ \A c \in toStop : \E i \in 1..Len(roots) : roots[i] = c
  <1> DEFINE n == Cardinality(toStop)
  <1>1. IsFiniteSet(toStop) /\ n \in Nat
    BY DependsOnAssumption, FS_Subset, FS_CardinalityType
  <1>2. roots \in [1..n -> toStop] /\ \A i, j \in 1..n : i # j => roots[i] # roots[j]
    BY DEF SetToSeqs
  <1>3. roots \in Injection(1..n, toStop)
    <2>1. \A i, j \in 1..n : roots[i] = roots[j] => i = j
      BY <1>2
    <2> HIDE DEF n
    <2> QED
      BY <1>2, <2>1 DEF Injection, IsInjective
  <1>4. Cardinality(1..n) = n
    BY <1>1, FS_Interval
  <1>5. roots \in Surjection(1..n, toStop)
    BY <1>1, <1>3, <1>4, FS_Injection
  <1>6. roots \in Seq(toStop) /\ Len(roots) = n
    BY <1>1, <1>2
  <1> QED
    BY <1>5, <1>6 DEF Surjection

\* Whatever the walk, a stop order lists the shutdown set, no container twice
\* and each behind the dependencies of it that are to stop too.
THEOREM StopOrder ==
    ASSUME NEW toStop \in SUBSET Container, NEW order \in TopoMergeStop(toStop)
    PROVE  order \in Orders(toStop) /\ ToSet(order) = toStop
  <1> DEFINE V == VisitWithin(toStop)
  <1>1. PICK roots \in SetToSeqs(toStop) : order = MergeLoop(toStop, roots)[Len(roots)]
    BY DEF TopoMergeStop, StopOrders, MergeLoop
  <1> DEFINE f == MergeLoop(toStop, roots)
             N == Len(roots)
  <1>2. roots \in Seq(toStop) /\ N \in Nat /\ (\A i \in 1..N : roots[i] \in toStop)
        /\ \A c \in toStop : \E i \in 1..N : roots[i] = c
    BY WalkVisitsAll
  <1>3. f[0] = <<>> /\ \A i \in 1..N : f[i] = V[roots[i]][f[i - 1]]
    BY <1>2, MergeLoopTurns DEF Merges
  <1>4. \A c \in toStop : \A s \in Orders(toStop) :
            V[c][s] \in Orders(toStop) /\ Grows(toStop, c, s, V[c][s])
    <2>1. \A c \in toStop : DepSet(c) \cap toStop \subseteq toStop
      OBVIOUS
    <2>2. \A c \in toStop : \A s \in Order : Grows(toStop, c, s, V[c][s])
      BY <2>1, VisitGrows
    <2> QED
      BY <2>2, VisitKeepsOrder DEF Orders
  <1> HIDE DEF f, V
  <1> DEFINE T == {i \in 0..N : /\ f[i] \in Orders(toStop)
                                /\ ToSet(f[i]) \subseteq toStop
                                /\ \A j \in 1..i : roots[j] \in ToSet(f[i])}
  <1>5. 0 \in T
    <2>1. 0 \in 0..N /\ 1..0 = {}
      BY <1>2
    <2> HIDE DEF N
    <2> QED
      BY <1>3, <2>1, EmptyOrder
  <1>6. ASSUME NEW i \in 1..N, i - 1 \in T
        PROVE  i \in T
    <2> DEFINE s == f[i - 1]
               r == f[i]
    <2>1. s \in Orders(toStop) /\ ToSet(s) \subseteq toStop /\ \A j \in 1..(i - 1) : roots[j] \in ToSet(s)
      BY <1>6
    <2>2. r = V[roots[i]][s] /\ roots[i] \in toStop /\ i \in 0..N
      <3> HIDE DEF N, T
      <3>1. roots[i] \in toStop /\ i \in 0..N
        BY <1>2
      <3>2. r = V[roots[i]][s]
        BY <1>3
      <3> QED
        BY <3>1, <3>2
    <2> HIDE DEF s, r, N
    <2>3. r \in Orders(toStop) /\ Grows(toStop, roots[i], s, r)
      BY <1>4, <2>1, <2>2
    <2>4. ToSet(s) \subseteq ToSet(r)
      BY <2>1, <2>2, <2>3, ProlongsFacts DEF Grows, Orders
    <2>5. \A j \in 1..i : j = i \/ j \in 1..(i - 1)
      BY <2>2
    <2>6. \A j \in 1..i : roots[j] \in ToSet(r)
      BY <2>1, <2>3, <2>4, <2>5 DEF Grows
    <2> QED
      BY <2>1, <2>2, <2>3, <2>6 DEF Grows, r
  <1>7. N \in T
    <2> HIDE DEF T, N
    <2>1. 0..N \subseteq T
      BY <1>2, <1>5, <1>6, LoopInduction
    <2>2. N \in 0..N
      BY <1>2
    <2> QED
      BY <2>1, <2>2
  <1>8. order = f[N]
    BY <1>1 DEF f
  <1> HIDE DEF N
  <1> QED
    BY <1>2, <1>7, <1>8

-----------------------------------------------------------------------------
(***************************************************************************)
(* The queue of a cascade: a stop order backwards.                         *)
(***************************************************************************)
\* No container of the queue depends on one that is before it.
DependentsAhead(q) == \A i, j \in 1..Len(q) : i < j => q[i] \notin DepSet(q[j])

LEMMA TailKeepsAhead ==
    ASSUME NEW S, NEW q \in Seq(S), q # <<>>, DependentsAhead(q)
    PROVE  /\ Tail(q) \in Seq(S)
           /\ DependentsAhead(Tail(q))
           /\ \A d \in ToSet(Tail(q)) : Head(q) \notin DepSet(d)
  <1> DEFINE t == Tail(q)
             n == Len(q)
  <1>1. n \in Nat \ {0} /\ t \in Seq(S) /\ Len(t) = n - 1
        /\ Head(q) = q[1] /\ \A i \in 1..(n - 1) : t[i] = q[i + 1]
    OBVIOUS
  <1>2. \A i \in 1..(n - 1) : i + 1 \in 1..n /\ 1 < i + 1
    BY <1>1
  <1>3. 1 \in 1..n
    BY <1>1
  <1> HIDE DEF t
  <1>4. DependentsAhead(t)
    <2> SUFFICES ASSUME NEW i \in 1..(n - 1), NEW j \in 1..(n - 1), i < j
                 PROVE  t[i] \notin DepSet(t[j])
      BY <1>1 DEF DependentsAhead
    <2>1. i + 1 \in 1..n /\ j + 1 \in 1..n /\ i + 1 < j + 1
      BY <1>2
    <2> QED
      BY <1>1, <2>1 DEF DependentsAhead
  <1>5. ASSUME NEW d \in ToSet(t)
        PROVE  Head(q) \notin DepSet(d)
    <2>1. PICK i \in 1..(n - 1) : t[i] = d
      BY <1>1, <1>5, InToSet
    <2>2. q[1] \notin DepSet(q[i + 1])
      BY <1>2, <1>3 DEF DependentsAhead
    <2> QED
      BY <1>1, <2>1, <2>2
  <1> QED
    BY <1>1, <1>4, <1>5 DEF t

\* The cascade takes the shutdown set in an order in which everyone has had
\* its turn before what it depends on.
THEOREM CascadeOrder ==
    ASSUME NEW toStop \in SUBSET Container, NEW order \in TopoMergeStop(toStop)
    PROVE  /\ Reverse(order) \in Seq(toStop)
           /\ ToSet(Reverse(order)) = toStop
           /\ Distinct(Reverse(order))
           /\ DependentsAhead(Reverse(order))
  <1> DEFINE n == Len(order)
             q == Reverse(order)
  <1>1. /\ order \in Seq(Container) /\ n \in Nat /\ ToSet(order) = toStop
        /\ Distinct(order) /\ Sorted(toStop, order)
    BY StopOrder DEF Orders, Order
  <1>2. \A i \in 1..n : order[i] \in toStop
    BY <1>1, InToSet
  <1>3. q = [i \in 1..n |-> order[(n - i) + 1]]
    BY DEF Reverse
  <1> HIDE DEF q, n
  <1>4. \A i \in 1..n : (n - i) + 1 \in 1..n /\ (n - ((n - i) + 1)) + 1 = i
    BY <1>1
  <1>5. q \in Seq(toStop) /\ Len(q) = n /\ \A i \in 1..n : q[i] = order[(n - i) + 1]
    BY <1>1, <1>2, <1>3, <1>4
  <1>6. ToSet(q) = toStop
    <2>1. ASSUME NEW c \in toStop
          PROVE  c \in ToSet(q)
      <3>1. PICK i \in 1..n : order[i] = c
        BY <1>1, InToSet DEF n
      <3>2. (n - i) + 1 \in 1..n /\ q[(n - i) + 1] = c
        BY <1>4, <1>5, <3>1
      <3> QED
        BY <1>5, <3>2, InToSet
    <2> QED
      BY <1>5, <2>1, InToSet
  <1>7. Distinct(q)
    <2> SUFFICES ASSUME NEW i \in 1..n, NEW j \in 1..n, q[i] = q[j]
                 PROVE  i = j
      BY <1>5 DEF Distinct
    <2>1. (n - i) + 1 = (n - j) + 1
      BY <1>1, <1>4, <1>5 DEF Distinct, n
    <2> QED
      BY <1>1, <2>1
  <1>8. DependentsAhead(q)
    <2> SUFFICES ASSUME NEW i \in 1..n, NEW j \in 1..n, i < j, q[i] \in DepSet(q[j])
                 PROVE  FALSE
      BY <1>5 DEF DependentsAhead
    <2> DEFINE a == (n - i) + 1
               b == (n - j) + 1
    <2>1. a \in 1..n /\ b \in 1..n /\ b < a /\ q[i] = order[a] /\ q[j] = order[b]
      BY <1>1, <1>4, <1>5
    <2> HIDE DEF a, b
    <2>2. order[a] \in DepSet(order[b]) \cap toStop
      BY <1>2, <2>1
    <2>3. PICK k \in 1..(b - 1) : order[k] = order[a]
      BY <1>1, <2>1, <2>2 DEF Sorted, n
    <2>4. k \in 1..n /\ k # a
      BY <1>1, <2>1
    <2> QED
      BY <1>1, <2>1, <2>3, <2>4 DEF Distinct, n
  <1> QED
    BY <1>5, <1>6, <1>7, <1>8 DEF q
=============================================================================
