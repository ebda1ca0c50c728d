----------------------------- MODULE Recursion ------------------------------
(***************************************************************************)
(* Induction and recursion in a form that needs no operator as parameter:  *)
(* a property of numbers is the set of numbers that have it, a recursive   *)
(* definition is a function of functions.  The proofs about the            *)
(* depth-first searches of the gateway rest on these lemmas, and on two    *)
(* about sequences.                                                        *)
(***************************************************************************)
EXTENDS Naturals, SequencesExt, WellFoundedInduction, TLAPS

(***************************************************************************)
(* Natural numbers.                                                        *)
(***************************************************************************)

\* Every non-empty set of natural numbers has a least member.
LEMMA NatMinimum ==
    ASSUME NEW T \in SUBSET Nat, T # {}
    PROVE  \E m \in T : \A n \in T : m <= n
  <1>1. IsWellFoundedOn(OpToRel(<, Nat), Nat)
    BY NatLessThanWellFounded
  <1>2. \E m \in T : \A n \in T : ~ (<<n, m>> \in OpToRel(<, Nat))
    BY <1>1, WFMin, Zenon
  <1>3. \A m, n \in Nat : <<n, m>> \in OpToRel(<, Nat) <=> n < m
    BY DEF OpToRel
  <1>4. PICK m \in T : \A n \in T : ~ (<<n, m>> \in OpToRel(<, Nat))
    BY <1>2
  <1>5. \A n \in T : ~ (n < m)
    BY <1>3, <1>4, Zenon
  <1> QED
    BY <1>5

\* A set with 0 and with the successors of its members has all numbers.
LEMMA NatInductionSet ==
    ASSUME NEW S, 0 \in S, \A n \in Nat : n \in S => n + 1 \in S
    PROVE  Nat \subseteq S
  <1> SUFFICES ASSUME Nat \ S # {}
               PROVE  FALSE
    OBVIOUS
  <1>1. PICK m \in Nat \ S : \A n \in Nat \ S : m <= n
    BY NatMinimum
  <1>2. m # 0 /\ m - 1 \in Nat /\ (m - 1) + 1 = m
    BY <1>1
  <1>3. m - 1 \in S
    BY <1>1, <1>2
  <1> QED
    BY <1>1, <1>2, <1>3

\* The same up to a bound: how the turns of a loop are counted here.
LEMMA LoopInduction ==
    ASSUME NEW N \in Nat, NEW S, 0 \in S,
           \A i \in 1..N : i - 1 \in S => i \in S
    PROVE  0..N \subseteq S
  <1> DEFINE T == {n \in Nat : n <= N => n \in S}
  <1>1. \A n \in Nat : n \in T => n + 1 \in T
    <2> SUFFICES ASSUME NEW n \in Nat, n \in T, n + 1 <= N
                 PROVE  n + 1 \in S
      OBVIOUS
    <2>1. n \in S /\ n + 1 \in 1..N /\ (n + 1) - 1 = n
      OBVIOUS
    <2> QED
      BY <2>1
  <1>2. 0 \in T
    OBVIOUS
  <1> HIDE DEF T
  <1>3. Nat \subseteq T
    BY <1>1, <1>2, NatInductionSet
  <1> QED
    BY <1>3 DEF T

\* A loop of N turns over S: D[i] is its i-th turn, a what it begins with.
IsTurns(N, S, a, D) == N \in Nat /\ a \in S /\ D \in [1..N -> [S -> S]]

\* What it computes, turn by turn, exists.
LEMMA LoopDefined ==
    ASSUME NEW N, NEW S, NEW a, NEW D, IsTurns(N, S, a, D)
    PROVE  \E f \in [0..N -> S] : f[0] = a /\ \A i \in 1..N : f[i] = D[i][f[i - 1]]
  <1> DEFINE Prefix(n, f) == f = [i \in 0..n |-> IF i = 0 THEN a ELSE D[i][f[i - 1]]]
             T == {n \in 0..N : \E f \in [0..n -> S] : Prefix(n, f)}
  <1> USE DEF IsTurns
  <1>1. 0 \in T
    <2> DEFINE g == [i \in 0..0 |-> a]
    <2>1. g \in [0..0 -> S] /\ Prefix(0, g)
      OBVIOUS
    <2> HIDE DEF g, Prefix
    <2> QED
      BY <2>1
  <1>2. ASSUME NEW n \in 1..N, n - 1 \in T
        PROVE  n \in T
    <2>1. PICK f \in [0..(n - 1) -> S] : Prefix(n - 1, f)
      BY <1>2
    <2> DEFINE g == [i \in 0..n |-> IF i = n THEN D[n][f[n - 1]] ELSE f[i]]
    <2>2. g \in [0..n -> S]
      OBVIOUS
    <2>3. ASSUME NEW i \in 0..n
          PROVE  g[i] = IF i = 0 THEN a ELSE D[i][g[i - 1]]
      <3>1. CASE i = n
        BY <3>1
      <3>2. CASE i # n /\ i # 0
        <4>1. i \in 0..(n - 1) /\ i - 1 \in 0..(n - 1) /\ i - 1 # n /\ i - 1 \in 0..n
          BY <3>2
        <4>2. f[i] = D[i][f[i - 1]]
          BY <2>1, <3>2, <4>1
        <4> QED
          BY <3>2, <4>1, <4>2
      <3>3. CASE i # n /\ i = 0
        BY <2>1, <3>3
      <3> QED
        BY <3>1, <3>2, <3>3
    <2>4. Prefix(n, g)
      BY <2>3
    <2> HIDE DEF g, Prefix
    <2> QED
      BY <2>2, <2>4
  <1> HIDE DEF T
  <1>3. 0..N \subseteq T
    BY <1>1, <1>2, LoopInduction
  <1>4. N \in T
    BY <1>3
  <1>5. PICK f \in [0..N -> S] : Prefix(N, f)
    BY <1>4 DEF T
  <1>6. f[0] = a /\ \A i \in 1..N : f[i] = D[i][f[i - 1]]
    BY <1>5
  <1> QED
    BY <1>6

-----------------------------------------------------------------------------
(***************************************************************************)
(* Recursion over the nodes of a graph without cycles.  H[c][v] is the     *)
(* value of the recursive definition at c if v gives its values elsewhere; *)
(* it looks at v at the nodes below c only, where v is in Ok.              *)
(***************************************************************************)
\* v is as it should be below c, and w agrees with it there.
Agree(Below, Ok, c, v, w) == \A d \in Below[c] : v[d] \in Ok[d] /\ v[d] = w[d]

\* The recursion stays in Ok and looks at the nodes below only.
StaysOk(C, V, Below, Ok, H) ==
    \A c \in C : \A v \in [C -> V] :
        (\A d \in Below[c] : v[d] \in Ok[d]) => H[c][v] \in Ok[c]

LooksBelow(C, V, Below, Ok, H) ==
    \A c \in C : \A v, w \in [C -> V] : Agree(Below, Ok, c, v, w) => H[c][v] = H[c][w]

\* Every set of nodes has one with nothing of the set below it.
WellFounded(C, Below) == \A S \in (SUBSET C) \ {{}} : \E c \in S : Below[c] \cap S = {}

GraphRecursion(C, V, Below, Ok, H) ==
    /\ Below \in [C -> SUBSET C]
    /\ Ok \in [C -> SUBSET V]
    /\ H \in [C -> [[C -> V] -> V]]
    /\ WellFounded(C, Below)
    /\ \A c \in C : Ok[c] # {}
    /\ StaysOk(C, V, Below, Ok, H)
    /\ LooksBelow(C, V, Below, Ok, H)

LEMMA WellFoundedRecursion ==
    ASSUME NEW C, NEW V, NEW Below, NEW Ok, NEW H, GraphRecursion(C, V, Below, Ok, H)
    PROVE  \E v \in [C -> V] : \A c \in C : v[c] = H[c][v] /\ v[c] \in Ok[c]
  <1> USE DEF GraphRecursion
  <1> DEFINE Solves(D, v) == \A c \in D : v[c] = H[c][v] /\ v[c] \in Ok[c]
             Closed(D) == \A c \in D : Below[c] \subseteq D
             Partial == {D \in SUBSET C : Closed(D) /\ \E v \in [C -> V] : Solves(D, v)}
             U == UNION Partial
  <1>1. ASSUME NEW D \in Partial, NEW E \in Partial,
               NEW v \in [C -> V], Solves(D, v), NEW w \in [C -> V], Solves(E, w)
        PROVE  \A c \in D \cap E : v[c] = w[c]
    <2> DEFINE Bad == {c \in D \cap E : v[c] # w[c]}
    <2> SUFFICES ASSUME Bad # {}
                 PROVE  FALSE
      OBVIOUS
    <2>1. Bad \in (SUBSET C) \ {{}}
      OBVIOUS
    <2>2. PICK c \in Bad : Below[c] \cap Bad = {}
      <3> HIDE DEF Bad
      <3> QED
        BY <2>1 DEF WellFounded
    <2>3. \A d \in Below[c] : d \in D /\ d \in E
      OBVIOUS
    <2>4. Agree(Below, Ok, c, v, w)
      BY <2>2, <2>3, <1>1 DEF Agree
    <2>5. c \in C /\ v[c] = H[c][v] /\ w[c] = H[c][w]
      BY <1>1
    <2>6. H[c][v] = H[c][w]
      <3> HIDE DEF Bad, Partial
      <3> QED
        BY <2>4, <2>5 DEF LooksBelow
    <2> QED
      BY <2>5, <2>6
  <1> DEFINE Value(c, x) == \E D \in Partial : \E v \in [C -> V] :
                                Solves(D, v) /\ c \in D /\ x = v[c]
             g == [c \in C |-> CHOOSE x \in V : c \in U => Value(c, x)]
  <1>2. \A c \in C : \E x \in V : c \in U => Value(c, x)
    <2> SUFFICES ASSUME NEW c \in C
                 PROVE  \E x \in V : c \in U => Value(c, x)
      OBVIOUS
    <2>1. CASE c \in U
      <3>1. PICK D \in Partial : c \in D
        BY <2>1
      <3>2. PICK v \in [C -> V] : Solves(D, v)
        OBVIOUS
      <3>3. Value(c, v[c]) /\ v[c] \in V
        <4> HIDE DEF Partial, Solves
        <4> QED
          BY <3>1, <3>2
      <3> QED
        BY <3>3
    <2>2. CASE c \notin U
      <3>1. PICK x \in Ok[c] : TRUE
        OBVIOUS
      <3> QED
        BY <2>2, <3>1
    <2> QED
      BY <2>1, <2>2
  <1>3. g \in [C -> V] /\ \A c \in U : Value(c, g[c])
    <2> HIDE DEF Value, U
    <2>1. g \in [C -> V]
      BY <1>2
    <2>2. \A c \in C : c \in U => Value(c, g[c])
      BY <1>2
    <2>3. U \subseteq C
      BY DEF U
    <2> QED
      BY <2>1, <2>2, <2>3
  <1> HIDE DEF g
  <1>4. ASSUME NEW D \in Partial, NEW v \in [C -> V], Solves(D, v), NEW c \in D
        PROVE  g[c] = v[c]
    <2>1. Value(c, g[c])
      BY <1>3
    <2>2. PICK E \in Partial, w \in [C -> V] : Solves(E, w) /\ c \in E /\ g[c] = w[c]
      BY <2>1
    <2> HIDE DEF Partial, Solves
    <2>3. \A x \in D \cap E : v[x] = w[x]
      BY <1>1, <1>4, <2>2
    <2> QED
      BY <1>4, <2>2, <2>3
  <1>5. Closed(U)
    OBVIOUS
  <1>6. Solves(U, g)
    <2> SUFFICES ASSUME NEW c \in U
                 PROVE  g[c] = H[c][g] /\ g[c] \in Ok[c]
      OBVIOUS
    <2>1. PICK D \in Partial : c \in D
      OBVIOUS
    <2>2. PICK v \in [C -> V] : Solves(D, v)
      OBVIOUS
    <2>3. \A d \in D : g[d] = v[d]
      <3> HIDE DEF Partial, Solves
      <3> QED
        BY <1>4, <2>2
    <2>4. c \in C /\ Below[c] \subseteq D
      BY <2>1
    <2>5. Agree(Below, Ok, c, v, g)
      BY <2>2, <2>3, <2>4 DEF Agree
    <2>6. H[c][v] = H[c][g]
      <3> HIDE DEF U, Partial
      <3> QED
        BY <1>3, <2>4, <2>5 DEF LooksBelow
    <2> QED
      BY <2>1, <2>2, <2>3, <2>6
  <1>7. C \ U = {}
    <2> SUFFICES ASSUME C \ U # {}
                 PROVE  FALSE
      OBVIOUS
    <2>1. PICK c \in C \ U : Below[c] \cap (C \ U) = {}
      <3> HIDE DEF U
      <3>1. C \ U \in (SUBSET C) \ {{}}
        OBVIOUS
      <3> QED
        BY <3>1 DEF WellFounded
    <2> DEFINE E == U \cup {c}
               e == [g EXCEPT ![c] = H[c][g]]
    <2>2. U \subseteq C /\ Below[c] \subseteq U
      <3> Below[c] \subseteq C
        OBVIOUS
      <3> QED
        BY <2>1
    <2>3. H[c][g] \in V /\ H[c][g] \in Ok[c]
      <3>1. \A d \in Below[c] : g[d] \in Ok[d]
        BY <1>6, <2>2
      <3> QED
        BY <1>3, <2>1, <3>1 DEF StaysOk
    <2>4. e \in [C -> V] /\ e[c] = H[c][g] /\ \A d \in U : e[d] = g[d]
      <3> HIDE DEF U
      <3>1. c \in C /\ \A d \in U : d \in C /\ d # c
        BY <2>1, <2>2
      <3> QED
        BY <1>3, <2>3, <3>1
    <2> HIDE DEF U, e
    <2>5. ASSUME NEW d \in E
          PROVE  e[d] = H[d][e] /\ e[d] \in Ok[d]
      <3>1. d \in C /\ Below[d] \subseteq U
        BY <1>5, <2>1, <2>2
      <3>2. Agree(Below, Ok, d, g, e)
        BY <1>6, <2>4, <3>1 DEF Agree
      <3>3. H[d][g] = H[d][e]
        <4> HIDE DEF E, Partial
        <4> QED
          BY <1>3, <2>4, <3>1, <3>2 DEF LooksBelow
      <3>4. CASE d = c
        BY <2>3, <2>4, <3>3, <3>4
      <3>5. CASE d \in U
        BY <1>6, <2>4, <3>3, <3>5
      <3> QED
        BY <3>4, <3>5
    <2>6. Closed(E) /\ Solves(E, e) /\ E \in SUBSET C
      BY <1>5, <2>1, <2>2, <2>5
    <2>7. E \in Partial
      <3> HIDE DEF E, Closed, Solves
      <3> QED
        BY <2>4, <2>6
    <2>8. c \in U
      <3> HIDE DEF Partial
      <3> QED
        BY <2>7 DEF U
    <2> QED
      BY <2>1, <2>8
  <1>8. \A c \in C : g[c] = H[c][g] /\ g[c] \in Ok[c]
    <2> HIDE DEF U
    <2> QED
      BY <1>6, <1>7
  <1> QED
    BY <1>3, <1>8

-----------------------------------------------------------------------------
(***************************************************************************)
(* Sequences and their sets.                                               *)
(***************************************************************************)
LEMMA InToSet ==
    ASSUME NEW S, NEW s \in Seq(S), NEW x
    PROVE  /\ x \in ToSet(s) <=> \E i \in 1..Len(s) : s[i] = x
           /\ Contains(s, x) <=> x \in ToSet(s)
           /\ ToSet(s) \subseteq S
  BY DEF ToSet, Contains

LEMMA AppendToSet ==
    ASSUME NEW S, NEW s \in Seq(S), NEW x \in S
    PROVE  /\ Append(s, x) \in Seq(S)
           /\ Len(Append(s, x)) = Len(s) + 1
           /\ \A i \in 1..Len(s) : Append(s, x)[i] = s[i]
           /\ Append(s, x)[Len(s) + 1] = x
           /\ ToSet(Append(s, x)) = ToSet(s) \cup {x}
  <1> DEFINE t == Append(s, x)
  <1>1. /\ t \in Seq(S)
        /\ Len(s) \in Nat
        /\ Len(t) = Len(s) + 1
        /\ \A i \in 1..Len(s) : t[i] = s[i]
        /\ t[Len(s) + 1] = x
    OBVIOUS
  <1> HIDE DEF t
  <1>2. \A y : y \in ToSet(t) <=> \E i \in 1..(Len(s) + 1) : t[i] = y
    BY <1>1, InToSet
  <1>3. \A y : y \in ToSet(s) <=> \E i \in 1..Len(s) : s[i] = y
    BY InToSet
  <1>4. ASSUME NEW y \in ToSet(t)
        PROVE  y \in ToSet(s) \cup {x}
    <2>1. PICK i \in 1..(Len(s) + 1) : t[i] = y
      BY <1>2, <1>4
    <2> QED
      BY <1>1, <1>3, <2>1
  <1>5. ASSUME NEW y \in ToSet(s)
        PROVE  y \in ToSet(t)
    <2>1. PICK i \in 1..Len(s) : s[i] = y
      BY <1>3, <1>5
    <2>2. i \in 1..(Len(s) + 1) /\ t[i] = y
      BY <1>1, <2>1
    <2> QED
      BY <1>2, <2>2
  <1>6. x \in ToSet(t)
    <2>1. Len(s) + 1 \in 1..(Len(s) + 1)
      BY <1>1
    <2> QED
      BY <1>1, <1>2, <2>1
  <1>7. ToSet(t) = ToSet(s) \cup {x}
    BY <1>4, <1>5, <1>6
  <1> QED
    BY <1>1, <1>7 DEF t
=============================================================================
