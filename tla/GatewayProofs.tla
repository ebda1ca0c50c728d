---------------------------- MODULE GatewayProofs ----------------------------
(***************************************************************************)
(* Theorems about Gateway, for any containers, dependencies, groups,       *)
(* handlers and goroutines: that it uses its manager as ContainerManager   *)
(* says, and what its start plans bring up first.                          *)
(***************************************************************************)
EXTENDS Gateway, DependenciesProofs

Plan == Seq(CM!Step)

(***************************************************************************)
(* The plans of the calls.                                                 *)
(***************************************************************************)
\* The containers that a plan brings up.
Names(steps) == {steps[i].name : i \in 1..Len(steps)}

\* Every step of the plan has the dependencies of its container before it.
DepsBefore(steps) ==
    \A i \in 1..Len(steps) : \A d \in DepSet(steps[i].name) :
        \E j \in 1..(i - 1) : steps[j].name = d

\* A plan that is complete in itself.
Plans == {steps \in Plan : DepsBefore(steps)}

LEMMA BringType ==
    ASSUME NEW c \in Container, NEW b \in BOOLEAN
    PROVE  Bring(c, b) \in CM!Step /\ Bring(c, b).name = c
  BY DEF Bring, CM!Step

LEMMA InLoopType ==
    ASSUME NEW s \in Order
    PROVE  /\ InLoop(s) \in Plan
           /\ Len(InLoop(s)) = Len(s)
           /\ \A i \in 1..Len(s) : InLoop(s)[i].name = s[i]
  <1>1. DOMAIN s = 1..Len(s) /\ Len(s) \in Nat /\ \A i \in 1..Len(s) : s[i] \in Container
    BY DEF Order
  <1>2. InLoop(s) = [i \in 1..Len(s) |-> Bring(s[i], TRUE)]
    BY <1>1 DEF InLoop
  <1>3. \A i \in 1..Len(s) : Bring(s[i], TRUE) \in CM!Step /\ Bring(s[i], TRUE).name = s[i]
    BY <1>1, BringType
  <1>4. InLoop(s) \in [1..Len(s) -> CM!Step]
    BY <1>2, <1>3
  <1>5. InLoop(s) \in Plan /\ Len(InLoop(s)) = Len(s)
    BY <1>1, <1>4 DEF Plan
  <1> QED
    BY <1>2, <1>3, <1>5

\* The steps of EnsureDepsRunning: what is below c, each behind its own.
LEMMA DepsPlanType ==
    ASSUME NEW c \in Container
    PROVE  DepsPlan(c) \in Plans /\ Names(DepsPlan(c)) = Below(c)
  <1> DEFINE s == DepsInOrder(c)
             steps == DepsPlan(c)
  <1>1. s \in Seq(Container) /\ Sorted(Container, s) /\ ToSet(s) = Below(c)
    BY DependenciesInOrder DEF Orders, Order
  <1>2. steps \in Plan /\ Len(steps) = Len(s) /\ \A i \in 1..Len(s) : steps[i].name = s[i]
    BY <1>1, InLoopType DEF DepsPlan, Order
  <1>3. Len(s) \in Nat /\ \A i \in 1..Len(s) : s[i] \in Container
    BY <1>1
  <1> HIDE DEF s, steps
  <1>4. DepsBefore(steps)
    <2> SUFFICES ASSUME NEW i \in 1..Len(s), NEW d \in DepSet(s[i])
                 PROVE  \E j \in 1..(i - 1) : steps[j].name = d
      BY <1>2 DEF DepsBefore
    <2>1. d \in Container
      BY <1>3, DepsType
    <2>2. PICK j \in 1..(i - 1) : s[j] = d
      BY <1>1, <2>1 DEF Sorted
    <2>3. j \in 1..Len(s)
      BY <1>3
    <2> QED
      BY <1>2, <2>2, <2>3
  <1>5. \A x : x \in Names(steps) <=> \E i \in 1..Len(s) : s[i] = x
    BY <1>2 DEF Names
  <1>6. Names(steps) = Below(c)
    <2>1. \A x : x \in ToSet(s) <=> \E i \in 1..Len(s) : s[i] = x
      BY <1>1, InToSet
    <2>2. \A x : x \in Names(steps) <=> x \in ToSet(s)
      BY <1>5, <2>1
    <2> QED
      BY <1>1, <2>2
  <1> QED
    BY <1>2, <1>4, <1>6 DEF Plans, steps

\* One more step, whose container has its dependencies in the plan.
LEMMA AppendPlan ==
    ASSUME NEW steps \in Plans, NEW c \in Container, NEW b \in BOOLEAN,
           DepSet(c) \subseteq Names(steps)
    PROVE  /\ Append(steps, Bring(c, b)) \in Plans
           /\ Append(steps, Bring(c, b)) # <<>>
  <1> DEFINE n == Len(steps)
             t == Append(steps, Bring(c, b))
  <1>1. steps \in Seq(CM!Step) /\ DepsBefore(steps) /\ n \in Nat
    BY DEF Plans, Plan
  <1>2. Bring(c, b) \in CM!Step /\ Bring(c, b).name = c
    BY BringType
  <1>3. /\ t \in Seq(CM!Step)
        /\ Len(t) = n + 1
        /\ \A i \in 1..n : t[i] = steps[i]
        /\ t[n + 1].name = c
    BY <1>1, <1>2, AppendToSet
  <1> HIDE DEF t
  <1>4. DepsBefore(t)
    <2> SUFFICES ASSUME NEW i \in 1..(n + 1), NEW d \in DepSet(t[i].name)
                 PROVE  \E j \in 1..(i - 1) : t[j].name = d
      BY <1>3 DEF DepsBefore
    <2>1. CASE i = n + 1
      <3>1. PICK j \in 1..n : steps[j].name = d
        BY <1>3, <2>1 DEF Names
      <3>2. j \in 1..(i - 1) /\ t[j].name = d
        BY <1>1, <1>3, <2>1, <3>1
      <3> QED
        BY <3>2
    <2>2. CASE i # n + 1
      <3>1. i \in 1..n
        BY <1>1, <2>2
      <3>2. PICK j \in 1..(i - 1) : steps[j].name = d
        BY <1>1, <1>3, <3>1 DEF DepsBefore
      <3>3. j \in 1..n
        BY <1>1, <3>1
      <3> QED
        BY <1>3, <3>2, <3>3
    <2> QED
      BY <2>1, <2>2
  <1>5. t # <<>>
    BY <1>1, <1>3
  <1> QED
    BY <1>3, <1>4, <1>5 DEF t, Plans, Plan

\* One plan after the other.
LEMMA ConcatPlans ==
    ASSUME NEW a \in Plans, NEW b \in Plans
    PROVE  a \o b \in Plans /\ Names(a \o b) = Names(a) \cup Names(b)
  <1> DEFINE m == Len(a)
             n == Len(b)
             t == a \o b
  <1>1. /\ a \in Seq(CM!Step) /\ DepsBefore(a) /\ m \in Nat
        /\ b \in Seq(CM!Step) /\ DepsBefore(b) /\ n \in Nat
    BY DEF Plans, Plan
  <1>2. /\ t \in Seq(CM!Step)
        /\ Len(t) = m + n
        /\ \A i \in 1..m : t[i] = a[i]
        /\ \A i \in 1..n : t[m + i] = b[i]
    BY <1>1
  <1> HIDE DEF t
  <1>3. \A i \in 1..(m + n) : i \in 1..m \/ (i - m \in 1..n /\ m + (i - m) = i)
    BY <1>1
  <1>4. /\ \A i \in 1..m : i \in 1..(m + n)
        /\ \A i \in 1..n : m + i \in 1..(m + n)
    BY <1>1
  <1>5. DepsBefore(t)
    <2> SUFFICES ASSUME NEW i \in 1..(m + n), NEW d \in DepSet(t[i].name)
                 PROVE  \E j \in 1..(i - 1) : t[j].name = d
      BY <1>2 DEF DepsBefore
    <2>1. CASE i \in 1..m
      <3>1. PICK j \in 1..(i - 1) : a[j].name = d
        BY <1>1, <1>2, <2>1 DEF DepsBefore
      <3>2. j \in 1..m
        BY <1>1, <2>1
      <3> QED
        BY <1>2, <3>1, <3>2
    <2>2. CASE i - m \in 1..n
      <3>1. t[i] = b[i - m]
        BY <1>2, <1>3, <2>2
      <3>2. PICK j \in 1..((i - m) - 1) : b[j].name = d
        BY <1>1, <2>2, <3>1 DEF DepsBefore
      <3>3. j \in 1..n /\ m + j \in 1..(i - 1)
        BY <1>1, <2>2
      <3> QED
        BY <1>2, <3>2, <3>3
    <2> QED
      BY <1>3, <2>1, <2>2
  <1>6. Names(t) = Names(a) \cup Names(b)
    <2>1. ASSUME NEW x \in Names(t)
          PROVE  x \in Names(a) \cup Names(b)
      <3>1. PICK i \in 1..(m + n) : t[i].name = x
        BY <1>2 DEF Names
      <3>2. CASE i \in 1..m
        <4>1. a[i].name = x
          BY <1>2, <3>1, <3>2
        <4> QED
          BY <3>2, <4>1 DEF Names
      <3>3. CASE i - m \in 1..n
        <4>1. b[i - m].name = x
          BY <1>2, <1>3, <3>1, <3>3
        <4> QED
          BY <3>3, <4>1 DEF Names
      <3> QED
        BY <1>3, <3>2, <3>3
    <2>2. ASSUME NEW x \in Names(a) \cup Names(b)
          PROVE  x \in Names(t)
      <3>1. CASE x \in Names(a)
        <4>1. PICK i \in 1..m : a[i].name = x
          BY <3>1 DEF Names
        <4> QED
          BY <1>2, <1>4, <4>1 DEF Names
      <3>2. CASE x \in Names(b)
        <4>1. PICK i \in 1..n : b[i].name = x
          BY <3>2 DEF Names
        <4>2. m + i \in 1..(m + n) /\ t[m + i].name = x
          BY <1>2, <1>4, <4>1
        <4> QED
          BY <1>2, <4>2 DEF Names
      <3> QED
        BY <3>1, <3>2
    <2> QED
      BY <2>1, <2>2
  <1> QED
    BY <1>2, <1>5, <1>6 DEF t, Plans, Plan

\* The dependencies of all members: the loop of EnsureGroupRunning.
GroupLoop(group) ==
    CHOOSE after :
        after = [i \in 0..Len(group) |->
                    IF i = 0 THEN <<>> ELSE after[i - 1] \o DepsPlan(group[i])]

Joins(group, f) ==
    /\ f[0] = <<>>
    /\ \A i \in 1..Len(group) : f[i] = f[i - 1] \o DepsPlan(group[i])

LEMMA GroupLoopTurns ==
    ASSUME NEW group \in Order
    PROVE  Joins(group, GroupLoop(group))
  <1> DEFINE f == GroupLoop(group)
             N == Len(group)
             D == [i \in 1..N |-> [s \in Plans |-> s \o DepsPlan(group[i])]]
             F(h) == [i \in 0..N |-> IF i = 0 THEN <<>> ELSE h[i - 1] \o DepsPlan(group[i])]
  <1>1. N \in Nat /\ \A i \in 1..N : group[i] \in Container
    BY DEF Order
  <1>2. D \in [1..N -> [Plans -> Plans]]
    BY <1>1, DepsPlanType, ConcatPlans
  <1>3. \A i \in 1..N : \A s \in Plans : D[i][s] = s \o DepsPlan(group[i])
    OBVIOUS
  <1>4. <<>> \in Plans
    BY DEF Plans, Plan, DepsBefore
  <1> HIDE DEF f, N, D
  <1>5. PICK g \in [0..N -> Plans] : g[0] = <<>> /\ \A i \in 1..N : g[i] = D[i][g[i - 1]]
    <2>1. IsTurns(N, Plans, <<>>, D)
      BY <1>1, <1>2, <1>4 DEF IsTurns
    <2> QED
      BY <2>1, LoopDefined
  <1>6. \A i \in 0..N : i # 0 => i \in 1..N /\ i - 1 \in 0..N
    BY <1>1
  <1>7. g = F(g)
    <2>1. \A i \in 0..N : g[i] = IF i = 0 THEN <<>> ELSE g[i - 1] \o DepsPlan(group[i])
      BY <1>3, <1>5, <1>6
    <2> QED
      BY <2>1
  <1>8. f = F(f)
    <2>1. f = CHOOSE h : h = F(h)
      BY DEF N, GroupLoop, f
    <2> HIDE DEF F
    <2> QED
      BY <1>7, <2>1, Zenon
  <1>9. 0 \in 0..N /\ \A i \in 1..N : i \in 0..N /\ i # 0
    BY <1>1
  <1>10. f[0] = <<>>
    BY <1>8, <1>9
  <1>11. \A i \in 1..N : f[i] = f[i - 1] \o DepsPlan(group[i])
    BY <1>8, <1>9
  <1> QED
    BY <1>10, <1>11 DEF N, f, Joins

LEMMA GroupDepsPlanType ==
    ASSUME NEW group \in Order
    PROVE  /\ GroupDepsPlan(group) \in Plans
           /\ \A i \in 1..Len(group) : Below(group[i]) \subseteq Names(GroupDepsPlan(group))
  <1> DEFINE f == GroupLoop(group)
             N == Len(group)
             T == {i \in 0..N : /\ f[i] \in Plans
                                /\ \A j \in 1..i : Below(group[j]) \subseteq Names(f[i])}
  <1>1. N \in Nat /\ \A i \in 1..N : group[i] \in Container
    BY DEF Order
  <1>2. f[0] = <<>> /\ \A i \in 1..N : f[i] = f[i - 1] \o DepsPlan(group[i])
    BY GroupLoopTurns DEF Joins
  <1>3. GroupDepsPlan(group) = f[N]
    BY DEF GroupDepsPlan, GroupLoop
  <1> HIDE DEF f
  <1>4. 0 \in T
    <2>1. 0 \in 0..N /\ 1..0 = {} /\ <<>> \in Plans
      BY <1>1 DEF Plans, Plan, DepsBefore
    <2> HIDE DEF N
    <2> QED
      BY <1>2, <2>1
  <1>5. ASSUME NEW i \in 1..N, i - 1 \in T
        PROVE  i \in T
    <2> DEFINE s == f[i - 1]
               d == DepsPlan(group[i])
    <2>1. s \in Plans /\ \A j \in 1..(i - 1) : Below(group[j]) \subseteq Names(s)
      BY <1>5
    <2>2. d \in Plans /\ Names(d) = Below(group[i])
      BY <1>1, DepsPlanType
    <2>3. f[i] = s \o d
      BY <1>2
    <2>4. i \in 0..N
      BY <1>1
    <2> HIDE DEF s, d, N
    <2>5. s \o d \in Plans /\ Names(s \o d) = Names(s) \cup Names(d)
      BY <2>1, <2>2, ConcatPlans
    <2>6. \A j \in 1..i : j = i \/ j \in 1..(i - 1)
      BY <2>4
    <2> QED
      BY <2>1, <2>2, <2>3, <2>4, <2>5, <2>6
  <1>6. N \in T
    <2> HIDE DEF T, N
    <2>1. 0..N \subseteq T
      BY <1>1, <1>4, <1>5, LoopInduction
    <2>2. N \in 0..N
      BY <1>1
    <2> QED
      BY <2>1, <2>2
  <1> QED
    BY <1>3, <1>6

LEMMA GroupJobPlan ==
    ASSUME NEW group \in Order, group # <<>>
    PROVE  GroupJob(group).plan \in Plans /\ GroupJob(group).plan # <<>>
  <1> DEFINE a == GroupDepsPlan(group)
             b == InLoop(group)
             m == Len(a)
             n == Len(group)
             t == a \o b
  <1>1. a \in Plans /\ a \in Seq(CM!Step) /\ DepsBefore(a) /\ m \in Nat
        /\ \A i \in 1..n : Below(group[i]) \subseteq Names(a)
    BY GroupDepsPlanType DEF Plans, Plan
  <1>2. b \in Seq(CM!Step) /\ Len(b) = n /\ \A i \in 1..n : b[i].name = group[i]
    BY InLoopType DEF Plan
  <1>3. n \in Nat \ {0} /\ \A i \in 1..n : group[i] \in Container
    BY DEF Order
  <1> HIDE DEF a, b, n
  <1>4. /\ t \in Seq(CM!Step)
        /\ Len(t) = m + n
        /\ \A i \in 1..m : t[i] = a[i]
        /\ \A i \in 1..n : t[m + i] = b[i]
    BY <1>1, <1>2, <1>3
  <1> HIDE DEF t
  <1>5. \A i \in 1..(m + n) : i \in 1..m \/ (i - m \in 1..n /\ m + (i - m) = i)
    BY <1>1, <1>3
  <1>6. DepsBefore(t)
    <2> SUFFICES ASSUME NEW i \in 1..(m + n), NEW d \in DepSet(t[i].name)
                 PROVE  \E j \in 1..(i - 1) : t[j].name = d
      BY <1>4 DEF DepsBefore
    <2>1. CASE i \in 1..m
      <3>1. PICK j \in 1..(i - 1) : a[j].name = d
        BY <1>1, <1>4, <2>1 DEF DepsBefore
      <3>2. j \in 1..m
        BY <1>1, <2>1
      <3> QED
        BY <1>4, <3>1, <3>2
    <2>2. CASE i - m \in 1..n
      <3>1. t[i].name = group[i - m]
        BY <1>2, <1>4, <1>5, <2>2
      <3>2. d \in Names(a)
        BY <1>1, <1>3, <2>2, <3>1, BelowClosed
      <3>3. PICK j \in 1..m : a[j].name = d
        BY <3>2 DEF Names
      <3>4. j \in 1..(i - 1)
        BY <1>1, <1>3, <2>2
      <3> QED
        BY <1>4, <3>3, <3>4
    <2> QED
      BY <1>5, <2>1, <2>2
  <1>7. t # <<>>
    BY <1>1, <1>3, <1>4
  <1> QED
    BY <1>4, <1>6, <1>7 DEF GroupJob, Plans, Plan, t, a, b

\* What every call of the gateway is for its manager.
LEMMA RequestJobType ==
    ASSUME NEW c \in Container
    PROVE  RequestJob(c) \in CM!Job /\ RequestJob(c).plan \in Plans /\ RequestJob(c).plan # <<>>
  <1>1. DepsPlan(c) \in Plans /\ DepSet(c) \subseteq Names(DepsPlan(c))
    BY DepsPlanType, BelowClosed
  <1>2. /\ Append(DepsPlan(c), Bring(c, FALSE)) \in Plans
        /\ Append(DepsPlan(c), Bring(c, FALSE)) # <<>>
    BY <1>1, AppendPlan
  <1> QED
    BY <1>2 DEF RequestJob, CM!Job, Plans, Plan

LEMMA RepairJobType ==
    ASSUME NEW c \in Container, DependsOn[c] # <<>>
    PROVE  RepairJob(c) \in CM!Job /\ RepairJob(c).plan \in Plans /\ RepairJob(c).plan # <<>>
  <1>1. DepsPlan(c) \in Plans /\ DepSet(c) \subseteq Names(DepsPlan(c))
    BY DepsPlanType, BelowClosed
  <1>2. 1 \in 1..Len(DependsOn[c])
    BY DepsType DEF Order
  <1>3. DependsOn[c][1] \in Names(DepsPlan(c))
    BY <1>1, <1>2, DepsType
  <1>4. DepsPlan(c) # <<>>
    BY <1>3 DEF Names
  <1> QED
    BY <1>1, <1>4 DEF RepairJob, CM!Job, Plans, Plan

LEMMA WakeJobType ==
    ASSUME NEW c \in Container
    PROVE  /\ WakeJob(c) \in CM!Job /\ WakeJob(c).plan # <<>>
           /\ DependsOn[c] = <<>> => WakeJob(c).plan \in Plans
  <1> DEFINE s == Bring(c, FALSE)
  <1>1. s \in CM!Step /\ s.name = c
    BY BringType
  <1>2. WakeJob(c).plan = <<s>> /\ WakeJob(c).marks = {c}
    BY DEF WakeJob
  <1> HIDE DEF s
  <1>3. <<s>> \in Seq(CM!Step) /\ <<s>> # <<>> /\ Len(<<s>>) = 1 /\ <<s>>[1] = s
    BY <1>1
  <1>4. WakeJob(c) \in CM!Job
    <2>1. WakeJob(c) = [marks |-> {c}, plan |-> <<s>>]
      BY DEF WakeJob, s
    <2> QED
      BY <1>3, <2>1 DEF CM!Job
  <1>5. ASSUME DependsOn[c] = <<>>
        PROVE  DepsBefore(<<s>>)
    <2>1. DepSet(c) = {}
      BY <1>5, EmptyOrder DEF DepSet
    <2>2. \A i \in 1..1 : i = 1
      OBVIOUS
    <2> QED
      BY <1>1, <1>3, <2>1, <2>2 DEF DepsBefore
  <1> QED
    BY <1>2, <1>3, <1>4, <1>5 DEF Plans, Plan

LEMMA GroupJobType ==
    ASSUME NEW group \in Groups
    PROVE  GroupJob(group) \in CM!Job /\ GroupJob(group).plan \in Plans /\ GroupJob(group).plan # <<>>
  <1>1. group \in Order /\ group # <<>>
    BY GatewayAssumption DEF Order
  <1>2. GroupJob(group).plan \in Plans /\ GroupJob(group).plan # <<>>
    BY <1>1, GroupJobPlan
  <1>3. ToSet(group) \in SUBSET Container
    BY <1>1, InToSet DEF Order
  <1> QED
    BY <1>2, <1>3 DEF GroupJob, CM!Job, Plans, Plan

\* The gateway keeps to what ContainerManager assumes of its callers, whatever
\* the configuration: EnsureDepsRunning and EnsureGroupRunning are called
\* with something to bring up, and only configured containers are stopped.
THEOREM CallsOfTheGateway ==
    /\ \A job \in GatewayJobs : job \in CM!Job /\ job.plan # <<>>
    /\ StoppedByGateway \subseteq Container
  <1>1. ASSUME NEW job \in GatewayJobs
        PROVE  job \in CM!Job /\ job.plan # <<>>
    <2>1. Requested \subseteq Container /\ Wakeable \cup StartJob \subseteq Container
      BY GatewayAssumption
    <2> QED
      BY <2>1, RequestJobType, RepairJobType, WakeJobType, GroupJobType DEF GatewayJobs
  <1>2. StoppedByGateway \subseteq Container
    <2>1. StopJob \subseteq Container /\ {c \in HasHost : IdleTimeout[c] # 0} \in SUBSET Container
      BY GatewayAssumption
    <2>2. ChainOf({c \in HasHost : IdleTimeout[c] # 0}) \subseteq Container
      BY <2>1, ChainOfType
    <2> QED
      BY <2>1, <2>2 DEF StoppedByGateway
  <1> QED
    BY <1>1, <1>2

-----------------------------------------------------------------------------
(***************************************************************************)
(* The manager inside the gateway.  CMP is the instance CM with what is    *)
(* proved about it; CallsOfTheGateway discharges its assumptions.          *)
(***************************************************************************)
CMP == INSTANCE ContainerManagerProofs
        WITH Jobs <- GatewayJobs, Stoppable <- StoppedByGateway

LEMMA ManagerAssumptions ==
    /\ None \notin Proc
    /\ \A job \in GatewayJobs : job \in CMP!Job /\ job.plan # <<>>
    /\ HTTPProbe \subseteq Container
    /\ StoppedByGateway \subseteq Container
    /\ Faults \subseteq CMP!FaultKind
    /\ MaxAge \in Nat /\ None \notin 0..MaxAge
  BY CallsOfTheGateway, GatewayAssumption, ProbesAndFaultsAssumption
     DEF CM!Job, CMP!Job, CM!Step, CMP!Step, CM!FaultKind, CMP!FaultKind

\* Both are instances of the same definitions.
LEMMA SameInit == CM!Init <=> CMP!Init
  BY DEF CM!Init, CMP!Init, CM!DockerState, CMP!DockerState

LEMMA SameStep == [CM!Next]_(CM!vars) <=> [CMP!Next]_(CMP!vars)
  BY Zenon
     DEF CM!Next, CMP!Next, CM!vars, CMP!vars, CM!Call, CMP!Call,
         CM!AcquireLock, CMP!AcquireLock, CM!Proceed, CMP!Proceed, CM!Expire,
         CMP!Expire, CM!RecordActivity, CMP!RecordActivity, CM!StopContainer,
         CMP!StopContainer, CM!ClearStartState, CMP!ClearStartState,
         CM!Environment, CMP!Environment, CM!Restart, CMP!Restart, CM!Tick,
         CMP!Tick, CM!InitStartState, CMP!InitStartState, CM!FoundRunning,
         CMP!FoundRunning, CM!FoundStopped, CMP!FoundStopped,
         CM!StartContainer, CMP!StartContainer, CM!StartRejected,
         CMP!StartRejected, CM!StartReplyLost, CMP!StartReplyLost,
         CM!GetContainerAddress, CMP!GetContainerAddress, CM!NoAddress,
         CMP!NoAddress, CM!GiveUp, CMP!GiveUp, CM!CrashedOnBoot,
         CMP!CrashedOnBoot, CM!StillBooting, CMP!StillBooting,
         CM!ProbeSucceeds, CMP!ProbeSucceeds, CM!ProbeFails, CMP!ProbeFails,
         CM!MarkRunning, CMP!MarkRunning, CM!Boot, CMP!Boot, CM!Crash,
         CMP!Crash, CM!OperatorStart, CMP!OperatorStart, CM!Remove, CMP!Remove,
         CM!Create, CMP!Create, CM!Becomes, CMP!Becomes, CM!goroutine,
         CMP!goroutine, CM!memory, CMP!memory, CM!Goto, CMP!Goto, CM!Finish,
         CMP!Finish, CM!Fail, CMP!Fail, CM!Return, CMP!Return, CM!Entry,
         CMP!Entry, CM!Cur, CMP!Cur, CM!Running, CMP!Running, CM!CanReply,
         CMP!CanReply, CM!CanFail, CMP!CanFail, CM!setStartState,
         CMP!setStartState, CM!Started, CMP!Started

LEMMA SameTypes == CM!TypeOK <=> CMP!TypeOK
  BY DEF CM!TypeOK, CMP!TypeOK, CM!DockerState, CMP!DockerState, CM!StartStatus,
     CMP!StartStatus, CM!Step, CMP!Step, CM!Location, CMP!Location

\* The lemmas of ContainerManagerProofs that the properties of the gateway
\* rest on.
LEMMA TypeStep == CMP!TypeOK /\ [CMP!Next]_(CMP!vars) => CMP!TypeOK'
  BY CMP!TypeStep, ManagerAssumptions

LEMMA RunningStays ==
    ASSUME CMP!TypeOK, [CMP!Next]_(CMP!vars), "crash" \notin Faults,
           NEW c \in Container \ StoppedByGateway, Running(c)
    PROVE  Running(c)'
  <1>1. CMP!Running(c)
    BY DEF Running, CM!Running, CMP!Running
  <1>2. CMP!Running(c)'
    BY <1>1, CMP!RunningStays, ManagerAssumptions
  <1> QED
    BY <1>2 DEF Running, CM!Running, CMP!Running

LEMMA PlansStep ==
    /\ CMP!TypeOK /\ CMP!ProbedReady /\ [CMP!Next]_(CMP!vars) => CMP!ProbedReady'
    /\ CMP!TypeOK /\ CMP!ProbedReady /\ CMP!PredecessorsRunning /\ [CMP!Next]_(CMP!vars)
        => CMP!PredecessorsRunning'
  BY CMP!ProbedReadyStep, CMP!PredecessorsRunningStep, ManagerAssumptions

LEMMA PlanSource ==
    ASSUME CMP!TypeOK, [CMP!Next]_(CMP!vars), NEW p \in Proc, pc'[p] # "idle"
    PROVE  \/ pc[p] # "idle" /\ plan'[p] = plan[p]
           \/ \E job \in GatewayJobs : plan'[p] = job.plan
  BY CMP!PlanSource, ManagerAssumptions

-----------------------------------------------------------------------------
(***************************************************************************)
(* The handlers and the watcher.                                           *)
(***************************************************************************)
\* What a handler has found out before it comes to a location.
HandlerInv ==
    /\ hpc \in [Handler -> HandlerLocation]
    /\ target \in [Handler -> Container \cup {None}]
    /\ members \in [Handler -> Groups \cup {<<>>}]
    /\ todo \in [Handler -> Order]
    /\ picks \in [Groups -> Nat]
    /\ \A g \in Groups : picks[g] < Len(g)
    /\ \A h \in Handler :
        /\ hpc[h] # "idle" <=> target[h] # None
        /\ hpc[h] \in {"status", "deps", "init", "repair", "activity"} => target[h] \in Requested
        /\ hpc[h] \in {"deps", "repair"} => DependsOn[target[h]] # <<>>
        /\ hpc[h] = "deps" => todo[h] # <<>>
        /\ hpc[h] \in {"memberStatus", "groupInit", "groupActivity"} => members[h] \in Groups

\* What the watcher may stop: what entry points with a timeout need.
BelowTimeouts == ChainOf({c \in HasHost : IdleTimeout[c] # 0})

\* The cascade of the watcher.
CascadeInv ==
    /\ IW!WatcherTypeOK
    /\ toStop \subseteq BelowTimeouts
    /\ DependentsAhead(queue)

GatewayInv == HandlerInv /\ CascadeInv /\ CMP!TypeOK

LEMMA HandlerInvInit ==
    ASSUME HandlersInit
    PROVE  HandlerInv
  <1>1. \A g \in Groups : Len(g) \in Nat /\ 0 < Len(g)
    BY GatewayAssumption
  <1>2. <<>> \in Order
    BY DEF Order
  <1> QED
    BY <1>1, <1>2 DEF HandlersInit, HandlerInv, HandlerLocation

LEMMA RespondKeeps ==
    ASSUME HandlerInv, NEW h \in Handler, Respond(h)
    PROVE  HandlerInv'
  <1>1. <<>> \in Order
    BY DEF Order
  <1> QED
    BY <1>1 DEF HandlerInv, Respond, Goto, HandlerLocation

LEMMA RequestKeeps ==
    ASSUME HandlerInv, NEW h \in Handler, NEW c \in Requested, Request(h, c)
    PROVE  HandlerInv'
  <1>1. c \in Container /\ c # None
    BY GatewayAssumption
  <1> QED
    BY <1>1 DEF HandlerInv, Request, Goto, HandlerLocation

LEMMA GroupRequestKeeps ==
    ASSUME HandlerInv, NEW h \in Handler, NEW g \in Groups, GroupRequest(h, g)
    PROVE  HandlerInv'
  <1> DEFINE k == picks[g]
             c == g[k + 1]
  <1>1. g \in Seq(Container) /\ Len(g) \in Nat \ {0} /\ k \in Nat /\ k < Len(g)
    BY GatewayAssumption DEF HandlerInv
  <1>2. c \in Container /\ c # None
    BY <1>1, GatewayAssumption
  <1>3. (k + 1) % Len(g) \in Nat /\ (k + 1) % Len(g) < Len(g)
    BY <1>1
  <1>4. picks' = [picks EXCEPT ![g] = (k + 1) % Len(g)]
    BY DEF GroupRequest
  <1>5. picks' \in [Groups -> Nat] /\ \A f \in Groups : picks'[f] < Len(f)
    BY <1>3, <1>4 DEF HandlerInv
  <1>6. /\ target' = [target EXCEPT ![h] = c]
        /\ members' = [members EXCEPT ![h] = g]
        /\ hpc' = [hpc EXCEPT ![h] = "memberStatus"]
        /\ todo' = todo
    BY DEF GroupRequest, Goto
  <1> HIDE DEF c
  <1> QED
    BY <1>2, <1>5, <1>6 DEF HandlerInv, HandlerLocation

LEMMA HandleKeeps ==
    ASSUME HandlerInv, NEW h \in Handler, Handle(h)
    PROVE  HandlerInv'
  <1>1. CASE Respond(h)
    BY <1>1, RespondKeeps
  <1>2. CASE FoundStopped(h) \/ MemberDown(h) \/ MemberUp(h)
    BY <1>2 DEF FoundStopped, MemberDown, MemberUp, Goto, HandlerInv, HandlerLocation
  <1>3. CASE FoundRunning(h)
    <2>1. target[h] \in Container
      BY <1>3, GatewayAssumption DEF FoundRunning, HandlerInv
    <2>2. DependsOn[target[h]] \in Order
      BY <2>1, DepsType
    <2> QED
      BY <1>3, <2>2 DEF FoundRunning, Goto, HandlerInv, HandlerLocation
  <1>4. CASE DependencyUp(h)
    <2>1. Tail(todo[h]) \in Order
      BY <1>4 DEF DependencyUp, HandlerInv, Order
    <2> QED
      BY <1>4, <2>1 DEF DependencyUp, Goto, HandlerInv, HandlerLocation
  <1>5. CASE DependencyDown(h)
    BY <1>5 DEF DependencyDown, Goto, HandlerInv, HandlerLocation
  <1>6. CASE RecordActivityChain(h) \/ RecordGroupActivity(h)
    BY <1>6 DEF RecordActivityChain, RecordGroupActivity, Goto, HandlerInv, HandlerLocation
  <1> QED
    BY <1>1, <1>2, <1>3, <1>4, <1>5, <1>6
       DEF Handle, StatusError, StartTarget, StartDependencies, StartGroup, ProxyRequest

LEMMA HandlersStep ==
    ASSUME HandlerInv, [Next]_vars
    PROVE  HandlerInv'
  <1>1. CASE UNCHANGED handlers
    BY <1>1 DEF handlers, HandlerInv
  <1>2. CASE Restart
    <2>1. HandlersInit'
      BY <1>2 DEF Restart, HandlersInit
    <2>2. \A g \in Groups : Len(g) \in Nat /\ 0 < Len(g)
      BY GatewayAssumption
    <2>3. <<>> \in Order
      BY DEF Order
    <2> QED
      BY <2>1, <2>2, <2>3 DEF HandlersInit, HandlerInv, HandlerLocation
  <1> QED
    BY <1>1, <1>2, RequestKeeps, GroupRequestKeeps, HandleKeeps
       DEF Next, StatusWake, ScheduledStart, ScheduledStop, Manage, Expire, Watch,
           Environment, Tick, vars, handlers

(***************************************************************************)
(* The watcher.                                                            *)
(***************************************************************************)
\* The instance has its own names for the operators of Dependencies.
LEMMA WatcherOperators ==
    ASSUME NEW S, NEW s
    PROVE  /\ IW!ChainOf(S) = ChainOf(S)
           /\ IW!TopoMergeStop(S) = TopoMergeStop(S)
           /\ IW!Reverse(s) = Reverse(s)
           /\ IW!ToSet(s) = ToSet(s)
           /\ IW!BuildReverseDeps(s) = BuildReverseDeps(s)
  <1>1. \A nodes : IW!VisitWithin(nodes) = VisitWithin(nodes)
    BY DEF IW!VisitWithin, VisitWithin, IW!Contains, Contains
  <1>2. IW!Closure = Closure
    BY DEF IW!Closure, Closure, IW!TopologicalSort, TopologicalSort, IW!ToSet, ToSet,
       IW!VisitWithin, VisitWithin, IW!Contains, Contains
  <1>3. IW!ChainOf(S) = ChainOf(S)
    BY <1>2 DEF IW!ChainOf, ChainOf
  <1>4. IW!StopOrders = StopOrders
    BY DEF IW!StopOrders, StopOrders, IW!VisitWithin, VisitWithin, IW!Contains, Contains,
       IW!SetToSeqs, SetToSeqs, IW!Cardinality, Cardinality
  <1>5. IW!TopoMergeStop(S) = TopoMergeStop(S)
    BY <1>4 DEF IW!TopoMergeStop, TopoMergeStop
  <1>6. /\ IW!Reverse(s) = Reverse(s)
        /\ IW!ToSet(s) = ToSet(s)
    BY DEF IW!Reverse, Reverse, IW!ToSet, ToSet
  <1>7. IW!BuildReverseDeps(s) = BuildReverseDeps(s)
    BY DEF IW!BuildReverseDeps, BuildReverseDeps, IW!ToSet, ToSet
  <1> QED
    BY <1>3, <1>5, <1>6, <1>7

LEMMA CheckIdleStep ==
    ASSUME IW!CheckIdle
    PROVE  CascadeInv'
  <1> DEFINE R == IW!IdleEntryPoints
             T == {c \in HasHost : IdleTimeout[c] # 0}
             S == ChainOf(R)
  <1>1. R \in SUBSET T /\ R # {} /\ R \in SUBSET Container /\ T \in SUBSET Container
    BY GatewayAssumption DEF IW!CheckIdle, IW!IdleEntryPoints
  <1>2. PICK order \in TopoMergeStop(S) : queue' = Reverse(order)
    <2>1. \E order \in IW!TopoMergeStop(toStop') : queue' = IW!Reverse(order)
      BY DEF IW!CheckIdle
    <2>2. toStop' = S
      BY WatcherOperators DEF IW!CheckIdle
    <2> QED
      BY <2>1, <2>2, WatcherOperators
  <1>3. toStop' = S /\ wpc' = "dependents" /\ asked' = {}
    BY WatcherOperators DEF IW!CheckIdle
  <1> HIDE DEF R, T
  <1>4. S \in SUBSET Container /\ S # {} /\ S \subseteq ChainOf(T)
    <2>1. ChainOf(R) = UNION {Reach(r) : r \in R} /\ ChainOf(T) = UNION {Reach(r) : r \in T}
          /\ ChainOf(R) \in SUBSET Container /\ R \subseteq ChainOf(R)
      BY <1>1, ChainOfType
    <2> QED
      BY <1>1, <2>1
  <1> HIDE DEF S
  <1>5. queue' \in Seq(S) /\ ToSet(queue') = S /\ DependentsAhead(queue')
    BY <1>2, <1>4, CascadeOrder
  <1>6. queue' # <<>>
    BY <1>4, <1>5, EmptyOrder
  <1>7. S \subseteq BelowTimeouts
    BY <1>4 DEF BelowTimeouts, T
  <1> QED
    BY <1>3, <1>4, <1>5, <1>6, <1>7 DEF CascadeInv, IW!WatcherTypeOK

LEMMA NextInQueueKeeps ==
    ASSUME CascadeInv, wpc # "idle", IW!NextInQueue
    PROVE  CascadeInv'
  <1>1. queue \in Seq(toStop) /\ queue # <<>> /\ DependentsAhead(queue)
    BY DEF CascadeInv, IW!WatcherTypeOK
  <1>2. Tail(queue) \in Seq(toStop) /\ DependentsAhead(Tail(queue))
    BY <1>1, TailKeepsAhead
  <1>3. CASE Tail(queue) = <<>>
    <2>1. queue' = <<>> /\ wpc' = "idle" /\ toStop' = {} /\ asked' = {}
      BY <1>3 DEF IW!NextInQueue
    <2>2. DependentsAhead(<<>>)
      BY <1>2, <1>3
    <2>3. IW!WatcherTypeOK'
      BY <2>1 DEF IW!WatcherTypeOK
    <2> QED
      BY <2>1, <2>2, <2>3 DEF CascadeInv
  <1>4. CASE Tail(queue) # <<>>
    <2>1. queue' = Tail(queue) /\ wpc' = "dependents" /\ toStop' = toStop /\ asked' = {}
      BY <1>4 DEF IW!NextInQueue
    <2> QED
      BY <1>2, <1>4, <2>1 DEF CascadeInv, IW!WatcherTypeOK
  <1> QED
    BY <1>3, <1>4

LEMMA CascadeStep ==
    ASSUME CascadeInv, [Next]_vars
    PROVE  CascadeInv'
  <1>1. CASE IW!CheckIdle
    BY <1>1, CheckIdleStep
  <1>2. CASE IW!StillNeeded \/ IW!NotRunning \/ IW!StopFails \/ IW!ClearStartState
    BY <1>2, NextInQueueKeeps
       DEF IW!StillNeeded, IW!NotRunning, IW!StopFails, IW!ClearStartState
  <1>3. ASSUME NEW d \in Container, IW!NotNeededBy(d)
        PROVE  CascadeInv'
    BY <1>3 DEF IW!NotNeededBy, IW!ToAsk, CascadeInv, IW!WatcherTypeOK
  <1>4. CASE IW!ToBeStopped \/ IW!StopContainer
    BY <1>4 DEF IW!ToBeStopped, IW!StopContainer, CascadeInv, IW!WatcherTypeOK
  <1>5. CASE UNCHANGED watcher
    BY <1>5 DEF watcher, CascadeInv, IW!WatcherTypeOK
  <1>6. CASE Restart
    BY <1>6 DEF Restart, CascadeInv, IW!WatcherTypeOK, DependentsAhead
  <1> QED
    BY <1>1, <1>2, <1>3, <1>4, <1>5, <1>6
       DEF Next, Request, GroupRequest, Handle, StatusError, FoundStopped, FoundRunning,
           DependencyUp, DependencyDown, StartTarget, StartDependencies,
           RecordActivityChain, MemberDown, MemberUp, StartGroup, RecordGroupActivity,
           ProxyRequest, StatusWake, ScheduledStart, ScheduledStop, Manage, Expire,
           Watch, IW!Watch, IW!CascadeStop, Environment, Tick, vars, watcher

LEMMA CascadeInvInit ==
    ASSUME IW!WatcherInit
    PROVE  CascadeInv
  BY DEF IW!WatcherInit, CascadeInv, IW!WatcherTypeOK, DependentsAhead

(***************************************************************************)
(* The gateway implements its manager.                                     *)
(***************************************************************************)
\* A goroutine is spawned with one of the calls of the gateway.
LEMMA SpawnStep ==
    ASSUME NEW job \in GatewayJobs, Spawn(job)
    PROVE  CM!Next
  BY DEF Spawn, CM!Next

LEMMA HandleStep ==
    ASSUME HandlerInv, NEW h \in Handler, Handle(h)
    PROVE  CM!Next \/ UNCHANGED manager
  <1> USE DEF HandlerInv
  <1>1. CASE StartTarget(h)
    <2>1. RequestJob(target[h]) \in GatewayJobs
      BY <1>1 DEF StartTarget, GatewayJobs
    <2> QED
      BY <1>1, <2>1, SpawnStep DEF StartTarget
  <1>2. CASE StartDependencies(h)
    <2>1. RepairJob(target[h]) \in GatewayJobs
      BY <1>2 DEF StartDependencies, GatewayJobs
    <2> QED
      BY <1>2, <2>1, SpawnStep DEF StartDependencies
  <1>3. CASE StartGroup(h)
    <2>1. GroupJob(members[h]) \in GatewayJobs
      BY <1>3 DEF StartGroup, GatewayJobs
    <2> QED
      BY <1>3, <2>1, SpawnStep DEF StartGroup
  <1>4. CASE RecordActivityChain(h)
    <2>1. {target[h]} \in SUBSET Container
      BY <1>4, GatewayAssumption DEF RecordActivityChain
    <2>2. ChainOf({target[h]}) \in SUBSET Container
      BY <2>1, ChainOfType
    <2> QED
      BY <1>4, <2>2 DEF RecordActivityChain, CM!Next
  <1>5. CASE RecordGroupActivity(h)
    <2>1. members[h] \in Seq(Container)
      BY <1>5, GatewayAssumption DEF RecordGroupActivity
    <2>2. ToSet(members[h]) \in SUBSET Container
      BY <2>1, InToSet
    <2>3. ChainOf(ToSet(members[h])) \in SUBSET Container
      BY <2>2, ChainOfType
    <2> QED
      BY <1>5, <2>3 DEF RecordGroupActivity, CM!Next
  <1>6. CASE \/ StatusError(h) \/ FoundStopped(h) \/ FoundRunning(h)
             \/ DependencyUp(h) \/ DependencyDown(h)
             \/ MemberDown(h) \/ MemberUp(h) \/ ProxyRequest(h)
    BY <1>6 DEF StatusError, FoundStopped, FoundRunning, DependencyUp, DependencyDown,
       MemberDown, MemberUp, ProxyRequest
  <1> QED
    BY <1>1, <1>2, <1>3, <1>4, <1>5, <1>6 DEF Handle

\* docker stop and the reset of the start state are the only steps of the
\* watcher that the manager sees, and only for containers of the cascade.
LEMMA WatchStep ==
    ASSUME CascadeInv, CMP!TypeOK, Watch
    PROVE  CM!Next \/ UNCHANGED manager
  <1>1. UNCHANGED <<locks, pc, plan, at, expired>>
    BY DEF Watch
  <1>2. ASSUME wpc # "idle"
        PROVE  Head(queue) \in Container /\ Head(queue) \in StoppedByGateway
    <2>1. queue \in Seq(toStop) /\ queue # <<>>
      BY <1>2 DEF CascadeInv, IW!WatcherTypeOK
    <2>2. Head(queue) \in toStop
      BY <2>1
    <2> QED
      BY <2>2 DEF CascadeInv, IW!WatcherTypeOK, BelowTimeouts, StoppedByGateway
  <1>3. ASSUME wpc # "idle", docker' = IW!Stopped(Head(queue)), UNCHANGED <<startStates, lastSeen>>
        PROVE  CM!Next \/ UNCHANGED manager
    <2> DEFINE c == Head(queue)
    <2>1. c \in Container /\ c \in StoppedByGateway
      BY <1>2, <1>3
    <2> HIDE DEF c
    <2>2. docker' = [docker EXCEPT ![c] = IF docker[c] \in {"booting", "ready"} THEN "exited" ELSE docker[c]]
      BY <1>3 DEF IW!Stopped, IW!Running, c
    <2>3. CASE CM!Running(c)
      <3>1. CM!StopContainer(c)
        BY <1>1, <1>3, <2>1, <2>2, <2>3
           DEF CM!StopContainer, CM!Running, CM!memory, CM!goroutine
      <3> QED
        BY <2>1, <3>1 DEF CM!Next
    <2>4. CASE ~CM!Running(c)
      <3>1. docker' = docker
        BY <2>1, <2>2, <2>4 DEF CM!Running, CMP!TypeOK
      <3> QED
        BY <1>1, <1>3, <3>1 DEF manager
    <2> QED
      BY <2>3, <2>4
  <1>4. CASE IW!StopContainer
    BY <1>3, <1>4 DEF IW!StopContainer
  <1>5. CASE IW!StopFails
    BY <1>1, <1>3, <1>5 DEF IW!StopFails, manager
  <1>6. CASE IW!ClearStartState
    <2> DEFINE c == Head(queue)
    <2>1. c \in Container /\ c \in StoppedByGateway
      BY <1>2, <1>6 DEF IW!ClearStartState
    <2>2. CM!ClearStartState(c)
      BY <1>1, <1>6, <2>1
         DEF IW!ClearStartState, CM!ClearStartState, CM!setStartState, CM!goroutine
    <2> QED
      BY <2>1, <2>2 DEF CM!Next
  <1>7. CASE \/ IW!CheckIdle \/ IW!StillNeeded \/ IW!ToBeStopped \/ IW!NotRunning
             \/ \E d \in Container : IW!NotNeededBy(d)
    BY <1>1, <1>7 DEF IW!CheckIdle, IW!StillNeeded, IW!ToBeStopped, IW!NotRunning,
       IW!NotNeededBy, IW!shared, manager
  <1> QED
    BY <1>4, <1>5, <1>6, <1>7 DEF Watch, IW!Watch, IW!CascadeStop

\* Every step of the gateway is a step of its manager or passes it by.
LEMMA ManagerStep ==
    ASSUME GatewayInv, [Next]_vars
    PROVE  CM!Next \/ UNCHANGED manager
  <1> USE DEF GatewayInv
  <1>1. ASSUME NEW h \in Handler, Handle(h)
        PROVE  CM!Next \/ UNCHANGED manager
    BY <1>1, HandleStep
  <1>2. ASSUME NEW c \in Container, StatusWake(c) \/ ScheduledStart(c)
        PROVE  CM!Next
    <2>1. WakeJob(c) \in GatewayJobs /\ Spawn(WakeJob(c))
      BY <1>2 DEF StatusWake, ScheduledStart, GatewayJobs
    <2> QED
      BY <2>1, SpawnStep
  <1>3. ASSUME NEW c \in Container, ScheduledStop(c) \/ Environment(c)
        PROVE  CM!Next
    BY <1>3 DEF ScheduledStop, Environment, CM!Next
  <1>4. ASSUME NEW p \in Proc, Manage(p) \/ Expire(p)
        PROVE  CM!Next
    BY <1>4 DEF Manage, Expire, CM!Next
  <1>5. CASE Watch
    BY <1>5, WatchStep
  <1>6. CASE Tick \/ Restart
    BY <1>6 DEF Tick, Restart, CM!Next
  <1>7. CASE \/ \E h \in Handler, c \in Requested : Request(h, c)
             \/ \E h \in Handler, g \in Groups : GroupRequest(h, g)
             \/ UNCHANGED vars
    BY <1>7 DEF Request, GroupRequest, vars, manager
  <1> QED
    BY <1>1, <1>2, <1>3, <1>4, <1>5, <1>6, <1>7 DEF Next

LEMMA MappedStep ==
    ASSUME GatewayInv, [Next]_vars
    PROVE  [CM!Next]_(CM!vars) /\ [CMP!Next]_(CMP!vars)
  <1>1. [CM!Next]_(CM!vars)
    BY ManagerStep DEF manager, CM!vars
  <1> QED
    BY <1>1, SameStep

LEMMA GatewayInvInit == Init => GatewayInv
  <1> SUFFICES ASSUME Init
               PROVE  GatewayInv
    OBVIOUS
  <1>1. CMP!TypeOK
    BY SameInit, CMP!TypeInit, ManagerAssumptions DEF Init
  <1> QED
    BY <1>1, HandlerInvInit, CascadeInvInit DEF Init, GatewayInv

LEMMA GatewayInvStep == GatewayInv /\ [Next]_vars => GatewayInv'
  BY HandlersStep, CascadeStep, MappedStep, TypeStep DEF GatewayInv

\* Whatever the requests, the dashboard, the cron jobs and the idle watcher
\* do, for any configuration: seen from the manager the gateway is one of the
\* callers that ContainerManager allows.  What ContainerManagerProofs shows of
\* any jobs and any stoppable containers is therefore true in the gateway.
THEOREM GatewayImplementsManager == Spec => ImplementsManager
  <1>1. Init => CM!Init
    BY DEF Init
  <1>2. GatewayInv /\ [Next]_vars => [CM!Next]_(CM!vars)
    BY MappedStep
  <1> QED
    BY <1>1, <1>2, GatewayInvInit, GatewayInvStep, PTL DEF Spec, CM!Spec, ImplementsManager

\* What ContainerManagerProofs shows of any callers holds with the handlers,
\* the cron jobs, the dashboard and the idle watcher as callers: attempts
\* exclude each other, show on the loading page, start only what is stopped
\* and leave no mutex behind.
THEOREM ManagerInGateway ==
    Spec => [](/\ CM!OneAttempt
               /\ CM!MutexHasHolder
               /\ CM!AttemptVisible
               /\ CM!StartOnlyStopped
               /\ CM!RunningMeansReady
               /\ CM!PredecessorsRunning)
  <1>1. CM!Spec => CMP!Spec
    BY SameInit, SameStep, PTL DEF CM!Spec, CMP!Spec
  <1>2. CMP!Spec => []CMP!OneAttempt
    BY CMP!OneAttemptAlways, ManagerAssumptions
  <1>3. CMP!Spec => []CMP!MutexHasHolder
    BY CMP!MutexHasHolderAlways, ManagerAssumptions
  <1>4. CMP!Spec => []CMP!AttemptVisible
    BY CMP!AttemptVisibleAlways, ManagerAssumptions
  <1>5. CMP!Spec => []CMP!StartOnlyStopped
    BY CMP!StartOnlyStoppedAlways, ManagerAssumptions
  <1>6. CMP!Spec => []CMP!RunningMeansReady
    BY CMP!RunningMeansReadyAlways, ManagerAssumptions
  <1>7. CMP!Spec => []CMP!PredecessorsRunning
    BY CMP!PredecessorsRunningAlways, ManagerAssumptions
  <1>8. /\ CMP!OneAttempt => CM!OneAttempt
        /\ CMP!MutexHasHolder => CM!MutexHasHolder
        /\ CMP!AttemptVisible => CM!AttemptVisible
        /\ CMP!StartOnlyStopped => CM!StartOnlyStopped
        /\ CMP!RunningMeansReady => CM!RunningMeansReady
        /\ CMP!PredecessorsRunning => CM!PredecessorsRunning
    BY DEF CM!OneAttempt, CMP!OneAttempt, CM!MutexHasHolder, CMP!MutexHasHolder,
       CM!AttemptVisible, CMP!AttemptVisible, CM!StartOnlyStopped, CMP!StartOnlyStopped,
       CM!RunningMeansReady, CMP!RunningMeansReady, CM!PredecessorsRunning,
       CMP!PredecessorsRunning, CM!InCriticalSection, CMP!InCriticalSection,
       CM!Attempting, CMP!Attempting, CM!Cur, CMP!Cur, CM!Running, CMP!Running
  <1> QED
    BY <1>1, <1>2, <1>3, <1>4, <1>5, <1>6, <1>7, <1>8, GatewayImplementsManager, PTL
       DEF ImplementsManager

\* Handlers, watcher and manager only ever see what they are made for: a
\* handler that reads dependencies has one left to read, the picked member
\* of a group exists, a goroutine in a plan is at one of its steps, and the
\* cascade has a container at hand until it is over.
THEOREM GatewayTyped == Spec => []TypeOK
  <1>1. GatewayInv => TypeOK
    BY SameTypes DEF GatewayInv, HandlerInv, CascadeInv, Order, TypeOK
  <1> QED
    BY <1>1, GatewayInvInit, GatewayInvStep, PTL DEF Spec

\* manager.go:335 in the gateway: whatever else starts and stops containers
\* during a cascade, those that depend on the container at hand have had
\* their turn, and the cascade stays with what entry points with a timeout
\* need.
THEOREM CascadesOfTheGateway ==
    Spec => [](IW!DependentsFirst /\ toStop \subseteq BelowTimeouts)
  <1>1. GatewayInv => IW!DependentsFirst
    <2> SUFFICES ASSUME GatewayInv, queue # <<>>, NEW d \in Container,
                        d \in ToSet(Tail(queue))
                 PROVE  d \notin BuildReverseDeps(Head(queue))
      BY WatcherOperators DEF IW!DependentsFirst, BuildReverseDeps
    <2>1. queue \in Seq(Container)
      BY DEF GatewayInv, CascadeInv, IW!WatcherTypeOK
    <2> QED
      BY <2>1, TailKeepsAhead DEF GatewayInv, CascadeInv, BuildReverseDeps, DepSet
  <1>2. GatewayInv => toStop \subseteq BelowTimeouts
    BY DEF GatewayInv, CascadeInv
  <1> QED
    BY <1>1, <1>2, GatewayInvInit, GatewayInvStep, PTL DEF Spec

-----------------------------------------------------------------------------
(***************************************************************************)
(* Dependencies first.                                                     *)
(***************************************************************************)
\* A goroutine works on a plan that is complete, and all in front of its step
\* has come up.
PlanInv ==
    /\ CMP!ProbedReady
    /\ CMP!PredecessorsRunning
    /\ \A p \in Proc : pc[p] # "idle" => plan[p] \in Plans

\* If what is woken alone needs nothing, every plan of the gateway is complete.
LEMMA GatewayPlans ==
    ASSUME \A c \in Wakeable \cup StartJob : DependsOn[c] = <<>>,
           NEW job \in GatewayJobs
    PROVE  job.plan \in Plans
  <1>1. Requested \subseteq Container /\ Wakeable \cup StartJob \subseteq Container
    BY GatewayAssumption
  <1> QED
    BY <1>1, RequestJobType, RepairJobType, WakeJobType, GroupJobType DEF GatewayJobs

LEMMA PlanInvStep ==
    ASSUME \A c \in Wakeable \cup StartJob : DependsOn[c] = <<>>,
           CMP!TypeOK, PlanInv, [CMP!Next]_(CMP!vars)
    PROVE  PlanInv'
  <1>1. CMP!ProbedReady' /\ CMP!PredecessorsRunning'
    BY PlansStep DEF PlanInv
  <1>2. ASSUME NEW p \in Proc, pc'[p] # "idle"
        PROVE  plan'[p] \in Plans
    BY <1>2, PlanSource, GatewayPlans DEF PlanInv
  <1> QED
    BY <1>1, <1>2 DEF PlanInv

LEMMA PlanInvInit == Init => PlanInv
  BY DEF Init, CM!Init, PlanInv, CMP!ProbedReady, CMP!PredecessorsRunning

LEMMA PlanInvDependenciesFirst ==
    ASSUME "crash" \notin Faults,
           \A c \in Container : DepSet(c) \cap StoppedByGateway = {},
           CMP!TypeOK, PlanInv
    PROVE  DependenciesFirst
  <1> SUFFICES ASSUME NEW p \in Proc, pc[p] = "start", NEW d \in DepSet(CM!Cur(p))
               PROVE  Running(d)
    BY DEF DependenciesFirst, DepSet
  <1>1. /\ CM!Cur(p) \in Container /\ at[p] \in 1..Len(plan[p])
        /\ CM!Cur(p) = plan[p][at[p]].name
    BY CMP!CurType, ManagerAssumptions DEF CM!Cur, CMP!Cur
  <1>2. DepsBefore(plan[p])
    BY DEF PlanInv, Plans
  <1>3. PICK j \in 1..(at[p] - 1) : plan[p][j].name = d
    BY <1>1, <1>2 DEF DepsBefore
  <1>4. d \notin StoppedByGateway
    BY <1>1
  <1> QED
    BY <1>1, <1>3, <1>4 DEF PlanInv, CMP!PredecessorsRunning, CMP!Running, Running, CM!Running

\* config.go:108, for any graph without cycles, any groups and any number of
\* requests, goroutines and cron jobs at once: the dependencies of a container
\* run when docker start is called for it.  Deadlines, failing Docker calls, a
\* restart of the gateway and other people who start, remove and create
\* containers do not change that.  What does is assumed away: dependencies
\* that exit or that the gateway itself stops, and containers with
\* dependencies that the dashboard or schedule_start wakes alone.
THEOREM DependenciesFirstAlways ==
    ASSUME "crash" \notin Faults,
           \A c \in Container : DepSet(c) \cap StoppedByGateway = {},
           \A c \in Wakeable \cup StartJob : DependsOn[c] = <<>>
    PROVE  Spec => []DependenciesFirst
  <1>1. GatewayInv /\ PlanInv /\ [Next]_vars => PlanInv'
    <2> SUFFICES ASSUME GatewayInv, PlanInv, [Next]_vars
                 PROVE  PlanInv'
      OBVIOUS
    <2>1. [CMP!Next]_(CMP!vars)
      BY MappedStep
    <2> QED
      BY <2>1, PlanInvStep DEF GatewayInv
  <1>2. GatewayInv /\ PlanInv => DependenciesFirst
    BY PlanInvDependenciesFirst DEF GatewayInv
  <1> QED
    BY <1>1, <1>2, GatewayInvInit, GatewayInvStep, PlanInvInit, PTL DEF Spec

\* What the handler of a request has found to run, or has still to look at.
HasSeen(h) ==
    /\ hpc[h] = "deps" =>
        \A d \in DepSet(target[h]) : Running(d) \/ d \in ToSet(todo[h])
    /\ hpc[h] = "activity" \/ (hpc[h] = "proxy" /\ members[h] = <<>>) =>
        \A d \in DepSet(target[h]) : Running(d)

ForwardInv == \A h \in Handler : HasSeen(h)

\* What is needed keeps running.
LEMMA NeededStays ==
    ASSUME "crash" \notin Faults,
           \A c \in Container : DepSet(c) \cap StoppedByGateway = {},
           GatewayInv, [Next]_vars,
           NEW c \in Container, NEW d \in DepSet(c), Running(d)
    PROVE  Running(d)'
  <1>1. [CMP!Next]_(CMP!vars)
    BY MappedStep
  <1>2. d \in Container \ StoppedByGateway
    BY DepsType
  <1> QED
    BY <1>1, <1>2, RunningStays DEF GatewayInv, Running

LEMMA HeadAndTail ==
    ASSUME NEW q \in Order, q # <<>>, NEW x \in ToSet(q), x # Head(q)
    PROVE  x \in ToSet(Tail(q))
  <1> DEFINE t == Tail(q)
             n == Len(q)
  <1>1. q \in Seq(Container) /\ n \in Nat \ {0} /\ Head(q) = q[1]
        /\ t \in Seq(Container) /\ Len(t) = n - 1
        /\ \A i \in 1..(n - 1) : t[i] = q[i + 1]
    BY DEF Order
  <1>2. PICK i \in 1..n : q[i] = x
    BY <1>1, InToSet
  <1> HIDE DEF t, n
  <1>3. i - 1 \in 1..(n - 1) /\ (i - 1) + 1 = i
    BY <1>1, <1>2
  <1>4. \E k \in 1..Len(t) : t[k] = x
    BY <1>1, <1>2, <1>3
  <1>5. x \in ToSet(t)
    BY <1>1, <1>4, InToSet
  <1> QED
    BY <1>5 DEF t

\* The same handler at the same place has seen the same.
LEMMA ForwardKept ==
    ASSUME "crash" \notin Faults,
           \A c \in Container : DepSet(c) \cap StoppedByGateway = {},
           GatewayInv, ForwardInv, [Next]_vars, NEW h \in Handler,
           hpc'[h] = hpc[h], target'[h] = target[h], members'[h] = members[h],
           todo'[h] = todo[h]
    PROVE  HasSeen(h)'
  <1>1. hpc[h] # "idle" => target[h] \in Container
    BY DEF GatewayInv, HandlerInv
  <1> QED
    BY <1>1, NeededStays DEF ForwardInv, HasSeen

\* What a handler that steps has seen.
LEMMA ForwardHandle ==
    ASSUME "crash" \notin Faults,
           \A c \in Container : DepSet(c) \cap StoppedByGateway = {},
           GatewayInv, ForwardInv, [Next]_vars, NEW h \in Handler, Handle(h)
    PROVE  HasSeen(h)'
  <1> USE DEF GatewayInv, HandlerInv
  <1>1. hpc[h] # "idle" => target[h] \in Container
    OBVIOUS
  <1>2. CASE Respond(h)
    BY <1>2 DEF Respond, Goto, HasSeen
  <1>3. CASE FoundStopped(h) \/ MemberDown(h) \/ MemberUp(h) \/ DependencyDown(h)
    BY <1>3 DEF FoundStopped, MemberDown, MemberUp, DependencyDown, Goto, HasSeen
  <1>4. CASE FoundRunning(h)
    <2>1. /\ hpc'[h] = IF DependsOn[target[h]] = <<>> THEN "activity" ELSE "deps"
          /\ todo'[h] = DependsOn[target[h]]
          /\ target' = target
      BY <1>4 DEF FoundRunning, Goto
    <2>2. DependsOn[target[h]] = <<>> => DepSet(target[h]) = {}
      BY EmptyOrder DEF DepSet
    <2>3. \A d \in DepSet(target[h]) : d \in ToSet(DependsOn[target[h]])
      BY DEF DepSet
    <2> QED
      BY <2>1, <2>2, <2>3 DEF HasSeen
  <1>5. CASE DependencyUp(h)
    <2>1. /\ hpc[h] = "deps" /\ target' = target /\ UNCHANGED docker
          /\ hpc'[h] = IF Tail(todo[h]) = <<>> THEN "activity" ELSE "deps"
          /\ todo'[h] = Tail(todo[h])
          /\ Running(Head(todo[h]))
      BY <1>5 DEF DependencyUp, Goto, manager
    <2>2. todo[h] \in Order /\ todo[h] # <<>>
      BY <2>1
    <2>3. \A d \in DepSet(target[h]) : Running(d) \/ d \in ToSet(Tail(todo[h]))
      BY <2>1, <2>2, HeadAndTail DEF ForwardInv, HasSeen
    <2>4. ToSet(<<>>) = {}
      BY EmptyOrder
    <2> QED
      BY <2>1, <2>3, <2>4 DEF HasSeen, Running, CM!Running
  <1>6. CASE RecordActivityChain(h)
    <2>1. hpc[h] = "activity" /\ target' = target /\ hpc'[h] = "proxy"
      BY <1>6 DEF RecordActivityChain, Goto
    <2>2. \A d \in DepSet(target[h]) : Running(d)
      BY <2>1 DEF ForwardInv, HasSeen
    <2> QED
      BY <1>1, <2>1, <2>2, NeededStays DEF HasSeen
  <1>7. CASE RecordGroupActivity(h)
    <2>1. members'[h] \in Groups /\ hpc'[h] = "proxy"
      BY <1>7 DEF RecordGroupActivity, Goto
    <2> QED
      BY <2>1, GatewayAssumption DEF HasSeen
  <1> QED
    BY <1>2, <1>3, <1>4, <1>5, <1>6, <1>7
       DEF Handle, StatusError, StartTarget, StartDependencies, StartGroup, ProxyRequest

\* A handler that steps leaves the others as they are.
LEMMA OtherHandlersStay ==
    ASSUME HandlerInv, NEW h \in Handler, NEW k \in Handler, h # k,
           \/ Handle(h)
           \/ \E c \in Requested : Request(h, c)
           \/ \E g \in Groups : GroupRequest(h, g)
    PROVE  hpc'[k] = hpc[k] /\ target'[k] = target[k] /\ members'[k] = members[k]
           /\ todo'[k] = todo[k]
  BY DEF HandlerInv, Request, GroupRequest, Handle, StatusError, FoundStopped,
     FoundRunning, DependencyUp, DependencyDown, StartTarget, StartDependencies,
     RecordActivityChain, MemberDown, MemberUp, StartGroup, RecordGroupActivity,
     ProxyRequest, Respond, Goto

LEMMA ForwardStep ==
    ASSUME "crash" \notin Faults,
           \A c \in Container : DepSet(c) \cap StoppedByGateway = {},
           GatewayInv, ForwardInv, [Next]_vars
    PROVE  ForwardInv'
  <1> SUFFICES ASSUME NEW h \in Handler
               PROVE  HasSeen(h)'
    BY DEF ForwardInv
  <1>1. CASE Handle(h)
    BY <1>1, ForwardHandle
  <1>2. CASE \/ \E c \in Requested : Request(h, c)
             \/ \E g \in Groups : GroupRequest(h, g)
    BY <1>2 DEF Request, GroupRequest, Goto, HasSeen, GatewayInv, HandlerInv
  <1>3. ASSUME NEW k \in Handler, k # h,
               \/ Handle(k)
               \/ \E c \in Requested : Request(k, c)
               \/ \E g \in Groups : GroupRequest(k, g)
        PROVE  HasSeen(h)'
    BY <1>3, OtherHandlersStay, ForwardKept DEF GatewayInv
  <1>4. CASE UNCHANGED handlers
    BY <1>4, ForwardKept DEF handlers
  <1>5. CASE Restart
    BY <1>5 DEF Restart, HasSeen
  <1> QED
    BY <1>1, <1>2, <1>3, <1>4, <1>5
       DEF Next, StatusWake, ScheduledStart, ScheduledStop, Manage, Expire, Watch,
           Environment, Tick, vars, handlers

\* server.go:288-296: the statuses of the dependencies are read one by one and
\* the answers are used later.  If what is needed keeps running they are
\* still true, all of them, when the request is forwarded, whatever other
\* requests, goroutines and operators do in between.
THEOREM ForwardWithDependenciesAlways ==
    ASSUME "crash" \notin Faults,
           \A c \in Container : DepSet(c) \cap StoppedByGateway = {}
    PROVE  Spec => []ForwardWithDependencies
  <1>1. Init => ForwardInv
    BY DEF Init, HandlersInit, ForwardInv, HasSeen
  <1>2. GatewayInv /\ ForwardInv /\ [Next]_vars => ForwardInv'
    BY ForwardStep
  <1>3. ForwardInv => ForwardWithDependencies
    BY DEF ForwardInv, HasSeen, ForwardWithDependencies, Forwarding, DepSet
  <1> QED
    BY <1>1, <1>2, <1>3, GatewayInvInit, GatewayInvStep, PTL DEF Spec
=============================================================================
