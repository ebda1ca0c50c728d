----------------------- MODULE ContainerManagerProofs -----------------------
(***************************************************************************)
(* Theorems about ContainerManager, for any containers, goroutines, jobs   *)
(* and faults.  The argument has three layers: types; the mutex invariant  *)
(* (a goroutine in its critical section holds the mutex of its container), *)
(* which makes attempts exclusive; and what exclusive attempts make true   *)
(* of the start states, of docker start and of the plans.                  *)
(***************************************************************************)
EXTENDS ContainerManager, TLAPS

(***************************************************************************)
(* Types.                                                                  *)
(***************************************************************************)

\* A goroutine in the middle of a plan is at a container of the gateway.
LEMMA CurType ==
    ASSUME TypeOK, NEW p \in Proc, pc[p] # "idle"
    PROVE  /\ Cur(p) \in Container
           /\ plan[p][at[p]] \in Step
           /\ at[p] \in 1..Len(plan[p])
  <1>1. plan[p] \in Seq(Step) /\ at[p] \in 1..Len(plan[p])
    BY DEF TypeOK
  <1>2. plan[p][at[p]] \in Step
    BY <1>1
  <1> QED
    BY <1>1, <1>2 DEF Cur, Step

\* The goroutine's variables keep their types when its function returns.
LEMMA FinishType ==
    ASSUME TypeOK, NEW p \in Proc, Finish(p)
    PROVE  /\ pc' \in [Proc -> Location]
           /\ plan' \in [Proc -> Seq(Step)]
           /\ at' \in [Proc -> Nat]
           /\ expired' \in [Proc -> BOOLEAN]
           /\ \A q \in Proc : pc'[q] # "idle" => at'[q] \in 1..Len(plan'[q])
  <1>1. <<>> \in Seq(Step)
    OBVIOUS
  <1> QED
    BY <1>1 DEF TypeOK, Finish, Goto, Location

\* ... and when EnsureRunning returns nil.
LEMMA ReturnType ==
    ASSUME TypeOK, NEW p \in Proc, pc[p] # "idle", Return(p)
    PROVE  /\ locks' \in [Container -> Proc \cup {None}]
           /\ pc' \in [Proc -> Location]
           /\ plan' \in [Proc -> Seq(Step)]
           /\ at' \in [Proc -> Nat]
           /\ expired' \in [Proc -> BOOLEAN]
           /\ \A q \in Proc : pc'[q] # "idle" => at'[q] \in 1..Len(plan'[q])
  <1>1. locks' \in [Container -> Proc \cup {None}]
    BY DEF Return, TypeOK
  <1>2. CASE at[p] < Len(plan[p])
    <2>1. at[p] + 1 \in 1..Len(plan[p])
      BY <1>2, CurType DEF TypeOK
    <2>2. Entry(plan[p][at[p] + 1]) \in Location
      BY DEF Entry, Location
    <2>3. /\ at' = [at EXCEPT ![p] = @ + 1]
          /\ pc' = [pc EXCEPT ![p] = Entry(plan[p][at[p] + 1])]
          /\ plan' = plan
          /\ expired' = expired
      BY <1>2 DEF Return, Goto
    <2>4. at' \in [Proc -> Nat] /\ pc' \in [Proc -> Location]
      BY <2>1, <2>2, <2>3 DEF TypeOK
    <2>5. ASSUME NEW q \in Proc, pc'[q] # "idle"
          PROVE  at'[q] \in 1..Len(plan'[q])
      <3>1. CASE q = p
        BY <2>1, <2>3, <3>1 DEF TypeOK
      <3>2. CASE q # p
        BY <2>3, <2>5, <3>2 DEF TypeOK
      <3> QED
        BY <3>1, <3>2
    <2> QED
      BY <1>1, <2>3, <2>4, <2>5 DEF TypeOK
  <1>3. CASE ~(at[p] < Len(plan[p]))
    BY <1>1, <1>3, FinishType DEF Return
  <1> QED
    BY <1>2, <1>3

\* ... and when it returns an error.
LEMMA FailType ==
    ASSUME TypeOK, NEW p \in Proc, pc[p] # "idle", Fail(p)
    PROVE  /\ locks' \in [Container -> Proc \cup {None}]
           /\ startStates' \in [Container -> StartStatus]
           /\ lastSeen' = lastSeen
           /\ pc' \in [Proc -> Location]
           /\ plan' \in [Proc -> Seq(Step)]
           /\ at' \in [Proc -> Nat]
           /\ expired' \in [Proc -> BOOLEAN]
           /\ \A q \in Proc : pc'[q] # "idle" => at'[q] \in 1..Len(plan'[q])
  <1>1. Finish(p)
    BY DEF Fail
  <1>2. /\ locks' \in [Container -> Proc \cup {None}]
        /\ startStates' \in [Container -> StartStatus]
        /\ lastSeen' = lastSeen
    BY DEF Fail, setStartState, StartStatus, TypeOK
  <1> QED
    BY <1>1, <1>2, FinishType

\* A step that only moves p on within its plan.
LEMMA GotoType ==
    ASSUME TypeOK, NEW p \in Proc, pc[p] # "idle", NEW l \in Location,
           Goto(p, l), UNCHANGED <<plan, at>>
    PROVE  /\ pc' \in [Proc -> Location]
           /\ plan' \in [Proc -> Seq(Step)]
           /\ at' \in [Proc -> Nat]
           /\ \A q \in Proc : pc'[q] # "idle" => at'[q] \in 1..Len(plan'[q])
  BY DEF TypeOK, Goto

\* docker start keeps the type of docker.
LEMMA StartedType ==
    ASSUME TypeOK, NEW c \in Container
    PROVE  Started(c) \in [Container -> DockerState]
  BY DEF TypeOK, Started, DockerState

THEOREM TypeInit == Init => TypeOK
  BY DEF Init, TypeOK, StartStatus, Location

\* Every step keeps the types, whoever takes it.
LEMMA TypeStep == TypeOK /\ [Next]_vars => TypeOK'
  <1> SUFFICES ASSUME TypeOK, [Next]_vars
               PROVE  TypeOK'
    OBVIOUS
  <1> USE DEF memory, goroutine
  <1>1. ASSUME NEW p \in Proc, NEW job \in Jobs, Call(p, job)
        PROVE  TypeOK'
    <2>1. job \in Job /\ job.plan # <<>>
      BY JobsAssumption
    <2>2. job.plan \in Seq(Step) /\ 1 \in 1..Len(job.plan)
      BY <2>1 DEF Job
    <2>3. startStates' \in [Container -> StartStatus]
      BY <1>1 DEF Call, TypeOK, StartStatus
    <2>4. Entry(job.plan[1]) \in Location
      BY DEF Entry, Location
    <2>5. /\ pc' = [pc EXCEPT ![p] = Entry(job.plan[1])]
          /\ plan' = [plan EXCEPT ![p] = job.plan]
          /\ at' = [at EXCEPT ![p] = 1]
          /\ UNCHANGED <<docker, lastSeen, locks, expired>>
      BY <1>1 DEF Call, Goto
    <2>6. /\ pc' \in [Proc -> Location]
          /\ plan' \in [Proc -> Seq(Step)]
          /\ at' \in [Proc -> Nat]
      BY <2>2, <2>4, <2>5 DEF TypeOK
    <2>7. ASSUME NEW q \in Proc, pc'[q] # "idle"
          PROVE  at'[q] \in 1..Len(plan'[q])
      <3>1. CASE q = p
        BY <2>2, <2>5, <3>1 DEF TypeOK
      <3>2. CASE q # p
        BY <2>5, <2>7, <3>2 DEF TypeOK
      <3> QED
        BY <3>1, <3>2
    <2> QED
      BY <2>3, <2>5, <2>6, <2>7 DEF TypeOK
  <1>2. ASSUME NEW p \in Proc, AcquireLock(p)
        PROVE  TypeOK'
    <2>1. Cur(p) \in Container /\ pc[p] # "idle" /\ "check" \in Location
      BY <1>2, CurType DEF AcquireLock, Location
    <2>2. /\ pc' \in [Proc -> Location]
          /\ \A q \in Proc : pc'[q] # "idle" => at'[q] \in 1..Len(plan'[q])
      BY <1>2, <2>1, GotoType DEF AcquireLock
    <2> QED
      BY <1>2, <2>1, <2>2 DEF TypeOK, AcquireLock
  <1>3. ASSUME NEW p \in Proc, Proceed(p)
        PROVE  TypeOK'
    <2>1. pc[p] # "idle"
      BY <1>3 DEF Proceed, InitStartState, FoundRunning, FoundStopped,
         StartContainer, StartRejected, StartReplyLost, GetContainerAddress,
         NoAddress, GiveUp, CrashedOnBoot, StillBooting, ProbeSucceeds,
         ProbeFails, MarkRunning
    <2>2. Cur(p) \in Container
      BY <2>1, CurType
    <2>3. {"lock", "start", "address", "wait", "probe", "mark"} \subseteq Location
      BY DEF Location
    <2>4. CASE InitStartState(p)
      <3>1. startStates' \in [Container -> StartStatus]
        BY <2>2, <2>4 DEF InitStartState, setStartState, StartStatus, TypeOK
      <3>2. /\ pc' \in [Proc -> Location]
            /\ \A q \in Proc : pc'[q] # "idle" => at'[q] \in 1..Len(plan'[q])
        BY <2>1, <2>3, <2>4, GotoType DEF InitStartState
      <3> QED
        BY <2>4, <3>1, <3>2 DEF TypeOK, InitStartState
    <2>5. CASE FoundStopped(p)
      <3>1. startStates' \in [Container -> StartStatus]
        BY <2>2, <2>5 DEF FoundStopped, setStartState, StartStatus, TypeOK
      <3>2. /\ pc' \in [Proc -> Location]
            /\ \A q \in Proc : pc'[q] # "idle" => at'[q] \in 1..Len(plan'[q])
        BY <2>1, <2>3, <2>5, GotoType DEF FoundStopped
      <3> QED
        BY <2>5, <3>1, <3>2 DEF TypeOK, FoundStopped
    <2>6. CASE FoundRunning(p)
      <3>1. lastSeen' \in [Container -> 0..MaxAge \cup {None}]
        BY <2>2, <2>6, MaxAgeAssumption DEF FoundRunning, TypeOK
      <3>2. Return(p) /\ UNCHANGED <<docker, startStates>>
        BY <2>6 DEF FoundRunning
      <3> QED
        BY <2>1, <3>1, <3>2, ReturnType DEF TypeOK
    <2>7. CASE MarkRunning(p)
      <3>1. /\ lastSeen' \in [Container -> 0..MaxAge \cup {None}]
            /\ startStates' \in [Container -> StartStatus]
        BY <2>2, <2>7, MaxAgeAssumption
           DEF MarkRunning, setStartState, StartStatus, TypeOK
      <3>2. Return(p) /\ UNCHANGED docker
        BY <2>7 DEF MarkRunning
      <3> QED
        BY <2>1, <3>1, <3>2, ReturnType DEF TypeOK
    <2>8. CASE StartContainer(p)
      <3>1. docker' \in [Container -> DockerState]
        BY <2>2, <2>8, StartedType DEF StartContainer
      <3>2. /\ pc' \in [Proc -> Location]
            /\ \A q \in Proc : pc'[q] # "idle" => at'[q] \in 1..Len(plan'[q])
        BY <2>1, <2>3, <2>8, GotoType DEF StartContainer
      <3> QED
        BY <2>8, <3>1, <3>2 DEF TypeOK, StartContainer
    <2>9. CASE StartReplyLost(p)
      <3>1. docker' \in [Container -> DockerState] /\ Fail(p)
        BY <2>2, <2>9, StartedType DEF StartReplyLost
      <3> QED
        BY <2>1, <3>1, FailType DEF TypeOK
    <2>10. CASE StartRejected(p) \/ NoAddress(p) \/ GiveUp(p) \/ CrashedOnBoot(p)
      <3>1. Fail(p) /\ UNCHANGED docker
        BY <2>10 DEF StartRejected, NoAddress, GiveUp, CrashedOnBoot
      <3> QED
        BY <2>1, <3>1, FailType DEF TypeOK
    <2>11. CASE \/ GetContainerAddress(p) \/ StillBooting(p)
                \/ ProbeSucceeds(p) \/ ProbeFails(p)
      <3>1. PICK l \in Location :
                Goto(p, l) /\ UNCHANGED <<docker, memory, locks, plan, at, expired>>
        BY <2>3, <2>11 DEF GetContainerAddress, StillBooting, ProbeSucceeds,
           ProbeFails
      <3>2. /\ pc' \in [Proc -> Location]
            /\ \A q \in Proc : pc'[q] # "idle" => at'[q] \in 1..Len(plan'[q])
        BY <2>1, <3>1, GotoType
      <3> QED
        BY <3>1, <3>2 DEF TypeOK
    <2> QED
      BY <1>3, <2>4, <2>5, <2>6, <2>7, <2>8, <2>9, <2>10, <2>11 DEF Proceed
  <1>4. ASSUME NEW p \in Proc, Expire(p)
        PROVE  TypeOK'
    BY <1>4 DEF Expire, TypeOK
  <1>5. ASSUME NEW S \in SUBSET Container, RecordActivity(S)
        PROVE  TypeOK'
    BY <1>5, MaxAgeAssumption DEF RecordActivity, TypeOK
  <1>6. ASSUME NEW c \in Container, StopContainer(c) \/ ClearStartState(c)
        PROVE  TypeOK'
    BY <1>6 DEF StopContainer, ClearStartState, setStartState, TypeOK,
       DockerState, StartStatus
  <1>7. ASSUME NEW c \in Container, Environment(c)
        PROVE  TypeOK'
    BY <1>7 DEF Environment, Boot, Crash, OperatorStart, Remove, Create, Becomes,
       TypeOK, DockerState
  <1>8. CASE Restart
    BY <1>8 DEF Restart, TypeOK, StartStatus, Location
  <1>9. CASE Tick
    BY <1>9, MaxAgeAssumption DEF Tick, TypeOK
  <1>10. CASE UNCHANGED vars
    BY <1>10 DEF vars, TypeOK
  <1> QED
    BY <1>1, <1>2, <1>3, <1>4, <1>5, <1>6, <1>7, <1>8, <1>9, <1>10 DEF Next

\* Type correctness of the manager's state, for any callers and faults.
THEOREM TypeCorrect == Spec => []TypeOK
  <1> QED
    BY TypeInit, TypeStep, PTL DEF Spec

(***************************************************************************)
(* The mutex.                                                              *)
(***************************************************************************)

\* A goroutine that steps leaves the others where they are.
LEMMA OthersStay ==
    ASSUME TypeOK, NEW p \in Proc, NEW q \in Proc, p # q,
           AcquireLock(p) \/ Proceed(p)
    PROVE  /\ pc'[q] = pc[q]
           /\ plan'[q] = plan[q]
           /\ at'[q] = at[q]
           /\ expired'[q] = expired[q]
           /\ Cur(q)' = Cur(q)
  <1>1. CASE \/ FoundRunning(p) \/ MarkRunning(p) \/ StartRejected(p)
             \/ StartReplyLost(p) \/ NoAddress(p) \/ GiveUp(p) \/ CrashedOnBoot(p)
    <2>1. Return(p) \/ Finish(p)
      BY <1>1 DEF FoundRunning, MarkRunning, StartRejected, StartReplyLost,
         NoAddress, GiveUp, CrashedOnBoot, Fail
    <2>2. CASE Finish(p)
      BY <2>2 DEF Finish, Goto, TypeOK, Cur
    <2>3. CASE Return(p)
      BY <2>2, <2>3 DEF Return, Goto, TypeOK, Cur
    <2> QED
      BY <2>1, <2>2, <2>3
  <1>2. CASE \/ AcquireLock(p) \/ InitStartState(p) \/ FoundStopped(p)
             \/ StartContainer(p) \/ GetContainerAddress(p) \/ StillBooting(p)
             \/ ProbeSucceeds(p) \/ ProbeFails(p)
    BY <1>2 DEF AcquireLock, InitStartState, FoundStopped, StartContainer,
       GetContainerAddress, StillBooting, ProbeSucceeds, ProbeFails, Goto,
       TypeOK, Cur
  <1> QED
    BY <1>1, <1>2 DEF Proceed

\* A goroutine that leaves its critical section hands back only its mutex.
LEMMA UnlockStep ==
    ASSUME TypeOK, MutexHeld, NEW p \in Proc, InCriticalSection(p),
           Return(p) \/ Fail(p),
           \A q \in Proc \ {p} : pc'[q] = pc[q] /\ Cur(q)' = Cur(q)
    PROVE  MutexHeld' /\ pc'[p] \in {"idle", "init", "lock"}
  <1>1. locks' = [locks EXCEPT ![Cur(p)] = None]
    BY DEF Return, Fail
  <1>2. pc'[p] \in {"idle", "init", "lock"}
    BY DEF Return, Fail, Finish, Goto, Entry, TypeOK
  <1>3. ASSUME NEW q \in Proc, InCriticalSection(q)'
        PROVE  locks'[Cur(q)'] = q
    <2>1. q # p
      BY <1>2, <1>3 DEF InCriticalSection
    <2>2. InCriticalSection(q) /\ Cur(q)' = Cur(q)
      BY <1>3, <2>1 DEF InCriticalSection
    <2>3. locks[Cur(q)] = q /\ locks[Cur(p)] = p
      BY <2>2 DEF MutexHeld
    <2>4. Cur(q) \in Container /\ Cur(p) \in Container
      BY <2>2, CurType DEF InCriticalSection
    <2> QED
      BY <1>1, <2>1, <2>2, <2>3, <2>4 DEF TypeOK
  <1> QED
    BY <1>2, <1>3 DEF MutexHeld

LEMMA MutexStep == TypeOK /\ MutexHeld /\ [Next]_vars => MutexHeld'
  <1> SUFFICES ASSUME TypeOK, MutexHeld, [Next]_vars
               PROVE  MutexHeld'
    OBVIOUS
  <1> USE DEF memory, goroutine
  <1>1. ASSUME NEW p \in Proc, NEW job \in Jobs, Call(p, job)
        PROVE  MutexHeld'
    <2>1. /\ ~InCriticalSection(p)'
          /\ \A q \in Proc \ {p} : pc'[q] = pc[q] /\ Cur(q)' = Cur(q)
      BY <1>1 DEF Call, Goto, Entry, InCriticalSection, TypeOK, Cur
    <2> QED
      BY <1>1, <2>1 DEF Call, MutexHeld, InCriticalSection
  <1>2. ASSUME NEW p \in Proc, AcquireLock(p)
        PROVE  MutexHeld'
    <2>1. Cur(p) \in Container
      BY <1>2, CurType DEF AcquireLock
    <2>2. /\ locks' = [locks EXCEPT ![Cur(p)] = p]
          /\ locks[Cur(p)] = None
          /\ Cur(p)' = Cur(p)
      BY <1>2 DEF AcquireLock, Cur
    <2>3. ASSUME NEW q \in Proc, InCriticalSection(q)'
          PROVE  locks'[Cur(q)'] = q
      <3>1. CASE q = p
        BY <2>1, <2>2, <3>1 DEF TypeOK
      <3>2. CASE q # p
        <4>1. InCriticalSection(q) /\ Cur(q)' = Cur(q)
          BY <1>2, <2>3, <3>2, OthersStay DEF InCriticalSection
        <4>2. locks[Cur(q)] = q /\ Cur(q) \in Container
          BY <4>1, CurType DEF MutexHeld, InCriticalSection
        <4>3. Cur(q) # Cur(p)
          BY <2>2, <4>2, NoneAssumption
        <4> QED
          BY <2>1, <2>2, <4>1, <4>2, <4>3 DEF TypeOK
      <3> QED
        BY <3>1, <3>2
    <2> QED
      BY <2>3 DEF MutexHeld
  <1>3. ASSUME NEW p \in Proc, Proceed(p)
        PROVE  MutexHeld'
    <2>1. \A q \in Proc \ {p} : pc'[q] = pc[q] /\ Cur(q)' = Cur(q)
      BY <1>3, OthersStay
    <2>2. CASE InitStartState(p)
      <3>1. ~InCriticalSection(p)' /\ locks' = locks
        BY <2>2 DEF InitStartState, Goto, InCriticalSection, TypeOK
      <3> QED
        BY <2>1, <3>1 DEF MutexHeld, InCriticalSection
    <2>3. CASE \/ FoundRunning(p) \/ MarkRunning(p) \/ StartRejected(p)
               \/ StartReplyLost(p) \/ NoAddress(p) \/ GiveUp(p) \/ CrashedOnBoot(p)
      <3>1. InCriticalSection(p) /\ (Return(p) \/ Fail(p))
        BY <2>3 DEF FoundRunning, MarkRunning, StartRejected, StartReplyLost,
           NoAddress, GiveUp, CrashedOnBoot, InCriticalSection
      <3> QED
        BY <2>1, <3>1, UnlockStep
    <2>4. CASE \/ FoundStopped(p) \/ StartContainer(p) \/ GetContainerAddress(p)
               \/ StillBooting(p) \/ ProbeSucceeds(p) \/ ProbeFails(p)
      <3>1. InCriticalSection(p) /\ Cur(p)' = Cur(p) /\ locks' = locks
        BY <2>4 DEF FoundStopped, StartContainer, GetContainerAddress,
           StillBooting, ProbeSucceeds, ProbeFails, InCriticalSection, Cur
      <3> QED
        BY <2>1, <3>1 DEF MutexHeld, InCriticalSection
    <2> QED
      BY <1>3, <2>2, <2>3, <2>4 DEF Proceed
  <1>4. ASSUME NEW p \in Proc, Expire(p)
        PROVE  MutexHeld'
    BY <1>4 DEF Expire, MutexHeld, InCriticalSection, Cur
  <1>5. CASE \/ \E S \in SUBSET Container : RecordActivity(S)
             \/ \E c \in Container : StopContainer(c) \/ ClearStartState(c)
             \/ \E c \in Container : Environment(c)
             \/ Tick
             \/ UNCHANGED vars
    <2>1. UNCHANGED <<locks, pc, plan, at>>
      BY <1>5 DEF RecordActivity, StopContainer, ClearStartState, Environment,
         Boot, Crash, OperatorStart, Remove, Create, Becomes, Tick, vars
    <2> QED
      BY <2>1 DEF MutexHeld, InCriticalSection, Cur
  <1>6. CASE Restart
    BY <1>6 DEF Restart, MutexHeld, InCriticalSection
  <1> QED
    BY <1>1, <1>2, <1>3, <1>4, <1>5, <1>6 DEF Next

\* Two goroutines that hold the same mutex are one.
LEMMA MutexExcludes == MutexHeld => OneAttempt
  BY DEF MutexHeld, OneAttempt

\* At most one goroutine at a time is between the status check and the
\* result of a container, for any number of goroutines and any plans.
THEOREM OneAttemptAlways == Spec => []OneAttempt
  <1>1. Init => MutexHeld
    BY DEF Init, MutexHeld, InCriticalSection
  <1> QED
    BY <1>1, TypeInit, TypeStep, MutexStep, MutexExcludes, PTL DEF Spec

\* A goroutine that leaves its critical section leaves its mutex free.
LEMMA UnlockFrees ==
    ASSUME TypeOK, MutexHasHolder, NEW p \in Proc, InCriticalSection(p),
           Return(p) \/ Fail(p),
           \A q \in Proc \ {p} : pc'[q] = pc[q] /\ Cur(q)' = Cur(q)
    PROVE  MutexHasHolder'
  <1>1. locks' = [locks EXCEPT ![Cur(p)] = None]
    BY DEF Return, Fail
  <1>2. Cur(p) \in Container
    BY CurType DEF InCriticalSection
  <1>3. ASSUME NEW c \in Container, locks'[c] # None
        PROVE  InCriticalSection(locks[c]) /\ Cur(locks[c]) = c
               /\ locks'[c] = locks[c] /\ locks[c] \in Proc \ {p}
    <2>1. c # Cur(p) /\ locks'[c] = locks[c]
      BY <1>1, <1>2, <1>3 DEF TypeOK
    <2>2. InCriticalSection(locks[c]) /\ Cur(locks[c]) = c /\ locks[c] \in Proc
      BY <1>3, <2>1 DEF MutexHasHolder, TypeOK
    <2> QED
      BY <2>1, <2>2
  <1> QED
    BY <1>3 DEF MutexHasHolder, InCriticalSection

LEMMA MutexHasHolderStep == TypeOK /\ MutexHasHolder /\ [Next]_vars => MutexHasHolder'
  <1> SUFFICES ASSUME TypeOK, MutexHasHolder, [Next]_vars
               PROVE  MutexHasHolder'
    OBVIOUS
  <1> USE DEF memory, goroutine
  <1>a. \A c \in Container : locks[c] # None => locks[c] \in Proc
    BY DEF TypeOK
  <1>1. ASSUME NEW p \in Proc, NEW job \in Jobs, Call(p, job)
        PROVE  MutexHasHolder'
    <2>1. /\ ~InCriticalSection(p)
          /\ \A q \in Proc \ {p} : pc'[q] = pc[q] /\ Cur(q)' = Cur(q)
          /\ locks' = locks
      BY <1>1 DEF Call, Goto, InCriticalSection, TypeOK, Cur
    <2> QED
      BY <1>a, <2>1 DEF MutexHasHolder, InCriticalSection
  <1>2. ASSUME NEW p \in Proc, AcquireLock(p)
        PROVE  MutexHasHolder'
    <2>1. /\ Cur(p) \in Container
          /\ locks' = [locks EXCEPT ![Cur(p)] = p]
          /\ InCriticalSection(p)' /\ Cur(p)' = Cur(p)
          /\ ~InCriticalSection(p)
      BY <1>2, CurType DEF AcquireLock, Goto, InCriticalSection, TypeOK, Cur
    <2>2. \A q \in Proc \ {p} : pc'[q] = pc[q] /\ Cur(q)' = Cur(q)
      BY <1>2, OthersStay
    <2>3. ASSUME NEW c \in Container, locks'[c] # None
          PROVE  InCriticalSection(locks[c])' /\ Cur(locks[c])' = c
      <3>1. CASE c = Cur(p)
        BY <2>1, <3>1 DEF TypeOK
      <3>2. CASE c # Cur(p)
        <4>1. locks'[c] = locks[c]
          BY <2>1, <3>2 DEF TypeOK
        <4>2. locks[c] \in Proc \ {p} /\ InCriticalSection(locks[c]) /\ Cur(locks[c]) = c
          BY <1>a, <2>1, <2>3, <4>1 DEF MutexHasHolder
        <4> QED
          BY <2>2, <4>1, <4>2 DEF InCriticalSection
      <3> QED
        BY <3>1, <3>2
    <2> QED
      BY <2>3 DEF MutexHasHolder
  <1>3. ASSUME NEW p \in Proc, Proceed(p)
        PROVE  MutexHasHolder'
    <2>1. \A q \in Proc \ {p} : pc'[q] = pc[q] /\ Cur(q)' = Cur(q)
      BY <1>3, OthersStay
    <2>2. CASE InitStartState(p)
      <3>1. ~InCriticalSection(p) /\ locks' = locks
        BY <2>2 DEF InitStartState, InCriticalSection
      <3> QED
        BY <1>a, <2>1, <3>1 DEF MutexHasHolder, InCriticalSection
    <2>3. CASE \/ FoundRunning(p) \/ MarkRunning(p) \/ StartRejected(p)
               \/ StartReplyLost(p) \/ NoAddress(p) \/ GiveUp(p) \/ CrashedOnBoot(p)
      <3>1. InCriticalSection(p) /\ (Return(p) \/ Fail(p))
        BY <2>3 DEF FoundRunning, MarkRunning, StartRejected, StartReplyLost,
           NoAddress, GiveUp, CrashedOnBoot, InCriticalSection
      <3> QED
        BY <2>1, <3>1, UnlockFrees
    <2>4. CASE \/ FoundStopped(p) \/ StartContainer(p) \/ GetContainerAddress(p)
               \/ StillBooting(p) \/ ProbeSucceeds(p) \/ ProbeFails(p)
      <3>1. InCriticalSection(p)' /\ Cur(p)' = Cur(p) /\ locks' = locks
        BY <2>4 DEF FoundStopped, StartContainer, GetContainerAddress, StillBooting,
           ProbeSucceeds, ProbeFails, Goto, InCriticalSection, TypeOK, Cur
      <3> QED
        BY <1>a, <2>1, <3>1 DEF MutexHasHolder, InCriticalSection
    <2> QED
      BY <1>3, <2>2, <2>3, <2>4 DEF Proceed
  <1>4. CASE \/ \E p \in Proc : Expire(p)
             \/ \E S \in SUBSET Container : RecordActivity(S)
             \/ \E c \in Container : StopContainer(c) \/ ClearStartState(c)
             \/ \E c \in Container : Environment(c)
             \/ Tick
             \/ UNCHANGED vars
    <2>1. UNCHANGED <<locks, pc, plan, at>>
      BY <1>4 DEF Expire, RecordActivity, StopContainer, ClearStartState, Environment,
         Boot, Crash, OperatorStart, Remove, Create, Becomes, Tick, vars
    <2> QED
      BY <2>1 DEF MutexHasHolder, InCriticalSection, Cur
  <1>5. CASE Restart
    BY <1>5 DEF Restart, MutexHasHolder
  <1> QED
    BY <1>1, <1>2, <1>3, <1>4, <1>5 DEF Next

\* Every path out of EnsureRunning unlocks, for any plans, deadlines and
\* failing Docker calls: no request waits for a mutex that nobody holds.
THEOREM MutexHasHolderAlways == Spec => []MutexHasHolder
  <1>1. Init => MutexHasHolder
    BY DEF Init, MutexHasHolder
  <1> QED
    BY <1>1, TypeInit, TypeStep, MutexHasHolderStep, PTL DEF Spec

(***************************************************************************)
(* What exclusive attempts make true of the start states and of Docker.    *)
(***************************************************************************)

\* The result of an attempt does not disturb another attempt's "starting".
LEMMA ResultKeepsAttempts ==
    ASSUME TypeOK, OneAttempt, AttemptVisible, NEW p \in Proc,
           InCriticalSection(p), pc'[p] \in {"idle", "init", "lock"},
           \A q \in Proc \ {p} : pc'[q] = pc[q] /\ Cur(q)' = Cur(q),
           NEW status, setStartState(Cur(p), status)
    PROVE  AttemptVisible'
  <1> SUFFICES ASSUME NEW q \in Proc, Attempting(q)', Cur(q)' \notin Stoppable
               PROVE  startStates'[Cur(q)'] = "starting"
    BY DEF AttemptVisible
  <1>1. q # p
    BY DEF Attempting, InCriticalSection
  <1>2. Attempting(q) /\ Cur(q)' = Cur(q)
    BY <1>1 DEF Attempting, InCriticalSection
  <1>3. startStates[Cur(q)] = "starting"
    BY <1>2 DEF AttemptVisible
  <1>4. Cur(q) # Cur(p) /\ Cur(q) \in Container
    BY <1>1, <1>2, CurType DEF OneAttempt, Attempting, InCriticalSection
  <1> QED
    BY <1>2, <1>3, <1>4 DEF setStartState, TypeOK

LEMMA AttemptVisibleStep ==
    TypeOK /\ MutexHeld /\ AttemptVisible /\ [Next]_vars => AttemptVisible'
  <1> SUFFICES ASSUME TypeOK, MutexHeld, AttemptVisible, [Next]_vars
               PROVE  AttemptVisible'
    OBVIOUS
  <1>a. OneAttempt
    BY MutexExcludes
  <1> USE DEF memory, goroutine
  <1>1. ASSUME NEW p \in Proc, NEW job \in Jobs, Call(p, job)
        PROVE  AttemptVisible'
    <2> SUFFICES ASSUME NEW q \in Proc, Attempting(q)', Cur(q)' \notin Stoppable
                 PROVE  startStates'[Cur(q)'] = "starting"
      BY DEF AttemptVisible
    <2>1. q # p
      BY <1>1 DEF Call, Goto, Entry, Attempting, InCriticalSection, TypeOK
    <2>2. Attempting(q) /\ Cur(q)' = Cur(q)
      BY <1>1, <2>1 DEF Call, Goto, Attempting, InCriticalSection, TypeOK, Cur
    <2>3. startStates[Cur(q)] = "starting" /\ Cur(q) \in Container
      BY <2>2, CurType DEF AttemptVisible, Attempting, InCriticalSection
    <2> QED
      BY <1>1, <2>2, <2>3 DEF Call
  <1>2. ASSUME NEW p \in Proc, AcquireLock(p) \/ Proceed(p)
        PROVE  AttemptVisible'
    <2>1. \A q \in Proc \ {p} : pc'[q] = pc[q] /\ Cur(q)' = Cur(q)
      BY <1>2, OthersStay
    <2>2. CASE AcquireLock(p) \/ FoundRunning(p)
      <3>1. ~Attempting(p)' /\ startStates' = startStates
        BY <2>2 DEF AcquireLock, FoundRunning, Return, Finish, Goto, Entry,
           Attempting, InCriticalSection, TypeOK
      <3> QED
        BY <2>1, <3>1 DEF AttemptVisible, Attempting, InCriticalSection
    <2>3. CASE InitStartState(p) \/ FoundStopped(p)
      <3>1. setStartState(Cur(p), "starting") /\ Cur(p)' = Cur(p) /\ Cur(p) \in Container
        BY <2>3, CurType DEF InitStartState, FoundStopped, Cur
      <3>2. ASSUME NEW q \in Proc, Attempting(q)', Cur(q)' \notin Stoppable
            PROVE  startStates'[Cur(q)'] = "starting"
        <4>1. CASE Cur(q)' = Cur(p)
          BY <3>1, <4>1 DEF setStartState, TypeOK
        <4>2. CASE Cur(q)' # Cur(p)
          <5>1. Attempting(q) /\ Cur(q)' = Cur(q)
            BY <2>1, <3>1, <3>2, <4>2 DEF Attempting, InCriticalSection
          <5>2. startStates[Cur(q)] = "starting" /\ Cur(q) \in Container
            BY <3>2, <5>1, CurType DEF AttemptVisible, Attempting, InCriticalSection
          <5> QED
            BY <3>1, <4>2, <5>1, <5>2 DEF setStartState, TypeOK
        <4> QED
          BY <4>1, <4>2
      <3> QED
        BY <3>2 DEF AttemptVisible
    <2>4. CASE \/ StartContainer(p) \/ GetContainerAddress(p) \/ StillBooting(p)
               \/ ProbeSucceeds(p) \/ ProbeFails(p)
      <3>1. Attempting(p) /\ Cur(p)' = Cur(p) /\ startStates' = startStates
        BY <2>4 DEF StartContainer, GetContainerAddress, StillBooting,
           ProbeSucceeds, ProbeFails, Attempting, InCriticalSection, Cur
      <3> QED
        BY <2>1, <3>1 DEF AttemptVisible, Attempting, InCriticalSection
    <2>5. CASE \/ MarkRunning(p) \/ StartRejected(p) \/ StartReplyLost(p)
               \/ NoAddress(p) \/ GiveUp(p) \/ CrashedOnBoot(p)
      <3>1. InCriticalSection(p) /\ (Return(p) \/ Fail(p))
        BY <2>5 DEF MarkRunning, StartRejected, StartReplyLost,
           NoAddress, GiveUp, CrashedOnBoot, InCriticalSection
      <3>2. PICK status \in {"running", "failed"} : setStartState(Cur(p), status)
        BY <2>5 DEF MarkRunning, StartRejected, StartReplyLost, NoAddress, GiveUp,
           CrashedOnBoot, Fail
      <3>3. pc'[p] \in {"idle", "init", "lock"}
        BY <2>1, <3>1, UnlockStep
      <3> QED
        BY <1>a, <2>1, <3>1, <3>2, <3>3, ResultKeepsAttempts
    <2> QED
      BY <1>2, <2>2, <2>3, <2>4, <2>5 DEF Proceed
  <1>3. ASSUME NEW p \in Proc, Expire(p)
        PROVE  AttemptVisible'
    BY <1>3 DEF Expire, AttemptVisible, Attempting, InCriticalSection, Cur
  <1>4. ASSUME NEW c \in Container, ClearStartState(c)
        PROVE  AttemptVisible'
    BY <1>4 DEF ClearStartState, setStartState, TypeOK, AttemptVisible, Attempting,
       InCriticalSection, Cur
  <1>5. CASE \/ \E S \in SUBSET Container : RecordActivity(S)
             \/ \E c \in Container : StopContainer(c)
             \/ \E c \in Container : Environment(c)
             \/ Tick
             \/ UNCHANGED vars
    <2>1. UNCHANGED <<startStates, pc, plan, at>>
      BY <1>5 DEF RecordActivity, StopContainer, Environment, Boot, Crash,
         OperatorStart, Remove, Create, Becomes, Tick, vars
    <2> QED
      BY <2>1 DEF AttemptVisible, Attempting, InCriticalSection, Cur
  <1>6. CASE Restart
    BY <1>6 DEF Restart, AttemptVisible, Attempting, InCriticalSection
  <1> QED
    BY <1>1, <1>2, <1>3, <1>4, <1>5, <1>6 DEF Next

\* From docker start to the result /_health says "starting", for every
\* container that the gateway does not stop.
THEOREM AttemptVisibleAlways == Spec => []AttemptVisible
  <1>1. Init => MutexHeld /\ AttemptVisible
    BY DEF Init, MutexHeld, AttemptVisible, Attempting, InCriticalSection
  <1> QED
    BY <1>1, TypeInit, TypeStep, MutexStep, AttemptVisibleStep, PTL DEF Spec

\* Without crashes, a container that the gateway does not stop stays ready.
LEMMA ReadyStays ==
    ASSUME TypeOK, [Next]_vars, "crash" \notin Faults,
           NEW c \in Container \ Stoppable, docker[c] = "ready"
    PROVE  docker'[c] = "ready"
  <1>1. ASSUME NEW p \in Proc, StartContainer(p) \/ StartReplyLost(p)
        PROVE  docker'[c] = "ready"
    BY <1>1 DEF StartContainer, StartReplyLost, Started, TypeOK
  <1>2. ASSUME NEW p \in Proc, Proceed(p), ~StartContainer(p), ~StartReplyLost(p)
        PROVE  docker'[c] = "ready"
    BY <1>2 DEF Proceed, InitStartState, FoundRunning, FoundStopped, StartRejected,
       GetContainerAddress, NoAddress, GiveUp, CrashedOnBoot, StillBooting,
       ProbeSucceeds, ProbeFails, MarkRunning
  <1>3. ASSUME NEW d \in Container, StopContainer(d) \/ Environment(d)
        PROVE  docker'[c] = "ready"
    BY <1>3 DEF StopContainer, Environment, Boot, Crash, OperatorStart, Remove,
       Create, Becomes, TypeOK
  <1>4. CASE \/ \E p \in Proc, job \in Jobs : Call(p, job)
             \/ \E p \in Proc : AcquireLock(p) \/ Expire(p)
             \/ \E S \in SUBSET Container : RecordActivity(S)
             \/ \E d \in Container : ClearStartState(d)
             \/ Restart \/ Tick \/ UNCHANGED vars
    BY <1>4 DEF Call, AcquireLock, Expire, RecordActivity, ClearStartState,
       Restart, Tick, vars
  <1> QED
    BY <1>1, <1>2, <1>3, <1>4 DEF Next

\* "running" is written by MarkRunning only.
LEMMA RunningSource ==
    ASSUME TypeOK, [Next]_vars, NEW c \in Container,
           startStates'[c] = "running", startStates[c] # "running"
    PROVE  \E p \in Proc : MarkRunning(p) /\ Cur(p) = c
  <1> USE DEF memory, goroutine
  <1>1. CASE \E p \in Proc, job \in Jobs : Call(p, job)
    BY <1>1 DEF Call
  <1>2. ASSUME NEW p \in Proc, Proceed(p), ~MarkRunning(p)
        PROVE  FALSE
    <2>1. pc[p] # "idle"
      BY <1>2 DEF Proceed, InitStartState, FoundRunning, FoundStopped,
         StartContainer, StartRejected, StartReplyLost, GetContainerAddress,
         NoAddress, GiveUp, CrashedOnBoot, StillBooting, ProbeSucceeds, ProbeFails
    <2>2. \/ UNCHANGED startStates
          \/ setStartState(Cur(p), "starting")
          \/ setStartState(Cur(p), "failed")
      BY <1>2 DEF Proceed, InitStartState, FoundRunning, FoundStopped,
         StartContainer, StartRejected, StartReplyLost, GetContainerAddress,
         NoAddress, GiveUp, CrashedOnBoot, StillBooting, ProbeSucceeds, ProbeFails,
         Fail
    <2> QED
      BY <2>1, <2>2, CurType DEF setStartState, TypeOK
  <1>3. ASSUME NEW p \in Proc, MarkRunning(p)
        PROVE  Cur(p) = c
    <2>1. setStartState(Cur(p), "running") /\ Cur(p) \in Container
      BY <1>3, CurType DEF MarkRunning
    <2> QED
      BY <2>1 DEF setStartState, TypeOK
  <1>4. ASSUME NEW d \in Container, ClearStartState(d)
        PROVE  FALSE
    BY <1>4 DEF ClearStartState, setStartState, TypeOK
  <1>5. CASE Restart
    BY <1>5 DEF Restart
  <1>6. CASE \/ \E p \in Proc : AcquireLock(p) \/ Expire(p)
             \/ \E S \in SUBSET Container : RecordActivity(S)
             \/ \E d \in Container : StopContainer(d) \/ Environment(d)
             \/ Tick \/ UNCHANGED vars
    BY <1>6 DEF AcquireLock, Expire, RecordActivity, StopContainer, Environment,
       Boot, Crash, OperatorStart, Remove, Create, Becomes, Tick, vars
  <1> QED
    BY <1>1, <1>2, <1>3, <1>4, <1>5, <1>6 DEF Next

LEMMA ProbedReadyStep == TypeOK /\ ProbedReady /\ [Next]_vars => ProbedReady'
  <1> SUFFICES ASSUME TypeOK, ProbedReady, [Next]_vars, "crash" \notin Faults,
                      NEW p \in Proc, pc'[p] = "mark", Cur(p)' \notin Stoppable
               PROVE  docker'[Cur(p)'] = "ready"
    BY DEF ProbedReady
  <1> USE DEF memory, goroutine
  <1>1. CASE ProbeSucceeds(p)
    BY <1>1 DEF ProbeSucceeds, Cur
  <1>2. ASSUME pc[p] = "mark", Cur(p)' = Cur(p)
        PROVE  docker'[Cur(p)'] = "ready"
    <2>1. docker[Cur(p)] = "ready" /\ Cur(p) \in Container
      BY <1>2, CurType DEF ProbedReady
    <2> QED
      BY <1>2, <2>1, ReadyStays
  <1>3. ASSUME NEW q \in Proc, q # p, AcquireLock(q) \/ Proceed(q)
        PROVE  pc[p] = "mark" /\ Cur(p)' = Cur(p)
    BY <1>3, OthersStay
  <1>4. ASSUME AcquireLock(p) \/ Proceed(p), ~ProbeSucceeds(p)
        PROVE  FALSE
    BY <1>4 DEF AcquireLock, Proceed, InitStartState, FoundRunning, FoundStopped,
       StartContainer, StartRejected, StartReplyLost, GetContainerAddress,
       NoAddress, GiveUp, CrashedOnBoot, StillBooting, ProbeFails, MarkRunning,
       Return, Fail, Finish, Goto, Entry, TypeOK
  <1>5. ASSUME NEW q \in Proc, NEW job \in Jobs, Call(q, job)
        PROVE  pc[p] = "mark" /\ Cur(p)' = Cur(p)
    BY <1>5 DEF Call, Goto, Entry, TypeOK, Cur
  <1>6. ASSUME NEW q \in Proc, Expire(q)
        PROVE  pc[p] = "mark" /\ Cur(p)' = Cur(p)
    BY <1>6 DEF Expire, Cur
  <1>7. CASE Restart
    BY <1>7 DEF Restart
  <1>8. CASE \/ \E S \in SUBSET Container : RecordActivity(S)
             \/ \E c \in Container : StopContainer(c) \/ ClearStartState(c)
             \/ \E c \in Container : Environment(c)
             \/ Tick \/ UNCHANGED vars
    <2>1. UNCHANGED <<pc, plan, at>>
      BY <1>8 DEF RecordActivity, StopContainer, ClearStartState, Environment,
         Boot, Crash, OperatorStart, Remove, Create, Becomes, Tick, vars
    <2> QED
      BY <1>2, <2>1 DEF Cur
  <1> QED
    BY <1>1, <1>2, <1>3, <1>4, <1>5, <1>6, <1>7, <1>8 DEF Next

LEMMA RunningMeansReadyStep ==
    TypeOK /\ ProbedReady /\ RunningMeansReady /\ [Next]_vars => RunningMeansReady'
  <1> SUFFICES ASSUME TypeOK, ProbedReady, RunningMeansReady, [Next]_vars,
                      "crash" \notin Faults, NEW c \in Container \ Stoppable,
                      startStates'[c] = "running"
               PROVE  docker'[c] = "ready"
    BY DEF RunningMeansReady
  <1>1. CASE startStates[c] = "running"
    BY <1>1, ReadyStays DEF RunningMeansReady
  <1>2. CASE startStates[c] # "running"
    <2>1. PICK p \in Proc : MarkRunning(p) /\ Cur(p) = c
      BY <1>2, RunningSource
    <2>2. docker[c] = "ready"
      BY <2>1 DEF ProbedReady, MarkRunning
    <2> QED
      BY <2>2, ReadyStays
  <1> QED
    BY <1>1, <1>2

\* What /_health calls "running" has passed its probe and is still ready, if
\* containers do not exit by themselves and the gateway does not stop them.
THEOREM RunningMeansReadyAlways == Spec => []RunningMeansReady
  <1>1. Init => ProbedReady /\ RunningMeansReady
    BY DEF Init, ProbedReady, RunningMeansReady
  <1> QED
    BY <1>1, TypeInit, TypeStep, ProbedReadyStep, RunningMeansReadyStep, PTL DEF Spec

(***************************************************************************)
(* docker start, and the plans.                                            *)
(***************************************************************************)

\* A container starts to run by docker start of the goroutine that is at it,
\* or by an operator.
LEMMA RunSource ==
    ASSUME TypeOK, [Next]_vars, "operator" \notin Faults,
           NEW c \in Container, ~Running(c), Running(c)'
    PROVE  \E p \in Proc : (StartContainer(p) \/ StartReplyLost(p)) /\ Cur(p) = c
  <1>1. ASSUME NEW p \in Proc, StartContainer(p) \/ StartReplyLost(p)
        PROVE  Cur(p) = c
    <2>1. docker' = Started(Cur(p)) /\ Cur(p) \in Container
      BY <1>1, CurType DEF StartContainer, StartReplyLost
    <2> QED
      BY <2>1 DEF Started, Running, TypeOK
  <1>2. ASSUME NEW p \in Proc, Proceed(p), ~StartContainer(p), ~StartReplyLost(p)
        PROVE  FALSE
    BY <1>2 DEF Proceed, InitStartState, FoundRunning, FoundStopped, StartRejected,
       GetContainerAddress, NoAddress, GiveUp, CrashedOnBoot, StillBooting,
       ProbeSucceeds, ProbeFails, MarkRunning, Running
  <1>3. ASSUME NEW d \in Container, StopContainer(d) \/ Environment(d)
        PROVE  FALSE
    BY <1>3 DEF StopContainer, Environment, Boot, Crash, OperatorStart, Remove,
       Create, Becomes, Running, TypeOK
  <1>4. CASE \/ \E p \in Proc, job \in Jobs : Call(p, job)
             \/ \E p \in Proc : AcquireLock(p) \/ Expire(p)
             \/ \E S \in SUBSET Container : RecordActivity(S)
             \/ \E d \in Container : ClearStartState(d)
             \/ Restart \/ Tick \/ UNCHANGED vars
    BY <1>4 DEF Call, AcquireLock, Expire, RecordActivity, ClearStartState,
       Restart, Tick, vars, Running
  <1> QED
    BY <1>1, <1>2, <1>3, <1>4 DEF Next

\* A goroutine is at docker start after the step only if it was there
\* before, or has just found the container stopped.
LEMMA StartLocation ==
    ASSUME TypeOK, [Next]_vars, NEW p \in Proc, pc'[p] = "start", ~expired'[p]
    PROVE  \/ pc[p] = "start" /\ ~expired[p] /\ Cur(p)' = Cur(p)
           \/ FoundStopped(p)
  <1> DEFINE Stays == pc[p] = "start" /\ ~expired[p] /\ Cur(p)' = Cur(p)
  <1> USE DEF memory, goroutine
  <1>1. ASSUME NEW q \in Proc, q # p, AcquireLock(q) \/ Proceed(q)
        PROVE  Stays
    BY <1>1, OthersStay
  <1>2. ASSUME AcquireLock(p) \/ Proceed(p), ~FoundStopped(p)
        PROVE  FALSE
    BY <1>2 DEF AcquireLock, Proceed, InitStartState, FoundRunning,
       StartContainer, StartRejected, StartReplyLost, GetContainerAddress,
       NoAddress, GiveUp, CrashedOnBoot, StillBooting, ProbeSucceeds, ProbeFails,
       MarkRunning, Return, Fail, Finish, Goto, Entry, TypeOK
  <1>3. ASSUME NEW q \in Proc, NEW job \in Jobs, Call(q, job)
        PROVE  Stays
    BY <1>3 DEF Call, Goto, Entry, TypeOK, Cur
  <1>4. ASSUME NEW q \in Proc, Expire(q)
        PROVE  Stays
    BY <1>4 DEF Expire, Cur, TypeOK
  <1>5. CASE Restart
    BY <1>5 DEF Restart
  <1>6. CASE \/ \E S \in SUBSET Container : RecordActivity(S)
             \/ \E c \in Container : StopContainer(c) \/ ClearStartState(c)
             \/ \E c \in Container : Environment(c)
             \/ Tick \/ UNCHANGED vars
    <2>1. UNCHANGED <<pc, plan, at, expired>>
      BY <1>6 DEF RecordActivity, StopContainer, ClearStartState, Environment,
         Boot, Crash, OperatorStart, Remove, Create, Becomes, Tick, vars
    <2> QED
      BY <2>1 DEF Cur
  <1> QED
    BY <1>1, <1>2, <1>3, <1>4, <1>5, <1>6 DEF Next

LEMMA StartOnlyStoppedStep ==
    TypeOK /\ OneAttempt /\ StartOnlyStopped /\ [Next]_vars => StartOnlyStopped'
  <1> SUFFICES ASSUME TypeOK, OneAttempt, StartOnlyStopped, [Next]_vars,
                      Faults \cap {"operator", "api"} = {},
                      NEW p \in Proc, pc'[p] = "start", ~expired'[p],
                      Running(Cur(p))'
               PROVE  FALSE
    BY DEF StartOnlyStopped
  <1>1. ASSUME pc[p] = "start", ~expired[p], Cur(p)' = Cur(p)
        PROVE  FALSE
    <2>1. ~Running(Cur(p)) /\ Cur(p) \in Container
      BY <1>1, CurType DEF StartOnlyStopped
    <2>2. docker'[Cur(p)] \in {"booting", "ready"}
      BY <1>1 DEF Running
    <2>3. PICK q \in Proc : (StartContainer(q) \/ StartReplyLost(q)) /\ Cur(q) = Cur(p)
      BY <2>1, <2>2, RunSource DEF Running
    <2>4. pc[q] = "start" /\ pc'[q] # "start"
      BY <2>3 DEF StartContainer, StartReplyLost, Fail, Finish, Goto, TypeOK
    <2>5. q = p
      BY <1>1, <2>3, <2>4 DEF OneAttempt, InCriticalSection
    <2> QED
      BY <2>4, <2>5
  <1>2. CASE FoundStopped(p)
    BY <1>2 DEF FoundStopped, CanFail, Running, Cur
  <1> QED
    BY <1>1, <1>2, StartLocation

\* The status that EnsureRunning has read still holds when it calls docker
\* start, whatever the other goroutines do: the mutex spans both.
THEOREM StartOnlyStoppedAlways == Spec => []StartOnlyStopped
  <1>1. Init => MutexHeld /\ StartOnlyStopped
    BY DEF Init, MutexHeld, InCriticalSection, StartOnlyStopped
  <1> QED
    BY <1>1, TypeInit, TypeStep, MutexStep, MutexExcludes, StartOnlyStoppedStep,
       PTL DEF Spec
\* Without crashes, a container that the gateway does not stop stays running.
LEMMA RunningStays ==
    ASSUME TypeOK, [Next]_vars, "crash" \notin Faults,
           NEW c \in Container \ Stoppable, Running(c)
    PROVE  Running(c)'
  <1>1. ASSUME NEW p \in Proc, StartContainer(p) \/ StartReplyLost(p)
        PROVE  Running(c)'
    BY <1>1 DEF StartContainer, StartReplyLost, Started, Running, TypeOK
  <1>2. ASSUME NEW p \in Proc, Proceed(p), ~StartContainer(p), ~StartReplyLost(p)
        PROVE  Running(c)'
    BY <1>2 DEF Proceed, InitStartState, FoundRunning, FoundStopped, StartRejected,
       GetContainerAddress, NoAddress, GiveUp, CrashedOnBoot, StillBooting,
       ProbeSucceeds, ProbeFails, MarkRunning, Running
  <1>3. ASSUME NEW d \in Container, StopContainer(d) \/ Environment(d)
        PROVE  Running(c)'
    BY <1>3 DEF StopContainer, Environment, Boot, Crash, OperatorStart, Remove,
       Create, Becomes, Running, TypeOK
  <1>4. CASE \/ \E p \in Proc, job \in Jobs : Call(p, job)
             \/ \E p \in Proc : AcquireLock(p) \/ Expire(p)
             \/ \E S \in SUBSET Container : RecordActivity(S)
             \/ \E d \in Container : ClearStartState(d)
             \/ Restart \/ Tick \/ UNCHANGED vars
    BY <1>4 DEF Call, AcquireLock, Expire, RecordActivity, ClearStartState,
       Restart, Tick, vars, Running
  <1> QED
    BY <1>1, <1>2, <1>3, <1>4 DEF Next

\* A goroutine that is busy after a step has stayed at its place in its plan,
\* or begun a plan, or gone on after EnsureRunning returned nil.
LEMMA PlanStep ==
    ASSUME TypeOK, [Next]_vars, NEW p \in Proc, pc'[p] # "idle"
    PROVE  \/ pc[p] # "idle" /\ plan'[p] = plan[p] /\ at'[p] = at[p]
           \/ at'[p] = 1
           \/ /\ FoundRunning(p) \/ MarkRunning(p)
              /\ plan'[p] = plan[p] /\ at'[p] = at[p] + 1
  <1> DEFINE Stays == pc[p] # "idle" /\ plan'[p] = plan[p] /\ at'[p] = at[p]
  <1> USE DEF memory, goroutine
  <1>1. ASSUME NEW q \in Proc, q # p, AcquireLock(q) \/ Proceed(q)
        PROVE  Stays
    BY <1>1, OthersStay
  <1>2. CASE \/ AcquireLock(p) \/ InitStartState(p) \/ FoundStopped(p)
             \/ StartContainer(p) \/ GetContainerAddress(p) \/ StillBooting(p)
             \/ ProbeSucceeds(p) \/ ProbeFails(p)
    BY <1>2 DEF AcquireLock, InitStartState, FoundStopped, StartContainer,
       GetContainerAddress, StillBooting, ProbeSucceeds, ProbeFails
  <1>3. CASE FoundRunning(p) \/ MarkRunning(p)
    <2>1. Return(p)
      BY <1>3 DEF FoundRunning, MarkRunning
    <2>2. ~Finish(p)
      BY DEF Finish, Goto, TypeOK
    <2>3. plan'[p] = plan[p] /\ at'[p] = at[p] + 1
      BY <2>1, <2>2 DEF Return, TypeOK
    <2> QED
      BY <1>3, <2>3
  <1>4. CASE \/ StartRejected(p) \/ StartReplyLost(p) \/ NoAddress(p)
             \/ GiveUp(p) \/ CrashedOnBoot(p)
    BY <1>4 DEF StartRejected, StartReplyLost, NoAddress, GiveUp, CrashedOnBoot,
       Fail, Finish, Goto, TypeOK
  <1>5. ASSUME NEW q \in Proc, NEW job \in Jobs, Call(q, job)
        PROVE  Stays \/ at'[p] = 1
    BY <1>5 DEF Call, Goto, TypeOK
  <1>6. ASSUME NEW q \in Proc, Expire(q)
        PROVE  Stays
    BY <1>6 DEF Expire
  <1>7. CASE Restart
    BY <1>7 DEF Restart
  <1>8. CASE \/ \E S \in SUBSET Container : RecordActivity(S)
             \/ \E c \in Container : StopContainer(c) \/ ClearStartState(c)
             \/ \E c \in Container : Environment(c)
             \/ Tick \/ UNCHANGED vars
    BY <1>8 DEF RecordActivity, StopContainer, ClearStartState, Environment,
       Boot, Crash, OperatorStart, Remove, Create, Becomes, Tick, vars
  <1> QED
    BY <1>1, <1>2, <1>3, <1>4, <1>5, <1>6, <1>7, <1>8 DEF Next, Proceed

\* A goroutine works on the plan it had, or on the one of a call.
LEMMA PlanSource ==
    ASSUME TypeOK, [Next]_(vars), NEW p \in Proc, pc'[p] # "idle"
    PROVE  \/ pc[p] # "idle" /\ plan'[p] = plan[p]
           \/ \E job \in Jobs : plan'[p] = job.plan
  <1> USE DEF memory, goroutine
  <1>1. ASSUME NEW q \in Proc, q # p, AcquireLock(q) \/ Proceed(q)
        PROVE  pc[p] # "idle" /\ plan'[p] = plan[p]
    BY <1>1, OthersStay
  <1>2. ASSUME AcquireLock(p) \/ Proceed(p)
        PROVE  pc[p] # "idle"
    BY <1>2 DEF AcquireLock, Proceed, InitStartState, FoundRunning,
       FoundStopped, StartContainer, StartRejected, StartReplyLost,
       GetContainerAddress, NoAddress, GiveUp, CrashedOnBoot,
       StillBooting, ProbeSucceeds, ProbeFails, MarkRunning
  <1>3. CASE AcquireLock(p) \/ Proceed(p)
    <2>1. ~Finish(p)
      BY DEF Finish, Goto, TypeOK
    <2>2. plan' = plan
      BY <1>3, <2>1 DEF AcquireLock, Proceed, InitStartState, FoundRunning,
         FoundStopped, StartContainer, StartRejected, StartReplyLost,
         GetContainerAddress, NoAddress, GiveUp, CrashedOnBoot,
         StillBooting, ProbeSucceeds, ProbeFails, MarkRunning,
         Return, Fail
    <2> QED
      BY <1>2, <1>3, <2>2
  <1>4. ASSUME NEW q \in Proc, NEW job \in Jobs, Call(q, job)
        PROVE  \/ pc[p] # "idle" /\ plan'[p] = plan[p]
               \/ plan'[p] = job.plan
    BY <1>4 DEF Call, Goto, TypeOK
  <1>5. CASE Restart
    BY <1>5 DEF Restart
  <1>6. CASE \/ \E q \in Proc : Expire(q)
             \/ \E S \in SUBSET Container : RecordActivity(S)
             \/ \E c \in Container : StopContainer(c) \/ ClearStartState(c)
             \/ \E c \in Container : Environment(c)
             \/ Tick \/ UNCHANGED vars
    BY <1>6 DEF Expire, RecordActivity, StopContainer, ClearStartState,
       Environment, Boot, Crash, OperatorStart, Remove, Create,
       Becomes, Tick, vars
  <1> QED
    BY <1>1, <1>3, <1>4, <1>5, <1>6 DEF Next

LEMMA PredecessorsRunningStep ==
    TypeOK /\ ProbedReady /\ PredecessorsRunning /\ [Next]_vars
        => PredecessorsRunning'
  <1> SUFFICES ASSUME TypeOK, ProbedReady, PredecessorsRunning, [Next]_vars,
                      "crash" \notin Faults, NEW p \in Proc, pc'[p] # "idle",
                      NEW i \in 1..(at'[p] - 1),
                      plan'[p][i].name \notin Stoppable
               PROVE  docker'[plan'[p][i].name] \in {"booting", "ready"}
    BY DEF PredecessorsRunning, Running
  <1>1. at'[p] # 1
    OBVIOUS
  <1>2. ASSUME pc[p] # "idle", plan'[p] = plan[p], i < at[p]
        PROVE  docker'[plan'[p][i].name] \in {"booting", "ready"}
    <2>1. plan[p] \in Seq(Step) /\ at[p] \in 1..Len(plan[p]) /\ i \in Nat
      BY <1>2, TypeStep DEF TypeOK
    <2>2. i \in 1..Len(plan[p]) /\ i \in 1..(at[p] - 1)
      BY <1>2, <2>1
    <2>3. plan[p][i] \in Step
      BY <2>1, <2>2
    <2>4. plan[p][i].name \in Container
      BY <2>3 DEF Step
    <2>5. Running(plan[p][i].name)
      BY <1>2, <2>2 DEF PredecessorsRunning
    <2> QED
      BY <1>2, <2>4, <2>5, RunningStays DEF Running
  <1>3. ASSUME pc[p] # "idle", plan'[p] = plan[p], at'[p] = at[p]
        PROVE  docker'[plan'[p][i].name] \in {"booting", "ready"}
    BY <1>2, <1>3 DEF TypeOK
  <1>4. ASSUME FoundRunning(p) \/ MarkRunning(p), plan'[p] = plan[p],
               at'[p] = at[p] + 1
        PROVE  docker'[plan'[p][i].name] \in {"booting", "ready"}
    <2>1. pc[p] # "idle" /\ docker' = docker
      BY <1>4 DEF FoundRunning, MarkRunning
    <2>2. CASE i = at[p]
      <3>1. Running(Cur(p))
        BY <1>4, <2>2 DEF FoundRunning, MarkRunning, ProbedReady, Running, Cur
      <3> QED
        BY <1>4, <2>1, <2>2, <3>1 DEF Running, Cur
    <2>3. CASE i # at[p]
      BY <1>2, <1>4, <2>1, <2>3 DEF TypeOK
    <2> QED
      BY <2>2, <2>3
  <1> QED
    BY <1>1, <1>3, <1>4, PlanStep

\* What a plan has left behind runs: for any plans, dependencies among them,
\* a container is started only after everything in front of it came up.
THEOREM PredecessorsRunningAlways == Spec => []PredecessorsRunning
  <1>1. Init => ProbedReady /\ PredecessorsRunning
    BY DEF Init, ProbedReady, PredecessorsRunning
  <1> QED
    BY <1>1, TypeInit, TypeStep, ProbedReadyStep, PredecessorsRunningStep, PTL DEF Spec
=============================================================================
