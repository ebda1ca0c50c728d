--------------------------- MODULE PollingProofs ----------------------------
(***************************************************************************)
(* Proofs about the rate limiter, alone (RateLimiter) and polled by pages  *)
(* (Polling): it implements the limiter that never forgets a client, for   *)
(* any clients, pages and intervals; and a loading page that is alone      *)
(* behind its address learns the outcome of a start in time.               *)
(***************************************************************************)
EXTENDS Polling, Integers, TLAPS

\* The initial states have the types of the limiter's state.
LEMMA LimiterTypeInit == LimiterInit => LimiterTypeOK
BY NoEntryAssumption, MinIntervalAssumption DEF LimiterInit, LimiterTypeOK

\* No step of the limiter leaves the types.
LEMMA LimiterTypeStep == LimiterTypeOK /\ [LimiterNext]_limiter => LimiterTypeOK'
<1> SUFFICES ASSUME LimiterTypeOK, [LimiterNext]_limiter PROVE LimiterTypeOK'
  OBVIOUS
<1> USE MinIntervalAssumption, NoEntryAssumption DEF LimiterTypeOK
<1>1. ASSUME NEW c \in Client, Grant(c) PROVE LimiterTypeOK'
  BY <1>1 DEF Grant, StaleAge
<1>2. ASSUME NEW c \in Client, Refuse(c) PROVE LimiterTypeOK'
  BY <1>2 DEF Refuse
<1>3. CASE EvictStale
  BY <1>3 DEF EvictStale
<1>4. CASE LimiterTick
  BY <1>4 DEF LimiterTick, StaleAge
<1>5. CASE UNCHANGED limiter
  BY <1>5 DEF limiter
<1> QED BY <1>1, <1>2, <1>3, <1>4, <1>5 DEF LimiterNext, Allow

\* An empty map stands for clients that have been silent long enough.
LEMMA LimiterInitMaps == LimiterInit => L!Init
BY NoEntryAssumption, MinIntervalAssumption DEF LimiterInit, L!Init, SinceLastGrant, Due

\* Every step of the limiter is a step of the limiter that never forgets, or
\* changes nothing that it sees.
LEMMA LimiterStepMaps ==
    LimiterTypeOK /\ [LimiterNext]_limiter => [L!Next]_(L!vars)
<1> SUFFICES ASSUME LimiterTypeOK, [LimiterNext]_limiter
             PROVE  [L!Next]_(L!vars)
  OBVIOUS
<1> USE MinIntervalAssumption, NoEntryAssumption DEF LimiterTypeOK, SinceLastGrant, Due
<1>1. ASSUME NEW c \in Client, Grant(c) PROVE L!Allowed(c)
  <2>1. SinceLastGrant[c] = MinInterval
    BY <1>1 DEF Grant
  <2>2. SinceLastGrant' = [SinceLastGrant EXCEPT ![c] = 0]
    <3>1. lastSeen'[c] = 0 /\ ~(0 >= MinInterval) /\ None # 0
      BY <1>1 DEF Grant
    <3>2. \A d \in Client \ {c} : lastSeen'[d] = lastSeen[d]
      BY <1>1 DEF Grant
    <3> QED BY <3>1, <3>2
  <2> QED BY <1>1, <2>1, <2>2 DEF Grant, L!Allowed
<1>2. ASSUME NEW c \in Client, Refuse(c) PROVE L!Limited(c)
  <2>1. SinceLastGrant' = SinceLastGrant
    BY <1>2 DEF Refuse
  <2>2. SinceLastGrant[c] # MinInterval
    BY <1>2 DEF Refuse
  <2> QED BY <1>2, <2>1, <2>2 DEF Refuse, L!Limited
<1>3. CASE EvictStale
  \* Who is evicted was due already.
  <2>1. SinceLastGrant' = SinceLastGrant
    BY <1>3 DEF EvictStale, Stale
  <2> QED BY <1>3, <2>1 DEF EvictStale, L!vars
<1>4. CASE LimiterTick
  <2>1. SinceLastGrant' = [c \in Client |->
            IF SinceLastGrant[c] = MinInterval THEN MinInterval
                                               ELSE SinceLastGrant[c] + 1]
    <3>1. ASSUME NEW c \in Client
          PROVE  SinceLastGrant'[c] = IF SinceLastGrant[c] = MinInterval
                     THEN MinInterval ELSE SinceLastGrant[c] + 1
      BY <1>4 DEF LimiterTick, StaleAge
    <3> QED BY <3>1
  <2> QED BY <1>4, <2>1 DEF LimiterTick, L!Tick, L!Next
<1>5. CASE UNCHANGED limiter
  BY <1>5 DEF limiter, L!vars
<1> QED BY <1>1, <1>2, <1>3, <1>4, <1>5 DEF LimiterNext, Allow, L!Next

\* how-it-works.md:107: the limiter that evicts stale clients implements the
\* one that never forgets.
THEOREM LimiterImplements == LimiterSpec => ImplementsLimiter
<1>1. LimiterInit => LimiterTypeOK /\ L!Init
  BY LimiterTypeInit, LimiterInitMaps
<1>2. LimiterTypeOK /\ [LimiterNext]_limiter => LimiterTypeOK' /\ [L!Next]_(L!vars)
  BY LimiterTypeStep, LimiterStepMaps
<1> QED BY <1>1, <1>2, PTL DEF LimiterSpec, ImplementsLimiter, L!Spec

\* Pages, starts and time use the limiter as RateLimiter says.
LEMMA PollingUsesLimiter == [Next]_vars => [LimiterNext]_limiter
<1> SUFFICES ASSUME [Next]_vars PROVE [LimiterNext]_limiter
  OBVIOUS
<1>1. ASSUME NEW g \in Page, Open(g) \/ Close(g) \/ LearnOutcome(g) \/ KeepPolling(g)
      PROVE  UNCHANGED limiter
  BY <1>1 DEF Open, Close, LearnOutcome, KeepPolling, ShowFinally
<1>2. ASSUME NEW q \in Poller, Fire(q) PROVE UNCHANGED limiter
  BY <1>2 DEF Fire
<1>3. ASSUME NEW q \in Poller, Arrive(q) PROVE LimiterNext
  <2>1. ClientOf[q[1]] \in Client
    BY PollingAssumption DEF Poller
  <2> QED BY <1>3, <2>1 DEF Arrive, LimiterNext
<1>4. CASE StartAttempt \/ AttemptSucceeds \/ AttemptFails \/ IdleStop \/ OperatorStart
  BY <1>4 DEF StartAttempt, AttemptSucceeds, AttemptFails, IdleStop, OperatorStart,
              Becomes
<1>5. CASE Tick
  BY <1>5 DEF Tick, LimiterNext
<1>6. CASE Cleanup
  BY <1>6 DEF Cleanup, LimiterNext
<1>7. CASE UNCHANGED vars
  BY <1>7 DEF vars, limiter
<1> QED BY <1>1, <1>2, <1>3, <1>4, <1>5, <1>6, <1>7 DEF Next

\* The run's property for every set of clients and pages: however the pages
\* poll, refusals and evictions follow the abstract limiter.
THEOREM PollingImplementsLimiter == Spec => ImplementsLimiter
<1>1. Init => LimiterInit
  BY DEF Init
<1>2. Spec => LimiterSpec
  BY <1>1, PollingUsesLimiter, PTL DEF Spec, LimiterSpec
<1> QED BY <1>2, LimiterImplements

-----------------------------------------------------------------------------
(***************************************************************************)
(* The pages.                                                              *)
(***************************************************************************)
LEMMA PollerType ==
    ASSUME NEW q \in Poller
    PROVE  /\ q[1] \in Page /\ q[2] \in Kind
           /\ Period[q[2]] \in Nat \ {0}
           /\ q[2] = "health" => q[1] \notin Dashboard
BY PollingAssumption DEF Poller, Polls, Kind

LEMMA PollingTypeInit == Init => PollingTypeOK
BY LimiterTypeInit, PollerType, PollingAssumption
   DEF Init, PollingTypeOK, Shown, Outcome, limiter

\* What the pages do.
LEMMA PagesType ==
    ASSUME PollingTypeOK, NEW g \in Page,
           Open(g) \/ Close(g) \/ LearnOutcome(g) \/ KeepPolling(g)
    PROVE  PollingTypeOK'
<1>1. LimiterTypeOK'
  BY DEF Open, Close, LearnOutcome, KeepPolling, ShowFinally, limiter, PollingTypeOK,
         LimiterTypeOK
<1>2. CASE Open(g)
  BY <1>1, <1>2, PollerType, PollingAssumption DEF Open, PollingTypeOK, Shown
<1>3. ASSUME NEW what \in {"closed", "redirected", "error"}, ShowFinally(g, what)
      PROVE  PollingTypeOK'
  BY <1>1, <1>3, PollerType, PollingAssumption DEF ShowFinally, PollingTypeOK, Shown
<1>4. CASE KeepPolling(g)
  BY <1>1, <1>4 DEF KeepPolling, PollingTypeOK
<1> QED BY <1>2, <1>3, <1>4 DEF Close, LearnOutcome

\* What the timers and the limiter do.
LEMMA PollersType ==
    ASSUME PollingTypeOK, LimiterTypeOK', NEW q \in Poller, Fire(q) \/ Arrive(q)
    PROVE  PollingTypeOK'
<1>1. q[1] \in Page /\ Period[q[2]] \in Nat /\ (q[2] = "health" => q[1] \notin Dashboard)
  BY PollerType
<1>2. CASE Fire(q)
  BY <1>1, <1>2, PollingAssumption DEF Fire, PollingTypeOK
<1>3. CASE Arrive(q)
  <2>1. HealthStatus \in Outcome
    BY DEF HealthStatus, Outcome, PollingTypeOK
  <2> QED BY <1>1, <1>3, <2>1 DEF Arrive, PollingTypeOK
<1> QED BY <1>2, <1>3

LEMMA PollingTypeStep == PollingTypeOK /\ [Next]_vars => PollingTypeOK'
<1> SUFFICES ASSUME PollingTypeOK, [Next]_vars PROVE PollingTypeOK'
  OBVIOUS
<1>1. LimiterTypeOK'
  BY PollingUsesLimiter, LimiterTypeStep DEF PollingTypeOK
<1>2. ASSUME NEW status \in Outcome, NEW running \in BOOLEAN, Becomes(status, running)
      PROVE  PollingTypeOK'
  BY <1>1, <1>2, PollingAssumption DEF Becomes, PollingTypeOK
<1>3. CASE StartAttempt \/ AttemptSucceeds \/ AttemptFails \/ IdleStop \/ OperatorStart
  BY <1>2, <1>3 DEF StartAttempt, AttemptSucceeds, AttemptFails, IdleStop, OperatorStart,
                    Outcome, PollingTypeOK
<1>4. CASE Tick
  <2>1. \A q \in Poller : timer'[q] \in 0..Period[q[2]]
    BY <1>4, PollerType DEF Tick, OpenPoller, PollingTypeOK
  <2>2. \A q \in Poller : sent'[q] \in 0..MaxDelay \cup {None}
    BY <1>4, PollingAssumption DEF Tick, PollingTypeOK
  <2>3. waited' \in [Page -> 0..(Patience + 1)]
    BY <1>4, PollingAssumption DEF Tick, PollingTypeOK
  <2>4. UNCHANGED <<startState, up, shown, reply>>
    BY <1>4 DEF Tick
  <2> QED BY <1>1, <2>1, <2>2, <2>3, <2>4 DEF PollingTypeOK
<1>5. CASE Cleanup \/ UNCHANGED vars
  BY <1>1, <1>5 DEF Cleanup, pages, vars, PollingTypeOK
<1> QED BY <1>1, <1>3, <1>4, <1>5, PagesType, PollersType DEF Next

\* However the pages poll: timers and delays stay within their intervals, and
\* only a loading page that is still open has an answer to handle.  An answer
\* that comes after the page has ended is lost.
THEOREM PollingTyped == Spec => []PollingTypeOK
<1> QED BY PollingTypeInit, PollingTypeStep, PTL DEF Spec

-----------------------------------------------------------------------------
(***************************************************************************)
(* A loading page alone behind its address.  Its polls of /_health are     *)
(* refused only because of its own polls of /_logs.  Since /_logs is polled*)
(* less often, the polls of the two drift apart: after two refusals in a   *)
(* row the third poll of /_health is out of reach of the one of /_logs.    *)
(***************************************************************************)
LoadingPage == Page \ Dashboard

\* No other page is behind the address of a loading page.
LoadingAlone ==
    \A g \in LoadingPage, k \in Page : ClientOf[k] = ClientOf[g] => k = g

HealthPeriod == Period["health"]
LogsPeriod == Period["logs"]

\* How far apart the intervals have to be; those of loading.html with the
\* limiter's one second and a delay of half a second are just so.
PeriodsApart ==
    /\ HealthPeriod >= MinInterval + 2 * MaxDelay
    /\ 2 * LogsPeriod >= 2 * HealthPeriod + MinInterval + 2 * MaxDelay

HealthPoll(g) == <<g, "health">>
LogsPoll(g) == <<g, "logs">>

\* Ticks since the last poll.
SinceHealth(g) == HealthPeriod - timer[HealthPoll(g)]
SinceLogs(g) == LogsPeriod - timer[LogsPoll(g)]

\* By how much the last poll of /_logs is older than the last of /_health.
Gap(g) == SinceLogs(g) - SinceHealth(g)

\* What was waited before the last poll of /_health.
WaitedBefore(g) == waited[g] - SinceHealth(g)

\* The largest gap at which the k-th poll of /_health in a row is refused.
Reach(k) == (MinInterval - 1 + MaxDelay) - (k - 1) * (LogsPeriod - HealthPeriod)

\* The last poll of /_health has been refused; since then /_logs may have been
\* polled once more.
RefusedAt(g, reach) ==
    \/ 0 - MaxDelay <= Gap(g) /\ Gap(g) <= reach
    \/ Gap(g) <= reach - LogsPeriod

\* The poll of /_health that follows a refusal is on its way.
AskingAgain(g, reach) ==
    \/ HealthPeriod - MaxDelay <= Gap(g) /\ Gap(g) <= reach + LogsPeriod
    \/ Gap(g) <= reach

\* A request is as old as the poll; an answer is handled before the next one.
InTransit(g) ==
    /\ sent[HealthPoll(g)] # None => sent[HealthPoll(g)] = SinceHealth(g)
    /\ sent[LogsPoll(g)] # None => sent[LogsPoll(g)] = SinceLogs(g)
    /\ reply[g] # None => timer[HealthPoll(g)] >= 1 /\ sent[HealthPoll(g)] = None

GrantOf(since, onItsWay, age) ==
    onItsWay = None /\ age <= since /\ since <= age + MaxDelay

\* The limiter refuses because of the last poll of one or the other.
RefusesBecauseOf(g) ==
    LET age == lastSeen[ClientOf[g]]
    IN  ~Due(ClientOf[g]) =>
            \/ GrantOf(SinceHealth(g), sent[HealthPoll(g)], age)
            \/ GrantOf(SinceLogs(g), sent[LogsPoll(g)], age)

\* An answer that was given when there was an outcome says so.
AnswerTells(g) ==
    reply[g] # None =>
        /\ WaitedBefore(g) <= 3 * HealthPeriod
        /\ WaitedBefore(g) > 0 => Final(reply[g])

AfterRefusal(g) ==
    sent[HealthPoll(g)] = None /\ reply[g] = None =>
        /\ WaitedBefore(g) <= 2 * HealthPeriod
        /\ WaitedBefore(g) > 0 => RefusedAt(g, Reach(1))
        /\ WaitedBefore(g) > HealthPeriod => RefusedAt(g, Reach(2))

WhileAsking(g) ==
    sent[HealthPoll(g)] # None =>
        /\ WaitedBefore(g) <= 3 * HealthPeriod
        /\ WaitedBefore(g) > HealthPeriod => AskingAgain(g, Reach(2))
        /\ WaitedBefore(g) > 2 * HealthPeriod => AskingAgain(g, Reach(3))

OpenInv(g) ==
    /\ InTransit(g)
    /\ RefusesBecauseOf(g)
    /\ AnswerTells(g)
    /\ AfterRefusal(g)
    /\ WhileAsking(g)

LonePage(g) ==
    /\ shown[g] = "open" => OpenInv(g)
    /\ shown[g] # "open" \/ ~OutcomeThere => waited[g] = 0
    /\ shown[g] = "unopened" =>
        /\ sent[HealthPoll(g)] = None /\ sent[LogsPoll(g)] = None
        /\ lastSeen[ClientOf[g]] = None

LoneInv ==
    /\ PollingTypeOK
    /\ timer \in [Poller -> Nat]
    /\ sent \in [Poller -> Nat \cup {None}]
    /\ \A g \in LoadingPage : LonePage(g)
    /\ \A g \in Dashboard : waited[g] = 0

LEMMA Intervals ==
    /\ HealthPeriod \in Nat /\ LogsPeriod \in Nat
    /\ MaxDelay \in Nat /\ MinInterval \in Nat \ {0}
    /\ MaxDelay < HealthPeriod /\ MaxDelay < LogsPeriod
BY PollingAssumption, MinIntervalAssumption DEF HealthPeriod, LogsPeriod, Kind

LEMMA LonePollers ==
    ASSUME NEW g \in LoadingPage
    PROVE  /\ g \in Page /\ g \notin Dashboard /\ ClientOf[g] \in Client
           /\ HealthPoll(g) \in Poller /\ LogsPoll(g) \in Poller
           /\ HealthPoll(g) # LogsPoll(g)
           /\ HealthPoll(g)[1] = g /\ HealthPoll(g)[2] = "health"
           /\ LogsPoll(g)[1] = g /\ LogsPoll(g)[2] = "logs"
           /\ \A q \in Poller : q[1] = g => q = HealthPoll(g) \/ q = LogsPoll(g)
BY PollingAssumption DEF LoadingPage, Poller, Polls, Kind, HealthPoll, LogsPoll

LEMMA LoneTypes ==
    ASSUME LoneInv, NEW g \in LoadingPage
    PROVE  /\ timer[HealthPoll(g)] \in 0..HealthPeriod
           /\ timer[LogsPoll(g)] \in 0..LogsPeriod
           /\ sent[HealthPoll(g)] \in 0..MaxDelay \cup {None}
           /\ sent[LogsPoll(g)] \in 0..MaxDelay \cup {None}
           /\ waited[g] \in 0..(Patience + 1)
           /\ lastSeen[ClientOf[g]] \in 0..StaleAge \cup {None}
           /\ reply[g] \in Outcome \cup {None}
           /\ reply[g] # None => shown[g] = "open"
           /\ LonePage(g)
BY LonePollers DEF LoneInv, PollingTypeOK, LimiterTypeOK, HealthPeriod, LogsPeriod

\* What does not touch a page leaves its invariant.
LEMMA Untouched ==
    ASSUME NEW g \in LoadingPage, LonePage(g),
           shown'[g] = shown[g], reply'[g] = reply[g], waited'[g] = waited[g],
           timer'[HealthPoll(g)] = timer[HealthPoll(g)],
           timer'[LogsPoll(g)] = timer[LogsPoll(g)],
           sent'[HealthPoll(g)] = sent[HealthPoll(g)],
           sent'[LogsPoll(g)] = sent[LogsPoll(g)],
           lastSeen'[ClientOf[g]] = lastSeen[ClientOf[g]],
           UNCHANGED <<startState, up>>
    PROVE  LonePage(g)'
<1>1. OutcomeThere' = OutcomeThere
  BY DEF OutcomeThere, Final
<1>2. /\ InTransit(g)' = InTransit(g)
      /\ RefusesBecauseOf(g)' = RefusesBecauseOf(g)
      /\ AnswerTells(g)' = AnswerTells(g)
      /\ AfterRefusal(g)' = AfterRefusal(g)
      /\ WhileAsking(g)' = WhileAsking(g)
  BY DEF InTransit, RefusesBecauseOf, AnswerTells, AfterRefusal, WhileAsking, GrantOf,
         Due, WaitedBefore, RefusedAt, AskingAgain, Gap, SinceHealth, SinceLogs, Final
<1> QED
  BY <1>1, <1>2 DEF LonePage, OpenInv

\* A page that is not open, or no more.
LEMMA NotOpen ==
    ASSUME NEW g \in LoadingPage,
           shown'[g] \notin {"unopened", "open"}, waited'[g] = 0
    PROVE  LonePage(g)'
BY DEF LonePage

LEMMA LoneInit == Init => LoneInv
<1> SUFFICES ASSUME Init PROVE LoneInv
  OBVIOUS
<1>1. PollingTypeOK
  BY PollingTypeInit
<1>2. timer \in [Poller -> Nat] /\ sent \in [Poller -> Nat \cup {None}]
  BY PollerType DEF Init
<1>3. ASSUME NEW g \in LoadingPage PROVE LonePage(g)
  BY LonePollers, <1>3 DEF Init, LimiterInit, LonePage
<1>4. \A g \in Dashboard : waited[g] = 0
  BY PollingAssumption DEF Init
<1> QED
  BY <1>1, <1>2, <1>3, <1>4 DEF LoneInv

\* The first polls find no entry.
LEMMA OpenLone ==
    ASSUME LoneInv, NEW g \in LoadingPage, Open(g)
    PROVE  LonePage(g)'
<1> USE LoneTypes, LonePollers, Intervals, NoEntryAssumption
<1>1. /\ shown'[g] = "open" /\ waited'[g] = 0 /\ reply'[g] = None
      /\ sent'[HealthPoll(g)] = 0 /\ sent'[LogsPoll(g)] = 0
      /\ timer'[HealthPoll(g)] = HealthPeriod /\ timer'[LogsPoll(g)] = LogsPeriod
      /\ lastSeen'[ClientOf[g]] = None
  BY DEF Open, LonePage, PollingTypeOK, LoneInv, limiter, HealthPeriod, LogsPeriod
<1>2. SinceHealth(g)' = 0 /\ SinceLogs(g)' = 0 /\ WaitedBefore(g)' = 0
  BY <1>1 DEF SinceHealth, SinceLogs, WaitedBefore
<1>3. InTransit(g)'
  BY <1>1, <1>2 DEF InTransit
<1>4. RefusesBecauseOf(g)'
  BY <1>1 DEF RefusesBecauseOf, Due
<1>5. AnswerTells(g)' /\ AfterRefusal(g)' /\ WhileAsking(g)'
  BY <1>1, <1>2 DEF AnswerTells, AfterRefusal, WhileAsking
<1> QED
  BY <1>1, <1>3, <1>4, <1>5 DEF LonePage, OpenInv

\* /_health is polled: what the gap was decides which gaps are left.
LEMMA FireHealth ==
    ASSUME LoneInv, PeriodsApart, NEW g \in LoadingPage, Fire(HealthPoll(g))
    PROVE  LonePage(g)'
<1> USE LoneTypes, LonePollers, Intervals, NoEntryAssumption
<1>1. /\ shown[g] = "open" /\ OpenInv(g) /\ timer[HealthPoll(g)] = 0
      /\ UNCHANGED <<shown, waited, reply, lastSeen, startState, up>>
      /\ sent'[HealthPoll(g)] = 0 /\ sent'[LogsPoll(g)] = sent[LogsPoll(g)]
      /\ timer'[HealthPoll(g)] = HealthPeriod
      /\ timer'[LogsPoll(g)] = timer[LogsPoll(g)]
  BY DEF Fire, LonePage, LoneInv, limiter, HealthPeriod
<1>2. /\ SinceHealth(g) = HealthPeriod /\ SinceHealth(g)' = 0
      /\ SinceLogs(g)' = SinceLogs(g) /\ SinceLogs(g) \in Int
      /\ Gap(g)' = Gap(g) + HealthPeriod /\ Gap(g) \in Int
      /\ WaitedBefore(g)' = WaitedBefore(g) + HealthPeriod /\ WaitedBefore(g) \in Int
  BY <1>1 DEF SinceHealth, SinceLogs, Gap, WaitedBefore
<1>3. reply[g] = None
  BY <1>1 DEF OpenInv, InTransit
<1>4. sent[HealthPoll(g)] = None
  BY <1>1, <1>2 DEF OpenInv, InTransit
<1>5. InTransit(g)'
  BY <1>1, <1>2, <1>3 DEF OpenInv, InTransit
<1>6. RefusesBecauseOf(g)'
  BY <1>1, <1>2 DEF OpenInv, RefusesBecauseOf, GrantOf, Due, PeriodsApart
<1>7. AnswerTells(g)' /\ AfterRefusal(g)'
  BY <1>1, <1>3 DEF AnswerTells, AfterRefusal
<1>8. WhileAsking(g)'
  BY <1>1, <1>2, <1>3, <1>4
     DEF OpenInv, AfterRefusal, WhileAsking, RefusedAt, AskingAgain, Reach
<1>9. OutcomeThere' = OutcomeThere
  BY <1>1 DEF OutcomeThere, Final
<1> QED
  BY <1>1, <1>5, <1>6, <1>7, <1>8, <1>9 DEF LonePage, OpenInv

\* /_logs is polled.
LEMMA FireLogs ==
    ASSUME LoneInv, PeriodsApart, NEW g \in LoadingPage, Fire(LogsPoll(g))
    PROVE  LonePage(g)'
<1> USE LoneTypes, LonePollers, Intervals, NoEntryAssumption
<1>1. /\ shown[g] = "open" /\ OpenInv(g) /\ timer[LogsPoll(g)] = 0
      /\ UNCHANGED <<shown, waited, reply, lastSeen, startState, up>>
      /\ sent'[LogsPoll(g)] = 0 /\ sent'[HealthPoll(g)] = sent[HealthPoll(g)]
      /\ timer'[LogsPoll(g)] = LogsPeriod
      /\ timer'[HealthPoll(g)] = timer[HealthPoll(g)]
  BY DEF Fire, LonePage, LoneInv, limiter, LogsPeriod
<1>2. /\ SinceLogs(g) = LogsPeriod /\ SinceLogs(g)' = 0
      /\ SinceHealth(g)' = SinceHealth(g) /\ SinceHealth(g) \in 0..HealthPeriod
      /\ Gap(g)' = Gap(g) - LogsPeriod /\ Gap(g) = LogsPeriod - SinceHealth(g)
      /\ WaitedBefore(g)' = WaitedBefore(g) /\ WaitedBefore(g) \in Int
  BY <1>1 DEF SinceHealth, SinceLogs, Gap, WaitedBefore
<1>3. InTransit(g)'
  BY <1>1, <1>2 DEF OpenInv, InTransit
<1>4. RefusesBecauseOf(g)'
  BY <1>1, <1>2 DEF OpenInv, RefusesBecauseOf, GrantOf, Due, PeriodsApart
<1>5. AnswerTells(g)'
  BY <1>1, <1>2 DEF OpenInv, AnswerTells, Final
<1>6. AfterRefusal(g)'
  BY <1>1, <1>2 DEF OpenInv, AfterRefusal, RefusedAt, Reach
<1>7. WhileAsking(g)'
  BY <1>1, <1>2 DEF OpenInv, WhileAsking, AskingAgain, Reach
<1>8. OutcomeThere' = OutcomeThere
  BY <1>1 DEF OutcomeThere, Final
<1> QED
  BY <1>1, <1>3, <1>4, <1>5, <1>6, <1>7, <1>8 DEF LonePage, OpenInv

\* /_health is answered or refused.  A third refusal is impossible: the last
\* poll of /_logs would have to be younger than the limiter's entry.
LEMMA ArriveHealth ==
    ASSUME LoneInv, PeriodsApart, NEW g \in LoadingPage, Arrive(HealthPoll(g)),
           shown[g] = "open"
    PROVE  LonePage(g)'
<1> USE LoneTypes, LonePollers, Intervals, NoEntryAssumption
<1>1. /\ OpenInv(g) /\ sent[HealthPoll(g)] # None
      /\ UNCHANGED <<shown, waited, timer, startState, up>>
      /\ sent'[HealthPoll(g)] = None /\ sent'[LogsPoll(g)] = sent[LogsPoll(g)]
  BY DEF Arrive, LonePage, LoneInv
<1>2. /\ SinceHealth(g) = sent[HealthPoll(g)] /\ SinceHealth(g) \in 0..MaxDelay
      /\ SinceLogs(g) \in Int /\ Gap(g) = SinceLogs(g) - SinceHealth(g)
      /\ WaitedBefore(g) = waited[g] - SinceHealth(g) /\ WaitedBefore(g) \in Int
      /\ SinceHealth(g)' = SinceHealth(g) /\ SinceLogs(g)' = SinceLogs(g)
      /\ Gap(g)' = Gap(g) /\ WaitedBefore(g)' = WaitedBefore(g)
  BY <1>1 DEF OpenInv, InTransit, SinceHealth, SinceLogs, Gap, WaitedBefore
<1>3. reply[g] = None
  BY <1>1 DEF OpenInv, InTransit
<1>4. OutcomeThere' = OutcomeThere
  BY <1>1 DEF OutcomeThere, Final
<1>5. CASE Due(ClientOf[g])
  <2>1. lastSeen'[ClientOf[g]] = 0 /\ reply'[g] = HealthStatus
    BY <1>5 DEF Arrive, Allow, Grant, Refuse, LoneInv, PollingTypeOK, LimiterTypeOK
  <2>2. HealthStatus # None
    BY PollingAssumption DEF HealthStatus, LoneInv, PollingTypeOK, Outcome
  <2>3. InTransit(g)'
    BY <1>1, <1>2 DEF OpenInv, InTransit, SinceHealth
  <2>4. RefusesBecauseOf(g)'
    BY <1>1, <1>2, <2>1 DEF RefusesBecauseOf, GrantOf
  <2>5. WaitedBefore(g) > 0 => Final(HealthStatus)
    BY <1>1, <1>2 DEF LonePage, OutcomeThere, HealthStatus, Final
  <2>6. AnswerTells(g)'
    BY <1>1, <1>2, <2>1, <2>5 DEF OpenInv, AnswerTells, WhileAsking, Final
  <2>7. AfterRefusal(g)' /\ WhileAsking(g)'
    BY <1>1, <2>1, <2>2 DEF AfterRefusal, WhileAsking
  <2> QED
    BY <1>1, <1>4, <2>3, <2>4, <2>6, <2>7 DEF LonePage, OpenInv
<1>6. CASE ~Due(ClientOf[g])
  <2>1. lastSeen' = lastSeen /\ reply'[g] = None
    BY <1>3, <1>6 DEF Arrive, Allow, Grant, Refuse
  <2>2. lastSeen[ClientOf[g]] \in 0..(MinInterval - 1)
    BY <1>6 DEF Due
  \* It is a poll of /_logs that was let through before this one.
  <2>3. GrantOf(SinceLogs(g), sent[LogsPoll(g)], lastSeen[ClientOf[g]])
    BY <1>1, <1>6 DEF OpenInv, RefusesBecauseOf, GrantOf
  <2>4. 0 - MaxDelay <= Gap(g) /\ Gap(g) <= Reach(1)
    BY <1>2, <2>2, <2>3 DEF GrantOf, Reach
  <2>5. Gap(g) < HealthPeriod - MaxDelay
    BY <2>4 DEF PeriodsApart, Reach, Gap, SinceLogs, SinceHealth
  <2>6. WaitedBefore(g) > HealthPeriod => Gap(g) <= Reach(2)
    BY <1>1, <1>2, <2>5 DEF OpenInv, WhileAsking, AskingAgain
  <2>7. WaitedBefore(g) <= 2 * HealthPeriod
    <3>1. SUFFICES ASSUME WaitedBefore(g) > 2 * HealthPeriod PROVE FALSE
      BY <1>2
    <3>2. Gap(g) <= Reach(3)
      BY <1>1, <1>2, <2>5, <3>1 DEF OpenInv, WhileAsking, AskingAgain
    <3> QED
      BY <1>2, <2>4, <3>2 DEF PeriodsApart, Reach
  <2>8. InTransit(g)'
    BY <1>1, <1>2, <2>1 DEF OpenInv, InTransit
  <2>9. RefusesBecauseOf(g)'
    BY <1>1, <1>2, <2>1 DEF OpenInv, RefusesBecauseOf, GrantOf, Due
  <2>10. AfterRefusal(g)'
    BY <1>1, <1>2, <2>4, <2>6, <2>7 DEF AfterRefusal, RefusedAt, Reach
  <2>11. AnswerTells(g)' /\ WhileAsking(g)'
    BY <1>1, <2>1 DEF AnswerTells, WhileAsking
  <2> QED
    BY <1>1, <1>4, <2>8, <2>9, <2>10, <2>11 DEF LonePage, OpenInv
<1> QED
  BY <1>5, <1>6

\* /_logs is answered or refused.
LEMMA ArriveLogs ==
    ASSUME LoneInv, NEW g \in LoadingPage, Arrive(LogsPoll(g)), shown[g] = "open"
    PROVE  LonePage(g)'
<1> USE LoneTypes, LonePollers, Intervals, NoEntryAssumption
<1>1. /\ OpenInv(g) /\ sent[LogsPoll(g)] # None
      /\ UNCHANGED <<shown, waited, timer, reply, startState, up>>
      /\ sent'[LogsPoll(g)] = None /\ sent'[HealthPoll(g)] = sent[HealthPoll(g)]
  BY DEF Arrive, LonePage, LoneInv
<1>2. /\ SinceLogs(g) = sent[LogsPoll(g)] /\ SinceLogs(g) \in 0..MaxDelay
      /\ SinceHealth(g)' = SinceHealth(g) /\ SinceLogs(g)' = SinceLogs(g)
      /\ Gap(g)' = Gap(g) /\ WaitedBefore(g)' = WaitedBefore(g)
  BY <1>1 DEF OpenInv, InTransit, SinceHealth, SinceLogs, Gap, WaitedBefore
<1>3. OutcomeThere' = OutcomeThere
  BY <1>1 DEF OutcomeThere, Final
<1>4. InTransit(g)'
  BY <1>1, <1>2 DEF OpenInv, InTransit
<1>5. RefusesBecauseOf(g)'
  <2>1. CASE Due(ClientOf[g])
    <3>1. lastSeen'[ClientOf[g]] = 0
      BY <2>1 DEF Arrive, Allow, Grant, Refuse, LoneInv, PollingTypeOK, LimiterTypeOK
    <3> QED
      BY <1>1, <1>2, <3>1 DEF RefusesBecauseOf, GrantOf
  <2>2. CASE ~Due(ClientOf[g])
    <3>1. lastSeen' = lastSeen
      BY <2>2 DEF Arrive, Allow, Grant, Refuse
    <3> QED
      BY <1>1, <1>2, <3>1 DEF OpenInv, RefusesBecauseOf, GrantOf, Due
  <2> QED
    BY <2>1, <2>2
<1>6. AnswerTells(g)' /\ AfterRefusal(g)' /\ WhileAsking(g)'
  BY <1>1, <1>2 DEF OpenInv, AnswerTells, AfterRefusal, WhileAsking, RefusedAt,
                    AskingAgain, Final
<1> QED
  BY <1>1, <1>3, <1>4, <1>5, <1>6 DEF LonePage, OpenInv

\* Who waits for the fourth poll of /_health in a row has waited for less
\* than four intervals.
LEMMA LoneLearnsInTime ==
    ASSUME LoneInv, Patience >= 4 * HealthPeriod - 1
    PROVE  \A g \in LoadingPage : waited[g] <= Patience
<1> SUFFICES ASSUME NEW g \in LoadingPage
             PROVE  waited[g] <= Patience
  OBVIOUS
<1> USE LoneTypes, LonePollers, Intervals, NoEntryAssumption, PollingAssumption
<1>1. CASE shown[g] # "open"
  BY <1>1 DEF LonePage
<1>2. CASE shown[g] = "open"
  <2>1. /\ OpenInv(g) /\ SinceHealth(g) \in 0..HealthPeriod
        /\ WaitedBefore(g) = waited[g] - SinceHealth(g)
    BY <1>2 DEF LonePage, SinceHealth, WaitedBefore
  <2>2. CASE reply[g] # None
    BY <2>1, <2>2 DEF OpenInv, AnswerTells, InTransit, SinceHealth
  <2>3. CASE reply[g] = None /\ sent[HealthPoll(g)] = None
    BY <2>1, <2>3 DEF OpenInv, AfterRefusal
  <2>4. CASE sent[HealthPoll(g)] # None
    BY <2>1, <2>4 DEF OpenInv, WhileAsking, InTransit
  <2> QED
    BY <2>2, <2>3, <2>4
<1> QED
  BY <1>1, <1>2

\* An answer without an outcome was given before there was one.
LEMMA KeepPollingLone ==
    ASSUME LoneInv, NEW g \in LoadingPage, KeepPolling(g)
    PROVE  LonePage(g)'
<1> USE LoneTypes, LonePollers, Intervals, NoEntryAssumption
<1>1. /\ shown[g] = "open" /\ OpenInv(g) /\ reply[g] # None /\ ~Final(reply[g])
      /\ UNCHANGED <<shown, waited, timer, sent, lastSeen, startState, up>>
      /\ reply'[g] = None
  BY DEF KeepPolling, LonePage, LoneInv, PollingTypeOK, limiter
<1>2. /\ SinceHealth(g)' = SinceHealth(g) /\ SinceLogs(g)' = SinceLogs(g)
      /\ WaitedBefore(g)' = WaitedBefore(g) /\ WaitedBefore(g) \in Int
      /\ ~(WaitedBefore(g) > 0)
  BY <1>1 DEF OpenInv, AnswerTells, SinceHealth, SinceLogs, WaitedBefore
<1>3. OutcomeThere' = OutcomeThere
  BY <1>1 DEF OutcomeThere, Final
<1>4. InTransit(g)' /\ AnswerTells(g)'
  BY <1>1, <1>2 DEF OpenInv, InTransit, AnswerTells
<1>5. RefusesBecauseOf(g)'
  BY <1>1, <1>2 DEF OpenInv, RefusesBecauseOf, GrantOf, Due
<1>6. AfterRefusal(g)'
  BY <1>2 DEF AfterRefusal
<1>7. WhileAsking(g)'
  BY <1>1 DEF OpenInv, InTransit, WhileAsking
<1> QED
  BY <1>1, <1>3, <1>4, <1>5, <1>6, <1>7 DEF LonePage, OpenInv

\* The time to learn an outcome begins, goes on, or is over.
LEMMA BecomesLone ==
    ASSUME LoneInv, NEW g \in LoadingPage, NEW status, NEW running,
           Becomes(status, running)
    PROVE  LonePage(g)'
<1> USE LoneTypes, LonePollers, Intervals, NoEntryAssumption
<1>1. /\ UNCHANGED <<shown, timer, sent, reply, lastSeen>>
      /\ waited'[g] = IF OutcomeThere' THEN waited[g] ELSE 0
  BY DEF Becomes, limiter
<1>2. ASSUME shown[g] = "open" PROVE OpenInv(g)'
  <2>1. /\ OpenInv(g)
        /\ SinceHealth(g)' = SinceHealth(g) /\ SinceLogs(g)' = SinceLogs(g)
        /\ SinceHealth(g) \in Nat /\ Gap(g)' = Gap(g)
    BY <1>1, <1>2 DEF LonePage, SinceHealth, SinceLogs, Gap
  <2>2. InTransit(g)' /\ RefusesBecauseOf(g)'
    BY <1>1, <2>1 DEF OpenInv, InTransit, RefusesBecauseOf, GrantOf, Due
  <2>3. CASE waited'[g] = waited[g]
    <3>1. WaitedBefore(g)' = WaitedBefore(g)
      BY <2>1, <2>3 DEF WaitedBefore
    <3> QED
      BY <1>1, <2>1, <2>2, <3>1
         DEF OpenInv, AnswerTells, AfterRefusal, WhileAsking, RefusedAt, AskingAgain, Final
  <2>4. CASE waited'[g] = 0
    <3>1. WaitedBefore(g)' = 0 - SinceHealth(g)
      BY <2>1, <2>4 DEF WaitedBefore
    <3> QED
      BY <2>1, <2>2, <3>1 DEF OpenInv, AnswerTells, AfterRefusal, WhileAsking
  <2> QED
    BY <1>1, <2>3, <2>4
<1> QED
  BY <1>1, <1>2 DEF LonePage

\* Everything gets older by the same.
LEMMA TickLone ==
    ASSUME LoneInv, Patience >= 4 * HealthPeriod - 1, NEW g \in LoadingPage, Tick
    PROVE  LonePage(g)'
<1> USE LoneTypes, LonePollers, Intervals, NoEntryAssumption
<1>1. /\ UNCHANGED <<shown, reply, startState, up>>
      /\ OutcomeThere' = OutcomeThere
  BY DEF Tick, OutcomeThere, Final
<1>2. /\ sent[HealthPoll(g)] = None => sent'[HealthPoll(g)] = None
      /\ sent[HealthPoll(g)] # None => sent'[HealthPoll(g)] = sent[HealthPoll(g)] + 1
      /\ sent[LogsPoll(g)] = None => sent'[LogsPoll(g)] = None
      /\ sent[LogsPoll(g)] # None => sent'[LogsPoll(g)] = sent[LogsPoll(g)] + 1
      /\ reply[g] # None => timer[HealthPoll(g)] > 1
  BY DEF Tick, HealthPoll
<1>3. lastSeen'[ClientOf[g]] = IF lastSeen[ClientOf[g]] \in 0..(StaleAge - 1)
                               THEN lastSeen[ClientOf[g]] + 1 ELSE lastSeen[ClientOf[g]]
  BY DEF Tick, LimiterTick
<1>4. CASE shown[g] = "open"
  <2>1. /\ timer[HealthPoll(g)] > 0 /\ timer'[HealthPoll(g)] = timer[HealthPoll(g)] - 1
        /\ timer[LogsPoll(g)] > 0 /\ timer'[LogsPoll(g)] = timer[LogsPoll(g)] - 1
    BY <1>4 DEF Tick, OpenPoller
  <2>2. /\ SinceHealth(g)' = SinceHealth(g) + 1 /\ SinceLogs(g)' = SinceLogs(g) + 1
        /\ SinceHealth(g) \in Nat /\ SinceLogs(g) \in Nat
        /\ Gap(g)' = Gap(g)
    BY <2>1 DEF SinceHealth, SinceLogs, Gap
  <2>3. InTransit(g)'
    BY <1>1, <1>2, <1>4, <2>1, <2>2 DEF LonePage, OpenInv, InTransit
  <2>4. RefusesBecauseOf(g)'
    BY <1>2, <1>3, <1>4, <2>2, MinIntervalAssumption
       DEF LonePage, OpenInv, RefusesBecauseOf, GrantOf, Due, StaleAge
  <2>5. CASE OutcomeThere /\ waited[g] <= Patience
    <3>1. WaitedBefore(g)' = WaitedBefore(g)
      BY <1>4, <2>2, <2>5 DEF Tick, WaitedBefore
    <3> QED
      BY <1>1, <1>2, <1>4, <2>2, <2>3, <2>4, <2>5, <3>1
         DEF LonePage, OpenInv, AnswerTells, AfterRefusal, WhileAsking, RefusedAt,
             AskingAgain, Final
  <2>6. CASE ~OutcomeThere
    <3>1. waited'[g] = 0 /\ WaitedBefore(g)' = 0 - SinceHealth(g)'
      BY <1>4, <2>2, <2>6 DEF Tick, WaitedBefore, LonePage
    <3> QED
      BY <1>1, <1>4, <2>2, <2>3, <2>4, <2>6, <3>1
         DEF LonePage, OpenInv, AnswerTells, AfterRefusal, WhileAsking
  <2> QED
    BY <2>5, <2>6, LoneLearnsInTime
<1>5. CASE shown[g] # "open"
  BY <1>1, <1>2, <1>3, <1>5 DEF Tick, LonePage
<1> QED
  BY <1>4, <1>5

\* What another page does is no concern of a loading page alone behind its
\* address.
LEMMA OtherPage ==
    ASSUME LoneInv, LoadingAlone, NEW g \in LoadingPage, NEW k \in Page, k # g,
           \/ Open(k) \/ Close(k) \/ LearnOutcome(k) \/ KeepPolling(k)
           \/ \E q \in Poller : q[1] = k /\ (Fire(q) \/ Arrive(q))
    PROVE  LonePage(g)'
<1> USE LoneTypes, LonePollers
<1>1. CASE Open(k) \/ Close(k) \/ LearnOutcome(k) \/ KeepPolling(k)
  <2>1. UNCHANGED <<lastSeen, startState, up>>
    BY <1>1 DEF Open, Close, LearnOutcome, KeepPolling, ShowFinally, limiter
  <2>2. /\ shown'[g] = shown[g] /\ reply'[g] = reply[g] /\ waited'[g] = waited[g]
        /\ timer'[HealthPoll(g)] = timer[HealthPoll(g)]
        /\ timer'[LogsPoll(g)] = timer[LogsPoll(g)]
        /\ sent'[HealthPoll(g)] = sent[HealthPoll(g)]
        /\ sent'[LogsPoll(g)] = sent[LogsPoll(g)]
    <3>1. CASE Open(k)
      BY <3>1 DEF Open, LoneInv, PollingTypeOK
    <3>2. ASSUME NEW what, ShowFinally(k, what)
          PROVE  /\ shown'[g] = shown[g] /\ reply'[g] = reply[g] /\ waited'[g] = waited[g]
                 /\ timer'[HealthPoll(g)] = timer[HealthPoll(g)]
                 /\ timer'[LogsPoll(g)] = timer[LogsPoll(g)]
                 /\ UNCHANGED sent
      BY <3>2 DEF ShowFinally, LoneInv, PollingTypeOK
    <3>3. CASE KeepPolling(k)
      BY <3>3 DEF KeepPolling, LoneInv, PollingTypeOK
    <3> QED
      BY <1>1, <3>1, <3>2, <3>3 DEF Close, LearnOutcome
  <2> QED
    BY <2>1, <2>2, Untouched
<1>2. ASSUME NEW q \in Poller, q[1] = k, Fire(q) \/ Arrive(q)
      PROVE  LonePage(g)'
  <2>1. /\ q # HealthPoll(g) /\ q # LogsPoll(g)
        /\ ClientOf[k] # ClientOf[g]
    BY <1>2 DEF LoadingAlone
  <2>2. CASE Fire(q)
    BY <2>1, <2>2, Untouched DEF Fire, LoneInv, limiter
  <2>3. CASE Arrive(q)
    <3>1. /\ UNCHANGED <<shown, timer, waited, startState, up>>
          /\ sent'[HealthPoll(g)] = sent[HealthPoll(g)]
          /\ sent'[LogsPoll(g)] = sent[LogsPoll(g)]
          /\ reply'[g] = reply[g]
      BY <1>2, <2>1, <2>3 DEF Arrive, LoneInv, PollingTypeOK
    <3>2. lastSeen'[ClientOf[g]] = lastSeen[ClientOf[g]]
      BY <1>2, <2>1, <2>3 DEF Arrive, Allow, Grant, Refuse, LoneInv, PollingTypeOK, LimiterTypeOK
    <3> QED
      BY <3>1, <3>2, Untouched
  <2> QED
    BY <1>2, <2>2, <2>3
<1> QED
  BY <1>1, <1>2

\* What a loading page and its polls do.
LEMMA OwnPage ==
    ASSUME LoneInv, PeriodsApart, NEW g \in LoadingPage,
           \/ Open(g) \/ Close(g) \/ LearnOutcome(g) \/ KeepPolling(g)
           \/ \E q \in Poller : q[1] = g /\ (Fire(q) \/ Arrive(q))
    PROVE  LonePage(g)'
<1> USE LoneTypes, LonePollers
<1>1. ASSUME NEW what \in {"closed", "redirected", "error"}, ShowFinally(g, what)
      PROVE  LonePage(g)'
  BY <1>1, NotOpen DEF ShowFinally, LoneInv, PollingTypeOK
<1>2. CASE Close(g) \/ LearnOutcome(g)
  BY <1>1, <1>2 DEF Close, LearnOutcome
<1>3. ASSUME NEW q \in Poller, q[1] = g, Arrive(q), shown[g] # "open"
      PROVE  LonePage(g)'
  <2>1. shown[g] # "unopened"
    BY <1>3 DEF Arrive, LonePage
  <2> QED
    BY <1>3, <2>1, NotOpen DEF Arrive, LonePage
<1>4. ASSUME NEW q \in Poller, q[1] = g, Fire(q) \/ Arrive(q)
      PROVE  LonePage(g)'
  BY <1>3, <1>4, FireHealth, FireLogs, ArriveHealth, ArriveLogs
<1> QED
  BY <1>2, <1>4, OpenLone, KeepPollingLone

LEMMA LonePollersStep ==
    ASSUME LoneInv, [Next]_vars
    PROVE  /\ timer' \in [Poller -> Nat]
           /\ sent' \in [Poller -> Nat \cup {None}]
<1> USE DEF LoneInv
<1>1. ASSUME NEW g \in Page, Open(g) \/ Close(g) \/ LearnOutcome(g) \/ KeepPolling(g)
      PROVE  /\ timer' \in [Poller -> Nat]
             /\ sent' \in [Poller -> Nat \cup {None}]
  BY <1>1, PollerType DEF Open, Close, LearnOutcome, KeepPolling, ShowFinally
<1>2. ASSUME NEW q \in Poller, Fire(q) \/ Arrive(q)
      PROVE  /\ timer' \in [Poller -> Nat]
             /\ sent' \in [Poller -> Nat \cup {None}]
  BY <1>2, PollerType DEF Fire, Arrive
<1>3. CASE StartAttempt \/ AttemptSucceeds \/ AttemptFails \/ IdleStop \/ OperatorStart
  BY <1>3 DEF StartAttempt, AttemptSucceeds, AttemptFails, IdleStop, OperatorStart, Becomes
<1>4. CASE Tick
  BY <1>4, NoEntryAssumption DEF Tick, OpenPoller
<1>5. CASE Cleanup \/ UNCHANGED vars
  BY <1>5 DEF Cleanup, pages, vars
<1> QED
  BY <1>1, <1>2, <1>3, <1>4, <1>5 DEF Next

LEMMA DashboardsStep ==
    ASSUME LoneInv, [Next]_vars
    PROVE  \A g \in Dashboard : waited'[g] = 0
<1> SUFFICES ASSUME NEW g \in Dashboard PROVE waited'[g] = 0
  OBVIOUS
<1> USE DEF LoneInv, PollingTypeOK
<1>1. g \in Page /\ waited[g] = 0
  BY PollingAssumption
<1>2. ASSUME NEW k \in Page, Open(k) \/ Close(k) \/ LearnOutcome(k) \/ KeepPolling(k)
      PROVE  waited'[g] = 0
  BY <1>1, <1>2 DEF Open, Close, LearnOutcome, KeepPolling, ShowFinally
<1>3. ASSUME NEW q \in Poller, Fire(q) \/ Arrive(q)
      PROVE  waited'[g] = 0
  BY <1>1, <1>3 DEF Fire, Arrive
<1>4. CASE StartAttempt \/ AttemptSucceeds \/ AttemptFails \/ IdleStop \/ OperatorStart
  BY <1>1, <1>4 DEF StartAttempt, AttemptSucceeds, AttemptFails, IdleStop, OperatorStart,
                    Becomes
<1>5. CASE Tick \/ Cleanup \/ UNCHANGED vars
  BY <1>1, <1>5 DEF Tick, Cleanup, pages, vars
<1> QED
  BY <1>2, <1>3, <1>4, <1>5 DEF Next

LEMMA LoneStep ==
    ASSUME LoneInv, [Next]_vars, LoadingAlone, PeriodsApart,
           Patience >= 4 * HealthPeriod - 1
    PROVE  LoneInv'
<1>1. PollingTypeOK'
  BY PollingTypeStep DEF LoneInv
<1>2. ASSUME NEW g \in LoadingPage PROVE LonePage(g)'
  <2>1. ASSUME NEW k \in Page, Open(k) \/ Close(k) \/ LearnOutcome(k) \/ KeepPolling(k)
        PROVE  LonePage(g)'
    BY <2>1, OtherPage, OwnPage
  <2>2. ASSUME NEW q \in Poller, Fire(q) \/ Arrive(q)
        PROVE  LonePage(g)'
    BY <2>2, PollerType, OtherPage, OwnPage
  <2>3. CASE StartAttempt \/ AttemptSucceeds \/ AttemptFails \/ IdleStop \/ OperatorStart
    BY <2>3, BecomesLone DEF StartAttempt, AttemptSucceeds, AttemptFails, IdleStop,
                             OperatorStart
  <2>4. CASE Tick
    BY <2>4, TickLone
  \* An entry that is evicted keeps nobody out.
  <2>5. CASE Cleanup
    <3>1. /\ UNCHANGED <<startState, up, pages>>
          /\ lastSeen'[ClientOf[g]] \in {lastSeen[ClientOf[g]], None}
      BY <2>5, LonePollers DEF Cleanup, EvictStale
    <3>2. CASE lastSeen'[ClientOf[g]] = lastSeen[ClientOf[g]]
      BY <3>1, <3>2, LoneTypes, Untouched DEF pages
    <3>3. CASE lastSeen'[ClientOf[g]] = None
      <4>1. RefusesBecauseOf(g)'
        BY <3>3 DEF RefusesBecauseOf, Due
      <4>2. /\ InTransit(g)' = InTransit(g)
            /\ AnswerTells(g)' = AnswerTells(g)
            /\ AfterRefusal(g)' = AfterRefusal(g)
            /\ WhileAsking(g)' = WhileAsking(g)
            /\ OutcomeThere' = OutcomeThere
        BY <3>1 DEF pages, InTransit, AnswerTells, AfterRefusal, WhileAsking, WaitedBefore,
                    RefusedAt, AskingAgain, Gap, SinceHealth, SinceLogs, OutcomeThere, Final
      <4>3. LonePage(g) /\ UNCHANGED <<shown, waited, sent>>
        BY <3>1, LoneTypes DEF pages
      <4> QED
        BY <3>3, <4>1, <4>2, <4>3 DEF LonePage, OpenInv
    <3> QED
      BY <3>1, <3>2, <3>3
  <2>6. CASE UNCHANGED vars
    BY <2>6, LoneTypes, Untouched DEF vars
  <2> QED
    BY <2>1, <2>2, <2>3, <2>4, <2>5, <2>6 DEF Next
<1> QED
  BY <1>1, <1>2, LonePollersStep, DashboardsStep DEF LoneInv

\* server.go:394, for a loading page alone behind its address, whatever the
\* other pages of other clients do, however late requests are within the
\* delay, and however often starts begin and end: while there is an outcome
\* to learn, the page learns it in less than four intervals of /_health.
THEOREM LearnsInTimeAlone ==
    ASSUME LoadingAlone, PeriodsApart, Patience >= 4 * HealthPeriod - 1
    PROVE  Spec => []LearnsInTime
<1>1. LoneInv => LearnsInTime
  <2> SUFFICES ASSUME LoneInv, NEW g \in Page PROVE waited[g] <= Patience
    BY DEF LearnsInTime
  <2>1. CASE g \in Dashboard
    BY <2>1, PollingAssumption DEF LoneInv
  <2>2. CASE g \notin Dashboard
    BY <2>2, LoneLearnsInTime DEF LoadingPage
  <2> QED
    BY <2>1, <2>2
<1>2. LoneInv /\ [Next]_vars => LoneInv'
  BY LoneStep
<1> QED
  BY <1>1, <1>2, LoneInit, PTL DEF Spec
=============================================================================
