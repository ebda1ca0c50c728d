--------------------------- MODULE ScheduleProofs ---------------------------
(***************************************************************************)
(* Theorems about Schedule, for every clock, all pairs of schedules of     *)
(* which a week tells everything (WeekTells), and all faults but those     *)
(* that a theorem excludes.                                                *)
(*                                                                         *)
(* The gate looks back a week and the validation looks ahead a week.  Both *)
(* see everything: an open window has a start in every week                *)
(* (GateIsInside), and what ever fires together does so in every week      *)
(* (ValidForEver).                                                         *)
(***************************************************************************)
EXTENDS Schedule, Recursion

(***************************************************************************)
(* Remainders, and the ends of intervals.                                  *)
(***************************************************************************)
LEMMA Division ==
    ASSUME NEW a \in Int, NEW p \in Nat \ {0}
    PROVE  /\ a \div p \in Int /\ a % p \in 0..(p - 1)
           /\ a = p * (a \div p) + (a % p)
  OBVIOUS

LEMMA RemainderUnique ==
    ASSUME NEW p \in Nat \ {0}, NEW q1 \in Int, NEW q2 \in Int,
           NEW r1 \in 0..(p - 1), NEW r2 \in 0..(p - 1),
           p * q1 + r1 = p * q2 + r2
    PROVE  r1 = r2
  <1>1. CASE q1 < q2
    <2>1. p * (q1 + 1) <= p * q2
      BY <1>1
    <2>2. p * (q1 + 1) = p * q1 + p
      OBVIOUS
    <2> QED
      BY <2>1, <2>2
  <1>2. CASE q1 > q2
    <2>1. p * (q2 + 1) <= p * q1
      BY <1>2
    <2>2. p * (q2 + 1) = p * q2 + p
      OBVIOUS
    <2> QED
      BY <2>1, <2>2
  <1>3. CASE q1 = q2
    BY <1>3
  <1> QED
    BY <1>1, <1>2, <1>3

\* Whole periods do not change the remainder.
LEMMA RemainderShift ==
    ASSUME NEW a \in Int, NEW p \in Nat \ {0}, NEW k \in Int
    PROVE  (a + k * p) % p = a % p
  <1> DEFINE q1 == a \div p
             r1 == a % p
             q2 == (a + k * p) \div p
             r2 == (a + k * p) % p
  <1>1. q1 \in Int /\ r1 \in 0..(p - 1) /\ a = p * q1 + r1
    BY Division
  <1>2. a + k * p \in Int
    OBVIOUS
  <1>3. q2 \in Int /\ r2 \in 0..(p - 1) /\ a + k * p = p * q2 + r2
    BY <1>2, Division
  <1> HIDE DEF q1, r1, q2, r2
  <1>4. p * (q1 + k) = p * q1 + k * p /\ q1 + k \in Int
    BY <1>1
  <1>5. p * (q1 + k) + r1 = p * q2 + r2
    BY <1>1, <1>3, <1>4
  <1>6. r1 = r2
    BY <1>1, <1>3, <1>4, <1>5, RemainderUnique, Zenon
  <1> QED
    BY <1>6 DEF r1, r2

\* The numbers that differ by whole multiples of D from t: one is among any D
\* consecutive ones.
LEMMA Reduce ==
    ASSUME NEW t \in Int, NEW n \in Int, NEW D \in Nat \ {0}
    PROVE  \E k \in Int : t + k * D \in (n + 1)..(n + D)
  <1> DEFINE q == (t - (n + 1)) \div D
             r == (t - (n + 1)) % D
  <1>1. t - (n + 1) \in Int
    OBVIOUS
  <1>2. q \in Int /\ r \in 0..(D - 1) /\ t - (n + 1) = D * q + r
    BY <1>1, Division
  <1> HIDE DEF q, r
  <1>3. (0 - q) * D = 0 - D * q /\ 0 - q \in Int
    BY <1>2
  <1>4. t + (0 - q) * D = n + 1 + r
    BY <1>2, <1>3
  <1>5. t + (0 - q) * D \in (n + 1)..(n + D)
    BY <1>2, <1>4
  <1> QED
    BY <1>3, <1>5

LEMMA LeastOfInterval ==
    ASSUME NEW a \in Int, NEW b \in Int, NEW T \in SUBSET (a..b), T # {}
    PROVE  Min(T) \in T /\ \A y \in T : Min(T) <= y
  <1> DEFINE S == {y - a : y \in T}
  <1>1. S \in SUBSET Nat /\ S # {}
    OBVIOUS
  <1>2. PICK m \in S : \A n \in S : m <= n
    BY <1>1, NatMinimum
  <1>3. PICK x \in T : m = x - a
    BY <1>2
  <1>4. \A y \in T : y - a \in S
    OBVIOUS
  <1> HIDE DEF S
  <1>5. \A y \in T : x - a <= y - a
    BY <1>2, <1>3, <1>4
  <1>6. \A y \in T : x =< y
    BY <1>5
  <1> QED
    BY <1>6 DEF Min

LEMMA GreatestOfInterval ==
    ASSUME NEW a \in Int, NEW b \in Int, NEW T \in SUBSET (a..b), T # {}
    PROVE  Max(T) \in T /\ \A y \in T : Max(T) >= y
  <1> DEFINE S == {b - y : y \in T}
  <1>1. S \in SUBSET Nat /\ S # {}
    OBVIOUS
  <1>2. PICK m \in S : \A n \in S : m <= n
    BY <1>1, NatMinimum
  <1>3. PICK x \in T : m = b - x
    BY <1>2
  <1>4. \A y \in T : b - y \in S
    OBVIOUS
  <1> HIDE DEF S
  <1>5. \A y \in T : b - x <= b - y
    BY <1>2, <1>3, <1>4
  <1>6. \A y \in T : x >= y
    BY <1>5
  <1> QED
    BY <1>6 DEF Max

-----------------------------------------------------------------------------
(***************************************************************************)
(* Firings.                                                                *)
(***************************************************************************)
\* A schedule repeats after every multiple of its period.
LEMMA FiresAgain ==
    ASSUME NEW s, IsSchedule(s), NEW D \in Nat \ {0}, D % s.period = 0,
           NEW t \in Int, NEW k \in Int
    PROVE  Fires(s, t + k * D) <=> Fires(s, t)
  <1> DEFINE p == s.period
             m == D \div p
  <1>1. p \in Nat \ {0}
    BY DEF IsSchedule
  <1>2. D \in Int
    OBVIOUS
  <1>3. m \in Int /\ D = p * m
    <2>1. m \in Int /\ D = p * m + (D % p)
      BY <1>1, <1>2, Division
    <2> QED
      BY <1>1, <2>1
  <1> HIDE DEF p, m
  <1>4. k * m \in Int
    BY <1>3
  <1>5. (t + (k * m) * p) % p = t % p
    BY <1>1, <1>4, RemainderShift
  <1>6. k * D = (k * m) * p
    BY <1>1, <1>3
  <1>7. (t + k * D) % p = t % p
    BY <1>5, <1>6
  <1> QED
    BY <1>7 DEF Fires, p

\* A schedule that fires at all fires within its period.
LEMMA FiresSoon ==
    ASSUME NEW s, IsSchedule(s), s.at # {}, NEW n \in Int
    PROVE  \E u \in (n + 1)..(n + s.period) : Fires(s, u)
  <1>1. s.period \in Nat \ {0} /\ s.at \subseteq 0..(s.period - 1)
    BY DEF IsSchedule
  <1>2. PICK a \in s.at : a \in 0..(s.period - 1)
    BY <1>1
  <1>3. PICK k \in Int : a + k * s.period \in (n + 1)..(n + s.period)
    <2>1. a \in Int
      BY <1>1, <1>2
    <2> QED
      BY <1>1, <2>1, Reduce, Zenon
  <1>4. a % s.period = a
    BY <1>1, <1>2
  <1>5. (a + k * s.period) % s.period = a
    BY <1>1, <1>2, <1>4, RemainderShift
  <1> QED
    BY <1>2, <1>3, <1>5 DEF Fires

Together(p, t) == Fires(p.start, t) /\ Fires(p.stop, t)

\* A week tells everything: starts that fire do so in every week, and if the
\* schedules of a pair ever fire together, they do so in every week.  Of the
\* stop nothing is asked but that.  With other pairs the code violates the
\* properties (MCSchedule, MonthlyPairs).
WeekTells ==
    \A p \in Pairs : Gated(p) =>
        \A n \in Int :
            /\ (\E t \in Int : Fires(p.start, t)) =>
                    \E t \in (n + 1)..(n + Week) : Fires(p.start, t)
            /\ (\E t \in Int : Together(p, t)) =>
                    \E t \in (n + 1)..(n + Week) : Together(p, t)

LEMMA GatedPair ==
    ASSUME NEW p \in Pairs, Gated(p)
    PROVE  /\ IsSchedule(p.start) /\ Cycle % p.start.period = 0
           /\ IsSchedule(p.stop) /\ Cycle % p.stop.period = 0
  BY ScheduleAssumption DEF Gated

\* Cron expressions without a day of the month and a month repeat every week,
\* so a week tells everything about them.
THEOREM EveryWeekTells ==
    ASSUME \A p \in Pairs : \A s \in {p.start, p.stop} \ {None} : Week % s.period = 0
    PROVE  WeekTells
  <1> SUFFICES ASSUME NEW p \in Pairs, Gated(p), NEW n \in Int
               PROVE  /\ (\E t \in Int : Fires(p.start, t)) =>
                            \E t \in (n + 1)..(n + Week) : Fires(p.start, t)
                      /\ (\E t \in Int : Together(p, t)) =>
                            \E t \in (n + 1)..(n + Week) : Together(p, t)
    BY DEF WeekTells
  <1>1. /\ Week \in Nat \ {0}
        /\ Week % p.start.period = 0 /\ Week % p.stop.period = 0
        /\ IsSchedule(p.start) /\ IsSchedule(p.stop)
    BY GatedPair, ScheduleAssumption DEF Gated
  <1>2. ASSUME NEW t \in Int
        PROVE  \E u \in (n + 1)..(n + Week) :
                   /\ Fires(p.start, u) <=> Fires(p.start, t)
                   /\ Fires(p.stop, u) <=> Fires(p.stop, t)
    <2>1. PICK k \in Int : t + k * Week \in (n + 1)..(n + Week)
      BY <1>1, Reduce
    <2>2. /\ Fires(p.start, t + k * Week) <=> Fires(p.start, t)
          /\ Fires(p.stop, t + k * Week) <=> Fires(p.stop, t)
      BY <1>1, FiresAgain
    <2> QED
      BY <2>1, <2>2
  <1> QED
    BY <1>2 DEF Together

-----------------------------------------------------------------------------
(***************************************************************************)
(* The window, without a bound on how long ago its start was.              *)
(***************************************************************************)
\* The start at x is the reason why n is inside.
OpenSince(p, x, n) ==
    /\ Fires(p.start, x)
    /\ \A u \in x..n : ~Fires(p.stop, u)

Inside(p, n) == \E x \in Int : x <= n /\ OpenSince(p, x, n)

\* The last D minutes decide, for every D after which the start repeats.
LEMMA LookBack ==
    ASSUME NEW p, IsSchedule(p.start), NEW n \in Int,
           NEW D \in Nat \ {0}, D % p.start.period = 0
    PROVE  Inside(p, n) <=> \E x \in (n - D + 1)..n : OpenSince(p, x, n)
  <1>1. ASSUME NEW x \in Int, x <= n, OpenSince(p, x, n)
        PROVE  \E y \in (n - D + 1)..n : OpenSince(p, y, n)
    <2>1. n - D \in Int
      OBVIOUS
    <2>2. PICK k \in Int : x + k * D \in (n - D + 1)..(n - D + D)
      BY <2>1, Reduce
    <2> DEFINE y == x + k * D
    <2>3. y \in (n - D + 1)..n
      BY <2>2
    <2>4. k >= 0
      <3> SUFFICES ASSUME k <= -1
                   PROVE  FALSE
        OBVIOUS
      <3>1. k * D <= (-1) * D
        OBVIOUS
      <3> QED
        BY <1>1, <2>3, <3>1
    <2>5. k * D >= 0
      BY <2>4
    <2>6. Fires(p.start, y)
      BY <1>1, FiresAgain DEF OpenSince
    <2> HIDE DEF y
    <2>7. y >= x
      BY <2>5 DEF y
    <2>8. \A u \in y..n : u \in x..n
      BY <2>3, <2>7
    <2> QED
      BY <1>1, <2>3, <2>6, <2>8 DEF OpenSince
  <1>2. ASSUME NEW x \in (n - D + 1)..n, OpenSince(p, x, n)
        PROVE  Inside(p, n)
    BY <1>2 DEF Inside
  <1> QED
    BY <1>1, <1>2 DEF Inside

\* The window repeats with the clock.
LEMMA InsideShift ==
    ASSUME NEW p \in Pairs, Gated(p), NEW n \in Int, NEW k \in Int
    PROVE  Inside(p, n) => Inside(p, n + k * Cycle)
  <1>0. Cycle \in Nat \ {0}
    BY ScheduleAssumption
  <1> SUFFICES ASSUME NEW x \in Int, x <= n, OpenSince(p, x, n)
               PROVE  Inside(p, n + k * Cycle)
    BY DEF Inside
  <1> DEFINE d == k * Cycle
  <1>1. d \in Int
    BY <1>0
  <1>2. Fires(p.start, x + d)
    BY <1>0, GatedPair, FiresAgain DEF OpenSince
  <1>3. \A u \in Int : Fires(p.stop, u + d) <=> Fires(p.stop, u)
    BY <1>0, GatedPair, FiresAgain
  <1> HIDE DEF d
  <1>4. ASSUME NEW u \in (x + d)..(n + d)
        PROVE  ~Fires(p.stop, u)
    <2>1. u - d \in x..n /\ u - d \in Int /\ u = (u - d) + d
      BY <1>1
    <2> QED
      BY <1>3, <2>1 DEF OpenSince
  <1>5. x + d \in Int /\ x + d <= n + d
    BY <1>1
  <1>6. Inside(p, n + d)
    BY <1>2, <1>4, <1>5 DEF Inside, OpenSince
  <1> QED
    BY <1>6 DEF d

\* prevFiring, where it finds something.
LEMMA PrevFiring ==
    ASSUME NEW s, NEW n \in Int
    PROVE  LET W == (n - Week + 1)..n IN
           /\ (\A t \in W : ~Fires(s, t)) => prevFiring(s, n) = None
           /\ (\E t \in W : Fires(s, t)) =>
                /\ prevFiring(s, n) \in W
                /\ Fires(s, prevFiring(s, n))
                /\ \A t \in W : Fires(s, t) => prevFiring(s, n) >= t
  <1> DEFINE W == (n - Week + 1)..n
             fired == {t \in W : Fires(s, t)}
  <1>0. n - Week + 1 \in Int
    BY ScheduleAssumption
  <1>1. prevFiring(s, n) = IF fired = {} THEN None ELSE Max(fired)
    BY DEF prevFiring
  <1>2. ASSUME fired # {}
        PROVE  Max(fired) \in fired /\ \A t \in fired : Max(fired) >= t
    BY <1>0, <1>2, GreatestOfInterval
  <1> QED
    BY <1>1, <1>2

\* The gate computes the window.
LEMMA GateIsInside ==
    ASSUME WeekTells, NEW p \in Pairs, Gated(p), NEW n \in Int
    PROVE  IsInScheduleWindow(p, n).allowed <=> Inside(p, n)
  <1> DEFINE W == (n - Week + 1)..n
             a == prevFiring(p.start, n)
             b == prevFiring(p.stop, n)
  <1>0. Week \in Nat \ {0} /\ None \notin Int /\ W \subseteq Int
    BY ScheduleAssumption
  <1>1. IsInScheduleWindow(p, n).allowed <=> (a # None /\ (b # None => a > b))
    BY DEF IsInScheduleWindow, Opened, Closed
  <1>2. Inside(p, n) <=> \E x \in W : OpenSince(p, x, n)
    <2>1. ASSUME NEW x \in Int, x <= n, OpenSince(p, x, n)
          PROVE  \E y \in W : OpenSince(p, y, n)
      <3>1. CASE x \in W
        BY <2>1, <3>1
      <3>2. CASE x \notin W
        <4> DEFINE m == n - Week
        <4>0. m \in Int /\ (m + 1)..(m + Week) = W
          BY <1>0
        <4> HIDE DEF m, W
        <4>1. PICK y \in W : Fires(p.start, y)
          BY <2>1, <4>0 DEF WeekTells, OpenSince
        <4> USE DEF W
        <4>2. y \in W /\ \A u \in y..n : u \in x..n
          BY <1>0, <2>1, <3>2, <4>1
        <4> QED
          BY <2>1, <4>1, <4>2 DEF OpenSince
      <3> QED
        BY <3>1, <3>2
    <2>2. ASSUME NEW x \in W, OpenSince(p, x, n)
          PROVE  Inside(p, n)
      BY <1>0, <2>2 DEF Inside
    <2> QED
      BY <2>1, <2>2 DEF Inside
  <1>3. /\ (\A t \in W : ~Fires(p.start, t)) => a = None
        /\ (\E t \in W : Fires(p.start, t)) =>
             a \in W /\ Fires(p.start, a) /\ \A t \in W : Fires(p.start, t) => a >= t
    BY PrevFiring
  <1>4. /\ (\A t \in W : ~Fires(p.stop, t)) => b = None
        /\ (\E t \in W : Fires(p.stop, t)) =>
             b \in W /\ Fires(p.stop, b) /\ \A t \in W : Fires(p.stop, t) => b >= t
    BY PrevFiring
  <1> HIDE DEF a, b
  <1>5. ASSUME a # None, b # None => a > b
        PROVE  \E x \in W : OpenSince(p, x, n)
    <2>1. a \in W /\ Fires(p.start, a)
      BY <1>3, <1>5
    <2>2. ASSUME NEW u \in a..n, Fires(p.stop, u)
          PROVE  FALSE
      <3>1. u \in W
        BY <1>0, <2>1
      <3>2. b \in W /\ b >= u
        BY <1>4, <2>2, <3>1
      <3>3. a > b
        BY <1>0, <1>5, <3>2
      <3> QED
        BY <1>0, <2>1, <3>1, <3>2, <3>3
    <2> QED
      BY <2>1, <2>2 DEF OpenSince
  <1>6. ASSUME NEW x \in W, OpenSince(p, x, n)
        PROVE  a # None /\ (b # None => a > b)
    <2>1. a \in W /\ a >= x
      BY <1>3, <1>6 DEF OpenSince
    <2>2. ASSUME b # None
          PROVE  a > b
      <3>1. b \in W /\ Fires(p.stop, b)
        BY <1>4, <2>2
      <3>2. b \notin x..n
        BY <1>6, <3>1 DEF OpenSince
      <3> QED
        BY <1>0, <2>1, <3>1, <3>2
    <2> QED
      BY <1>0, <2>1, <2>2
  <1> QED
    BY <1>1, <1>2, <1>5, <1>6

-----------------------------------------------------------------------------
(***************************************************************************)
(* Firings and the window: the last of them decides.                       *)
(***************************************************************************)
\* At no minute both fire.
Apart(p) == \A t \in Int : ~(Fires(p.start, t) /\ Fires(p.stop, t))

LEMMA StartOpens ==
    ASSUME NEW p, Apart(p), NEW n \in Int, Fires(p.start, n)
    PROVE  Inside(p, n)
  <1>1. \A u \in n..n : u = n
    OBVIOUS
  <1> QED
    BY <1>1 DEF Apart, Inside, OpenSince

LEMMA StopCloses ==
    ASSUME NEW p, NEW n \in Int, Fires(p.stop, n)
    PROVE  ~Inside(p, n)
  <1>1. \A x \in Int : x <= n => n \in x..n
    OBVIOUS
  <1> QED
    BY <1>1 DEF Inside, OpenSince

\* Without a start nothing opens, ...
LEMMA NothingOpens ==
    ASSUME NEW p, NEW n \in Int, NEW m \in Int, n <= m,
           \A u \in (n + 1)..m : ~Fires(p.start, u),
           Inside(p, m)
    PROVE  Inside(p, n)
  <1>1. PICK x \in Int : x <= m /\ OpenSince(p, x, m)
    BY DEF Inside
  <1>2. x <= n
    <2> SUFFICES ASSUME x > n
                 PROVE  FALSE
      BY <1>1
    <2>1. x \in (n + 1)..m
      BY <1>1
    <2> QED
      BY <1>1, <2>1 DEF OpenSince
  <1>3. \A u \in x..n : u \in x..m
    OBVIOUS
  <1> QED
    BY <1>1, <1>2, <1>3 DEF Inside, OpenSince

\* ... and without a stop nothing closes.
LEMMA NothingCloses ==
    ASSUME NEW p, NEW n \in Int, ~Fires(p.stop, n + 1), Inside(p, n)
    PROVE  Inside(p, n + 1)
  <1>1. PICK x \in Int : x <= n /\ OpenSince(p, x, n)
    BY DEF Inside
  <1>2. \A u \in x..(n + 1) : u \in x..n \/ u = n + 1
    OBVIOUS
  <1>3. x <= n + 1 /\ \A u \in x..(n + 1) : ~Fires(p.stop, u)
    BY <1>1, <1>2 DEF OpenSince
  <1> QED
    BY <1>1, <1>3 DEF Inside, OpenSince

\* What validateScheduleCompatibility finds in one week holds for ever.
LEMMA ValidForEver ==
    ASSUME WeekTells, NEW p \in Pairs, Gated(p), NEW n \in Int
    PROVE  validateScheduleCompatibility(p, n) <=> Apart(p)
  <1>0. Week \in Nat \ {0}
    BY ScheduleAssumption
  <1>1. validateScheduleCompatibility(p, n)
            <=> ~\E t \in (n + 1)..(n + Week) : Fires(p.start, t) /\ Fires(p.stop, t)
    BY DEF validateScheduleCompatibility
  <1>2. ASSUME NEW t \in Int, Fires(p.start, t), Fires(p.stop, t)
        PROVE  \E u \in (n + 1)..(n + Week) : Fires(p.start, u) /\ Fires(p.stop, u)
    BY <1>2 DEF WeekTells, Together
  <1>3. \A t \in (n + 1)..(n + Week) : t \in Int
    BY <1>0
  <1> QED
    BY <1>1, <1>2, <1>3 DEF Apart

\* NextFiring, of a schedule that fires.
LEMMA NextFiringFacts ==
    ASSUME NEW s, IsSchedule(s), NEW n \in Int, NextFiring(s, n) # None
    PROVE  LET u == NextFiring(s, n) IN
           /\ u \in Int /\ u > n
           /\ Fires(s, u)
           /\ \A t \in (n + 1)..(u - 1) : ~Fires(s, t)
  <1> DEFINE T == {u \in (n + 1)..(n + s.period) : Fires(s, u)}
             u == NextFiring(s, n)
  <1>0. n + 1 \in Int /\ n + s.period \in Int
    BY DEF IsSchedule
  <1>1. s.at # {} /\ u = Min(T)
    BY DEF NextFiring
  <1>2. T # {}
    BY <1>1, FiresSoon
  <1>3. T \in SUBSET ((n + 1)..(n + s.period))
    OBVIOUS
  <1>4. Min(T) \in T /\ \A t \in T : Min(T) <= t
    BY <1>0, <1>2, <1>3, LeastOfInterval, Zenon
  <1>5. u \in (n + 1)..(n + s.period) /\ Fires(s, u) /\ \A t \in T : u <= t
    BY <1>1, <1>4
  <1> HIDE DEF u
  <1>6. ASSUME NEW t \in (n + 1)..(u - 1), Fires(s, t)
        PROVE  FALSE
    <2>1. t \in (n + 1)..(n + s.period)
      BY <1>0, <1>5
    <2>2. u <= t
      BY <1>5, <1>6, <2>1
    <2> QED
      BY <1>0, <1>5, <2>2
  <1> QED
    BY <1>0, <1>5, <1>6 DEF u

-----------------------------------------------------------------------------
(***************************************************************************)
(* Types.                                                                  *)
(***************************************************************************)
LEMMA TypeInit == Init => ScheduleTypeOK
  BY DEF Init, ScheduleTypeOK, Spawner

LEMMA TypeStep == ScheduleTypeOK /\ [Next]_vars => ScheduleTypeOK'
  <1> SUFFICES ASSUME ScheduleTypeOK, [Next]_vars
               PROVE  ScheduleTypeOK'
    OBVIOUS
  <1> USE DEF ScheduleTypeOK, Spawner
  <1>1. CASE Request
    BY <1>1 DEF Request, Spawn
  <1>2. ASSUME NEW x \in Spawner,
               FoundRunning(x) \/ FoundStopped(x) \/ StartContainer(x) \/ StartFails(x)
        PROVE  ScheduleTypeOK'
    BY <1>2 DEF FoundRunning, FoundStopped, StartContainer, StartFails
  <1>3. CASE StopContainer \/ StopFails
    BY <1>3 DEF StopContainer, StopFails
  <1>4. CASE Exit
    BY <1>4 DEF Exit
  <1>7. CASE Up
    BY <1>7 DEF Up
  <1>8. CASE UNCHANGED vars
    BY <1>8 DEF vars
  <1>5. CASE Down
    BY <1>5 DEF Down
  <1>6. CASE Tick
    <2>1. (now + 1) % Cycle \in 0..(Cycle - 1)
      <3>1. Cycle \in Nat \ {0} /\ now + 1 \in Int
        BY ScheduleAssumption
      <3> QED
        BY <3>1, Division
    <2>2. now' \in 0..(Cycle - 1) /\ UNCHANGED <<pair, up, container>>
      BY <1>6, <2>1 DEF Tick
    <2>5. \/ starter' = starter
          \/ up /\ starter' = [starter EXCEPT !["cron"] = "check"]
      BY <1>6 DEF Tick, Spawn
    <2>6. /\ starter' \in [Spawner -> {"idle", "check", "start"}]
          /\ starter' # [x \in Spawner |-> "idle"] => up
      BY <2>5
    <2>3. stopping' \in BOOLEAN /\ (stopping' => stopping \/ up)
      BY <1>6 DEF Tick
    <2>4. last' \in {"none", "start", "stop", "lost"}
      BY <1>6 DEF Tick
    <2> QED
      BY <2>2, <2>3, <2>4, <2>6
  <1> QED
    BY <1>1, <1>2, <1>3, <1>4, <1>5, <1>6, <1>7, <1>8 DEF Next

\* Jobs, requests, downtimes and the clock keep the types of their state, for
\* any schedules, and nothing is under way while the gateway is down.
THEOREM ScheduleTyped == Spec => []ScheduleTypeOK
  BY TypeInit, TypeStep, PTL DEF Spec

-----------------------------------------------------------------------------
(***************************************************************************)
(* The pair stays as valid as it was when the file was loaded.             *)
(***************************************************************************)
PairApart == Gated(pair) => Apart(pair)

LEMMA PairKept ==
    [Next]_vars => pair' = pair
  BY DEF Next, vars, Request, FoundRunning, FoundStopped, StartContainer, StartFails,
         StopContainer, StopFails, Exit, Down, Up, Tick

LEMMA ApartInit ==
    ASSUME WeekTells
    PROVE  Init => PairApart
  <1> SUFFICES ASSUME Init, Gated(pair)
               PROVE  Apart(pair)
    BY DEF PairApart
  <1>1. pair \in Pairs /\ now \in Int /\ validateScheduleCompatibility(pair, now)
    BY DEF Init
  <1> QED
    BY <1>1, ValidForEver

LEMMA ApartStep == PairApart /\ [Next]_vars => PairApart'
  BY PairKept DEF PairApart, Gated, Apart, Fires

\* validateScheduleCompatibility looks only a week ahead of the moment at
\* which it runs.  A pair that it accepts once is accepted by every later
\* start of the gateway and every later discovery pass.
THEOREM StaysValidAlways ==
    ASSUME WeekTells
    PROVE  Spec => []StaysValid
  <1>1. ScheduleTypeOK /\ PairApart => StaysValid
    <2> SUFFICES ASSUME ScheduleTypeOK, PairApart
                 PROVE  StaysValid
      OBVIOUS
    <2>1. pair \in Pairs /\ now \in Int
      BY DEF ScheduleTypeOK
    <2>2. CASE Gated(pair)
      BY <2>1, <2>2, ValidForEver DEF PairApart, StaysValid
    <2>3. CASE ~Gated(pair)
      BY <2>3 DEF StaysValid, validateScheduleCompatibility
    <2> QED
      BY <2>2, <2>3
  <1> QED
    BY TypeInit, TypeStep, ApartInit, ApartStep, <1>1, PTL DEF Spec

-----------------------------------------------------------------------------
(***************************************************************************)
(* The gate.                                                               *)
(***************************************************************************)
\* IsInScheduleWindow looks back a week with prevFiring.  That is the window
\* of the documentation, the last start after the last stop, however long ago
\* they were.
THEOREM WindowAsDocumentedAlways ==
    ASSUME WeekTells
    PROVE  Spec => []WindowAsDocumented
  <1>1. ScheduleTypeOK => WindowAsDocumented
    <2> SUFFICES ASSUME ScheduleTypeOK, Gated(pair)
                 PROVE  Gate.allowed <=> InWindow
      BY DEF WindowAsDocumented
    <2>1. pair \in Pairs /\ now \in Int /\ Cycle \in Nat \ {0}
      BY ScheduleAssumption DEF ScheduleTypeOK
    <2>2. Gate.allowed <=> Inside(pair, now)
      BY <2>1, GateIsInside DEF Gate
    <2>3. Inside(pair, now) <=> \E x \in (now - Cycle + 1)..now : OpenSince(pair, x, now)
      BY <2>1, GatedPair, LookBack
    <2> QED
      BY <2>2, <2>3 DEF InWindow, OpenSince
  <1> QED
    BY TypeInit, TypeStep, <1>1, PTL DEF Spec

\* The next start that handleRequest hands to the offline page is a firing of
\* the start schedule alone.  The gate is closed until then and opens at that
\* minute, because the validation keeps stops away from it.
THEOREM NextStartOpensAlways ==
    ASSUME WeekTells
    PROVE  Spec => []NextStartOpens
  <1>1. ScheduleTypeOK /\ PairApart => NextStartOpens
    <2> DEFINE u == NextFiring(pair.start, now)
    <2> SUFFICES ASSUME ScheduleTypeOK, PairApart, ~Gate.allowed, Gate.nextStart # None
                 PROVE  /\ Gate.nextStart > now
                        /\ IsInScheduleWindow(pair, Gate.nextStart).allowed
                        /\ \A t \in now..(Gate.nextStart - 1) : ~IsInScheduleWindow(pair, t).allowed
      BY DEF NextStartOpens
    <2>1. pair \in Pairs /\ now \in Int
      BY DEF ScheduleTypeOK
    <2>2. Gated(pair)
      BY DEF Gate, IsInScheduleWindow, Opened
    <2>3. Gate.nextStart = u
      BY DEF Gate, IsInScheduleWindow, Opened, Closed
    <2>4. /\ u \in Int /\ u > now
          /\ Fires(pair.start, u)
          /\ \A t \in (now + 1)..(u - 1) : ~Fires(pair.start, t)
      <3>1. IsSchedule(pair.start) /\ u # None
        BY <2>1, <2>2, <2>3, GatedPair
      <3> QED
        BY <2>1, <3>1, NextFiringFacts
    <2> HIDE DEF u
    <2>5. Inside(pair, u)
      BY <2>2, <2>4, StartOpens DEF PairApart
    <2>6. ~Inside(pair, now)
      BY <2>1, <2>2, GateIsInside DEF Gate
    <2>7. ASSUME NEW t \in now..(u - 1)
          PROVE  ~Inside(pair, t)
      <3>1. t \in Int /\ now <= t /\ \A v \in (now + 1)..t : ~Fires(pair.start, v)
        BY <2>1, <2>4
      <3> QED
        BY <2>1, <2>6, <3>1, NothingOpens
    <2>8. \A t \in Int : IsInScheduleWindow(pair, t).allowed <=> Inside(pair, t)
      BY <2>1, <2>2, GateIsInside
    <2>9. \A t \in now..(u - 1) : t \in Int
      BY <2>1, <2>4
    <2> QED
      BY <2>3, <2>4, <2>5, <2>7, <2>8, <2>9
  <1> QED
    BY TypeInit, TypeStep, ApartInit, ApartStep, <1>1, PTL DEF Spec

-----------------------------------------------------------------------------
(***************************************************************************)
(* The gate and the jobs.  The gate computes what cron does: a tick that   *)
(* fires nothing leaves the window as it is, and the job that a tick fires *)
(* decides on the window.                                                  *)
(***************************************************************************)
JobsInside ==
    Gated(pair) =>
        /\ last = "start" => Inside(pair, now)
        /\ last = "stop" => ~Inside(pair, now)

\* The clock wraps around, and nothing can tell.
LEMMA ClockWraps ==
    ASSUME WeekTells, NEW p \in Pairs, Gated(p), NEW n \in Int
    PROVE  LET t == (n + 1) % Cycle IN
           /\ t \in Int
           /\ Inside(p, t) <=> Inside(p, n + 1)
           /\ Fires(p.start, t) <=> Fires(p.start, n + 1)
           /\ Fires(p.stop, t) <=> Fires(p.stop, n + 1)
  <1> DEFINE q == (n + 1) \div Cycle
             t == (n + 1) % Cycle
  <1>0. Cycle \in Nat \ {0} /\ n + 1 \in Int
    BY ScheduleAssumption
  <1>1. q \in Int /\ t \in Int /\ n + 1 = Cycle * q + t
    BY <1>0, Division
  <1> HIDE DEF q, t
  <1>2. n + 1 = t + q * Cycle /\ t = (n + 1) + (0 - q) * Cycle /\ 0 - q \in Int
    <2>1. q * Cycle = Cycle * q /\ (0 - q) * Cycle = 0 - Cycle * q
      BY <1>0, <1>1
    <2> QED
      BY <1>0, <1>1, <2>1
  <1>3. Inside(p, t) => Inside(p, t + q * Cycle)
    BY <1>1, InsideShift
  <1>4. Inside(p, n + 1) => Inside(p, (n + 1) + (0 - q) * Cycle)
    BY <1>0, <1>2, InsideShift
  <1>5. /\ Fires(p.start, t + q * Cycle) <=> Fires(p.start, t)
        /\ Fires(p.stop, t + q * Cycle) <=> Fires(p.stop, t)
    BY <1>0, <1>1, GatedPair, FiresAgain
  <1>6. /\ Inside(p, t) <=> Inside(p, n + 1)
        /\ Fires(p.start, t) <=> Fires(p.start, n + 1)
        /\ Fires(p.stop, t) <=> Fires(p.stop, n + 1)
    BY <1>2, <1>3, <1>4, <1>5
  <1> QED
    BY <1>1, <1>6 DEF t

\* What a tick does to the last job and to the window.
LEMMA TickFacts ==
    ASSUME WeekTells, ScheduleTypeOK, PairApart, Gated(pair), Tick
    PROVE  \/ /\ last' \in {"start", "lost"}
              /\ Inside(pair, now')
           \/ /\ last' = IF up THEN "stop" ELSE "lost"
              /\ ~Inside(pair, now')
              /\ starter' = starter
              /\ up => stopping'
           \/ /\ last' = last /\ starter' = starter /\ stopping' = stopping
              /\ Inside(pair, now') <=> Inside(pair, now)
  <1> DEFINE t == (now + 1) % Cycle
  <1>0. pair \in Pairs /\ now \in Int /\ pair.start # None /\ pair.stop # None
        /\ up \in BOOLEAN /\ stopping \in BOOLEAN
    BY DEF ScheduleTypeOK, Gated
  <1>1. /\ t \in Int
        /\ Inside(pair, t) <=> Inside(pair, now + 1)
        /\ Fires(pair.start, t) <=> Fires(pair.start, now + 1)
        /\ Fires(pair.stop, t) <=> Fires(pair.stop, now + 1)
    BY <1>0, ClockWraps
  <1>2. now' = t
    BY DEF Tick
  <1>3. CASE Fires(pair.start, t)
    <2>1. ~Fires(pair.stop, t) /\ Inside(pair, t)
      BY <1>1, <1>3, StartOpens DEF PairApart, Apart
    <2>2. last' \in {"start", "lost"}
      BY <1>0, <1>3, <2>1 DEF Tick, FiresNow
    <2> QED
      BY <1>2, <2>1, <2>2
  <1>4. CASE ~Fires(pair.start, t) /\ Fires(pair.stop, t)
    <2>1. ~Inside(pair, t)
      BY <1>1, <1>4, StopCloses
    <2>2. last' = IF up THEN "stop" ELSE "lost"
      BY <1>0, <1>4 DEF Tick, FiresNow
    <2>3. starter' = starter
      BY <1>4 DEF Tick, FiresNow
    <2>4. up => stopping'
      BY <1>0, <1>4 DEF Tick, FiresNow
    <2> QED
      BY <1>2, <2>1, <2>2, <2>3, <2>4
  <1>5. CASE ~Fires(pair.start, t) /\ ~Fires(pair.stop, t)
    <2>1. Inside(pair, now) => Inside(pair, t)
      BY <1>0, <1>1, <1>5, NothingCloses
    <2>2. Inside(pair, t) => Inside(pair, now)
      <3>1. \A u \in (now + 1)..(now + 1) : u = now + 1
        BY <1>0
      <3>2. \A u \in (now + 1)..(now + 1) : ~Fires(pair.start, u)
        BY <1>1, <1>5, <3>1
      <3> QED
        BY <1>0, <1>1, <3>2, NothingOpens
    <2>3. last' = last
      BY <1>5 DEF Tick, FiresNow
    <2>4. starter' = starter
      BY <1>5 DEF Tick, FiresNow
    <2>5. stopping' = stopping
      BY <1>0, <1>5 DEF Tick, FiresNow
    <2> QED
      BY <1>2, <2>1, <2>2, <2>3, <2>4, <2>5
  <1> QED
    BY <1>3, <1>4, <1>5

LEMMA JobsInit == Init => JobsInside
  BY DEF Init, JobsInside

LEMMA JobsStep ==
    ASSUME WeekTells
    PROVE  ScheduleTypeOK /\ PairApart /\ JobsInside /\ [Next]_vars => JobsInside'
  <1> SUFFICES ASSUME ScheduleTypeOK, PairApart, JobsInside, [Next]_vars, Gated(pair)
               PROVE  /\ last' = "start" => Inside(pair, now')
                      /\ last' = "stop" => ~Inside(pair, now')
    BY PairKept DEF JobsInside, Gated, Inside, OpenSince, Fires
  <1>1. CASE Tick
    BY <1>1, TickFacts DEF JobsInside
  <1>2. CASE ~Tick
    <2>1. now' = now /\ last' \in {last, "lost"}
      BY <1>2 DEF Next, vars, Request, FoundRunning, FoundStopped, StartContainer, StartFails,
                  StopContainer, StopFails, Exit, Down, Up
    <2> QED
      BY <2>1 DEF JobsInside
  <1> QED
    BY <1>1, <1>2

\* IsInScheduleWindow computes firings, cron fires jobs.  After a start job
\* the gate is open and after a stop job it is closed, until the next job,
\* although jobs are lost in downtimes and Docker fails.
THEOREM GateFollowsJobsAlways ==
    ASSUME WeekTells
    PROVE  Spec => []GateFollowsJobs
  <1>1. ScheduleTypeOK /\ JobsInside => GateFollowsJobs
    <2> SUFFICES ASSUME ScheduleTypeOK, JobsInside, Gated(pair)
                 PROVE  /\ last = "start" => Gate.allowed
                        /\ last = "stop" => ~Gate.allowed
      BY DEF GateFollowsJobs
    <2>1. Gate.allowed <=> Inside(pair, now)
      BY GateIsInside DEF Gate, ScheduleTypeOK
    <2> QED
      BY <2>1 DEF JobsInside
  <1> QED
    BY TypeInit, TypeStep, ApartInit, ApartStep, JobsInit, JobsStep, <1>1, PTL DEF Spec

-----------------------------------------------------------------------------
(***************************************************************************)
(* The container.  While the stop job is the last one no goroutine is      *)
(* about to start the container: it fired when none was under way, and the *)
(* gate lets no request through that could spawn one.                      *)
(***************************************************************************)
NobodyStarts == \A x \in Spawner : starter[x] = "idle"

StopHolds ==
    Gated(pair) /\ last = "stop" => NobodyStarts /\ (stopping \/ container = "exited")

LEMMA StopInit == Init => StopHolds
  BY DEF Init, StopHolds

LEMMA StopStep ==
    ASSUME WeekTells, "straddle" \notin Faults, "bypass" \notin Faults
    PROVE  ScheduleTypeOK /\ PairApart /\ JobsInside /\ StopHolds /\ [Next]_vars => StopHolds'
  <1> SUFFICES ASSUME ScheduleTypeOK, PairApart, JobsInside, StopHolds, [Next]_vars,
                      Gated(pair), last' = "stop"
               PROVE  NobodyStarts' /\ (stopping' \/ container' = "exited")
    BY PairKept DEF StopHolds, Gated
  <1>1. CASE Tick
    <2>1. ~Busy /\ container' = container
      BY <1>1 DEF Tick
    <2>2. NobodyStarts /\ ~stopping
      BY <2>1 DEF Busy, NobodyStarts
    <2>3. \/ starter' = starter /\ up /\ stopping'
          \/ last = "stop" /\ starter' = starter /\ stopping' = stopping
      BY <1>1, TickFacts
    <2> QED
      BY <2>1, <2>2, <2>3 DEF StopHolds, NobodyStarts
  <1>2. CASE ~Tick
    <2>1. last = "stop"
      BY <1>2 DEF Next, vars, Request, FoundRunning, FoundStopped, StartContainer, StartFails,
                  StopContainer, StopFails, Exit, Down, Up
    <2>2. NobodyStarts /\ (stopping \/ container = "exited") /\ ~Inside(pair, now)
      BY <2>1 DEF StopHolds, JobsInside
    <2>3. ~Request
      <3>1. ~Gate.allowed
        BY <2>2, GateIsInside DEF Gate, ScheduleTypeOK
      <3> QED
        BY <3>1 DEF Request
    <2>4. \A x \in Spawner :
            ~(FoundRunning(x) \/ FoundStopped(x) \/ StartContainer(x) \/ StartFails(x))
      BY <2>2 DEF NobodyStarts, FoundRunning, FoundStopped, StartContainer, StartFails
    <2>5. CASE StopContainer \/ Exit
      BY <2>2, <2>5 DEF StopContainer, Exit, NobodyStarts
    <2>6. CASE Down
      BY <2>2, <2>6 DEF Down, NobodyStarts
    <2>7. CASE Up \/ UNCHANGED vars
      BY <2>2, <2>7 DEF Up, vars, NobodyStarts
    <2>8. ~StopFails
      BY DEF StopFails
    <2> QED
      BY <1>2, <2>3, <2>4, <2>5, <2>6, <2>7, <2>8 DEF Next
  <1> QED
    BY <1>1, <1>2

\* A container with both schedules is stopped outside its window once the
\* stop job has run: the goroutines that handleRequest spawns come from inside
\* the window.  It takes that what begins in a minute ends in it and that
\* nobody starts the container past the gate.
THEOREM StoppedOutsideWindowAlways ==
    ASSUME WeekTells, "straddle" \notin Faults, "bypass" \notin Faults
    PROVE  Spec => []StoppedOutsideWindow
  <1>1. StopHolds => StoppedOutsideWindow
    BY DEF StopHolds, StoppedOutsideWindow
  <1> QED
    BY TypeInit, TypeStep, ApartInit, ApartStep, JobsInit, JobsStep, StopInit, StopStep,
       <1>1, PTL DEF Spec
=============================================================================
