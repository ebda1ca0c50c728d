------------------------------ MODULE Schedule ------------------------------
(***************************************************************************)
(* The schedule of one container (gateway/scheduler.go): the cron jobs     *)
(* that start and stop it, the gate that lets requests through inside the  *)
(* window that the two cron expressions define, and the validation of the  *)
(* pair.                                                                   *)
(*                                                                         *)
(* Time is counted in minutes of the schedule, as cron does.  A schedule   *)
(* fires at certain minutes of a period; the library's Next finds the next *)
(* one.  The clock is kept modulo Cycle, a multiple of all periods, which  *)
(* no definition can tell apart.  What is begun in a minute ends in that   *)
(* minute, unless Faults has "straddle".                                   *)
(***************************************************************************)
EXTENDS Integers, FiniteSetsExt

CONSTANTS
    Pairs,          \* [start, stop] pairs of schedules, each may be None
    None,           \* no schedule, and no time (the zero Time)
    Week,           \* seven days
    Cycle,          \* where the clock wraps around
    Faults          \* a subset of FaultKind

\* down:     the gateway is not there for some time
\* api:      docker start or stop fails
\* straddle: Docker calls begun in one minute take effect in a later one
\* bypass:   starts that do not pass the gate (dashboard, groups, dependents)
FaultKind == {"down", "api", "straddle", "bypass"}

\* The minutes "at" of every period.
IsSchedule(s) ==
    /\ s.period \in Nat \ {0}
    /\ s.at \subseteq 0..(s.period - 1)

ASSUME ScheduleAssumption ==
    /\ Week \in Nat \ {0} /\ Cycle \in Nat \ {0} /\ None \notin Int
    /\ \A pair \in Pairs : \A s \in {pair.start, pair.stop} \ {None} :
        IsSchedule(s) /\ Cycle % s.period = 0
    /\ Faults \subseteq FaultKind

Fires(s, t) == t % s.period \in s.at

\* cron's Schedule.Next: the first firing after t.
NextFiring(s, t) ==
    IF s.at = {} THEN None
    ELSE Min({u \in (t + 1)..(t + s.period) : Fires(s, u)})

-----------------------------------------------------------------------------
(***************************************************************************)
(* The gate and the validation.                                            *)
(***************************************************************************)
\* Mutant: the lookback is a day short of a week.
prevFiringShort(s, now) ==
    LET fired == {t \in (now - Week + Week \div 3)..now : Fires(s, t)}
    IN  IF fired = {} THEN None ELSE Max(fired)

\* The last firing at or before now, if there is one within a week.
prevFiring(s, now) ==
    LET fired == {t \in (now - Week + 1)..now : Fires(s, t)}
    IN  IF fired = {} THEN None ELSE Max(fired)

\* The gate is for containers with both schedules.
Gated(pair) == pair.start # None /\ pair.stop # None

Closed(nextStart) == [allowed |-> FALSE, nextStart |-> nextStart]
Opened == [allowed |-> TRUE, nextStart |-> None]

\* Mutant: the minute of the stop is still inside.
IsInScheduleWindowLate(pair, now) ==
    IF ~Gated(pair) THEN Opened
    ELSE LET prevStart == prevFiring(pair.start, now)
             prevStop == prevFiring(pair.stop, now - 1)
         IN  IF prevStart # None /\ (prevStop # None => prevStart > prevStop)
             THEN Opened
             ELSE Closed(NextFiring(pair.start, now))

IsInScheduleWindow(pair, now) ==
    IF ~Gated(pair) THEN Opened
    ELSE LET prevStart == prevFiring(pair.start, now)
             prevStop == prevFiring(pair.stop, now)
         IN  IF prevStart # None /\ (prevStop # None => prevStart > prevStop)
             THEN Opened
             ELSE Closed(NextFiring(pair.start, now))

\* Mutant: a day is looked ahead, not a week.
validateScheduleDay(pair, now) ==
    Gated(pair) => ~\E t \in (now + 1)..(now + Week \div 3) :
                        Fires(pair.start, t) /\ Fires(pair.stop, t)

\* No minute of the next week at which both fire.
validateScheduleCompatibility(pair, now) ==
    Gated(pair) => ~\E t \in (now + 1)..(now + Week) :
                        Fires(pair.start, t) /\ Fires(pair.stop, t)

-----------------------------------------------------------------------------
(***************************************************************************)
(* The jobs, the requests and the container.                               *)
(***************************************************************************)
VARIABLES
    pair,           \* the schedules of the container
    now,            \* the minute
    up,             \* whether the gateway is there
    container,      \* "exited" or "running"
    starter,        \* starter[x]: the goroutine of EnsureRunning spawned by x
    stopping,       \* whether a stop job has yet to call docker stop
    last            \* the job that fired last, "lost" if it had no effect

vars == <<pair, now, up, container, starter, stopping, last>>

\* Who spawns goroutines that start the container.
Spawner == {"cron", "request"}

ScheduleTypeOK ==
    /\ pair \in Pairs
    /\ now \in 0..(Cycle - 1)
    /\ up \in BOOLEAN /\ stopping \in BOOLEAN
    /\ container \in {"exited", "running"}
    /\ starter \in [Spawner -> {"idle", "check", "start"}]
    /\ last \in {"none", "start", "stop", "lost"}
    /\ stopping \/ starter # [x \in Spawner |-> "idle"] => up

\* The gateway starts with a file that Validate accepts.
Init ==
    /\ pair \in Pairs
    /\ now \in 0..(Cycle - 1)
    /\ validateScheduleCompatibility(pair, now)
    /\ up = TRUE
    /\ container \in {"exited", "running"}
    /\ starter = [x \in Spawner |-> "idle"]
    /\ stopping = FALSE
    /\ last = "none"

Gate == IsInScheduleWindow(pair, now)

Spawn(x) == starter' = [starter EXCEPT ![x] = "check"]

\* Mutant: the gate is closed to nobody.
RequestAnyway ==
    /\ up
    /\ starter["request"] = "idle"
    /\ Spawn("request")
    /\ UNCHANGED <<pair, now, up, container, stopping, last>>

\* handleRequest behind the gate.  A running container is forwarded to.
Request ==
    /\ up
    /\ Gate.allowed \/ "bypass" \in Faults
    /\ starter["request"] = "idle"
    /\ Spawn("request")
    /\ UNCHANGED <<pair, now, up, container, stopping, last>>

\* EnsureRunning returns early for a container that runs.
FoundRunning(x) ==
    /\ starter[x] = "check"
    /\ container = "running"
    /\ starter' = [starter EXCEPT ![x] = "idle"]
    /\ UNCHANGED <<pair, now, up, container, stopping, last>>

FoundStopped(x) ==
    /\ starter[x] = "check"
    /\ container = "exited"
    /\ starter' = [starter EXCEPT ![x] = "start"]
    /\ UNCHANGED <<pair, now, up, container, stopping, last>>

StartContainer(x) ==
    /\ starter[x] = "start"
    /\ starter' = [starter EXCEPT ![x] = "idle"]
    /\ container' = "running"
    /\ UNCHANGED <<pair, now, up, stopping, last>>

StartFails(x) ==
    /\ "api" \in Faults
    /\ starter[x] = "start"
    /\ starter' = [starter EXCEPT ![x] = "idle"]
    /\ UNCHANGED <<pair, now, up, container, stopping, last>>

StopContainer ==
    /\ stopping
    /\ stopping' = FALSE
    /\ container' = "exited"
    /\ UNCHANGED <<pair, now, up, starter, last>>

\* The error is logged and the job does not come back before the next stop.
StopFails ==
    /\ "api" \in Faults
    /\ stopping
    /\ stopping' = FALSE
    /\ last' = "lost"
    /\ UNCHANGED <<pair, now, up, container, starter>>

\* The container exits on its own or by the idle watcher.
Exit ==
    /\ container = "running"
    /\ container' = "exited"
    /\ UNCHANGED <<pair, now, up, starter, stopping, last>>

\* Mutant: a stop job outlives its process.
DownButStopping ==
    /\ "down" \in Faults
    /\ up
    /\ up' = FALSE
    /\ starter' = [x \in Spawner |-> "idle"]
    /\ UNCHANGED <<pair, now, container, stopping, last>>

Down ==
    /\ "down" \in Faults
    /\ up
    /\ up' = FALSE
    /\ starter' = [x \in Spawner |-> "idle"]
    /\ stopping' = FALSE
    /\ last' = IF stopping THEN "lost" ELSE last
    /\ UNCHANGED <<pair, now, container>>

\* Startup validates the file again and registers the jobs from now on.
Up ==
    /\ ~up
    /\ validateScheduleCompatibility(pair, now)
    /\ up' = TRUE
    /\ UNCHANGED <<pair, now, container, starter, stopping, last>>

Busy == stopping \/ \E x \in Spawner : starter[x] # "idle"

FiresNow(s, t) == s # None /\ Fires(s, t)

\* The minute's jobs are launched, by a gateway that is there.
Tick ==
    LET t == (now + 1) % Cycle
        starts == FiresNow(pair.start, t)
        stops == FiresNow(pair.stop, t)
        Fired == {j \in {"start", "stop"} : IF j = "start" THEN starts ELSE stops}
    IN  /\ Busy => "straddle" \in Faults
        /\ starts => starter["cron"] = "idle"
        /\ now' = t
        /\ IF up /\ starts THEN Spawn("cron") ELSE UNCHANGED starter
        /\ stopping' = (stopping \/ (up /\ stops))
        /\ last' \in IF Fired = {} THEN {last} ELSE IF up THEN Fired ELSE {"lost"}
        /\ UNCHANGED <<pair, up, container>>

Next ==
    \/ Request
    \/ \E x \in Spawner :
        FoundRunning(x) \/ FoundStopped(x) \/ StartContainer(x) \/ StartFails(x)
    \/ StopContainer \/ StopFails
    \/ Exit
    \/ Down \/ Up
    \/ Tick

Spec == Init /\ [][Next]_vars

-----------------------------------------------------------------------------
(***************************************************************************)
(* Properties.                                                             *)
(***************************************************************************)
\* scheduling.md:40-46: inside the window if and only if the last start is
\* after the last stop, however long ago they were.
InWindow ==
    \E t \in (now - Cycle + 1)..now :
        /\ Fires(pair.start, t)
        /\ ~\E u \in t..now : Fires(pair.stop, u)

\* The lookback of a week in prevFiring loses no firing that matters.
WindowAsDocumented == Gated(pair) => (Gate.allowed <=> InWindow)

\* scheduling.md:50-57: the offline page shows the next scheduled start.  The
\* gate is closed until then and opens at that minute, which rests on the
\* validation: a start that a stop collides with would not open it.
NextStartOpens ==
    ~Gate.allowed /\ Gate.nextStart # None =>
        /\ Gate.nextStart > now
        /\ IsInScheduleWindow(pair, Gate.nextStart).allowed
        /\ \A t \in now..(Gate.nextStart - 1) : ~IsInScheduleWindow(pair, t).allowed

\* A file that was valid when it was loaded is valid at every later start and
\* discovery pass, although the validation depends on the time of day.
StaysValid == validateScheduleCompatibility(pair, now)

\* The gate, which computes the firings, agrees with the jobs, which cron
\* fires: it is open if the last job was a start and closed if it was a stop.
GateFollowsJobs ==
    Gated(pair) =>
        /\ last = "start" => Gate.allowed
        /\ last = "stop" => ~Gate.allowed

\* scheduling.md:31: a container with both schedules is stopped outside its
\* window, once the stop job has run: requests do not start it again.
StoppedOutsideWindow ==
    Gated(pair) /\ ~Gate.allowed /\ last = "stop" /\ ~stopping =>
        container = "exited"
=============================================================================
