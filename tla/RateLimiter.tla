---------------------------- MODULE RateLimiter -----------------------------
(***************************************************************************)
(* The rate limiter of the gateway (gateway/server.go, rateLimiter), which *)
(* the endpoints /_health, /_logs, /_status/api and /_status/wake share.   *)
(* Its map of clients would grow without end, so a ticker evicts entries   *)
(* that are older than twice the interval.                                 *)
(*                                                                         *)
(* Allow and evictStale hold rl.mu from the first line to the last: each   *)
(* is one action.                                                          *)
(***************************************************************************)
EXTENDS Naturals

CONSTANTS
    Client,         \* source addresses
    MinInterval,    \* minInterval, in ticks of the model's clock
    None            \* "no entry in the map"

ASSUME MinIntervalAssumption == MinInterval \in Nat \ {0}
ASSUME NoEntryAssumption == None \notin Nat

VARIABLES
    lastSeen,       \* lastSeen[c]: age of c's entry, or None
    verdict         \* verdict[c]: what Allow last returned for c

limiter == <<lastSeen, verdict>>

\* An age saturates where evictStale no longer tells it apart.
StaleAge == 2 * MinInterval + 1

LimiterTypeOK ==
    /\ lastSeen \in [Client -> 0..StaleAge \cup {None}]
    /\ verdict \in [Client -> {"none", "allowed", "limited"}]

LimiterInit ==
    /\ lastSeen = [c \in Client |-> None]
    /\ verdict = [c \in Client |-> "none"]

Due(c) == lastSeen[c] # None => lastSeen[c] >= MinInterval

\* Allow(ip) on its two paths.
Grant(c) ==
    /\ Due(c)
    /\ lastSeen' = [lastSeen EXCEPT ![c] = 0]
    /\ verdict' = [verdict EXCEPT ![c] = "allowed"]

Refuse(c) ==
    /\ ~Due(c)
    /\ verdict' = [verdict EXCEPT ![c] = "limited"]
    /\ UNCHANGED lastSeen

Allow(c) == Grant(c) \/ Refuse(c)

\* last.Before(cutoff), with the cutoff two intervals ago.
Stale(c) == lastSeen[c] # None /\ lastSeen[c] > 2 * MinInterval

\* Mutant: the map is emptied.
EvictEverybody ==
    /\ \E c \in Client : lastSeen[c] # None
    /\ lastSeen' = [c \in Client |-> None]
    /\ UNCHANGED verdict

\* Mutant: the comparison with the cutoff is the wrong way round.
EvictFresh ==
    /\ \E c \in Client : lastSeen[c] # None /\ ~Stale(c)
    /\ lastSeen' = [c \in Client |-> IF Stale(c) THEN lastSeen[c] ELSE None]
    /\ UNCHANGED verdict

\* A pass that finds nothing to delete is a stuttering step.
EvictStale ==
    /\ \E c \in Client : Stale(c)
    /\ lastSeen' = [c \in Client |-> IF Stale(c) THEN None ELSE lastSeen[c]]
    /\ UNCHANGED verdict

LimiterTick ==
    /\ lastSeen' = [c \in Client |->
                      IF lastSeen[c] \in 0..(StaleAge - 1) THEN lastSeen[c] + 1
                                                           ELSE lastSeen[c]]
    /\ UNCHANGED verdict

LimiterNext == (\E c \in Client : Allow(c)) \/ EvictStale \/ LimiterTick

LimiterSpec == LimiterInit /\ [][LimiterNext]_limiter

-----------------------------------------------------------------------------
(***************************************************************************)
(* The refinement: a client without an entry has been silent for at least  *)
(* the interval.                                                           *)
(***************************************************************************)
SinceLastGrant ==
    [c \in Client |-> IF Due(c) THEN MinInterval ELSE lastSeen[c]]

L == INSTANCE Limiter WITH since <- SinceLastGrant

\* how-it-works.md:107, "1 request/s per IP": Allow and evictStale together
\* let a request through exactly when the client has been silent for the
\* interval, so evictions neither let one through early nor keep one out.
ImplementsLimiter == L!Spec
=============================================================================
