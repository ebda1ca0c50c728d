------------------------------ MODULE Limiter -------------------------------
(***************************************************************************)
(* What the rate limiter of the internal endpoints promises: a request of  *)
(* a client is allowed if and only if none of its requests was allowed     *)
(* within the last MinInterval (docs/how-it-works.md:107, security.md:141).*)
(* This limiter never forgets a client; RateLimiter, which does, is shown  *)
(* to implement it.                                                        *)
(***************************************************************************)
EXTENDS Naturals

CONSTANTS
    Client,         \* source addresses
    MinInterval     \* the least time between two allowed requests of a client

VARIABLES
    since,          \* since[c]: time since c's last allowed request, where it
                    \* saturates at MinInterval
    verdict         \* verdict[c]: the answer to c's last request

vars == <<since, verdict>>

Verdict == {"none", "allowed", "limited"}

Init ==
    /\ since = [c \in Client |-> MinInterval]
    /\ verdict = [c \in Client |-> "none"]

Allowed(c) ==
    /\ since[c] = MinInterval
    /\ since' = [since EXCEPT ![c] = 0]
    /\ verdict' = [verdict EXCEPT ![c] = "allowed"]

Limited(c) ==
    /\ since[c] # MinInterval
    /\ verdict' = [verdict EXCEPT ![c] = "limited"]
    /\ UNCHANGED since

Tick ==
    /\ since' = [c \in Client |->
                   IF since[c] = MinInterval THEN MinInterval ELSE since[c] + 1]
    /\ UNCHANGED verdict

Next == (\E c \in Client : Allowed(c) \/ Limited(c)) \/ Tick

Spec == Init /\ [][Next]_vars
=============================================================================
