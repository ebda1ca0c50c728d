----------------------------- MODULE MCPolling ------------------------------
(***************************************************************************)
(* Instances of Polling for TLC: a loading page and a dashboard behind one *)
(* address, with the intervals of the templates in ticks of half a second. *)
(***************************************************************************)
EXTENDS Polling

MCPeriod == [k \in Kind |-> CASE k = "health" -> 4 [] k = "logs" -> 6 [] k = "status" -> 10]

MCPage == {"loading", "dashboard"}
OneAddress == [g \in MCPage |-> "a"]

\* A loading page alone behind its address.
AlonePage == {"loading"}
AloneAddress == [g \in AlonePage |-> "a"]

\* Two loading pages behind one address.
TwoPages == {"first", "second"}
TwoOneAddress == [g \in TwoPages |-> "a"]
=============================================================================
