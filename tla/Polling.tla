------------------------------ MODULE Polling -------------------------------
(***************************************************************************)
(* The pages in the browser that poll the gateway: the loading page        *)
(* (gateway/templates/loading.html) asks /_health every two seconds and    *)
(* /_logs every three until it knows how the start ended; the dashboard    *)
(* (templates/status.html) asks /_status/api every five.  All of them go   *)
(* through the rate limiter, which knows clients by address only, and a    *)
(* refused poll is ignored by the page.                                    *)
(*                                                                         *)
(* Time is discrete, one tick is half a second.  A timer of a page that is *)
(* due fires before time goes on; a request is on its way for at most      *)
(* MaxDelay ticks, which includes the lateness of the browser's timers; an *)
(* answer of /_health is handled before the next one is asked for.         *)
(***************************************************************************)
EXTENDS RateLimiter

CONSTANTS
    Page,           \* pages in browsers
    Dashboard,      \* those that show the dashboard, not the loading page
    ClientOf,       \* ClientOf[g]: the address that clientIP sees for page g
    Period,         \* Period[k]: the interval of setInterval, in ticks
    MaxDelay,       \* the longest way of a request, in ticks
    Patience        \* in how many ticks the loading page must learn the outcome

\* What the pages poll for.
Kind == {"health", "logs", "status"}

Polls(g) == IF g \in Dashboard THEN {"status"} ELSE {"health", "logs"}

Poller == {q \in Page \X Kind : q[2] \in Polls(q[1])}

\* The start states that /_health answers with.
Outcome == {"unknown", "starting", "running", "failed"}

ASSUME PollingAssumption ==
    /\ Dashboard \subseteq Page
    /\ ClientOf \in [Page -> Client]
    /\ Period \in [Kind -> Nat \ {0}]
    /\ MaxDelay \in Nat /\ Patience \in Nat
    /\ \A k \in Kind : MaxDelay < Period[k]
    /\ None \notin Outcome

VARIABLES
    startState,     \* the start state of the container that is waited for
    up,             \* whether it is running for Docker
    shown,          \* shown[g]: what page g shows
    timer,          \* timer[q]: ticks until poller q's interval fires
    sent,           \* sent[q]: age of q's request on its way, or None
    reply,          \* reply[g]: the answer of /_health on its way to page g
    waited          \* waited[g]: for how long page g has been open while the
                    \* outcome was there to be learnt

pages == <<shown, timer, sent, reply, waited>>
vars == <<lastSeen, verdict, startState, up, shown, timer, sent, reply, waited>>

Shown == {"unopened", "closed", "open", "redirected", "error"}

PollingTypeOK ==
    /\ LimiterTypeOK
    /\ startState \in Outcome /\ up \in BOOLEAN
    /\ shown \in [Page -> Shown]
    /\ \A q \in Poller : timer[q] \in 0..Period[q[2]]
    /\ \A q \in Poller : sent[q] \in 0..MaxDelay \cup {None}
    /\ reply \in [Page -> Outcome \cup {None}]
    /\ waited \in [Page -> 0..(Patience + 1)]
    /\ \A g \in Page : reply[g] # None => shown[g] = "open" /\ g \notin Dashboard

Init ==
    /\ LimiterInit
    /\ startState \in {"unknown", "starting"} /\ up \in BOOLEAN
    /\ shown = [g \in Page |-> "unopened"]
    /\ timer = [q \in Poller |-> Period[q[2]]]
    /\ sent = [q \in Poller |-> None]
    /\ reply = [g \in Page |-> None]
    /\ waited = [g \in Page |-> 0]

\* Mutant: without the fallback to Docker.
HealthStatusOfAttempt == startState

\* handleHealth's answer: the start state, and Docker's if there is none.
HealthStatus == IF startState = "unknown" /\ up THEN "running" ELSE startState

\* The outcomes that end the polling.
Final(status) == status \in {"running", "failed"}

\* There is something to learn: an attempt has ended, or the container runs
\* and nobody attempts to start it.
OutcomeThere == Final(startState) \/ (startState = "unknown" /\ up)

-----------------------------------------------------------------------------
(***************************************************************************)
(* The pages.                                                              *)
(***************************************************************************)
\* The script polls once at once and then at every interval.  Loading a page
\* anew makes another page of it.
Open(g) ==
    /\ shown[g] = "unopened"
    /\ shown' = [shown EXCEPT ![g] = "open"]
    /\ sent' = [q \in Poller |-> IF q[1] = g THEN 0 ELSE sent[q]]
    /\ timer' = [q \in Poller |-> IF q[1] = g THEN Period[q[2]] ELSE timer[q]]
    /\ UNCHANGED <<limiter, startState, up, reply, waited>>

\* Mutant: answers are handled after the page has ended.
ShowAndHandle(g, what) ==
    /\ shown' = [shown EXCEPT ![g] = what]
    /\ timer' = [q \in Poller |-> IF q[1] = g THEN Period[q[2]] ELSE timer[q]]
    /\ waited' = [waited EXCEPT ![g] = 0]
    /\ UNCHANGED <<limiter, startState, up, sent, reply>>

\* A page that is closed or navigates away polls no more, and what is on its
\* way back is lost.
ShowFinally(g, what) ==
    /\ shown' = [shown EXCEPT ![g] = what]
    /\ timer' = [q \in Poller |-> IF q[1] = g THEN Period[q[2]] ELSE timer[q]]
    /\ reply' = [reply EXCEPT ![g] = None]
    /\ waited' = [waited EXCEPT ![g] = 0]
    /\ UNCHANGED <<limiter, startState, up, sent>>

Close(g) == shown[g] \notin {"unopened", "closed"} /\ ShowFinally(g, "closed")

Fire(q) ==
    /\ shown[q[1]] = "open"
    /\ timer[q] = 0
    /\ timer' = [timer EXCEPT ![q] = Period[q[2]]]
    /\ sent' = [sent EXCEPT ![q] = 0]
    /\ UNCHANGED <<limiter, startState, up, shown, reply, waited>>

\* The handlers ask the limiter first; only /_health matters to the page.
Arrive(q) ==
    /\ sent[q] # None
    /\ Allow(ClientOf[q[1]])
    /\ sent' = [sent EXCEPT ![q] = None]
    /\ reply' = IF Due(ClientOf[q[1]]) /\ shown[q[1]] = "open" /\ q[2] = "health"
                THEN [reply EXCEPT ![q[1]] = HealthStatus] ELSE reply
    /\ UNCHANGED <<startState, up, shown, timer, waited>>

\* checkHealth after its await.
LearnOutcome(g) ==
    /\ reply[g] # None
    /\ Final(reply[g])
    /\ ShowFinally(g, IF reply[g] = "running" THEN "redirected" ELSE "error")

KeepPolling(g) ==
    /\ reply[g] # None
    /\ ~Final(reply[g])
    /\ reply' = [reply EXCEPT ![g] = None]
    /\ UNCHANGED <<limiter, startState, up, shown, timer, sent, waited>>

-----------------------------------------------------------------------------
(***************************************************************************)
(* The start that the page waits for, as far as /_health shows it.         *)
(***************************************************************************)
\* The time to learn an outcome begins when there is one, and begins again
\* when it is gone.
Becomes(status, running) ==
    /\ startState' = status
    /\ up' = running
    /\ waited' = [g \in Page |-> IF OutcomeThere' THEN waited[g] ELSE 0]
    /\ UNCHANGED <<limiter, shown, timer, sent, reply>>

StartAttempt == startState # "starting" /\ Becomes("starting", up)
AttemptSucceeds == startState = "starting" /\ Becomes("running", TRUE)
AttemptFails == startState = "starting" /\ \E r \in BOOLEAN : Becomes("failed", r)
IdleStop == up /\ Becomes("unknown", FALSE)
OperatorStart == ~up /\ Becomes(startState, TRUE)

-----------------------------------------------------------------------------
OpenPoller(q) == shown[q[1]] = "open"

Tick ==
    /\ \A q \in Poller : OpenPoller(q) => timer[q] > 0
    /\ \A q \in Poller : sent[q] # None => sent[q] < MaxDelay
    /\ \A g \in Page : reply[g] # None => timer[<<g, "health">>] > 1
    /\ LimiterTick
    /\ timer' = [q \in Poller |-> IF OpenPoller(q) THEN timer[q] - 1 ELSE timer[q]]
    /\ sent' = [q \in Poller |-> IF sent[q] = None THEN None ELSE sent[q] + 1]
    /\ waited' = [g \in Page |->
                    IF shown[g] = "open" /\ g \notin Dashboard
                       /\ OutcomeThere /\ waited[g] <= Patience
                    THEN waited[g] + 1 ELSE waited[g]]
    /\ UNCHANGED <<startState, up, shown, reply>>

\* The ticker of startCleanup.
Cleanup ==
    /\ EvictStale
    /\ UNCHANGED <<startState, up, pages>>

Next ==
    \/ \E g \in Page : Open(g) \/ Close(g) \/ LearnOutcome(g) \/ KeepPolling(g)
    \/ \E q \in Poller : Fire(q) \/ Arrive(q)
    \/ StartAttempt \/ AttemptSucceeds \/ AttemptFails \/ IdleStop \/ OperatorStart
    \/ Tick
    \/ Cleanup

Spec == Init /\ [][Next]_vars

\* Timers fire, requests arrive, time goes on.  Nothing is assumed of users
\* and starts.
FairSpec ==
    /\ Spec
    /\ \A q \in Poller : WF_vars(Fire(q)) /\ WF_vars(Arrive(q))
    /\ \A g \in Page : WF_vars(LearnOutcome(g) \/ KeepPolling(g))
    /\ WF_vars(Tick)
    /\ WF_vars(Cleanup)

-----------------------------------------------------------------------------
(***************************************************************************)
(* Properties.                                                             *)
(***************************************************************************)
\* server.go:394: the loading page polls /_health to know when to redirect or
\* to show an error.  Whatever the limiter refuses, a page that is open while
\* there is an outcome learns it within Patience ticks.
LearnsInTime == \A g \in Page : waited[g] <= Patience

\* roadmap.md:47: stale addresses are evicted.  Once no page of a client is
\* open any more, its entry disappears from the map for good.
ForgetsClients ==
    \A c \in Client :
        <>[](\A g \in Page : ClientOf[g] = c => shown[g] # "open")
            => <>[](lastSeen[c] = None)
=============================================================================
