----------------------------- MODULE MCServing ------------------------------
(***************************************************************************)
(* Instances of Serving for TLC: graphs over app, api and db, with cycles, *)
(* with dependencies on containers that are missing, with and without each *)
(* of the containers.                                                      *)
(***************************************************************************)
EXTENDS Serving

MCName == {"app", "api", "db"}

MCHost == {"app.local", "api.local", "pair.local"}

\* One list for each set of dependencies.
Lists == {SetToSeq(S) : S \in SUBSET MCName}

Ctr(name, host, deps) ==
    [name |-> name, host |-> host, deps |-> deps, scheduled |-> FALSE]

Apps == {Ctr("app", "app.local", deps) : deps \in Lists}
Apis == {Ctr("api", "api.local", deps) : deps \in Lists}
Dbs == {Ctr("db", NoHost, deps) : deps \in {<<>>, <<"app">>}}

\* app or nothing, then api or nothing, then db or nothing.
Some(S) == {<<c>> : c \in S} \cup {<<>>}
MCContainers == {a \o b \o c : a \in Some(Apps), b \in Some(Apis), c \in Some(Dbs)}

\* Groups are in the configuration of startup only.  One has a host of its
\* own, one the host that app has in other configurations.
Pair == [host |-> "pair.local", members |-> <<"app", "api">>]
Former == [host |-> "app.local", members |-> <<"api", "db">>]
Config(p) == [containers |-> p[1], groups |-> p[2]]
MCConfigs ==
    {Config(p) : p \in {q \in MCContainers \X {{}, {Pair}, {Former}} : Validate(Config(q))}}

\* By host, by both, and by name alone.
MCRequests ==
    {[host |-> "app.local", container |-> NoHost],
     [host |-> "pair.local", container |-> "db"],
     [host |-> "elsewhere", container |-> "api"]}
=============================================================================
