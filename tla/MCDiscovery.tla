---------------------------- MODULE MCDiscovery -----------------------------
(***************************************************************************)
(* Instances of Discovery for TLC.                                         *)
(***************************************************************************)
EXTENDS Discovery

Ctr(name, host, deps, scheduled) ==
    [name |-> name, host |-> host, deps |-> deps, scheduled |-> scheduled]

MCName == {"web", "shop", "db", "cron", "rival", "needy"}
MCHost == {"web.local", "shop.local", "cron.local", "needy.local", "cluster.local"}

Web == Ctr("web", "web.local", <<>>, FALSE)
Shop == Ctr("shop", "shop.local", <<"db">>, TRUE)
Db == Ctr("db", NoHost, <<>>, FALSE)

\* The file before and after an edit.
MCStatic ==
    {[containers |-> <<Web>>, groups |-> {}],
     [containers |-> <<Shop, Db>>, groups |-> {}]}

\* Nothing, a scheduled container next to one without a host, one that takes
\* the host of web, one whose dependency exists only in the edited file, and a
\* cycle.
MCLabels ==
    {<<>>,
     <<Ctr("needy", NoHost, <<"db">>, FALSE), Ctr("cron", "cron.local", <<>>, TRUE)>>,
     <<Ctr("rival", "web.local", <<>>, FALSE), Ctr("cron", "cron.local", <<>>, TRUE)>>,
     <<Ctr("needy", "needy.local", <<"db">>, FALSE)>>,
     <<Ctr("needy", "needy.local", <<"cron">>, FALSE),
       Ctr("cron", "cron.local", <<"needy">>, FALSE)>>}

\* A group.
Cluster == [host |-> "cluster.local", members |-> <<"web">>]
GroupStatic == {[containers |-> <<Web>>, groups |-> {Cluster}]}
=============================================================================
