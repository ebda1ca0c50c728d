----------------------------- MODULE MCGateway ------------------------------
(***************************************************************************)
(* Instances of Gateway for TLC: web depends on db, or on api and db; a    *)
(* group has the members web and api.                                      *)
(***************************************************************************)
EXTENDS Gateway

PairContainer == {"web", "db"}
PairDeps == [c \in PairContainer |-> IF c = "web" THEN <<"db">> ELSE <<>>]
PairTimeout == [c \in PairContainer |-> IF c = "web" THEN 1 ELSE 0]
PairNoTimeout == [c \in PairContainer |-> 0]

TripleContainer == {"web", "api", "db"}
TripleNoTimeout == [c \in TripleContainer |-> 0]
MCGroups == {<<"web", "api">>}

\* web needs api and db, api needs db.
ChainDeps ==
    [c \in TripleContainer |->
        CASE c = "web" -> <<"api", "db">> [] c = "api" -> <<"db">> [] OTHER -> <<>>]

SingleContainer == {"web"}
SingleDeps == [c \in SingleContainer |-> <<>>]
SingleNoTimeout == [c \in SingleContainer |-> 0]

NoGroups == {}
=============================================================================
