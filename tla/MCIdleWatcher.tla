--------------------------- MODULE MCIdleWatcher ----------------------------
(***************************************************************************)
(* Instances of IdleWatcher for TLC.                                       *)
(***************************************************************************)
EXTENDS IdleWatcher

\* web and admin share api and, through it, db.  web needs cache and db too, so
\* that db has two dependents outside the shutdown set of an idle admin.
SharedContainer == {"web", "admin", "api", "db", "cache"}
SharedDeps ==
    [c \in SharedContainer |->
        CASE c = "web"   -> <<"api", "cache", "db">>
          [] c = "admin" -> <<"api">>
          [] c = "db"    -> <<>>
          [] OTHER       -> <<"db">>]
SharedTimeout ==
    [c \in SharedContainer |-> IF c \in {"web", "admin"} THEN 1 ELSE 0]

\* app needs db, and both are entry points.
PairContainer == {"app", "db"}
PairDeps == [c \in PairContainer |-> IF c = "app" THEN <<"db">> ELSE <<>>]
PairTimeout == [c \in PairContainer |-> 1]
AppTimeout == [c \in PairContainer |-> IF c = "app" THEN 1 ELSE 0]

\* Two containers without dependencies.
FlatDeps == [c \in PairContainer |-> <<>>]
=============================================================================
