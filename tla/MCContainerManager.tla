------------------------- MODULE MCContainerManager -------------------------
(***************************************************************************)
(* Instances of ContainerManager for TLC: an application "app" that        *)
(* depends on a database "db".                                             *)
(***************************************************************************)
EXTENDS ContainerManager, TLC

Graph == [c \in {"app", "db"} |-> IF c = "app" THEN <<"db">> ELSE <<>>]

J == INSTANCE StartJobs WITH DependsOn <- Graph

MCContainer == {"app", "db"}

\* A request for app, one for db, and a wake of app from the dashboard.
MCJobs == {J!RequestJob("app"), J!RequestJob("db"), J!WakeJob("app")}

\* Requests only.
RequestJobs == {J!RequestJob("app"), J!RequestJob("db")}

ProcSymmetry == Permutations(Proc)
=============================================================================
