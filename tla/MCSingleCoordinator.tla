------------------------ MODULE MCSingleCoordinator ------------------------
(***************************************************************************)
(* Instances of SingleCoordinator for TLC.                                 *)
(***************************************************************************)
EXTENDS SingleCoordinator

AllNodes == {Node}

\* A full write, a patch, an administrator's write and a GET.
LeaderBudget ==
    [op \in Ops |-> CASE op = "put" -> 1
                      [] op = "patch" -> 1
                      [] op = "adminPut" -> 1
                      [] op = "get" -> 1
                      [] OTHER -> 0]

=============================================================================
