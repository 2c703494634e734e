------------------------- MODULE MCReplicatedStore -------------------------
(***************************************************************************)
(* Instances of ReplicatedStore for TLC.                                   *)
(***************************************************************************)
EXTENDS TwoNodes

\* Replicas are interchangeable when any of them may coordinate.
NodeSymmetry == Permutations(Node)

\* So are users.
Symmetries == Permutations(Node) \cup Permutations(User)

\* The views of a cluster in which every node lists every node as Active.
FullViews == {Node}

\* The views of a cluster whose failure detector may suspect any node.
AnyViews == SUBSET Node

\* Request budgets.
Requests(put, pat, adminPut, get, delete, adminDelete) ==
    [op \in Ops |-> CASE op = "put" -> put
                      [] op = "patch" -> pat
                      [] op = "adminPut" -> adminPut
                      [] op = "get" -> get
                      [] op = "delete" -> delete
                      [] op = "adminDelete" -> adminDelete]

\* A record is created and patched while a client reads it.
WritesBudget == Requests(1, 2, 0, 1, 0, 0)

\* The six writes by which a clock loses track of causality.
CausalBudget == Requests(1, 5, 0, 0, 0, 0)

\* A record is created and deleted.
DeleteBudget == Requests(1, 0, 0, 0, 1, 0)

\* Two users create the key and one of them deletes it.
RaceBudget == Requests(2, 0, 0, 0, 1, 0)

=============================================================================
