------------------------- MODULE MCRestartingStore -------------------------
(***************************************************************************)
(* Instances of RestartingStore for TLC.                                   *)
(***************************************************************************)
EXTENDS RestartingStore, MCReplicatedStore

\* Full writes, a patch, an administrator's write and a DELETE.
RestartBudget == Requests(2, 1, 1, 0, 1, 0)

=============================================================================
