---------------------------- MODULE MCMembership ----------------------------
(***************************************************************************)
(* Instances of Membership for TLC.                                        *)
(***************************************************************************)
EXTENDS Membership, TLC

CONSTANTS n1, n2

\* n2 joins n1, which is started alone.
PairContact == (n1 :> None) @@ (n2 :> n1)

\* All clocks agree.
InStep == [n \in Node |-> 0]

\* The clock of n1 is one unit ahead.
Ahead == [n \in Node |-> IF n = n1 THEN 1 ELSE 0]

=============================================================================
