--------------------------- MODULE MCColdStorage ---------------------------
(***************************************************************************)
(* Instances of ColdStorage for TLC.                                       *)
(***************************************************************************)
EXTENDS ColdStorage

CONSTANTS k1,  \* a plain key
          k2,  \* the same key with a blank around it
          k3   \* a key with a '='

\* How the lines of these keys are read back.
Trimmed == [k \in Key |-> IF k = k2 THEN k1 ELSE k]

\* The directory of the default table holds a WAL with an entry that was not
\* saved yet and one for a record that was deleted.
WalOfDefault ==
    [t \in Table |->
        IF t = Default
        THEN <<[op |-> "put", key |-> k1, value |-> 1],
               [op |-> "put", key |-> k2, value |-> 1],
               [op |-> "delete", key |-> k2, value |-> 0]>>
        ELSE <<>>]

=============================================================================
