--------------------------- MODULE MCNodeRuntime ---------------------------
(***************************************************************************)
(* Instances of NodeRuntime for TLC.                                       *)
(***************************************************************************)
EXTENDS NodeRuntime

CONSTANTS t1, t2, t3,  \* threads
          put,         \* a put_value
          in1, in2,    \* two put_value_internal
          s1           \* a subscriber, who may come back

\* Each handler that keeps the guard has a thread of its own; the subscriber is
\* polled by the thread of the handler that does not.
Apart == [t \in Task |-> CASE t \in {put, s1} -> t1
                           [] t = in1 -> t2
                           [] t = in2 -> t3]

\* Two handlers that keep the guard are polled by one thread.
Together == [t \in Task |-> IF t \in {in1, in2} THEN t1 ELSE t2]

\* put_value replicates to two nodes.
TwoTargets == [h \in Handler |-> IF h = put THEN 2 ELSE 0]

=============================================================================
