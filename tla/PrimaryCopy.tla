---------------------------- MODULE PrimaryCopy ----------------------------
(***************************************************************************)
(* What the store promises for a key that is written at one node and never *)
(* removed: there is one history of bodies, the node that takes the writes *)
(* always holds its last body, and every other node holds a body of the    *)
(* history and only ever moves forward in it.                              *)
(***************************************************************************)
EXTENDS Naturals

CONSTANTS
    Node,    \* the replicas
    Leader   \* the one that takes the writes

VARIABLES
    requests,  \* how many requests there were, reads included
    history,   \* history[i]: the body that write i, the i-th request, made
    copy       \* copy[n]: the body that node n holds, and the write it is of

vars == <<requests, history, copy>>

Nothing == [at |-> 0, body |-> {}]

Init ==
    /\ requests = 0
    /\ history = [i \in {} |-> {}]
    /\ copy = [n \in Node |-> Nothing]

\* A full write makes a body of its own; a patch adds to the last one.
NewBodies(i) == {{i}, copy[Leader].body \cup {i}}

Write ==
    /\ requests' = requests + 1
    /\ \E b \in NewBodies(requests') :
          /\ history' = [i \in DOMAIN history \cup {requests'} |->
                            IF i = requests' THEN b ELSE history[i]]
          /\ copy' = [copy EXCEPT ![Leader] = [at |-> requests', body |-> b]]

Read ==
    /\ requests' = requests + 1
    /\ UNCHANGED <<history, copy>>

\* A node takes over a later body than the one it holds.
CatchUp(n) ==
    /\ \E i \in DOMAIN history :
          /\ i > copy[n].at
          /\ copy' = [copy EXCEPT ![n] = [at |-> i, body |-> history[i]]]
    /\ UNCHANGED <<requests, history>>

Next == Write \/ Read \/ \E n \in Node : CatchUp(n)

Spec == Init /\ [][Next]_vars

=============================================================================
