------------------------- MODULE SingleCoordinator -------------------------
(***************************************************************************)
(* The deployment in which clients of a key talk to one node, all nodes    *)
(* list all nodes as Active, and nobody deletes (KeepingSpec).  Clocks are *)
(* arbitrary: they may be skewed, set back, or stand still between two     *)
(* writes.                                                                 *)
(***************************************************************************)
EXTENDS ReplicatedStore

CONSTANT Leader  \* the node clients talk to

ASSUME LeaderAssumption ==
    /\ Leader \in Node
    /\ Coordinators = {Leader}
    /\ Views = {Node}

\* The last write that replaced the whole body, and the patches after it.
Current == {i \in Writes :
               \A j \in Writes : log[j].op # "patch" => j <= i}

\* No acknowledged write is lost at the node that took it: its record always
\* holds the last full write and every later patch.  The node's own late PUTs
\* (put_value also sends the record to its own address) and read repairs come
\* back to it and must not take it back in time, whatever its clock does.
AckedWritesKept ==
    IF Writes = {}
    THEN store[Leader] = None
    ELSE /\ store[Leader] # None
         /\ store[Leader].value = Current

-----------------------------------------------------------------------------
(* The abstract specification that the deployment implements.              *)

\* The body after write i: the last full write up to i, and the patches since.
BodyAt(i) ==
    {j \in Writes :
        /\ j <= i
        /\ \A k \in Writes : (k <= i /\ log[k].op # "patch") => k <= j}

\* What node n holds, without the ways in which it is compared.
CopyOf(n) ==
    IF store[n] = None THEN [at |-> 0, body |-> {}]
    ELSE [at |-> store[n].id, body |-> store[n].value]

Abstract == INSTANCE PrimaryCopy WITH
    requests <- Len(log),
    history <- [i \in Writes |-> BodyAt(i)],
    copy <- [n \in Node |-> CopyOf(n)]

\* Every replica holds a state of the one history that the Leader makes, and
\* moves only forward in it, through retries, late requests and read repair.
ImplementsPrimaryCopy == Abstract!Spec

-----------------------------------------------------------------------------
(* The inductive invariant behind AckedWritesKept and QuiescentConverged.  *)

\* Version v is no newer than top: it is top, or is older than top both in the
\* order of writes and in the Leader's clock entry, the only entry in use.
Behind(v, top) ==
    /\ top # None
    /\ \A m \in Node \ {Leader} : v.vector_clock[m] = 0
    /\ \/ v = top
       \/ /\ v.id < top.id
          /\ v.vector_clock[Leader] < top.vector_clock[Leader]

\* The Leader's version is the newest of what replicas hold, tasks carry and
\* GETs have collected.
LeaderNewest ==
    /\ \A n \in Node : store[n] # None => Behind(store[n], store[Leader])
    /\ \A t \in tasks : Behind(t.ver, store[Leader])
    /\ \A n \in Node : reads[n] # None =>
          \A m \in Holders(reads[n]) :
              Behind(reads[n].resp[m], store[Leader])

\* The Leader holds what was written last.
LeaderCurrent ==
    /\ Writes = {} <=> store[Leader] = None
    /\ store[Leader] # None => store[Leader].value = Current

\* No removal is under way, a write's tasks carry what it wrote, and only the
\* tasks of GETs carry anything else.
TasksCarryWrites ==
    /\ deletes = {}
    /\ \A t \in tasks :
          /\ t.ver # None
          /\ t.req \in DOMAIN log
          /\ log[t.req].op # "get" => t.ver.id = t.req
    /\ \A n \in Node : reads[n] # None =>
          reads[n].req \in DOMAIN log /\ log[reads[n].req].op = "get"

\* Some task of the write that made version v still has to reach node n.
InFlight(v, n) ==
    \E t \in tasks : t.to = n /\ t.ver = v /\ log[t.req].op # "get"

\* A replica that lacks the Leader's version is still being sent it.
Covered ==
    lost \/ \A n \in Node : \/ store[n] = store[Leader]
                            \/ InFlight(store[Leader], n)

LeaderInv ==
    LeaderNewest /\ LeaderCurrent /\ TasksCarryWrites /\ Covered

-----------------------------------------------------------------------------
(* The inductive invariant behind the refinement.                          *)

\* The versions that replicas hold, tasks carry or GETs have collected.
Known ==
    ({store[n] : n \in Node} \cup {t.ver : t \in tasks} \cup
        UNION {{reads[n].resp[m] : m \in Holders(reads[n])} :
                  n \in {k \in Node : reads[k] # None}}) \ {None}

\* The order of writes and the Leader's clock entry agree on two versions.
Ordered(v, w) ==
    \/ v = w
    \/ v.id < w.id /\ v.vector_clock[Leader] < w.vector_clock[Leader]
    \/ w.id < v.id /\ w.vector_clock[Leader] < v.vector_clock[Leader]

\* Every version is one state of the Leader's history, and any two of them can
\* be told apart, and put in the right order, by their clocks alone.
HistoryInv ==
    /\ \A v \in Known : v.id \in Writes /\ v.value = BodyAt(v.id)
    /\ \A v, w \in Known : Ordered(v, w)

-----------------------------------------------------------------------------
(* The inductive invariants behind CausalClocks, NoRollback and ReadFresh. *)

\* A write happened after exactly the writes before it, the Leader holds the
\* last one, and a replica knows of exactly the writes up to the version it
\* holds.
SeenInv ==
    /\ \A i \in Writes : i <= CopyOf(Leader).at
    /\ \A i \in Writes : log[i].past = {j \in Writes : j < i}
    /\ \A n \in Node : seen[n] = {j \in Writes : j <= CopyOf(n).at}

\* The Leader's own answer to a GET is there when the GET ends, and no older
\* than what the Leader held when the GET began.
FloorInv ==
    \A n \in Node : reads[n] # None =>
        /\ n = Leader
        /\ reads[n].resp[Leader] # Silent
        /\ reads[n].floor # None =>
              /\ Behind(reads[n].floor, store[Leader])
              /\ reads[n].resp[Leader] # Pending =>
                    /\ reads[n].resp[Leader] # None
                    /\ Behind(reads[n].floor, reads[n].resp[Leader])

=============================================================================
