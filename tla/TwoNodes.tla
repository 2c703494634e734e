------------------------------ MODULE TwoNodes ------------------------------
(***************************************************************************)
(* The deployment on two nodes that both take requests for a key, list     *)
(* each other as Active, and have clocks that agree and tell any two       *)
(* writes apart.  Nobody deletes (KeepingSpec).  What makes it work, and   *)
(* is lost with a third node, is the order in which the two entries of a   *)
(* clock grow although merges keep one clock and drop the other.           *)
(***************************************************************************)
EXTENDS ReplicatedStore

Deployed ==
    /\ \A n \in Node : \E m \in Node : m # n /\ Node = {n, m}
    /\ Views = {Node}
    /\ \A g \in Gap : g > 0
    /\ \A j, k \in Skew : j = k

Other(n) == CHOOSE m \in Node : m # n

\* The node that took the write that made version v.
Maker(v) == log[v.id].node

\* The write whose version node n holds, and n's own clock entry in it.
At(n) == IF store[n] = None THEN 0 ELSE store[n].id
Own(n) == IF store[n] = None THEN 0 ELSE store[n].vector_clock[n]

\* The versions that are held, on their way or collected, or with which a GET
\* began.
Kept ==
    (Live \cup Collected \cup
        {reads[n].floor : n \in {k \in Node : reads[k] # None}}) \ {None}

-----------------------------------------------------------------------------
(* The inductive invariant behind the properties of this deployment.       *)

\* The order of writes identifies versions and is that of their timestamps,
\* and no node falls back behind its own writes.
PairTimes ==
    /\ \A v \in Kept : v.id \in Writes
    /\ \A v, w \in Kept : v.id = w.id => v = w
    /\ \A v, w \in Kept : v.id < w.id => v.timestamp < w.timestamp
    /\ \A v \in Kept : \A k \in Skew : v.timestamp <= now + k
    /\ \A i \in Writes : i <= At(log[i].node)

\* v comes before w in the clocks' order.  Of the versions of one node the
\* entry of the other node grows, and only if that node has written in between,
\* or stays and the node's own entry grows.  A version of the other node has
\* more in its maker's entry than any version before it.
PairBefore(v, w) ==
    LET n == Maker(v)
        m == Other(n)
        cv == v.vector_clock
        cw == w.vector_clock
    IN  IF Maker(w) = n
        THEN /\ cv[m] < cw[m] \/ (cv[m] = cw[m] /\ cv[n] < cw[n])
             /\ cv[m] < cw[m] => \E i \in Writes : /\ log[i].node = m
                                                   /\ v.id < i /\ i < w.id
        ELSE cv[m] < cw[m]

\* No node is known to have made more than it knows of itself.
PairEntries ==
    /\ \A v, w \in Kept : v.id < w.id => PairBefore(v, w)
    /\ \A v \in Kept :
          /\ v.vector_clock[Maker(v)] > 0
          /\ v.vector_clock[Other(Maker(v))] <= Own(Other(Maker(v)))
    /\ \A n \in Node :
          store[n] # None => store[n].vector_clock[Other(n)] <= Own(Other(n))

\* What a node or a write has seen: its own writes, what it holds, and nothing
\* newer; and an entry that reaches that of an earlier version has seen it.
PairSeen ==
    /\ \A n \in Node : \A i \in seen[n] : i <= At(n)
    /\ \A n \in Node :
          store[n] # None =>
              {store[n].id} \cup log[store[n].id].past \subseteq seen[n]
    /\ \A i \in Writes : i \in seen[log[i].node]
    /\ \A i \in Writes : \A j \in log[i].past : j < i
    /\ \A i, j \in Writes :
          (j < i /\ log[j].node = log[i].node) => j \in log[i].past
    /\ \A v, w \in Kept :
          (v.id < w.id /\ v.vector_clock[Maker(v)] <= w.vector_clock[Maker(v)])
              => v.id \in log[w.id].past

\* The node that runs a GET answers it with what it held when the GET began, or
\* with something newer.
PairReads ==
    \A n \in Node : reads[n] # None =>
        /\ reads[n].req \in DOMAIN log /\ log[reads[n].req].op = "get"
        /\ reads[n].resp[n] # Silent
        /\ reads[n].floor # None =>
              /\ reads[n].floor.id <= At(n)
              /\ reads[n].resp[n] # Pending =>
                    /\ reads[n].resp[n] # None
                    /\ reads[n].floor.id <= reads[n].resp[n].id

\* A node that holds something older than a write is still being sent the
\* write's version, unless a request was given up.
PairCovered ==
    /\ \A t \in tasks : /\ t.ver # None /\ t.req \in DOMAIN log
                        /\ log[t.req].op # "get" => t.ver.id = t.req
    /\ lost \/ \A i \in Writes : \A n \in Node :
                  i <= At(n) \/ \E t \in tasks : t.req = i /\ t.to = n

PairInv == PairTimes /\ PairEntries /\ PairSeen /\ PairReads /\ PairCovered

=============================================================================
