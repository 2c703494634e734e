-------------------------- MODULE RestartingStore --------------------------
(***************************************************************************)
(* ReplicatedStore together with what main and the cold storage do when a  *)
(* node is killed and started again: the node comes back with the record   *)
(* of its last save, merges what it fetches from the node it joins, and    *)
(* only then serves requests.  ColdStorage justifies the one-step save: a  *)
(* full save is read back as it was written if no other key has the same   *)
(* name but for blanks, and one that is cut short may leave nothing of the *)
(* key.                                                                    *)
(***************************************************************************)
EXTENDS ReplicatedStore

CONSTANT MaxCrashes  \* how many times nodes are killed (a bound)

VARIABLES
    disk,     \* disk[n]: the record in the last save of node n, or None
    phase,    \* phase[n]: "up", "down", or "joining"
    fetched,  \* fetched[n]: what a joining node got from its contact, or None
    reborn    \* ghost: one <<node, requests accepted before>> per restart

restartVars == <<disk, phase, fetched, reborn>>
allVars == <<vars, restartVars>>

Serving(n) == phase[n] = "up"

-----------------------------------------------------------------------------
(* The store, in which nodes that are down do nothing.                     *)

\* A client request arrives at a node that serves.
ServingClient ==
    \E n \in Coordinators, u \in User :
        /\ Serving(n)
        /\ \/ DeleteCheck(n, u)
           \/ \E view \in Views : \/ Put(n, u, view)
                                  \/ Patch(n, u, view)
                                  \/ GetStart(n, u, view)
                                  \/ AdminPut(n, view)
                                  \/ AdminDelete(n, view)

\* A request to a node that is down: the connection is refused.
Unreachable(t) ==
    /\ ~Serving(t.to)
    /\ t.left > 0
    /\ tasks' = (tasks \ {t}) \cup NextAttempt(t)
    /\ lost' = (lost \/ GivenUp(t, tasks'))
    /\ UNCHANGED <<store, reads, deletes, now, log, seen, failures>>

ServingTask ==
    \E t \in tasks :
        \/ Serving(t.to) /\ Deliver(t)
        \/ Serving(t.to) /\ Refuse(t)
        \/ Serving(t.to) /\ DeliverUnanswered(t)
        \/ Timeout(t)
        \/ Unreachable(t)
        \/ Drop(t)

ServingRead ==
    \E n \in Node : \/ \E m \in Node : Serving(m) /\ GetAnswer(n, m)
                    \/ \E m \in Node : GetError(n, m)
                    \/ GetFinish(n)

ServingStep ==
    /\ ServingClient \/ ServingTask \/ ServingRead \/ DeleteStep
    /\ UNCHANGED restartVars

-----------------------------------------------------------------------------
(* Saving, dying and coming back.                                          *)

\* A full save of the key's table.
Save(n) ==
    /\ Serving(n)
    /\ disk[n] # store[n]
    /\ disk' = [disk EXCEPT ![n] = store[n]]
    /\ UNCHANGED <<vars, phase, fetched, reborn>>

\* The requests that node n is sending.
Outgoing(n) == {t \in tasks : log[t.req].node = n /\ t.left > 0}

\* A kill takes the memory with it: the store, the handlers and the replication
\* tasks, some of whose requests are already on their way.  A save under way
\* leaves an empty file.
Crash(n) ==
    /\ Serving(n)
    /\ Len(reborn) < MaxCrashes
    /\ phase' = [phase EXCEPT ![n] = "down"]
    /\ \E kept \in {disk[n], None} : disk' = [disk EXCEPT ![n] = kept]
    /\ store' = [store EXCEPT ![n] = None]
    /\ seen' = [seen EXCEPT ![n] = {}]
    /\ reads' = [reads EXCEPT ![n] = None]
    /\ deletes' = {d \in deletes : log[d].node # n}
    /\ \E sent \in SUBSET Outgoing(n) :
          tasks' = (tasks \ Outgoing(n))
                       \cup {[t EXCEPT !.left = 0] : t \in sent}
    /\ lost' = (lost \/ Outgoing(n) # {})
    /\ reborn' = Append(reborn, <<n, Len(log)>>)
    /\ UNCHANGED <<now, log, failures, fetched>>

\* What node m answers a node that joins.  get_global_store wants the secret it
\* falls back to itself, and main sends an empty one when CLUSTER_SECRET is not
\* set: the answer is then 401.
get_global_store(m) == IF SecretSet THEN store[m] ELSE None

\* main loads the save and asks the node it is to join, if it was given one,
\* for its store.  It goes on without when that fails.
Fetch(n) ==
    /\ phase[n] = "down"
    /\ phase' = [phase EXCEPT ![n] = "joining"]
    /\ \/ fetched' = [fetched EXCEPT ![n] = None]
       \/ \E contact \in Node \ {n} :
             /\ Serving(contact)
             /\ fetched' = [fetched EXCEPT ![n] = get_global_store(contact)]
    /\ UNCHANGED <<vars, disk, reborn>>

\* merge_global_store and merge_table_state.
Recovered(saved, remote) == IF remote = None THEN saved ELSE Merge(saved, remote)

\* The writes that a node knows of through a record.
KnownBy(v) == IF v = None THEN {} ELSE {v.id} \cup log[v.id].past

\* The merge is done and the server accepts requests.  When loading the save
\* has failed, main goes on with an empty store and the file stays as it is.
Serve(n) ==
    /\ phase[n] = "joining"
    /\ phase' = [phase EXCEPT ![n] = "up"]
    /\ \E saved \in {disk[n], None} :
          /\ store' = [store EXCEPT ![n] = Recovered(saved, fetched[n])]
          /\ seen' = [seen EXCEPT ![n] = KnownBy(saved) \cup KnownBy(fetched[n])]
    /\ fetched' = [fetched EXCEPT ![n] = None]
    /\ UNCHANGED <<tasks, reads, deletes, now, log, failures, lost, disk,
                   reborn>>

-----------------------------------------------------------------------------

RestartInit ==
    /\ Init
    /\ disk = [n \in Node |-> None]
    /\ phase = [n \in Node |-> "up"]
    /\ fetched = [n \in Node |-> None]
    /\ reborn = <<>>

RestartNext ==
    \/ ServingStep
    \/ \E n \in Node : Save(n) \/ Crash(n) \/ Fetch(n) \/ Serve(n)

RestartSpec == RestartInit /\ [][RestartNext]_allVars

-----------------------------------------------------------------------------
(* Properties.                                                             *)

RestartTypeOK ==
    /\ disk \in [Node -> Version \cup {None}]
    /\ phase \in [Node -> {"up", "down", "joining"}]
    /\ fetched \in [Node -> Version \cup {None}]
    /\ reborn \in Seq(Node \X Nat)

\* OwnerInv together with what the way around memory adds to it: a save and
\* what a joining node has fetched are records of the log, too, and a node that
\* does not serve has been killed and holds nothing in memory.
RecoveryInv ==
    /\ TypeOK /\ OwnerInv /\ RestartTypeOK
    /\ \A n \in Node : disk[n] # None => Provenance(disk[n], log)
    /\ \A n \in Node : fetched[n] # None => Provenance(fetched[n], log)
    /\ \A n \in Node : ~Serving(n) =>
          store[n] = None /\ \E r \in DOMAIN reborn : reborn[r][1] = n
    /\ \A r \in DOMAIN reborn : reborn[r][2] <= Len(log)

\* The clock of version a reaches that of version b in every entry.
Covers(a, b) == \A m \in Node : a.vector_clock[m] >= b.vector_clock[m]

\* Some request for removal has been accepted.
Removed == \E d \in DOMAIN log : log[d].op \in {"delete", "adminDelete"}

\* Node n was killed before request i was accepted.
RebornBefore(n, i) ==
    \E r \in DOMAIN reborn : reborn[r][1] = n /\ reborn[r][2] < i

\* All requests so far were sent to one node.
OneCoordinator == \A i, j \in DOMAIN log : log[i].node = log[j].node

\* The clock of an earlier write matches or outranks that of a later one, so
\* that merges and read repair throw away the later write, only after a removal
\* or a restart.  update and patch count on from the entry found in the store,
\* and a node that comes back from an older save counts from there.  While all
\* clients use one node it takes a restart of that very node: a replica may
\* forget and bring back what it likes.  With two, a restarted node that is
\* asked next can also set back the entry of the one that kept its memory.
\* (With three nodes that take requests the merges alone may do it.)
OutrankedOnlyAfterRestart ==
    \A a, b \in Live : (a.id < b.id /\ Covers(a, b)) =>
        \/ Removed
        \/ \E n \in Node : /\ RebornBefore(n, b.id)
                           /\ OneCoordinator => n = log[b.id].node

\* Every version in memory, in a save, or on its way.
Held ==
    (Live \cup Collected \cup {disk[n] : n \in Node} \cup {fetched[n] : n \in Node})
        \ {None}

\* OutrankedOnlyAfterRestart made inductive for a key whose clients use node c
\* only.  c's entry is the only one in use; until a removal it grows with every
\* write that c makes with its memory kept, over all versions that exist.
EntryInv(c) ==
    /\ \A v \in Held : /\ log[v.id].node = c
                       /\ \A m \in Node \ {c} : v.vector_clock[m] = 0
    /\ (deletes # {} \/ \E t \in tasks : t.ver = None) => Removed
    /\ ~Removed => \A v, w \in Held :
          (v.id < w.id /\ ~RebornBefore(c, w.id)) =>
              v.vector_clock[c] < w.vector_clock[c]
    /\ ~Removed /\ ~RebornBefore(c, NextId) => \A v \in Held :
          /\ store[c] # None
          /\ v.vector_clock[c] <= store[c].vector_clock[c]

=============================================================================
