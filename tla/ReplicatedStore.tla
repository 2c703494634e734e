-------------------------- MODULE ReplicatedStore --------------------------
(***************************************************************************)
(* One key of the replicated store: the HTTP handlers of                   *)
(* src/storage/engine.rs and the record handlers of src/storage/admin.rs,  *)
(* with the replication tasks they spawn.  Keys do not interact (a handler *)
(* touches one key of one table), so one key is enough.                    *)
(*                                                                         *)
(* A write handler updates the local map in one step (the table's shard is *)
(* locked from the ownership check to the insert) and then spawns one task *)
(* per target.  How long the handler waits for permits, and the task for   *)
(* the network, shows as the task being delivered later.  DELETE checks    *)
(* the owner in one step and removes in another; GET collects one answer   *)
(* per node, each read at its own moment.                                  *)
(***************************************************************************)
EXTENDS VersionedValue

CONSTANTS
    Coordinators,  \* the nodes clients talk to
    Views,         \* the sets of nodes that a node may list as Active
    Retries,       \* attempts of a replication task (3 in the code)
    Gap,           \* real time that may pass before a write, in ms
    Skew,          \* what a node's clock may read ahead of real time, in ms
    Budget,        \* how many requests of each kind clients send (a bound)
    MaxRequests,   \* how many requests clients send in all (a bound)
    Faults,        \* how many replication attempts go wrong (a bound)
    SecretSet,     \* whether CLUSTER_SECRET is in the environment
    Pending,       \* a node asked by a GET that has not answered yet
    Silent         \* a node that was not asked, or did not answer in 3 s

VARIABLES
    store,    \* store[n]: the version node n holds, or None
    tasks,    \* replication requests under way
    reads,    \* reads[n]: the GET that node n coordinates, or None
    deletes,  \* DELETEs that passed the owner check and have yet to remove
    now,      \* real time
    log,      \* ghost: the accepted client requests, in order
    seen,     \* ghost: seen[n], the writes that node n knows of
    failures, \* ghost: the attempts that have gone wrong
    lost      \* ghost: some replication request was given up

vars == <<store, tasks, reads, deletes, now, log, seen, failures, lost>>

Ops == {"put", "patch", "delete", "get", "adminPut", "adminDelete"}

Request == [op : Ops, node : Node, by : Owner, past : SUBSET Nat]

\* ver = None asks for removal.  left counts the attempts of the sending task,
\* the current one included; left = 0 is a request whose sender timed out and
\* stopped waiting while the request was still on its way.
Task == [ver : Version \cup {None}, req : Nat, to : Node, left : 0 .. Retries]

Read == [by : User, floor : Version \cup {None},
         resp : [Node -> Version \cup {None, Pending, Silent}], req : Nat]

ASSUME ConstantsAssumption ==
    /\ Coordinators \subseteq Node
    /\ Views \subseteq SUBSET Node
    /\ Retries \in Nat \ {0}
    /\ Gap \subseteq Nat
    /\ Skew \subseteq Nat
    /\ Budget \in [Ops -> Nat]
    /\ MaxRequests \in Nat
    /\ Faults \in Nat
    /\ SecretSet \in BOOLEAN
    /\ Pending \notin Version \cup {None, Silent}
    /\ Silent \notin Version \cup {None}

-----------------------------------------------------------------------------
(* Shared parts of the handlers.                                           *)

\* The identity of the next accepted request.
NextId == Len(log) + 1

\* The bounds on what clients send.
MaySend(op) ==
    /\ Len(log) < MaxRequests
    /\ Cardinality({i \in DOMAIN log : log[i].op = op}) < Budget[op]

Accept(op, n, by) ==
    log' = Append(log, [op |-> op, node |-> n, by |-> by, past |-> seen[n]])

\* One spawned replication task per target.
Spawn(ver, targets, left) ==
    {[ver |-> ver, req |-> NextId, to |-> m, left |-> left] : m \in targets}

\* current_timestamp() when g ms have passed since the previous write, at a
\* node whose clock is ahead by k ms.  Clocks are not synchronised and may be
\* set back, and two writes may fall into the same millisecond.
current_timestamp(g, k) == now + g + k

\* Seeded fault: the ownership check is skipped.
MayChangeAnyone(n, u) == TRUE

\* The ownership check of put_value, patch_value and delete_value.
MayChange(n, u) == store[n].owner = u

\* The local update of a write handler and the replication of its result.
Write(op, n, by, ver, targets, left) ==
    /\ store' = [store EXCEPT ![n] = ver]
    /\ tasks' = tasks \cup Spawn(ver, targets, left)
    /\ Accept(op, n, by)
    /\ seen'  = [seen EXCEPT ![n] = @ \cup {NextId}]
    /\ UNCHANGED <<reads, deletes, failures, lost>>

-----------------------------------------------------------------------------
(* Client writes.                                                          *)

\* put_value.  Its loop over the targets does not skip the node itself.
Put(n, u, view) ==
    /\ MaySend("put")
    /\ store[n] # None => MayChange(n, u)
    /\ \E g \in Gap, k \in Skew :
          LET ts  == current_timestamp(g, k)
              ver == IF store[n] = None
                     THEN new(NextId, u, n, ts)
                     ELSE update(store[n], NextId, n, ts)
          IN  /\ now' = now + g
              /\ Write("put", n, u, ver, view, Retries)

\* patch_value: the record must exist and belong to the user.
Patch(n, u, view) ==
    /\ MaySend("patch")
    /\ store[n] # None
    /\ MayChange(n, u)
    /\ \E g \in Gap, k \in Skew :
          LET ver == patch(store[n], NextId, n, current_timestamp(g, k))
          IN  /\ now' = now + g
              /\ Write("patch", n, u, ver, view \ {n}, Retries)

\* admin_put_record and replicate_admin_change: no owner check, one attempt.
AdminPut(n, view) ==
    /\ MaySend("adminPut")
    /\ \E g \in Gap, k \in Skew :
          LET ts  == current_timestamp(g, k)
              ver == IF store[n] = None
                     THEN new(NextId, Admin, n, ts)
                     ELSE update(store[n], NextId, n, ts)
          IN  /\ now' = now + g
              /\ Write("adminPut", n, Admin, ver, view \ {n}, 1)

-----------------------------------------------------------------------------
(* Client deletes.                                                         *)

\* delete_value up to the owner check, which releases the record.
DeleteCheck(n, u) ==
    /\ MaySend("delete")
    /\ store[n] # None
    /\ MayChange(n, u)
    /\ Accept("delete", n, u)
    /\ deletes' = deletes \cup {NextId}
    /\ UNCHANGED <<store, tasks, reads, now, seen, failures, lost>>

\* delete_value from the removal on: whatever the key now holds goes.
DeleteRemove(d, view) ==
    LET n == log[d].node
    IN  /\ store' = [store EXCEPT ![n] = None]
        /\ tasks' = tasks \cup
              {[ver |-> None, req |-> d, to |-> m, left |-> Retries] :
                  m \in view \ {n}}
        /\ deletes' = deletes \ {d}
        /\ UNCHANGED <<reads, now, log, seen, failures, lost>>

\* admin_delete_record: no owner check, one attempt.
AdminDelete(n, view) ==
    /\ MaySend("adminDelete")
    /\ store' = [store EXCEPT ![n] = None]
    /\ tasks' = tasks \cup Spawn(None, view \ {n}, 1)
    /\ Accept("adminDelete", n, Admin)
    /\ UNCHANGED <<reads, deletes, now, seen, failures, lost>>

-----------------------------------------------------------------------------
(* Replication tasks and the internal handlers they call.                  *)

\* put_value_internal takes a request that carries the receiver's secret.
\* replicate_admin_change falls back to "" where every other sender, and the
\* receiver, falls back to "default_secret".
SecretMatches(t) ==
    (log[t.req].op = "adminPut" /\ t.ver # None) => SecretSet

\* put_value_internal, or the internal branch of delete_value.
Received(t) == IF t.ver = None THEN None ELSE Merge(store[t.to], t.ver)

Learn(t) == IF t.ver = None THEN {} ELSE {t.ver.id} \cup log[t.ver.id].past

\* Seeded fault: the retry counter is not tested.
NextAttemptAlways(t) == {[t EXCEPT !.left = @ - 1]}

\* The task's next attempt, if it has one.
NextAttempt(t) == IF t.left > 1 THEN {[t EXCEPT !.left = @ - 1]} ELSE {}

\* The receiver takes the request.
Handle(t) ==
    /\ SecretMatches(t)
    /\ store' = [store EXCEPT ![t.to] = Received(t)]
    /\ seen'  = [seen EXCEPT ![t.to] = @ \cup Learn(t)]

\* The receiver handles the request and its answer ends the task.
Deliver(t) ==
    /\ Handle(t)
    /\ tasks' = tasks \ {t}
    /\ UNCHANGED <<reads, deletes, now, log, failures, lost>>

\* No request for the same target of the same handler remains.
GivenUp(t, remaining) ==
    /\ log[t.req].op # "get"
    /\ ~\E r \in remaining : r.req = t.req /\ r.to = t.to

\* The receiver answers 401: the attempt has failed without effect.
Refuse(t) ==
    /\ ~SecretMatches(t)
    /\ tasks' = (tasks \ {t}) \cup NextAttempt(t)
    /\ lost' = (lost \/ GivenUp(t, tasks'))
    /\ UNCHANGED <<store, reads, deletes, now, log, seen, failures>>

\* An attempt of a waiting task goes wrong (retries -= 1).
Fault(t) ==
    /\ t.left > 0
    /\ failures < Faults
    /\ failures' = failures + 1

\* The receiver handles the request but the answer is lost or late.
DeliverUnanswered(t) ==
    /\ Fault(t)
    /\ Handle(t)
    /\ tasks' = (tasks \ {t}) \cup NextAttempt(t)
    /\ UNCHANGED <<reads, deletes, now, log, lost>>

\* The request fails or times out.  A request abandoned after the
\* timeout may still reach the receiver later.
Timeout(t) ==
    /\ Fault(t)
    /\ \E stray \in {{}, {[t EXCEPT !.left = 0]}} :
          tasks' = (tasks \ {t}) \cup NextAttempt(t) \cup stray
    /\ lost' = (lost \/ GivenUp(t, tasks'))
    /\ UNCHANGED <<store, reads, deletes, now, log, seen>>

\* An abandoned request never arrives.
Drop(t) ==
    /\ t.left = 0
    /\ tasks' = tasks \ {t}
    /\ lost' = (lost \/ GivenUp(t, tasks'))
    /\ UNCHANGED <<store, reads, deletes, now, log, seen, failures>>

-----------------------------------------------------------------------------
(* Client reads with read repair.                                          *)

\* get_value up to the requests to all active nodes.  The model lets a node
\* coordinate one GET at a time.
GetStart(n, u, view) ==
    /\ MaySend("get")
    /\ reads[n] = None
    /\ reads' = [reads EXCEPT ![n] =
          [by |-> u, floor |-> store[n], req |-> NextId,
           resp |-> [m \in Node |-> IF m \in view THEN Pending ELSE Silent]]]
    /\ Accept("get", n, u)
    /\ UNCHANGED <<store, tasks, deletes, now, seen, failures, lost>>

\* Node m reads its map: the internal branch of get_value, or the local read.
GetAnswer(n, m) ==
    /\ reads[n] # None
    /\ reads[n].resp[m] = Pending
    /\ reads' = [reads EXCEPT ![n].resp[m] = store[m]]
    /\ UNCHANGED <<store, tasks, deletes, now, log, seen, failures, lost>>

\* A request error or the 3 s timeout: the node is left out of the result.
GetError(n, m) ==
    /\ m # n
    /\ reads[n] # None
    /\ reads[n].resp[m] = Pending
    /\ reads' = [reads EXCEPT ![n].resp[m] = Silent]
    /\ UNCHANGED <<store, tasks, deletes, now, log, seen, failures, lost>>

\* The nodes in all_responses.
Answered(r) == {m \in Node : r.resp[m] \notin {Pending, Silent}}

\* The nodes whose answer is in valid_results.
Holders(r) == {m \in Answered(r) : r.resp[m] # None}

\* Seeded fault: the GET waits for a successful answer of every node.
AllSucceeded(r) == \A m \in Node : r.resp[m] \notin {Pending, Silent}

\* join_all returns when every node asked has answered or failed.
AllAnswered(r) == \A m \in Node : r.resp[m] # Pending

\* What max_by may select from the answers of a read.
Outcomes(r) == LatestOf(r.resp, Holders(r))

\* The answers of a read that the repair loop sends `latest` to.
ToRepair(r, latest) == {m \in Answered(r) : NeedsRepair(r.resp[m], latest)}

\* get_value from join_all on: 404 when no replica has the key; otherwise one
\* repair task, of one attempt, per outdated answer.  Repairs do not depend on
\* whether the user turns out to own the record.
GetFinish(n) ==
    /\ reads[n] # None
    /\ AllAnswered(reads[n])
    /\ \/ /\ Holders(reads[n]) = {}
          /\ tasks' = tasks
       \/ \E m \in Holders(reads[n]) :
             LET latest == reads[n].resp[m]
             IN  /\ latest \in Outcomes(reads[n])
                 /\ tasks' = tasks \cup
                       {[ver |-> latest, req |-> reads[n].req, to |-> k,
                         left |-> 1] : k \in ToRepair(reads[n], latest)}
    /\ reads' = [reads EXCEPT ![n] = None]
    /\ UNCHANGED <<store, deletes, now, log, seen, failures, lost>>

-----------------------------------------------------------------------------

Init ==
    /\ store = [n \in Node |-> None]
    /\ tasks = {}
    /\ reads = [n \in Node |-> None]
    /\ deletes = {}
    /\ now = 0
    /\ log = <<>>
    /\ seen = [n \in Node |-> {}]
    /\ failures = 0
    /\ lost = FALSE

\* A client request that removes nothing arrives at a node.
ClientStep ==
    \E n \in Coordinators, view \in Views :
        \/ \E u \in User : \/ Put(n, u, view)
                           \/ Patch(n, u, view)
                           \/ GetStart(n, u, view)
        \/ AdminPut(n, view)

\* A client request for removal arrives at a node.
ClientDelete ==
    \E n \in Coordinators : \/ \E u \in User : DeleteCheck(n, u)
                            \/ \E view \in Views : AdminDelete(n, view)

TaskStep ==
    \E t \in tasks : \/ Deliver(t)
                     \/ Refuse(t)
                     \/ DeliverUnanswered(t)
                     \/ Timeout(t)
                     \/ Drop(t)

ReadStep ==
    \E n \in Node : \/ \E m \in Node : GetAnswer(n, m) \/ GetError(n, m)
                    \/ GetFinish(n)

DeleteStep == \E d \in deletes, view \in Views : DeleteRemove(d, view)

KeepingNext == ClientStep \/ TaskStep \/ ReadStep

Next == KeepingNext \/ ClientDelete \/ DeleteStep

Spec == Init /\ [][Next]_vars

\* The store of a key that nobody removes.
KeepingSpec == Init /\ [][KeepingNext]_vars

\* Handlers and tasks the runtime has started keep being scheduled, and every
\* request ends by an answer or by the HTTP client's 3 s timeout.  Nothing
\* makes clients send requests, nor the network deliver one.
Fairness == WF_vars(TaskStep) /\ WF_vars(ReadStep)

FairKeepingSpec == KeepingSpec /\ Fairness

-----------------------------------------------------------------------------
(* Properties.                                                             *)

TypeOK ==
    /\ store \in [Node -> Version \cup {None}]
    /\ tasks \subseteq Task
    /\ reads \in [Node -> Read \cup {None}]
    /\ deletes \subseteq DOMAIN log
    /\ now \in Nat
    /\ log \in Seq(Request)
    /\ seen \in [Node -> SUBSET Nat]
    /\ failures \in Nat
    /\ lost \in BOOLEAN

\* The versions that replicas hold or that replication may still deliver.
Live == ({store[n] : n \in Node} \cup {t.ver : t \in tasks}) \ {None}

\* The versions that the GETs under way have collected.
Collected ==
    UNION {{reads[n].resp[m] : m \in Holders(reads[n])} :
              n \in {k \in Node : reads[k] # None}}

\* The accepted requests that write the record.
Writes == {i \in DOMAIN log : log[i].op \in {"put", "patch", "adminPut"}}

\* Every write folded into a record was made by the record's owner or by the
\* administrator.  Only the node that takes a request checks the owner
\* (put_value, patch_value); the merge of put_value_internal and read repair
\* check nothing and must not let one user's fields into another's record.
OwnerWrote ==
    \A v \in Live : \A i \in v.value \cup {v.id} :
        log[i].by \in {v.owner, Admin}

\* The writes of version v are in log l, made by its owner or by the
\* administrator.
Provenance(v, l) ==
    /\ v.value \cup {v.id} \subseteq DOMAIN l
    /\ \A i \in v.value \cup {v.id} : l[i].by \in {v.owner, Admin}

\* OwnerWrote made inductive: it also covers the answers that GETs have
\* collected, which read repair turns into tasks.
OwnerInv ==
    /\ \A n \in Node : store[n] # None => Provenance(store[n], log)
    /\ \A t \in tasks : t.ver # None => Provenance(t.ver, log)
    /\ \A n \in Node : reads[n] # None =>
          \A m \in Holders(reads[n]) : Provenance(reads[n].resp[m], log)

\* A replica that exchanges one record for another takes one that supersedes
\* it.  A local write has to bring this about through the vector clock, since
\* the machine's clock may have been set back; a delivery through the merge.
ReplicaAdvances ==
    [][\A n \in Node :
          (store[n] # None /\ store'[n] # None /\ store'[n] # store[n])
              => Supersedes(store'[n], store[n])]_vars

\* A vector clock that dominates another comes from a write that happened
\* after the other one: otherwise put_value_internal throws away a concurrent
\* write as if it had been seen.
CausalClocks ==
    \A a, b \in Live : Dominates(a, b) => b.id \in log[a.id].past

\* Two versions with the same vector clock are the same version: replicas
\* could not tell them apart by causality.
ClockIdentifies ==
    \A a, b \in Live : a.vector_clock = b.vector_clock => a = b

\* A replica never installs a version it has known before: retries, abandoned
\* requests that arrive late and read repairs never undo a newer write.
NoRollback ==
    [][\A n \in Node :
          (store'[n] # store[n] /\ store'[n] # None)
              => store'[n].id \notin seen[n]]_vars

\* No handler and no task is under way.
Quiescent ==
    tasks = {} /\ deletes = {} /\ \A n \in Node : reads[n] = None

\* When all replication has ended and no request was given up, the replicas
\* agree.
QuiescentConverged ==
    Quiescent /\ ~lost => \A m, n \in Node : store[m] = store[n]

FinishedReads == {r \in {reads[n] : n \in Node} \ {None} : AllAnswered(r)}

\* A GET returns nothing older than what its own node held when it began, and
\* the order in which the ring lists the replicas does not matter to it.
ReadFresh ==
    \A r \in FinishedReads :
        /\ r.floor # None => Holders(r) # {}
        /\ \A v, w \in Outcomes(r) : v = w
        /\ \A v \in Outcomes(r) : r.floor # None => ~Supersedes(r.floor, v)

\* A replica that answered a GET with an older version than the one returned,
\* and still holds it, is repaired or is being sent that version anyway.
StaleRepaired ==
    \A r \in FinishedReads : \A v \in Outcomes(r) : \A m \in Holders(r) :
        (Supersedes(v, r.resp[m]) /\ store[m] = r.resp[m]) =>
            \/ m \in ToRepair(r, v)
            \/ \E t \in tasks : t.to = m /\ t.ver = v

\* A user's DELETE removes only a record that the user owns: the record
\* checked is the record removed.
OnlyOwnerRemoves ==
    [][\A d \in deletes \ deletes' :
          LET held == store[log[d].node]
          IN  held # None => held.owner = log[d].by]_vars

\* Once clients stop, every handler and task ends.
EventuallyQuiet == <>[]Quiescent

\* Eventual consistency: the replicas agree for good, unless a replication
\* request was given up.
EventuallyConverged == <>[](lost \/ \A m, n \in Node : store[m] = store[n])

=============================================================================
