----------------------- MODULE RestartingStoreProofs -----------------------
(***************************************************************************)
(* What kills, saves and restarts leave true of the replicated store, for  *)
(* every cluster, schedule, number of kills and age of the saves.          *)
(***************************************************************************)
EXTENDS RestartingStore, ReplicatedStoreProofs

-----------------------------------------------------------------------------
(* The steps of the store.                                                 *)

\* A step of the nodes that serve is a step of the store, or a request that
\* finds its target down.
LEMMA ServingIsNext ==
    ASSUME ServingStep
    PROVE  /\ Next \/ \E t \in tasks : Unreachable(t)
           /\ UNCHANGED <<disk, phase, fetched, reborn>>
<1>1. UNCHANGED <<disk, phase, fetched, reborn>>
  BY DEF ServingStep, restartVars
<1>2. CASE ServingClient
  <2>1. ClientStep \/ ClientDelete
    BY <1>2 DEF ServingClient, ClientStep, ClientDelete
  <2>2. QED
    BY <1>1, <2>1 DEF Next, KeepingNext
<1>3. CASE ServingTask
  <2>1. TaskStep \/ \E t \in tasks : Unreachable(t)
    BY <1>3 DEF ServingTask, TaskStep
  <2>2. QED
    BY <1>1, <2>1 DEF Next, KeepingNext
<1>4. CASE ServingRead
  <2>1. ReadStep
    BY <1>4 DEF ServingRead, ReadStep
  <2>2. QED
    BY <1>1, <2>1 DEF Next, KeepingNext
<1>5. CASE DeleteStep
  BY <1>1, <1>5 DEF Next
<1>6. QED
  BY <1>2, <1>3, <1>4, <1>5 DEF ServingStep

\* A request to a node that is down leaves the task's next attempt.
LEMMA UnreachableStep ==
    ASSUME TypeOK, OwnerInv, NEW t \in tasks, Unreachable(t)
    PROVE  TypeOK' /\ OwnerInv'
<1>1. t \in Task /\ NextAttempt(t) \subseteq Task
  BY NextAttemptType DEF TypeOK
<1>2. \A r \in NextAttempt(t) : r.ver = t.ver
  BY <1>1 DEF NextAttempt, Task
<1>3. /\ tasks' = (tasks \ {t}) \cup NextAttempt(t)
      /\ lost' \in BOOLEAN
      /\ UNCHANGED <<store, reads, deletes, now, log, seen, failures>>
  BY DEF Unreachable, TypeOK
<1>4. QED
  BY <1>1, <1>2, <1>3 DEF TypeOK, OwnerInv, Holders, Answered

\* A step of the store keeps the log or appends one request, made at a
\* coordinator, to it.
LEMMA LogStep ==
    ASSUME TypeOK, Next \/ \E t \in tasks : Unreachable(t)
    PROVE  \/ log' = log
           \/ \E op \in Ops, n \in Coordinators, by \in Owner : Accept(op, n, by)
<1>1. User \subseteq Owner /\ Admin \in Owner
  BY DEF Owner
<1>2. \A op \in {"put", "patch", "get", "delete", "adminPut", "adminDelete"} :
          op \in Ops
  BY DEF Ops
<1>3. CASE ClientStep
  <2>1. PICK n \in Coordinators, view \in Views :
            \/ \E u \in User : \/ Put(n, u, view)
                               \/ Patch(n, u, view)
                               \/ GetStart(n, u, view)
            \/ AdminPut(n, view)
    BY <1>3 DEF ClientStep
  <2>2. ASSUME NEW u \in User, Put(n, u, view)
        PROVE  Accept("put", n, u)
    BY <2>2 DEF Put, Write
  <2>3. ASSUME NEW u \in User, Patch(n, u, view)
        PROVE  Accept("patch", n, u)
    BY <2>3 DEF Patch, Write
  <2>4. ASSUME NEW u \in User, GetStart(n, u, view)
        PROVE  Accept("get", n, u)
    BY <2>4 DEF GetStart
  <2>5. ASSUME AdminPut(n, view)
        PROVE  Accept("adminPut", n, Admin)
    BY <2>5 DEF AdminPut, Write
  <2>6. QED
    BY <1>1, <1>2, <2>1, <2>2, <2>3, <2>4, <2>5
<1>4. CASE ClientDelete
  <2>1. PICK n \in Coordinators :
            \/ \E u \in User : DeleteCheck(n, u)
            \/ \E view \in Views : AdminDelete(n, view)
    BY <1>4 DEF ClientDelete
  <2>2. ASSUME NEW u \in User, DeleteCheck(n, u)
        PROVE  Accept("delete", n, u)
    BY <2>2 DEF DeleteCheck
  <2>3. ASSUME NEW view \in Views, AdminDelete(n, view)
        PROVE  Accept("adminDelete", n, Admin)
    BY <2>3 DEF AdminDelete
  <2>4. QED
    BY <1>1, <1>2, <2>1, <2>2, <2>3
<1>5. CASE TaskStep
  BY <1>5 DEF TaskStep, Deliver, Refuse, DeliverUnanswered, Timeout, Drop
<1>6. CASE ReadStep
  BY <1>6 DEF ReadStep, GetAnswer, GetError, GetFinish
<1>7. CASE DeleteStep
  BY <1>7 DEF DeleteStep, DeleteRemove
<1>8. CASE \E t \in tasks : Unreachable(t)
  BY <1>8 DEF Unreachable
<1>9. QED
  BY <1>3, <1>4, <1>5, <1>6, <1>7, <1>8 DEF Next, KeepingNext

\* What is in the log stays in it.
LEMMA LogGrows ==
    ASSUME TypeOK, Next \/ \E t \in tasks : Unreachable(t)
    PROVE  /\ \A v : Provenance(v, log) => Provenance(v, log')
           /\ Len(log') \in Nat /\ Len(log) <= Len(log')
<1>1. Len(log) \in Nat /\ Coordinators \subseteq Node
  BY ConstantsAssumption DEF TypeOK
<1>2. CASE log' = log
  BY <1>1, <1>2
<1>3. ASSUME NEW op \in Ops, NEW n \in Coordinators, NEW by \in Owner,
             Accept(op, n, by)
      PROVE  /\ \A v : Provenance(v, log) => Provenance(v, log')
             /\ Len(log') \in Nat /\ Len(log) <= Len(log')
  <2>1. \A v : Provenance(v, log) => Provenance(v, log')
    BY <1>1, <1>3, AcceptKeepsProvenance
  <2>2. Len(log') = Len(log) + 1
    BY <1>3 DEF Accept, TypeOK
  <2>3. QED
    BY <1>1, <2>1, <2>2
<1>4. QED
  BY <1>2, <1>3, LogStep

-----------------------------------------------------------------------------
(* RecoveryInv is inductive.                                               *)

\* What a step of the store does to the memory of a node that does not serve.
LEMMA IdleMemory ==
    ASSUME TypeOK, ServingStep, NEW n \in Node, ~Serving(n)
    PROVE  store'[n] \in {store[n], None}
<1>1. store \in [Node -> Version \cup {None}] /\ Coordinators \subseteq Node
  BY ConstantsAssumption DEF TypeOK
<1>2. ASSUME NEW op, NEW k \in Node, NEW by, NEW ver, NEW targets, NEW left,
             Serving(k), Write(op, k, by, ver, targets, left)
      PROVE  store'[n] = store[n]
  <2>1. store' = [store EXCEPT ![k] = ver] /\ k # n
    BY <1>2 DEF Write
  <2>2. QED
    BY <1>1, <2>1
<1>3. ASSUME NEW t \in tasks, Serving(t.to), Handle(t)
      PROVE  store'[n] = store[n]
  <2>1. store' = [store EXCEPT ![t.to] = Received(t)] /\ t.to # n
    BY <1>3 DEF Handle
  <2>2. QED
    BY <1>1, <2>1
<1>4. CASE ServingClient
  <2>1. PICK k \in Coordinators, u \in User :
            /\ Serving(k)
            /\ \/ DeleteCheck(k, u)
               \/ \E view \in Views : \/ Put(k, u, view)
                                      \/ Patch(k, u, view)
                                      \/ GetStart(k, u, view)
                                      \/ AdminPut(k, view)
                                      \/ AdminDelete(k, view)
    BY <1>4 DEF ServingClient
  <2>2. k \in Node
    BY <1>1
  <2>3. CASE DeleteCheck(k, u)
    BY <2>3 DEF DeleteCheck
  <2>4. ASSUME NEW view \in Views, Put(k, u, view)
        PROVE  store'[n] = store[n]
    BY <1>2, <2>1, <2>2, <2>4 DEF Put
  <2>5. ASSUME NEW view \in Views, Patch(k, u, view)
        PROVE  store'[n] = store[n]
    BY <1>2, <2>1, <2>2, <2>5 DEF Patch
  <2>6. ASSUME NEW view \in Views, GetStart(k, u, view)
        PROVE  store'[n] = store[n]
    BY <2>6 DEF GetStart
  <2>7. ASSUME NEW view \in Views, AdminPut(k, view)
        PROVE  store'[n] = store[n]
    BY <1>2, <2>1, <2>2, <2>7 DEF AdminPut
  <2>8. ASSUME NEW view \in Views, AdminDelete(k, view)
        PROVE  store'[n] \in {store[n], None}
    BY <1>1, <2>8 DEF AdminDelete
  <2>9. QED
    BY <2>1, <2>3, <2>4, <2>5, <2>6, <2>7, <2>8
<1>5. CASE ServingTask
  BY <1>3, <1>5 DEF ServingTask, Deliver, Refuse, DeliverUnanswered, Timeout,
     Unreachable, Drop
<1>6. CASE ServingRead
  BY <1>6 DEF ServingRead, GetAnswer, GetError, GetFinish
<1>7. CASE DeleteStep
  BY <1>1, <1>7 DEF DeleteStep, DeleteRemove
<1>8. QED
  BY <1>4, <1>5, <1>6, <1>7 DEF ServingStep

LEMMA ServingRecovers ==
    ASSUME RecoveryInv, ServingStep
    PROVE  RecoveryInv'
<1>1. TypeOK /\ OwnerInv /\ RestartTypeOK
  BY DEF RecoveryInv
<1>2. /\ Next \/ \E t \in tasks : Unreachable(t)
      /\ disk' = disk /\ phase' = phase /\ fetched' = fetched
      /\ reborn' = reborn
  BY ServingIsNext
<1>3. TypeOK' /\ OwnerInv'
  BY <1>1, <1>2, NextOK, UnreachableStep
<1>4. RestartTypeOK'
  BY <1>1, <1>2 DEF RestartTypeOK
<1>5. /\ \A v : Provenance(v, log) => Provenance(v, log')
      /\ Len(log') \in Nat /\ Len(log) <= Len(log')
  BY <1>1, <1>2, LogGrows
<1>6. /\ \A n \in Node : disk'[n] # None => Provenance(disk'[n], log')
      /\ \A n \in Node : fetched'[n] # None => Provenance(fetched'[n], log')
  BY <1>2, <1>5 DEF RecoveryInv
<1>7. \A n \in Node : ~Serving(n)' =>
          store'[n] = None /\ \E r \in DOMAIN reborn' : reborn'[r][1] = n
  BY <1>1, <1>2, IdleMemory DEF RecoveryInv, Serving
<1>8. \A r \in DOMAIN reborn' : reborn'[r][2] <= Len(log')
  <2>1. \A r \in DOMAIN reborn : reborn[r][2] \in Nat
    BY <1>1 DEF RestartTypeOK
  <2>2. Len(log) \in Nat
    BY <1>1 DEF TypeOK
  <2>3. QED
    BY <1>2, <1>5, <2>1, <2>2 DEF RecoveryInv
<1>9. QED
  BY <1>3, <1>4, <1>6, <1>7, <1>8 DEF RecoveryInv

LEMMA SaveRecovers ==
    ASSUME RecoveryInv, NEW n \in Node, Save(n)
    PROVE  RecoveryInv'
<1>1. /\ disk' = [disk EXCEPT ![n] = store[n]]
      /\ UNCHANGED vars
      /\ phase' = phase /\ fetched' = fetched /\ reborn' = reborn
  BY DEF Save
<1>2. TypeOK' /\ OwnerInv' /\ log' = log
  BY <1>1 DEF RecoveryInv, vars, TypeOK, OwnerInv, Holders, Answered
<1>3. RestartTypeOK'
  BY <1>1 DEF RecoveryInv, RestartTypeOK, TypeOK
<1>4. \A m \in Node : disk'[m] # None => Provenance(disk'[m], log')
  BY <1>1, <1>2 DEF RecoveryInv, RestartTypeOK, OwnerInv
<1>5. QED
  BY <1>1, <1>2, <1>3, <1>4 DEF RecoveryInv, Serving, vars

LEMMA FetchRecovers ==
    ASSUME RecoveryInv, NEW n \in Node, Fetch(n)
    PROVE  RecoveryInv'
<1>1. PICK x \in {None} \cup {store[m] : m \in Node} :
          fetched' = [fetched EXCEPT ![n] = x]
  BY DEF Fetch, get_global_store
<1>2. /\ phase[n] = "down" /\ phase' = [phase EXCEPT ![n] = "joining"]
      /\ UNCHANGED vars /\ disk' = disk /\ reborn' = reborn
  BY DEF Fetch
<1>3. TypeOK' /\ OwnerInv' /\ log' = log
  BY <1>2 DEF RecoveryInv, vars, TypeOK, OwnerInv, Holders, Answered
<1>4. RestartTypeOK'
  BY <1>1, <1>2 DEF RecoveryInv, RestartTypeOK, TypeOK
<1>5. \A m \in Node : fetched'[m] # None => Provenance(fetched'[m], log')
  BY <1>1, <1>3 DEF RecoveryInv, RestartTypeOK, OwnerInv
<1>6. \A m \in Node : ~Serving(m)' =>
          store'[m] = None /\ \E r \in DOMAIN reborn' : reborn'[r][1] = m
  BY <1>2 DEF RecoveryInv, Serving, RestartTypeOK, vars
<1>7. QED
  BY <1>2, <1>3, <1>4, <1>5, <1>6 DEF RecoveryInv

\* The requests that survive a kill were under way before it.
LEMMA SentTasks ==
    ASSUME TypeOK, NEW n, NEW sent \in SUBSET Outgoing(n)
    PROVE  \A r \in {[t EXCEPT !.left = 0] : t \in sent} :
               r \in Task /\ \E t \in tasks : r.ver = t.ver
<1>1. ASSUME NEW t \in sent
      PROVE  /\ [t EXCEPT !.left = 0] \in Task
             /\ t \in tasks /\ [t EXCEPT !.left = 0].ver = t.ver
  <2>1. t \in tasks /\ t \in Task
    BY DEF Outgoing, TypeOK
  <2>2. QED
    BY <2>1, ConstantsAssumption DEF Task
<1>2. QED
  BY <1>1

LEMMA CrashRecovers ==
    ASSUME RecoveryInv, NEW n \in Node, Crash(n)
    PROVE  RecoveryInv'
<1>1. PICK kept \in {disk[n], None} : disk' = [disk EXCEPT ![n] = kept]
  BY DEF Crash
<1>2. PICK sent \in SUBSET Outgoing(n) :
          tasks' = (tasks \ Outgoing(n)) \cup {[t EXCEPT !.left = 0] : t \in sent}
  BY DEF Crash
<1>3. /\ phase' = [phase EXCEPT ![n] = "down"]
      /\ store' = [store EXCEPT ![n] = None]
      /\ seen' = [seen EXCEPT ![n] = {}]
      /\ reads' = [reads EXCEPT ![n] = None]
      /\ deletes' = {d \in deletes : log[d].node # n}
      /\ reborn' = Append(reborn, <<n, Len(log)>>)
      /\ now' = now /\ log' = log /\ failures' = failures
      /\ fetched' = fetched
  BY DEF Crash
<1>4. TypeOK /\ OwnerInv /\ RestartTypeOK
  BY DEF RecoveryInv
<1>5. \A r \in tasks' : r \in Task /\ \E t \in tasks : r.ver = t.ver
  BY <1>2, <1>4, SentTasks DEF TypeOK
<1>6. TypeOK'
  <2>1. lost' \in BOOLEAN
    BY <1>4 DEF Crash, TypeOK
  <2>2. QED
    BY <1>3, <1>4, <1>5, <2>1 DEF TypeOK
<1>7. OwnerInv'
  <2>1. \A m \in Node : store'[m] # None => Provenance(store'[m], log')
    BY <1>3, <1>4 DEF OwnerInv, TypeOK
  <2>2. \A t \in tasks' : t.ver # None => Provenance(t.ver, log')
    BY <1>3, <1>4, <1>5 DEF OwnerInv
  <2>3. \A m \in Node : reads'[m] # None =>
            \A k \in Holders(reads'[m]) : Provenance(reads'[m].resp[k], log')
    BY <1>3, <1>4 DEF OwnerInv, TypeOK
  <2>4. QED
    BY <2>1, <2>2, <2>3 DEF OwnerInv, Holders, Answered
<1>8. Len(log) \in Nat
  BY <1>4 DEF TypeOK
<1>9. /\ reborn' \in Seq(Node \X Nat)
      /\ DOMAIN reborn' = DOMAIN reborn \cup {Len(reborn) + 1}
      /\ \A r \in DOMAIN reborn : reborn'[r] = reborn[r]
      /\ reborn'[Len(reborn) + 1] = <<n, Len(log)>>
  BY <1>3, <1>4, <1>8 DEF RestartTypeOK
<1>10. RestartTypeOK'
  BY <1>1, <1>3, <1>4, <1>9 DEF RestartTypeOK
<1>11. \A m \in Node : disk'[m] # None => Provenance(disk'[m], log')
  BY <1>1, <1>3, <1>4 DEF RecoveryInv, RestartTypeOK
<1>12. \A m \in Node : ~Serving(m)' =>
           store'[m] = None /\ \E r \in DOMAIN reborn' : reborn'[r][1] = m
  BY <1>3, <1>4, <1>9 DEF RecoveryInv, Serving, RestartTypeOK, TypeOK
<1>13. \A r \in DOMAIN reborn' : reborn'[r][2] <= Len(log')
  BY <1>3, <1>8, <1>9 DEF RecoveryInv
<1>14. QED
  BY <1>3, <1>6, <1>7, <1>10, <1>11, <1>12, <1>13 DEF RecoveryInv

\* What a node serves after a restart is the save or what it fetched.
LEMMA RecoveredIsOld ==
    ASSUME NEW saved, NEW remote
    PROVE  Recovered(saved, remote) \in {saved, remote}
BY DEF Recovered, Merge

LEMMA ServeRecovers ==
    ASSUME RecoveryInv, NEW n \in Node, Serve(n)
    PROVE  RecoveryInv'
<1>. PICK saved \in {disk[n], None} :
          /\ store' = [store EXCEPT ![n] = Recovered(saved, fetched[n])]
          /\ seen' = [seen EXCEPT ![n] = KnownBy(saved) \cup KnownBy(fetched[n])]
  BY DEF Serve
<1>1. /\ phase' = [phase EXCEPT ![n] = "up"]
      /\ store' = [store EXCEPT ![n] = Recovered(saved, fetched[n])]
      /\ seen' = [seen EXCEPT ![n] = KnownBy(saved) \cup KnownBy(fetched[n])]
      /\ fetched' = [fetched EXCEPT ![n] = None]
      /\ tasks' = tasks /\ reads' = reads /\ deletes' = deletes /\ now' = now
      /\ log' = log /\ failures' = failures /\ lost' = lost /\ disk' = disk
      /\ reborn' = reborn
  BY DEF Serve
<1>2. TypeOK /\ OwnerInv /\ RestartTypeOK
  BY DEF RecoveryInv
<1>3. Recovered(saved, fetched[n]) \in {saved, fetched[n]}
  BY RecoveredIsOld
<1>4. ASSUME NEW v \in Version \cup {None}, v # None => Provenance(v, log)
      PROVE  KnownBy(v) \subseteq Nat
  <2>1. CASE v = None
    BY <2>1 DEF KnownBy
  <2>2. CASE v # None
    <3>1. v.id \in DOMAIN log /\ log \in Seq(Request)
      BY <1>2, <1>4, <2>2 DEF Provenance, TypeOK
    <3>2. log[v.id] \in Request /\ v.id \in Nat
      BY <3>1
    <3>3. QED
      BY <2>2, <3>2 DEF KnownBy, Request
  <2>3. QED
    BY <2>1, <2>2
<1>5. /\ saved \in Version \cup {None} /\ fetched[n] \in Version \cup {None}
      /\ saved # None => Provenance(saved, log)
      /\ fetched[n] # None => Provenance(fetched[n], log)
  BY <1>2 DEF RecoveryInv, RestartTypeOK
<1>6. TypeOK'
  <2>1. seen' \in [Node -> SUBSET Nat]
    BY <1>1, <1>2, <1>4, <1>5 DEF TypeOK
  <2>2. QED
    BY <1>1, <1>2, <1>3, <1>5, <2>1 DEF TypeOK
<1>7. OwnerInv'
  <2>1. \A m \in Node : store'[m] # None => Provenance(store'[m], log')
    BY <1>1, <1>2, <1>3, <1>5 DEF OwnerInv, TypeOK
  <2>2. QED
    BY <1>1, <1>2, <2>1 DEF OwnerInv, Holders, Answered
<1>8. RestartTypeOK'
  BY <1>1, <1>2 DEF RestartTypeOK
<1>9. \A m \in Node : fetched'[m] # None => Provenance(fetched'[m], log')
  BY <1>1, <1>2 DEF RecoveryInv, RestartTypeOK
<1>10. \A m \in Node : ~Serving(m)' =>
           store'[m] = None /\ \E r \in DOMAIN reborn' : reborn'[r][1] = m
  BY <1>1, <1>2 DEF RecoveryInv, Serving, RestartTypeOK, TypeOK
<1>11. QED
  BY <1>1, <1>6, <1>7, <1>8, <1>9, <1>10 DEF RecoveryInv

LEMMA RecoveryInit == RestartInit => RecoveryInv
<1>. SUFFICES ASSUME RestartInit PROVE RecoveryInv
  OBVIOUS
<1>1. TypeOK /\ OwnerInv
  BY InitOK DEF RestartInit
<1>2. RestartTypeOK
  BY DEF RestartInit, RestartTypeOK
<1>3. /\ \A n \in Node : disk[n] = None /\ fetched[n] = None /\ phase[n] = "up"
      /\ DOMAIN reborn = {}
  BY DEF RestartInit
<1>4. QED
  BY <1>1, <1>2, <1>3 DEF RecoveryInv, Serving

LEMMA RecoveryNext ==
    RecoveryInv /\ [RestartNext]_allVars => RecoveryInv'
<1>. SUFFICES ASSUME RecoveryInv, [RestartNext]_allVars
              PROVE  RecoveryInv'
  OBVIOUS
<1>1. CASE ServingStep
  BY <1>1, ServingRecovers
<1>2. CASE \E n \in Node : Save(n) \/ Crash(n) \/ Fetch(n) \/ Serve(n)
  BY <1>2, SaveRecovers, CrashRecovers, FetchRecovers, ServeRecovers
<1>3. CASE UNCHANGED allVars
  BY <1>3 DEF allVars, vars, restartVars, RecoveryInv, TypeOK, OwnerInv,
     RestartTypeOK, Holders, Answered, Serving
<1>4. QED
  BY <1>1, <1>2, <1>3 DEF RestartNext

\* What is in memory, on disk and on its way stays well-formed and keeps its
\* provenance through kills, torn saves, restarts and merges on joining.
THEOREM RecoveryInvariant == RestartSpec => []RecoveryInv
<1>1. QED
  BY RecoveryInit, RecoveryNext, PTL DEF RestartSpec

\* Restarts, too, never bring one user's writes into another's record, although
\* load_all_tables and merge_global_store check no owner.
THEOREM OwnerWroteRecovered == RestartSpec => []OwnerWrote
<1>1. RecoveryInv => OwnerWrote
  BY DEF RecoveryInv, OwnerInv, OwnerWrote, Live, Provenance
<1>2. QED
  BY <1>1, RecoveryInvariant, PTL

\* Through a kill and a restart, too, a replica exchanges a record only for one
\* that supersedes it: what it merges on joining meets a memory that is empty.
THEOREM ReplicasAdvanceRecovered == RestartSpec => ReplicaAdvances
<1>1. ASSUME RecoveryInv, [RestartNext]_allVars, NEW n \in Node,
             store[n] # None, store'[n] # None, store'[n] # store[n]
      PROVE  Supersedes(store'[n], store[n])
  <2>1. TypeOK
    BY <1>1 DEF RecoveryInv
  <2>2. CASE ServingStep
    <3>1. Next \/ \E t \in tasks : Unreachable(t)
      BY <2>2, ServingIsNext
    <3>2. ~\E t \in tasks : Unreachable(t)
      BY <1>1 DEF Unreachable
    <3>3. QED
      BY <1>1, <2>1, <3>1, <3>2, AdvanceStep
  <2>3. ASSUME NEW m \in Node, Save(m) \/ Fetch(m)
        PROVE  FALSE
    BY <1>1, <2>3 DEF Save, Fetch, vars
  <2>4. ASSUME NEW m \in Node, Crash(m)
        PROVE  FALSE
    BY <1>1, <2>1, <2>4 DEF Crash, TypeOK
  <2>5. ASSUME NEW m \in Node, Serve(m)
        PROVE  FALSE
    <3>1. PICK saved \in {disk[m], None} :
              /\ phase[m] = "joining"
              /\ store' = [store EXCEPT ![m] = Recovered(saved, fetched[m])]
      BY <2>5 DEF Serve
    <3>2. store[m] = None
      BY <1>1, <3>1 DEF RecoveryInv, Serving
    <3>3. QED
      BY <1>1, <2>1, <3>1, <3>2 DEF TypeOK
  <2>6. CASE UNCHANGED allVars
    BY <1>1, <2>6 DEF allVars, vars
  <2>7. QED
    BY <1>1, <2>2, <2>3, <2>4, <2>5, <2>6 DEF RestartNext
<1>2. RecoveryInv /\ [RestartNext]_allVars =>
        [\A n \in Node :
            (store[n] # None /\ store'[n] # None /\ store'[n] # store[n])
                => Supersedes(store'[n], store[n])]_vars
  BY <1>1
<1>3. QED
  BY <1>2, RecoveryInvariant, PTL DEF RestartSpec, ReplicaAdvances

-----------------------------------------------------------------------------
(* One coordinator: EntryInv is inductive.                                 *)

\* Everything that is held is in Held.
LEMMA HeldHas ==
    /\ \A n \in Node : /\ store[n] \in Held \cup {None}
                       /\ disk[n] \in Held \cup {None}
                       /\ fetched[n] \in Held \cup {None}
    /\ \A t \in tasks : t.ver \in Held \cup {None}
    /\ \A n \in Node : reads[n] # None =>
          \A m \in Holders(reads[n]) : reads[n].resp[m] \in Held
<1>1. \A n \in Node : reads[n] # None =>
          \A m \in Holders(reads[n]) : reads[n].resp[m] \in Collected
  BY DEF Collected
<1>2. \A n \in Node : \A m \in Holders(reads[n]) : reads[n].resp[m] # None
  BY DEF Holders
<1>3. QED
  BY <1>1, <1>2 DEF Held, Live

\* Only that is.
LEMMA HeldNext ==
    ASSUME NEW S,
           \A n \in Node : /\ store'[n] \in S \cup {None}
                           /\ disk'[n] \in S \cup {None}
                           /\ fetched'[n] \in S \cup {None},
           \A t \in tasks' : t.ver \in S \cup {None},
           \A n \in Node : reads'[n] # None =>
               \A m \in Holders(reads'[n]) : reads'[n].resp[m] \in S
    PROVE  Held' \subseteq S
<1>1. Collected' \subseteq S
  BY DEF Collected, Holders, Answered
<1>2. Live' \subseteq S
  BY DEF Live
<1>3. QED
  BY <1>1, <1>2 DEF Held

\* What is held is a version that was written by an accepted request.
LEMMA HeldVersion ==
    ASSUME RecoveryInv, NEW v \in Held
    PROVE  v \in Version /\ v.id \in DOMAIN log /\ v.id \in 1 .. Len(log)
<1>1. TypeOK /\ OwnerInv /\ RestartTypeOK
  BY DEF RecoveryInv
<1>2. v \in Version /\ Provenance(v, log)
  <2>1. CASE v \in Collected
    <3>1. PICK n \in Node : /\ reads[n] # None
                            /\ \E m \in Holders(reads[n]) :
                                   v = reads[n].resp[m]
      BY <2>1 DEF Collected
    <3>2. QED
      BY <1>1, <3>1, HolderAnswer DEF OwnerInv
  <2>2. CASE \E n \in Node : v \in {store[n], disk[n], fetched[n]}
    BY <1>1, <2>2 DEF RecoveryInv, OwnerInv, TypeOK, RestartTypeOK, Held
  <2>3. CASE \E t \in tasks : v = t.ver
    BY <1>1, <2>3 DEF OwnerInv, TypeOK, Task, Held
  <2>4. QED
    BY <2>1, <2>2, <2>3 DEF Held, Live
<1>3. QED
  BY <1>1, <1>2 DEF Provenance, TypeOK

\* A kill is remembered.
LEMMA RebornStays ==
    ASSUME \A r \in DOMAIN reborn :
               r \in DOMAIN reborn' /\ reborn'[r] = reborn[r]
    PROVE  \A n, i : RebornBefore(n, i) => RebornBefore(n, i)'
BY DEF RebornBefore

\* A step that brings nothing new into the system preserves EntryInv, if it
\* does not set back what c holds.
LEMMA NothingNewStep ==
    ASSUME RecoveryInv, RecoveryInv', NEW c \in Node, EntryInv(c),
           Held' \subseteq Held,
           Len(log) <= Len(log'), \A i \in DOMAIN log : log'[i] = log[i],
           \A r \in DOMAIN reborn :
               r \in DOMAIN reborn' /\ reborn'[r] = reborn[r],
           (deletes' # {} \/ \E t \in tasks' : t.ver = None) => Removed',
           (~Removed' /\ ~RebornBefore(c, NextId)' /\ store[c] # None
               /\ \A v \in Held : v.vector_clock[c] <= store[c].vector_clock[c])
             => /\ store'[c] # None
                /\ store'[c].vector_clock[c] >= store[c].vector_clock[c]
    PROVE  EntryInv(c)'
<1>1. /\ Len(log) \in Nat /\ Len(log') \in Nat
      /\ DOMAIN log = 1 .. Len(log) /\ DOMAIN log' = 1 .. Len(log')
  BY DEF RecoveryInv, TypeOK
<1>2. \A v \in Held : /\ v \in Version /\ v.id \in DOMAIN log
                      /\ v.vector_clock[c] \in Nat
  BY HeldVersion DEF Version, Clock
<1>3. Removed => Removed'
  BY <1>1 DEF Removed
<1>4. \A n, i : RebornBefore(n, i) => RebornBefore(n, i)'
  BY RebornStays
<1>5. \A v \in Held' : /\ log'[v.id].node = c
                       /\ \A m \in Node \ {c} : v.vector_clock[m] = 0
  BY <1>2 DEF EntryInv
<1>6. ~Removed' => \A v, w \in Held' :
          (v.id < w.id /\ ~RebornBefore(c, w.id)') =>
              v.vector_clock[c] < w.vector_clock[c]
  BY <1>3, <1>4 DEF EntryInv
<1>7. ASSUME ~Removed', ~RebornBefore(c, NextId)', NEW v \in Held'
      PROVE  /\ store'[c] # None
             /\ v.vector_clock[c] <= store'[c].vector_clock[c]
  <2>1. NextId \in Nat /\ NextId' \in Nat /\ NextId <= NextId'
    BY <1>1 DEF NextId
  <2>2. ~RebornBefore(c, NextId)
    <3>1. SUFFICES ASSUME RebornBefore(c, NextId) PROVE FALSE
      OBVIOUS
    <3>2. PICK r \in DOMAIN reborn : reborn[r][1] = c /\ reborn[r][2] < NextId
      BY <3>1 DEF RebornBefore
    <3>3. reborn[r][2] \in Nat
      BY DEF RecoveryInv, RestartTypeOK
    <3>4. reborn'[r][1] = c /\ reborn'[r][2] < NextId' /\ r \in DOMAIN reborn'
      BY <2>1, <3>2, <3>3
    <3>5. QED
      BY <1>7, <3>4 DEF RebornBefore
  <2>3. /\ store[c] # None
        /\ \A w \in Held : w.vector_clock[c] <= store[c].vector_clock[c]
    BY <1>3, <1>7, <2>2 DEF EntryInv
  <2>4. /\ store'[c] # None
        /\ store'[c].vector_clock[c] >= store[c].vector_clock[c]
    BY <1>7, <2>3
  <2>5. store[c] \in Version /\ store'[c] \in Version
    BY <2>3, <2>4 DEF RecoveryInv, TypeOK
  <2>6. store[c].vector_clock[c] \in Nat /\ store'[c].vector_clock[c] \in Nat
    BY <2>5 DEF Version, Clock
  <2>7. QED
    BY <1>2, <2>3, <2>4, <2>6
<1>8. QED
  BY <1>5, <1>6, <1>7 DEF EntryInv

\* A write at c.  Its version gets an entry above all others, unless c was
\* killed before.
LEMMA EntryWrite ==
    ASSUME RecoveryInv, RecoveryInv', NEW c \in Node, EntryInv(c),
           NEW op \in Ops, NEW by \in Owner, NEW ver \in Version,
           NEW targets, NEW left,
           Write(op, c, by, ver, targets, left),
           UNCHANGED <<disk, fetched, reborn>>,
           ver.id = NextId,
           \A m \in Node \ {c} : ver.vector_clock[m] = 0,
           store[c] # None => ver.vector_clock[c] > store[c].vector_clock[c]
    PROVE  EntryInv(c)'
<1>1. /\ store' = [store EXCEPT ![c] = ver]
      /\ tasks' = tasks \cup Spawn(ver, targets, left)
      /\ reads' = reads /\ deletes' = deletes
      /\ Accept(op, c, by)
  BY DEF Write
<1>2. TypeOK
  BY DEF RecoveryInv
<1>3. /\ DOMAIN log' = DOMAIN log \cup {NextId}
      /\ NextId \in Nat /\ NextId \notin DOMAIN log
      /\ \A i \in DOMAIN log : log'[i] = log[i]
      /\ log'[NextId].node = c
  BY <1>1, <1>2, AcceptExtends
<1>4. /\ Len(log) \in Nat /\ Len(log') = Len(log) + 1
      /\ DOMAIN log = 1 .. Len(log)
  BY <1>1, <1>2 DEF Accept, TypeOK
<1>5. Held' \subseteq Held \cup {ver}
  <2>1. \A n \in Node : /\ store'[n] \in Held \cup {ver} \cup {None}
                        /\ disk'[n] \in Held \cup {ver} \cup {None}
                        /\ fetched'[n] \in Held \cup {ver} \cup {None}
    BY <1>1, <1>2, HeldHas DEF TypeOK
  <2>2. \A t \in tasks' : t.ver \in Held \cup {ver} \cup {None}
    BY <1>1, HeldHas DEF Spawn
  <2>3. \A n \in Node : reads'[n] # None =>
            \A m \in Holders(reads'[n]) : reads'[n].resp[m] \in Held \cup {ver}
    BY <1>1, HeldHas
  <2>4. QED
    BY <2>1, <2>2, <2>3, HeldNext
<1>6. \A v \in Held : /\ v \in Version /\ v.id \in 1 .. Len(log)
                      /\ v.vector_clock[c] \in Nat
  BY HeldVersion DEF Version, Clock
<1>7. Removed => Removed'
  BY <1>3 DEF Removed
<1>8. \A i : RebornBefore(c, i) <=> RebornBefore(c, i)'
  BY DEF RebornBefore
<1>9. \A v \in Held' : /\ log'[v.id].node = c
                       /\ \A m \in Node \ {c} : v.vector_clock[m] = 0
  BY <1>3, <1>4, <1>5, <1>6 DEF EntryInv
<1>10. (deletes' # {} \/ \E t \in tasks' : t.ver = None) => Removed'
  BY <1>1, <1>7, NoneAssumption DEF EntryInv, Spawn
<1>11. store'[c] = ver /\ ver.vector_clock[c] \in Nat
  BY <1>1, <1>2 DEF TypeOK, Version, Clock
<1>12. ASSUME ~Removed, ~RebornBefore(c, NextId), NEW v \in Held
       PROVE  v.vector_clock[c] < ver.vector_clock[c]
  <2>1. store[c] # None /\ v.vector_clock[c] <= store[c].vector_clock[c]
    BY <1>12 DEF EntryInv
  <2>2. store[c].vector_clock[c] \in Nat
    BY <1>2, <2>1 DEF TypeOK, Version, Clock
  <2>3. QED
    BY <1>6, <1>11, <2>1, <2>2
<1>13. ASSUME ~Removed', NEW v \in Held', NEW w \in Held',
              v.id < w.id, ~RebornBefore(c, w.id)'
       PROVE  v.vector_clock[c] < w.vector_clock[c]
  <2>1. CASE v \in Held /\ w \in Held
    BY <1>7, <1>8, <1>13, <2>1 DEF EntryInv
  <2>2. CASE v \in Held /\ w = ver
    BY <1>7, <1>8, <1>12, <1>13, <2>2
  <2>3. CASE v = ver
    <3>1. w.id <= NextId
      BY <1>4, <1>5, <1>6 DEF NextId
    <3>2. QED
      BY <1>3, <1>4, <1>5, <1>6, <1>13, <2>3, <3>1
  <2>4. QED
    BY <1>5, <2>1, <2>2, <2>3
<1>14. ASSUME ~Removed', ~RebornBefore(c, NextId)', NEW v \in Held'
       PROVE  store'[c] # None /\ v.vector_clock[c] <= store'[c].vector_clock[c]
  <2>1. ~RebornBefore(c, NextId)
    <3>1. SUFFICES ASSUME RebornBefore(c, NextId) PROVE FALSE
      OBVIOUS
    <3>2. PICK r \in DOMAIN reborn : reborn[r][1] = c /\ reborn[r][2] < NextId
      BY <3>1 DEF RebornBefore
    <3>3. reborn[r][2] \in Nat /\ NextId' = NextId + 1
      BY <1>4 DEF RecoveryInv, RestartTypeOK, NextId
    <3>4. reborn'[r][1] = c /\ reborn'[r][2] < NextId' /\ r \in DOMAIN reborn'
      BY <1>3, <3>2, <3>3
    <3>5. QED
      BY <1>14, <3>4 DEF RebornBefore
  <2>2. v = ver \/ v.vector_clock[c] < ver.vector_clock[c]
    BY <1>5, <1>7, <1>12, <1>14, <2>1
  <2>3. QED
    BY <1>5, <1>6, <1>11, <2>2, NoneAssumption
<1>15. QED
  BY <1>9, <1>10, <1>13, <1>14 DEF EntryInv

\* What update and patch do to c's record.
LEMMA EntryMade ==
    ASSUME RecoveryInv, NEW c \in Node, EntryInv(c), store[c] # None,
           NEW ts \in Nat,
           NEW v \in {update(store[c], NextId, c, ts),
                      patch(store[c], NextId, c, ts)}
    PROVE  /\ v \in Version /\ v.id = NextId
           /\ \A m \in Node \ {c} : v.vector_clock[m] = 0
           /\ v.vector_clock[c] > store[c].vector_clock[c]
<1>1. store[c] \in Version /\ NextId \in Nat
  BY DEF RecoveryInv, TypeOK, NextId
<1>2. v \in Version
  BY <1>1, UpdateType, PatchType
<1>3. v.id = NextId /\ v.vector_clock = Tick(store[c].vector_clock, c)
  BY <1>1 DEF update, patch, Version
<1>4. \A m \in Node \ {c} : store[c].vector_clock[m] = 0
  BY HeldHas DEF EntryInv
<1>5. store[c].vector_clock \in [Node -> Nat]
  BY <1>1 DEF Version, Clock
<1>6. QED
  BY <1>2, <1>3, <1>4, <1>5 DEF Tick

LEMMA EntryNew ==
    ASSUME RecoveryInv, NEW c \in Node, NEW by \in Owner, NEW ts \in Nat
    PROVE  /\ new(NextId, by, c, ts) \in Version
           /\ new(NextId, by, c, ts).id = NextId
           /\ \A m \in Node \ {c} : new(NextId, by, c, ts).vector_clock[m] = 0
<1>1. NextId \in Nat
  BY DEF RecoveryInv, TypeOK, NextId
<1>2. new(NextId, by, c, ts) \in Version
  BY <1>1, NewType
<1>3. QED
  BY <1>2 DEF new

\* The write handlers at c.
LEMMA EntryWrites ==
    ASSUME RecoveryInv, RecoveryInv', NEW c \in Node, EntryInv(c),
           UNCHANGED <<disk, fetched, reborn>>,
           NEW u \in User, NEW view,
           Put(c, u, view) \/ Patch(c, u, view) \/ AdminPut(c, view)
    PROVE  EntryInv(c)'
<1>1. /\ u \in Owner /\ Admin \in Owner
      /\ "put" \in Ops /\ "patch" \in Ops /\ "adminPut" \in Ops
  BY DEF Owner, Ops
<1>2. \A g \in Gap, k \in Skew : current_timestamp(g, k) \in Nat
  BY ConstantsAssumption DEF RecoveryInv, TypeOK, current_timestamp
<1>3. CASE Put(c, u, view)
  <2>. DEFINE ver(ts) == IF store[c] = None
                         THEN new(NextId, u, c, ts)
                         ELSE update(store[c], NextId, c, ts)
  <2>1. PICK g \in Gap, k \in Skew :
            Write("put", c, u, ver(current_timestamp(g, k)), view, Retries)
    BY <1>3 DEF Put
  <2>. DEFINE w == ver(current_timestamp(g, k))
  <2>2. /\ w \in Version /\ w.id = NextId
        /\ \A m \in Node \ {c} : w.vector_clock[m] = 0
        /\ store[c] # None => w.vector_clock[c] > store[c].vector_clock[c]
    <3>1. CASE store[c] = None
      BY <1>1, <1>2, <3>1, EntryNew
    <3>2. CASE store[c] # None
      BY <1>2, <3>2, EntryMade
    <3>3. QED
      BY <3>1, <3>2
  <2>3. Write("put", c, u, w, view, Retries)
    BY <2>1
  <2>. HIDE DEF w
  <2>4. QED
    BY <1>1, <2>2, <2>3, EntryWrite
<1>4. CASE Patch(c, u, view)
  <2>1. PICK g \in Gap, k \in Skew :
            Write("patch", c, u,
                  patch(store[c], NextId, c, current_timestamp(g, k)),
                  view \ {c}, Retries)
    BY <1>4 DEF Patch
  <2>. DEFINE w == patch(store[c], NextId, c, current_timestamp(g, k))
  <2>2. /\ w \in Version /\ w.id = NextId
        /\ \A m \in Node \ {c} : w.vector_clock[m] = 0
        /\ store[c] # None => w.vector_clock[c] > store[c].vector_clock[c]
    <3>1. store[c] # None
      BY <1>4 DEF Patch
    <3>2. QED
      BY <1>2, <3>1, EntryMade
  <2>3. Write("patch", c, u, w, view \ {c}, Retries)
    BY <2>1
  <2>. HIDE DEF w
  <2>4. QED
    BY <1>1, <2>2, <2>3, EntryWrite
<1>5. CASE AdminPut(c, view)
  <2>. DEFINE ver(ts) == IF store[c] = None
                         THEN new(NextId, Admin, c, ts)
                         ELSE update(store[c], NextId, c, ts)
  <2>1. PICK g \in Gap, k \in Skew :
            Write("adminPut", c, Admin, ver(current_timestamp(g, k)),
                  view \ {c}, 1)
    BY <1>5 DEF AdminPut
  <2>. DEFINE w == ver(current_timestamp(g, k))
  <2>2. /\ w \in Version /\ w.id = NextId
        /\ \A m \in Node \ {c} : w.vector_clock[m] = 0
        /\ store[c] # None => w.vector_clock[c] > store[c].vector_clock[c]
    <3>1. CASE store[c] = None
      BY <1>1, <1>2, <3>1, EntryNew
    <3>2. CASE store[c] # None
      BY <1>2, <3>2, EntryMade
    <3>3. QED
      BY <3>1, <3>2
  <2>3. Write("adminPut", c, Admin, w, view \ {c}, 1)
    BY <2>1
  <2>. HIDE DEF w
  <2>4. QED
    BY <1>1, <2>2, <2>3, EntryWrite
<1>6. QED
  BY <1>3, <1>4, <1>5

\* Requests at c that write nothing.
LEMMA EntryRequests ==
    ASSUME RecoveryInv, RecoveryInv', NEW c \in Node, EntryInv(c),
           UNCHANGED <<disk, fetched, reborn>>,
           NEW u \in User, NEW view,
           GetStart(c, u, view) \/ DeleteCheck(c, u) \/ AdminDelete(c, view)
    PROVE  EntryInv(c)'
<1>1. TypeOK
  BY DEF RecoveryInv
<1>2. /\ u \in Owner /\ Admin \in Owner
      /\ "get" \in Ops /\ "delete" \in Ops /\ "adminDelete" \in Ops
  BY DEF Owner, Ops
<1>3. ASSUME NEW op \in Ops, NEW by \in Owner, Accept(op, c, by)
      PROVE  /\ Len(log) <= Len(log') /\ \A i \in DOMAIN log : log'[i] = log[i]
             /\ Removed => Removed'
             /\ op \in {"delete", "adminDelete"} => Removed'
  <2>1. /\ DOMAIN log' = DOMAIN log \cup {NextId}
        /\ \A i \in DOMAIN log : log'[i] = log[i]
        /\ log'[NextId].op = op
    BY <1>1, <1>3, AcceptExtends
  <2>2. Len(log) \in Nat /\ Len(log') = Len(log) + 1
    BY <1>1, <1>3 DEF Accept, TypeOK
  <2>3. QED
    BY <2>1, <2>2 DEF Removed
<1>4. CASE GetStart(c, u, view)
  <2>. DEFINE r == [by |-> u, floor |-> store[c], req |-> NextId,
                    resp |-> [m \in Node |->
                                 IF m \in view THEN Pending ELSE Silent]]
  <2>1. /\ reads' = [reads EXCEPT ![c] = r] /\ Accept("get", c, u)
        /\ store' = store /\ tasks' = tasks /\ deletes' = deletes
    BY <1>4 DEF GetStart
  <2>2. Holders(r) = {}
    BY DEF Holders, Answered
  <2>. HIDE DEF r
  <2>3. \A n \in Node : reads'[n] # None =>
            \A m \in Holders(reads'[n]) : reads'[n].resp[m] \in Held
    BY <1>1, <2>1, <2>2, HeldHas DEF TypeOK
  <2>4. Held' \subseteq Held
    BY <2>1, <2>3, HeldHas, HeldNext
  <2>5. /\ Len(log) <= Len(log') /\ \A i \in DOMAIN log : log'[i] = log[i]
        /\ Removed => Removed'
    BY <1>2, <1>3, <2>1
  <2>6. store[c] # None => store[c].vector_clock[c] \in Nat
    BY <1>1 DEF TypeOK, Version, Clock
  <2>7. (deletes' # {} \/ \E t \in tasks' : t.ver = None) => Removed'
    BY <2>1, <2>5 DEF EntryInv
  <2>8. QED
    BY <2>1, <2>4, <2>5, <2>6, <2>7, NothingNewStep
<1>5. CASE DeleteCheck(c, u)
  <2>1. /\ Accept("delete", c, u)
        /\ store' = store /\ tasks' = tasks /\ reads' = reads
    BY <1>5 DEF DeleteCheck
  <2>2. Held' \subseteq Held
    BY <2>1, HeldHas, HeldNext
  <2>3. /\ Len(log) <= Len(log') /\ \A i \in DOMAIN log : log'[i] = log[i]
        /\ Removed'
    BY <1>2, <1>3, <2>1
  <2>4. QED
    BY <2>2, <2>3, NothingNewStep
<1>6. CASE AdminDelete(c, view)
  <2>1. /\ Accept("adminDelete", c, Admin)
        /\ store' = [store EXCEPT ![c] = None]
        /\ tasks' = tasks \cup Spawn(None, view \ {c}, 1)
        /\ reads' = reads
    BY <1>6 DEF AdminDelete
  <2>2. \A n \in Node : store'[n] \in Held \cup {None}
    BY <1>1, <2>1, HeldHas DEF TypeOK
  <2>3. \A t \in tasks' : t.ver \in Held \cup {None}
    BY <2>1, HeldHas DEF Spawn
  <2>4. Held' \subseteq Held
    BY <2>1, <2>2, <2>3, HeldHas, HeldNext
  <2>5. /\ Len(log) <= Len(log') /\ \A i \in DOMAIN log : log'[i] = log[i]
        /\ Removed'
    BY <1>2, <1>3, <2>1
  <2>6. QED
    BY <2>4, <2>5, NothingNewStep
<1>7. QED
  BY <1>4, <1>5, <1>6

\* A request delivered to c carries no entry above that of c's record, so it
\* leaves c with the same entry.
LEMMA MergeKeepsEntry ==
    ASSUME NEW c \in Node, NEW old \in Version, NEW v \in Version,
           v.vector_clock[c] <= old.vector_clock[c],
           \A m \in Node \ {c} : v.vector_clock[m] = 0
                                 /\ old.vector_clock[m] = 0
    PROVE  /\ Merge(old, v) \in Version
           /\ Merge(old, v).vector_clock[c] >= old.vector_clock[c]
<1>1. v.vector_clock \in [Node -> Nat] /\ old.vector_clock \in [Node -> Nat]
  BY DEF Version, Clock
<1>2. CASE Supersedes(v, old)
  <2>1. SUFFICES ASSUME v.vector_clock[c] < old.vector_clock[c]
                 PROVE  FALSE
    BY <1>1, <1>2 DEF Merge
  <2>2. Dominates(old, v)
    <3>1. \A m \in Node : old.vector_clock[m] >= v.vector_clock[m]
      BY <1>1, <2>1
    <3>2. old.vector_clock # v.vector_clock
      BY <1>1, <2>1
    <3>3. QED
      BY <3>1, <3>2, DominatesIsPointwise
  <2>3. ~Dominates(v, old)
    BY <2>2, DominatesStrictOrder
  <2>4. QED
    BY <1>2, <2>2, <2>3 DEF Supersedes
<1>3. CASE ~Supersedes(v, old)
  BY <1>1, <1>3, NoneAssumption DEF Merge
<1>4. QED
  BY <1>2, <1>3

\* The replication tasks.
LEMMA EntryTask ==
    ASSUME RecoveryInv, RecoveryInv', NEW c \in Node, EntryInv(c),
           UNCHANGED <<disk, fetched, reborn>>, NEW t \in tasks,
           \/ Deliver(t)
           \/ Refuse(t)
           \/ DeliverUnanswered(t)
           \/ Timeout(t)
           \/ Unreachable(t)
           \/ Drop(t)
    PROVE  EntryInv(c)'
<1>1. TypeOK /\ t \in Task /\ t.to \in Node
  BY DEF RecoveryInv, TypeOK, Task
<1>2. log' = log /\ reads' = reads /\ deletes' = deletes
  BY DEF Deliver, Refuse, DeliverUnanswered, Timeout, Unreachable, Drop
<1>3. \A r \in tasks' : \E q \in tasks : r.ver = q.ver
  <2>1. \A r \in NextAttempt(t) : r.ver = t.ver
    BY <1>1 DEF NextAttempt, Task
  <2>2. [t EXCEPT !.left = 0].ver = t.ver
    BY <1>1 DEF Task
  <2>3. \A r \in tasks' : r \in tasks \/ r.ver = t.ver
    BY <2>1, <2>2 DEF Deliver, Refuse, DeliverUnanswered, Timeout,
       Unreachable, Drop
  <2>4. QED
    BY <2>3
<1>4. store' = store \/ store' = [store EXCEPT ![t.to] = Received(t)]
  BY DEF Deliver, Refuse, DeliverUnanswered, Timeout, Unreachable, Drop, Handle
<1>5. \A n \in Node : store'[n] \in Held \cup {None}
  <2>1. Received(t) \in {None, store[t.to], t.ver}
    BY DEF Received, Merge
  <2>2. QED
    BY <1>1, <1>4, <2>1, HeldHas DEF TypeOK
<1>6. Held' \subseteq Held
  BY <1>2, <1>3, <1>5, HeldHas, HeldNext
<1>7. Removed' <=> Removed
  BY <1>2 DEF Removed
<1>8. (deletes' # {} \/ \E r \in tasks' : r.ver = None) => Removed'
  BY <1>2, <1>3, <1>7 DEF EntryInv
<1>9. ASSUME ~Removed', store[c] # None,
             \A v \in Held : v.vector_clock[c] <= store[c].vector_clock[c]
      PROVE  /\ store'[c] # None
             /\ store'[c].vector_clock[c] >= store[c].vector_clock[c]
  <2>1. store[c] \in Version /\ store[c].vector_clock[c] \in Nat
    BY <1>1, <1>9 DEF TypeOK, Version, Clock
  <2>2. CASE store'[c] = store[c]
    BY <1>9, <2>1, <2>2
  <2>3. CASE store'[c] = Received(t) /\ t.to = c
    <3>1. t.ver # None
      BY <1>7, <1>9 DEF EntryInv
    <3>2. t.ver \in Held /\ t.ver \in Version /\ store[c] \in Held
      BY <1>9, <3>1, HeldHas, HeldVersion
    <3>3. store'[c] = Merge(store[c], t.ver)
      BY <2>3, <3>1 DEF Received
    <3>4. \A m \in Node \ {c} : t.ver.vector_clock[m] = 0
                                /\ store[c].vector_clock[m] = 0
      BY <3>2 DEF EntryInv
    <3>5. t.ver.vector_clock[c] <= store[c].vector_clock[c]
      BY <1>9, <3>2
    <3>6. QED
      BY <2>1, <3>2, <3>3, <3>4, <3>5, MergeKeepsEntry, NoneAssumption
  <2>4. QED
    BY <1>1, <1>4, <2>2, <2>3 DEF TypeOK
<1>10. Len(log) \in Nat
  BY <1>1 DEF TypeOK
<1>11. QED
  BY <1>2, <1>6, <1>8, <1>9, <1>10, NothingNewStep

\* The GETs.
LEMMA EntryRead ==
    ASSUME RecoveryInv, RecoveryInv', NEW c \in Node, EntryInv(c),
           UNCHANGED <<disk, fetched, reborn>>, NEW n \in Node,
           \/ \E m \in Node : GetAnswer(n, m) \/ GetError(n, m)
           \/ GetFinish(n)
    PROVE  EntryInv(c)'
<1>1. TypeOK /\ Len(log) \in Nat
  BY DEF RecoveryInv, TypeOK
<1>2. /\ log' = log /\ store' = store /\ deletes' = deletes
      /\ reads[n] # None
  BY DEF GetAnswer, GetError, GetFinish
<1>3. reads[n] \in Read
  BY <1>1, <1>2 DEF TypeOK
<1>4. store[c] # None => store[c].vector_clock[c] \in Nat
  BY <1>1 DEF TypeOK, Version, Clock
<1>5. Removed' <=> Removed
  BY <1>2 DEF Removed
<1>6. ASSUME NEW m \in Node, GetAnswer(n, m) \/ GetError(n, m)
      PROVE  EntryInv(c)'
  <2>1. PICK x \in {store[m], Silent} :
            reads' = [reads EXCEPT ![n].resp[m] = x] /\ tasks' = tasks
    BY <1>6 DEF GetAnswer, GetError
  <2>. DEFINE r == [reads[n] EXCEPT !.resp[m] = x]
  <2>2. reads' = [reads EXCEPT ![n] = r]
    BY <2>1
  <2>3. /\ r.resp = [reads[n].resp EXCEPT ![m] = x]
        /\ reads[n].resp \in [Node -> Version \cup {None, Pending, Silent}]
    BY <1>3 DEF Read
  <2>. HIDE DEF r
  <2>4. \A k \in Holders(r) : r.resp[k] \in Held
    <3>1. \A k \in Holders(reads[n]) : reads[n].resp[k] \in Held
      BY <1>2, HeldHas
    <3>2. store[m] \in Held \cup {None}
      BY HeldHas
    <3>3. QED
      BY <2>3, <3>1, <3>2 DEF Holders, Answered
  <2>5. \A i \in Node : reads'[i] # None =>
            \A k \in Holders(reads'[i]) : reads'[i].resp[k] \in Held
    BY <1>1, <2>2, <2>4, HeldHas DEF TypeOK
  <2>6. Held' \subseteq Held
    BY <1>2, <2>1, <2>5, HeldHas, HeldNext
  <2>7. (deletes' # {} \/ \E t \in tasks' : t.ver = None) => Removed'
    BY <1>2, <1>5, <2>1 DEF EntryInv
  <2>8. QED
    BY <1>1, <1>2, <1>4, <2>6, <2>7, NothingNewStep
<1>7. CASE GetFinish(n)
  <2>1. reads' = [reads EXCEPT ![n] = None]
    BY <1>7 DEF GetFinish
  <2>2. \A t \in tasks' : \/ t \in tasks
                          \/ \E m \in Holders(reads[n]) : t.ver = reads[n].resp[m]
    BY <1>7 DEF GetFinish
  <2>3. \A m \in Holders(reads[n]) : reads[n].resp[m] \in Held
    BY <1>2, HeldHas
  <2>4. \A t \in tasks' : t.ver \in Held \cup {None}
    BY <2>2, <2>3, HeldHas
  <2>5. \A i \in Node : reads'[i] # None =>
            \A k \in Holders(reads'[i]) : reads'[i].resp[k] \in Held
    BY <1>1, <2>1, HeldHas DEF TypeOK
  <2>6. Held' \subseteq Held
    BY <1>2, <2>4, <2>5, HeldHas, HeldNext
  <2>7. (deletes' # {} \/ \E t \in tasks' : t.ver = None) => Removed'
    BY <1>2, <1>5, <2>2 DEF EntryInv, Holders
  <2>8. QED
    BY <1>1, <1>2, <1>4, <2>6, <2>7, NothingNewStep
<1>8. QED
  BY <1>6, <1>7

\* A removal.
LEMMA EntryRemove ==
    ASSUME RecoveryInv, RecoveryInv', NEW c \in Node, EntryInv(c),
           UNCHANGED <<disk, fetched, reborn>>, NEW d \in deletes, NEW view,
           DeleteRemove(d, view)
    PROVE  EntryInv(c)'
<1>1. TypeOK /\ Len(log) \in Nat
  BY DEF RecoveryInv, TypeOK
<1>2. /\ store' = [store EXCEPT ![log[d].node] = None]
      /\ log' = log /\ reads' = reads
      /\ \A t \in tasks' : t \in tasks \/ t.ver = None
  BY DEF DeleteRemove
<1>3. Removed'
  BY <1>2 DEF EntryInv, Removed
<1>4. \A n \in Node : store'[n] \in Held \cup {None}
  BY <1>1, <1>2, HeldHas DEF TypeOK
<1>5. Held' \subseteq Held
  BY <1>2, <1>4, HeldHas, HeldNext
<1>6. QED
  BY <1>1, <1>2, <1>3, <1>5, NothingNewStep

\* Saving, fetching, serving and dying.
LEMMA EntryRestart ==
    ASSUME RecoveryInv, RecoveryInv', NEW c \in Node, EntryInv(c),
           NEW n \in Node, Save(n) \/ Crash(n) \/ Fetch(n) \/ Serve(n)
    PROVE  EntryInv(c)'
<1>1. TypeOK /\ RestartTypeOK /\ Len(log) \in Nat
  BY DEF RecoveryInv, TypeOK
<1>2. log' = log /\ (Removed' <=> Removed)
  BY DEF Save, Crash, Fetch, Serve, vars, Removed
<1>3. store[c] # None => store[c].vector_clock[c] \in Nat
  BY <1>1 DEF TypeOK, Version, Clock
<1>4. CASE Save(n)
  <2>1. /\ disk' = [disk EXCEPT ![n] = store[n]]
        /\ store' = store /\ tasks' = tasks /\ reads' = reads
        /\ deletes' = deletes /\ fetched' = fetched /\ reborn' = reborn
    BY <1>4 DEF Save, vars
  <2>2. \A m \in Node : disk'[m] \in Held \cup {None}
    BY <1>1, <2>1, HeldHas DEF RestartTypeOK
  <2>3. Held' \subseteq Held
    BY <2>1, <2>2, HeldHas, HeldNext
  <2>4. (deletes' # {} \/ \E t \in tasks' : t.ver = None) => Removed'
    BY <1>2, <2>1 DEF EntryInv
  <2>5. QED
    BY <1>1, <1>2, <1>3, <2>1, <2>3, <2>4, NothingNewStep
<1>5. CASE Fetch(n)
  <2>1. /\ store' = store /\ tasks' = tasks /\ reads' = reads
        /\ deletes' = deletes /\ disk' = disk /\ reborn' = reborn
    BY <1>5 DEF Fetch, vars
  <2>2. PICK x \in {None} \cup {store[m] : m \in Node} :
            fetched' = [fetched EXCEPT ![n] = x]
    BY <1>5 DEF Fetch, get_global_store
  <2>3. \A m \in Node : fetched'[m] \in Held \cup {None}
    BY <1>1, <2>2, HeldHas DEF RestartTypeOK
  <2>4. Held' \subseteq Held
    BY <2>1, <2>3, HeldHas, HeldNext
  <2>5. (deletes' # {} \/ \E t \in tasks' : t.ver = None) => Removed'
    BY <1>2, <2>1 DEF EntryInv
  <2>6. QED
    BY <1>1, <1>2, <1>3, <2>1, <2>4, <2>5, NothingNewStep
<1>6. CASE Serve(n)
  <2>. PICK saved \in {disk[n], None} :
           store' = [store EXCEPT ![n] = Recovered(saved, fetched[n])]
    BY <1>6 DEF Serve
  <2>1. /\ phase[n] = "joining"
        /\ store' = [store EXCEPT ![n] = Recovered(saved, fetched[n])]
        /\ fetched' = [fetched EXCEPT ![n] = None]
        /\ tasks' = tasks /\ reads' = reads /\ deletes' = deletes
        /\ disk' = disk /\ reborn' = reborn
    BY <1>6 DEF Serve
  <2>2. \A m \in Node : /\ store'[m] \in Held \cup {None}
                        /\ fetched'[m] \in Held \cup {None}
    BY <1>1, <2>1, HeldHas, RecoveredIsOld DEF RestartTypeOK, TypeOK
  <2>3. Held' \subseteq Held
    BY <2>1, <2>2, HeldHas, HeldNext
  <2>4. (deletes' # {} \/ \E t \in tasks' : t.ver = None) => Removed'
    BY <1>2, <2>1 DEF EntryInv
  <2>5. store[c] # None => store'[c] = store[c]
    BY <1>1, <2>1 DEF RecoveryInv, Serving, TypeOK
  <2>6. QED
    BY <1>1, <1>2, <1>3, <2>1, <2>3, <2>4, <2>5, NothingNewStep
<1>7. CASE Crash(n)
  <2>1. PICK kept \in {disk[n], None} : disk' = [disk EXCEPT ![n] = kept]
    BY <1>7 DEF Crash
  <2>2. PICK sent \in SUBSET Outgoing(n) :
            tasks' = (tasks \ Outgoing(n))
                         \cup {[t EXCEPT !.left = 0] : t \in sent}
    BY <1>7 DEF Crash
  <2>3. /\ store' = [store EXCEPT ![n] = None]
        /\ reads' = [reads EXCEPT ![n] = None]
        /\ deletes' \subseteq deletes
        /\ reborn' = Append(reborn, <<n, Len(log)>>)
        /\ fetched' = fetched
    BY <1>7 DEF Crash
  <2>4. \A r \in tasks' : \E t \in tasks : r.ver = t.ver
    BY <1>1, <2>2, SentTasks
  <2>5. \A m \in Node : /\ store'[m] \in Held \cup {None}
                        /\ disk'[m] \in Held \cup {None}
    BY <1>1, <2>1, <2>3, HeldHas DEF RestartTypeOK, TypeOK
  <2>6. \A i \in Node : reads'[i] # None =>
            \A k \in Holders(reads'[i]) : reads'[i].resp[k] \in Held
    BY <1>1, <2>3, HeldHas DEF TypeOK
  <2>7. Held' \subseteq Held
    BY <2>3, <2>4, <2>5, <2>6, HeldHas, HeldNext
  <2>8. (deletes' # {} \/ \E t \in tasks' : t.ver = None) => Removed'
    BY <1>2, <2>3, <2>4 DEF EntryInv
  <2>9. /\ \A r \in DOMAIN reborn :
               r \in DOMAIN reborn' /\ reborn'[r] = reborn[r]
        /\ Len(reborn) + 1 \in DOMAIN reborn'
        /\ reborn'[Len(reborn) + 1] = <<n, Len(log)>>
    BY <1>1, <2>3 DEF RestartTypeOK
  <2>10. n = c => RebornBefore(c, NextId)'
    BY <1>1, <1>2, <2>9 DEF RebornBefore, NextId
  <2>11. n # c => store'[c] = store[c]
    BY <1>1, <2>3 DEF TypeOK
  <2>12. QED
    BY <1>1, <1>2, <1>3, <2>7, <2>8, <2>9, <2>10, <2>11, NothingNewStep
<1>8. QED
  BY <1>4, <1>5, <1>6, <1>7

LEMMA EntryInit ==
    ASSUME NEW c \in Node
    PROVE  RestartInit => EntryInv(c)
<1>. SUFFICES ASSUME RestartInit PROVE EntryInv(c)
  OBVIOUS
<1>1. Live = {} /\ Collected = {}
  BY DEF RestartInit, Init, Live, Collected
<1>2. Held = {}
  BY <1>1 DEF RestartInit, Held
<1>3. deletes = {} /\ tasks = {}
  BY DEF RestartInit, Init
<1>4. QED
  BY <1>2, <1>3 DEF EntryInv

LEMMA EntryNext ==
    ASSUME NEW c \in Node, Coordinators = {c}
    PROVE  RecoveryInv /\ EntryInv(c) /\ [RestartNext]_allVars => EntryInv(c)'
<1>. SUFFICES ASSUME RecoveryInv, EntryInv(c), [RestartNext]_allVars
              PROVE  EntryInv(c)'
  OBVIOUS
<1>1. RecoveryInv'
  BY RecoveryNext
<1>2. CASE ServingStep
  <2>1. UNCHANGED <<disk, fetched, reborn>>
    BY <1>2, ServingIsNext
  <2>2. CASE ServingClient
    BY <1>1, <2>1, <2>2, EntryWrites, EntryRequests DEF ServingClient
  <2>3. CASE ServingTask
    BY <1>1, <2>1, <2>3, EntryTask DEF ServingTask
  <2>4. CASE ServingRead
    BY <1>1, <2>1, <2>4, EntryRead DEF ServingRead
  <2>5. CASE DeleteStep
    BY <1>1, <2>1, <2>5, EntryRemove DEF DeleteStep
  <2>6. QED
    BY <1>2, <2>2, <2>3, <2>4, <2>5 DEF ServingStep
<1>3. CASE \E n \in Node : Save(n) \/ Crash(n) \/ Fetch(n) \/ Serve(n)
  BY <1>1, <1>3, EntryRestart
<1>4. CASE UNCHANGED allVars
  <2>1. /\ store' = store /\ tasks' = tasks /\ reads' = reads
        /\ deletes' = deletes /\ log' = log /\ disk' = disk
        /\ fetched' = fetched /\ reborn' = reborn
    BY <1>4 DEF allVars, vars, restartVars
  <2>2. Held' = Held
    BY <2>1 DEF Held, Live, Collected, Holders, Answered
  <2>3. (Removed' <=> Removed) /\ NextId' = NextId
    BY <2>1 DEF Removed, NextId
  <2>4. \A i : RebornBefore(c, i)' <=> RebornBefore(c, i)
    BY <2>1 DEF RebornBefore
  <2>5. RebornBefore(c, NextId)' <=> RebornBefore(c, NextId)
    BY <2>1, <2>3 DEF RebornBefore
  <2>6. QED
    BY <2>1, <2>2, <2>3, <2>4, <2>5 DEF EntryInv
<1>5. QED
  BY <1>2, <1>3, <1>4 DEF RestartNext

\* For a key whose clients use one node, whatever happens to the saves and to
\* the memory of any node, the clocks of all versions anywhere are ordered as
\* the writes that made them, up to the first kill of that node or removal.
THEOREM EntryInvariant ==
    ASSUME NEW c \in Node, Coordinators = {c}
    PROVE  RestartSpec => [](RecoveryInv /\ EntryInv(c))
<1>1. RestartInit => RecoveryInv /\ EntryInv(c)
  BY RecoveryInit, EntryInit
<1>2. RecoveryInv /\ EntryInv(c) /\ [RestartNext]_allVars
        => (RecoveryInv /\ EntryInv(c))'
  BY RecoveryNext, EntryNext
<1>3. QED
  BY <1>1, <1>2, PTL DEF RestartSpec

\* With one coordinator, and any number of kills, ages of the saves, faults and
\* clocks, the clock of a write is matched or outranked by that of an earlier
\* write only when the coordinator itself had restarted or the key was removed.
THEOREM OutrankedNeedsRestart ==
    ASSUME NEW c \in Node, Coordinators = {c}
    PROVE  RestartSpec => []OutrankedOnlyAfterRestart
<1>1. ASSUME RecoveryInv, EntryInv(c)
      PROVE  OutrankedOnlyAfterRestart
  <2>1. SUFFICES ASSUME NEW a \in Live, NEW b \in Live, a.id < b.id,
                        Covers(a, b), ~RebornBefore(log[b.id].node, b.id),
                        ~Removed
                 PROVE  FALSE
    <3>1. ASSUME NEW b \in Live
          PROVE  log[b.id].node \in Node
      <4>1. b \in Held
        BY DEF Held, Live
      <4>2. QED
        BY <1>1, <4>1 DEF EntryInv
    <3>2. QED
      BY <3>1 DEF OutrankedOnlyAfterRestart
  <2>2. a \in Held /\ b \in Held
    BY DEF Held, Live
  <2>3. log[b.id].node = c
    BY <1>1, <2>2 DEF EntryInv
  <2>4. a.vector_clock[c] < b.vector_clock[c]
    BY <1>1, <2>1, <2>2, <2>3 DEF EntryInv
  <2>5. a.vector_clock[c] \in Nat /\ b.vector_clock[c] \in Nat
    BY <1>1, <2>2, HeldVersion DEF Version, Clock
  <2>6. QED
    BY <2>1, <2>4, <2>5 DEF Covers
<1>2. RecoveryInv /\ EntryInv(c) => OutrankedOnlyAfterRestart
  BY <1>1
<1>3. QED
  BY <1>2, EntryInvariant, PTL

=============================================================================
