---------------------- MODULE SingleCoordinatorProofs ----------------------
(***************************************************************************)
(* With one coordinator and no deletes, no acknowledged write is lost, the *)
(* replicas converge and move through one history (PrimaryCopy), for every *)
(* number of replicas and of attempts, every schedule of deliveries,       *)
(* losses and repetitions, and whatever the clocks of the machines do.     *)
(***************************************************************************)
EXTENDS SingleCoordinator, ReplicatedStoreProofs, FiniteSetTheorems

-----------------------------------------------------------------------------
(* Versions behind the Leader's.                                           *)

\* The newest version wins every merge, whatever the timestamps say.
LEMMA NewestWins ==
    ASSUME NEW v \in Version, NEW top \in Version, Behind(v, top)
    PROVE  Merge(top, v) = top /\ Merge(v, top) = top
<1>1. CASE v = top
  BY <1>1 DEF Merge
<1>2. CASE v # top
  <2>1. /\ v.vector_clock \in [Node -> Nat]
        /\ top.vector_clock \in [Node -> Nat]
    BY DEF Version, Clock
  <2>2. Dominates(top, v)
    BY <1>2, <2>1, LeaderAssumption, DominatesIsPointwise DEF Behind
  <2>3. ~Supersedes(v, top)
    BY <2>2, SupersedesAsymmetric DEF Supersedes
  <2>4. QED
    BY <2>2, <2>3, NoneAssumption DEF Merge, Supersedes
<1>3. QED
  BY <1>1, <1>2

\* What is behind a version is behind the Leader's next one.
LEMMA BehindNext ==
    ASSUME NEW v \in Version, NEW top \in Version, NEW next \in Version,
           Behind(v, top), v.id < next.id,
           top.vector_clock[Leader] < next.vector_clock[Leader]
    PROVE  Behind(v, next)
<1>1. /\ v.vector_clock[Leader] \in Nat
      /\ top.vector_clock[Leader] \in Nat
      /\ next.vector_clock[Leader] \in Nat
  BY LeaderAssumption DEF Version, Clock
<1>2. next # None
  BY NoneAssumption
<1>3. QED
  BY <1>1, <1>2 DEF Behind

-----------------------------------------------------------------------------
(* The write handlers at the Leader.                                       *)

\* How accepting a write changes the writes to remember.
LEMMA AcceptWrite ==
    ASSUME TypeOK, NEW op \in {"put", "patch", "adminPut"}, NEW by \in Owner,
           Accept(op, Leader, by)
    PROVE  /\ Writes' = Writes \cup {NextId}
           /\ Current' = IF op = "patch" THEN Current \cup {NextId}
                                         ELSE {NextId}
<1>1. op \in Ops
  BY DEF Ops
<1>2. /\ DOMAIN log' = DOMAIN log \cup {NextId}
      /\ NextId \in Nat /\ NextId \notin DOMAIN log
      /\ \A i \in DOMAIN log : log'[i] = log[i]
      /\ log'[NextId].op = op
  BY <1>1, LeaderAssumption, AcceptExtends
<1>3. \A i \in DOMAIN log : i \in Nat /\ i < NextId
  BY DEF TypeOK, NextId
<1>4. Writes' = Writes \cup {NextId}
  BY <1>2 DEF Writes
<1>5. \A i \in Writes : i \in Nat /\ i < NextId /\ log'[i] = log[i]
  BY <1>2, <1>3 DEF Writes
<1>6. Current' = {i \in Writes' :
                     \A j \in Writes' : log'[j].op # "patch" => j <= i}
  BY DEF Current
<1>7. CASE op = "patch"
  BY <1>2, <1>4, <1>5, <1>6, <1>7 DEF Current
<1>8. CASE op # "patch"
  BY <1>2, <1>4, <1>5, <1>6, <1>8
<1>9. QED
  BY <1>4, <1>7, <1>8

\* A write at the Leader whose result, newer than what the Leader holds, is
\* sent to all other nodes.
LeaderWrites(op, by, ver, targets, left) ==
    /\ op \in {"put", "patch", "adminPut"}
    /\ by \in Owner
    /\ ver \in Version
    /\ targets \in SUBSET Node
    /\ Write(op, Leader, by, ver, targets, left)
    /\ Node \ {Leader} \subseteq targets
    /\ ver.id = NextId
    /\ ver.value = IF op = "patch" THEN store[Leader].value \cup {NextId}
                                   ELSE {NextId}
    /\ \A m \in Node \ {Leader} : ver.vector_clock[m] = 0
    /\ store[Leader] # None =>
          store[Leader].vector_clock[Leader] < ver.vector_clock[Leader]
    /\ op = "patch" => store[Leader] # None

LEMMA LeaderWrite ==
    ASSUME TypeOK, OwnerInv, LeaderInv,
           NEW op, NEW by, NEW ver, NEW targets, NEW left,
           LeaderWrites(op, by, ver, targets, left)
    PROVE  LeaderInv'
<1>. SUFFICES
       ASSUME op \in {"put", "patch", "adminPut"}, by \in Owner,
              ver \in Version, targets \in SUBSET Node,
              Write(op, Leader, by, ver, targets, left),
              Node \ {Leader} \subseteq targets,
              ver.id = NextId,
              ver.value = IF op = "patch" THEN store[Leader].value \cup {NextId}
                                          ELSE {NextId},
              \A m \in Node \ {Leader} : ver.vector_clock[m] = 0,
              store[Leader] # None =>
                  store[Leader].vector_clock[Leader] < ver.vector_clock[Leader],
              op = "patch" => store[Leader] # None
       PROVE  LeaderInv'
  BY DEF LeaderWrites
<1>1. /\ Accept(op, Leader, by)
      /\ store' = [store EXCEPT ![Leader] = ver]
      /\ tasks' = tasks \cup Spawn(ver, targets, left)
      /\ UNCHANGED <<reads, deletes, lost>>
  BY DEF Write
<1>2. Leader \in Node /\ op \in Ops /\ ver # None
  BY LeaderAssumption, NoneAssumption DEF Ops
<1>3. /\ DOMAIN log' = DOMAIN log \cup {NextId}
      /\ NextId \in Nat /\ NextId \notin DOMAIN log
      /\ \A i \in DOMAIN log : log'[i] = log[i]
      /\ log'[NextId].op = op
  BY <1>1, <1>2, AcceptExtends
<1>4. /\ store'[Leader] = ver
      /\ \A n \in Node \ {Leader} : store'[n] = store[n]
  BY <1>1, <1>2 DEF TypeOK
<1>5. \A t \in Spawn(ver, targets, left) : t.ver = ver /\ t.req = NextId
  BY DEF Spawn
<1>6. ASSUME NEW v \in Version, Behind(v, store[Leader]), Provenance(v, log)
      PROVE  Behind(v, ver)
  <2>1. v.id < ver.id
    <3>1. v.id \in DOMAIN log
      BY <1>6 DEF Provenance
    <3>2. \A i \in DOMAIN log : i < NextId
      BY DEF TypeOK, NextId
    <3>3. QED
      BY <3>1, <3>2
  <2>2. store[Leader] \in Version
    BY <1>2, <1>6 DEF Behind, TypeOK
  <2>3. QED
    BY <1>6, <2>1, <2>2, BehindNext DEF Behind
<1>7. LeaderNewest'
  <2>1. Behind(ver, ver)
    BY <1>2 DEF Behind
  <2>2. \A n \in Node : store'[n] # None => Behind(store'[n], ver)
    BY <1>4, <1>6, <2>1 DEF LeaderInv, LeaderNewest, OwnerInv, TypeOK
  <2>3. \A t \in tasks' : Behind(t.ver, ver)
    <3>1. ASSUME NEW t \in tasks
          PROVE  Behind(t.ver, ver)
      <4>1. t.ver \in Version
        BY DEF TypeOK, Task, LeaderInv, TasksCarryWrites
      <4>2. Provenance(t.ver, log) /\ Behind(t.ver, store[Leader])
        BY DEF OwnerInv, LeaderInv, LeaderNewest, TasksCarryWrites
      <4>3. QED
        BY <1>6, <4>1, <4>2
    <3>2. QED
      BY <1>1, <1>5, <2>1, <3>1
  <2>4. \A n \in Node : reads[n] # None =>
            \A m \in Holders(reads[n]) : Behind(reads[n].resp[m], ver)
    BY <1>6, HolderAnswer DEF OwnerInv, LeaderInv, LeaderNewest
  <2>5. QED
    BY <1>1, <1>4, <2>2, <2>3, <2>4 DEF LeaderNewest, Holders, Answered
<1>8. LeaderCurrent'
  <2>1. /\ Writes' = Writes \cup {NextId}
        /\ Current' = IF op = "patch" THEN Current \cup {NextId} ELSE {NextId}
    BY <1>1, AcceptWrite
  <2>2. store[Leader] # None => store[Leader].value = Current
    BY DEF LeaderInv, LeaderCurrent
  <2>3. QED
    BY <1>2, <1>4, <2>1, <2>2 DEF LeaderCurrent
<1>9. TasksCarryWrites'
  <2>1. \A t \in tasks' : /\ t.ver # None
                          /\ t.req \in DOMAIN log'
                          /\ log'[t.req].op # "get" => t.ver.id = t.req
    BY <1>1, <1>2, <1>3, <1>5 DEF LeaderInv, TasksCarryWrites
  <2>2. \A n \in Node : reads[n] # None =>
            reads[n].req \in DOMAIN log' /\ log'[reads[n].req].op = "get"
    BY <1>3 DEF LeaderInv, TasksCarryWrites
  <2>3. deletes = {}
    BY DEF LeaderInv, TasksCarryWrites
  <2>4. QED
    BY <1>1, <2>1, <2>2, <2>3 DEF TasksCarryWrites
<1>10. Covered'
  <2>1. ASSUME NEW n \in Node \ {Leader}
        PROVE  InFlight(ver, n)'
    <3>. DEFINE t == [ver |-> ver, req |-> NextId, to |-> n, left |-> left]
    <3>1. t \in tasks'
      BY <1>1 DEF Spawn
    <3>2. QED
      BY <1>3, <3>1 DEF InFlight
  <2>2. QED
    BY <1>4, <2>1 DEF Covered, InFlight
<1>11. QED
  BY <1>7, <1>8, <1>9, <1>10 DEF LeaderInv

\* What the constructors do to the fields that matter here.
LEMMA NewFields ==
    ASSUME NEW id, NEW owner, NEW ts
    PROVE  LET v == new(id, owner, Leader, ts)
           IN  /\ v.id = id /\ v.value = {id}
               /\ \A m \in Node \ {Leader} : v.vector_clock[m] = 0
BY DEF new

LEMMA ChangeFields ==
    ASSUME NEW v \in Version, NEW id, NEW ts,
           \A m \in Node \ {Leader} : v.vector_clock[m] = 0
    PROVE  LET u == update(v, id, Leader, ts)
               p == patch(v, id, Leader, ts)
           IN  /\ u.id = id /\ u.value = {id}
               /\ p.id = id /\ p.value = v.value \cup {id}
               /\ \A m \in Node \ {Leader} : u.vector_clock[m] = 0
               /\ v.vector_clock[Leader] < u.vector_clock[Leader]
               /\ \A m \in Node \ {Leader} : p.vector_clock[m] = 0
               /\ v.vector_clock[Leader] < p.vector_clock[Leader]
<1>1. /\ v.vector_clock \in [Node -> Nat]
      /\ \A m \in Node \ {Leader} : Tick(v.vector_clock, Leader)[m] = 0
      /\ v.vector_clock[Leader] < Tick(v.vector_clock, Leader)[Leader]
  BY LeaderAssumption DEF Version, Clock, Tick
<1>2. QED
  BY <1>1 DEF update, patch, Version

\* The Leader's own version uses only the Leader's entry.
LEMMA LeaderVersion ==
    ASSUME TypeOK, LeaderInv, store[Leader] # None
    PROVE  /\ store[Leader] \in Version
           /\ \A m \in Node \ {Leader} : store[Leader].vector_clock[m] = 0
BY LeaderAssumption DEF TypeOK, LeaderInv, LeaderNewest, Behind

LEMMA LeaderPut ==
    ASSUME TypeOK, OwnerInv, LeaderInv, NEW u \in User, Put(Leader, u, Node)
    PROVE  \E op, by, ver, targets, left :
               LeaderWrites(op, by, ver, targets, left)
<1>. DEFINE ver(ts) == IF store[Leader] = None
                       THEN new(NextId, u, Leader, ts)
                       ELSE update(store[Leader], NextId, Leader, ts)
<1>1. PICK g \in Gap, k \in Skew :
          Write("put", Leader, u, ver(current_timestamp(g, k)), Node, Retries)
  BY DEF Put
<1>. DEFINE ts == current_timestamp(g, k)
<1>2. ts \in Nat /\ NextId \in Nat
  BY ConstantsAssumption DEF TypeOK, current_timestamp, NextId
<1>. HIDE DEF ts
<1>3. u \in Owner /\ Leader \in Node
  BY LeaderAssumption DEF Owner
<1>4. /\ ver(ts) \in Version /\ ver(ts).id = NextId
      /\ ver(ts).value = {NextId}
      /\ \A m \in Node \ {Leader} : ver(ts).vector_clock[m] = 0
      /\ store[Leader] # None =>
            store[Leader].vector_clock[Leader] < ver(ts).vector_clock[Leader]
  <2>1. CASE store[Leader] = None
    BY <1>2, <1>3, <2>1, NewType, NewFields
  <2>2. CASE store[Leader] # None
    BY <1>2, <1>3, <2>2, LeaderVersion, UpdateType, ChangeFields
  <2>3. QED
    BY <2>1, <2>2
<1>. HIDE DEF ver
<1>5. Write("put", Leader, u, ver(ts), Node, Retries)
  BY <1>1 DEF ts
<1>6. LeaderWrites("put", u, ver(ts), Node, Retries)
  BY <1>3, <1>4, <1>5 DEF LeaderWrites
<1>7. QED
  BY <1>6

LEMMA LeaderPatch ==
    ASSUME TypeOK, OwnerInv, LeaderInv, NEW u \in User, Patch(Leader, u, Node)
    PROVE  \E op, by, ver, targets, left :
               LeaderWrites(op, by, ver, targets, left)
<1>. DEFINE ver(ts) == patch(store[Leader], NextId, Leader, ts)
<1>1. PICK g \in Gap, k \in Skew :
          Write("patch", Leader, u, ver(current_timestamp(g, k)),
                Node \ {Leader}, Retries)
  BY DEF Patch
<1>. DEFINE ts == current_timestamp(g, k)
<1>2. ts \in Nat /\ NextId \in Nat
  BY ConstantsAssumption DEF TypeOK, current_timestamp, NextId
<1>. HIDE DEF ts
<1>3. u \in Owner /\ Leader \in Node /\ store[Leader] # None
  BY LeaderAssumption DEF Owner, Patch
<1>4. /\ ver(ts) \in Version /\ ver(ts).id = NextId
      /\ ver(ts).value = store[Leader].value \cup {NextId}
      /\ \A m \in Node \ {Leader} : ver(ts).vector_clock[m] = 0
      /\ store[Leader].vector_clock[Leader] < ver(ts).vector_clock[Leader]
  <2>1. /\ store[Leader] \in Version
        /\ \A m \in Node \ {Leader} : store[Leader].vector_clock[m] = 0
    BY <1>3, LeaderVersion
  <2>2. ver(ts) \in Version
    BY <1>2, <1>3, <2>1, PatchType
  <2>3. QED
    BY <2>1, <2>2, ChangeFields
<1>. HIDE DEF ver
<1>5. Write("patch", Leader, u, ver(ts), Node \ {Leader}, Retries)
  BY <1>1 DEF ts
<1>6. LeaderWrites("patch", u, ver(ts), Node \ {Leader}, Retries)
  BY <1>3, <1>4, <1>5 DEF LeaderWrites
<1>7. QED
  BY <1>6

LEMMA LeaderAdminPut ==
    ASSUME TypeOK, OwnerInv, LeaderInv, AdminPut(Leader, Node)
    PROVE  \E op, by, ver, targets, left :
               LeaderWrites(op, by, ver, targets, left)
<1>. DEFINE ver(ts) == IF store[Leader] = None
                       THEN new(NextId, Admin, Leader, ts)
                       ELSE update(store[Leader], NextId, Leader, ts)
<1>1. PICK g \in Gap, k \in Skew :
          Write("adminPut", Leader, Admin, ver(current_timestamp(g, k)),
                Node \ {Leader}, 1)
  BY DEF AdminPut
<1>. DEFINE ts == current_timestamp(g, k)
<1>2. ts \in Nat /\ NextId \in Nat
  BY ConstantsAssumption DEF TypeOK, current_timestamp, NextId
<1>. HIDE DEF ts
<1>3. Admin \in Owner /\ Leader \in Node
  BY LeaderAssumption DEF Owner
<1>4. /\ ver(ts) \in Version /\ ver(ts).id = NextId
      /\ ver(ts).value = {NextId}
      /\ \A m \in Node \ {Leader} : ver(ts).vector_clock[m] = 0
      /\ store[Leader] # None =>
            store[Leader].vector_clock[Leader] < ver(ts).vector_clock[Leader]
  <2>1. CASE store[Leader] = None
    BY <1>2, <1>3, <2>1, NewType, NewFields
  <2>2. CASE store[Leader] # None
    BY <1>2, <1>3, <2>2, LeaderVersion, UpdateType, ChangeFields
  <2>3. QED
    BY <2>1, <2>2
<1>. HIDE DEF ver
<1>5. Write("adminPut", Leader, Admin, ver(ts), Node \ {Leader}, 1)
  BY <1>1 DEF ts
<1>6. LeaderWrites("adminPut", Admin, ver(ts), Node \ {Leader}, 1)
  BY <1>3, <1>4, <1>5 DEF LeaderWrites
<1>7. QED
  BY <1>6

-----------------------------------------------------------------------------
(* Tasks.                                                                  *)

\* A delivery does not touch what the Leader holds, and leaves the receiver
\* with nothing newer; the Leader's version always gets through.
LEMMA LeaderHandle ==
    ASSUME TypeOK, LeaderInv, NEW t \in tasks, Handle(t)
    PROVE  /\ store'[Leader] = store[Leader]
           /\ \A n \in Node : store'[n] # None => Behind(store'[n], store[Leader])
           /\ \A n \in Node : store[n] = store[Leader] => store'[n] = store[n]
           /\ t.ver = store[Leader] => store'[t.to] = store[Leader]
<1>1. t.ver \in Version /\ t.to \in Node /\ Behind(t.ver, store[Leader])
  BY DEF TypeOK, Task, LeaderInv, TasksCarryWrites, LeaderNewest
<1>2. store[Leader] \in Version /\ Leader \in Node
  BY <1>1, LeaderAssumption DEF TypeOK, Behind
<1>. DEFINE got == Merge(store[t.to], t.ver)
<1>3. store' = [store EXCEPT ![t.to] = got] /\ store \in [Node -> Version \cup {None}]
  BY <1>1, NoneAssumption DEF Handle, Received, TypeOK
<1>4. store[t.to] = store[Leader] => got = store[Leader]
  BY <1>1, <1>2, NewestWins
<1>5. t.ver = store[Leader] => got = store[Leader]
  <2>1. CASE store[t.to] = None
    BY <2>1 DEF Merge
  <2>2. CASE store[t.to] # None
    <3>1. store[t.to] \in Version /\ Behind(store[t.to], store[Leader])
      BY <1>1, <2>2 DEF TypeOK, LeaderInv, LeaderNewest
    <3>2. QED
      BY <1>2, <3>1, NewestWins
  <2>3. QED
    BY <2>1, <2>2
<1>6. got # None => Behind(got, store[Leader])
  BY <1>1 DEF Merge, LeaderInv, LeaderNewest
<1>. HIDE DEF got
<1>7. QED
  BY <1>1, <1>2, <1>3, <1>4, <1>5, <1>6 DEF LeaderInv, LeaderNewest

\* Removing a task that has been handled, or replacing one by its next attempt
\* or its abandoned request, keeps the invariant.
LEMMA LeaderTask ==
    ASSUME TypeOK, LeaderInv, NEW t \in tasks,
           NEW again \in SUBSET Task,
           \A r \in again : r.ver = t.ver /\ r.req = t.req /\ r.to = t.to,
           tasks' = (tasks \ {t}) \cup again,
           UNCHANGED <<reads, deletes, log>>,
           \/ Handle(t) /\ lost' = lost
           \/ store' = store /\ lost' = (lost \/ GivenUp(t, tasks'))
    PROVE  LeaderInv'
<1>1. /\ store'[Leader] = store[Leader]
      /\ \A n \in Node : store'[n] # None => Behind(store'[n], store[Leader])
      /\ \A n \in Node : store[n] = store[Leader] => store'[n] = store[n]
  BY LeaderHandle DEF LeaderInv, LeaderNewest
<1>2. \A r \in tasks' : \E q \in tasks : r.ver = q.ver /\ r.req = q.req
  OBVIOUS
<1>3. LeaderNewest'
  <2>1. \A r \in tasks' : Behind(r.ver, store[Leader])
    BY <1>2 DEF LeaderInv, LeaderNewest
  <2>2. QED
    BY <1>1, <2>1 DEF LeaderInv, LeaderNewest, Holders, Answered
<1>4. LeaderCurrent'
  BY <1>1 DEF LeaderInv, LeaderCurrent, Writes, Current
<1>5. TasksCarryWrites'
  BY <1>2 DEF LeaderInv, TasksCarryWrites
<1>6. Covered'
  <2>. SUFFICES ASSUME ~lost', NEW n \in Node, store'[n] # store'[Leader]
                PROVE  InFlight(store[Leader], n)'
    BY <1>1 DEF Covered, InFlight
  <2>0. store[n] # store[Leader]
    BY <1>1
  <2>1. ~lost
    BY Zenon
  <2>2. PICK q \in tasks : /\ q.to = n
                           /\ q.ver = store[Leader]
                           /\ log[q.req].op # "get"
    BY <2>0, <2>1 DEF LeaderInv, Covered, InFlight
  <2>3. CASE q \in tasks'
    BY <1>1, <2>2, <2>3 DEF InFlight
  <2>4. CASE q \notin tasks'
    <3>1. q = t
      BY <2>4
    <3>2. ~Handle(t)
      BY <1>1, <2>2, <3>1, LeaderHandle
    <3>3. ~GivenUp(t, tasks')
      BY <3>2
    <3>4. PICK r \in tasks' : r.req = t.req /\ r.to = t.to
      BY <2>2, <3>1, <3>3 DEF GivenUp
    <3>5. PICK p \in tasks : p.ver = r.ver /\ p.req = r.req
      BY <1>2
    <3>6. /\ p.ver.id = p.req /\ t.ver.id = t.req
          /\ Behind(p.ver, store[Leader])
      BY <2>2, <3>1, <3>4, <3>5 DEF LeaderInv, TasksCarryWrites, LeaderNewest
    <3>7. store[Leader].id \in Nat
      BY <2>2, <3>6, LeaderAssumption DEF TypeOK, Version, Behind
    <3>8. p.ver = store[Leader]
      BY <2>2, <3>1, <3>4, <3>5, <3>6, <3>7 DEF Behind
    <3>9. QED
      BY <1>1, <2>2, <3>1, <3>4, <3>5, <3>8 DEF InFlight
  <2>5. QED
    BY <2>3, <2>4
<1>7. QED
  BY <1>3, <1>4, <1>5, <1>6 DEF LeaderInv

LEMMA LeaderTaskStep ==
    ASSUME TypeOK, LeaderInv, TaskStep
    PROVE  LeaderInv'
<1>1. PICK t \in tasks : \/ Deliver(t)
                         \/ Refuse(t)
                         \/ DeliverUnanswered(t)
                         \/ Timeout(t)
                         \/ Drop(t)
  BY DEF TaskStep
<1>2. t \in Task /\ NextAttempt(t) \subseteq Task
  BY NextAttemptType DEF TypeOK
<1>3. \A r \in NextAttempt(t) : r.ver = t.ver /\ r.req = t.req /\ r.to = t.to
  BY <1>2 DEF NextAttempt, Task
<1>4. CASE Deliver(t)
  <2>. DEFINE none == {}
  <2>1. /\ Handle(t) /\ lost' = lost
        /\ tasks' = (tasks \ {t}) \cup none
        /\ UNCHANGED <<reads, deletes, log>>
    BY <1>4 DEF Deliver
  <2>2. none \in SUBSET Task /\ \A r \in none : FALSE
    OBVIOUS
  <2>. HIDE DEF none
  <2>3. QED
    BY <2>1, <2>2, LeaderTask
<1>5. CASE Refuse(t)
  <2>1. /\ store' = store /\ lost' = (lost \/ GivenUp(t, tasks'))
        /\ tasks' = (tasks \ {t}) \cup NextAttempt(t)
        /\ UNCHANGED <<reads, deletes, log>>
    BY <1>5 DEF Refuse
  <2>2. QED
    BY <1>2, <1>3, <2>1, LeaderTask
<1>6. CASE DeliverUnanswered(t)
  <2>1. /\ Handle(t) /\ lost' = lost
        /\ tasks' = (tasks \ {t}) \cup NextAttempt(t)
        /\ UNCHANGED <<reads, deletes, log>>
    BY <1>6 DEF DeliverUnanswered
  <2>2. QED
    BY <1>2, <1>3, <2>1, LeaderTask
<1>7. CASE Timeout(t)
  <2>1. PICK stray \in {{}, {[t EXCEPT !.left = 0]}} :
            tasks' = (tasks \ {t}) \cup NextAttempt(t) \cup stray
    BY <1>7 DEF Timeout
  <2>. DEFINE again == NextAttempt(t) \cup stray
  <2>2. /\ again \in SUBSET Task
        /\ \A r \in again : r.ver = t.ver /\ r.req = t.req /\ r.to = t.to
    <3>1. /\ stray \subseteq Task
          /\ \A r \in stray : r.ver = t.ver /\ r.req = t.req /\ r.to = t.to
      BY <1>2, ConstantsAssumption DEF Task
    <3>2. QED
      BY <1>2, <1>3, <3>1
  <2>3. /\ store' = store /\ lost' = (lost \/ GivenUp(t, tasks'))
        /\ tasks' = (tasks \ {t}) \cup again
        /\ UNCHANGED <<reads, deletes, log>>
    BY <1>7, <2>1 DEF Timeout
  <2>. HIDE DEF again
  <2>4. QED
    BY <2>2, <2>3, LeaderTask
<1>8. CASE Drop(t)
  <2>. DEFINE none == {}
  <2>1. /\ store' = store /\ lost' = (lost \/ GivenUp(t, tasks'))
        /\ tasks' = (tasks \ {t}) \cup none
        /\ UNCHANGED <<reads, deletes, log>>
    BY <1>8 DEF Drop
  <2>2. none \in SUBSET Task /\ \A r \in none : FALSE
    OBVIOUS
  <2>. HIDE DEF none
  <2>3. QED
    BY <2>1, <2>2, LeaderTask
<1>9. QED
  BY <1>1, <1>4, <1>5, <1>6, <1>7, <1>8

-----------------------------------------------------------------------------
(* Reads.                                                                  *)

LEMMA LeaderGetStart ==
    ASSUME TypeOK, LeaderInv, NEW u \in User, NEW view, GetStart(Leader, u, view)
    PROVE  LeaderInv'
<1>. DEFINE r == [by |-> u, floor |-> store[Leader], req |-> NextId,
                  resp |-> [m \in Node |->
                               IF m \in view THEN Pending ELSE Silent]]
<1>1. /\ reads' = [reads EXCEPT ![Leader] = r]
      /\ Accept("get", Leader, u)
      /\ UNCHANGED <<store, tasks, deletes, lost>>
  BY DEF GetStart
<1>2. u \in Owner /\ "get" \in Ops /\ Leader \in Node
  BY LeaderAssumption DEF Owner, Ops
<1>3. /\ DOMAIN log' = DOMAIN log \cup {NextId}
      /\ NextId \notin DOMAIN log
      /\ \A i \in DOMAIN log : log'[i] = log[i]
      /\ log'[NextId].op = "get"
  BY <1>1, <1>2, AcceptExtends
<1>4. Holders(r) = {} /\ r.req = NextId
  BY DEF Holders, Answered
<1>. HIDE DEF r
<1>5. /\ reads'[Leader] = r
      /\ \A n \in Node \ {Leader} : reads'[n] = reads[n]
  BY <1>1, <1>2 DEF TypeOK
<1>6. LeaderNewest'
  <2>1. \A n \in Node : reads'[n] # None =>
            \A m \in Holders(reads'[n]) :
                Behind(reads'[n].resp[m], store[Leader])
    BY <1>4, <1>5 DEF LeaderInv, LeaderNewest
  <2>2. QED
    BY <1>1, <2>1 DEF LeaderInv, LeaderNewest, Holders, Answered
<1>7. LeaderCurrent'
  <2>1. Writes' = Writes
    BY <1>3 DEF Writes
  <2>2. \A i \in Writes : log'[i] = log[i]
    BY <1>3 DEF Writes
  <2>3. Current' = Current
    BY <2>1, <2>2 DEF Current
  <2>4. QED
    BY <1>1, <2>1, <2>3 DEF LeaderInv, LeaderCurrent
<1>8. TasksCarryWrites'
  BY <1>1, <1>3, <1>4, <1>5 DEF LeaderInv, TasksCarryWrites
<1>9. Covered'
  <2>1. \A n \in Node : InFlight(store[Leader], n) => InFlight(store[Leader], n)'
    BY <1>1, <1>3 DEF InFlight, LeaderInv, TasksCarryWrites
  <2>2. QED
    BY <1>1, <2>1 DEF LeaderInv, Covered, InFlight
<1>10. QED
  BY <1>6, <1>7, <1>8, <1>9 DEF LeaderInv

LEMMA LeaderGetReply ==
    ASSUME TypeOK, LeaderInv, NEW n \in Node, NEW m \in Node,
           GetAnswer(n, m) \/ GetError(n, m)
    PROVE  LeaderInv'
<1>1. PICK x \in {store[m], Silent} :
          /\ reads[n] # None
          /\ reads' = [reads EXCEPT ![n].resp[m] = x]
          /\ UNCHANGED <<store, tasks, deletes, log, lost>>
  BY DEF GetAnswer, GetError
<1>. DEFINE r == [reads[n] EXCEPT !.resp[m] = x]
<1>2. reads' = [reads EXCEPT ![n] = r]
  BY <1>1
<1>3. reads[n] \in Read
  BY <1>1 DEF TypeOK
<1>4. /\ r.req = reads[n].req
      /\ r.resp = [reads[n].resp EXCEPT ![m] = x]
      /\ reads[n].resp \in [Node -> Version \cup {None, Pending, Silent}]
  BY <1>3 DEF Read
<1>. HIDE DEF r
<1>5. \A k \in Holders(r) : Behind(r.resp[k], store[Leader])
  BY <1>1, <1>4 DEF Holders, Answered, LeaderInv, LeaderNewest
<1>6. reads'[n] = r /\ \A i \in Node \ {n} : reads'[i] = reads[i]
  BY <1>2 DEF TypeOK
<1>7. LeaderNewest'
  <2>1. \A i \in Node : reads'[i] # None =>
            \A k \in Holders(reads'[i]) :
                Behind(reads'[i].resp[k], store[Leader])
    BY <1>5, <1>6 DEF LeaderInv, LeaderNewest
  <2>2. QED
    BY <1>1, <2>1 DEF LeaderInv, LeaderNewest, Holders, Answered
<1>8. LeaderCurrent' /\ Covered'
  BY <1>1 DEF LeaderInv, LeaderCurrent, Writes, Current, Covered, InFlight
<1>9. TasksCarryWrites'
  BY <1>1, <1>4, <1>6 DEF LeaderInv, TasksCarryWrites
<1>10. QED
  BY <1>7, <1>8, <1>9 DEF LeaderInv

LEMMA LeaderGetFinish ==
    ASSUME TypeOK, LeaderInv, NEW n \in Node, GetFinish(n)
    PROVE  LeaderInv'
<1>1. /\ reads[n] # None
      /\ reads' = [reads EXCEPT ![n] = None]
      /\ UNCHANGED <<store, deletes, log, lost>>
  BY DEF GetFinish
<1>2. \A i \in Node : reads'[i] # None => reads'[i] = reads[i]
  BY <1>1 DEF TypeOK
<1>3. /\ tasks \subseteq tasks'
      /\ \A t \in tasks' \ tasks : /\ t.ver # None /\ t.req = reads[n].req
                                  /\ Behind(t.ver, store[Leader])
  <2>1. CASE tasks' = tasks
    BY <2>1
  <2>2. ASSUME NEW m \in Holders(reads[n]),
               tasks' = tasks \cup
                   {[ver |-> reads[n].resp[m], req |-> reads[n].req, to |-> k,
                     left |-> 1] : k \in ToRepair(reads[n], reads[n].resp[m])}
        PROVE  /\ tasks \subseteq tasks'
               /\ \A t \in tasks' \ tasks :
                     /\ t.ver # None /\ t.req = reads[n].req
                     /\ Behind(t.ver, store[Leader])
    <3>1. reads[n].resp[m] # None /\ Behind(reads[n].resp[m], store[Leader])
      BY <1>1 DEF Holders, LeaderInv, LeaderNewest
    <3>2. \A t \in tasks' \ tasks :
              t.ver = reads[n].resp[m] /\ t.req = reads[n].req
      BY <2>2
    <3>3. QED
      BY <2>2, <3>1, <3>2
  <2>3. QED
    BY <2>1, <2>2 DEF GetFinish
<1>4. LeaderNewest'
  <2>1. \A i \in Node : reads'[i] # None =>
            \A k \in Holders(reads'[i]) :
                Behind(reads'[i].resp[k], store[Leader])
    BY <1>2 DEF LeaderInv, LeaderNewest
  <2>2. QED
    BY <1>1, <1>3, <2>1 DEF LeaderInv, LeaderNewest, Holders, Answered
<1>5. LeaderCurrent'
  BY <1>1 DEF LeaderInv, LeaderCurrent, Writes, Current
<1>6. TasksCarryWrites'
  BY <1>1, <1>2, <1>3 DEF LeaderInv, TasksCarryWrites
<1>7. Covered'
  <2>1. \A i \in Node : InFlight(store[Leader], i) => InFlight(store[Leader], i)'
    BY <1>1, <1>3 DEF InFlight
  <2>2. QED
    BY <1>1, <2>1 DEF LeaderInv, Covered, InFlight
<1>8. QED
  BY <1>4, <1>5, <1>6, <1>7 DEF LeaderInv

-----------------------------------------------------------------------------
(* What follows from the newest version being the Leader's.                *)

LEMMA LeaderInit == Init => LeaderInv
<1>. SUFFICES ASSUME Init PROVE LeaderInv
  OBVIOUS
<1>1. Writes = {}
  BY DEF Init, Writes
<1>2. LeaderNewest /\ TasksCarryWrites /\ Covered
  BY LeaderAssumption DEF Init, LeaderNewest, TasksCarryWrites, Covered
<1>3. LeaderCurrent
  BY <1>1, LeaderAssumption DEF Init, LeaderCurrent
<1>4. QED
  BY <1>2, <1>3 DEF LeaderInv

LEMMA LeaderNext ==
    TypeOK /\ OwnerInv /\ LeaderInv /\ [KeepingNext]_vars => LeaderInv'
<1>. SUFFICES ASSUME TypeOK, OwnerInv, LeaderInv, [KeepingNext]_vars
              PROVE  LeaderInv'
  OBVIOUS
<1>1. Coordinators = {Leader} /\ Views = {Node}
  BY LeaderAssumption
<1>2. CASE ClientStep
  BY <1>1, <1>2, LeaderPut, LeaderPatch, LeaderAdminPut, LeaderWrite,
     LeaderGetStart DEF ClientStep
<1>3. CASE TaskStep
  BY <1>3, LeaderTaskStep
<1>4. CASE ReadStep
  BY <1>4, LeaderGetReply, LeaderGetFinish DEF ReadStep
<1>5. CASE UNCHANGED vars
  BY <1>5 DEF vars, LeaderInv, LeaderNewest, Holders, Answered, LeaderCurrent,
              Writes, Current, TasksCarryWrites, Covered, InFlight
<1>6. QED
  BY <1>2, <1>3, <1>4, <1>5 DEF KeepingNext

\* The inductive invariant: the Leader's version is the newest anywhere, holds
\* every acknowledged write, and is held by or on its way to every replica
\* unless a request was given up.
THEOREM LeaderInvariant == KeepingSpec => []LeaderInv
<1>1. Init => LeaderInv
  BY LeaderInit
<1>2. TypeOK /\ OwnerInv /\ LeaderInv /\ [KeepingNext]_vars => LeaderInv'
  BY LeaderNext
<1>3. QED
  BY <1>1, <1>2, KeepingIsStore, OwnerInvariant, PTL DEF KeepingSpec

\* No late PUT of the Leader to itself, no retry, no abandoned request and no
\* read repair ever undoes an acknowledged write at the Leader, even when its
\* clock is set back.
THEOREM AckedWritesAreKept == KeepingSpec => []AckedWritesKept
<1>1. LeaderInv => AckedWritesKept
  BY DEF LeaderInv, LeaderCurrent, AckedWritesKept
<1>2. QED
  BY <1>1, LeaderInvariant, PTL

\* Eventual consistency, its safety part: once no request is under way and
\* none was given up, all replicas hold the same record.
THEOREM ReplicasConverge == KeepingSpec => []QuiescentConverged
<1>1. LeaderInv => QuiescentConverged
  <2>. SUFFICES ASSUME LeaderInv, Quiescent, ~lost, NEW m \in Node, NEW n \in Node
                PROVE  store[m] = store[n]
    BY DEF QuiescentConverged
  <2>1. \A k \in Node : ~InFlight(store[Leader], k)
    BY DEF Quiescent, InFlight
  <2>2. \A k \in Node : store[k] = store[Leader]
    BY <2>1 DEF LeaderInv, Covered
  <2>3. QED
    BY <2>2
<1>2. QED
  BY <1>1, LeaderInvariant, PTL

-----------------------------------------------------------------------------
(* The versions of the history.                                            *)

\* Membership in Known, spelled out.
LEMMA KnownIff ==
    ASSUME NEW v
    PROVE  v \in Known <=>
               /\ v # None
               /\ \/ \E n \in Node : v = store[n]
                  \/ \E t \in tasks : v = t.ver
                  \/ \E n \in Node : /\ reads[n] # None
                                     /\ \E m \in Holders(reads[n]) :
                                           v = reads[n].resp[m]
  BY DEF Known

\* A known version is whole and no newer than the Leader's.
LEMMA KnownBehind ==
    ASSUME TypeOK, LeaderInv, NEW v \in Known
    PROVE  v \in Version /\ Behind(v, store[Leader])
<1>1. CASE \E n \in Node : v = store[n]
  BY <1>1, KnownIff DEF TypeOK, LeaderInv, LeaderNewest
<1>2. CASE \E t \in tasks : v = t.ver
  BY <1>2, KnownIff DEF TypeOK, Task, LeaderInv, LeaderNewest
<1>3. CASE \E n \in Node : /\ reads[n] # None
                           /\ \E m \in Holders(reads[n]) :
                                 v = reads[n].resp[m]
  BY <1>3, HolderAnswer DEF LeaderInv, LeaderNewest
<1>4. QED
  BY <1>1, <1>2, <1>3, KnownIff

\* Writes are positions in the log.
LEMMA WritesBefore ==
    ASSUME TypeOK, NEW i \in Writes
    PROVE  i \in Nat /\ i # 0 /\ i < NextId
  BY DEF TypeOK, Writes, NextId

\* A step that accepts no write keeps the history.
LEMMA HistoryUntouched ==
    ASSUME Writes' = Writes, \A i \in Writes : log'[i] = log[i]
    PROVE  \A i : BodyAt(i)' = BodyAt(i)
  BY DEF BodyAt

\* Nor does it disturb the invariant, if it makes no new version.
LEMMA HistoryKept ==
    ASSUME HistoryInv, Known' \subseteq Known, Writes' = Writes,
           \A i \in Writes : log'[i] = log[i]
    PROVE  HistoryInv'
<1>1. \A i : BodyAt(i)' = BodyAt(i)
  BY HistoryUntouched
<1>2. \A v, w \in Known' : Ordered(v, w)'
  BY DEF HistoryInv, Ordered
<1>3. \A v \in Known' : v.id \in Writes' /\ v.value = BodyAt(v.id)'
  BY <1>1 DEF HistoryInv
<1>4. QED
  BY <1>2, <1>3 DEF HistoryInv

\* What accepting a write makes of the history.
LEMMA HistoryExtends ==
    ASSUME TypeOK, NEW op, NEW by, NEW ver, NEW targets, NEW left,
           LeaderWrites(op, by, ver, targets, left), LeaderInv
    PROVE  /\ Writes' = Writes \cup {NextId}
           /\ \A i \in Writes : BodyAt(i)' = BodyAt(i)
           /\ \A i : i = NextId => BodyAt(i)' = ver.value
<1>1. /\ op \in {"put", "patch", "adminPut"} /\ by \in Owner
      /\ Accept(op, Leader, by)
      /\ ver.value = IF op = "patch" THEN store[Leader].value \cup {NextId}
                                     ELSE {NextId}
      /\ op = "patch" => store[Leader] # None
  BY DEF LeaderWrites, Write
<1>2. /\ Writes' = Writes \cup {NextId}
      /\ Current' = IF op = "patch" THEN Current \cup {NextId} ELSE {NextId}
  BY <1>1, AcceptWrite
<1>3. \A i \in Writes : log'[i] = log[i]
  <2>1. op \in Ops /\ Leader \in Node
    BY <1>1, LeaderAssumption DEF Ops
  <2>2. QED
    BY <1>1, <2>1, AcceptExtends DEF Writes
<1>4. \A i \in Writes : i \in Nat /\ i < NextId
  BY WritesBefore
<1>5. NextId \in Nat
  BY DEF TypeOK, NextId
<1>6. \A i \in Writes : BodyAt(i)' = BodyAt(i)
  <2>. TAKE i \in Writes
  <2>1. BodyAt(i)' = {j \in Writes' :
            /\ j <= i
            /\ \A k \in Writes' : (k <= i /\ log'[k].op # "patch") => k <= j}
    BY DEF BodyAt
  <2>2. QED
    BY <1>2, <1>3, <1>4, <1>5, <2>1 DEF BodyAt
<1>7. \A i : i = NextId => BodyAt(i)' = Current'
  <2>. SUFFICES ASSUME NEW i, i = NextId
                PROVE  BodyAt(i)' = Current'
    OBVIOUS
  <2>1. BodyAt(i)' = {j \in Writes' :
            /\ j <= i
            /\ \A k \in Writes' : (k <= i /\ log'[k].op # "patch") => k <= j}
    BY DEF BodyAt
  <2>2. Current' = {j \in Writes' :
            \A k \in Writes' : log'[k].op # "patch" => k <= j}
    BY DEF Current
  <2>3. \A j \in Writes' : j <= i
    BY <1>2, <1>4, <1>5
  <2>4. QED
    BY <2>1, <2>2, <2>3
<1>8. Current' = ver.value
  BY <1>1, <1>2 DEF LeaderInv, LeaderCurrent
<1>9. QED
  BY <1>2, <1>6, <1>7, <1>8

-----------------------------------------------------------------------------
(* The invariant.                                                          *)

\* A write at the Leader adds one version, ahead of all others.
LEMMA HistoryWrite ==
    ASSUME TypeOK, LeaderInv, HistoryInv,
           NEW op, NEW by, NEW ver, NEW targets, NEW left,
           LeaderWrites(op, by, ver, targets, left)
    PROVE  HistoryInv'
<1>1. /\ ver \in Version /\ ver.id = NextId
      /\ store[Leader] # None =>
            store[Leader].vector_clock[Leader] < ver.vector_clock[Leader]
      /\ store' = [store EXCEPT ![Leader] = ver]
      /\ tasks' = tasks \cup Spawn(ver, targets, left)
      /\ reads' = reads
  BY DEF LeaderWrites, Write
<1>2. \A v \in Known' : v \in Known \/ v = ver
  <2>. SUFFICES ASSUME NEW v \in Known', v # ver
                PROVE  v \in Known
    OBVIOUS
  <2>1. /\ v # None
        /\ \/ \E n \in Node : v = store'[n]
           \/ \E t \in tasks' : v = t.ver
           \/ \E n \in Node : /\ reads[n] # None
                              /\ \E m \in Holders(reads[n]) :
                                    v = reads[n].resp[m]
    BY <1>1 DEF Known, Holders, Answered
  <2>2. \A n \in Node : store'[n] \in {store[n], ver}
    BY <1>1 DEF TypeOK
  <2>3. \A t \in tasks' : t \in tasks \/ t.ver = ver
    BY <1>1 DEF Spawn
  <2>4. QED
    BY <2>1, <2>2, <2>3, KnownIff
<1>3. /\ Writes' = Writes \cup {NextId}
      /\ \A i \in Writes : BodyAt(i)' = BodyAt(i)
      /\ \A i : i = NextId => BodyAt(i)' = ver.value
  BY HistoryExtends
<1>4. \A v \in Known : /\ v.id < ver.id
                       /\ v.vector_clock[Leader] < ver.vector_clock[Leader]
  <2>. TAKE v \in Known
  <2>1. v.id < ver.id
    BY <1>1, WritesBefore DEF HistoryInv
  <2>2. v \in Version /\ Behind(v, store[Leader])
    BY KnownBehind
  <2>3. store[Leader] # None /\ store[Leader] \in Version
    BY <2>2, LeaderAssumption DEF Behind, TypeOK
  <2>4. /\ v.vector_clock[Leader] \in Nat
        /\ store[Leader].vector_clock[Leader] \in Nat
        /\ ver.vector_clock[Leader] \in Nat
    BY <1>1, <2>2, <2>3, LeaderAssumption DEF Version, Clock
  <2>5. v.vector_clock[Leader] <= store[Leader].vector_clock[Leader]
    BY <2>2, <2>4 DEF Behind
  <2>6. QED
    BY <1>1, <2>1, <2>3, <2>4, <2>5
<1>5. \A v \in Known' : v.id \in Writes' /\ v.value = BodyAt(v.id)'
  BY <1>1, <1>2, <1>3 DEF HistoryInv
<1>6. \A v, w \in Known' : Ordered(v, w)
  BY <1>2, <1>4 DEF HistoryInv, Ordered
<1>7. QED
  BY <1>5, <1>6 DEF HistoryInv, Ordered

\* A request in the log that is not a write leaves the history alone.
LEMMA GetKeepsWrites ==
    ASSUME TypeOK, NEW u \in User, NEW view, GetStart(Leader, u, view)
    PROVE  Writes' = Writes /\ \A i \in Writes : log'[i] = log[i]
<1>1. u \in Owner /\ "get" \in Ops /\ Leader \in Node
  BY LeaderAssumption DEF Owner, Ops
<1>2. /\ DOMAIN log' = DOMAIN log \cup {NextId}
      /\ NextId \notin DOMAIN log
      /\ \A i \in DOMAIN log : log'[i] = log[i]
      /\ log'[NextId].op = "get"
  BY <1>1, AcceptExtends DEF GetStart
<1>3. QED
  BY <1>2 DEF Writes

\* A GET that starts has no answers yet.
LEMMA GetStartKnows ==
    ASSUME TypeOK, NEW u \in User, NEW view, GetStart(Leader, u, view)
    PROVE  Known' \subseteq Known
<1>. DEFINE r == [by |-> u, floor |-> store[Leader], req |-> NextId,
                  resp |-> [m \in Node |->
                               IF m \in view THEN Pending ELSE Silent]]
<1>1. reads' = [reads EXCEPT ![Leader] = r] /\ UNCHANGED <<store, tasks>>
  BY DEF GetStart
<1>2. Holders(r) = {}
  BY DEF Holders, Answered
<1>. HIDE DEF r
<1>3. \A n \in Node : reads'[n] = reads[n] \/ Holders(reads'[n]) = {}
  BY <1>1, <1>2 DEF TypeOK
<1>. SUFFICES ASSUME NEW v \in Known' PROVE v \in Known
  OBVIOUS
<1>4. /\ v # None
      /\ \/ \E n \in Node : v = store[n]
         \/ \E t \in tasks : v = t.ver
         \/ \E n \in Node : /\ reads'[n] # None
                            /\ \E m \in Holders(reads'[n]) :
                                  v = reads'[n].resp[m]
  BY <1>1 DEF Known, Holders, Answered
<1>5. QED
  BY <1>3, <1>4, KnownIff

\* A step of a task moves versions, and makes none.
LEMMA TaskKnows ==
    ASSUME TypeOK, LeaderInv, TaskStep
    PROVE  /\ Known' \subseteq Known
           /\ UNCHANGED <<reads, log>>
           /\ \/ store' = store
              \/ \E t \in tasks : Handle(t)
<1>1. PICK t \in tasks : \/ Deliver(t)
                         \/ Refuse(t)
                         \/ DeliverUnanswered(t)
                         \/ Timeout(t)
                         \/ Drop(t)
  BY DEF TaskStep
<1>2. UNCHANGED <<reads, log>> /\ (store' = store \/ Handle(t))
  BY <1>1 DEF Deliver, Refuse, DeliverUnanswered, Timeout, Drop
<1>3. \A r \in NextAttempt(t) : r.ver = t.ver
  BY DEF NextAttempt, TypeOK, Task
<1>4. \A r \in tasks' : r \in tasks \/ r.ver = t.ver
  <2>1. t \in Task
    BY DEF TypeOK
  <2>2. CASE Timeout(t)
    BY <1>3, <2>1, <2>2 DEF Timeout, Task
  <2>3. CASE ~Timeout(t)
    BY <1>1, <1>3, <2>3 DEF Deliver, Refuse, DeliverUnanswered, Drop
  <2>4. QED
    BY <2>2, <2>3
<1>5. \A n \in Node : store'[n] \in {store[n], t.ver}
  <2>1. t.to \in Node /\ t.ver # None
    BY DEF TypeOK, Task, LeaderInv, TasksCarryWrites
  <2>2. CASE Handle(t)
    BY <2>1, <2>2 DEF Handle, Received, Merge, TypeOK
  <2>3. CASE store' = store
    BY <2>3
  <2>4. QED
    BY <1>2, <2>2, <2>3
<1>6. ASSUME NEW v \in Known'
      PROVE  v \in Known
  <2>1. /\ v # None
        /\ \/ \E n \in Node : v = store'[n]
           \/ \E r \in tasks' : v = r.ver
           \/ \E n \in Node : /\ reads[n] # None
                              /\ \E m \in Holders(reads[n]) :
                                    v = reads[n].resp[m]
    BY <1>2 DEF Known, Holders, Answered
  <2>2. QED
    BY <1>4, <1>5, <2>1, KnownIff
<1>7. QED
  BY <1>2, <1>6

\* A step of a GET copies versions, and makes none.
LEMMA ReadKnows ==
    ASSUME TypeOK, ReadStep
    PROVE  Known' \subseteq Known /\ UNCHANGED <<store, log>>
<1>1. ASSUME NEW n \in Node, NEW m \in Node, GetAnswer(n, m) \/ GetError(n, m)
      PROVE  Known' \subseteq Known /\ UNCHANGED <<store, log>>
  <2>1. PICK x \in {store[m], Silent} :
            /\ reads[n] # None
            /\ reads' = [reads EXCEPT ![n].resp[m] = x]
            /\ UNCHANGED <<store, tasks, log>>
    BY <1>1 DEF GetAnswer, GetError
  <2>. DEFINE r == [reads[n] EXCEPT !.resp[m] = x]
  <2>2. reads' = [reads EXCEPT ![n] = r]
    BY <2>1
  <2>3. reads[n] \in Read
    BY <2>1 DEF TypeOK
  <2>4. /\ r.resp = [reads[n].resp EXCEPT ![m] = x]
        /\ reads[n].resp \in [Node -> Version \cup {None, Pending, Silent}]
    BY <2>3 DEF Read
  <2>. HIDE DEF r
  <2>5. \A k \in Holders(r) :
            \/ r.resp[k] = store[m]
            \/ k \in Holders(reads[n]) /\ r.resp[k] = reads[n].resp[k]
    BY <2>1, <2>4 DEF Holders, Answered
  <2>6. reads'[n] = r /\ \A i \in Node \ {n} : reads'[i] = reads[i]
    BY <2>2 DEF TypeOK
  <2>7. ASSUME NEW v \in Known'
        PROVE  v \in Known
    <3>1. /\ v # None
          /\ \/ \E i \in Node : v = store[i]
             \/ \E t \in tasks : v = t.ver
             \/ \E i \in Node : /\ reads'[i] # None
                                /\ \E k \in Holders(reads'[i]) :
                                      v = reads'[i].resp[k]
      BY <2>1 DEF Known, Holders, Answered
    <3>2. CASE (\E i \in Node : v = store[i]) \/ \E t \in tasks : v = t.ver
      BY <3>1, <3>2, KnownIff
    <3>3. ASSUME NEW i \in Node, reads'[i] # None, NEW k \in Holders(reads'[i]),
                 v = reads'[i].resp[k]
          PROVE  v \in Known
      <4>1. CASE i = n
        <5>1. k \in Holders(r) /\ v = r.resp[k]
          BY <2>6, <3>3, <4>1
        <5>2. \/ v = store[m]
              \/ k \in Holders(reads[n]) /\ v = reads[n].resp[k]
          BY <2>5, <5>1
        <5>3. QED
          BY <2>1, <3>1, <5>2, KnownIff
      <4>2. CASE i # n
        BY <2>6, <3>1, <3>3, <4>2, KnownIff
      <4>3. QED
        BY <4>1, <4>2
    <3>4. QED
      BY <3>1, <3>2, <3>3
  <2>8. QED
    BY <2>1, <2>7
<1>2. ASSUME NEW n \in Node, GetFinish(n)
      PROVE  Known' \subseteq Known /\ UNCHANGED <<store, log>>
  <2>1. /\ reads[n] # None
        /\ reads' = [reads EXCEPT ![n] = None]
        /\ UNCHANGED <<store, log>>
    BY <1>2 DEF GetFinish
  <2>2. \A i \in Node : reads'[i] # None => reads'[i] = reads[i]
    BY <2>1 DEF TypeOK
  <2>3. \A t \in tasks' : \/ t \in tasks
                          \/ \E m \in Holders(reads[n]) :
                                t.ver = reads[n].resp[m]
    BY <1>2 DEF GetFinish
  <2>4. ASSUME NEW v \in Known'
        PROVE  v \in Known
    <3>1. /\ v # None
          /\ \/ \E i \in Node : v = store[i]
             \/ \E t \in tasks' : v = t.ver
             \/ \E i \in Node : /\ reads'[i] # None
                                /\ \E k \in Holders(reads'[i]) :
                                      v = reads'[i].resp[k]
      BY <2>1 DEF Known, Holders, Answered
    <3>2. CASE \E i \in Node : v = store[i]
      BY <3>1, <3>2, KnownIff
    <3>3. CASE \E t \in tasks' : v = t.ver
      BY <2>1, <2>3, <3>1, <3>3, KnownIff
    <3>4. CASE \E i \in Node : /\ reads'[i] # None
                               /\ \E k \in Holders(reads'[i]) :
                                     v = reads'[i].resp[k]
      BY <2>2, <3>1, <3>4, KnownIff
    <3>5. QED
      BY <3>1, <3>2, <3>3, <3>4
  <2>5. QED
    BY <2>1, <2>4
<1>3. QED
  BY <1>1, <1>2 DEF ReadStep

LEMMA HistoryInit == Init => HistoryInv
  BY DEF Init, HistoryInv, Known

\* What a step of a client does to the log and the versions.
LEMMA ClientCases ==
    ASSUME TypeOK, OwnerInv, LeaderInv, ClientStep
    PROVE  \/ \E op, by, ver, targets, left :
                  LeaderWrites(op, by, ver, targets, left)
           \/ \E u \in User, view \in Views : GetStart(Leader, u, view)
<1>1. Coordinators = {Leader} /\ Views = {Node}
  BY LeaderAssumption
<1>2. QED
  BY <1>1, LeaderPut, LeaderPatch, LeaderAdminPut DEF ClientStep

LEMMA HistoryNext ==
    TypeOK /\ OwnerInv /\ LeaderInv /\ HistoryInv /\ [KeepingNext]_vars
        => HistoryInv'
<1>. SUFFICES ASSUME TypeOK, OwnerInv, LeaderInv, HistoryInv,
                     [KeepingNext]_vars
              PROVE  HistoryInv'
  OBVIOUS
<1>1. ASSUME log' = log, Known' \subseteq Known
      PROVE  HistoryInv'
  <2>1. Writes' = Writes /\ \A i \in Writes : log'[i] = log[i]
    BY <1>1 DEF Writes
  <2>2. QED
    BY <1>1, <2>1, HistoryKept
<1>2. CASE ClientStep
  <2>1. ASSUME NEW u \in User, NEW view \in Views, GetStart(Leader, u, view)
        PROVE  HistoryInv'
    BY <2>1, GetKeepsWrites, GetStartKnows, HistoryKept
  <2>2. QED
    BY <1>2, <2>1, ClientCases, HistoryWrite
<1>3. CASE TaskStep
  BY <1>1, <1>3, TaskKnows
<1>4. CASE ReadStep
  BY <1>1, <1>4, ReadKnows
<1>5. CASE UNCHANGED vars
  <2>1. Known' = Known /\ log' = log
    BY <1>5 DEF vars, Known, Holders, Answered
  <2>2. QED
    BY <1>1, <2>1
<1>6. QED
  BY <1>2, <1>3, <1>4, <1>5 DEF KeepingNext

\* Every version anywhere in the cluster is one state of the Leader's history,
\* and the vector clocks alone put any two of them in their order, so that no
\* merge ever has to fall back on timestamps.
THEOREM HistoryInvariant == KeepingSpec => []HistoryInv
<1>1. Init => HistoryInv
  BY HistoryInit
<1>2. TypeOK /\ OwnerInv /\ LeaderInv /\ HistoryInv /\ [KeepingNext]_vars
          => HistoryInv'
  BY HistoryNext
<1>3. QED
  BY <1>1, <1>2, KeepingIsStore, OwnerInvariant, LeaderInvariant, PTL
     DEF KeepingSpec

-----------------------------------------------------------------------------
(* The refinement.                                                         *)

\* The abstract state, as values of the detailed one.
History == [i \in Writes |-> BodyAt(i)]

Copies == [n \in Node |-> CopyOf(n)]

\* The log grows by one entry with every accepted request.
LEMMA AcceptCounts ==
    ASSUME TypeOK, NEW op, NEW n, NEW by, Accept(op, n, by)
    PROVE  Len(log)' = Len(log) + 1
<1>. DEFINE e == [op |-> op, node |-> n, by |-> by, past |-> seen[n]]
<1>1. log' = Append(log, e) /\ log \in Seq(Request)
  BY DEF Accept, TypeOK
<1>. HIDE DEF e
<1>2. QED
  BY <1>1

LEMMA RefinesInit == Init => Abstract!Init
<1>. SUFFICES ASSUME Init PROVE Abstract!Init
  OBVIOUS
<1>1. Len(log) = 0 /\ Writes = {}
  BY DEF Init, Writes
<1>2. \A n \in Node : CopyOf(n) = [at |-> 0, body |-> {}]
  BY DEF Init, CopyOf
<1>3. QED
  BY <1>1, <1>2 DEF Abstract!Init, Abstract!Nothing

\* A write handler of the Leader extends the history.
LEMMA RefinesWrite ==
    ASSUME TypeOK, LeaderInv,
           NEW op, NEW by, NEW ver, NEW targets, NEW left,
           LeaderWrites(op, by, ver, targets, left)
    PROVE  Abstract!Write
<1>1. /\ ver \in Version /\ ver.id = NextId /\ Leader \in Node
      /\ Accept(op, Leader, by)
      /\ store' = [store EXCEPT ![Leader] = ver]
      /\ ver.value = IF op = "patch" THEN store[Leader].value \cup {NextId}
                                     ELSE {NextId}
      /\ op = "patch" => store[Leader] # None
  BY LeaderAssumption DEF LeaderWrites, Write
<1>2. Len(log)' = NextId /\ NextId = Len(log) + 1
  BY <1>1, AcceptCounts DEF NextId
<1>3. /\ Writes' = Writes \cup {NextId}
      /\ \A i \in Writes : BodyAt(i)' = BodyAt(i)
      /\ \A i : i = NextId => BodyAt(i)' = ver.value
  BY HistoryExtends
<1>4. NextId \notin Writes
  BY WritesBefore DEF TypeOK, NextId
<1>5. History' = [i \in (DOMAIN History) \cup {NextId} |->
                     IF i = NextId THEN ver.value ELSE History[i]]
  BY <1>3, <1>4 DEF History
<1>6. Copies' = [Copies EXCEPT ![Leader] = [at |-> NextId, body |-> ver.value]]
  <2>1. CopyOf(Leader)' = [at |-> NextId, body |-> ver.value]
    BY <1>1, NoneAssumption DEF CopyOf, TypeOK
  <2>2. \A n \in Node \ {Leader} : CopyOf(n)' = CopyOf(n)
    BY <1>1 DEF CopyOf, TypeOK
  <2>3. QED
    BY <1>1, <2>1, <2>2 DEF Copies
<1>7. ver.value \in {{NextId}, Copies[Leader].body \cup {NextId}}
  BY <1>1 DEF Copies, CopyOf
<1>8. ver.value \in Abstract!NewBodies(Len(log)')
  BY <1>2, <1>7 DEF Abstract!NewBodies, Copies
<1>9. \E b \in Abstract!NewBodies(Len(log)') :
          /\ History' = [i \in (DOMAIN History) \cup {Len(log)'} |->
                            IF i = Len(log)' THEN b ELSE History[i]]
          /\ Copies' = [Copies EXCEPT ![Leader] =
                            [at |-> Len(log)', body |-> b]]
  BY <1>2, <1>5, <1>6, <1>8
<1>10. QED
  BY <1>2, <1>9, Zenon DEF Abstract!Write, History, Copies

\* A GET only adds a request.
LEMMA RefinesRead ==
    ASSUME TypeOK, NEW u \in User, NEW view, GetStart(Leader, u, view)
    PROVE  Abstract!Read
<1>1. Len(log)' = Len(log) + 1 /\ store' = store
  BY AcceptCounts DEF GetStart
<1>2. Writes' = Writes /\ \A i \in Writes : log'[i] = log[i]
  BY GetKeepsWrites
<1>3. History' = History
  BY <1>2, HistoryUntouched DEF History
<1>4. Copies' = Copies
  BY <1>1 DEF Copies, CopyOf
<1>5. QED
  BY <1>1, <1>3, <1>4 DEF Abstract!Read, History, Copies

\* Nothing happens to the abstract state.
LEMMA RefinesStutter ==
    ASSUME store' = store, log' = log
    PROVE  UNCHANGED Abstract!vars
<1>1. Writes' = Writes /\ \A i : BodyAt(i)' = BodyAt(i)
  BY DEF Writes, BodyAt
<1>2. History' = History /\ Copies' = Copies
  BY <1>1 DEF History, Copies, CopyOf
<1>3. QED
  BY <1>2 DEF Abstract!vars, History, Copies

\* Of two versions of the history the merge keeps the later one.
LEMMA MergeForward ==
    ASSUME TypeOK, LeaderInv, HistoryInv, NEW v \in Known, NEW w \in Known,
           Supersedes(w, v)
    PROVE  v = w \/ v.id < w.id
<1>. SUFFICES ASSUME v # w, ~(v.id < w.id)
              PROVE  FALSE
  OBVIOUS
<1>1. w.id < v.id /\ w.vector_clock[Leader] < v.vector_clock[Leader]
  BY DEF HistoryInv, Ordered
<1>2. /\ v \in Version /\ w \in Version
      /\ Behind(v, store[Leader]) /\ Behind(w, store[Leader])
  BY KnownBehind
<1>3. Behind(w, v)
  BY <1>1, <1>2, NoneAssumption DEF Behind
<1>4. Merge(v, w) = v
  BY <1>2, <1>3, NewestWins
<1>5. QED
  BY <1>4 DEF Merge

\* A delivery moves its receiver forward in the history, or nowhere.
LEMMA RefinesHandle ==
    ASSUME TypeOK, LeaderInv, HistoryInv, NEW t \in tasks, Handle(t), log' = log
    PROVE  Abstract!Next \/ UNCHANGED Abstract!vars
<1>1. t.to \in Node /\ t.ver # None /\ t.ver \in Known
  BY KnownIff DEF TypeOK, Task, LeaderInv, TasksCarryWrites
<1>2. store' = [store EXCEPT ![t.to] = Merge(store[t.to], t.ver)]
  BY <1>1 DEF Handle, Received
<1>3. CASE store' = store
  BY <1>3, RefinesStutter
<1>4. CASE store' # store
  <2>1. /\ store' = [store EXCEPT ![t.to] = t.ver]
        /\ store[t.to] # t.ver
        /\ store[t.to] = None \/ Supersedes(t.ver, store[t.to])
    BY <1>1, <1>2, <1>4 DEF Merge, TypeOK
  <2>2. /\ t.ver.id \in Writes /\ t.ver.value = BodyAt(t.ver.id)
        /\ t.ver.id \in Nat /\ t.ver.id # 0
    BY <1>1, WritesBefore DEF HistoryInv
  <2>3. CopyOf(t.to).at < t.ver.id
    <3>1. CASE store[t.to] = None
      BY <2>2, <3>1 DEF CopyOf
    <3>2. CASE store[t.to] # None
      <4>1. store[t.to] \in Known
        BY <1>1, <3>2, KnownIff
      <4>2. store[t.to].id < t.ver.id
        BY <1>1, <2>1, <3>2, <4>1, MergeForward
      <4>3. QED
        BY <3>2, <4>2 DEF CopyOf
    <3>3. QED
      BY <3>1, <3>2
  <2>4. CopyOf(t.to).at \in Nat
    BY <1>1 DEF CopyOf, TypeOK, Version
  <2>5. Copies' = [Copies EXCEPT ![t.to] =
                      [at |-> t.ver.id, body |-> BodyAt(t.ver.id)]]
    <3>1. CopyOf(t.to)' = [at |-> t.ver.id, body |-> BodyAt(t.ver.id)]
      BY <1>1, <2>1, <2>2 DEF CopyOf, TypeOK
    <3>2. \A n \in Node \ {t.to} : CopyOf(n)' = CopyOf(n)
      BY <2>1 DEF CopyOf, TypeOK
    <3>3. QED
      BY <1>1, <3>1, <3>2 DEF Copies
  <2>6. History' = History
    BY DEF History, Writes, BodyAt
  <2>7. /\ t.ver.id \in DOMAIN History
        /\ History[t.ver.id] = BodyAt(t.ver.id)
        /\ t.ver.id > Copies[t.to].at
    BY <1>1, <2>2, <2>3, <2>4 DEF History, Copies
  <2>8. Abstract!CatchUp(t.to)
    BY <2>5, <2>6, <2>7 DEF Abstract!CatchUp, History, Copies
  <2>9. QED
    BY <1>1, <2>8 DEF Abstract!Next
<1>5. QED
  BY <1>3, <1>4

LEMMA RefinesNext ==
    TypeOK /\ OwnerInv /\ LeaderInv /\ HistoryInv /\ [KeepingNext]_vars
        => [Abstract!Next]_(Abstract!vars)
<1>. SUFFICES ASSUME TypeOK, OwnerInv, LeaderInv, HistoryInv,
                     [KeepingNext]_vars
              PROVE  Abstract!Next \/ UNCHANGED Abstract!vars
  OBVIOUS
<1>1. CASE ClientStep
  BY <1>1, ClientCases, RefinesWrite, RefinesRead DEF Abstract!Next
<1>2. CASE TaskStep
  BY <1>2, TaskKnows, RefinesHandle, RefinesStutter
<1>3. CASE ReadStep
  BY <1>3, ReadKnows, RefinesStutter
<1>4. CASE UNCHANGED vars
  BY <1>4, RefinesStutter DEF vars
<1>5. QED
  BY <1>1, <1>2, <1>3, <1>4 DEF KeepingNext

\* The deployment implements PrimaryCopy: through lost answers, retries,
\* abandoned requests that arrive late, requests of the Leader to itself and
\* read repair, every replica holds a state of the one history, and no
\* delivery takes a replica back in it.
THEOREM ImplementsPrimary == KeepingSpec => ImplementsPrimaryCopy
<1>1. Init => Abstract!Init
  BY RefinesInit
<1>2. TypeOK /\ OwnerInv /\ LeaderInv /\ HistoryInv /\ [KeepingNext]_vars
          => [Abstract!Next]_(Abstract!vars)
  BY RefinesNext
<1>3. QED
  BY <1>1, <1>2, KeepingIsStore, OwnerInvariant, LeaderInvariant,
     HistoryInvariant, PTL DEF KeepingSpec, ImplementsPrimaryCopy, Abstract!Spec

-----------------------------------------------------------------------------
(* What the replicas know.                                                 *)

\* A delivery brings a later version of the history, or changes nothing.
LEMMA HandleForward ==
    ASSUME TypeOK, LeaderInv, HistoryInv, NEW t \in tasks, Handle(t)
    PROVE  /\ t.to \in Node /\ t.ver # None /\ t.ver.id \in Writes
           /\ CopyOf(t.to).at \in Nat /\ t.ver.id \in Nat
           /\ \/ store' = store /\ t.ver.id <= CopyOf(t.to).at
              \/ /\ store' = [store EXCEPT ![t.to] = t.ver]
                 /\ CopyOf(t.to).at < t.ver.id
<1>1. /\ t.to \in Node /\ t.ver # None /\ t.ver \in Known
  BY KnownIff DEF TypeOK, Task, LeaderInv, TasksCarryWrites
<1>2. /\ store' = [store EXCEPT ![t.to] = Merge(store[t.to], t.ver)]
      /\ store \in [Node -> Version \cup {None}]
  BY <1>1 DEF Handle, Received, TypeOK
<1>3. t.ver.id \in Writes /\ t.ver.id \in Nat /\ t.ver.id # 0
  BY <1>1, WritesBefore DEF HistoryInv
<1>4. CASE store[t.to] = None
  BY <1>1, <1>2, <1>3, <1>4 DEF Merge, CopyOf
<1>5. CASE store[t.to] # None
  <2>. DEFINE e == store[t.to]
              v == t.ver
  <2>1. e \in Known /\ e \in Version /\ CopyOf(t.to).at = e.id
    BY <1>1, <1>2, <1>5, KnownIff DEF CopyOf
  <2>2. e.id \in Nat
    BY <2>1 DEF Version
  <2>3. /\ v \in Version /\ Behind(v, store[Leader])
        /\ Behind(e, store[Leader])
    BY <1>1, <2>1, KnownBehind
  <2>4. store' = [store EXCEPT ![t.to] = Merge(e, v)]
    BY <1>2
  <2>5. Ordered(e, v)
    BY <1>1, <2>1 DEF HistoryInv
  <2>. HIDE DEF e, v
  <2>6. CASE e = v
    <3>1. Merge(e, v) = e
      BY <2>6 DEF Merge
    <3>2. store' = store
      BY <1>1, <1>2, <2>4, <3>1 DEF e
    <3>3. QED
      BY <1>1, <1>3, <2>1, <2>2, <2>6, <3>2 DEF v
  <2>7. CASE e.id < v.id /\ e.vector_clock[Leader] < v.vector_clock[Leader]
    <3>1. Behind(e, v)
      BY <1>1, <2>3, <2>7 DEF Behind, v
    <3>2. Merge(e, v) = v
      BY <2>1, <2>3, <3>1, NewestWins
    <3>3. QED
      BY <1>1, <1>3, <2>1, <2>2, <2>4, <2>7, <3>2 DEF v
  <2>8. CASE v.id < e.id /\ v.vector_clock[Leader] < e.vector_clock[Leader]
    <3>1. Behind(v, e)
      BY <1>5, <2>3, <2>8 DEF Behind, e
    <3>2. Merge(e, v) = e
      BY <2>1, <2>3, <3>1, NewestWins
    <3>3. store' = store
      BY <1>1, <1>2, <2>4, <3>2 DEF e
    <3>4. QED
      BY <1>1, <1>3, <2>1, <2>2, <2>8, <3>3 DEF v
  <2>9. QED
    BY <2>5, <2>6, <2>7, <2>8 DEF Ordered
<1>6. QED
  BY <1>4, <1>5

\* The position of a replica in the history.
LEMMA CopyAt ==
    ASSUME TypeOK, HistoryInv, NEW n \in Node
    PROVE  CopyOf(n).at \in Nat /\ CopyOf(n).at < NextId
<1>1. NextId \in Nat /\ 0 < NextId
  BY DEF TypeOK, NextId
<1>2. CASE store[n] = None
  BY <1>1, <1>2 DEF CopyOf
<1>3. CASE store[n] # None
  <2>1. store[n].id \in Writes
    BY <1>3, KnownIff DEF HistoryInv
  <2>2. QED
    BY <1>3, <2>1, WritesBefore DEF CopyOf
<1>4. QED
  BY <1>2, <1>3

\* A write at the Leader happens after all others.
LEMMA SeenWrite ==
    ASSUME TypeOK, LeaderInv, HistoryInv, SeenInv,
           NEW op, NEW by, NEW ver, NEW targets, NEW left,
           LeaderWrites(op, by, ver, targets, left)
    PROVE  SeenInv'
<1>1. /\ op \in {"put", "patch", "adminPut"} /\ by \in Owner
      /\ Accept(op, Leader, by)
      /\ ver.id = NextId /\ ver \in Version
      /\ store' = [store EXCEPT ![Leader] = ver]
      /\ seen' = [seen EXCEPT ![Leader] = @ \cup {NextId}]
  BY DEF LeaderWrites, Write
<1>2. Leader \in Node /\ op \in Ops
  BY <1>1, LeaderAssumption DEF Ops
<1>3. Writes' = Writes \cup {NextId}
  BY HistoryExtends
<1>4. /\ \A i \in Writes : log'[i] = log[i]
      /\ log'[NextId].past = seen[Leader]
      /\ NextId \in Nat
  BY <1>1, <1>2, AcceptExtends DEF Writes
<1>5. \A i \in Writes : i \in Nat /\ i < NextId
  BY WritesBefore
<1>6. seen[Leader] = Writes
  BY <1>2 DEF SeenInv
<1>7. /\ CopyOf(Leader)'.at = NextId
      /\ \A n \in Node \ {Leader} : CopyOf(n)'.at = CopyOf(n).at
  BY <1>1, <1>2, NoneAssumption DEF CopyOf, TypeOK
<1>8. \A i \in Writes' : log'[i].past = {j \in Writes' : j < i}
  <2>1. ASSUME NEW i \in Writes
        PROVE  log'[i].past = {j \in Writes' : j < i}
    <3>1. log'[i].past = {j \in Writes : j < i}
      BY <1>4 DEF SeenInv
    <3>2. QED
      BY <1>3, <1>4, <1>5, <3>1
  <2>2. log'[NextId].past = {j \in Writes' : j < NextId}
    BY <1>3, <1>4, <1>5, <1>6
  <2>3. QED
    BY <1>3, <2>1, <2>2
<1>9. \A n \in Node : seen'[n] = {j \in Writes' : j <= CopyOf(n)'.at}
  <2>1. seen'[Leader] = {j \in Writes' : j <= CopyOf(Leader)'.at}
    <3>1. seen'[Leader] = Writes \cup {NextId}
      BY <1>1, <1>2, <1>6 DEF TypeOK
    <3>2. QED
      BY <1>3, <1>4, <1>5, <1>7, <3>1
  <2>2. ASSUME NEW n \in Node \ {Leader}
        PROVE  seen'[n] = {j \in Writes' : j <= CopyOf(n)'.at}
    <3>1. seen'[n] = {j \in Writes : j <= CopyOf(n).at}
      BY <1>1 DEF SeenInv, TypeOK
    <3>2. CopyOf(n).at \in Nat /\ CopyOf(n).at < NextId
      BY CopyAt
    <3>3. QED
      BY <1>3, <1>4, <1>5, <1>7, <3>1, <3>2
  <2>3. QED
    BY <2>1, <2>2
<1>10. \A i \in Writes' : i <= CopyOf(Leader)'.at
  BY <1>3, <1>4, <1>5, <1>7
<1>11. QED
  BY <1>8, <1>9, <1>10 DEF SeenInv

\* With a version its receiver learns of the writes before it.
LEMMA SeenHandle ==
    ASSUME TypeOK, LeaderInv, HistoryInv, SeenInv, NEW t \in tasks, Handle(t),
           log' = log
    PROVE  SeenInv'
<1>1. /\ t.to \in Node /\ t.ver # None /\ t.ver.id \in Writes
      /\ CopyOf(t.to).at \in Nat /\ t.ver.id \in Nat
      /\ \/ store' = store /\ t.ver.id <= CopyOf(t.to).at
         \/ /\ store' = [store EXCEPT ![t.to] = t.ver]
            /\ CopyOf(t.to).at < t.ver.id
  BY HandleForward
<1>2. Writes' = Writes /\ \A i \in Writes : i \in Nat
  BY WritesBefore DEF Writes
<1>3. Learn(t) = {j \in Writes : j <= t.ver.id}
  <2>1. log[t.ver.id].past = {j \in Writes : j < t.ver.id}
    BY <1>1 DEF SeenInv
  <2>2. QED
    BY <1>1, <1>2, <2>1 DEF Learn
<1>4. /\ seen'[t.to] = seen[t.to] \cup Learn(t)
      /\ \A n \in Node \ {t.to} : seen'[n] = seen[n]
  BY <1>1 DEF Handle, TypeOK
<1>5. /\ \A n \in Node \ {t.to} : CopyOf(n)'.at = CopyOf(n).at
      /\ CopyOf(t.to)'.at = IF t.ver.id <= CopyOf(t.to).at
                            THEN CopyOf(t.to).at ELSE t.ver.id
  BY <1>1 DEF CopyOf, TypeOK
<1>6. seen'[t.to] = {j \in Writes : j <= CopyOf(t.to)'.at}
  <2>1. seen[t.to] = {j \in Writes : j <= CopyOf(t.to).at}
    BY <1>1 DEF SeenInv
  <2>2. QED
    BY <1>1, <1>2, <1>3, <1>4, <1>5, <2>1
<1>7. \A n \in Node : seen'[n] = {j \in Writes' : j <= CopyOf(n)'.at}
  BY <1>2, <1>4, <1>5, <1>6 DEF SeenInv
<1>8. \A i \in Writes' : log'[i].past = {j \in Writes' : j < i}
  BY <1>2 DEF SeenInv
<1>9. \A i \in Writes' : i <= CopyOf(Leader)'.at
  <2>1. CopyOf(Leader)'.at = CopyOf(Leader).at
    BY LeaderHandle DEF CopyOf
  <2>2. QED
    BY <1>2, <2>1 DEF SeenInv
<1>10. QED
  BY <1>7, <1>8, <1>9 DEF SeenInv

\* A step of a task is a delivery, or leaves the replicas alone.
LEMMA TaskDelivers ==
    ASSUME TaskStep
    PROVE  /\ UNCHANGED <<reads, log>>
           /\ \/ UNCHANGED <<store, seen>>
              \/ \E t \in tasks : Handle(t)
  BY DEF TaskStep, Deliver, Refuse, DeliverUnanswered, Timeout, Drop

\* A step that neither writes nor delivers.
LEMMA SeenKept ==
    ASSUME SeenInv, UNCHANGED <<store, seen>>, Writes' = Writes,
           \A i \in Writes : log'[i] = log[i]
    PROVE  SeenInv'
<1>1. \A n \in Node : CopyOf(n)' = CopyOf(n)
  BY DEF CopyOf
<1>2. CopyOf(Leader)' = CopyOf(Leader)
  BY DEF CopyOf
<1>3. QED
  BY <1>1, <1>2 DEF SeenInv

LEMMA SeenNext ==
    TypeOK /\ OwnerInv /\ LeaderInv /\ HistoryInv /\ SeenInv
        /\ [KeepingNext]_vars => SeenInv'
<1>. SUFFICES ASSUME TypeOK, OwnerInv, LeaderInv, HistoryInv, SeenInv,
                     [KeepingNext]_vars
              PROVE  SeenInv'
  OBVIOUS
<1>1. ASSUME UNCHANGED <<store, seen, log>>
      PROVE  SeenInv'
  <2>1. Writes' = Writes
    BY <1>1 DEF Writes
  <2>2. QED
    BY <1>1, <2>1, SeenKept
<1>2. CASE ClientStep
  <2>1. ASSUME NEW u \in User, NEW view \in Views, GetStart(Leader, u, view)
        PROVE  SeenInv'
    <3>1. UNCHANGED <<store, seen>>
      BY <2>1 DEF GetStart
    <3>2. QED
      BY <2>1, <3>1, GetKeepsWrites, SeenKept
  <2>2. QED
    BY <1>2, <2>1, ClientCases, SeenWrite
<1>3. CASE TaskStep
  BY <1>1, <1>3, TaskDelivers, SeenHandle
<1>4. CASE ReadStep
  <2>1. UNCHANGED <<store, seen, log>>
    BY <1>4 DEF ReadStep, GetAnswer, GetError, GetFinish
  <2>2. QED
    BY <1>1, <2>1
<1>5. CASE UNCHANGED vars
  BY <1>1, <1>5 DEF vars
<1>6. QED
  BY <1>2, <1>3, <1>4, <1>5 DEF KeepingNext

LEMMA SeenInit == Init => SeenInv
<1>. SUFFICES ASSUME Init PROVE SeenInv
  OBVIOUS
<1>1. Writes = {}
  BY DEF Init, Writes
<1>2. \A n \in Node : seen[n] = {}
  BY DEF Init
<1>3. QED
  BY <1>1, <1>2 DEF SeenInv

\* A write at the one coordinator happened after exactly the writes that were
\* accepted before it, and what a replica knows is exactly the history up to
\* the version it holds: nobody learns of a write without those before it.
THEOREM SeenInvariant == KeepingSpec => []SeenInv
<1>1. Init => SeenInv
  BY SeenInit
<1>2. TypeOK /\ OwnerInv /\ LeaderInv /\ HistoryInv /\ SeenInv
          /\ [KeepingNext]_vars => SeenInv'
  BY SeenNext
<1>3. QED
  BY <1>1, <1>2, KeepingIsStore, OwnerInvariant, LeaderInvariant,
     HistoryInvariant, PTL DEF KeepingSpec

\* A delivery, late or repeated, never installs a version that its receiver has
\* known before, and a write at the Leader is new to everyone.
THEOREM NothingRollsBack == KeepingSpec => NoRollback
<1>. DEFINE Forward == \A n \in Node :
                (store'[n] # store[n] /\ store'[n] # None)
                    => store'[n].id \notin seen[n]
<1>1. TypeOK /\ OwnerInv /\ LeaderInv /\ HistoryInv /\ SeenInv
          /\ [KeepingNext]_vars => [Forward]_vars
  <2>. SUFFICES ASSUME TypeOK, OwnerInv, LeaderInv, HistoryInv, SeenInv,
                       KeepingNext, NEW n \in Node, store'[n] # store[n]
                PROVE  store'[n].id \notin seen[n]
    OBVIOUS
  <2>0. seen[n] = {j \in Writes : j <= CopyOf(n).at} /\ CopyOf(n).at \in Nat
    BY CopyAt DEF SeenInv
  <2>1. ASSUME NEW op, NEW by, NEW ver, NEW targets, NEW left,
               LeaderWrites(op, by, ver, targets, left)
        PROVE  store'[n].id \notin seen[n]
    <3>1. store' = [store EXCEPT ![Leader] = ver] /\ ver.id = NextId
      BY <2>1 DEF LeaderWrites, Write
    <3>2. store'[n] = ver
      BY <3>1 DEF TypeOK
    <3>3. NextId \notin Writes
      BY WritesBefore DEF TypeOK, NextId
    <3>4. QED
      BY <2>0, <3>1, <3>2, <3>3
  <2>2. ASSUME NEW t \in tasks, Handle(t)
        PROVE  store'[n].id \notin seen[n]
    <3>1. /\ store' = [store EXCEPT ![t.to] = t.ver]
          /\ CopyOf(t.to).at < t.ver.id
          /\ t.ver.id \in Nat
      BY <2>2, HandleForward
    <3>2. n = t.to /\ store'[n] = t.ver
      BY <3>1 DEF TypeOK
    <3>3. QED
      BY <2>0, <3>1, <3>2
  <2>3. CASE ClientStep
    <3>1. ASSUME NEW u \in User, NEW view \in Views, GetStart(Leader, u, view)
          PROVE  FALSE
      BY <3>1 DEF GetStart
    <3>2. QED
      BY <2>1, <2>3, <3>1, ClientCases
  <2>4. CASE TaskStep
    BY <2>2, <2>4, TaskDelivers
  <2>5. CASE ReadStep
    BY <2>5, ReadKnows
  <2>6. QED
    BY <2>3, <2>4, <2>5 DEF KeepingNext
<1>2. QED
  BY <1>1, KeepingIsStore, OwnerInvariant, LeaderInvariant, HistoryInvariant,
     SeenInvariant, PTL DEF KeepingSpec, NoRollback

LEMMA LiveKnown == Live \subseteq Known
  BY DEF Live, Known

\* Two versions that replicas hold, or are being sent, have different vector
\* clocks unless they are the same version.
THEOREM ClocksIdentify == KeepingSpec => []ClockIdentifies
<1>1. TypeOK /\ LeaderInv /\ HistoryInv => ClockIdentifies
  <2>. SUFFICES ASSUME TypeOK, LeaderInv, HistoryInv,
                       NEW a \in Live, NEW b \in Live,
                       a.vector_clock = b.vector_clock
                PROVE  a = b
    BY DEF ClockIdentifies
  <2>1. a \in Known /\ b \in Known
    BY LiveKnown
  <2>2. a.vector_clock[Leader] \in Nat
    BY <2>1, KnownBehind, LeaderAssumption DEF Version, Clock
  <2>3. Ordered(a, b)
    BY <2>1 DEF HistoryInv
  <2>4. QED
    BY <2>2, <2>3 DEF Ordered
<1>2. QED
  BY <1>1, KeepingIsStore, OwnerInvariant, LeaderInvariant, HistoryInvariant,
     PTL

\* A vector clock dominates another only if its write happened after the other
\* one: put_value_internal throws away nothing that was not superseded.
THEOREM ClocksAreCausal == KeepingSpec => []CausalClocks
<1>1. TypeOK /\ LeaderInv /\ HistoryInv /\ SeenInv => CausalClocks
  <2>. SUFFICES ASSUME TypeOK, LeaderInv, HistoryInv, SeenInv,
                       NEW a \in Live, NEW b \in Live, Dominates(a, b)
                PROVE  b.id \in log[a.id].past
    BY DEF CausalClocks
  <2>1. a \in Known /\ b \in Known
    BY LiveKnown
  <2>2. a \in Version /\ b \in Version
    BY <2>1, KnownBehind
  <2>3. a # b
    BY <2>2, DominatesStrictOrder
  <2>4. a.vector_clock[Leader] >= b.vector_clock[Leader]
    BY <2>2, LeaderAssumption, DominatesIsPointwise
  <2>5. a.vector_clock[Leader] \in Nat /\ b.vector_clock[Leader] \in Nat
    BY <2>2, LeaderAssumption DEF Version, Clock
  <2>6. b.id < a.id
    BY <2>1, <2>3, <2>4, <2>5 DEF HistoryInv, Ordered
  <2>7. a.id \in Writes /\ b.id \in Writes
    BY <2>1 DEF HistoryInv
  <2>8. QED
    BY <2>6, <2>7 DEF SeenInv
<1>2. QED
  BY <1>1, KeepingIsStore, OwnerInvariant, LeaderInvariant, HistoryInvariant,
     SeenInvariant, PTL

-----------------------------------------------------------------------------
(* What a GET returns.                                                     *)

\* A read keeps its floor while the Leader's version moves on.
LEMMA FloorWrite ==
    ASSUME TypeOK, LeaderInv, HistoryInv, FloorInv,
           NEW op, NEW by, NEW ver, NEW targets, NEW left,
           LeaderWrites(op, by, ver, targets, left)
    PROVE  FloorInv'
<1>1. /\ reads' = reads
      /\ store' = [store EXCEPT ![Leader] = ver]
      /\ ver \in Version /\ ver.id = NextId
      /\ store[Leader] # None =>
            store[Leader].vector_clock[Leader] < ver.vector_clock[Leader]
  BY DEF LeaderWrites, Write
<1>2. store'[Leader] = ver /\ Leader \in Node
  BY <1>1, LeaderAssumption DEF TypeOK
<1>3. ASSUME NEW v \in Version, Behind(v, store[Leader])
      PROVE  Behind(v, ver)
  <2>1. store[Leader] \in Version /\ store[Leader] # None
    BY <1>2, <1>3 DEF Behind, TypeOK
  <2>2. CopyOf(Leader).at = store[Leader].id
    BY <2>1 DEF CopyOf
  <2>3. v.id \in Nat /\ store[Leader].id \in Nat /\ store[Leader].id < NextId
    BY <1>2, <2>1, <2>2, CopyAt DEF Version
  <2>4. v.id < ver.id
    BY <1>1, <1>3, <2>3 DEF Behind, TypeOK, NextId
  <2>5. QED
    BY <1>1, <1>3, <2>1, <2>4, BehindNext
<1>4. \A n \in Node : reads[n] # None => reads[n].floor \in Version \cup {None}
  BY DEF TypeOK, Read
<1>5. QED
  BY <1>1, <1>2, <1>3, <1>4 DEF FloorInv

LEMMA FloorGetStart ==
    ASSUME TypeOK, LeaderInv, FloorInv, NEW u \in User,
           GetStart(Leader, u, Node)
    PROVE  FloorInv'
<1>. DEFINE r == [by |-> u, floor |-> store[Leader], req |-> NextId,
                  resp |-> [m \in Node |->
                               IF m \in Node THEN Pending ELSE Silent]]
<1>1. reads' = [reads EXCEPT ![Leader] = r] /\ store' = store
  BY DEF GetStart
<1>2. Leader \in Node /\ Pending # Silent
  BY LeaderAssumption, ConstantsAssumption
<1>3. r.floor = store[Leader] /\ r.resp[Leader] = Pending
  BY <1>2
<1>. HIDE DEF r
<1>4. /\ reads'[Leader] = r
      /\ \A n \in Node \ {Leader} : reads'[n] = reads[n]
  BY <1>1, <1>2 DEF TypeOK
<1>5. store[Leader] # None => Behind(store[Leader], store[Leader])
  BY <1>2 DEF LeaderInv, LeaderNewest
<1>6. QED
  BY <1>1, <1>2, <1>3, <1>4, <1>5 DEF FloorInv

\* The Leader answers itself, and with what it then holds.
LEMMA FloorGetReply ==
    ASSUME TypeOK, LeaderInv, FloorInv, NEW n \in Node, NEW m \in Node,
           GetAnswer(n, m) \/ GetError(n, m)
    PROVE  FloorInv'
<1>1. PICK x :
          /\ reads[n] # None
          /\ reads' = [reads EXCEPT ![n].resp[m] = x]
          /\ store' = store
          /\ m = n => x = store[m]
  BY DEF GetAnswer, GetError
<1>2. n = Leader
  BY <1>1 DEF FloorInv
<1>. DEFINE r == [reads[n] EXCEPT !.resp[m] = x]
<1>3. reads' = [reads EXCEPT ![n] = r]
  BY <1>1
<1>4. reads[n] \in Read
  BY <1>1 DEF TypeOK
<1>5. /\ r.floor = reads[n].floor
      /\ r.resp = [reads[n].resp EXCEPT ![m] = x]
      /\ reads[n].resp \in [Node -> Version \cup {None, Pending, Silent}]
  BY <1>4 DEF Read
<1>. HIDE DEF r
<1>6. r.resp[Leader] = IF m = Leader THEN store[Leader]
                                     ELSE reads[n].resp[Leader]
  BY <1>1, <1>2, <1>5
<1>7. store[Leader] # Silent
  BY <1>2, ConstantsAssumption DEF TypeOK
<1>8. reads'[n] = r /\ \A i \in Node \ {n} : reads'[i] = reads[i]
  BY <1>3 DEF TypeOK
<1>9. Behind(r.floor, store[Leader]) => store[Leader] # None
  BY DEF Behind
<1>10. /\ r.resp[Leader] # Silent
       /\ r.floor # None =>
             /\ Behind(r.floor, store[Leader])
             /\ r.resp[Leader] # Pending =>
                   /\ r.resp[Leader] # None
                   /\ Behind(r.floor, r.resp[Leader])
  BY <1>1, <1>2, <1>5, <1>6, <1>7, <1>9 DEF FloorInv
<1>11. QED
  BY <1>1, <1>2, <1>8, <1>10 DEF FloorInv

LEMMA FloorNext ==
    TypeOK /\ OwnerInv /\ LeaderInv /\ HistoryInv /\ FloorInv
        /\ [KeepingNext]_vars => FloorInv'
<1>. SUFFICES ASSUME TypeOK, OwnerInv, LeaderInv, HistoryInv, FloorInv,
                     [KeepingNext]_vars
              PROVE  FloorInv'
  OBVIOUS
<1>1. CASE ClientStep
  BY <1>1, ClientCases, FloorWrite, FloorGetStart, LeaderAssumption
<1>2. CASE TaskStep
  <2>1. reads' = reads /\ store'[Leader] = store[Leader]
    BY <1>2, TaskDelivers, LeaderHandle
  <2>2. QED
    BY <2>1 DEF FloorInv
<1>3. CASE ReadStep
  <2>1. ASSUME NEW n \in Node, GetFinish(n)
        PROVE  FloorInv'
    <3>1. reads' = [reads EXCEPT ![n] = None] /\ store' = store
      BY <2>1 DEF GetFinish
    <3>2. \A i \in Node : reads'[i] # None => reads'[i] = reads[i]
      BY <3>1 DEF TypeOK
    <3>3. QED
      BY <3>1, <3>2 DEF FloorInv
  <2>2. QED
    BY <1>3, <2>1, FloorGetReply DEF ReadStep
<1>4. CASE UNCHANGED vars
  BY <1>4 DEF vars, FloorInv
<1>5. QED
  BY <1>1, <1>2, <1>3, <1>4 DEF KeepingNext

\* The Leader's own answer is part of every GET that ends, and no older than
\* what the Leader held when the GET began.
THEOREM FloorInvariant == KeepingSpec => []FloorInv
<1>1. Init => FloorInv
  BY DEF Init, FloorInv
<1>2. TypeOK /\ OwnerInv /\ LeaderInv /\ HistoryInv /\ FloorInv
          /\ [KeepingNext]_vars => FloorInv'
  BY FloorNext
<1>3. QED
  BY <1>1, <1>2, KeepingIsStore, OwnerInvariant, LeaderInvariant,
     HistoryInvariant, PTL DEF KeepingSpec

\* A version of the history supersedes those behind it.
LEMMA BehindSuperseded ==
    ASSUME NEW v \in Version, NEW top \in Version, Behind(v, top), v # top
    PROVE  Supersedes(top, v) /\ ~Supersedes(v, top)
<1>1. Merge(v, top) = top
  BY NewestWins
<1>2. Supersedes(top, v)
  BY <1>1, NoneAssumption DEF Merge
<1>3. QED
  BY <1>2, SupersedesAsymmetric

\* Of the answers to a GET one is the latest, and it is what max_by selects.
LEMMA ReadOutcome ==
    ASSUME TypeOK, LeaderInv, HistoryInv, NEW n \in Node, reads[n] # None,
           Holders(reads[n]) # {}
    PROVE  \E top \in Holders(reads[n]) :
               /\ Outcomes(reads[n]) = {reads[n].resp[top]}
               /\ \A m \in Holders(reads[n]) :
                     Behind(reads[n].resp[m], reads[n].resp[top])
<1>. DEFINE r == reads[n]
            S == {r.resp[m].id : m \in Holders(r)}
            last == store[Leader].id
<1>1. \A m \in Holders(r) : /\ m \in Node
                             /\ r.resp[m] \in Version
                             /\ r.resp[m] \in Known
                             /\ Behind(r.resp[m], store[Leader])
  BY HolderAnswer, KnownIff, KnownBehind DEF Holders
<1>2. \A m \in Holders(r) : r.resp[m].id \in Nat /\ r.resp[m].id # 0
  BY <1>1, WritesBefore DEF HistoryInv
<1>3. last \in Nat
  BY <1>1, LeaderAssumption DEF TypeOK, Behind, Version
<1>4. S \subseteq 1 .. last /\ S # {}
  BY <1>1, <1>2, <1>3 DEF Behind
<1>5. Max(S) \in S /\ \A y \in S : y <= Max(S)
  <2>. HIDE DEF S, last
  <2>. QED
    BY <1>3, <1>4, MaxOfIndices
<1>6. PICK top \in Holders(r) : Max(S) = r.resp[top].id
  BY <1>5
<1>7. \A m \in Holders(r) : r.resp[m].id <= r.resp[top].id
  BY <1>5, <1>6
<1>8. \A m \in Holders(r) : Behind(r.resp[m], r.resp[top])
  <2>. TAKE m \in Holders(r)
  <2>1. Ordered(r.resp[m], r.resp[top])
    BY <1>1 DEF HistoryInv
  <2>2. r.resp[top] # None
    BY <1>1, NoneAssumption
  <2>3. QED
    BY <1>1, <1>2, <1>7, <2>1, <2>2 DEF Ordered, Behind
<1>9. \A m \in Holders(r) : \/ r.resp[m] = r.resp[top]
                             \/ Supersedes(r.resp[top], r.resp[m])
  BY <1>1, <1>8, BehindSuperseded
<1>10. Holders(r) \in SUBSET Node
  BY <1>1
<1>11. LatestOf(r.resp, Holders(r)) = {r.resp[top]}
  BY <1>1, <1>9, <1>10, LatestWhateverTheOrder
<1>12. QED
  BY <1>8, <1>11 DEF Outcomes

\* A GET at the one coordinator returns one thing whatever the order of the
\* ring, finds the key if the node had it when the GET began, and returns
\* nothing older than that.
THEOREM ReadsAreFresh == KeepingSpec => []ReadFresh
<1>1. TypeOK /\ LeaderInv /\ HistoryInv /\ FloorInv => ReadFresh
  <2>. SUFFICES ASSUME TypeOK, LeaderInv, HistoryInv, FloorInv,
                       NEW n \in Node, reads[n] # None, AllAnswered(reads[n])
                PROVE  LET r == reads[n]
                       IN  /\ r.floor # None => Holders(r) # {}
                           /\ \A v, w \in Outcomes(r) : v = w
                           /\ \A v \in Outcomes(r) :
                                 r.floor # None => ~Supersedes(r.floor, v)
    BY DEF ReadFresh, FinishedReads
  <2>. DEFINE r == reads[n]
  <2>1. /\ n = Leader /\ Leader \in Node
        /\ r.floor \in Version \cup {None}
        /\ r.resp[Leader] # Pending
    BY LeaderAssumption DEF FloorInv, AllAnswered, TypeOK, Read
  <2>2. r.floor # None => /\ Leader \in Holders(r)
                          /\ Behind(r.floor, r.resp[Leader])
    BY <2>1 DEF FloorInv, Holders, Answered
  <2>3. CASE Holders(r) = {}
    BY <2>2, <2>3, NoOutcome
  <2>4. CASE Holders(r) # {}
    <3>1. PICK top \in Holders(r) :
              /\ Outcomes(r) = {r.resp[top]}
              /\ \A m \in Holders(r) : Behind(r.resp[m], r.resp[top])
      BY <2>4, ReadOutcome
    <3>2. ASSUME r.floor # None
          PROVE  ~Supersedes(r.floor, r.resp[top])
      <4>. DEFINE f == r.floor
                  own == r.resp[Leader]
                  v == r.resp[top]
      <4>1. Behind(f, own) /\ Behind(own, v)
        BY <2>2, <3>1, <3>2
      <4>2. f \in Version /\ own \in Version /\ v \in Version
        BY <2>1, <2>2, <3>1, <3>2, HolderAnswer
      <4>. HIDE DEF f, own, v
      <4>3. Behind(f, v)
        <5>1. /\ f.id \in Nat /\ own.id \in Nat /\ v.id \in Nat
              /\ f.vector_clock[Leader] \in Nat
              /\ own.vector_clock[Leader] \in Nat
              /\ v.vector_clock[Leader] \in Nat
          BY <2>1, <4>2 DEF Version, Clock
        <5>2. QED
          BY <4>1, <5>1 DEF Behind
      <4>4. QED
        BY <4>2, <4>3, BehindSuperseded, SupersedesAsymmetric DEF f, v
    <3>3. QED
      BY <2>4, <3>1, <3>2
  <2>5. QED
    BY <2>3, <2>4
<1>2. QED
  BY <1>1, KeepingIsStore, OwnerInvariant, LeaderInvariant, HistoryInvariant,
     FloorInvariant, PTL

=============================================================================
