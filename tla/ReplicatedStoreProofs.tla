----------------------- MODULE ReplicatedStoreProofs -----------------------
(***************************************************************************)
(* What the comparison of two records guarantees for every set of nodes,   *)
(* and so for every pair of vector clocks; then type correctness of the    *)
(* replicated store, and the ownership of what replicas hold, for every    *)
(* cluster, every schedule and every bound; and then what holds on two     *)
(* nodes that both take requests, for every number of requests and faults. *)
(***************************************************************************)
EXTENDS TwoNodes, FoldProofs, FiniteSetTheorems

-----------------------------------------------------------------------------
(* Types.                                                                  *)

\* The constructors build records of the right shape.
LEMMA NewType ==
    ASSUME NEW id \in Nat, NEW owner \in Owner, NEW node \in Node,
           NEW ts \in Nat
    PROVE  new(id, owner, node, ts) \in Version
BY DEF new, Version, Clock

LEMMA TickType ==
    ASSUME NEW c \in Clock, NEW node \in Node
    PROVE  Tick(c, node) \in Clock
BY DEF Tick, Clock

LEMMA UpdateType ==
    ASSUME NEW v \in Version, NEW id \in Nat, NEW node \in Node, NEW ts \in Nat
    PROVE  update(v, id, node, ts) \in Version
BY TickType DEF update, Version

LEMMA PatchType ==
    ASSUME NEW v \in Version, NEW id \in Nat, NEW node \in Node, NEW ts \in Nat
    PROVE  patch(v, id, node, ts) \in Version
BY TickType DEF patch, Version

LEMMA MergeType ==
    ASSUME NEW e \in Version \cup {None}, NEW i \in Version
    PROVE  /\ Merge(e, i) \in Version
           /\ Merge(e, i) \in {e, i}
BY DEF Merge

-----------------------------------------------------------------------------
(* Dominance.                                                              *)

\* The two loops of VersionedValue::dominates compute the pointwise order on
\* clocks, an absent entry counting as 0.
THEOREM DominatesIsPointwise ==
    ASSUME NEW a \in Version, NEW b \in Version
    PROVE  Dominates(a, b) <=>
              /\ \A m \in Node : a.vector_clock[m] >= b.vector_clock[m]
              /\ a.vector_clock # b.vector_clock
<1>. DEFINE ca == a.vector_clock
            cb == b.vector_clock
<1>1. ca \in [Node -> Nat] /\ cb \in [Node -> Nat]
  BY DEF Version, Clock
<1>2. ASSUME Dominates(a, b)
      PROVE  (\A m \in Node : ca[m] >= cb[m]) /\ ca # cb
  BY <1>1, <1>2 DEF Dominates, Entries
<1>3. ASSUME \A m \in Node : ca[m] >= cb[m], ca # cb
      PROVE  Dominates(a, b)
  <2>1. PICK m \in Node : ca[m] # cb[m]
    BY <1>1, <1>3
  <2>2. ca[m] > cb[m]
    BY <1>1, <1>3, <2>1
  <2>3. QED
    BY <1>1, <1>3, <2>2 DEF Dominates, Entries
<1>4. QED
  BY <1>2, <1>3

\* Dominance is a strict partial order, so replicas that compare clocks alone
\* never disagree about two versions nor run in circles among three.
THEOREM DominatesStrictOrder ==
    ASSUME NEW a \in Version, NEW b \in Version, NEW c \in Version
    PROVE  /\ ~Dominates(a, a)
           /\ Dominates(a, b) => ~Dominates(b, a)
           /\ Dominates(a, b) /\ Dominates(b, c) => Dominates(a, c)
<1>. DEFINE ca == a.vector_clock
            cb == b.vector_clock
            cc == c.vector_clock
<1>1. ca \in [Node -> Nat] /\ cb \in [Node -> Nat] /\ cc \in [Node -> Nat]
  BY DEF Version, Clock
<1>2. ~Dominates(a, a)
  BY DominatesIsPointwise
<1>3. ASSUME Dominates(a, b), Dominates(b, a)
      PROVE  FALSE
  <2>1. \A m \in Node : ca[m] = cb[m]
    BY <1>1, <1>3, DominatesIsPointwise
  <2>2. QED
    BY <1>1, <1>3, <2>1, DominatesIsPointwise
<1>4. ASSUME Dominates(a, b), Dominates(b, c)
      PROVE  Dominates(a, c)
  <2>1. /\ \A m \in Node : ca[m] >= cb[m]
        /\ \A m \in Node : cb[m] >= cc[m]
        /\ ca # cb
    BY <1>4, DominatesIsPointwise
  <2>2. \A m \in Node : ca[m] >= cc[m]
    BY <1>1, <2>1
  <2>3. PICK m \in Node : ca[m] # cb[m]
    BY <1>1, <2>1
  <2>4. ca[m] > cc[m]
    BY <1>1, <2>1, <2>3
  <2>5. QED
    BY <1>1, <2>2, <2>4, DominatesIsPointwise
<1>5. QED
  BY <1>2, <1>3, <1>4

\* A local write dominates the version it replaces, whatever the clock of the
\* machine says.
LEMMA WriteDominates ==
    ASSUME NEW v \in Version, NEW id, NEW node \in Node, NEW ts
    PROVE  /\ Dominates(update(v, id, node, ts), v)
           /\ Dominates(patch(v, id, node, ts), v)
BY DEF Dominates, Entries, update, patch, Tick, Version, Clock

-----------------------------------------------------------------------------
(* The decision of put_value_internal.                                     *)

\* Of two versions at most one supersedes the other: two replicas that
\* exchange their versions cannot swap them.
THEOREM SupersedesAsymmetric ==
    ASSUME NEW a \in Version, NEW b \in Version, Supersedes(a, b)
    PROVE  ~Supersedes(b, a)
<1>1. a.timestamp \in Nat /\ b.timestamp \in Nat
  BY DEF Version
<1>2. Dominates(a, b) => ~Dominates(b, a)
  BY DominatesStrictOrder
<1>3. QED
  BY <1>1, <1>2 DEF Supersedes

\* Two replicas that hold different versions and receive each other's end up
\* with the same one, unless the versions are concurrent and fall into the
\* same millisecond.
THEOREM MergeAgrees ==
    ASSUME NEW a \in Version, NEW b \in Version,
           \/ Dominates(a, b)
           \/ Dominates(b, a)
           \/ a.timestamp # b.timestamp
    PROVE  Merge(a, b) = Merge(b, a)
<1>1. a # None /\ b # None
  BY NoneAssumption
<1>2. a.timestamp \in Nat /\ b.timestamp \in Nat
  BY DEF Version
<1>3. Supersedes(a, b) \/ Supersedes(b, a)
  BY <1>2 DEF Supersedes
<1>4. ~(Supersedes(a, b) /\ Supersedes(b, a))
  BY SupersedesAsymmetric
<1>5. QED
  BY <1>1, <1>3, <1>4 DEF Merge

\* ... and when they are concurrent and fall into the same millisecond each
\* replica keeps its own: the tie is never resolved.
THEOREM TieNeverMerges ==
    ASSUME NEW a \in Version, NEW b \in Version,
           ~Dominates(a, b), ~Dominates(b, a), a.timestamp = b.timestamp
    PROVE  Merge(a, b) = a /\ Merge(b, a) = b
<1>1. a # None /\ b # None
  BY NoneAssumption
<1>2. a.timestamp \in Nat /\ ~(a.timestamp > b.timestamp)
  BY DEF Version
<1>3. ~Supersedes(a, b) /\ ~Supersedes(b, a)
  BY <1>2 DEF Supersedes
<1>4. QED
  BY <1>1, <1>3 DEF Merge

\* The repair test of get_value against the decision of put_value_internal: an
\* answer that the selected version supersedes is sent the repair exactly when
\* its timestamp is older, although what put_value_internal would take is decided
\* by the clocks first.  A replica whose version is dominated but bears the time
\* of a clock that was ahead, or the same millisecond, is left behind by the GET.
THEOREM RepairFollowsTime ==
    ASSUME NEW answer \in Version, NEW latest \in Version,
           Supersedes(latest, answer)
    PROVE  NeedsRepair(answer, latest) <=> answer.timestamp < latest.timestamp
<1>1. answer # None
  BY NoneAssumption
<1>2. ~Dominates(answer, latest)
  BY SupersedesAsymmetric DEF Supersedes
<1>3. QED
  BY <1>1, <1>2 DEF NeedsRepair

\* A second delivery of the same version changes nothing.
LEMMA MergeIdempotent ==
    ASSUME NEW e \in Version \cup {None}, NEW i \in Version
    PROVE  Merge(Merge(e, i), i) = Merge(e, i)
BY DEF Merge

-----------------------------------------------------------------------------
(* The selection of get_value.                                             *)

LEMMA LaterType ==
    ASSUME NEW acc \in Version, NEW v \in Version
    PROVE  Later(acc, v) \in Version
  BY DEF Later

\* max_by looks at one answer after the other.
LEMMA LatestByAnswers ==
    ASSUME NEW base \in Version, NEW s \in Seq(Version)
    PROVE  \E f \in [0 .. Len(s) -> Version] :
               /\ f[0] = base
               /\ \A i \in 1 .. Len(s) : f[i] = Later(f[i - 1], s[i])
               /\ FoldLeft(Later, base, s) = f[Len(s)]
<1>. DEFINE ap == [p \in Version \X Version |-> Later(p[1], p[2])]
            D == SUBSET (1 .. Len(s))
            Folds(it) == it = [x \in SUBSET DOMAIN s |->
                                  IF x = {} THEN base
                                  ELSE Later(it[x \ {Max(x)}], s[Max(x)])]
<1>1. ap \in [Version \X Version -> Version]
  BY LaterType
<1>2. DOMAIN s = 1 .. Len(s) /\ Len(s) \in Nat
  OBVIOUS
<1>3. ASSUME NEW r \in Version, NEW e \in Version
      PROVE  ap[<<r, e>>] = Later(r, e)
  OBVIOUS
<1>. HIDE DEF ap
<1>4. PICK it \in [D -> Version] : FoldsSets(ap, base, s, Len(s), it)
  BY <1>1, FoldExists
<1>5. ASSUME NEW x \in D, x # {}
      PROVE  /\ x \ {Max(x)} \in D
             /\ s[Max(x)] \in Version
  <2>1. Max(x) \in x
    BY <1>2, <1>5, MaxOfIndices
  <2>2. Max(x) \in 1 .. Len(s)
    BY <2>1
  <2>3. s[Max(x)] \in Version
    BY <1>2, <2>2
  <2>4. QED
    BY <2>3
<1>6. Folds(it)
  <2>1. ASSUME NEW x \in D
        PROVE  it[x] = IF x = {} THEN base
                       ELSE Later(it[x \ {Max(x)}], s[Max(x)])
    <3>1. it[x] = IF x = {} THEN base
                  ELSE ap[<<it[x \ {Max(x)}], s[Max(x)]>>]
      BY <1>4 DEF FoldsSets
    <3>2. CASE x = {}
      BY <3>1, <3>2
    <3>3. CASE x # {}
      BY <1>3, <1>4, <1>5, <3>1, <3>3
    <3>4. QED
      BY <3>2, <3>3
  <2>2. QED
    BY <1>2, <1>4, <2>1
<1>7. FoldLeft(Later, base, s) = (CHOOSE g : Folds(g))[DOMAIN s]
  BY Zenon DEF FoldLeft, MapThenFoldSet
<1>8. Folds(CHOOSE g : Folds(g))
  <2>. HIDE DEF Folds
  <2>. QED
    BY <1>6, Zenon
<1>9. PICK g : Folds(g) /\ FoldLeft(Later, base, s) = g[DOMAIN s]
  BY <1>7, <1>8, Zenon
<1>. DEFINE f == [i \in 0 .. Len(s) |-> g[1 .. i]]
<1>10. f[0] = base
  <2>1. g[{}] = base
    BY <1>2, <1>9, PrefixIndices
  <2>2. QED
    BY <1>2, <2>1, PrefixIndices
<1>11. ASSUME NEW i \in 1 .. Len(s)
       PROVE  f[i] = Later(f[i - 1], s[i])
  <2>1. /\ 1 .. i \in SUBSET DOMAIN s
        /\ 1 .. i # {}
        /\ Max(1 .. i) = i
        /\ (1 .. i) \ {Max(1 .. i)} = 1 .. i - 1
    BY <1>2, PrefixIndices
  <2>2. g[1 .. i] = Later(g[1 .. i - 1], s[i])
    BY <1>9, <2>1
  <2>3. f[i] = g[1 .. i] /\ f[i - 1] = g[1 .. i - 1]
    OBVIOUS
  <2>4. QED
    BY <2>2, <2>3
<1>12. FoldLeft(Later, base, s) = f[Len(s)]
  BY <1>2, <1>9
<1>13. f \in [0 .. Len(s) -> Version]
  <2>. DEFINE T == {i \in 0 .. Len(s) : f[i] \in Version}
  <2>. HIDE DEF f
  <2>1. 0 \in T
    BY <1>2, <1>10
  <2>2. ASSUME NEW i \in 1 .. Len(s), i - 1 \in T
        PROVE  i \in T
    BY <1>11, <2>2, LaterType
  <2>3. \A i \in 0 .. Len(s) : i \in T
    <3>. HIDE DEF T
    <3>. QED
      BY <1>2, <2>1, <2>2, InductionUpTo
  <2>4. QED
    BY <2>3 DEF f
<1>14. QED
  <2>. HIDE DEF f
  <2>. QED
    BY <1>10, <1>11, <1>12, <1>13

\* The max_by of get_value: a version that supersedes all others is returned
\* wherever it is in the list, although the comparison is no total order.
THEOREM LatestSupersedes ==
    ASSUME NEW s \in Seq(Version), NEW top \in DOMAIN s,
           \A i \in DOMAIN s : s[i] = s[top] \/ Supersedes(s[top], s[i])
    PROVE  Latest(s) = s[top]
<1>. DEFINE n == Len(s) - 1
            rest == Tail(s)
<1>1. /\ n \in Nat /\ DOMAIN s = 1 .. n + 1 /\ top \in 1 .. n + 1
      /\ rest \in Seq(Version) /\ Len(rest) = n
      /\ \A i \in 1 .. n : rest[i] = s[i + 1]
      /\ Head(s) = s[1] /\ s[1] \in Version
  OBVIOUS
<1>2. \A i \in 1 .. n + 1 : s[i] \in Version
  BY <1>1
<1>. HIDE DEF n, rest
<1>3. PICK f \in [0 .. n -> Version] :
          /\ f[0] = s[1]
          /\ \A i \in 1 .. n : f[i] = Later(f[i - 1], rest[i])
          /\ Latest(s) = f[n]
  <2>1. Latest(s) = FoldLeft(Later, Head(s), rest)
    BY Zenon DEF Latest, rest
  <2>2. PICK f \in [0 .. Len(rest) -> Version] :
            /\ f[0] = s[1]
            /\ \A i \in 1 .. Len(rest) : f[i] = Later(f[i - 1], rest[i])
            /\ FoldLeft(Later, s[1], rest) = f[Len(rest)]
    BY <1>1, LatestByAnswers
  <2>3. QED
    BY <1>1, <2>1, <2>2
<1>. DEFINE T == {i \in 0 .. n : /\ \E j \in 1 .. i + 1 : f[i] = s[j]
                                 /\ top <= i + 1 => f[i] = s[top]}
<1>4. 0 \in T
  BY <1>1, <1>3
<1>5. ASSUME NEW i \in 1 .. n, i - 1 \in T
      PROVE  i \in T
  <2>1. i + 1 \in 1 .. n + 1 /\ i \in 0 .. n
    BY <1>1
  <2>2. f[i] = Later(f[i - 1], s[i + 1])
    BY <1>1, <1>3
  <2>3. PICK j \in 1 .. i : f[i - 1] = s[j]
    BY <1>1, <1>5
  <2>4. j \in 1 .. n + 1 /\ j \in 1 .. i + 1 /\ i + 1 \in 1 .. i + 1
    BY <1>1, <2>3
  <2>5. \E k \in 1 .. i + 1 : f[i] = s[k]
    BY <2>2, <2>3, <2>4 DEF Later
  <2>6. CASE top <= i
    <3>1. f[i - 1] = s[top]
      BY <1>1, <1>5, <2>6
    <3>2. f[i] = s[top]
      BY <1>1, <2>1, <2>2, <3>1 DEF Later
    <3>3. QED
      BY <2>1, <2>5, <3>2
  <2>7. CASE top = i + 1
    <3>1. s[j] = s[top] \/ ~Supersedes(s[j], s[top])
      BY <1>1, <1>2, <2>4, SupersedesAsymmetric
    <3>2. f[i] = s[top]
      BY <2>2, <2>3, <2>7, <3>1 DEF Later
    <3>3. QED
      BY <2>1, <2>5, <3>2
  <2>8. CASE top > i + 1
    BY <1>1, <2>1, <2>5, <2>8
  <2>9. QED
    BY <1>1, <2>6, <2>7, <2>8
<1>6. n \in T
  <2>. HIDE DEF T
  <2>1. \A i \in 0 .. n : i \in T
    BY <1>1, <1>4, <1>5, InductionUpTo
  <2>2. QED
    BY <1>1, <2>1
<1>7. QED
  BY <1>1, <1>3, <1>6

\* Whatever the order in which the ring lists the replicas, a GET returns the
\* answer that supersedes the others.
THEOREM LatestWhateverTheOrder ==
    ASSUME NEW nodes \in SUBSET Node, NEW answers,
           \A m \in nodes : answers[m] \in Version,
           NEW top \in nodes,
           \A m \in nodes : \/ answers[m] = answers[top]
                            \/ Supersedes(answers[top], answers[m])
    PROVE  LatestOf(answers, nodes) = {answers[top]}
<1>. DEFINE n == Cardinality(nodes)
            L(order) == [i \in DOMAIN order |-> answers[order[i]]]
<1>1. IsFiniteSet(nodes) /\ n \in Nat
  BY NodesAssumption, FS_Subset, FS_CardinalityType
<1>2. n # 0
  BY <1>1, FS_EmptySet
<1>3. ASSUME NEW order \in SetToSeqs(nodes)
      PROVE  order # <<>> /\ Latest(L(order)) = answers[top]
  <2>1. order \in [1 .. n -> nodes]
    BY DEF SetToSeqs
  <2>2. order \in Injection(1 .. n, nodes)
    BY <2>1 DEF SetToSeqs, Injection, IsInjective
  <2>3. order \in Surjection(1 .. n, nodes)
    <3>1. Cardinality(1 .. n) = n
      BY <1>1, FS_Interval
    <3>2. QED
      BY <1>1, <2>2, <3>1, FS_Injection
  <2>4. PICK i \in 1 .. n : order[i] = top
    BY <2>3 DEF Surjection
  <2>. DEFINE s == L(order)
  <2>5. s \in Seq(Version) /\ DOMAIN s = 1 .. n
    BY <1>1, <2>1
  <2>6. \A j \in 1 .. n : s[j] = answers[order[j]] /\ order[j] \in nodes
    BY <2>1
  <2>. HIDE DEF s
  <2>7. s[i] = answers[top]
    BY <2>4, <2>6
  <2>8. Latest(s) = s[i]
    <3>1. \A j \in DOMAIN s : s[j] = s[i] \/ Supersedes(s[i], s[j])
      BY <2>5, <2>6, <2>7
    <3>2. i \in DOMAIN s
      BY <2>5
    <3>3. QED
      BY <2>5, <3>1, <3>2, LatestSupersedes
  <2>9. order # <<>>
    BY <1>1, <1>2, <2>1
  <2>10. QED
    BY <2>7, <2>8, <2>9 DEF s
<1>4. PICK order : order \in SetToSeqs(nodes)
  <2>1. PICK b \in Bijection(1 .. n, nodes) : TRUE
    BY <1>1, FS_CardinalityType DEF ExistsBijection
  <2>2. b \in SetToSeqs(nodes)
    BY <2>1 DEF SetToSeqs, Bijection, Injection, IsInjective
  <2>3. QED
    BY <2>2
<1>5. LatestOf(answers, nodes) =
          {Latest(L(order_)) : order_ \in SetToSeqs(nodes) \ {<<>>}}
  BY DEF LatestOf
<1>. HIDE DEF L
<1>6. QED
  BY <1>3, <1>4, <1>5

-----------------------------------------------------------------------------
(* Facts about the parts of the actions.                                   *)

\* Accepting a request extends the log and changes no entry of it.
LEMMA AcceptExtends ==
    ASSUME TypeOK, NEW op \in Ops, NEW n \in Node, NEW by \in Owner,
           Accept(op, n, by)
    PROVE  /\ log' \in Seq(Request)
           /\ DOMAIN log' = DOMAIN log \cup {NextId}
           /\ NextId \in Nat /\ NextId \notin DOMAIN log
           /\ \A i \in DOMAIN log : log'[i] = log[i]
           /\ log'[NextId].op = op /\ log'[NextId].by = by
           /\ log'[NextId].past = seen[n] /\ log'[NextId].node = n
<1>. DEFINE e == [op |-> op, node |-> n, by |-> by, past |-> seen[n]]
<1>1. log \in Seq(Request) /\ e \in Request
  BY DEF TypeOK, Request
<1>2. log' = Append(log, e)
  BY DEF Accept
<1>3. Len(log) \in Nat /\ DOMAIN log = 1 .. Len(log)
  BY <1>1
<1>4. log' \in Seq(Request) /\ Len(log') = Len(log) + 1
  BY <1>1, <1>2
<1>5. DOMAIN log' = 1 .. Len(log) + 1
  BY <1>4
<1>6. log'[NextId] = e
  BY <1>1, <1>2, <1>3 DEF NextId
<1>7. log'[NextId].op = op /\ log'[NextId].by = by
  BY <1>6
<1>8. QED
  BY <1>1, <1>2, <1>3, <1>4, <1>5, <1>7 DEF NextId

\* The tasks a handler spawns are tasks.
LEMMA SpawnType ==
    ASSUME NEW ver \in Version \cup {None}, NEW targets \in SUBSET Node,
           NEW left \in 0 .. Retries, NextId \in Nat
    PROVE  Spawn(ver, targets, left) \subseteq Task
BY DEF Spawn, Task

LEMMA NextAttemptType ==
    ASSUME NEW t \in Task
    PROVE  NextAttempt(t) \subseteq Task
<1>1. CASE t.left > 1
  <2>1. t.left \in 0 .. Retries /\ t.left - 1 \in 0 .. Retries
    BY <1>1, ConstantsAssumption DEF Task
  <2>2. QED
    BY <1>1, <2>1 DEF NextAttempt, Task
<1>2. CASE ~(t.left > 1)
  BY <1>2 DEF NextAttempt
<1>3. QED
  BY <1>1, <1>2

\* Versions keep their provenance when a request is accepted.
LEMMA AcceptKeepsProvenance ==
    ASSUME TypeOK, NEW op \in Ops, NEW n \in Node, NEW by \in Owner,
           Accept(op, n, by), NEW v, Provenance(v, log)
    PROVE  Provenance(v, log')
BY AcceptExtends DEF Provenance

\* A Version's answer in a read is a version.
LEMMA HolderAnswer ==
    ASSUME TypeOK, NEW n \in Node, reads[n] # None, NEW m \in Holders(reads[n])
    PROVE  m \in Node /\ reads[n].resp[m] \in Version
BY DEF TypeOK, Holders, Answered, Read

-----------------------------------------------------------------------------
(* Each action preserves TypeOK and OwnerInv.                              *)

\* The common part of the write handlers.
LEMMA WriteStep ==
    ASSUME TypeOK, OwnerInv, now' \in Nat,
           NEW op \in Ops, NEW n \in Node, NEW by \in Owner,
           NEW ver \in Version, NEW targets \in SUBSET Node,
           NEW left \in 0 .. Retries,
           Write(op, n, by, ver, targets, left),
           Provenance(ver, log')
    PROVE  TypeOK' /\ OwnerInv'
<1>1. Accept(op, n, by)
  BY DEF Write
<1>2. /\ store' = [store EXCEPT ![n] = ver]
      /\ tasks' = tasks \cup Spawn(ver, targets, left)
      /\ seen'  = [seen EXCEPT ![n] = @ \cup {NextId}]
      /\ UNCHANGED <<reads, deletes, failures, lost>>
  BY DEF Write
<1>3. log' \in Seq(Request) /\ DOMAIN log \subseteq DOMAIN log' /\ NextId \in Nat
  BY <1>1, AcceptExtends
<1>4. TypeOK'
  <2>1. Spawn(ver, targets, left) \subseteq Task
    BY <1>3, SpawnType
  <2>2. QED
    BY <1>2, <1>3, <2>1 DEF TypeOK
<1>5. \A v : Provenance(v, log) => Provenance(v, log')
  BY <1>1, AcceptKeepsProvenance
<1>6. OwnerInv'
  <2>1. \A m \in Node : store'[m] # None => Provenance(store'[m], log')
    BY <1>2, <1>5 DEF TypeOK, OwnerInv
  <2>2. \A t \in tasks' : t.ver # None => Provenance(t.ver, log')
    BY <1>2, <1>5 DEF OwnerInv, Spawn
  <2>3. \A m \in Node : reads'[m] # None =>
            \A k \in Holders(reads'[m]) : Provenance(reads'[m].resp[k], log')
    BY <1>2, <1>5 DEF OwnerInv
  <2>4. QED
    BY <2>1, <2>2, <2>3 DEF OwnerInv, Holders, Answered
<1>7. QED
  BY <1>4, <1>6

\* A version that a user or the administrator makes at a node: a new record
\* belongs to its maker, an existing one is changed by its owner or by the
\* administrator.
LEMMA NewProvenance ==
    ASSUME TypeOK, NEW op \in Ops, NEW n \in Node, NEW by \in Owner, NEW ts,
           Accept(op, n, by)
    PROVE  Provenance(new(NextId, by, n, ts), log')
<1>. DEFINE v == new(NextId, by, n, ts)
<1>1. v.id = NextId /\ v.value = {NextId} /\ v.owner = by
  BY DEF new
<1>2. NextId \in DOMAIN log' /\ log'[NextId].by = by
  BY AcceptExtends
<1>. HIDE DEF v
<1>3. Provenance(v, log')
  BY <1>1, <1>2 DEF Provenance
<1>4. QED
  BY <1>3 DEF v

LEMMA ChangeProvenance ==
    ASSUME TypeOK, NEW op \in Ops, NEW n \in Node, NEW by \in Owner, NEW ts,
           Accept(op, n, by), NEW v \in Version, Provenance(v, log),
           by \in {v.owner, Admin}
    PROVE  /\ Provenance(update(v, NextId, n, ts), log')
           /\ Provenance(patch(v, NextId, n, ts), log')
<1>. DEFINE u == update(v, NextId, n, ts)
            p == patch(v, NextId, n, ts)
<1>1. u.id = NextId /\ u.value = {NextId} /\ u.owner = v.owner
  BY DEF update, Version
<1>2. p.id = NextId /\ p.value = v.value \cup {NextId} /\ p.owner = v.owner
  BY DEF patch, Version
<1>3. /\ NextId \in DOMAIN log' /\ DOMAIN log \subseteq DOMAIN log'
      /\ log'[NextId].by \in {v.owner, Admin}
      /\ \A i \in DOMAIN log : log'[i] = log[i]
  BY AcceptExtends
<1>. HIDE DEF u, p
<1>4. Provenance(u, log')
  BY <1>1, <1>3 DEF Provenance
<1>5. Provenance(p, log')
  BY <1>2, <1>3 DEF Provenance
<1>6. QED
  BY <1>4, <1>5 DEF u, p

LEMMA PutStep ==
    ASSUME TypeOK, OwnerInv, NEW n \in Node, NEW u \in User,
           NEW view \in SUBSET Node, Put(n, u, view)
    PROVE  TypeOK' /\ OwnerInv'
<1>. DEFINE ver(ts) == IF store[n] = None
                       THEN new(NextId, u, n, ts)
                       ELSE update(store[n], NextId, n, ts)
<1>1. PICK g \in Gap, k \in Skew :
          /\ now' = now + g
          /\ Write("put", n, u, ver(current_timestamp(g, k)), view, Retries)
  BY DEF Put
<1>. DEFINE ts == current_timestamp(g, k)
<1>2. ts \in Nat /\ now' \in Nat
  BY <1>1, ConstantsAssumption DEF TypeOK, current_timestamp
<1>. HIDE DEF ts
<1>3. u \in Owner /\ "put" \in Ops /\ Retries \in 0 .. Retries
  BY ConstantsAssumption DEF Owner, Ops
<1>4. Accept("put", n, u)
  BY <1>1 DEF Write
<1>5. NextId \in Nat
  BY <1>3, <1>4, AcceptExtends
<1>6. ver(ts) \in Version /\ Provenance(ver(ts), log')
  <2>1. CASE store[n] = None
    BY <1>2, <1>3, <1>4, <1>5, <2>1, NewType, NewProvenance
  <2>2. CASE store[n] # None
    <3>1. store[n] \in Version /\ Provenance(store[n], log)
      BY <2>2 DEF TypeOK, OwnerInv
    <3>2. u = store[n].owner
      BY <2>2 DEF Put, MayChange
    <3>3. QED
      BY <1>2, <1>3, <1>4, <1>5, <2>2, <3>1, <3>2, UpdateType, ChangeProvenance
  <2>3. QED
    BY <2>1, <2>2
<1>. HIDE DEF ver
<1>7. Write("put", n, u, ver(ts), view, Retries)
  BY <1>1 DEF ts
<1>8. QED
  BY <1>2, <1>3, <1>6, <1>7, WriteStep

LEMMA PatchStep ==
    ASSUME TypeOK, OwnerInv, NEW n \in Node, NEW u \in User,
           NEW view \in SUBSET Node, Patch(n, u, view)
    PROVE  TypeOK' /\ OwnerInv'
<1>. DEFINE ver(ts) == patch(store[n], NextId, n, ts)
<1>1. PICK g \in Gap, k \in Skew :
          /\ now' = now + g
          /\ Write("patch", n, u, ver(current_timestamp(g, k)), view \ {n},
                   Retries)
  BY DEF Patch
<1>. DEFINE ts == current_timestamp(g, k)
<1>2. ts \in Nat /\ now' \in Nat
  BY <1>1, ConstantsAssumption DEF TypeOK, current_timestamp
<1>. HIDE DEF ts
<1>3. /\ u \in Owner /\ "patch" \in Ops /\ Retries \in 0 .. Retries
      /\ view \ {n} \in SUBSET Node
  BY ConstantsAssumption DEF Owner, Ops
<1>4. Accept("patch", n, u)
  BY <1>1 DEF Write
<1>5. NextId \in Nat
  BY <1>3, <1>4, AcceptExtends
<1>6. /\ store[n] \in Version /\ Provenance(store[n], log)
      /\ u = store[n].owner
  BY DEF Patch, MayChange, TypeOK, OwnerInv
<1>7. ver(ts) \in Version /\ Provenance(ver(ts), log')
  BY <1>2, <1>3, <1>4, <1>5, <1>6, PatchType, ChangeProvenance
<1>. HIDE DEF ver
<1>8. Write("patch", n, u, ver(ts), view \ {n}, Retries)
  BY <1>1 DEF ts
<1>9. QED
  BY <1>2, <1>3, <1>7, <1>8, WriteStep

LEMMA AdminPutStep ==
    ASSUME TypeOK, OwnerInv, NEW n \in Node, NEW view \in SUBSET Node,
           AdminPut(n, view)
    PROVE  TypeOK' /\ OwnerInv'
<1>. DEFINE ver(ts) == IF store[n] = None
                       THEN new(NextId, Admin, n, ts)
                       ELSE update(store[n], NextId, n, ts)
<1>1. PICK g \in Gap, k \in Skew :
          /\ now' = now + g
          /\ Write("adminPut", n, Admin, ver(current_timestamp(g, k)),
                   view \ {n}, 1)
  BY DEF AdminPut
<1>. DEFINE ts == current_timestamp(g, k)
<1>2. ts \in Nat /\ now' \in Nat
  BY <1>1, ConstantsAssumption DEF TypeOK, current_timestamp
<1>. HIDE DEF ts
<1>3. /\ Admin \in Owner /\ "adminPut" \in Ops /\ 1 \in 0 .. Retries
      /\ view \ {n} \in SUBSET Node
  BY ConstantsAssumption DEF Owner, Ops
<1>4. Accept("adminPut", n, Admin)
  BY <1>1 DEF Write
<1>5. NextId \in Nat
  BY <1>3, <1>4, AcceptExtends
<1>6. ver(ts) \in Version /\ Provenance(ver(ts), log')
  <2>1. CASE store[n] = None
    BY <1>2, <1>3, <1>4, <1>5, <2>1, NewType, NewProvenance
  <2>2. CASE store[n] # None
    <3>1. store[n] \in Version /\ Provenance(store[n], log)
      BY <2>2 DEF TypeOK, OwnerInv
    <3>2. QED
      BY <1>2, <1>3, <1>4, <1>5, <2>2, <3>1, UpdateType, ChangeProvenance
  <2>3. QED
    BY <2>1, <2>2
<1>. HIDE DEF ver
<1>7. Write("adminPut", n, Admin, ver(ts), view \ {n}, 1)
  BY <1>1 DEF ts
<1>8. QED
  BY <1>2, <1>3, <1>6, <1>7, WriteStep

LEMMA DeleteCheckStep ==
    ASSUME TypeOK, OwnerInv, NEW n \in Node, NEW u \in User, DeleteCheck(n, u)
    PROVE  TypeOK' /\ OwnerInv'
<1>1. /\ Accept("delete", n, u)
      /\ deletes' = deletes \cup {NextId}
      /\ UNCHANGED <<store, tasks, reads, now, seen, failures, lost>>
  BY DEF DeleteCheck
<1>2. u \in Owner /\ "delete" \in Ops
  BY DEF Owner, Ops
<1>3. /\ log' \in Seq(Request)
      /\ DOMAIN log' = DOMAIN log \cup {NextId}
  BY <1>1, <1>2, AcceptExtends
<1>4. TypeOK'
  BY <1>1, <1>3 DEF TypeOK
<1>5. \A v : Provenance(v, log) => Provenance(v, log')
  BY <1>1, <1>2, AcceptKeepsProvenance
<1>6. OwnerInv'
  BY <1>1, <1>5 DEF OwnerInv, Holders, Answered
<1>7. QED
  BY <1>4, <1>6

LEMMA DeleteRemoveStep ==
    ASSUME TypeOK, OwnerInv, NEW d \in deletes, NEW view \in SUBSET Node,
           DeleteRemove(d, view)
    PROVE  TypeOK' /\ OwnerInv'
<1>. DEFINE n == log[d].node
            sent == {[ver |-> None, req |-> d, to |-> m, left |-> Retries] :
                        m \in view \ {n}}
<1>1. /\ store' = [store EXCEPT ![n] = None]
      /\ tasks' = tasks \cup sent
      /\ deletes' = deletes \ {d}
      /\ UNCHANGED <<reads, now, log, seen, failures, lost>>
  BY DEF DeleteRemove
<1>2. d \in Nat /\ n \in Node
  <2>1. d \in DOMAIN log /\ log \in Seq(Request)
    BY DEF TypeOK
  <2>2. d \in Nat /\ log[d] \in Request
    BY <2>1
  <2>3. QED
    BY <2>2 DEF Request
<1>3. sent \subseteq Task /\ \A t \in sent : t.ver = None
  BY <1>2, ConstantsAssumption DEF Task
<1>. HIDE DEF n, sent
<1>4. TypeOK'
  BY <1>1, <1>2, <1>3 DEF TypeOK
<1>5. OwnerInv'
  BY <1>1, <1>2, <1>3 DEF TypeOK, OwnerInv, Holders, Answered
<1>6. QED
  BY <1>4, <1>5

LEMMA AdminDeleteStep ==
    ASSUME TypeOK, OwnerInv, NEW n \in Node, NEW view \in SUBSET Node,
           AdminDelete(n, view)
    PROVE  TypeOK' /\ OwnerInv'
<1>. DEFINE sent == Spawn(None, view \ {n}, 1)
<1>1. /\ Accept("adminDelete", n, Admin)
      /\ store' = [store EXCEPT ![n] = None]
      /\ tasks' = tasks \cup sent
      /\ UNCHANGED <<reads, deletes, now, seen, failures, lost>>
  BY DEF AdminDelete
<1>2. Admin \in Owner /\ "adminDelete" \in Ops /\ 1 \in 0 .. Retries
  BY ConstantsAssumption DEF Owner, Ops
<1>3. /\ log' \in Seq(Request) /\ NextId \in Nat
      /\ DOMAIN log' = DOMAIN log \cup {NextId}
  BY <1>1, <1>2, AcceptExtends
<1>4. sent \subseteq Task
  BY <1>2, <1>3, SpawnType
<1>5. \A t \in sent : t.ver = None
  BY DEF Spawn
<1>. HIDE DEF sent
<1>6. TypeOK'
  BY <1>1, <1>3, <1>4 DEF TypeOK
<1>7. \A v : Provenance(v, log) => Provenance(v, log')
  BY <1>1, <1>2, AcceptKeepsProvenance
<1>8. OwnerInv'
  BY <1>1, <1>5, <1>7 DEF TypeOK, OwnerInv, Holders, Answered
<1>9. QED
  BY <1>6, <1>8

\* What a receiver does with a request.
LEMMA HandleStep ==
    ASSUME TypeOK, OwnerInv, NEW t \in tasks, Handle(t)
    PROVE  /\ store' \in [Node -> Version \cup {None}]
           /\ seen' \in [Node -> SUBSET Nat]
           /\ \A n \in Node : store'[n] # None => Provenance(store'[n], log)
<1>1. t \in Task /\ t.to \in Node /\ t.ver \in Version \cup {None}
  BY DEF TypeOK, Task
<1>2. /\ Received(t) \in Version \cup {None}
      /\ Received(t) # None => Provenance(Received(t), log)
  <2>1. CASE t.ver = None
    BY <2>1 DEF Received
  <2>2. CASE t.ver # None
    <3>1. /\ t.ver \in Version /\ Provenance(t.ver, log)
          /\ store[t.to] \in Version \cup {None}
          /\ store[t.to] # None => Provenance(store[t.to], log)
      BY <1>1, <2>2 DEF TypeOK, OwnerInv
    <3>2. QED
      BY <2>2, <3>1, MergeType DEF Received
  <2>3. QED
    BY <2>1, <2>2
<1>3. Learn(t) \subseteq Nat
  <2>1. CASE t.ver = None
    BY <2>1 DEF Learn
  <2>2. CASE t.ver # None
    <3>1. t.ver \in Version /\ t.ver.id \in DOMAIN log
      BY <1>1, <2>2 DEF OwnerInv, Provenance
    <3>2. log[t.ver.id] \in Request /\ t.ver.id \in Nat
      BY <3>1 DEF TypeOK, Version
    <3>3. QED
      BY <2>2, <3>2 DEF Learn, Request
  <2>3. QED
    BY <2>1, <2>2
<1>4. QED
  BY <1>1, <1>2, <1>3 DEF Handle, TypeOK, OwnerInv

LEMMA TaskSteps ==
    ASSUME TypeOK, OwnerInv, NEW t \in tasks,
           \/ Deliver(t)
           \/ Refuse(t)
           \/ DeliverUnanswered(t)
           \/ Timeout(t)
           \/ Drop(t)
    PROVE  TypeOK' /\ OwnerInv'
<1>1. t \in Task /\ NextAttempt(t) \subseteq Task
  BY NextAttemptType DEF TypeOK
<1>2. \A r \in NextAttempt(t) : r.ver = t.ver
  BY <1>1 DEF NextAttempt, Task
<1>3. CASE Deliver(t)
  <2>1. /\ Handle(t) /\ tasks' = tasks \ {t}
        /\ UNCHANGED <<reads, deletes, now, log, failures, lost>>
    BY <1>3 DEF Deliver
  <2>2. QED
    BY <2>1, HandleStep DEF TypeOK, OwnerInv, Holders, Answered
<1>4. CASE Refuse(t)
  <2>1. /\ tasks' = (tasks \ {t}) \cup NextAttempt(t)
        /\ lost' \in BOOLEAN
        /\ UNCHANGED <<store, reads, deletes, now, log, seen, failures>>
    BY <1>4 DEF Refuse, TypeOK
  <2>2. QED
    BY <1>1, <1>2, <2>1 DEF TypeOK, OwnerInv, Holders, Answered
<1>5. CASE DeliverUnanswered(t)
  <2>1. /\ Handle(t) /\ tasks' = (tasks \ {t}) \cup NextAttempt(t)
        /\ failures' \in Nat
        /\ UNCHANGED <<reads, deletes, now, log, lost>>
    BY <1>5 DEF DeliverUnanswered, Fault, TypeOK
  <2>2. QED
    BY <1>1, <1>2, <2>1, HandleStep DEF TypeOK, OwnerInv, Holders, Answered
<1>6. CASE Timeout(t)
  <2>1. PICK stray \in {{}, {[t EXCEPT !.left = 0]}} :
            tasks' = (tasks \ {t}) \cup NextAttempt(t) \cup stray
    BY <1>6 DEF Timeout
  <2>2. stray \subseteq Task /\ \A r \in stray : r.ver = t.ver
    BY <1>1, ConstantsAssumption DEF Task
  <2>3. /\ failures' \in Nat /\ lost' \in BOOLEAN
        /\ UNCHANGED <<store, reads, deletes, now, log, seen>>
    BY <1>6 DEF Timeout, Fault, TypeOK
  <2>4. QED
    BY <1>1, <1>2, <2>1, <2>2, <2>3 DEF TypeOK, OwnerInv, Holders, Answered
<1>7. CASE Drop(t)
  <2>1. /\ tasks' = tasks \ {t} /\ lost' \in BOOLEAN
        /\ UNCHANGED <<store, reads, deletes, now, log, seen, failures>>
    BY <1>7 DEF Drop, TypeOK
  <2>2. QED
    BY <2>1 DEF TypeOK, OwnerInv, Holders, Answered
<1>8. QED
  BY <1>3, <1>4, <1>5, <1>6, <1>7

LEMMA GetStartStep ==
    ASSUME TypeOK, OwnerInv, NEW n \in Node, NEW u \in User,
           NEW view \in SUBSET Node, GetStart(n, u, view)
    PROVE  TypeOK' /\ OwnerInv'
<1>. DEFINE r == [by |-> u, floor |-> store[n], req |-> NextId,
                  resp |-> [m \in Node |->
                               IF m \in view THEN Pending ELSE Silent]]
<1>1. /\ reads' = [reads EXCEPT ![n] = r]
      /\ Accept("get", n, u)
      /\ UNCHANGED <<store, tasks, deletes, now, seen, failures, lost>>
  BY DEF GetStart
<1>2. u \in Owner /\ "get" \in Ops
  BY DEF Owner, Ops
<1>3. /\ log' \in Seq(Request) /\ NextId \in Nat
      /\ DOMAIN log' = DOMAIN log \cup {NextId}
  BY <1>1, <1>2, AcceptExtends
<1>4. r \in Read
  BY <1>3 DEF Read, TypeOK
<1>5. Holders(r) = {}
  BY DEF Holders, Answered
<1>. HIDE DEF r
<1>6. TypeOK'
  BY <1>1, <1>3, <1>4 DEF TypeOK
<1>7. \A v : Provenance(v, log) => Provenance(v, log')
  BY <1>1, <1>2, AcceptKeepsProvenance
<1>8. \A m \in Node : reads'[m] # None =>
          \A k \in Holders(reads'[m]) : Provenance(reads'[m].resp[k], log')
  BY <1>1, <1>5, <1>7 DEF TypeOK, OwnerInv
<1>9. OwnerInv'
  BY <1>1, <1>7, <1>8 DEF OwnerInv, Holders, Answered
<1>10. QED
  BY <1>6, <1>9

\* An answer is a version that the asked node holds, or None, or nothing.
LEMMA GetReplyStep ==
    ASSUME TypeOK, OwnerInv, NEW n \in Node, NEW m \in Node,
           GetAnswer(n, m) \/ GetError(n, m)
    PROVE  TypeOK' /\ OwnerInv'
<1>1. PICK x \in {store[m], Silent} :
          /\ reads[n] # None
          /\ reads' = [reads EXCEPT ![n].resp[m] = x]
          /\ UNCHANGED <<store, tasks, deletes, now, log, seen, failures, lost>>
  BY DEF GetAnswer, GetError
<1>2. reads[n] \in Read /\ x \in Version \cup {None, Silent}
  BY <1>1 DEF TypeOK
<1>. DEFINE r == [reads[n] EXCEPT !.resp[m] = x]
<1>3. reads' = [reads EXCEPT ![n] = r]
  BY <1>1
<1>4. /\ r \in Read
      /\ r.resp = [reads[n].resp EXCEPT ![m] = x]
      /\ reads[n].resp \in [Node -> Version \cup {None, Pending, Silent}]
  BY <1>2 DEF Read
<1>. HIDE DEF r
<1>5. TypeOK'
  BY <1>1, <1>3, <1>4 DEF TypeOK
<1>6. \A k \in Holders(r) : Provenance(r.resp[k], log)
  BY <1>1, <1>2, <1>4 DEF Holders, Answered, OwnerInv
<1>7. \A i \in Node : reads'[i] # None =>
          \A k \in Holders(reads'[i]) : Provenance(reads'[i].resp[k], log')
  BY <1>1, <1>3, <1>6 DEF TypeOK, OwnerInv
<1>8. OwnerInv'
  BY <1>1, <1>7 DEF OwnerInv, Holders, Answered
<1>9. QED
  BY <1>5, <1>8

LEMMA GetFinishStep ==
    ASSUME TypeOK, OwnerInv, NEW n \in Node, GetFinish(n)
    PROVE  TypeOK' /\ OwnerInv'
<1>1. /\ reads[n] # None
      /\ reads' = [reads EXCEPT ![n] = None]
      /\ UNCHANGED <<store, deletes, now, log, seen, failures, lost>>
  BY DEF GetFinish
<1>2. reads[n] \in Read
  BY <1>1 DEF TypeOK
<1>3. CASE tasks' = tasks
  BY <1>1, <1>3 DEF TypeOK, OwnerInv, Holders, Answered
<1>4. ASSUME NEW m \in Holders(reads[n]),
             tasks' = tasks \cup
                 {[ver |-> reads[n].resp[m], req |-> reads[n].req, to |-> k,
                   left |-> 1] : k \in ToRepair(reads[n], reads[n].resp[m])}
      PROVE  TypeOK' /\ OwnerInv'
  <2>. DEFINE latest == reads[n].resp[m]
              sent == {[ver |-> latest, req |-> reads[n].req, to |-> k,
                        left |-> 1] : k \in ToRepair(reads[n], latest)}
  <2>1. latest \in Version /\ Provenance(latest, log)
    BY <1>1, HolderAnswer DEF OwnerInv
  <2>2. ToRepair(reads[n], latest) \subseteq Node /\ reads[n].req \in Nat
    BY <1>2 DEF ToRepair, Answered, Read
  <2>3. sent \subseteq Task /\ \A t \in sent : t.ver = latest
    BY <2>1, <2>2, ConstantsAssumption DEF Task
  <2>4. tasks' = tasks \cup sent
    BY <1>4
  <2>. HIDE DEF latest, sent
  <2>5. TypeOK'
    BY <1>1, <2>3, <2>4 DEF TypeOK
  <2>6. OwnerInv'
    BY <1>1, <2>1, <2>3, <2>4 DEF TypeOK, OwnerInv, Holders, Answered
  <2>7. QED
    BY <2>5, <2>6
<1>5. QED
  BY <1>3, <1>4 DEF GetFinish

-----------------------------------------------------------------------------
(* The theorems.                                                           *)

LEMMA InitOK == Init => TypeOK /\ OwnerInv
<1>. SUFFICES ASSUME Init PROVE TypeOK /\ OwnerInv
  OBVIOUS
<1>1. TypeOK
  <2>1. log \in Seq(Request) /\ deletes \subseteq DOMAIN log
    BY DEF Init
  <2>2. /\ store \in [Node -> Version \cup {None}]
        /\ reads \in [Node -> Read \cup {None}]
        /\ seen \in [Node -> SUBSET Nat]
    BY DEF Init
  <2>3. tasks \subseteq Task /\ now \in Nat /\ failures \in Nat /\ lost \in BOOLEAN
    BY DEF Init
  <2>4. QED
    BY <2>1, <2>2, <2>3 DEF TypeOK
<1>2. OwnerInv
  BY DEF Init, OwnerInv
<1>3. QED
  BY <1>1, <1>2

LEMMA NextOK == TypeOK /\ OwnerInv /\ [Next]_vars => TypeOK' /\ OwnerInv'
<1>. SUFFICES ASSUME TypeOK, OwnerInv, [Next]_vars
              PROVE  TypeOK' /\ OwnerInv'
  OBVIOUS
<1>1. Coordinators \subseteq Node /\ Views \subseteq SUBSET Node
  BY ConstantsAssumption
<1>2. CASE ClientStep
  BY <1>1, <1>2, PutStep, PatchStep, GetStartStep, AdminPutStep DEF ClientStep
<1>3. CASE ClientDelete
  BY <1>1, <1>3, DeleteCheckStep, AdminDeleteStep DEF ClientDelete
<1>4. CASE TaskStep
  BY <1>4, TaskSteps DEF TaskStep
<1>5. CASE ReadStep
  BY <1>5, GetReplyStep, GetFinishStep DEF ReadStep
<1>6. CASE DeleteStep
  BY <1>1, <1>6, DeleteRemoveStep DEF DeleteStep
<1>7. CASE UNCHANGED vars
  BY <1>7 DEF vars, TypeOK, OwnerInv, Holders, Answered
<1>8. QED
  BY <1>2, <1>3, <1>4, <1>5, <1>6, <1>7 DEF Next, KeepingNext

\* The store is type-correct in every behaviour: in particular no retry
\* counter goes below 0 and every request under way carries a whole record.
THEOREM TypeCorrect == Spec => []TypeOK
<1>1. Init => TypeOK /\ OwnerInv
  BY InitOK
<1>2. TypeOK /\ OwnerInv /\ [Next]_vars => (TypeOK /\ OwnerInv)'
  BY NextOK
<1>3. QED
  BY <1>1, <1>2, PTL DEF Spec

\* The inductive invariant holds in every behaviour.
THEOREM OwnerInvariant == Spec => [](TypeOK /\ OwnerInv)
<1>1. Init => TypeOK /\ OwnerInv
  BY InitOK
<1>2. TypeOK /\ OwnerInv /\ [Next]_vars => (TypeOK /\ OwnerInv)'
  BY NextOK
<1>3. QED
  BY <1>1, <1>2, PTL DEF Spec

\* Every write in every record of every replica, or on its way to one, was
\* made by the record's owner or the administrator, although only the node
\* that takes a request checks it.
THEOREM OwnerWroteEverything == Spec => []OwnerWrote
<1>1. TypeOK /\ OwnerInv => OwnerWrote
  BY DEF OwnerInv, OwnerWrote, Live, Provenance
<1>2. QED
  BY <1>1, OwnerInvariant, PTL

\* A step that exchanges the record of a replica for another one takes one
\* that supersedes it.
LEMMA AdvanceStep ==
    ASSUME TypeOK, [Next]_vars, NEW n \in Node,
           store[n] # None, store'[n] # None, store'[n] # store[n]
    PROVE  Supersedes(store'[n], store[n])
<1>1. store[n] \in Version
  BY DEF TypeOK
<1>2. ASSUME NEW by, NEW op, NEW targets, NEW left, NEW k \in Node, NEW ver,
             Write(op, k, by, ver, targets, left),
             store[k] # None => Dominates(ver, store[k])
      PROVE  Supersedes(store'[n], store[n])
  BY <1>2 DEF Write, TypeOK, Supersedes
<1>3. ASSUME NEW k \in Node, NEW u \in User, NEW view, Put(k, u, view)
      PROVE  Supersedes(store'[n], store[n])
  <2>1. \A id, ts : store[k] # None =>
            Dominates(update(store[k], id, k, ts), store[k])
    BY WriteDominates DEF TypeOK
  <2>2. QED
    BY <1>2, <1>3, <2>1 DEF Put
<1>4. ASSUME NEW k \in Node, NEW u \in User, NEW view, Patch(k, u, view)
      PROVE  Supersedes(store'[n], store[n])
  <2>1. \A id, ts : store[k] # None =>
            Dominates(patch(store[k], id, k, ts), store[k])
    BY WriteDominates DEF TypeOK
  <2>2. QED
    BY <1>2, <1>4, <2>1 DEF Patch
<1>5. ASSUME NEW k \in Node, NEW view, AdminPut(k, view)
      PROVE  Supersedes(store'[n], store[n])
  <2>1. \A id, ts : store[k] # None =>
            Dominates(update(store[k], id, k, ts), store[k])
    BY WriteDominates DEF TypeOK
  <2>2. QED
    BY <1>2, <1>5, <2>1 DEF AdminPut
<1>6. ASSUME NEW t \in tasks, Handle(t)
      PROVE  Supersedes(store'[n], store[n])
  <2>1. t.to \in Node
    BY DEF TypeOK, Task
  <2>2. store'[n] = Received(t) /\ t.to = n
    BY <1>6, <2>1 DEF Handle, TypeOK
  <2>3. QED
    BY <2>2 DEF Received, Merge
<1>7. Coordinators \subseteq Node
  BY ConstantsAssumption
<1>8. CASE ClientStep
  BY <1>3, <1>4, <1>5, <1>7, <1>8
     DEF ClientStep, GetStart
<1>9. CASE ClientDelete
  BY <1>7, <1>9 DEF ClientDelete, DeleteCheck, AdminDelete, TypeOK
<1>10. CASE TaskStep
  BY <1>6, <1>10
     DEF TaskStep, Deliver, Refuse, DeliverUnanswered, Timeout, Drop
<1>11. CASE ReadStep
  BY <1>11 DEF ReadStep, GetAnswer, GetError, GetFinish
<1>12. CASE DeleteStep
  BY <1>12 DEF DeleteStep, DeleteRemove, TypeOK
<1>13. CASE UNCHANGED vars
  BY <1>13 DEF vars
<1>14. QED
  BY <1>8, <1>9, <1>10, <1>11, <1>12, <1>13 DEF Next, KeepingNext

\* No schedule, retry, late request or clock makes a replica exchange a record
\* for one that does not supersede it.
THEOREM ReplicasAdvance == Spec => ReplicaAdvances
<1>1. TypeOK /\ [Next]_vars =>
        [\A n \in Node :
            (store[n] # None /\ store'[n] # None /\ store'[n] # store[n])
                => Supersedes(store'[n], store[n])]_vars
  BY AdvanceStep
<1>2. QED
  BY <1>1, TypeCorrect, PTL DEF Spec, ReplicaAdvances

\* A behaviour without removals is a behaviour of the store.
LEMMA KeepingIsStore == KeepingSpec => Spec
<1>1. [KeepingNext]_vars => [Next]_vars
  BY DEF Next
<1>2. QED
  BY <1>1, PTL DEF KeepingSpec, Spec

\* Without an answer that holds the key there is nothing to select.
LEMMA NoOutcome ==
    ASSUME NEW r, Holders(r) = {}
    PROVE  Outcomes(r) = {}
<1>. SUFFICES ASSUME NEW order \in SetToSeqs({}) PROVE order = <<>>
  BY DEF Outcomes, LatestOf
<1>1. Cardinality({}) = 0
  BY FS_EmptySet
<1>2. order \in [1 .. 0 -> {}]
  BY <1>1 DEF SetToSeqs
<1>3. QED
  BY <1>2

-----------------------------------------------------------------------------
(* Two nodes: the versions that are kept.                                  *)

\* The other node.
LEMMA PairOther ==
    ASSUME Deployed, NEW n \in Node
    PROVE  /\ Other(n) \in Node /\ Other(n) # n /\ Other(Other(n)) = n
           /\ Node = {n, Other(n)}
<1>1. \A k \in Node : Other(k) \in Node /\ Other(k) # k
  BY DEF Deployed, Other
<1>2. Node = {n, Other(n)}
  BY <1>1 DEF Deployed
<1>3. QED
  BY <1>1, <1>2

\* Everything that is kept is in Kept.
LEMMA KeptHas ==
    /\ \A n \in Node : store[n] \in Kept \cup {None}
    /\ \A t \in tasks : t.ver \in Kept \cup {None}
    /\ \A n \in Node : reads[n] # None =>
          /\ reads[n].floor \in Kept \cup {None}
          /\ \A m \in Holders(reads[n]) : reads[n].resp[m] \in Kept
<1>1. \A n \in Node : reads[n] # None =>
          \A m \in Holders(reads[n]) : reads[n].resp[m] \in Collected
  BY DEF Collected
<1>2. \A n \in Node : \A m \in Holders(reads[n]) : reads[n].resp[m] # None
  BY DEF Holders
<1>3. QED
  BY <1>1, <1>2 DEF Kept, Live

\* Only that is.
LEMMA KeptNext ==
    ASSUME NEW S,
           \A n \in Node : store'[n] \in S \cup {None},
           \A t \in tasks' : t.ver \in S \cup {None},
           \A n \in Node : reads'[n] # None =>
               /\ reads'[n].floor \in S \cup {None}
               /\ \A m \in Holders(reads'[n]) : reads'[n].resp[m] \in S
    PROVE  Kept' \subseteq S
<1>1. Collected' \subseteq S
  BY DEF Collected, Holders, Answered
<1>2. Live' \subseteq S
  BY DEF Live
<1>3. QED
  BY <1>1, <1>2 DEF Kept

LEMMA KeptVersion ==
    ASSUME TypeOK, NEW v \in Kept
    PROVE  /\ v \in Version /\ v # None /\ v.id \in Nat /\ v.timestamp \in Nat
           /\ v.vector_clock \in [Node -> Nat]
<1>1. v \in Version
  <2>1. CASE v \in Collected
    <3>1. PICK n \in Node : /\ reads[n] # None
                            /\ \E m \in Holders(reads[n]) :
                                   v = reads[n].resp[m]
      BY <2>1 DEF Collected
    <3>2. QED
      BY <3>1, HolderAnswer
  <2>2. CASE \E n \in Node : v = store[n]
    BY <2>2 DEF Kept, TypeOK
  <2>3. CASE \E t \in tasks : v = t.ver
    BY <2>3 DEF Kept, TypeOK, Task
  <2>4. CASE \E n \in Node : reads[n] # None /\ v = reads[n].floor
    BY <2>4 DEF Kept, TypeOK, Read
  <2>5. QED
    BY <2>1, <2>2, <2>3, <2>4 DEF Kept, Live
<1>2. QED
  BY <1>1, NoneAssumption DEF Version, Clock

\* Writes are positions of the log, and so are the makers of versions nodes.
LEMMA WriteOf ==
    ASSUME TypeOK, NEW i \in Writes
    PROVE  /\ i \in DOMAIN log /\ i \in Nat /\ 0 < i /\ i <= Len(log)
           /\ i < NextId /\ log[i].node \in Node /\ log[i].past \subseteq Nat
<1>1. i \in DOMAIN log /\ log \in Seq(Request)
  BY DEF Writes, TypeOK
<1>2. log[i] \in Request /\ i \in 1 .. Len(log) /\ Len(log) \in Nat
  BY <1>1
<1>3. QED
  BY <1>1, <1>2 DEF Request, NextId

LEMMA AtNat ==
    ASSUME TypeOK, NEW n \in Node
    PROVE  At(n) \in Nat /\ Own(n) \in Nat
BY DEF TypeOK, At, Own, Version, Clock

-----------------------------------------------------------------------------
(* Two nodes: the order of the versions.                                   *)

\* Between two versions the clocks and the timestamps decide as the order of
\* the writes does.
LEMMA PairOrder ==
    ASSUME Deployed, TypeOK, PairTimes, PairEntries,
           NEW v \in Kept, NEW w \in Kept, v.id < w.id
    PROVE  ~Dominates(v, w) /\ Supersedes(w, v) /\ ~Supersedes(v, w)
<1>1. /\ v \in Version /\ w \in Version
      /\ v.vector_clock \in [Node -> Nat] /\ w.vector_clock \in [Node -> Nat]
      /\ v.timestamp \in Nat /\ w.timestamp \in Nat
  BY KeptVersion
<1>2. v.timestamp < w.timestamp
  BY DEF PairTimes
<1>3. \E k \in Node : v.vector_clock[k] < w.vector_clock[k]
  <2>1. Maker(v) \in Node
    BY WriteOf DEF PairTimes, Maker
  <2>2. Other(Maker(v)) \in Node
    BY <2>1, PairOther
  <2>3. PairBefore(v, w)
    BY DEF PairEntries
  <2>4. QED
    BY <2>1, <2>2, <2>3 DEF PairBefore
<1>4. ~Dominates(v, w)
  <2>1. SUFFICES ASSUME Dominates(v, w) PROVE FALSE
    OBVIOUS
  <2>2. \A k \in Node : v.vector_clock[k] >= w.vector_clock[k]
    BY <1>1, <2>1, DominatesIsPointwise
  <2>3. QED
    BY <1>1, <1>3, <2>2
<1>5. Supersedes(w, v)
  BY <1>1, <1>2, <1>4 DEF Supersedes
<1>6. ~Supersedes(v, w)
  BY <1>1, <1>2, <1>4 DEF Supersedes
<1>7. QED
  BY <1>4, <1>5, <1>6

\* So a merge keeps the later of two writes.
LEMMA PairMerge ==
    ASSUME Deployed, TypeOK, PairTimes, PairEntries,
           NEW n \in Node, NEW v \in Kept
    PROVE  Merge(store[n], v) = IF At(n) < v.id THEN v ELSE store[n]
<1>1. v \in Version /\ v.id \in Nat /\ At(n) \in Nat
  BY KeptVersion, AtNat
<1>2. CASE store[n] = None
  <2>1. v.id > 0
    BY WriteOf DEF PairTimes
  <2>2. QED
    BY <1>2, <2>1 DEF Merge, At
<1>3. CASE store[n] # None
  <2>1. store[n] \in Kept /\ At(n) = store[n].id /\ store[n].id \in Nat
    BY <1>1, <1>3, KeptHas DEF At
  <2>2. CASE At(n) < v.id
    BY <2>1, <2>2, PairOrder DEF Merge
  <2>3. CASE At(n) = v.id
    BY <2>1, <2>3 DEF Merge, PairTimes
  <2>4. CASE v.id < At(n)
    BY <1>1, <1>3, <2>1, <2>4, PairOrder DEF Merge
  <2>5. QED
    BY <1>1, <2>2, <2>3, <2>4
<1>4. QED
  BY <1>2, <1>3

\* Old versions keep their order when the log grows.
LEMMA BeforeStays ==
    ASSUME NEW v, NEW w, v.id \in Writes, w.id \in Writes, PairBefore(v, w),
           Writes \subseteq Writes', \A i \in Writes : log'[i] = log[i]
    PROVE  PairBefore(v, w)'
<1>1. Maker(v)' = Maker(v) /\ Maker(w)' = Maker(w)
  BY DEF Maker
<1>. DEFINE n == Maker(v)
            m == Other(n)
            between(W, l) == \E i \in W : l[i].node = m /\ v.id < i /\ i < w.id
<1>2. between(Writes, log) => between(Writes', log')
  OBVIOUS
<1>3. QED
  BY <1>1, <1>2 DEF PairBefore

-----------------------------------------------------------------------------
(* Two nodes: the write handlers.                                          *)

\* A write at node n: what its version is made of.
PairWrites(n, op, by, ver, targets, left) ==
    /\ op \in {"put", "patch", "adminPut"} /\ by \in Owner
    /\ targets \subseteq Node /\ Node \ {n} \subseteq targets
    /\ Write(op, n, by, ver, targets, left)
    /\ now' \in Nat /\ now < now'
    /\ ver \in Version
    /\ ver.id = NextId
    /\ Skew # {} /\ \A k \in Skew : ver.timestamp = now' + k
    /\ ver.vector_clock[n] = Own(n) + 1
    /\ \A m \in Node \ {n} :
          ver.vector_clock[m] = IF store[n] = None THEN 0
                                ELSE store[n].vector_clock[m]

LEMMA PairChange ==
    ASSUME TypeOK, NEW n \in Node, store[n] # None, NEW ts \in Nat,
           NEW v \in {update(store[n], NextId, n, ts),
                      patch(store[n], NextId, n, ts)}
    PROVE  /\ v \in Version /\ v.id = NextId /\ v.timestamp = ts
           /\ v.vector_clock[n] = Own(n) + 1
           /\ \A m \in Node \ {n} :
                 v.vector_clock[m] = store[n].vector_clock[m]
<1>1. store[n] \in Version /\ NextId \in Nat
  BY DEF TypeOK, NextId
<1>2. v \in Version
  BY <1>1, UpdateType, PatchType
<1>3. /\ v.id = NextId /\ v.timestamp = ts
      /\ v.vector_clock = Tick(store[n].vector_clock, n)
  BY <1>1 DEF update, patch, Version
<1>4. store[n].vector_clock \in [Node -> Nat]
  BY <1>1 DEF Version, Clock
<1>5. QED
  BY <1>2, <1>3, <1>4 DEF Tick, Own

LEMMA PairNew ==
    ASSUME TypeOK, NEW n \in Node, store[n] = None, NEW ts \in Nat,
           NEW by \in Owner
    PROVE  LET v == new(NextId, by, n, ts)
           IN  /\ v \in Version /\ v.id = NextId /\ v.timestamp = ts
               /\ v.vector_clock[n] = Own(n) + 1
               /\ \A m \in Node \ {n} : v.vector_clock[m] = 0
<1>1. NextId \in Nat
  BY DEF TypeOK, NextId
<1>2. new(NextId, by, n, ts) \in Version
  BY <1>1, NewType
<1>3. QED
  BY <1>2 DEF new, Own

\* The three write handlers make such versions.
LEMMA PairMade ==
    ASSUME Deployed, TypeOK, NEW n \in Node, NEW view \in Views,
           \/ \E u \in User : Put(n, u, view) \/ Patch(n, u, view)
           \/ AdminPut(n, view)
    PROVE  \E op, by, ver, targets, left :
               PairWrites(n, op, by, ver, targets, left)
<1>1. view = Node /\ User \subseteq Owner /\ Admin \in Owner
  BY DEF Deployed, Owner
<1>2. ASSUME NEW g \in Gap, NEW k \in Skew, now' = now + g
      PROVE  /\ current_timestamp(g, k) \in Nat
             /\ now' \in Nat /\ now < now'
             /\ \A j \in Skew : current_timestamp(g, k) = now' + j
  BY <1>2, ConstantsAssumption DEF Deployed, TypeOK, current_timestamp
<1>3. ASSUME NEW u \in User, Put(n, u, view)
      PROVE  \E op, by, ver, targets, left :
                 PairWrites(n, op, by, ver, targets, left)
  <2>. DEFINE ver(ts) == IF store[n] = None
                         THEN new(NextId, u, n, ts)
                         ELSE update(store[n], NextId, n, ts)
  <2>1. PICK g \in Gap, k \in Skew :
            /\ now' = now + g
            /\ Write("put", n, u, ver(current_timestamp(g, k)), view, Retries)
    BY <1>3 DEF Put
  <2>. DEFINE ts == current_timestamp(g, k)
              w == ver(ts)
  <2>2. ts \in Nat /\ now' \in Nat /\ now < now'
        /\ \A j \in Skew : ts = now' + j
    BY <1>2, <2>1
  <2>3. Write("put", n, u, w, view, Retries)
    BY <2>1
  <2>. HIDE DEF ts
  <2>4. /\ w \in Version /\ w.id = NextId /\ w.timestamp = ts
        /\ w.vector_clock[n] = Own(n) + 1
        /\ \A m \in Node \ {n} :
              w.vector_clock[m] = IF store[n] = None THEN 0
                                  ELSE store[n].vector_clock[m]
    <3>1. CASE store[n] = None
      BY <1>1, <2>2, <3>1, PairNew
    <3>2. CASE store[n] # None
      BY <2>2, <3>2, PairChange
    <3>3. QED
      BY <3>1, <3>2
  <2>. HIDE DEF w
  <2>5. PairWrites(n, "put", u, w, view, Retries)
    BY <1>1, <2>2, <2>3, <2>4 DEF PairWrites
  <2>6. QED
    BY <2>5
<1>4. ASSUME NEW u \in User, Patch(n, u, view)
      PROVE  \E op, by, ver, targets, left :
                 PairWrites(n, op, by, ver, targets, left)
  <2>1. PICK g \in Gap, k \in Skew :
            /\ now' = now + g
            /\ Write("patch", n, u,
                     patch(store[n], NextId, n, current_timestamp(g, k)),
                     view \ {n}, Retries)
    BY <1>4 DEF Patch
  <2>. DEFINE ts == current_timestamp(g, k)
              w == patch(store[n], NextId, n, ts)
  <2>2. ts \in Nat /\ now' \in Nat /\ now < now'
        /\ \A j \in Skew : ts = now' + j
    BY <1>2, <2>1
  <2>3. Write("patch", n, u, w, view \ {n}, Retries) /\ store[n] # None
    BY <1>4, <2>1 DEF Patch
  <2>. HIDE DEF ts
  <2>4. /\ w \in Version /\ w.id = NextId /\ w.timestamp = ts
        /\ w.vector_clock[n] = Own(n) + 1
        /\ \A m \in Node \ {n} :
              w.vector_clock[m] = IF store[n] = None THEN 0
                                  ELSE store[n].vector_clock[m]
    BY <2>2, <2>3, PairChange
  <2>. HIDE DEF w
  <2>5. PairWrites(n, "patch", u, w, view \ {n}, Retries)
    BY <1>1, <2>2, <2>3, <2>4 DEF PairWrites
  <2>6. QED
    BY <2>5
<1>5. CASE AdminPut(n, view)
  <2>. DEFINE ver(ts) == IF store[n] = None
                         THEN new(NextId, Admin, n, ts)
                         ELSE update(store[n], NextId, n, ts)
  <2>1. PICK g \in Gap, k \in Skew :
            /\ now' = now + g
            /\ Write("adminPut", n, Admin, ver(current_timestamp(g, k)),
                     view \ {n}, 1)
    BY <1>5 DEF AdminPut
  <2>. DEFINE ts == current_timestamp(g, k)
              w == ver(ts)
  <2>2. ts \in Nat /\ now' \in Nat /\ now < now'
        /\ \A j \in Skew : ts = now' + j
    BY <1>2, <2>1
  <2>3. Write("adminPut", n, Admin, w, view \ {n}, 1)
    BY <2>1
  <2>. HIDE DEF ts
  <2>4. /\ w \in Version /\ w.id = NextId /\ w.timestamp = ts
        /\ w.vector_clock[n] = Own(n) + 1
        /\ \A m \in Node \ {n} :
              w.vector_clock[m] = IF store[n] = None THEN 0
                                  ELSE store[n].vector_clock[m]
    <3>1. CASE store[n] = None
      BY <1>1, <2>2, <3>1, PairNew
    <3>2. CASE store[n] # None
      BY <2>2, <3>2, PairChange
    <3>3. QED
      BY <3>1, <3>2
  <2>. HIDE DEF w
  <2>5. PairWrites(n, "adminPut", Admin, w, view \ {n}, 1)
    BY <1>1, <2>2, <2>3, <2>4 DEF PairWrites
  <2>6. QED
    BY <2>5
<1>6. QED
  BY <1>3, <1>4, <1>5

\* What a write changes.
LEMMA PairWriteFacts ==
    ASSUME TypeOK, PairTimes, NEW n \in Node, NEW op, NEW by, NEW ver,
           NEW targets, NEW left, PairWrites(n, op, by, ver, targets, left)
    PROVE  /\ Writes' = Writes \cup {NextId} /\ NextId \notin Writes
           /\ \A i \in Writes : log'[i] = log[i]
           /\ DOMAIN log' = DOMAIN log \cup {NextId}
           /\ \A i \in DOMAIN log : log'[i] = log[i]
           /\ log'[NextId].node = n /\ log'[NextId].past = seen[n]
           /\ Kept' \subseteq Kept \cup {ver}
           /\ \A v \in Kept : v.id < ver.id /\ v # ver
           /\ store'[n] = ver /\ At(n)' = NextId
           /\ Own(n)' = ver.vector_clock[n]
           /\ \A m \in Node \ {n} : /\ store'[m] = store[m]
                                    /\ At(m)' = At(m) /\ Own(m)' = Own(m)
<1>1. /\ store' = [store EXCEPT ![n] = ver]
      /\ tasks' = tasks \cup Spawn(ver, targets, left)
      /\ reads' = reads
      /\ Accept(op, n, by)
  BY DEF PairWrites, Write
<1>2. op \in Ops /\ by \in Owner
  BY DEF PairWrites, Ops
<1>3. /\ DOMAIN log' = DOMAIN log \cup {NextId}
      /\ NextId \in Nat /\ NextId \notin DOMAIN log
      /\ \A i \in DOMAIN log : log'[i] = log[i]
      /\ log'[NextId].node = n /\ log'[NextId].op = op
      /\ log'[NextId].past = seen[n]
  BY <1>1, <1>2, AcceptExtends
<1>4. Writes' = Writes \cup {NextId}
  BY <1>3 DEF Writes, PairWrites
<1>5. ver \in Version /\ ver.id = NextId /\ ver # None
  BY NoneAssumption DEF PairWrites
<1>6. \A v \in Kept : v.id < NextId
  BY WriteOf DEF PairTimes
<1>7. Kept' \subseteq Kept \cup {ver}
  <2>1. \A m \in Node : store'[m] \in (Kept \cup {ver}) \cup {None}
    BY <1>1, KeptHas DEF TypeOK
  <2>2. \A t \in tasks' : t.ver \in (Kept \cup {ver}) \cup {None}
    BY <1>1, KeptHas DEF Spawn
  <2>3. \A m \in Node : reads'[m] # None =>
            /\ reads'[m].floor \in (Kept \cup {ver}) \cup {None}
            /\ \A k \in Holders(reads'[m]) :
                   reads'[m].resp[k] \in Kept \cup {ver}
    BY <1>1, KeptHas
  <2>4. QED
    BY <2>1, <2>2, <2>3, KeptNext
<1>8. store'[n] = ver /\ \A m \in Node \ {n} : store'[m] = store[m]
  BY <1>1 DEF TypeOK
<1>9. \A v \in Kept : v # ver
  BY <1>3, <1>5, <1>6
<1>10. NextId \notin Writes /\ \A i \in Writes : log'[i] = log[i]
  BY <1>3 DEF Writes
<1>11. At(n)' = NextId /\ Own(n)' = ver.vector_clock[n]
  BY <1>5, <1>8 DEF At, Own
<1>12. \A m \in Node \ {n} : At(m)' = At(m) /\ Own(m)' = Own(m)
  BY <1>8 DEF At, Own
<1>13. QED
  BY <1>3, <1>4, <1>5, <1>6, <1>7, <1>8, <1>9, <1>10, <1>11, <1>12

LEMMA PairWriteTimes ==
    ASSUME TypeOK, PairTimes, NEW n \in Node, NEW op, NEW by, NEW ver,
           NEW targets, NEW left, PairWrites(n, op, by, ver, targets, left)
    PROVE  PairTimes'
<1>1. /\ Writes' = Writes \cup {NextId} /\ NextId \notin Writes
      /\ \A i \in Writes : log'[i] = log[i]
      /\ log'[NextId].node = n
      /\ Kept' \subseteq Kept \cup {ver}
      /\ \A v \in Kept : v.id < ver.id /\ v # ver
      /\ At(n)' = NextId
      /\ \A m \in Node \ {n} : At(m)' = At(m)
  BY PairWriteFacts
<1>2. /\ now' \in Nat /\ now < now' /\ now \in Nat /\ ver \in Version
      /\ ver.id = NextId /\ NextId \in Nat /\ ver.timestamp \in Nat
      /\ \A k \in Skew : ver.timestamp = now' + k /\ k \in Nat
  BY ConstantsAssumption DEF PairWrites, TypeOK, Version, NextId
<1>3. \A v \in Kept : v.id \in Nat /\ v.timestamp \in Nat
  BY KeptVersion
<1>4. \A v \in Kept' : v.id \in Writes'
  BY <1>1, <1>2 DEF PairTimes
<1>5. \A v, w \in Kept' : v.id = w.id => v = w
  BY <1>1, <1>2, <1>3 DEF PairTimes
<1>6. \A v \in Kept' : \A k \in Skew : v.timestamp <= now' + k
  BY <1>1, <1>2, <1>3 DEF PairTimes
<1>7. \A v \in Kept : v.timestamp < ver.timestamp
  <2>1. \A v \in Kept : \A k \in Skew : v.timestamp < now' + k
    BY <1>2, <1>3 DEF PairTimes
  <2>2. \E k \in Skew : TRUE
    BY DEF PairWrites
  <2>3. QED
    BY <1>2, <2>1, <2>2
<1>8. \A v, w \in Kept' : v.id < w.id => v.timestamp < w.timestamp
  BY <1>1, <1>2, <1>3, <1>7 DEF PairTimes
<1>9. \A i \in Writes' : i <= At(log[i].node)'
  <2>1. ASSUME NEW i \in Writes
        PROVE  i <= At(log[i].node)'
    <3>. DEFINE k == log[i].node
    <3>1. i \in Nat /\ k \in Node /\ i < NextId /\ i <= At(k)
      BY WriteOf DEF PairTimes
    <3>2. log'[i].node = k
      BY <1>1
    <3>3. CASE k = n
      BY <1>1, <1>2, <3>1, <3>2, <3>3 DEF At
    <3>4. CASE k # n
      BY <1>1, <3>1, <3>2, <3>4 DEF At
    <3>5. QED
      BY <3>3, <3>4
  <2>2. ASSUME NEW i \in Writes', i = NextId
        PROVE  i <= At(log[i].node)'
    BY <1>1, <1>2, <2>2 DEF At
  <2>3. QED
    BY <1>1, <2>1, <2>2
<1>10. QED
  BY <1>4, <1>5, <1>6, <1>8, <1>9 DEF PairTimes

\* A version that is kept stays with its maker.
LEMMA PairMaker ==
    ASSUME Deployed, TypeOK, PairTimes, NEW v \in Kept,
           \A i \in Writes : log'[i] = log[i]
    PROVE  /\ v.id \in Writes /\ Maker(v) \in Node /\ Maker(v)' = Maker(v)
           /\ Other(Maker(v)) \in Node /\ Other(Maker(v)) # Maker(v)
           /\ v.id <= At(Maker(v))
<1>1. v.id \in Writes /\ v.id <= At(Maker(v))
  BY DEF PairTimes, Maker
<1>2. Maker(v) \in Node /\ Maker(v)' = Maker(v)
  BY <1>1, WriteOf DEF Maker
<1>3. QED
  BY <1>1, <1>2, PairOther

\* A new version comes after all the others.
LEMMA PairWriteBefore ==
    ASSUME Deployed, TypeOK, PairTimes, PairEntries,
           NEW n \in Node, NEW op, NEW by, NEW ver, NEW targets, NEW left,
           PairWrites(n, op, by, ver, targets, left), NEW v \in Kept
    PROVE  PairBefore(v, ver)'
<1>. DEFINE m == Other(n)
            s == store[n]
            cv == v.vector_clock
            c == ver.vector_clock
<1>1. m \in Node /\ m # n /\ Other(m) = n /\ Node = {n, m}
  BY PairOther
<1>2. /\ Writes' = Writes \cup {NextId} /\ \A i \in Writes : log'[i] = log[i]
      /\ log'[NextId].node = n /\ v.id < ver.id
  BY PairWriteFacts
<1>3. /\ ver.id = NextId /\ c[n] = Own(n) + 1 /\ c \in [Node -> Nat]
      /\ c[m] = IF s = None THEN 0 ELSE s.vector_clock[m]
  BY <1>1 DEF PairWrites, Version, Clock
<1>4. /\ v.id \in Writes /\ Maker(v) \in Node /\ Maker(v)' = Maker(v)
      /\ v.id <= At(Maker(v))
  BY <1>2, PairMaker
<1>5. /\ cv \in [Node -> Nat] /\ v.id \in Nat /\ v.id > 0
      /\ Own(n) \in Nat /\ At(n) \in Nat
  BY <1>4, KeptVersion, WriteOf, AtNat
<1>6. Maker(ver)' = n
  BY <1>2, <1>3 DEF Maker
<1>7. CASE Maker(v) = m
  <2>1. cv[n] <= Own(n)
    BY <1>1, <1>7 DEF PairEntries
  <2>2. cv[n] < c[n]
    BY <1>3, <1>5, <2>1
  <2>3. QED
    BY <1>1, <1>4, <1>6, <1>7, <2>2 DEF PairBefore
<1>8. CASE Maker(v) = n
  <2>1. s # None /\ s \in Kept /\ s.id = At(n) /\ Own(n) = s.vector_clock[n]
    BY <1>4, <1>5, <1>8, KeptHas DEF At, Own
  <2>2. /\ s.vector_clock \in [Node -> Nat] /\ s.id \in Writes
        /\ s.id \in Nat /\ Maker(s) \in Node /\ s.id < ver.id
    BY <1>2, <2>1, PairMaker, KeptVersion, PairWriteFacts
  <2>3. c[n] = s.vector_clock[n] + 1 /\ c[m] = s.vector_clock[m]
    BY <1>3, <2>1
  <2>4. SUFFICES
          /\ cv[m] < c[m] \/ (cv[m] = c[m] /\ cv[n] < c[n])
          /\ cv[m] < c[m] => \E i \in Writes' : /\ log'[i].node = m
                                               /\ v.id < i /\ i < ver.id
    BY <1>1, <1>4, <1>6, <1>8 DEF PairBefore
  <2>5. CASE v = s
    BY <1>1, <1>5, <2>3, <2>5
  <2>6. CASE v.id < s.id /\ Maker(s) = n
    <3>1. PairBefore(v, s)
      BY <2>1, <2>6 DEF PairEntries
    <3>2. /\ \/ cv[m] < s.vector_clock[m]
             \/ /\ cv[m] = s.vector_clock[m]
                /\ cv[n] < s.vector_clock[n]
          /\ cv[m] < s.vector_clock[m] =>
                \E i \in Writes : log[i].node = m /\ v.id < i /\ i < s.id
      BY <1>8, <2>6, <3>1 DEF PairBefore
    <3>3. cv[m] < c[m] \/ (cv[m] = c[m] /\ cv[n] < c[n])
      BY <1>1, <1>5, <2>2, <2>3, <3>2
    <3>4. ASSUME cv[m] < c[m]
          PROVE  \E i \in Writes' : /\ log'[i].node = m
                                    /\ v.id < i /\ i < ver.id
      <4>1. PICK i \in Writes : log[i].node = m /\ v.id < i /\ i < s.id
        BY <2>3, <3>2, <3>4
      <4>2. i \in Nat /\ i < ver.id
        BY <1>3, <4>1, WriteOf
      <4>3. QED
        BY <1>2, <4>1, <4>2
    <3>5. QED
      BY <3>3, <3>4
  <2>7. CASE v.id < s.id /\ Maker(s) = m
    <3>1. PairBefore(v, s)
      BY <2>1, <2>7 DEF PairEntries
    <3>2. cv[m] < c[m]
      BY <1>1, <1>8, <2>3, <2>7, <3>1 DEF PairBefore
    <3>3. log'[s.id].node = m /\ s.id \in Writes'
      BY <1>2, <2>2, <2>7 DEF Maker
    <3>4. QED
      BY <2>2, <2>7, <3>2, <3>3
  <2>8. v = s \/ v.id < s.id
    BY <1>4, <1>5, <1>8, <2>1, <2>2 DEF PairTimes
  <2>9. QED
    BY <1>1, <2>2, <2>5, <2>6, <2>7, <2>8
<1>9. QED
  BY <1>1, <1>4, <1>7, <1>8

LEMMA PairWriteEntries ==
    ASSUME Deployed, TypeOK, PairTimes, PairEntries,
           NEW n \in Node, NEW op, NEW by, NEW ver, NEW targets, NEW left,
           PairWrites(n, op, by, ver, targets, left)
    PROVE  PairEntries'
<1>. DEFINE m == Other(n)
            c == ver.vector_clock
<1>1. m \in Node /\ m # n /\ Other(m) = n /\ Node = {n, m}
  BY PairOther
<1>2. /\ Writes' = Writes \cup {NextId} /\ \A i \in Writes : log'[i] = log[i]
      /\ log'[NextId].node = n
      /\ Kept' \subseteq Kept \cup {ver}
      /\ \A v \in Kept : v.id < ver.id
      /\ store'[n] = ver /\ Own(n)' = c[n]
      /\ store'[m] = store[m] /\ Own(m)' = Own(m)
  BY <1>1, PairWriteFacts
<1>3. /\ ver.id = NextId /\ NextId \in Nat /\ c[n] = Own(n) + 1
      /\ c \in [Node -> Nat]
      /\ c[m] = IF store[n] = None THEN 0 ELSE store[n].vector_clock[m]
  BY <1>1 DEF PairWrites, Version, Clock, TypeOK, NextId
<1>4. Own(n) \in Nat /\ Own(m) \in Nat
  BY <1>1, AtNat
<1>5. Maker(ver)' = n
  BY <1>2, <1>3 DEF Maker
<1>6. c[n] > 0 /\ c[m] <= Own(m)
  <2>1. c[n] > 0
    BY <1>3, <1>4
  <2>2. CASE store[n] = None
    BY <1>3, <1>4, <2>1, <2>2
  <2>3. CASE store[n] # None
    BY <1>3, <2>1, <2>3 DEF PairEntries
  <2>4. QED
    BY <2>2, <2>3
<1>7. \A v, w \in Kept' : v.id < w.id => PairBefore(v, w)'
  <2>1. SUFFICES ASSUME NEW v \in Kept', NEW w \in Kept', v.id < w.id
                 PROVE  PairBefore(v, w)'
    OBVIOUS
  <2>2. v \in Kept
    <3>1. SUFFICES ASSUME v = ver PROVE FALSE
      BY <1>2
    <3>2. \A k \in Kept : k.id \in Nat
      BY KeptVersion
    <3>3. QED
      BY <1>2, <1>3, <2>1, <3>1, <3>2
  <2>3. CASE w = ver
    BY <2>2, <2>3, PairWriteBefore
  <2>4. CASE w \in Kept
    <3>1. PairBefore(v, w) /\ v.id \in Writes /\ w.id \in Writes
      BY <2>1, <2>2, <2>4 DEF PairEntries, PairTimes
    <3>2. QED
      BY <1>2, <3>1, BeforeStays
  <2>5. QED
    BY <1>2, <2>3, <2>4
<1>8. ASSUME NEW v \in Kept'
      PROVE  /\ v.vector_clock[Maker(v)'] > 0
             /\ v.vector_clock[Other(Maker(v)')] <= Own(Other(Maker(v)))'
  <2>1. CASE v = ver
    BY <1>2, <1>3, <1>5, <1>6, <2>1 DEF Own
  <2>2. CASE v \in Kept
    <3>1. Maker(v) \in Node /\ Maker(v)' = Maker(v)
      BY <1>2, <2>2, PairMaker
    <3>2. /\ v.vector_clock[Maker(v)] > 0
          /\ v.vector_clock[Other(Maker(v))] <= Own(Other(Maker(v)))
      BY <2>2 DEF PairEntries
    <3>3. v.vector_clock \in [Node -> Nat]
      BY <2>2, KeptVersion
    <3>4. CASE Maker(v) = n
      BY <1>1, <1>2, <3>1, <3>2, <3>4 DEF Own
    <3>5. CASE Maker(v) = m
      <4>1. v.vector_clock[n] <= Own(n)'
        BY <1>1, <1>2, <1>3, <1>4, <3>2, <3>3, <3>5
      <4>2. QED
        BY <1>1, <3>1, <3>2, <3>5, <4>1 DEF Own
    <3>6. QED
      BY <1>1, <3>1, <3>4, <3>5
  <2>3. QED
    BY <1>2, <2>1, <2>2
<1>9. ASSUME NEW k \in Node, store'[k] # None
      PROVE  store'[k].vector_clock[Other(k)] <= Own(Other(k))'
  <2>1. CASE k = n
    BY <1>2, <1>6, <2>1
  <2>2. CASE k = m
    <3>1. store[m] # None /\ store[m] \in Version
      BY <1>1, <1>2, <1>9, <2>2 DEF TypeOK
    <3>2. store[m].vector_clock[n] <= Own(n)
      BY <1>1, <3>1 DEF PairEntries
    <3>3. store[m].vector_clock[n] \in Nat
      BY <3>1 DEF Version, Clock
    <3>4. QED
      BY <1>1, <1>2, <1>3, <1>4, <2>2, <3>2, <3>3
  <2>3. QED
    BY <1>1, <2>1, <2>2
<1>10. QED
  BY <1>7, <1>8, <1>9 DEF PairEntries

\* A new version that reaches another one in the other's entry has seen it.
LEMMA PairWriteReaches ==
    ASSUME Deployed, TypeOK, PairTimes, PairEntries, PairSeen,
           NEW n \in Node, NEW op, NEW by, NEW ver, NEW targets, NEW left,
           PairWrites(n, op, by, ver, targets, left), NEW v \in Kept,
           v.vector_clock[Maker(v)] <= ver.vector_clock[Maker(v)]
    PROVE  v.id \in seen[n]
<1>. DEFINE m == Other(n)
            s == store[n]
            cv == v.vector_clock
            c == ver.vector_clock
<1>1. m \in Node /\ m # n /\ Other(m) = n /\ Node = {n, m}
  BY PairOther
<1>2. \A i \in Writes : log'[i] = log[i]
  BY PairWriteFacts
<1>3. /\ v.id \in Writes /\ Maker(v) \in Node /\ cv \in [Node -> Nat]
      /\ cv[Maker(v)] > 0 /\ v.id \in Nat
  BY <1>2, PairMaker, KeptVersion DEF PairEntries
<1>4. CASE Maker(v) = n
  BY <1>3, <1>4 DEF PairSeen, Maker
<1>5. CASE Maker(v) = m
  <2>1. c[m] = IF s = None THEN 0 ELSE s.vector_clock[m]
    BY <1>1 DEF PairWrites
  <2>2. s # None /\ cv[m] <= s.vector_clock[m]
    BY <1>3, <1>5, <2>1
  <2>3. s \in Kept /\ s.id = At(n)
    BY <2>2, KeptHas DEF At
  <2>4. /\ s.id \in Writes /\ Maker(s) \in Node /\ s.id \in Nat
        /\ s.vector_clock \in [Node -> Nat]
    BY <1>2, <2>3, PairMaker, KeptVersion
  <2>5. {s.id} \cup log[s.id].past \subseteq seen[n]
    BY <2>2 DEF PairSeen
  <2>6. CASE v.id = s.id
    BY <2>5, <2>6
  <2>7. CASE v.id < s.id
    BY <1>5, <2>2, <2>3, <2>5, <2>7 DEF PairSeen
  <2>8. CASE s.id < v.id
    <3>1. PairBefore(s, v)
      BY <2>3, <2>8 DEF PairEntries
    <3>2. CASE Maker(s) = n
      BY <1>1, <1>3, <1>5, <2>2, <2>4, <3>1, <3>2 DEF PairBefore
    <3>3. CASE Maker(s) = m
      <4>1. \E i \in Writes : log[i].node = n /\ s.id < i /\ i < v.id
        BY <1>1, <1>3, <1>5, <2>2, <2>4, <3>1, <3>3 DEF PairBefore
      <4>2. \A i \in Writes : log[i].node = n => i <= At(n) /\ i \in Nat
        BY WriteOf DEF PairTimes
      <4>3. QED
        BY <2>3, <2>4, <4>1, <4>2
    <3>4. QED
      BY <1>1, <2>4, <3>2, <3>3
  <2>9. QED
    BY <1>3, <2>4, <2>6, <2>7, <2>8
<1>6. QED
  BY <1>1, <1>3, <1>4, <1>5

LEMMA PairWriteSeen ==
    ASSUME Deployed, TypeOK, PairTimes, PairEntries, PairSeen,
           NEW n \in Node, NEW op, NEW by, NEW ver, NEW targets, NEW left,
           PairWrites(n, op, by, ver, targets, left)
    PROVE  PairSeen'
<1>1. /\ Writes' = Writes \cup {NextId} /\ NextId \notin Writes
      /\ \A i \in Writes : log'[i] = log[i]
      /\ log'[NextId].node = n /\ log'[NextId].past = seen[n]
      /\ Kept' \subseteq Kept \cup {ver}
      /\ \A v \in Kept : v.id < ver.id
      /\ store'[n] = ver /\ At(n)' = NextId
      /\ \A m \in Node \ {n} : store'[m] = store[m] /\ At(m)' = At(m)
  BY PairWriteFacts
<1>2. ver.id = NextId /\ NextId \in Nat
  BY DEF PairWrites, TypeOK, NextId
<1>3. /\ seen'[n] = seen[n] \cup {NextId}
      /\ \A m \in Node \ {n} : seen'[m] = seen[m]
  BY DEF PairWrites, Write, TypeOK
<1>4. \A i \in seen[n] : i < NextId /\ i \in Nat
  <2>1. At(n) < NextId /\ At(n) \in Nat
    <3>1. CASE store[n] = None
      BY <3>1 DEF At, NextId, TypeOK
    <3>2. CASE store[n] # None
      BY <1>1, <1>2, <3>2, KeptHas, AtNat DEF At
    <3>3. QED
      BY <3>1, <3>2
  <2>2. \A i \in seen[n] : i <= At(n) /\ i \in Nat
    BY DEF PairSeen, TypeOK
  <2>3. QED
    BY <1>2, <2>1, <2>2
<1>5. \A m \in Node : \A i \in seen'[m] : i <= At(m)'
  BY <1>1, <1>2, <1>3, <1>4 DEF PairSeen
<1>6. ASSUME NEW m \in Node, store'[m] # None
      PROVE  {store'[m].id} \cup log'[store'[m].id].past \subseteq seen'[m]
  <2>1. CASE m = n
    BY <1>1, <1>2, <1>3, <2>1
  <2>2. CASE m # n
    <3>1. store[m] # None /\ store'[m] = store[m]
      BY <1>1, <1>6, <2>2
    <3>2. store[m].id \in Writes
      BY <3>1, KeptHas DEF PairTimes
    <3>3. QED
      BY <1>1, <1>3, <2>2, <3>1, <3>2 DEF PairSeen
  <2>3. QED
    BY <2>1, <2>2
<1>7. \A i \in Writes : i \in Nat /\ log[i].node \in Node /\ i < NextId
  BY WriteOf
<1>8. \A i \in Writes' : i \in seen'[log'[i].node]
  BY <1>1, <1>3, <1>7 DEF PairSeen
<1>9. \A i \in Writes' : \A j \in log'[i].past : j < i
  BY <1>1, <1>4 DEF PairSeen
<1>10. \A i, j \in Writes' :
          (j < i /\ log'[j].node = log'[i].node) => j \in log'[i].past
  BY <1>1, <1>2, <1>7 DEF PairSeen
<1>11. ASSUME NEW v \in Kept', NEW w \in Kept', v.id < w.id,
              v.vector_clock[Maker(v)'] <= w.vector_clock[Maker(v)']
       PROVE  v.id \in log'[w.id].past
  <2>1. \A k \in Kept : k.id \in Nat
    BY KeptVersion
  <2>2. v \in Kept
    BY <1>1, <1>2, <1>11, <2>1
  <2>3. Maker(v)' = Maker(v)
    BY <1>1, <2>2, PairMaker
  <2>4. CASE w = ver
    BY <1>1, <1>2, <1>11, <2>2, <2>3, <2>4, PairWriteReaches
  <2>5. CASE w \in Kept
    BY <1>1, <1>11, <2>2, <2>3, <2>5 DEF PairSeen, PairTimes
  <2>6. QED
    BY <1>1, <2>4, <2>5
<1>12. QED
  BY <1>5, <1>6, <1>8, <1>9, <1>10, <1>11 DEF PairSeen

LEMMA PairWriteRest ==
    ASSUME Deployed, TypeOK, PairTimes, PairReads, PairCovered,
           NEW n \in Node, NEW op, NEW by, NEW ver, NEW targets, NEW left,
           PairWrites(n, op, by, ver, targets, left)
    PROVE  PairReads' /\ PairCovered'
<1>1. /\ Writes' = Writes \cup {NextId} /\ NextId \notin Writes
      /\ DOMAIN log' = DOMAIN log \cup {NextId}
      /\ \A i \in DOMAIN log : log'[i] = log[i]
      /\ \A v \in Kept : v.id < ver.id
      /\ store'[n] = ver /\ At(n)' = NextId
      /\ \A m \in Node \ {n} : store'[m] = store[m] /\ At(m)' = At(m)
  <2>1. /\ Writes' = Writes \cup {NextId} /\ NextId \notin Writes
        /\ DOMAIN log' = DOMAIN log \cup {NextId}
        /\ \A i \in DOMAIN log : log'[i] = log[i]
    BY PairWriteFacts
  <2>2. /\ \A v \in Kept : v.id < ver.id
        /\ store'[n] = ver /\ At(n)' = NextId
        /\ \A m \in Node \ {n} : store'[m] = store[m] /\ At(m)' = At(m)
    BY PairWriteFacts
  <2>3. QED
    BY <2>1, <2>2
<1>2. /\ ver.id = NextId /\ NextId \in Nat /\ ver # None
      /\ Node \ {n} \subseteq targets
      /\ tasks' = tasks \cup Spawn(ver, targets, left)
      /\ reads' = reads /\ lost' = lost
  BY NoneAssumption DEF PairWrites, Write, TypeOK, NextId
<1>3. \A m \in Node : At(m) <= At(m)' /\ At(m) \in Nat /\ At(m)' \in Nat
  <2>1. \A m \in Node : At(m) \in Nat
    BY AtNat
  <2>2. At(n) <= NextId
    <3>1. CASE store[n] = None
      BY <1>2, <3>1 DEF At
    <3>2. CASE store[n] # None
      BY <1>1, <1>2, <2>1, <3>2, KeptHas DEF At
    <3>3. QED
      BY <3>1, <3>2
  <2>3. QED
    BY <1>1, <1>2, <2>1, <2>2
<1>4. PairReads'
  <2>1. SUFFICES ASSUME NEW k \in Node, reads[k] # None
        PROVE  /\ reads[k].req \in DOMAIN log' /\ log'[reads[k].req].op = "get"
               /\ reads[k].resp[k] # Silent
               /\ reads[k].floor # None =>
                    /\ reads[k].floor.id <= At(k)'
                    /\ reads[k].resp[k] # Pending =>
                          /\ reads[k].resp[k] # None
                          /\ reads[k].floor.id <= reads[k].resp[k].id
    BY <1>2 DEF PairReads
  <2>2. reads[k].floor # None => reads[k].floor.id \in Nat
    BY <2>1, KeptHas, KeptVersion
  <2>3. QED
    BY <1>1, <1>3, <2>1, <2>2 DEF PairReads
<1>5. \A t \in tasks' : /\ t.ver # None /\ t.req \in DOMAIN log'
                        /\ log'[t.req].op # "get" => t.ver.id = t.req
  BY <1>1, <1>2 DEF PairCovered, Spawn
<1>6. ASSUME ~lost', NEW i \in Writes', NEW k \in Node
      PROVE  i <= At(k)' \/ \E t \in tasks' : t.req = i /\ t.to = k
  <2>1. CASE i = NextId
    <3>1. CASE k = n
      BY <1>1, <1>2, <2>1, <3>1
    <3>2. CASE k # n
      <4>. DEFINE t == [ver |-> ver, req |-> NextId, to |-> k, left |-> left]
      <4>1. k \in targets
        BY <1>2, <3>2
      <4>2. t \in tasks'
        BY <1>2, <4>1 DEF Spawn
      <4>3. QED
        BY <2>1, <4>2
    <3>3. QED
      BY <3>1, <3>2
  <2>2. CASE i \in Writes
    <3>1. i <= At(k) \/ \E t \in tasks : t.req = i /\ t.to = k
      BY <1>2, <1>6, <2>2 DEF PairCovered
    <3>2. i \in Nat
      BY <2>2, WriteOf
    <3>3. QED
      BY <1>2, <1>3, <3>1, <3>2
  <2>3. QED
    BY <1>1, <2>1, <2>2
<1>7. QED
  BY <1>4, <1>5, <1>6 DEF PairCovered

-----------------------------------------------------------------------------
(* Two nodes: the receiver of a version.                                   *)

\* A version that is newer than what node n holds comes from the other node,
\* which has it or a later one, and agrees with the later ones in n's entry:
\* n has not written since.
LEMMA PairNewer ==
    ASSUME Deployed, TypeOK, PairTimes, PairEntries,
           NEW n \in Node, NEW z \in Kept, At(n) < z.id
    PROVE  LET m == Other(n)
           IN  /\ Maker(z) = m /\ z.vector_clock[m] <= Own(m)
               /\ store[m] # None
               /\ store[m].vector_clock[n] <= z.vector_clock[n]
               /\ \A v \in Kept : Maker(v) = m =>
                     v.vector_clock[n] <= z.vector_clock[n]
<1>. DEFINE m == Other(n)
            x == store[m]
            cz == z.vector_clock
<1>1. m \in Node /\ m # n /\ Other(m) = n /\ Node = {n, m}
  BY PairOther
<1>2. /\ \A v \in Kept : /\ v.id \in Writes /\ v.id \in Nat /\ v.id > 0
                         /\ v.vector_clock \in [Node -> Nat]
                         /\ Maker(v) \in Node /\ v.id <= At(Maker(v))
      /\ \A k \in Node : At(k) \in Nat /\ Own(k) \in Nat
  <2>1. \A v \in Kept : v.id \in Writes /\ v.id <= At(Maker(v))
    BY DEF PairTimes, Maker
  <2>2. \A v \in Kept : Maker(v) \in Node /\ v.id > 0
    BY <2>1, WriteOf DEF Maker
  <2>3. QED
    BY <2>1, <2>2, KeptVersion, AtNat
<1>3. Maker(z) = m
  BY <1>1, <1>2
<1>4. \A i \in Writes : ~(log[i].node = n /\ z.id < i)
  <2>1. \A i \in Writes : i \in Nat /\ (log[i].node = n => i <= At(n))
    BY WriteOf DEF PairTimes
  <2>2. QED
    BY <1>2, <2>1
<1>5. ASSUME NEW v \in Kept, Maker(v) = m
      PROVE  /\ v.vector_clock[n] <= cz[n]
             /\ z.id <= v.id => cz[m] <= v.vector_clock[m]
  <2>1. CASE v.id = z.id
    <3>1. v = z
      BY <2>1 DEF PairTimes
    <3>2. QED
      BY <1>1, <1>2, <3>1
  <2>2. CASE v.id < z.id
    <3>1. PairBefore(v, z)
      BY <2>2 DEF PairEntries
    <3>2. QED
      BY <1>1, <1>2, <1>3, <1>5, <2>2, <3>1 DEF PairBefore
  <2>3. CASE z.id < v.id
    <3>1. PairBefore(z, v)
      BY <2>3 DEF PairEntries
    <3>2. ~(cz[n] < v.vector_clock[n])
      BY <1>1, <1>3, <1>4, <1>5, <3>1 DEF PairBefore
    <3>3. cz[n] = v.vector_clock[n] /\ cz[m] < v.vector_clock[m]
      BY <1>1, <1>3, <1>5, <3>1, <3>2 DEF PairBefore
    <3>4. QED
      BY <1>1, <1>2, <3>3
  <2>4. QED
    BY <1>2, <2>1, <2>2, <2>3
<1>6. x # None /\ x \in Kept /\ z.id <= x.id /\ Own(m) = x.vector_clock[m]
  <2>1. z.id <= At(m)
    BY <1>2, <1>3
  <2>2. x # None
    BY <1>2, <2>1 DEF At
  <2>3. QED
    BY <1>1, <2>1, <2>2, KeptHas DEF At, Own
<1>7. Maker(x) = m
  BY <1>1, <1>2, <1>6
<1>8. QED
  BY <1>3, <1>5, <1>6, <1>7

\* What taking a request changes.
LEMMA PairHandleFacts ==
    ASSUME Deployed, TypeOK, PairInv, NEW t \in tasks, Handle(t),
           log' = log, reads' = reads,
           \A u \in tasks' : \E r \in tasks :
               u.ver = r.ver /\ u.req = r.req /\ u.to = r.to
    PROVE  LET n == t.to
               z == t.ver
           IN  /\ n \in Node /\ z \in Kept /\ z # None
               /\ Kept' \subseteq Kept /\ Writes' = Writes
               /\ \A v \in Kept : Maker(v)' = Maker(v)
               /\ \/ /\ At(n) < z.id /\ store'[n] = z
                     /\ At(n)' = z.id /\ Own(n)' = z.vector_clock[n]
                  \/ /\ z.id <= At(n) /\ store'[n] = store[n]
                     /\ At(n)' = At(n) /\ Own(n)' = Own(n)
               /\ \A m \in Node \ {n} : /\ store'[m] = store[m]
                                        /\ At(m)' = At(m) /\ Own(m)' = Own(m)
               /\ seen'[n] = seen[n] \cup {z.id} \cup log[z.id].past
               /\ \A m \in Node \ {n} : seen'[m] = seen[m]
<1>. DEFINE n == t.to
            z == t.ver
<1>1. n \in Node /\ z # None /\ z \in Kept
  BY KeptHas DEF TypeOK, Task, PairInv, PairCovered
<1>2. /\ store' = [store EXCEPT ![n] = Merge(store[n], z)]
      /\ seen' = [seen EXCEPT ![n] = @ \cup ({z.id} \cup log[z.id].past)]
  BY <1>1 DEF Handle, Received, Learn
<1>3. Merge(store[n], z) = IF At(n) < z.id THEN z ELSE store[n]
  BY <1>1, PairMerge DEF PairInv
<1>4. store'[n] = IF At(n) < z.id THEN z ELSE store[n]
  BY <1>1, <1>2, <1>3 DEF TypeOK
<1>5. \A m \in Node \ {n} : store'[m] = store[m]
  BY <1>2 DEF TypeOK
<1>6. /\ seen'[n] = seen[n] \cup {z.id} \cup log[z.id].past
      /\ \A m \in Node \ {n} : seen'[m] = seen[m]
  BY <1>1, <1>2 DEF TypeOK
<1>7. Writes' = Writes /\ \A v \in Kept : Maker(v)' = Maker(v)
  BY DEF Writes, Maker
<1>8. \A m \in Node \ {n} : At(m)' = At(m) /\ Own(m)' = Own(m)
  BY <1>5 DEF At, Own
<1>9. Kept' \subseteq Kept
  <2>1. \A m \in Node : store'[m] \in Kept \cup {None}
    BY <1>1, <1>4, <1>5, KeptHas
  <2>2. \A u \in tasks' : u.ver \in Kept \cup {None}
    BY KeptHas
  <2>3. \A m \in Node : reads'[m] # None =>
            /\ reads'[m].floor \in Kept \cup {None}
            /\ \A k \in Holders(reads'[m]) : reads'[m].resp[k] \in Kept
    BY KeptHas
  <2>4. QED
    BY <2>1, <2>2, <2>3, KeptNext
<1>10. \/ /\ At(n) < z.id /\ store'[n] = z
          /\ At(n)' = z.id /\ Own(n)' = z.vector_clock[n]
       \/ /\ z.id <= At(n) /\ store'[n] = store[n]
          /\ At(n)' = At(n) /\ Own(n)' = Own(n)
  <2>1. z.id \in Nat /\ At(n) \in Nat
    BY <1>1, KeptVersion, AtNat
  <2>2. CASE At(n) < z.id
    BY <1>1, <1>4, <2>2 DEF At, Own
  <2>3. CASE z.id <= At(n)
    BY <1>4, <2>1, <2>3 DEF At, Own
  <2>4. QED
    BY <2>1, <2>2, <2>3
<1>11. QED
  BY <1>1, <1>5, <1>6, <1>7, <1>8, <1>9, <1>10

LEMMA PairHandle ==
    ASSUME Deployed, TypeOK, PairInv, NEW t \in tasks, Handle(t),
           log' = log, reads' = reads, now' = now, lost' = lost,
           \A u \in tasks' : \E r \in tasks :
               u.ver = r.ver /\ u.req = r.req /\ u.to = r.to,
           tasks \ {t} \subseteq tasks'
    PROVE  PairInv'
<1>. DEFINE n == t.to
            m == Other(n)
            z == t.ver
<1>1. /\ n \in Node /\ z \in Kept
      /\ Kept' \subseteq Kept /\ Writes' = Writes
      /\ \A v \in Kept : Maker(v)' = Maker(v)
      /\ \/ /\ At(n) < z.id /\ store'[n] = z
            /\ At(n)' = z.id /\ Own(n)' = z.vector_clock[n]
         \/ /\ z.id <= At(n) /\ store'[n] = store[n]
            /\ At(n)' = At(n) /\ Own(n)' = Own(n)
  BY PairHandleFacts
<1>2. /\ \A k \in Node \ {n} : /\ store'[k] = store[k]
                               /\ At(k)' = At(k) /\ Own(k)' = Own(k)
      /\ seen'[n] = seen[n] \cup {z.id} \cup log[z.id].past
      /\ \A k \in Node \ {n} : seen'[k] = seen[k]
  BY PairHandleFacts
<1>3. m \in Node /\ m # n /\ Other(m) = n /\ Node = {n, m}
  BY <1>1, PairOther
<1>4. /\ \A v \in Kept : /\ v.id \in Writes /\ v.id \in Nat
                         /\ v.vector_clock \in [Node -> Nat]
                         /\ Maker(v) \in Node /\ v.id <= At(Maker(v))
      /\ \A k \in Node : At(k) \in Nat /\ Own(k) \in Nat
  <2>1. \A v \in Kept : v.id \in Writes /\ v.id <= At(Maker(v))
    BY DEF PairInv, PairTimes, Maker
  <2>2. \A v \in Kept : Maker(v) \in Node
    BY <2>1, WriteOf DEF Maker
  <2>3. QED
    BY <2>1, <2>2, KeptVersion, AtNat
<1>5. \A k \in Node : At(k) <= At(k)' /\ At(k)' \in Nat
  BY <1>1, <1>2, <1>4
<1>6. /\ z.id <= At(n)'
      /\ \A i \in Writes : i \in Nat /\ log[i].node \in Node
  BY <1>1, <1>4, WriteOf
<1>7. PairTimes'
  <2>1. \A i \in Writes' : i <= At(log[i].node)'
    <3>1. SUFFICES ASSUME NEW i \in Writes PROVE i <= At(log[i].node)'
      BY <1>1
    <3>. DEFINE k == log[i].node
    <3>2. i <= At(k) /\ k \in Node
      BY <1>6 DEF PairInv, PairTimes
    <3>3. i <= At(k)'
      BY <1>4, <1>5, <1>6, <3>2
    <3>4. QED
      BY <3>3 DEF At
  <2>2. QED
    BY <1>1, <2>1 DEF PairInv, PairTimes
<1>8. PairEntries'
  <2>1. ASSUME NEW v \in Kept', NEW w \in Kept', v.id < w.id
        PROVE  PairBefore(v, w)'
    <3>1. PairBefore(v, w) /\ v.id \in Writes /\ w.id \in Writes
      BY <1>1, <1>4, <2>1 DEF PairInv, PairEntries
    <3>2. QED
      BY <1>1, <3>1, BeforeStays
  <2>2. ASSUME NEW v \in Kept
        PROVE  /\ v.vector_clock[Maker(v)] > 0
               /\ v.vector_clock[Other(Maker(v))] <= Own(Other(Maker(v)))
    BY DEF PairInv, PairEntries
  <2>3. ASSUME NEW v \in Kept
        PROVE  v.vector_clock[Other(Maker(v))] <= Own(Other(Maker(v)))'
    <3>1. CASE Maker(v) = n
      <4>1. Own(m)' = Own(m)
        BY <1>2, <1>3
      <4>2. QED
        BY <1>1, <2>2, <3>1, <4>1 DEF Own
    <3>2. CASE Maker(v) = m /\ At(n) < z.id
      <4>1. v.vector_clock[n] <= z.vector_clock[n]
        BY <1>1, <3>2, PairNewer DEF PairInv
      <4>2. v.vector_clock[n] <= Own(n)'
        BY <1>1, <1>4, <3>2, <4>1
      <4>3. QED
        BY <1>1, <1>3, <3>2, <4>2 DEF Own
    <3>3. CASE Maker(v) = m /\ z.id <= At(n)
      <4>1. Own(n)' = Own(n)
        BY <1>1, <1>4, <3>3
      <4>2. QED
        BY <1>1, <1>3, <2>2, <3>3, <4>1 DEF Own
    <3>4. QED
      BY <1>1, <1>3, <1>4, <3>1, <3>2, <3>3
  <2>4. ASSUME NEW v \in Kept'
        PROVE  /\ v.vector_clock[Maker(v)'] > 0
               /\ v.vector_clock[Other(Maker(v)')] <= Own(Other(Maker(v)))'
    <3>1. v \in Kept /\ Maker(v)' = Maker(v)
      BY <1>1
    <3>2. QED
      BY <2>2, <2>3, <3>1 DEF Own
  <2>5. ASSUME NEW k \in Node, store'[k] # None
        PROVE  store'[k].vector_clock[Other(k)] <= Own(Other(k))'
    <3>1. CASE At(n) < z.id
      <4>1. /\ z.vector_clock[m] <= Own(m)
            /\ store[m].vector_clock[n] <= z.vector_clock[n]
        BY <1>1, <3>1, PairNewer DEF PairInv
      <4>2. CASE k = n
        BY <1>1, <1>2, <1>3, <1>4, <3>1, <4>1, <4>2
      <4>3. CASE k = m
        BY <1>1, <1>2, <1>3, <1>4, <3>1, <4>1, <4>3
      <4>4. QED
        BY <1>3, <4>2, <4>3
    <3>2. CASE z.id <= At(n)
      <4>1. store'[k] = store[k] /\ Own(Other(k))' = Own(Other(k))
        BY <1>1, <1>2, <1>3, <1>4, <3>2
      <4>2. QED
        BY <2>5, <4>1 DEF PairInv, PairEntries
    <3>3. QED
      BY <1>1, <1>4, <3>1, <3>2
  <2>6. QED
    BY <2>1, <2>4, <2>5 DEF PairEntries
<1>9. PairSeen'
  <2>1. \A j \in log[z.id].past : j < z.id /\ j \in Nat
    BY <1>1, <1>4, WriteOf DEF PairInv, PairSeen
  <2>2. \A k \in Node : \A i \in seen[k] : i <= At(k) /\ i \in Nat
    BY DEF PairInv, PairSeen, TypeOK
  <2>3. ASSUME NEW k \in Node, NEW i \in seen'[k] PROVE i <= At(k)'
    <3>1. CASE i \in seen[k]
      BY <1>4, <1>5, <2>2, <3>1
    <3>2. CASE i \notin seen[k]
      <4>1. k = n /\ (i = z.id \/ i \in log[z.id].past)
        BY <1>2, <2>3, <3>2
      <4>2. i <= z.id /\ i \in Nat
        BY <1>1, <1>4, <2>1, <4>1
      <4>3. QED
        BY <1>1, <1>4, <1>5, <1>6, <4>1, <4>2
    <3>3. QED
      BY <3>1, <3>2
  <2>4. ASSUME NEW k \in Node, store'[k] # None
        PROVE  {store'[k].id} \cup log'[store'[k].id].past \subseteq seen'[k]
    <3>1. CASE store'[k] = store[k]
      <4>1. {store[k].id} \cup log[store[k].id].past \subseteq seen[k]
        BY <2>4, <3>1 DEF PairInv, PairSeen
      <4>2. seen[k] \subseteq seen'[k]
        BY <1>2
      <4>3. QED
        BY <3>1, <4>1, <4>2
    <3>2. CASE k = n /\ store'[n] = z
      BY <1>2, <3>2
    <3>3. QED
      BY <1>1, <1>2, <3>1, <3>2
  <2>5. \A i \in Writes' : i \in seen'[log'[i].node]
    BY <1>1, <1>2, <1>6 DEF PairInv, PairSeen
  <2>6. \A v, w \in Kept' :
          (v.id < w.id
              /\ v.vector_clock[Maker(v)'] <= w.vector_clock[Maker(v)'])
              => v.id \in log'[w.id].past
    BY <1>1 DEF PairInv, PairSeen
  <2>7. QED
    BY <1>1, <2>3, <2>4, <2>5, <2>6 DEF PairInv, PairSeen
<1>10. PairReads'
  <2>1. ASSUME NEW k \in Node, reads[k] # None, reads[k].floor # None
        PROVE  reads[k].floor.id <= At(k)'
    <3>1. reads[k].floor \in Kept
      BY <2>1, KeptHas
    <3>2. reads[k].floor.id <= At(k)
      BY <2>1 DEF PairInv, PairReads
    <3>3. QED
      BY <1>4, <1>5, <3>1, <3>2
  <2>2. QED
    BY <2>1 DEF PairInv, PairReads
<1>11. PairCovered'
  <2>1. \A u \in tasks' : /\ u.ver # None /\ u.req \in DOMAIN log'
                          /\ log'[u.req].op # "get" => u.ver.id = u.req
    BY DEF PairInv, PairCovered
  <2>2. ASSUME ~lost', NEW i \in Writes', NEW k \in Node
        PROVE  i <= At(k)' \/ \E u \in tasks' : u.req = i /\ u.to = k
    <3>1. CASE i <= At(k)
      BY <1>1, <1>4, <1>5, <1>6, <3>1
    <3>2. CASE \E u \in tasks \ {t} : u.req = i /\ u.to = k
      BY <3>2
    <3>3. CASE t.req = i /\ k = n
      <4>1. log[i].op # "get"
        BY <1>1 DEF Writes
      <4>2. z.id = i
        BY <3>3, <4>1 DEF PairInv, PairCovered
      <4>3. QED
        BY <1>6, <3>3, <4>2
    <3>4. QED
      BY <1>1, <2>2, <3>1, <3>2, <3>3 DEF PairInv, PairCovered
  <2>3. QED
    BY <2>1, <2>2 DEF PairCovered
<1>12. QED
  BY <1>7, <1>8, <1>9, <1>10, <1>11 DEF PairInv

-----------------------------------------------------------------------------
(* Two nodes: the steps that change no replica.                            *)

\* What does not depend on requests and reads under way stays.
LEMMA PairSame ==
    ASSUME Deployed, TypeOK, PairInv, Kept' \subseteq Kept,
           store' = store, seen' = seen, now' = now, Writes' = Writes,
           \A i \in Writes : log'[i] = log[i]
    PROVE  /\ PairTimes' /\ PairEntries' /\ PairSeen'
           /\ \A n \in Node : At(n)' = At(n)
<1>1. \A n \in Node : At(n)' = At(n) /\ Own(n)' = Own(n)
  BY DEF At, Own
<1>2. \A v \in Kept : /\ v.id \in Writes /\ Maker(v) \in Node
                      /\ Maker(v)' = Maker(v) /\ Other(Maker(v)) \in Node
  BY PairMaker DEF PairInv
<1>3. PairTimes'
  <2>1. ASSUME NEW i \in Writes PROVE i <= At(log[i].node)'
    <3>1. i <= At(log[i].node) /\ log[i].node \in Node /\ log'[i] = log[i]
      BY WriteOf DEF PairInv, PairTimes
    <3>2. QED
      BY <1>1, <3>1 DEF At
  <2>2. QED
    BY <2>1 DEF PairInv, PairTimes
<1>4. PairEntries'
  <2>1. ASSUME NEW v \in Kept', NEW w \in Kept', v.id < w.id
        PROVE  PairBefore(v, w)'
    BY <1>2, <2>1, BeforeStays DEF PairInv, PairEntries
  <2>2. ASSUME NEW v \in Kept'
        PROVE  /\ v.vector_clock[Maker(v)'] > 0
               /\ v.vector_clock[Other(Maker(v)')] <= Own(Other(Maker(v)))'
    <3>1. /\ v.vector_clock[Maker(v)] > 0
          /\ v.vector_clock[Other(Maker(v))] <= Own(Other(Maker(v)))
      BY DEF PairInv, PairEntries
    <3>2. QED
      BY <1>1, <1>2, <3>1 DEF Own
  <2>3. ASSUME NEW n \in Node, store'[n] # None
        PROVE  store'[n].vector_clock[Other(n)] <= Own(Other(n))'
    <3>1. store[n].vector_clock[Other(n)] <= Own(Other(n))
      BY <2>3 DEF PairInv, PairEntries
    <3>2. QED
      BY <3>1 DEF Own
  <2>4. QED
    BY <2>1, <2>2, <2>3 DEF PairEntries
<1>5. PairSeen'
  <2>1. \A n \in Node : store[n] # None => store[n].id \in Writes
    BY <1>2, KeptHas
  <2>2. \A n \in Node : store'[n] # None =>
            {store'[n].id} \cup log'[store'[n].id].past \subseteq seen'[n]
    BY <2>1 DEF PairInv, PairSeen
  <2>3. \A v, w \in Kept' :
          (v.id < w.id
              /\ v.vector_clock[Maker(v)'] <= w.vector_clock[Maker(v)'])
              => v.id \in log'[w.id].past
    BY <1>2 DEF PairInv, PairSeen
  <2>4. QED
    BY <1>1, <2>2, <2>3 DEF PairInv, PairSeen
<1>6. QED
  BY <1>1, <1>3, <1>4, <1>5

\* An attempt that the receiver does not take.
LEMMA PairNotTaken ==
    ASSUME Deployed, TypeOK, PairInv, NEW t \in tasks,
           Refuse(t) \/ Timeout(t) \/ Drop(t)
    PROVE  PairInv'
<1>1. /\ store' = store /\ seen' = seen /\ now' = now /\ log' = log
      /\ reads' = reads /\ lost' = (lost \/ GivenUp(t, tasks'))
  BY DEF Refuse, Timeout, Drop
<1>2. tasks \ {t} \subseteq tasks'
  BY DEF Refuse, Timeout, Drop
<1>3. ASSUME NEW u \in tasks'
      PROVE  \E r \in tasks : u.ver = r.ver /\ u.req = r.req /\ u.to = r.to
  <2>1. \/ u \in tasks
        \/ u \in NextAttempt(t)
        \/ u = [t EXCEPT !.left = 0]
    BY DEF Refuse, Timeout, Drop
  <2>2. t \in Task
    BY DEF TypeOK
  <2>3. QED
    BY <2>1, <2>2 DEF NextAttempt, Task
<1>4. Writes' = Writes /\ \A i \in Writes : log'[i] = log[i]
  BY <1>1 DEF Writes
<1>5. Kept' \subseteq Kept
  <2>1. \A m \in Node : store'[m] \in Kept \cup {None}
    BY <1>1, KeptHas
  <2>2. \A u \in tasks' : u.ver \in Kept \cup {None}
    BY <1>3, KeptHas
  <2>3. \A m \in Node : reads'[m] # None =>
            /\ reads'[m].floor \in Kept \cup {None}
            /\ \A k \in Holders(reads'[m]) : reads'[m].resp[k] \in Kept
    BY <1>1, KeptHas
  <2>4. QED
    BY <2>1, <2>2, <2>3, KeptNext
<1>6. PairTimes' /\ PairEntries' /\ PairSeen' /\ \A n \in Node : At(n)' = At(n)
  BY <1>1, <1>4, <1>5, PairSame
<1>7. PairReads'
  BY <1>1, <1>6 DEF PairInv, PairReads
<1>8. PairCovered'
  <2>1. \A u \in tasks' : /\ u.ver # None /\ u.req \in DOMAIN log'
                          /\ log'[u.req].op # "get" => u.ver.id = u.req
    BY <1>1, <1>3 DEF PairInv, PairCovered
  <2>2. ASSUME ~lost', NEW i \in Writes', NEW k \in Node
        PROVE  i <= At(k)' \/ \E u \in tasks' : u.req = i /\ u.to = k
    <3>1. CASE i <= At(k)
      BY <1>6, <3>1
    <3>2. CASE \E u \in tasks \ {t} : u.req = i /\ u.to = k
      BY <1>2, <3>2
    <3>3. CASE t.req = i /\ t.to = k
      <4>1. log[i].op # "get"
        BY <1>4 DEF Writes
      <4>2. ~GivenUp(t, tasks')
        BY <1>1, <2>2
      <4>3. QED
        BY <3>3, <4>1, <4>2 DEF GivenUp
    <3>4. ~lost
      BY <1>1, <2>2
    <3>5. QED
      BY <1>4, <3>1, <3>2, <3>3, <3>4 DEF PairInv, PairCovered
  <2>3. QED
    BY <2>1, <2>2 DEF PairCovered
<1>9. QED
  BY <1>6, <1>7, <1>8 DEF PairInv

LEMMA PairTaskStep ==
    ASSUME Deployed, TypeOK, PairInv, TaskStep
    PROVE  PairInv'
<1>1. PICK t \in tasks : \/ Deliver(t) \/ Refuse(t) \/ DeliverUnanswered(t)
                         \/ Timeout(t) \/ Drop(t)
  BY DEF TaskStep
<1>2. CASE Deliver(t)
  <2>1. /\ Handle(t) /\ tasks' = tasks \ {t}
        /\ reads' = reads /\ now' = now /\ log' = log /\ lost' = lost
    BY <1>2 DEF Deliver
  <2>2. QED
    BY <2>1, PairHandle
<1>3. CASE DeliverUnanswered(t)
  <2>1. /\ Handle(t) /\ tasks' = (tasks \ {t}) \cup NextAttempt(t)
        /\ reads' = reads /\ now' = now /\ log' = log /\ lost' = lost
    BY <1>3 DEF DeliverUnanswered
  <2>2. ASSUME NEW u \in tasks'
        PROVE  \E r \in tasks : u.ver = r.ver /\ u.req = r.req /\ u.to = r.to
    <3>1. t \in Task /\ (u \in tasks \/ u \in NextAttempt(t))
      BY <2>1 DEF TypeOK
    <3>2. QED
      BY <3>1 DEF NextAttempt, Task
  <2>3. QED
    BY <2>1, <2>2, PairHandle
<1>4. QED
  BY <1>1, <1>2, <1>3, PairNotTaken

-----------------------------------------------------------------------------
(* Two nodes: the steps of a GET.                                          *)

LEMMA PairGetStart ==
    ASSUME Deployed, TypeOK, PairInv, NEW n \in Node, NEW u \in User,
           NEW view \in Views, GetStart(n, u, view)
    PROVE  PairInv'
<1>. DEFINE r == [by |-> u, floor |-> store[n], req |-> NextId,
                  resp |-> [m \in Node |-> IF m \in view THEN Pending
                                           ELSE Silent]]
<1>1. /\ store' = store /\ tasks' = tasks /\ now' = now /\ seen' = seen
      /\ lost' = lost /\ reads' = [reads EXCEPT ![n] = r]
      /\ Accept("get", n, u)
  BY DEF GetStart
<1>2. /\ DOMAIN log' = DOMAIN log \cup {NextId}
      /\ NextId \in Nat /\ NextId \notin DOMAIN log
      /\ \A i \in DOMAIN log : log'[i] = log[i]
      /\ log'[NextId].op = "get"
  BY <1>1, AcceptExtends DEF Ops, Owner
<1>3. Writes' = Writes /\ \A i \in Writes : log'[i] = log[i]
  BY <1>2 DEF Writes
<1>4. /\ r.floor = store[n] /\ r.req = NextId
      /\ \A m \in Node : r.resp[m] = Pending
  BY DEF Deployed
<1>5. reads'[n] = r /\ \A m \in Node \ {n} : reads'[m] = reads[m]
  BY <1>1 DEF TypeOK
<1>. HIDE DEF r
<1>6. Holders(r) = {}
  BY <1>4 DEF Holders, Answered
<1>7. Kept' \subseteq Kept
  <2>1. \A m \in Node : store'[m] \in Kept \cup {None}
    BY <1>1, KeptHas
  <2>2. \A t \in tasks' : t.ver \in Kept \cup {None}
    BY <1>1, KeptHas
  <2>3. ASSUME NEW m \in Node, reads'[m] # None
        PROVE  /\ reads'[m].floor \in Kept \cup {None}
               /\ \A k \in Holders(reads'[m]) : reads'[m].resp[k] \in Kept
    <3>1. CASE m = n
      BY <1>4, <1>5, <1>6, <3>1, KeptHas
    <3>2. CASE m # n
      BY <1>5, <2>3, <3>2, KeptHas
    <3>3. QED
      BY <3>1, <3>2
  <2>4. QED
    BY <2>1, <2>2, <2>3, KeptNext
<1>8. PairTimes' /\ PairEntries' /\ PairSeen' /\ \A k \in Node : At(k)' = At(k)
  BY <1>1, <1>3, <1>7, PairSame
<1>9. PairReads'
  <2>1. SUFFICES ASSUME NEW k \in Node, reads'[k] # None
        PROVE  /\ reads'[k].req \in DOMAIN log'
               /\ log'[reads'[k].req].op = "get"
               /\ reads'[k].resp[k] # Silent
               /\ reads'[k].floor # None =>
                    /\ reads'[k].floor.id <= At(k)'
                    /\ reads'[k].resp[k] # Pending =>
                          /\ reads'[k].resp[k] # None
                          /\ reads'[k].floor.id <= reads'[k].resp[k].id
    BY DEF PairReads
  <2>2. CASE k = n
    <3>1. Pending # Silent
      BY ConstantsAssumption
    <3>2. store[n] # None => store[n].id <= At(n)
      BY AtNat DEF At
    <3>3. QED
      BY <1>2, <1>4, <1>5, <1>8, <2>2, <3>1, <3>2
  <2>3. CASE k # n
    BY <1>2, <1>5, <1>8, <2>1, <2>3 DEF PairInv, PairReads
  <2>4. QED
    BY <2>2, <2>3
<1>10. PairCovered'
  BY <1>1, <1>2, <1>3, <1>8 DEF PairInv, PairCovered
<1>11. QED
  BY <1>8, <1>9, <1>10 DEF PairInv

LEMMA PairGetReply ==
    ASSUME Deployed, TypeOK, PairInv, NEW n \in Node, NEW m \in Node,
           GetAnswer(n, m) \/ GetError(n, m)
    PROVE  PairInv'
<1>. DEFINE r == reads[n]
            q == reads'[n]
<1>1. /\ store' = store /\ tasks' = tasks /\ now' = now /\ seen' = seen
      /\ lost' = lost /\ log' = log /\ r # None
  BY DEF GetAnswer, GetError
<1>2. r \in Read
  BY <1>1 DEF TypeOK
<1>3. PICK a : /\ reads' = [reads EXCEPT ![n].resp[m] = a]
               /\ a = store[m] \/ (a = Silent /\ m # n)
  BY DEF GetAnswer, GetError
<1>4. /\ q.floor = r.floor /\ q.req = r.req /\ q.resp[m] = a
      /\ \A k \in Node \ {m} : q.resp[k] = r.resp[k]
      /\ \A k \in Node \ {n} : reads'[k] = reads[k]
  BY <1>2, <1>3 DEF TypeOK, Read
<1>5. Writes' = Writes /\ \A i \in Writes : log'[i] = log[i]
  BY <1>1 DEF Writes
<1>. HIDE DEF q
<1>6. \A k \in Holders(q) : q.resp[k] \in Kept
  <2>1. SUFFICES ASSUME NEW k \in Holders(q) PROVE q.resp[k] \in Kept
    OBVIOUS
  <2>2. k \in Node /\ q.resp[k] \notin {Pending, Silent, None}
    BY DEF Holders, Answered
  <2>3. CASE k = m
    BY <1>3, <1>4, <2>2, <2>3, KeptHas
  <2>4. CASE k # m
    <3>1. k \in Holders(r)
      BY <1>4, <2>2, <2>4 DEF Holders, Answered
    <3>2. QED
      BY <1>1, <1>4, <2>2, <2>4, <3>1, KeptHas
  <2>5. QED
    BY <2>3, <2>4
<1>7. Kept' \subseteq Kept
  <2>1. \A k \in Node : store'[k] \in Kept \cup {None}
    BY <1>1, KeptHas
  <2>2. \A t \in tasks' : t.ver \in Kept \cup {None}
    BY <1>1, KeptHas
  <2>3. ASSUME NEW k \in Node, reads'[k] # None
        PROVE  /\ reads'[k].floor \in Kept \cup {None}
               /\ \A j \in Holders(reads'[k]) : reads'[k].resp[j] \in Kept
    <3>1. CASE k = n
      BY <1>1, <1>4, <1>6, <3>1, KeptHas DEF q
    <3>2. CASE k # n
      BY <1>4, <2>3, <3>2, KeptHas
    <3>3. QED
      BY <3>1, <3>2
  <2>4. QED
    BY <2>1, <2>2, <2>3, KeptNext
<1>8. PairTimes' /\ PairEntries' /\ PairSeen' /\ \A k \in Node : At(k)' = At(k)
  BY <1>1, <1>5, <1>7, PairSame
<1>9. PairReads'
  <2>1. /\ r.req \in DOMAIN log /\ log[r.req].op = "get"
        /\ r.resp[n] # Silent
        /\ r.floor # None =>
              /\ r.floor.id <= At(n)
              /\ r.resp[n] # Pending =>
                    r.resp[n] # None /\ r.floor.id <= r.resp[n].id
    BY <1>1 DEF PairInv, PairReads
  <2>2. /\ q.resp[n] # Silent
        /\ (q.floor # None /\ q.resp[n] # Pending) =>
              q.resp[n] # None /\ q.floor.id <= q.resp[n].id
    <3>1. CASE m # n
      BY <1>4, <2>1, <3>1
    <3>2. CASE m = n
      <4>1. q.resp[n] = store[n] /\ store[n] # Silent
        BY <1>3, <1>4, <3>2, ConstantsAssumption DEF TypeOK
      <4>2. ASSUME r.floor # None
            PROVE  store[n] # None /\ r.floor.id <= store[n].id
        <5>1. r.floor.id > 0 /\ r.floor.id \in Nat
          BY <1>1, <4>2, KeptHas, KeptVersion, WriteOf DEF PairInv, PairTimes
        <5>2. QED
          BY <2>1, <4>2, <5>1 DEF At
      <4>3. QED
        BY <1>4, <4>1, <4>2
    <3>3. QED
      BY <3>1, <3>2
  <2>3. SUFFICES ASSUME NEW k \in Node, reads'[k] # None
        PROVE  /\ reads'[k].req \in DOMAIN log'
               /\ log'[reads'[k].req].op = "get"
               /\ reads'[k].resp[k] # Silent
               /\ reads'[k].floor # None =>
                    /\ reads'[k].floor.id <= At(k)'
                    /\ reads'[k].resp[k] # Pending =>
                          /\ reads'[k].resp[k] # None
                          /\ reads'[k].floor.id <= reads'[k].resp[k].id
    BY DEF PairReads
  <2>4. CASE k = n
    BY <1>1, <1>4, <1>8, <2>1, <2>2, <2>4 DEF q
  <2>5. CASE k # n
    BY <1>1, <1>4, <1>8, <2>3, <2>5 DEF PairInv, PairReads
  <2>6. QED
    BY <2>4, <2>5
<1>10. PairCovered'
  BY <1>1, <1>5, <1>8 DEF PairInv, PairCovered
<1>11. QED
  BY <1>8, <1>9, <1>10 DEF PairInv

LEMMA PairGetFinish ==
    ASSUME Deployed, TypeOK, PairInv, NEW n \in Node, GetFinish(n)
    PROVE  PairInv'
<1>. DEFINE r == reads[n]
<1>1. /\ store' = store /\ now' = now /\ seen' = seen
      /\ lost' = lost /\ log' = log /\ r # None
      /\ reads' = [reads EXCEPT ![n] = None]
  BY DEF GetFinish
<1>2. tasks \subseteq tasks' /\ \A t \in tasks' \ tasks :
          t.req = r.req /\ \E m \in Holders(r) : t.ver = r.resp[m]
  BY DEF GetFinish
<1>3. \A t \in tasks' \ tasks : t.ver \in Kept /\ t.ver # None /\ t.req = r.req
  BY <1>1, <1>2, KeptHas DEF Holders
<1>4. \A k \in Node : reads'[k] # None => reads'[k] = reads[k]
  BY <1>1 DEF TypeOK
<1>5. Writes' = Writes /\ \A i \in Writes : log'[i] = log[i]
  BY <1>1 DEF Writes
<1>6. Kept' \subseteq Kept
  <2>1. \A k \in Node : store'[k] \in Kept \cup {None}
    BY <1>1, KeptHas
  <2>2. \A t \in tasks' : t.ver \in Kept \cup {None}
    BY <1>3, KeptHas
  <2>3. \A k \in Node : reads'[k] # None =>
            /\ reads'[k].floor \in Kept \cup {None}
            /\ \A j \in Holders(reads'[k]) : reads'[k].resp[j] \in Kept
    BY <1>4, KeptHas
  <2>4. QED
    BY <2>1, <2>2, <2>3, KeptNext
<1>7. PairTimes' /\ PairEntries' /\ PairSeen' /\ \A k \in Node : At(k)' = At(k)
  BY <1>1, <1>5, <1>6, PairSame
<1>8. PairReads'
  BY <1>1, <1>4, <1>7 DEF PairInv, PairReads
<1>9. PairCovered'
  <2>1. r.req \in DOMAIN log /\ log[r.req].op = "get"
    BY <1>1 DEF PairInv, PairReads
  <2>2. \A t \in tasks' : /\ t.ver # None /\ t.req \in DOMAIN log'
                          /\ log'[t.req].op # "get" => t.ver.id = t.req
    BY <1>1, <1>3, <2>1 DEF PairInv, PairCovered
  <2>3. QED
    BY <1>1, <1>2, <1>5, <1>7, <2>2 DEF PairInv, PairCovered
<1>10. QED
  BY <1>7, <1>8, <1>9 DEF PairInv

-----------------------------------------------------------------------------
(* Two nodes: the theorems.                                                *)

LEMMA PairInit ==
    ASSUME Init
    PROVE  PairInv
<1>1. /\ tasks = {} /\ log = <<>> /\ \A n \in Node : /\ store[n] = None
                                                    /\ reads[n] = None
                                                    /\ seen[n] = {}
  BY DEF Init
<1>2. Writes = {}
  BY <1>1 DEF Writes
<1>3. Kept = {}
  BY <1>1 DEF Kept, Live, Collected
<1>4. QED
  BY <1>1, <1>2, <1>3
     DEF PairInv, PairTimes, PairEntries, PairSeen, PairReads, PairCovered

LEMMA PairStutter ==
    ASSUME PairInv, UNCHANGED vars
    PROVE  PairInv'
<1>1. /\ store' = store /\ tasks' = tasks /\ reads' = reads /\ now' = now
      /\ log' = log /\ seen' = seen /\ lost' = lost
  BY DEF vars
<1>2. Kept' = Kept /\ Writes' = Writes
  BY <1>1 DEF Kept, Live, Collected, Writes
<1>3. PairTimes'
  BY <1>1, <1>2 DEF PairInv, PairTimes, At
<1>4. PairEntries'
  BY <1>1, <1>2 DEF PairInv, PairEntries, PairBefore, Maker, Own
<1>5. PairSeen'
  BY <1>1, <1>2 DEF PairInv, PairSeen, At, Maker
<1>6. PairReads'
  BY <1>1 DEF PairInv, PairReads, At
<1>7. PairCovered'
  BY <1>1, <1>2 DEF PairInv, PairCovered, At
<1>8. QED
  BY <1>3, <1>4, <1>5, <1>6, <1>7 DEF PairInv

LEMMA PairNext ==
    ASSUME Deployed, TypeOK, PairInv, [KeepingNext]_vars
    PROVE  PairInv'
<1>1. CASE ClientStep
  <2>1. PICK n \in Coordinators, view \in Views :
            \/ \E u \in User : \/ Put(n, u, view)
                               \/ Patch(n, u, view)
                               \/ GetStart(n, u, view)
            \/ AdminPut(n, view)
    BY <1>1 DEF ClientStep
  <2>2. n \in Node
    BY ConstantsAssumption
  <2>3. ASSUME NEW op, NEW by, NEW ver, NEW targets, NEW left,
               PairWrites(n, op, by, ver, targets, left)
        PROVE  PairInv'
    BY <2>2, <2>3, PairWriteTimes, PairWriteEntries, PairWriteSeen,
       PairWriteRest DEF PairInv
  <2>4. CASE \E u \in User : Put(n, u, view) \/ Patch(n, u, view)
    BY <2>2, <2>3, <2>4, PairMade
  <2>5. CASE \E u \in User : GetStart(n, u, view)
    BY <2>2, <2>5, PairGetStart
  <2>6. CASE AdminPut(n, view)
    BY <2>2, <2>3, <2>6, PairMade
  <2>7. QED
    BY <2>1, <2>4, <2>5, <2>6
<1>2. CASE TaskStep
  BY <1>2, PairTaskStep
<1>3. CASE ReadStep
  BY <1>3, PairGetReply, PairGetFinish DEF ReadStep
<1>4. CASE UNCHANGED vars
  BY <1>4, PairStutter
<1>5. QED
  BY <1>1, <1>2, <1>3, <1>4 DEF KeepingNext

\* The inductive invariant of two nodes that both take requests: the order of
\* the writes is that of the versions' timestamps, of their entries, and of
\* what replicas hold one after the other.
THEOREM PairInvariant ==
    ASSUME Deployed
    PROVE  KeepingSpec => []PairInv
<1>1. Init => PairInv
  BY PairInit
<1>2. TypeOK /\ PairInv /\ [KeepingNext]_vars => PairInv'
  BY PairNext
<1>3. QED
  BY <1>1, <1>2, KeepingIsStore, TypeCorrect, PTL DEF KeepingSpec

LEMMA LiveKept == Live \subseteq Kept
BY DEF Live, Kept

\* On two nodes a dominating clock means that the other write was seen, however
\* requests are lost, repeated and reordered, and although a merge drops the
\* losing clock; with a third node it does not.
THEOREM PairCausal ==
    ASSUME Deployed
    PROVE  KeepingSpec => []CausalClocks
<1>1. TypeOK /\ PairInv => CausalClocks
  <2>. SUFFICES ASSUME TypeOK, PairInv, NEW a \in Live, NEW b \in Live,
                       Dominates(a, b)
                PROVE  b.id \in log[a.id].past
    BY DEF CausalClocks
  <2>1. a \in Kept /\ b \in Kept
    BY LiveKept
  <2>2. a \in Version /\ b \in Version /\ a.id \in Nat /\ b.id \in Nat
    BY <2>1, KeptVersion
  <2>3. CASE a.id < b.id
    BY <2>1, <2>3, PairOrder DEF PairInv
  <2>4. CASE a.id = b.id
    <3>1. a = b
      BY <2>1, <2>4 DEF PairInv, PairTimes
    <3>2. QED
      BY <2>2, <3>1, DominatesStrictOrder
  <2>5. CASE b.id < a.id
    <3>1. Maker(b) \in Node
      BY <2>1, WriteOf DEF PairInv, PairTimes, Maker
    <3>2. b.vector_clock[Maker(b)] <= a.vector_clock[Maker(b)]
      <4>1. a.vector_clock[Maker(b)] >= b.vector_clock[Maker(b)]
        BY <2>2, <3>1, DominatesIsPointwise
      <4>2. QED
        BY <2>2, <3>1, <4>1 DEF Version, Clock
    <3>3. QED
      BY <2>1, <2>5, <3>2 DEF PairInv, PairSeen
  <2>6. QED
    BY <2>2, <2>3, <2>4, <2>5
<1>2. QED
  BY <1>1, PairInvariant, KeepingIsStore, TypeCorrect, PTL

\* On two nodes no two versions have the same vector clock, although a node's
\* own entry falls back when a merge takes a version that has not seen its
\* last writes.
THEOREM PairIdentifies ==
    ASSUME Deployed
    PROVE  KeepingSpec => []ClockIdentifies
<1>1. TypeOK /\ PairInv => ClockIdentifies
  <2>. SUFFICES ASSUME TypeOK, PairInv
                PROVE  ClockIdentifies
    OBVIOUS
  <2>1. ASSUME NEW a \in Kept, NEW b \in Kept, a.id < b.id
        PROVE  a.vector_clock # b.vector_clock
    <3>1. PairBefore(a, b)
      BY <2>1 DEF PairInv, PairEntries
    <3>2. Maker(a) \in Node
      BY WriteOf DEF PairInv, PairTimes, Maker
    <3>3. Other(Maker(a)) \in Node
      BY <3>2, PairOther
    <3>4. a.vector_clock \in [Node -> Nat] /\ b.vector_clock \in [Node -> Nat]
      BY KeptVersion
    <3>5. QED
      BY <3>1, <3>2, <3>3, <3>4 DEF PairBefore
  <2>2. \A a \in Kept : a.id \in Nat
    BY KeptVersion
  <2>3. QED
    BY <2>1, <2>2, LiveKept DEF ClockIdentifies, PairInv, PairTimes
<1>2. QED
  BY <1>1, PairInvariant, KeepingIsStore, TypeCorrect, PTL

\* On two nodes no retry, abandoned request or read repair brings back a
\* version that the replica has known before.
THEOREM PairNeverRollsBack ==
    ASSUME Deployed
    PROVE  KeepingSpec => NoRollback
<1>. DEFINE Forward == \A n \in Node :
                (store'[n] # store[n] /\ store'[n] # None)
                    => store'[n].id \notin seen[n]
<1>1. ASSUME TypeOK, PairInv, KeepingNext PROVE Forward
  <2>1. \A n \in Node : \A i \in seen[n] : i <= At(n) /\ i \in Nat
    BY <1>1 DEF PairInv, PairSeen, TypeOK
  <2>2. ASSUME NEW n \in Node, NEW op, NEW by, NEW ver, NEW targets, NEW left,
               PairWrites(n, op, by, ver, targets, left)
        PROVE  Forward
    <3>1. /\ store'[n] = ver /\ \A m \in Node \ {n} : store'[m] = store[m]
          /\ \A v \in Kept : v.id < ver.id
      BY <1>1, <2>2, PairWriteFacts DEF PairInv
    <3>2. ver.id \in Nat /\ ver.id > 0
      BY <1>1, <2>2 DEF PairWrites, NextId, TypeOK
    <3>3. At(n) < ver.id /\ At(n) \in Nat
      BY <1>1, <3>1, <3>2, KeptHas, AtNat DEF At
    <3>4. QED
      BY <2>1, <3>1, <3>2, <3>3
  <2>3. ASSUME NEW t \in tasks, Handle(t), log' = log, reads' = reads,
               \A u \in tasks' : \E r \in tasks :
                   u.ver = r.ver /\ u.req = r.req /\ u.to = r.to
        PROVE  Forward
    <3>1. /\ t.to \in Node /\ t.ver \in Kept
          /\ \/ At(t.to) < t.ver.id /\ store'[t.to] = t.ver
             \/ store'[t.to] = store[t.to]
          /\ \A m \in Node \ {t.to} : store'[m] = store[m]
      BY <1>1, <2>3, PairHandleFacts
    <3>2. t.ver.id \in Nat /\ At(t.to) \in Nat
      BY <1>1, <3>1, KeptVersion, AtNat
    <3>3. QED
      BY <2>1, <3>1, <3>2
  <2>4. CASE ClientStep
    <3>1. PICK n \in Coordinators, view \in Views :
              \/ \E u \in User : \/ Put(n, u, view)
                                 \/ Patch(n, u, view)
                                 \/ GetStart(n, u, view)
              \/ AdminPut(n, view)
      BY <2>4 DEF ClientStep
    <3>2. n \in Node
      BY ConstantsAssumption
    <3>3. CASE \E u \in User : GetStart(n, u, view)
      BY <3>3 DEF GetStart
    <3>4. CASE \/ \E u \in User : Put(n, u, view) \/ Patch(n, u, view)
               \/ AdminPut(n, view)
      BY <1>1, <2>2, <3>2, <3>4, PairMade
    <3>5. QED
      BY <3>1, <3>3, <3>4
  <2>5. CASE TaskStep
    <3>1. PICK t \in tasks : \/ Deliver(t) \/ Refuse(t) \/ DeliverUnanswered(t)
                             \/ Timeout(t) \/ Drop(t)
      BY <2>5 DEF TaskStep
    <3>2. CASE Refuse(t) \/ Timeout(t) \/ Drop(t)
      BY <3>2 DEF Refuse, Timeout, Drop
    <3>3. CASE Deliver(t) \/ DeliverUnanswered(t)
      <4>1. /\ Handle(t) /\ log' = log /\ reads' = reads
            /\ tasks' \subseteq tasks \cup NextAttempt(t)
        BY <3>3 DEF Deliver, DeliverUnanswered
      <4>2. ASSUME NEW u \in tasks'
            PROVE  \E r \in tasks :
                       u.ver = r.ver /\ u.req = r.req /\ u.to = r.to
        <5>1. t \in Task /\ (u \in tasks \/ u \in NextAttempt(t))
          BY <1>1, <4>1 DEF TypeOK
        <5>2. QED
          BY <5>1 DEF NextAttempt, Task
      <4>3. QED
        BY <2>3, <4>1, <4>2
    <3>4. QED
      BY <3>1, <3>2, <3>3
  <2>6. CASE ReadStep
    BY <2>6 DEF ReadStep, GetAnswer, GetError, GetFinish
  <2>7. QED
    BY <1>1, <2>4, <2>5, <2>6 DEF KeepingNext
<1>2. TypeOK /\ PairInv /\ [KeepingNext]_vars => [Forward]_vars
  BY <1>1
<1>3. QED
  BY <1>2, PairInvariant, KeepingIsStore, TypeCorrect, PTL
     DEF KeepingSpec, NoRollback

\* The outcome of a GET does not depend on the order of the answers: the newest
\* of them.
LEMMA PairOutcome ==
    ASSUME Deployed, TypeOK, PairInv, NEW n \in Node, reads[n] # None,
           Holders(reads[n]) # {}
    PROVE  \E top \in Holders(reads[n]) :
               /\ Outcomes(reads[n]) = {reads[n].resp[top]}
               /\ \A m \in Holders(reads[n]) :
                     \/ reads[n].resp[m] = reads[n].resp[top]
                     \/ reads[n].resp[m].id < reads[n].resp[top].id
<1>. DEFINE r == reads[n]
            id(m) == r.resp[m].id
<1>1. \A m \in Holders(r) : /\ m \in Node /\ r.resp[m] \in Version
                            /\ r.resp[m] \in Kept /\ id(m) \in Nat
  BY HolderAnswer, KeptHas, KeptVersion
<1>2. \E top \in Holders(r) : \A m \in Holders(r) : id(m) <= id(top)
  <2>1. PICK a \in Holders(r) : TRUE
    OBVIOUS
  <2>2. Node = {a, Other(a)}
    BY <1>1, PairOther
  <2>. DEFINE b == Other(a)
  <2>3. \A m \in Holders(r) : m = a \/ m = b
    BY <1>1, <2>2
  <2>. HIDE DEF b, r
  <2>4. CASE b \in Holders(r)
    <3>1. id(a) \in Nat /\ id(b) \in Nat
      BY <1>1, <2>4
    <3>2. id(a) <= id(b) \/ id(b) <= id(a)
      BY <3>1
    <3>3. id(a) <= id(a) /\ id(b) <= id(b)
      BY <3>1
    <3>. HIDE DEF id
    <3>4. QED
      BY <2>3, <2>4, <3>2, <3>3
  <2>5. CASE b \notin Holders(r)
    <3>1. \A m \in Holders(r) : m = a
      BY <2>3, <2>5
    <3>2. id(a) <= id(a)
      BY <1>1
    <3>3. QED
      BY <3>1, <3>2
  <2>6. QED
    BY <2>4, <2>5
<1>3. PICK top \in Holders(r) : \A m \in Holders(r) : id(m) <= id(top)
  BY <1>2
<1>4. \A m \in Holders(r) : r.resp[m] = r.resp[top] \/ id(m) < id(top)
  BY <1>1, <1>3 DEF PairInv, PairTimes
<1>5. \A m \in Holders(r) : \/ r.resp[m] = r.resp[top]
                            \/ Supersedes(r.resp[top], r.resp[m])
  BY <1>1, <1>4, PairOrder DEF PairInv
<1>6. Holders(r) \in SUBSET Node
  BY <1>1
<1>7. LatestOf(r.resp, Holders(r)) = {r.resp[top]}
  BY <1>1, <1>5, <1>6, LatestWhateverTheOrder
<1>8. QED
  BY <1>4, <1>7 DEF Outcomes

\* On two nodes a GET returns nothing older than what its node held when it
\* began, whatever the order in which the ring lists the answers.
THEOREM PairReadsFresh ==
    ASSUME Deployed
    PROVE  KeepingSpec => []ReadFresh
<1>1. TypeOK /\ PairInv => ReadFresh
  <2>. SUFFICES ASSUME TypeOK, PairInv, NEW n \in Node, reads[n] # None,
                       AllAnswered(reads[n])
                PROVE  LET r == reads[n]
                       IN  /\ r.floor # None => Holders(r) # {}
                           /\ \A v, w \in Outcomes(r) : v = w
                           /\ \A v \in Outcomes(r) :
                                 r.floor # None => ~Supersedes(r.floor, v)
    BY DEF ReadFresh, FinishedReads
  <2>. DEFINE r == reads[n]
              f == r.floor
              own == r.resp[n]
  <2>1. r.resp[n] # Pending
    BY DEF AllAnswered
  <2>2. ASSUME f # None
        PROVE  n \in Holders(r) /\ f.id <= own.id
    BY <2>1, <2>2 DEF PairInv, PairReads, Holders, Answered
  <2>3. CASE Holders(r) = {}
    BY <2>2, <2>3, NoOutcome
  <2>4. CASE Holders(r) # {}
    <3>1. PICK top \in Holders(r) :
              /\ Outcomes(r) = {r.resp[top]}
              /\ \A m \in Holders(r) : \/ r.resp[m] = r.resp[top]
                                       \/ r.resp[m].id < r.resp[top].id
      BY <2>4, PairOutcome
    <3>2. ASSUME f # None
          PROVE  ~Supersedes(f, r.resp[top])
      <4>. DEFINE v == r.resp[top]
      <4>1. f \in Kept /\ own \in Kept /\ v \in Kept
        BY <2>2, <3>1, <3>2, KeptHas
      <4>2. /\ f \in Version /\ f.id \in Nat /\ own.id \in Nat /\ v.id \in Nat
        BY <4>1, KeptVersion
      <4>3. f.id <= own.id /\ (own = v \/ own.id < v.id)
        BY <2>2, <3>1, <3>2
      <4>. HIDE DEF f, own, v
      <4>4. f.id < v.id \/ f.id = v.id
        BY <4>2, <4>3
      <4>5. CASE f.id < v.id
        BY <4>1, <4>5, PairOrder DEF PairInv, v
      <4>6. CASE f.id = v.id
        <5>1. f = v
          BY <4>1, <4>6 DEF PairInv, PairTimes
        <5>2. QED
          BY <4>2, <5>1, SupersedesAsymmetric DEF v
      <4>7. QED
        BY <4>4, <4>5, <4>6
    <3>3. QED
      BY <2>4, <3>1, <3>2
  <2>5. QED
    BY <2>3, <2>4
<1>2. QED
  BY <1>1, PairInvariant, KeepingIsStore, TypeCorrect, PTL

\* Two nodes that list each other, whose clocks agree and that never accept two
\* writes in the same millisecond: the replicas agree once no request is under
\* way and none was given up, whichever of concurrent writes a merge has dropped.
\* Without the last assumption they need not: see TieNeverMerges.
THEOREM PairConverges ==
    ASSUME Deployed
    PROVE  KeepingSpec => []QuiescentConverged
<1>1. TypeOK /\ PairInv => QuiescentConverged
  <2>. SUFFICES ASSUME TypeOK, PairInv, tasks = {}, ~lost,
                       NEW m \in Node, NEW n \in Node
                PROVE  store[m] = store[n]
    BY DEF QuiescentConverged, Quiescent
  <2>1. \A k \in Node : \A i \in Writes : i <= At(k)
    BY DEF PairInv, PairCovered
  <2>2. \A k \in Node : store[k] # None =>
            store[k] \in Kept /\ At(k) = store[k].id /\ At(k) \in Writes
    BY KeptHas DEF At, PairInv, PairTimes
  <2>3. \A i \in Writes : i > 0
    BY WriteOf
  <2>4. At(m) \in Nat /\ At(n) \in Nat
    BY AtNat
  <2>5. store[m] = None => At(m) = 0
    BY DEF At
  <2>6. store[n] = None => At(n) = 0
    BY DEF At
  <2>7. CASE store[m] = None \/ store[n] = None
    BY <2>1, <2>2, <2>3, <2>4, <2>5, <2>6, <2>7
  <2>8. CASE store[m] # None /\ store[n] # None
    BY <2>1, <2>2, <2>4, <2>8 DEF PairInv, PairTimes
  <2>9. QED
    BY <2>7, <2>8
<1>2. QED
  BY <1>1, PairInvariant, KeepingIsStore, TypeCorrect, PTL

=============================================================================
