--------------------------- MODULE VersionedValue ---------------------------
(***************************************************************************)
(* The record a DynaRust node keeps for a key, and the comparison by which *)
(* replicas decide which of two records to keep: `VersionedValue` of       *)
(* src/storage/engine.rs, the merge inside `put_value_internal`, and the   *)
(* selection and repair tests inside `get_value`.                          *)
(*                                                                         *)
(* A JSON body is abstracted to the set of client writes folded into it: a *)
(* PUT replaces the whole map, a PATCH adds to it.  A vector clock is a    *)
(* function on all nodes in which 0 stands for an absent HashMap entry:    *)
(* `entry(..).or_insert(0)` is followed at once by `+= 1`, so the program  *)
(* never stores a 0.  The field id is a ghost: the index, in the           *)
(* log of requests, of the write that produced the version.                *)
(***************************************************************************)
EXTENDS Naturals, FiniteSets, SequencesExt

CONSTANTS
    Node,   \* addresses of the cluster's nodes
    User,   \* user names that JWTs carry
    Admin,  \* the owner string "admin" of a record created by the admin API
    None    \* Option::None: the key is absent

Owner == User \cup {Admin}

Clock == [Node -> Nat]

Version == [id : Nat, value : SUBSET Nat, vector_clock : Clock,
            timestamp : Nat, owner : Owner]

\* Records and absent keys are told apart (Option<VersionedValue>).
ASSUME NoneAssumption == None \notin Version

\* Clusters are finite.
ASSUME NodesAssumption == IsFiniteSet(Node)

-----------------------------------------------------------------------------
(* Construction and update.                                                *)

\* VersionedValue::new: a fresh clock with the creating node's entry at 1.
new(id, owner, node, ts) ==
    [id           |-> id,
     value        |-> {id},
     vector_clock |-> [m \in Node |-> IF m = node THEN 1 ELSE 0],
     timestamp    |-> ts,
     owner        |-> owner]

\* *entry(node_id).or_insert(0) += 1
Tick(c, node) == [c EXCEPT ![node] = @ + 1]

\* VersionedValue::update: the body is replaced, the owner is kept.
update(v, id, node, ts) ==
    [v EXCEPT !.id = id,
              !.value = {id},
              !.vector_clock = Tick(@, node),
              !.timestamp = ts]

\* Seeded fault: patch forgets the clock.
patchKeepingClock(v, id, node, ts) ==
    [v EXCEPT !.id = id, !.value = @ \cup {id}, !.timestamp = ts]

\* VersionedValue::patch: the fields of the request are inserted in the body.
patch(v, id, node, ts) ==
    [v EXCEPT !.id = id,
              !.value = @ \cup {id},
              !.vector_clock = Tick(@, node),
              !.timestamp = ts]

-----------------------------------------------------------------------------
(* Comparison.                                                             *)

\* The nodes a clock has an entry for.
Entries(c) == {m \in Node : c[m] > 0}

\* Seeded fault: the first loop goes over the entries of a.
DominatesInOwnEntries(a, b) ==
    LET ca == a.vector_clock
        cb == b.vector_clock
    IN  /\ \A m \in Entries(ca) : ca[m] >= cb[m]
        /\ \E m \in Entries(ca) : ca[m] > cb[m]

\* VersionedValue::dominates.  The first loop, over the entries of b, fails on
\* a smaller entry of a and notes a larger one; the second notes the entries
\* that only a has.
Dominates(a, b) ==
    LET ca == a.vector_clock
        cb == b.vector_clock
    IN  /\ \A m \in Entries(cb) : ca[m] >= cb[m]
        /\ \/ \E m \in Entries(cb) : ca[m] > cb[m]
           \/ \E m \in Entries(ca) : m \notin Entries(cb)

\* Seeded fault: the wall clock alone decides.
SupersedesByTime(a, b) == a.timestamp > b.timestamp

\* The condition under which an incoming version replaces the existing one,
\* and under which the comparator of get_value's max_by says Greater.
Supersedes(a, b) ==
    \/ Dominates(a, b)
    \/ ~Dominates(b, a) /\ a.timestamp > b.timestamp

\* Seeded faults: the last arrival wins; an existing record always stays.
MergeLastArrival(existing, incoming) == incoming
MergeFirstArrival(existing, incoming) ==
    IF existing = None THEN incoming ELSE existing

\* The entry of put_value_internal: and_modify(..).or_insert_with(..).
Merge(existing, incoming) ==
    IF existing = None \/ Supersedes(incoming, existing)
    THEN incoming
    ELSE existing

\* Seeded fault: the first answer is returned.
LatestFirst(s) == Head(s)

\* One step of Iterator::max_by: the accumulated version stays only when it
\* compares Greater.
Later(acc, v) == IF Supersedes(acc, v) THEN acc ELSE v

\* max_by over the versions in the order in which get_value lists them.
Latest(s) == FoldLeft(Later, Head(s), Tail(s))

\* The versions max_by can return for the answers of a set of nodes: the ring
\* order in which they are listed depends on hashes of addresses and key.
\* Without any answer get_value has returned before.
LatestOf(answers, nodes) ==
    {Latest([i \in DOMAIN order |-> answers[order[i]]]) :
        order \in SetToSeqs(nodes) \ {<<>>}}

\* Seeded fault: only missing records are repaired.
NeedsRepairIfMissing(answer, latest) == answer = None

\* get_value's needs_repair for one answer.
NeedsRepair(answer, latest) ==
    \/ answer = None
    \/ ~Dominates(answer, latest) /\ answer.timestamp < latest.timestamp

=============================================================================
