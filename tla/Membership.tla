----------------------------- MODULE Membership -----------------------------
(***************************************************************************)
(* Cluster membership: the background task and the handlers of             *)
(* src/network/broadcaster.rs, join_cluster of src/storage/engine.rs and   *)
(* the joining part of main.  A node keeps a map from addresses to a       *)
(* status and the time of the last heartbeat; it probes the nodes of the   *)
(* map, directly and through helpers, and gossips the map, whose entries   *)
(* are merged by the time of the last heartbeat.                           *)
(*                                                                         *)
(* The rounds of membership_sync are cut where they await: a probe, the    *)
(* recording of its outcome, and the gossip at the end.  Between a probe   *)
(* and its recording other nodes' gossip may arrive.                       *)
(***************************************************************************)
EXTENDS Integers, FiniteSets

CONSTANTS
    Node,              \* addresses
    Contact,           \* Contact[n]: the node that n is told to join, or None
    None,
    Fanout,            \* targets of a round of probes or of gossip (3)
    HelperFanout,      \* nodes asked to probe on one's behalf (2)
    Threshold,         \* timeout_threshold: five intervals
    MAX_CLUSTER_SIZE,  \* entries that gossip may bring the map to (100)
    Word,              \* what a u128 wraps at
    Skew,              \* Skew[n]: what n's clock reads ahead of real time
    Cut,               \* the pairs of nodes whose traffic is blocked
    SecretSet,         \* whether CLUSTER_SECRET is in the environment
    Permits,           \* whether a replication permit may be free, may be taken
    MaxTime,           \* how far real time goes (a bound)
    MaxOutages,        \* how often a node crashes or is paused (a bound)
    MaxLosses,         \* how many probes and messages are lost (a bound)
    MaxUpdates         \* updates a node has under way at once (a bound)

VARIABLES
    phase,    \* phase[n]: where the process of n is
    paused,   \* the processes that are stopped (SIGSTOP) and keep their state
    nodes,    \* nodes[n]: ClusterData.nodes of n
    reply,    \* reply[n]: the answer to n's join request, or None
    todo,     \* todo[n]: the nodes left to check in this round
    probe,    \* probe[n]: the outcome of a probe still to be recorded, or None
    owed,     \* owed[n]: the delayed gossip tasks that joins have left at n
    updates,  \* update_membership requests under way
    now,      \* real time
    outages,  \* ghost: the crashes and pauses so far
    losses,   \* ghost: the probes and messages lost so far
    heard     \* ghost: heard[n][m], when n last recorded an answer of m

vars == <<phase, paused, nodes, reply, todo, probe, owed, updates, now,
          outages, losses, heard>>

NodeStatus == {"Active", "Suspect", "Down"}

NodeInfo == [status : NodeStatus, last_heartbeat : Nat]

\* HashMap<String, NodeInfo>; None stands for a missing key.
NodeMap == [Node -> NodeInfo \cup {None}]

Phases == {"off", "joining", "sleep", "check"}

Update == [from : Node, to : Node, map : NodeMap]

Probe == [target : Node, success : BOOLEAN]

ASSUME MembershipAssumption ==
    /\ IsFiniteSet(Node)
    /\ Contact \in [Node -> Node \cup {None}]
    /\ None \notin Node
    /\ None \notin NodeMap
    /\ None \notin NodeInfo
    /\ None \notin Probe
    /\ Fanout \in Nat \ {0}
    /\ HelperFanout \in Nat
    /\ Threshold \in Nat
    /\ MAX_CLUSTER_SIZE \in Nat
    /\ Word \in Nat
    /\ Skew \in [Node -> Nat]
    /\ Cut \subseteq SUBSET Node
    /\ SecretSet \in BOOLEAN
    /\ Permits \subseteq BOOLEAN /\ Permits # {}
    /\ {MaxTime, MaxOutages, MaxLosses, MaxUpdates} \subseteq Nat

-----------------------------------------------------------------------------
(* Helpers.                                                                *)

NoNodes == [m \in Node |-> None]

\* The keys of a map.
Keys(map) == {m \in Node : map[m] # None}

\* The processes that take steps, and those that answer requests: main binds
\* the server only after it has joined.
Running(n) == phase[n] # "off" /\ n \notin paused
Serving(n) == Running(n) /\ phase[n] # "joining"

\* b answers a request of a.
Answers(a, b) == Serving(b) /\ {a, b} \notin Cut

\* current_timestamp() at node n.
current_timestamp(n) == now + Skew[n]

\* NodeInfo of a node just heard of.
Alive(n) == [status |-> "Active", last_heartbeat |-> current_timestamp(n)]

Others(n, statuses) ==
    {m \in Keys(nodes[n]) \ {n} : nodes[n][m].status \in statuses}

\* shuffle(..).take(k)
Pick(S, k) ==
    LET size == Cardinality(S)
    IN  {T \in SUBSET S : Cardinality(T) = IF size < k THEN size ELSE k}

-----------------------------------------------------------------------------
(* Starting and joining.                                                   *)

\* main up to the join request.
Start(n) ==
    /\ phase[n] = "off"
    /\ phase' = [phase EXCEPT ![n] = IF Contact[n] = None THEN "sleep" ELSE "joining"]
    /\ nodes' = [nodes EXCEPT ![n] = [NoNodes EXCEPT ![n] = Alive(n)]]
    /\ UNCHANGED <<paused, reply, todo, probe, owed, updates, now, outages,
                   losses, heard>>

\* join_cluster at the contact.  main sends "" and join_cluster expects
\* "default_secret" when CLUSTER_SECRET is not set.  A node that is listed
\* keeps its entry.  The gossip task is skipped when no permit is free.
Join(n) ==
    LET c == Contact[n]
    IN  /\ Running(n)
        /\ phase[n] = "joining"
        /\ c # None
        /\ reply[n] = None
        /\ Answers(n, c)
        /\ SecretSet
        /\ nodes' = [nodes EXCEPT ![c][n] = IF @ = None THEN Alive(c) ELSE @]
        /\ \E free \in Permits :
              owed' = IF free /\ nodes[c][n] = None
                      THEN [owed EXCEPT ![c] = @ + 1]
                      ELSE owed
        /\ reply' = [reply EXCEPT ![n] = nodes'[c]]
        /\ UNCHANGED <<phase, paused, todo, probe, updates, now, outages,
                       losses, heard>>

\* main from the answer on: the entries of the answer replace its own.
Joined(n) ==
    /\ Running(n)
    /\ phase[n] = "joining"
    /\ reply[n] # None
    /\ nodes' = [nodes EXCEPT ![n] =
          [m \in Node |-> IF reply[n][m] = None THEN @[m] ELSE reply[n][m]]]
    /\ reply' = [reply EXCEPT ![n] = None]
    /\ phase' = [phase EXCEPT ![n] = "sleep"]
    /\ UNCHANGED <<paused, todo, probe, owed, updates, now, outages, losses,
                   heard>>

\* The client that main joins with has no timeout: a request to a contact that
\* is stopped is neither answered nor refused.
Hangs(n, c) ==
    c \in paused /\ phase[c] \in {"sleep", "check"} /\ {n, c} \notin Cut

\* The contact cannot be reached or refuses, or the request or its answer is
\* lost: main carries on alone.
JoinFailed(n) ==
    LET c       == Contact[n]
        refused == /\ reply[n] = None
                   /\ ~Answers(n, c) \/ ~SecretSet
                   /\ ~Hangs(n, c)
    IN  /\ Running(n)
        /\ phase[n] = "joining"
        /\ losses' = losses + IF refused THEN 0 ELSE 1
        /\ losses' <= MaxLosses
        /\ reply' = [reply EXCEPT ![n] = None]
        /\ phase' = [phase EXCEPT ![n] = "sleep"]
        /\ UNCHANGED <<paused, nodes, todo, probe, owed, updates, now, outages,
                       heard>>

-----------------------------------------------------------------------------
(* A round of membership_sync.                                             *)

\* Seeded fault: a node checks itself, too.
CandidatesWithSelf(n) == Keys(nodes[n])

\* Seeded fault: nodes that are Down are not checked any more.
CandidatesNotDown(n) == Others(n, {"Active", "Suspect"})

\* The nodes that check_node_health may select.
Candidates(n) == Others(n, {"Active", "Suspect", "Down"})

\* The sleep ends and check_node_health selects the nodes to check.
BeginRound(n, targets) ==
    /\ Running(n)
    /\ phase[n] = "sleep"
    /\ targets \in Pick(Candidates(n), Fanout)
    /\ todo' = [todo EXCEPT ![n] = targets]
    /\ phase' = [phase EXCEPT ![n] = "check"]
    /\ UNCHANGED <<paused, nodes, reply, probe, owed, updates, now, outages,
                   losses, heard>>

\* The sets of Active nodes that may be asked to ping t.
Helpers(n, t) == Pick(Others(n, {"Active"}) \ {t}, HelperFanout)

\* check_node_health for one target, up to the outcome: a direct ping and, if
\* it fails, pings through helpers (indirect_ping).  n in lost stands for the
\* direct ping getting lost, a helper in lost for the ping through it.
CheckNode(n, t) ==
    /\ Running(n)
    /\ phase[n] = "check"
    /\ probe[n] = None
    /\ t \in todo[n]
    /\ \E helpers \in Helpers(n, t) : \E lost \in SUBSET (helpers \cup {n}) :
          LET direct   == n \notin lost /\ Answers(n, t)
              indirect == \E h \in helpers \ lost : Answers(n, h) /\ Answers(h, t)
          IN  /\ losses + Cardinality(lost) <= MaxLosses
              /\ losses' = losses + Cardinality(lost)
              /\ probe' = [probe EXCEPT ![n] =
                    [target |-> t, success |-> direct \/ indirect]]
    /\ todo' = [todo EXCEPT ![n] = @ \ {t}]
    /\ UNCHANGED <<phase, paused, nodes, reply, owed, updates, now, outages,
                   heard>>

\* u128 subtraction in a release build.
Elapsed(t, s) == IF t >= s THEN t - s ELSE Word + t - s

\* Seeded fault: the first failure takes the node Down.
update_node_status_at_once(n, info) ==
    [info EXCEPT !.status = IF @ = "Active" THEN "Down" ELSE @]

\* update_node_status
update_node_status(n, info) ==
    CASE info.status = "Active" -> [info EXCEPT !.status = "Suspect"]
      [] /\ info.status = "Suspect"
         /\ Elapsed(current_timestamp(n), info.last_heartbeat) > Threshold
             -> [info EXCEPT !.status = "Down"]
      [] OTHER -> info

\* check_node_health records the outcome of a check.
Record(n) ==
    /\ Running(n)
    /\ probe[n] # None
    /\ LET m == probe[n].target
       IN  IF nodes[n][m] = None THEN UNCHANGED <<nodes, heard>>
           ELSE IF probe[n].success
           THEN /\ nodes' = [nodes EXCEPT ![n][m] = Alive(n)]
                /\ heard' = [heard EXCEPT ![n][m] = now]
           ELSE /\ nodes' = [nodes EXCEPT ![n][m] = update_node_status(n, @)]
                /\ UNCHANGED heard
    /\ probe' = [probe EXCEPT ![n] = None]
    /\ UNCHANGED <<phase, paused, reply, todo, owed, updates, now, outages,
                   losses>>

\* gossip_membership: a snapshot of the map to some Active nodes.
gossip_membership(n, targets) ==
    /\ targets \in Pick(Others(n, {"Active"}), Fanout)
    /\ Cardinality({u \in updates : u.from = n}) + Cardinality(targets)
          <= MaxUpdates
    /\ updates' = updates \cup
          {[from |-> n, to |-> m, map |-> nodes[n]] : m \in targets}

\* The end of a round, when all its nodes have been checked.
Gossip(n, targets) ==
    /\ Running(n)
    /\ phase[n] = "check"
    /\ todo[n] = {}
    /\ probe[n] = None
    /\ gossip_membership(n, targets)
    /\ phase' = [phase EXCEPT ![n] = "sleep"]
    /\ UNCHANGED <<paused, nodes, reply, todo, probe, owed, now, outages,
                   losses, heard>>

\* The task that join_cluster spawned, after its sleep.
JoinGossip(n) ==
    /\ Running(n)
    /\ owed[n] > 0
    /\ \E targets \in SUBSET Node : gossip_membership(n, targets)
    /\ owed' = [owed EXCEPT ![n] = @ - 1]
    /\ UNCHANGED <<phase, paused, nodes, reply, todo, probe, now, outages,
                   losses, heard>>

-----------------------------------------------------------------------------
(* Updates.                                                                *)

\* Seeded fault: whatever arrives replaces the entry.
NewerAlways(info, existing) == TRUE

\* An incoming entry replaces the one for the same node.
Newer(info, existing) == info.last_heartbeat > existing.last_heartbeat

\* Seeded fault: update_membership takes no unknown nodes.
MergedKnownOnly(local, incoming, added) ==
    [m \in Node |->
        IF m \in Keys(local) \cap Keys(incoming) /\ Newer(incoming[m], local[m])
        THEN incoming[m]
        ELSE local[m]]

\* The map `local` after update_membership has gone through `incoming` and
\* inserted the new nodes `added`.
Merged(local, incoming, added) ==
    [m \in Node |->
        IF \/ m \in added
           \/ m \in Keys(local) \cap Keys(incoming) /\ Newer(incoming[m], local[m])
        THEN incoming[m]
        ELSE local[m]]

\* update_membership.  Unknown nodes are taken, in the order of the incoming
\* HashMap, while there is room.
Receive(u) ==
    LET unknown == Keys(u.map) \ Keys(nodes[u.to])
        size    == Cardinality(Keys(nodes[u.to]))
        room    == IF size < MAX_CLUSTER_SIZE THEN MAX_CLUSTER_SIZE - size ELSE 0
    IN  /\ Answers(u.from, u.to)
        /\ \E added \in Pick(unknown, room) :
              nodes' = [nodes EXCEPT ![u.to] = Merged(@, u.map, added)]
        /\ updates' = updates \ {u}
        /\ UNCHANGED <<phase, paused, reply, todo, probe, owed, now, outages,
                       losses, heard>>

\* The receiver cannot be reached, or the network loses the request.
Lose(u) ==
    /\ losses' = losses + IF Answers(u.from, u.to) THEN 1 ELSE 0
    /\ losses' <= MaxLosses
    /\ updates' = updates \ {u}
    /\ UNCHANGED <<phase, paused, nodes, reply, todo, probe, owed, now,
                   outages, heard>>

-----------------------------------------------------------------------------
(* The environment.                                                        *)

Tick ==
    /\ now < MaxTime
    /\ now' = now + 1
    /\ UNCHANGED <<phase, paused, nodes, reply, todo, probe, owed, updates,
                   outages, losses, heard>>

\* The process dies; the map is not persisted.
Crash(n) ==
    /\ phase[n] # "off"
    /\ outages < MaxOutages
    /\ outages' = outages + 1
    /\ phase' = [phase EXCEPT ![n] = "off"]
    /\ paused' = paused \ {n}
    /\ nodes' = [nodes EXCEPT ![n] = NoNodes]
    /\ reply' = [reply EXCEPT ![n] = None]
    /\ todo' = [todo EXCEPT ![n] = {}]
    /\ probe' = [probe EXCEPT ![n] = None]
    /\ owed' = [owed EXCEPT ![n] = 0]
    /\ heard' = [heard EXCEPT ![n] = [m \in Node |-> 0]]
    /\ UNCHANGED <<updates, now, losses>>

\* The process is stopped, and resumed with the state it had.
Pause(n) ==
    /\ Running(n)
    /\ outages < MaxOutages
    /\ outages' = outages + 1
    /\ paused' = paused \cup {n}
    /\ UNCHANGED <<phase, nodes, reply, todo, probe, owed, updates, now,
                   losses, heard>>

Resume(n) ==
    /\ n \in paused
    /\ paused' = paused \ {n}
    /\ UNCHANGED <<phase, nodes, reply, todo, probe, owed, updates, now,
                   outages, losses, heard>>

-----------------------------------------------------------------------------

Init ==
    /\ phase = [n \in Node |-> "off"]
    /\ paused = {}
    /\ nodes = [n \in Node |-> NoNodes]
    /\ reply = [n \in Node |-> None]
    /\ todo = [n \in Node |-> {}]
    /\ probe = [n \in Node |-> None]
    /\ owed = [n \in Node |-> 0]
    /\ updates = {}
    /\ now = 0
    /\ outages = 0
    /\ losses = 0
    /\ heard = [n \in Node |-> [m \in Node |-> 0]]

JoinStep(n) == Join(n) \/ Joined(n) \/ JoinFailed(n)

RoundStep(n) ==
    \/ \E targets \in SUBSET Node : BeginRound(n, targets) \/ Gossip(n, targets)
    \/ \E t \in Node : CheckNode(n, t)
    \/ Record(n)

NodeStep(n) == Start(n) \/ JoinStep(n) \/ RoundStep(n) \/ JoinGossip(n)

Outage(n) == Crash(n) \/ Pause(n) \/ Resume(n)

Next ==
    \/ \E n \in Node : NodeStep(n) \/ Outage(n)
    \/ \E u \in updates : Receive(u) \/ Lose(u)
    \/ Tick

Spec == Init /\ [][Next]_vars

\* The runtime keeps scheduling the tasks it has started, and a request is
\* handled or fails.  The targets of a round are drawn at random, so that a
\* node that is eligible over and over is drawn.  Nothing makes an operator
\* start or resume a process, and a join that hangs may hang for ever.
Fairness ==
    /\ \A n \in Node : /\ WF_vars(JoinStep(n))
                       /\ WF_vars(RoundStep(n))
                       /\ WF_vars(JoinGossip(n))
    /\ \A n, m \in Node :
          WF_vars(\E u \in updates : u.from = n /\ u.to = m
                                        /\ (Receive(u) \/ Lose(u)))

FairSpec == Spec /\ Fairness

-----------------------------------------------------------------------------
(* Properties.                                                             *)

TypeOK ==
    /\ phase \in [Node -> Phases]
    /\ paused \subseteq Node
    /\ nodes \in [Node -> NodeMap]
    /\ reply \in [Node -> NodeMap \cup {None}]
    /\ todo \in [Node -> SUBSET Node]
    /\ \A n \in Node : n \notin todo[n]
    /\ probe \in [Node -> Probe \cup {None}]
    /\ owed \in [Node -> Nat]
    /\ updates \subseteq Update
    /\ now \in Nat
    /\ outages \in Nat
    /\ losses \in Nat
    /\ heard \in [Node -> [Node -> Nat]]

\* A node that lists another as Down has had no answer from it for longer than
\* the threshold.  The entry that says Down may have come by gossip, from a
\* node with an older view, or have waited in a paused process.
DownSilent ==
    \A n \in Node : \A m \in Keys(nodes[n]) \ {n} :
        nodes[n][m].status = "Down" => heard[n][m] + Threshold < now

\* No time is recorded that is still to come, and whatever says Down has
\* outlasted the threshold.
Sound(map, t) ==
    \A m \in Keys(map) :
        /\ map[m].last_heartbeat <= t
        /\ map[m].status = "Down" => map[m].last_heartbeat + Threshold < t

\* Maps that are held, answered or gossiped are sound.
MapsSound ==
    /\ \A n \in Node : Sound(nodes[n], now)
    /\ \A n \in Node : reply[n] # None => Sound(reply[n], now)
    /\ \A u \in updates : Sound(u.map, now)

\* No exchange of maps takes an entry back behind the node's own last answer.
EvidenceKept ==
    \A n, m \in Node :
        IF nodes[n][m] = None
        THEN heard[n][m] = 0
        ELSE heard[n][m] <= nodes[n][m].last_heartbeat

\* A node that starts has no answers on record and checks nothing.
FreshStart ==
    /\ \A n \in Node : phase[n] \in {"off", "joining"} =>
          \A m \in Node : heard[n][m] = 0
    /\ \A n \in Node : phase[n] # "check" => probe[n] = None

\* DownSilent made inductive.
EvidenceInv == MapsSound /\ EvidenceKept /\ FreshStart

\* The machines' clocks agree.
Synchronised == \A n \in Node : Skew[n] = 0

\* Failure detection: in the end every node lists as Active, of the nodes it
\* knows, exactly those that serve.
EventuallyDetected ==
    <>[](\A n \in Node : Serving(n) =>
            \A m \in Keys(nodes[n]) \ {n} :
                nodes[n][m].status = "Active" <=> Serving(m))

\* In the end nodes that serve know of each other, if one knows of the other.
EventuallyMutual ==
    <>[](\A n, m \in Node :
            (Serving(n) /\ Serving(m) /\ m \in Keys(nodes[n]))
                => n \in Keys(nodes[m]))

=============================================================================
