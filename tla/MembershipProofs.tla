-------------------------- MODULE MembershipProofs --------------------------
(***************************************************************************)
(* Membership for any number of nodes, any fan-out, any threshold and any  *)
(* faults: the state is well typed, and, when clocks agree, a node is      *)
(* listed as Down only after a silence longer than the threshold.          *)
(***************************************************************************)
EXTENDS Membership, FiniteSetTheorems, TLAPS

-----------------------------------------------------------------------------
(* Type correctness.                                                       *)

\* What a node heard of just now is recorded as.
LEMMA AliveType ==
    ASSUME NEW n \in Node, now \in Nat
    PROVE  /\ Alive(n) \in NodeInfo
           /\ Alive(n).status = "Active"
           /\ Alive(n).last_heartbeat = now + Skew[n]
BY MembershipAssumption DEF Alive, current_timestamp, NodeInfo, NodeStatus

\* What a failed check makes of an entry: the heartbeat stays.
LEMMA StatusType ==
    ASSUME NEW n \in Node, NEW info \in NodeInfo
    PROVE  /\ update_node_status(n, info) \in NodeInfo
           /\ update_node_status(n, info).last_heartbeat = info.last_heartbeat
           /\ update_node_status(n, info).status = "Down" =>
                 \/ info.status = "Down"
                 \/ Elapsed(current_timestamp(n), info.last_heartbeat) > Threshold
BY DEF update_node_status, NodeInfo, NodeStatus

\* What update_membership makes of a map.
LEMMA MergedType ==
    ASSUME NEW local \in NodeMap, NEW incoming \in NodeMap,
           NEW added \in SUBSET Node
    PROVE  Merged(local, incoming, added) \in NodeMap
BY DEF Merged, NodeMap

LEMMA TypeInit == Init => TypeOK
BY DEF Init, TypeOK, NodeMap, NoNodes, Phases

LEMMA TypeNext ==
    ASSUME TypeOK, [Next]_vars
    PROVE  TypeOK'
<1> USE DEF TypeOK
<1> USE MembershipAssumption
<1>1. ASSUME NEW n \in Node, Start(n) PROVE TypeOK'
  <2>1. [NoNodes EXCEPT ![n] = Alive(n)] \in NodeMap
    BY AliveType DEF NoNodes, NodeMap
  <2> QED BY <1>1, <2>1 DEF Start, Phases
<1>2. ASSUME NEW n \in Node, Join(n) PROVE TypeOK'
  <2> DEFINE c == Contact[n]
  <2>1. c \in Node
    BY <1>2 DEF Join
  <2>2. nodes[c] \in NodeMap /\ Alive(c) \in NodeInfo
    BY <2>1, AliveType
  <2>3. nodes' \in [Node -> NodeMap]
    BY <1>2, <2>1, <2>2 DEF Join, NodeMap
  <2>4. owed' \in [Node -> Nat]
    BY <1>2, <2>1 DEF Join
  <2>5. reply' \in [Node -> NodeMap \cup {None}]
    BY <1>2, <2>1, <2>3 DEF Join
  <2> QED BY <1>2, <2>3, <2>4, <2>5 DEF Join
<1>3. ASSUME NEW n \in Node, Joined(n) PROVE TypeOK'
  <2>1. nodes[n] \in NodeMap /\ reply[n] \in NodeMap
    BY <1>3 DEF Joined
  <2>2. [m \in Node |-> IF reply[n][m] = None THEN nodes[n][m] ELSE reply[n][m]]
           \in NodeMap
    BY <2>1 DEF NodeMap
  <2> QED BY <1>3, <2>2 DEF Joined, Phases
<1>4. ASSUME NEW n \in Node, JoinFailed(n) PROVE TypeOK'
  BY <1>4 DEF JoinFailed, Phases
<1>5. ASSUME NEW n \in Node, NEW S \in SUBSET Node, BeginRound(n, S)
      PROVE  TypeOK'
  <2>1. n \notin S
    BY <1>5 DEF BeginRound, Candidates, Others, Pick
  <2> QED BY <1>5, <2>1 DEF BeginRound, Phases
<1>6. ASSUME NEW n \in Node, NEW t \in Node, CheckNode(n, t) PROVE TypeOK'
  <2> DEFINE Outcome(helpers, lost) ==
               \/ n \notin lost /\ Answers(n, t)
               \/ \E h \in helpers \ lost : Answers(n, h) /\ Answers(h, t)
  <2>1. PICK helpers \in Helpers(n, t) : \E lost \in SUBSET (helpers \cup {n}) :
              /\ losses' = losses + Cardinality(lost)
              /\ probe' = [probe EXCEPT ![n] =
                    [target |-> t, success |-> Outcome(helpers, lost)]]
    BY <1>6 DEF CheckNode
  <2>2. helpers \subseteq Node
    BY DEF Helpers, Pick, Others, Keys
  <2>3. PICK lost \in SUBSET (helpers \cup {n}) :
              /\ losses' = losses + Cardinality(lost)
              /\ probe' = [probe EXCEPT ![n] =
                    [target |-> t, success |-> Outcome(helpers, lost)]]
    BY <2>1
  <2>4. Cardinality(lost) \in Nat
    BY <2>2, FS_Subset, FS_CardinalityType
  <2>5. losses' \in Nat
    BY <2>3, <2>4
  <2>6. [target |-> t, success |-> Outcome(helpers, lost)] \in Probe
    <3>1. Outcome(helpers, lost) \in BOOLEAN
      BY DEF Answers, Serving, Running
    <3> HIDE DEF Outcome
    <3> QED BY <3>1 DEF Probe
  <2>7. probe' \in [Node -> Probe \cup {None}]
    <3> HIDE DEF Outcome
    <3> QED BY <2>3, <2>6
  <2> QED BY <1>6, <2>5, <2>7 DEF CheckNode
<1>7. ASSUME NEW n \in Node, Record(n) PROVE TypeOK'
  <2> DEFINE m == probe[n].target
  <2>1. probe[n] \in Probe /\ m \in Node
    BY <1>7 DEF Record, Probe
  <2>2. nodes[n] \in NodeMap /\ Alive(n) \in NodeInfo
    BY AliveType
  <2>3. nodes[n][m] # None => update_node_status(n, nodes[n][m]) \in NodeInfo
    BY <2>1, <2>2, StatusType DEF NodeMap
  <2>4. /\ nodes' \in [Node -> NodeMap]
        /\ heard' \in [Node -> [Node -> Nat]]
    <3>1. CASE nodes[n][m] = None
      BY <1>7, <3>1 DEF Record
    <3>2. CASE nodes[n][m] # None /\ probe[n].success
      <4>1. /\ nodes' = [nodes EXCEPT ![n][m] = Alive(n)]
            /\ heard' = [heard EXCEPT ![n][m] = now]
        BY <1>7, <3>2, Zenon DEF Record
      <4>2. [nodes[n] EXCEPT ![m] = Alive(n)] \in NodeMap
        BY <2>1, <2>2 DEF NodeMap
      <4>3. [heard[n] EXCEPT ![m] = now] \in [Node -> Nat]
        BY <2>1
      <4> QED BY <4>1, <4>2, <4>3
    <3>3. CASE nodes[n][m] # None /\ ~probe[n].success
      <4>1. /\ nodes' = [nodes EXCEPT ![n][m] = update_node_status(n, @)]
            /\ heard' = heard
        BY <1>7, <3>3, Zenon DEF Record
      <4>2. [nodes[n] EXCEPT ![m] = update_node_status(n, @)] \in NodeMap
        BY <2>1, <2>2, <2>3, <3>3 DEF NodeMap
      <4> QED BY <4>1, <4>2
    <3> QED BY <3>1, <3>2, <3>3
  <2> QED BY <1>7, <2>4 DEF Record
<1>8. ASSUME NEW n \in Node, NEW S \in SUBSET Node, gossip_membership(n, S)
      PROVE  updates' \subseteq Update
  BY <1>8 DEF gossip_membership, Update
<1>9. ASSUME NEW n \in Node, NEW S \in SUBSET Node, Gossip(n, S) PROVE TypeOK'
  BY <1>8, <1>9 DEF Gossip, Phases
<1>10. ASSUME NEW n \in Node, JoinGossip(n) PROVE TypeOK'
  BY <1>8, <1>10 DEF JoinGossip
<1>11. ASSUME NEW u \in updates, Receive(u) PROVE TypeOK'
  <2>1. u.to \in Node /\ u.map \in NodeMap /\ nodes[u.to] \in NodeMap
    BY DEF Update
  <2>2. PICK added \in SUBSET Node :
           nodes' = [nodes EXCEPT ![u.to] = Merged(@, u.map, added)]
    BY <1>11 DEF Receive, Pick, Keys
  <2>3. nodes' \in [Node -> NodeMap]
    BY <2>1, <2>2, MergedType
  <2> QED BY <1>11, <2>3 DEF Receive
<1>12. ASSUME NEW u \in updates, Lose(u) PROVE TypeOK'
  BY <1>12 DEF Lose
<1>13. ASSUME Tick PROVE TypeOK'
  BY <1>13 DEF Tick
<1>14. ASSUME NEW n \in Node, Crash(n) PROVE TypeOK'
  BY <1>14 DEF Crash, Phases, NoNodes, NodeMap
<1>15. ASSUME NEW n \in Node, Pause(n) \/ Resume(n) PROVE TypeOK'
  BY <1>15 DEF Pause, Resume
<1>16. CASE UNCHANGED vars
  BY <1>16 DEF vars
<1> QED
  BY <1>1, <1>2, <1>3, <1>4, <1>5, <1>6, <1>7, <1>9, <1>10, <1>11, <1>12,
     <1>13, <1>14, <1>15, <1>16
     DEF Next, NodeStep, JoinStep, RoundStep, Outage

\* The state is well typed: a check, a join or a merge never leaves a map with
\* an entry that is neither absent nor a NodeInfo.
THEOREM TypeCorrect == Spec => []TypeOK
BY TypeInit, TypeNext, PTL DEF Spec

-----------------------------------------------------------------------------
(* Down after silence.                                                     *)

\* Sound maps stay sound as time passes.
LEMMA SoundLater ==
    ASSUME NEW map \in NodeMap, NEW t \in Nat, NEW s \in Nat, t <= s,
           Sound(map, t)
    PROVE  Sound(map, s)
BY MembershipAssumption DEF Sound, Keys, NodeMap, NodeInfo

\* A map in which every entry is one of two sound maps' is sound.
LEMMA SoundMix ==
    ASSUME NEW a \in NodeMap, NEW b \in NodeMap, NEW t \in Nat,
           Sound(a, t), Sound(b, t),
           NEW c \in NodeMap, \A m \in Node : c[m] \in {a[m], b[m]}
    PROVE  Sound(c, t)
BY DEF Sound, Keys

\* An entry heard of just now is sound, when clocks agree.
LEMMA SoundAlive ==
    ASSUME Synchronised, now \in Nat, NEW n \in Node, NEW m \in Node,
           NEW map \in NodeMap, Sound(map, now)
    PROVE  Sound([map EXCEPT ![m] = Alive(n)], now)
<1>1. Alive(n).status = "Active" /\ Alive(n).last_heartbeat = now
  BY AliveType DEF Synchronised
<1> QED BY <1>1 DEF Sound, Keys, NodeMap

LEMMA EvidenceInit == Init => EvidenceInv
BY MembershipAssumption
   DEF Init, EvidenceInv, MapsSound, EvidenceKept, FreshStart, Sound, Keys, NoNodes

\* Steps that leave the maps, the answers and the clock alone.
LEMMA EvidenceFrame ==
    ASSUME EvidenceInv, UNCHANGED <<nodes, reply, updates, now, heard>>, FreshStart'
    PROVE  EvidenceInv'
BY DEF EvidenceInv, MapsSound, EvidenceKept

LEMMA EvidenceNext ==
    ASSUME Synchronised, TypeOK, TypeOK', EvidenceInv, [Next]_vars
    PROVE  EvidenceInv'
<1> USE MembershipAssumption
<1>0. /\ MapsSound /\ EvidenceKept /\ FreshStart
      /\ now \in Nat /\ now' \in Nat
      /\ nodes \in [Node -> NodeMap]
      /\ heard \in [Node -> [Node -> Nat]]
      /\ reply \in [Node -> NodeMap \cup {None}]
      /\ phase \in [Node -> Phases]
      /\ probe \in [Node -> Probe \cup {None}]
      /\ updates \subseteq Update
  BY DEF EvidenceInv, TypeOK
<1>1. ASSUME NEW n \in Node, Start(n) PROVE EvidenceInv'
  <2>1. Sound([NoNodes EXCEPT ![n] = Alive(n)], now)
    <3>1. NoNodes \in NodeMap /\ Sound(NoNodes, now)
      BY DEF NoNodes, NodeMap, Sound, Keys
    <3> QED BY <1>0, <3>1, SoundAlive
  <2>2. MapsSound'
    BY <1>0, <1>1, <2>1 DEF Start, MapsSound
  <2>3. EvidenceKept'
    <3>1. Alive(n) # None /\ Alive(n).last_heartbeat \in Nat
      BY <1>0, AliveType DEF NodeInfo
    <3>2. \A m \in Node : heard[n][m] = 0
      BY <1>0, <1>1 DEF Start, FreshStart
    <3> QED BY <1>0, <1>1, <3>1, <3>2 DEF Start, EvidenceKept, NoNodes
  <2>4. FreshStart'
    BY <1>0, <1>1 DEF Start, FreshStart
  <2> QED BY <2>2, <2>3, <2>4 DEF EvidenceInv
<1>2. ASSUME NEW n \in Node, Join(n) PROVE EvidenceInv'
  <2> DEFINE c == Contact[n]
             map == [nodes[c] EXCEPT ![n] = IF @ = None THEN Alive(c) ELSE @]
  <2>1. c \in Node
    BY <1>2 DEF Join
  <2>2. map \in NodeMap /\ Sound(map, now)
    <3>1. CASE nodes[c][n] = None
      <4>1. map = [nodes[c] EXCEPT ![n] = Alive(c)]
        BY <3>1
      <4>2. [nodes[c] EXCEPT ![n] = Alive(c)] \in NodeMap
        BY <1>0, <2>1, AliveType DEF NodeMap
      <4> QED BY <1>0, <2>1, <4>1, <4>2, SoundAlive DEF MapsSound
    <3>2. CASE nodes[c][n] # None
      <4>1. map = nodes[c]
        BY <1>0, <2>1, <3>2 DEF NodeMap
      <4> QED BY <1>0, <2>1, <4>1 DEF MapsSound
    <3> QED BY <3>1, <3>2
  <2>3. nodes' = [nodes EXCEPT ![c] = map] /\ reply' = [reply EXCEPT ![n] = map]
    BY <1>0, <1>2, <2>1 DEF Join
  <2>4. MapsSound'
    <3>1. UNCHANGED <<now, updates>>
      BY <1>2 DEF Join
    <3> HIDE DEF map
    <3> QED BY <1>0, <2>1, <2>2, <2>3, <3>1 DEF MapsSound
  <2>5. EvidenceKept'
    <3>1. Alive(c) # None /\ Alive(c).last_heartbeat \in Nat
      BY <1>0, <2>1, AliveType DEF NodeInfo
    <3> QED BY <1>0, <1>2, <2>1, <2>3, <3>1 DEF Join, EvidenceKept, NodeMap
  <2>6. FreshStart'
    BY <1>0, <1>2 DEF Join, FreshStart
  <2> QED BY <2>4, <2>5, <2>6 DEF EvidenceInv
<1>3. ASSUME NEW n \in Node, Joined(n) PROVE EvidenceInv'
  <2> DEFINE map == [m \in Node |-> IF reply[n][m] = None
                                     THEN nodes[n][m] ELSE reply[n][m]]
  <2>1. reply[n] \in NodeMap /\ nodes[n] \in NodeMap /\ map \in NodeMap
    BY <1>0, <1>3 DEF Joined, NodeMap
  <2>2. nodes' = [nodes EXCEPT ![n] = map]
    BY <1>3 DEF Joined
  <2>3. Sound(map, now)
    BY <1>0, <1>3, <2>1, SoundMix DEF Joined, MapsSound
  <2>4. MapsSound'
    <3> HIDE DEF map
    <3> QED BY <1>0, <1>3, <2>2, <2>3 DEF Joined, MapsSound
  <2>5. EvidenceKept'
    <3>1. \A m \in Node : heard[n][m] = 0
      BY <1>0, <1>3 DEF Joined, FreshStart
    <3>2. \A m \in Node : map[m] # None => map[m].last_heartbeat \in Nat
      BY <2>1 DEF NodeMap, NodeInfo
    <3> HIDE DEF map
    <3> QED BY <1>0, <1>3, <2>2, <3>1, <3>2 DEF Joined, EvidenceKept
  <2>6. FreshStart'
    BY <1>0, <1>3 DEF Joined, FreshStart
  <2> QED BY <2>4, <2>5, <2>6 DEF EvidenceInv
<1>4. ASSUME NEW n \in Node, JoinFailed(n) PROVE EvidenceInv'
  <2>1. MapsSound'
    BY <1>0, <1>4 DEF JoinFailed, MapsSound
  <2>2. EvidenceKept'
    BY <1>0, <1>4 DEF JoinFailed, EvidenceKept
  <2>3. FreshStart'
    BY <1>0, <1>4 DEF JoinFailed, FreshStart
  <2> QED BY <2>1, <2>2, <2>3 DEF EvidenceInv
<1>5. ASSUME NEW n \in Node, NEW S \in SUBSET Node, BeginRound(n, S)
      PROVE  EvidenceInv'
  <2>1. FreshStart'
    BY <1>0, <1>5 DEF BeginRound, FreshStart
  <2> QED BY <1>5, <2>1, EvidenceFrame DEF BeginRound
<1>6. ASSUME NEW n \in Node, NEW t \in Node, CheckNode(n, t)
      PROVE  EvidenceInv'
  <2>1. /\ UNCHANGED <<phase, nodes, reply, updates, now, heard>>
        /\ phase[n] = "check"
        /\ \A k \in Node \ {n} : probe'[k] = probe[k]
    BY <1>0, <1>6 DEF CheckNode
  <2>2. FreshStart'
    BY <1>0, <2>1 DEF FreshStart
  <2> QED BY <2>1, <2>2, EvidenceFrame
<1>7. ASSUME NEW n \in Node, Record(n) PROVE EvidenceInv'
  <2> DEFINE m == probe[n].target
  <2>1. m \in Node /\ phase[n] = "check"
    BY <1>0, <1>7 DEF Record, Probe, FreshStart
  <2>2. FreshStart'
    <3>1. \A k \in Node \ {n} : heard'[k] = heard[k]
      BY <1>0, <1>7 DEF Record
    <3>2. UNCHANGED phase /\ probe' = [probe EXCEPT ![n] = None]
      BY <1>7 DEF Record
    <3> QED BY <1>0, <2>1, <3>1, <3>2 DEF FreshStart
  <2>3. nodes[n] \in NodeMap /\ Sound(nodes[n], now)
    BY <1>0 DEF MapsSound
  <2>4. CASE nodes[n][m] = None
    <3>1. UNCHANGED <<nodes, reply, updates, now, heard>>
      BY <1>7, <2>4, Zenon DEF Record
    <3> QED BY <2>2, <3>1, EvidenceFrame
  <2>5. CASE nodes[n][m] # None /\ probe[n].success
    <3>1. /\ nodes' = [nodes EXCEPT ![n][m] = Alive(n)]
          /\ heard' = [heard EXCEPT ![n][m] = now]
          /\ UNCHANGED <<reply, updates, now>>
      BY <1>7, <2>5, Zenon DEF Record
    <3>2. Sound([nodes[n] EXCEPT ![m] = Alive(n)], now)
      BY <1>0, <2>1, <2>3, SoundAlive
    <3>3. MapsSound'
      BY <1>0, <3>1, <3>2 DEF MapsSound
    <3>4. Alive(n) # None /\ Alive(n).last_heartbeat = now
      BY <1>0, AliveType DEF Synchronised
    <3>5. EvidenceKept'
      BY <1>0, <2>1, <3>1, <3>4 DEF EvidenceKept, NodeMap
    <3> QED BY <2>2, <3>3, <3>5 DEF EvidenceInv
  <2>6. CASE nodes[n][m] # None /\ ~probe[n].success
    <3> DEFINE old == nodes[n][m]
               upd == update_node_status(n, old)
    <3>1. /\ nodes' = [nodes EXCEPT ![n][m] = upd]
          /\ UNCHANGED <<reply, updates, now, heard>>
      BY <1>7, <2>6, Zenon DEF Record
    <3>2. old \in NodeInfo
      BY <2>1, <2>3, <2>6 DEF NodeMap
    <3>3. /\ upd \in NodeInfo
          /\ upd.last_heartbeat = old.last_heartbeat
          /\ upd.status = "Down" =>
                \/ old.status = "Down"
                \/ Elapsed(current_timestamp(n), old.last_heartbeat) > Threshold
      BY <3>2, StatusType
    <3>4. old.last_heartbeat \in Nat /\ old.last_heartbeat <= now
      BY <2>1, <2>3, <2>6, <3>2 DEF Sound, Keys, NodeInfo
    <3>5. upd.status = "Down" => old.last_heartbeat + Threshold < now
      <4>1. Elapsed(current_timestamp(n), old.last_heartbeat)
               = now - old.last_heartbeat
        BY <1>0, <3>4 DEF Elapsed, current_timestamp, Synchronised
      <4>2. old.status = "Down" => old.last_heartbeat + Threshold < now
        BY <2>1, <2>3, <2>6 DEF Sound, Keys
      <4> HIDE DEF upd
      <4> QED BY <1>0, <3>3, <3>4, <4>1, <4>2
    <3> HIDE DEF upd
    <3>6. Sound([nodes[n] EXCEPT ![m] = upd], now)
      BY <2>1, <2>3, <3>3, <3>4, <3>5 DEF Sound, Keys, NodeMap
    <3>7. MapsSound'
      BY <1>0, <3>1, <3>6 DEF MapsSound
    <3>8. EvidenceKept'
      BY <1>0, <2>1, <2>6, <3>1, <3>3 DEF EvidenceKept, NodeMap
    <3> QED BY <2>2, <3>7, <3>8 DEF EvidenceInv
  <2> QED BY <2>4, <2>5, <2>6
<1>8. ASSUME NEW n \in Node, NEW S \in SUBSET Node, gossip_membership(n, S),
             UNCHANGED <<nodes, reply, now, heard>>, FreshStart'
      PROVE  EvidenceInv'
  <2>1. MapsSound'
    BY <1>0, <1>8 DEF gossip_membership, MapsSound
  <2>2. EvidenceKept'
    BY <1>0, <1>8 DEF EvidenceKept
  <2> QED BY <1>8, <2>1, <2>2 DEF EvidenceInv
<1>9. ASSUME NEW n \in Node, NEW S \in SUBSET Node, Gossip(n, S)
      PROVE  EvidenceInv'
  <2>1. FreshStart'
    BY <1>0, <1>9 DEF Gossip, FreshStart
  <2> QED BY <1>8, <1>9, <2>1 DEF Gossip
<1>10. ASSUME NEW n \in Node, JoinGossip(n) PROVE EvidenceInv'
  <2>1. FreshStart'
    BY <1>0, <1>10 DEF JoinGossip, FreshStart
  <2> QED BY <1>8, <1>10, <2>1 DEF JoinGossip
<1>11. ASSUME NEW u \in updates, Receive(u) PROVE EvidenceInv'
  <2>1. u.to \in Node /\ u.map \in NodeMap
    BY <1>0 DEF Update
  <2>2. PICK added \in SUBSET Keys(u.map) :
           /\ added \cap Keys(nodes[u.to]) = {}
           /\ nodes' = [nodes EXCEPT ![u.to] = Merged(@, u.map, added)]
    BY <1>11 DEF Receive, Pick
  <2> DEFINE map == Merged(nodes[u.to], u.map, added)
  <2>3. nodes[u.to] \in NodeMap /\ added \in SUBSET Node
    BY <1>0, <2>1 DEF Keys
  <2>4. map \in NodeMap
    BY <2>1, <2>3, MergedType
  <2>5. \A m \in Node : map[m] \in {nodes[u.to][m], u.map[m]}
    BY DEF Merged
  <2>6. Sound(map, now)
    <3>1. Sound(nodes[u.to], now) /\ Sound(u.map, now)
      BY <1>0, <2>1 DEF MapsSound
    <3> HIDE DEF map
    <3> QED BY <1>0, <2>1, <2>3, <2>4, <2>5, <3>1, SoundMix
  <2>7. MapsSound'
    <3> HIDE DEF map
    <3>1. nodes' = [nodes EXCEPT ![u.to] = map]
      BY <2>2 DEF map
    <3> QED BY <1>0, <1>11, <2>6, <3>1 DEF Receive, MapsSound
  <2>8. \A m \in Node : IF map[m] = None
                        THEN heard[u.to][m] = 0
                        ELSE heard[u.to][m] <= map[m].last_heartbeat
    <3> SUFFICES ASSUME NEW m \in Node
                 PROVE  IF map[m] = None
                        THEN heard[u.to][m] = 0
                        ELSE heard[u.to][m] <= map[m].last_heartbeat
      OBVIOUS
    <3>1. /\ heard[u.to][m] \in Nat
          /\ nodes[u.to][m] \in NodeInfo \cup {None}
          /\ u.map[m] \in NodeInfo \cup {None}
      BY <1>0, <2>1 DEF NodeMap
    <3>2. CASE m \in added
      <4>1. heard[u.to][m] = 0
        BY <1>0, <2>1, <2>2, <3>2 DEF EvidenceKept, Keys
      <4>2. map[m] = u.map[m] /\ u.map[m] \in NodeInfo
        BY <2>2, <3>1, <3>2 DEF Merged, Keys
      <4> QED BY <4>1, <4>2 DEF NodeInfo
    <3>3. CASE m \notin added
      <4>1. \/ map[m] = nodes[u.to][m]
            \/ /\ map[m] = u.map[m] /\ u.map[m] # None
               /\ nodes[u.to][m] # None
               /\ u.map[m].last_heartbeat > nodes[u.to][m].last_heartbeat
        BY <3>3 DEF Merged, Newer, Keys
      <4> HIDE DEF map
      <4> QED BY <1>0, <2>1, <3>1, <4>1 DEF EvidenceKept, NodeInfo
    <3> QED BY <3>2, <3>3
  <2>9. EvidenceKept'
    <3> HIDE DEF map
    <3>1. nodes' = [nodes EXCEPT ![u.to] = map]
      BY <2>2 DEF map
    <3> QED BY <1>0, <1>11, <2>1, <2>8, <3>1 DEF Receive, EvidenceKept
  <2>10. FreshStart'
    BY <1>0, <1>11 DEF Receive, FreshStart
  <2> QED BY <2>7, <2>9, <2>10 DEF EvidenceInv
<1>12. ASSUME NEW u \in updates, Lose(u) PROVE EvidenceInv'
  BY <1>0, <1>12 DEF Lose, EvidenceInv, MapsSound, EvidenceKept, FreshStart
<1>13. ASSUME Tick PROVE EvidenceInv'
  <2>1. now <= now'
    BY <1>0, <1>13 DEF Tick
  <2>2. MapsSound'
    <3>1. ASSUME NEW map \in NodeMap, Sound(map, now) PROVE Sound(map, now')
      BY <1>0, <2>1, <3>1, SoundLater
    <3> QED BY <1>0, <1>13, <3>1 DEF Tick, MapsSound, Update
  <2>3. EvidenceKept' /\ FreshStart'
    BY <1>0, <1>13 DEF Tick, EvidenceKept, FreshStart
  <2> QED BY <2>2, <2>3 DEF EvidenceInv
<1>14. ASSUME NEW n \in Node, Crash(n) PROVE EvidenceInv'
  <2>1. Sound(NoNodes, now)
    BY DEF NoNodes, Sound, Keys
  <2>2. MapsSound'
    BY <1>0, <1>14, <2>1 DEF Crash, MapsSound
  <2>3. EvidenceKept'
    BY <1>0, <1>14 DEF Crash, EvidenceKept, NoNodes
  <2>4. FreshStart'
    BY <1>0, <1>14 DEF Crash, FreshStart
  <2> QED BY <2>2, <2>3, <2>4 DEF EvidenceInv
<1>15. ASSUME NEW n \in Node, Pause(n) \/ Resume(n) PROVE EvidenceInv'
  BY <1>0, <1>15 DEF Pause, Resume, EvidenceInv, MapsSound, EvidenceKept, FreshStart
<1>16. CASE UNCHANGED vars
  BY <1>0, <1>16 DEF vars, EvidenceInv, MapsSound, EvidenceKept, FreshStart
<1> QED
  BY <1>1, <1>2, <1>3, <1>4, <1>5, <1>6, <1>7, <1>9, <1>10, <1>11, <1>12,
     <1>13, <1>14, <1>15, <1>16
     DEF Next, NodeStep, JoinStep, RoundStep, Outage

\* When clocks agree, every map that is held, answered or gossiped is sound,
\* and no exchange of maps undoes what a node has heard itself.
THEOREM EvidenceInvariant ==
    ASSUME Synchronised
    PROVE  Spec => []EvidenceInv
<1>1. Init => EvidenceInv
  BY EvidenceInit
<1>2. TypeOK /\ TypeOK' /\ EvidenceInv /\ [Next]_vars => EvidenceInv'
  BY EvidenceNext
<1> QED BY <1>1, <1>2, TypeCorrect, PTL DEF Spec

\* When clocks agree, update_node_status, the merge of update_membership and
\* the overwriting merge of main never lead a node to list another as Down
\* that it has heard within the threshold.
THEOREM DownMeansSilent ==
    ASSUME Synchronised
    PROVE  Spec => []DownSilent
<1>1. TypeOK /\ EvidenceInv => DownSilent
  BY MembershipAssumption
     DEF TypeOK, EvidenceInv, MapsSound, EvidenceKept, Sound, DownSilent,
         Keys, NodeMap, NodeInfo
<1> QED BY <1>1, TypeCorrect, EvidenceInvariant, PTL

=============================================================================
