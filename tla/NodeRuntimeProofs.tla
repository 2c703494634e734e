------------------------- MODULE NodeRuntimeProofs -------------------------
(***************************************************************************)
(* The safety of what happens inside a node, for any number of threads,    *)
(* handlers and subscribers, any placement of tasks on threads, and any    *)
(* capacity of the channel and of the semaphore.                           *)
(***************************************************************************)
EXTENDS NodeRuntime, FiniteSetTheorems, SequenceTheorems, TLAPS

\* What Append does to a sequence.
LEMMA Appended ==
    ASSUME NEW S, NEW q \in Seq(S), NEW e \in S
    PROVE  /\ Append(q, e) \in Seq(S)
           /\ Len(Append(q, e)) = Len(q) + 1
           /\ \A i \in 1 .. Len(q) : Append(q, e)[i] = q[i]
           /\ Append(q, e)[Len(q) + 1] = e
  OBVIOUS

\* What is left of a queue whose first k elements have gone.
LEMMA Shortened ==
    ASSUME NEW S, NEW q \in Seq(S), NEW k \in 0 .. Len(q)
    PROVE  /\ SubSeq(q, k + 1, Len(q)) \in Seq(S)
           /\ Len(SubSeq(q, k + 1, Len(q))) = Len(q) - k
           /\ \A i \in 1 .. Len(q) - k :
                 SubSeq(q, k + 1, Len(q))[i] = q[k + i]
  OBVIOUS

-----------------------------------------------------------------------------
(* Who is moved by a step.                                                 *)

\* t, which runs, gives up the lock and goes on to p: the others stay where they
\* are, except those that were handed the lock in the queue.
LEMMA UnlockMoves ==
    ASSUME TypeOK, QueueInv, NEW t \in Task, NEW p, Unlock(t, p)
    PROVE  /\ queue' \in Seq(Task)
           /\ pc' = [u \in Task |-> pc'[u]]
           /\ pc'[t] = p
           /\ \A u \in Task \ {t} :
                 \/ pc'[u] = pc[u]
                 \/ pc[u] \in Awaiting /\ pc'[u] = Section(pc[u])
<1>1. PICK k \in 0 .. Len(queue) :
          /\ queue' = SubSeq(queue, k + 1, Len(queue))
          /\ pc' = [u \in Task |->
                IF u = t THEN p
                ELSE IF \E i \in 1 .. k : queue[i] = u THEN Section(pc[u])
                ELSE pc[u]]
  BY DEF Unlock
<1>2. queue \in Seq(Task) /\ DOMAIN queue = 1 .. Len(queue)
  BY DEF TypeOK
<1>3. queue' \in Seq(Task)
  BY <1>1, <1>2, Shortened
<1>4. \A i \in 1 .. k : pc[queue[i]] \in Awaiting
  BY <1>1, <1>2 DEF QueueInv
<1>5. pc' = [u \in Task |-> pc'[u]] /\ pc'[t] = p
  BY <1>1
<1>6. ASSUME NEW u \in Task \ {t}
      PROVE  \/ pc'[u] = pc[u]
             \/ pc[u] \in Awaiting /\ pc'[u] = Section(pc[u])
  <2>1. CASE \E i \in 1 .. k : queue[i] = u
    BY <1>1, <1>4, <1>6, <2>1
  <2>2. CASE ~\E i \in 1 .. k : queue[i] = u
    BY <1>1, <1>6, <2>2
  <2>3. QED
    BY <2>1, <2>2
<1>7. QED
  BY <1>3, <1>5, <1>6

\* Who is left in the queue waits there as before.
LEMMA UnlockQueue ==
    ASSUME TypeOK, QueueInv, NEW t \in Task, NEW p, Runs(t), Unlock(t, p),
           \A w \in Thread : running'[w] \in {running[w], None}
    PROVE  QueueInv'
<1>1. PICK k \in 0 .. Len(queue) :
          /\ queue' = SubSeq(queue, k + 1, Len(queue))
          /\ pc' = [u \in Task |->
                IF u = t THEN p
                ELSE IF \E i \in 1 .. k : queue[i] = u THEN Section(pc[u])
                ELSE pc[u]]
  BY DEF Unlock
<1>2. queue \in Seq(Task) /\ DOMAIN queue = 1 .. Len(queue)
  BY DEF TypeOK
<1>3. /\ queue' \in Seq(Task)
      /\ Len(queue') = Len(queue) - k
      /\ \A i \in 1 .. Len(queue) - k : queue'[i] = queue[k + i]
  BY <1>1, <1>2, Shortened
<1>4. /\ DOMAIN queue' = 1 .. Len(queue) - k
      /\ Len(queue) \in Nat /\ k \in Nat
  <2>1. DOMAIN queue' = 1 .. Len(queue')
    BY <1>3
  <2>2. Len(queue) \in Nat
    BY <1>2
  <2>3. k \in Nat
    BY <1>1, <2>2
  <2>4. Len(queue') = Len(queue) - k
    BY <1>3
  <2>5. QED
    BY <2>1, <2>2, <2>3, <2>4
<1>5. \A i \in DOMAIN queue' : k + i \in DOMAIN queue /\ queue'[i] = queue[k + i]
  BY <1>2, <1>3, <1>4
<1>6. \A i, j \in DOMAIN queue' : queue'[i] = queue'[j] => i = j
  <2>1. TAKE i, j \in DOMAIN queue'
  <2>2. HAVE queue'[i] = queue'[j]
  <2>3. k + i = k + j
    BY <1>5, <2>2 DEF QueueInv
  <2>4. QED
    BY <1>4, <2>3
<1>7. ASSUME NEW i \in DOMAIN queue'
      PROVE  /\ pc'[queue'[i]] \in Awaiting
             /\ running'[Place[queue'[i]]] # queue'[i]
  <2>. DEFINE u == queue[k + i]
  <2>1. queue'[i] = u /\ k + i \in DOMAIN queue /\ u \in Task
    BY <1>2, <1>5
  <2>2. pc[u] \in Awaiting /\ ~Runs(u)
    BY <2>1 DEF QueueInv
  <2>3. u # t
    BY <2>2
  <2>4. ~\E n \in 1 .. k : queue[n] = u
    <3>1. SUFFICES ASSUME NEW n \in 1 .. k, queue[n] = u PROVE FALSE
      OBVIOUS
    <3>2. n = k + i
      BY <1>1, <1>2, <2>1, <3>1 DEF QueueInv
    <3>3. QED
      BY <1>4, <3>1, <3>2
  <2>. HIDE DEF u
  <2>5. pc'[u] = pc[u]
    BY <1>1, <2>1, <2>3, <2>4
  <2>6. running'[Place[u]] # u
    <3>1. Place[u] \in Thread /\ u # None
      BY <2>1, RuntimeAssumption
    <3>2. QED
      BY <2>2, <3>1 DEF Runs
  <2>7. QED
    BY <2>1, <2>2, <2>5, <2>6
<1>8. QED
  BY <1>6, <1>7 DEF QueueInv, Runs

-----------------------------------------------------------------------------
(* Types.                                                                  *)

\* The program counters are well typed.
PcType ==
    /\ pc \in [Task -> HandlerPc \cup SubscriberPc]
    /\ \A h \in Handler : pc[h] \in HandlerPc
    /\ \A s \in Subscriber : pc[s] \in SubscriberPc

\* Moving a task to another place keeps the program counters well typed.
LEMMA PcMoves ==
    ASSUME TypeOK, NEW t \in Task, NEW p,
           t \in Handler => p \in HandlerPc,
           t \in Subscriber => p \in SubscriberPc,
           pc' = [pc EXCEPT ![t] = p]
    PROVE  PcType'
  BY DEF TypeOK, Task, PcType

\* So does handing over the lock.
LEMMA UnlockType ==
    ASSUME TypeOK, QueueInv, NEW t \in Task, NEW p, Unlock(t, p),
           t \in Handler => p \in HandlerPc,
           t \in Subscriber => p \in SubscriberPc
    PROVE  PcType' /\ queue' \in Seq(Task)
<1>1. /\ queue' \in Seq(Task)
      /\ pc' = [u \in Task |-> pc'[u]]
      /\ pc'[t] = p
      /\ \A u \in Task \ {t} :
            \/ pc'[u] = pc[u]
            \/ pc[u] \in Awaiting /\ pc'[u] = Section(pc[u])
  BY UnlockMoves
<1>2. \A h \in Handler : pc'[h] \in HandlerPc
  BY <1>1 DEF TypeOK, Task, HandlerPc, Awaiting, Section
<1>3. \A s \in Subscriber : pc'[s] \in SubscriberPc
  BY <1>1 DEF TypeOK, Task, SubscriberPc, Awaiting, Section
<1>4. pc' \in [Task -> HandlerPc \cup SubscriberPc]
  BY <1>1, <1>2, <1>3 DEF Task
<1>5. QED
  BY <1>1, <1>2, <1>3, <1>4 DEF PcType

\* What follows notify is well typed.
LEMMA ReturnType ==
    ASSUME TypeOK, QueueInv, NEW h \in Handler, Return(h)
    PROVE  /\ PcType' /\ queue' \in Seq(Task)
           /\ running' \in [Thread -> Task \cup {None}]
           /\ guard' \in Handler \cup {None}
<1>1. h \in Task /\ h \notin Subscriber
  BY RuntimeAssumption DEF Task
<1>2. {"done", "permits"} \subseteq HandlerPc
  BY DEF HandlerPc
<1>3. PcType' /\ queue' \in Seq(Task)
  <2>1. PICK p \in HandlerPc : Unlock(h, p)
    BY <1>2 DEF Return
  <2>2. QED
    BY <1>1, <2>1, UnlockType
<1>4. running' \in [Thread -> Task \cup {None}]
  BY DEF Return, Leaves, TypeOK
<1>5. guard' \in Handler \cup {None}
  BY DEF Return, TypeOK
<1>6. QED
  BY <1>3, <1>4, <1>5

\* Every step keeps the types.
LEMMA TypeStep ==
    ASSUME RuntimeInv, [Next]_vars
    PROVE  TypeOK'
<1>. USE DEF RuntimeInv
<1>0. TypeOK /\ QueueInv /\ LineInv
  OBVIOUS
<1>1. ASSUME NEW t \in Task, Poll(t)
      PROVE  TypeOK'
  <2>1. PcType'
    BY <1>0, <1>1, RuntimeAssumption
       DEF Poll, TypeOK, Task, HandlerPc, SubscriberPc, PcType
  <2>2. running' \in [Thread -> Task \cup {None}]
    BY <1>0, <1>1 DEF Poll, TypeOK
  <2>3. UNCHANGED <<queue, guard, recordVars, channelVars, streamVars,
                    permitVars>>
    BY <1>1 DEF Poll
  <2>4. QED
    BY <1>0, <2>1, <2>2, <2>3
       DEF TypeOK, PcType, recordVars, channelVars, streamVars, permitVars
<1>2. ASSUME NEW t \in Task, Lock(t)
      PROVE  TypeOK'
  <2>1. PcType'
    <3>1. CASE pc' = pc
      BY <1>0, <3>1 DEF TypeOK, PcType
    <3>2. CASE pc' = [pc EXCEPT ![t] = Section(pc[t])]
      <4>1. /\ t \in Handler => Section(pc[t]) \in HandlerPc
            /\ t \in Subscriber => Section(pc[t]) \in SubscriberPc
        BY <1>0, <1>2
           DEF Lock, Awaiting, Section, TypeOK, HandlerPc, SubscriberPc
      <4>2. QED
        BY <1>0, <3>2, <4>1, PcMoves
    <3>3. QED
      BY <1>2, <3>1, <3>2 DEF Lock
  <2>2. queue' \in Seq(Task)
    <3>1. queue \in Seq(Task)
      BY <1>0 DEF TypeOK
    <3>2. queue' = queue \/ queue' = Append(queue, t)
      BY <1>2 DEF Lock
    <3>3. QED
      BY <3>1, <3>2, Appended
  <2>3. running' \in [Thread -> Task \cup {None}]
    BY <1>0, <1>2 DEF Lock, Leaves, TypeOK
  <2>4. UNCHANGED <<guard, recordVars, channelVars, streamVars, permitVars>>
    BY <1>2 DEF Lock
  <2>5. QED
    BY <1>0, <2>1, <2>2, <2>3, <2>4
       DEF TypeOK, PcType, recordVars, channelVars, streamVars, permitVars
<1>3. ASSUME NEW h \in Handler, HandlerStep(h)
      PROVE  TypeOK'
  <2>1. h \in Task /\ h \notin Subscriber
    BY RuntimeAssumption DEF Task
  <2>2. {"notify", "cleanup", "permits", "waiting", "spawning", "done"}
            \subseteq HandlerPc
    BY DEF HandlerPc
  <2>3. CASE Apply(h)
    <3>1. PcType'
      BY <1>0, <2>1, <2>2, <2>3, PcMoves DEF Apply
    <3>2. version' \in Nat
      BY <1>0, <2>3 DEF Apply, TypeOK
    <3>3. event' \in [Handler -> Nat]
      BY <1>0, <2>3, <3>2 DEF Apply, TypeOK
    <3>4. guard' \in Handler \cup {None}
      BY <2>3 DEF Apply
    <3>5. UNCHANGED <<running, queue, channelVars, streamVars, permitVars>>
      BY <2>3 DEF Apply
    <3>6. QED
      BY <1>0, <3>1, <3>2, <3>3, <3>4, <3>5
         DEF TypeOK, PcType, channelVars, streamVars, permitVars
  <2>4. CASE Lock(h)
    BY <1>2, <2>1, <2>4
  <2>5. CASE Send(h)
    <3>1. UNCHANGED <<recordVars, channel, channels, streamVars, permitVars>>
      BY <2>5 DEF Send
    <3>2. CASE Unlock(h, "cleanup") /\ UNCHANGED <<sent, guard, running>>
      <4>1. PcType' /\ queue' \in Seq(Task)
        BY <1>0, <2>1, <2>2, <3>2, UnlockType
      <4>2. QED
        BY <1>0, <3>1, <3>2, <4>1
           DEF TypeOK, PcType, recordVars, streamVars, permitVars
    <3>3. CASE /\ Return(h)
               /\ \/ sent' = sent
                  \/ sent' = Append(sent, [by |-> h, version |-> event[h]])
      <4>0. /\ sent \in Seq(Event)
            /\ [by |-> h, version |-> event[h]] \in Event
        BY <1>0 DEF TypeOK, Event
      <4>1. sent' \in Seq(Event)
        BY <3>3, <4>0, Appended
      <4>2. QED
        BY <1>0, <3>1, <3>3, <4>1, ReturnType
           DEF TypeOK, PcType, recordVars, streamVars, permitVars
    <3>4. QED
      BY <2>5, <3>2, <3>3 DEF Send
  <2>6. CASE Remove(h)
    BY <1>0, <2>6, ReturnType
       DEF Remove, TypeOK, PcType, recordVars, streamVars, permitVars
  <2>7. CASE Acquire(h)
    <3>1. PICK p \in HandlerPc : pc' = [pc EXCEPT ![h] = p]
      BY <2>2, <2>7 DEF Acquire
    <3>2. PcType'
      BY <1>0, <2>1, <3>1, PcMoves
    <3>3. running' \in [Thread -> Task \cup {None}]
      BY <1>0, <2>7 DEF Acquire, Leaves, TypeOK
    <3>4. permits' \in 0 .. Permits /\ line' \in Seq(Handler)
      <4>1. permits' \in 0 .. Permits
        BY <1>0, <2>7, RuntimeAssumption DEF Acquire, TypeOK
      <4>2. line \in Seq(Handler)
        BY <1>0 DEF TypeOK
      <4>3. line' = line \/ line' = Append(line, h)
        BY <2>7 DEF Acquire
      <4>4. QED
        BY <4>1, <4>2, <4>3, Appended
    <3>5. UNCHANGED <<queue, guard, recordVars, channelVars, streamVars, left,
                      tasks>>
      BY <2>7 DEF Acquire
    <3>6. QED
      BY <1>0, <3>2, <3>3, <3>4, <3>5
         DEF TypeOK, PcType, recordVars, channelVars, streamVars
  <2>8. CASE Spawn(h)
    <3>1. PICK p \in HandlerPc : pc' = [pc EXCEPT ![h] = p]
      BY <2>2, <2>8 DEF Spawn
    <3>2. PcType'
      BY <1>0, <2>1, <3>1, PcMoves
    <3>3. running' \in [Thread -> Task \cup {None}]
      BY <1>0, <2>8 DEF Spawn, Leaves, TypeOK
    <3>4. left[h] \in Nat /\ left[h] >= 1
      BY <1>0, <2>8 DEF Spawn, TypeOK
    <3>5. left' \in [Handler -> Nat]
      BY <1>0, <2>8, <3>4 DEF Spawn, TypeOK
    <3>6. tasks' \subseteq Replication
      BY <1>0, <2>8, <3>4 DEF Spawn, TypeOK, Replication
    <3>7. UNCHANGED <<queue, guard, recordVars, channelVars, streamVars, line,
                      permits>>
      BY <2>8 DEF Spawn
    <3>8. QED
      BY <1>0, <3>2, <3>3, <3>5, <3>6, <3>7
         DEF TypeOK, PcType, recordVars, channelVars, streamVars
  <2>9. CASE TaskEnd(h)
    <3>1. PICK t \in tasks : tasks' = tasks \ {t}
      BY <2>9 DEF TaskEnd
    <3>2. Cardinality(tasks) \in Nat /\ Cardinality(tasks) # 0
      BY <3>1, FS_CardinalityType, FS_EmptySet DEF PermitInv
    <3>3. UNCHANGED <<running, queue, guard, recordVars, channelVars,
                      streamVars, left>>
      BY <2>9 DEF TaskEnd
    <3>4. CASE permits' = permits + 1 /\ UNCHANGED <<line, pc>>
      <4>1. Cardinality(Spawning) \in Nat
        BY FS_CardinalityType DEF PermitInv
      <4>2. permits' \in 0 .. Permits
        BY <1>0, <3>2, <3>4, <4>1, RuntimeAssumption
           DEF TypeOK, PermitInv, PermitsKept
      <4>3. QED
        BY <1>0, <3>1, <3>3, <3>4, <4>2
           DEF TypeOK, recordVars, channelVars, streamVars
    <3>5. CASE /\ line # <<>>
               /\ line' = Tail(line)
               /\ pc' = [pc EXCEPT ![Head(line)] = "spawning"]
               /\ UNCHANGED permits
      <4>1. Head(line) \in Handler /\ line' \in Seq(Handler)
        BY <1>0, <3>5 DEF TypeOK
      <4>2. PcType'
        BY <1>0, <2>2, <3>5, <4>1, PcMoves, RuntimeAssumption DEF Task
      <4>3. QED
        BY <1>0, <3>1, <3>3, <3>5, <4>1, <4>2
           DEF TypeOK, PcType, recordVars, channelVars, streamVars
    <3>6. QED
      BY <2>9, <3>4, <3>5 DEF TaskEnd, Release
  <2>10. QED
    BY <1>3, <2>3, <2>4, <2>5, <2>6, <2>7, <2>8, <2>9 DEF HandlerStep
<1>4. ASSUME NEW s \in Subscriber, SubscriberStep(s) \/ Disconnect(s)
      PROVE  TypeOK'
  <2>1. s \in Task /\ s \notin Handler
    BY RuntimeAssumption DEF Task
  <2>2. {"streaming", "new"} \subseteq SubscriberPc
    BY DEF SubscriberPc
  <2>3. CASE Lock(s)
    BY <1>2, <2>1, <2>3
  <2>4. CASE Subscribe(s)
    <3>1. PcType' /\ queue' \in Seq(Task)
      BY <1>0, <2>1, <2>2, <2>4, UnlockType DEF Subscribe
    <3>2. running' \in [Thread -> Task \cup {None}]
      BY <1>0, <2>4 DEF Subscribe, Leaves, TypeOK
    <3>3. channels' \in Nat /\ channel' \in Nat
      BY <1>0, <2>4 DEF Subscribe, TypeOK
    <3>4. Len(sent) + 1 \in Nat \ {0}
      BY <1>0 DEF TypeOK
    <3>5. rx' \in [Subscriber -> Receiver \cup {None}]
      BY <1>0, <2>4, <3>3, <3>4 DEF Subscribe, TypeOK, Receiver
    <3>6. /\ visits' \in [Subscriber -> Nat]
          /\ joined' \in [Subscriber -> Nat]
          /\ got' \in [Subscriber -> SUBSET Nat]
      BY <1>0, <2>4, <3>4 DEF Subscribe, TypeOK
    <3>7. UNCHANGED <<guard, recordVars, sent, permitVars>>
      BY <2>4 DEF Subscribe
    <3>8. QED
      BY <1>0, <3>1, <3>2, <3>3, <3>5, <3>6, <3>7
         DEF TypeOK, PcType, recordVars, permitVars
  <2>5. CASE Receive(s) \/ Lagged(s)
    <3>1. rx[s] \in Receiver
      BY <1>0, <2>5 DEF Receive, Lagged, Streams, StreamInv, TypeOK
    <3>2. Oldest \in Nat \ {0}
      BY <1>0, RuntimeAssumption DEF Oldest, TypeOK
    <3>3. rx' \in [Subscriber -> Receiver \cup {None}]
      <4>1. rx[s].next \in Nat
        BY <3>1 DEF Receiver
      <4>2. PICK n \in Nat \ {0} : rx' = [rx EXCEPT ![s].next = n]
        BY <2>5, <3>2, <4>1 DEF Receive, Lagged
      <4>3. [rx[s] EXCEPT !.next = n] \in Receiver
        BY <3>1 DEF Receiver
      <4>4. rx \in [Subscriber -> Receiver \cup {None}]
        BY <1>0 DEF TypeOK
      <4>5. QED
        BY <4>2, <4>3, <4>4
    <3>4. got' \in [Subscriber -> SUBSET Nat]
      <4>1. rx[s].next \in Nat
        BY <3>1 DEF Receiver
      <4>2. got \in [Subscriber -> SUBSET Nat]
        BY <1>0 DEF TypeOK
      <4>3. got[s] \cup {rx[s].next} \in SUBSET Nat
        BY <4>1, <4>2
      <4>4. got' = got \/ got' = [got EXCEPT ![s] = @ \cup {rx[s].next}]
        BY <2>5 DEF Receive, Lagged
      <4>5. QED
        BY <4>2, <4>3, <4>4
    <3>5. UNCHANGED <<pc, running, queue, guard, recordVars, channelVars,
                      visits, joined, permitVars>>
      BY <2>5 DEF Receive, Lagged
    <3>6. QED
      BY <1>0, <3>3, <3>4, <3>5 DEF TypeOK, recordVars, channelVars, permitVars
  <2>6. CASE Disconnect(s)
    <3>1. PcType'
      BY <1>0, <2>1, <2>2, <2>6, PcMoves DEF Disconnect
    <3>2. QED
      BY <1>0, <2>6, <3>1 DEF Disconnect, TypeOK, PcType, recordVars,
                              channelVars, permitVars
  <2>7. QED
    BY <1>4, <2>3, <2>4, <2>5, <2>6 DEF SubscriberStep
<1>5. CASE UNCHANGED vars
  BY <1>0, <1>5 DEF vars, TypeOK, recordVars, channelVars, streamVars,
                    permitVars
<1>6. QED
  BY <1>1, <1>2, <1>3, <1>4, <1>5 DEF Next

-----------------------------------------------------------------------------
(* The two queues.                                                         *)

\* A step that takes up no task lets nobody run who did not run before.
LEMMA NobodyTakenUp ==
    ASSUME \A w \in Thread : running'[w] \in {running[w], None},
           NEW u \in Task, ~Runs(u)
    PROVE  running'[Place[u]] # u
<1>1. Place[u] \in Thread /\ u # None
  BY RuntimeAssumption
<1>2. QED
  BY <1>1 DEF Runs

\* Leaving its thread, a task takes up no other.
LEMMA LeavesFree ==
    ASSUME TypeOK, NEW t \in Task, Leaves(t) \/ UNCHANGED running
    PROVE  \A w \in Thread : running'[w] \in {running[w], None}
  BY DEF TypeOK, Leaves

LEMMA RunKept ==
    ASSUME RunInv, \A w \in Thread : running'[w] \in {running[w], None}
    PROVE  RunInv'
  BY DEF RunInv

\* Who waits in a queue that does not change is moved by nobody.
LEMMA QueueKept ==
    ASSUME TypeOK, QueueInv, UNCHANGED queue,
           \A u \in Task : ~Runs(u) /\ pc[u] \in Awaiting
                => pc'[u] = pc[u] /\ running'[Place[u]] # u
    PROVE  QueueInv'
<1>1. \A i \in DOMAIN queue : queue[i] \in Task
  BY DEF TypeOK
<1>2. QED
  BY <1>1 DEF QueueInv, Runs

LEMMA LineKept ==
    ASSUME TypeOK, LineInv, UNCHANGED line,
           \A u \in Handler : ~Runs(u) /\ pc[u] = "waiting"
                => pc'[u] = pc[u] /\ running'[Place[u]] # u
    PROVE  LineInv'
<1>1. \A i \in DOMAIN line : line[i] \in Handler
  BY DEF TypeOK
<1>2. QED
  BY <1>1 DEF LineInv, Runs

\* A step that moves at most one task, which runs, leaves both queues in order.
LEMMA MoverKeepsQueues ==
    ASSUME TypeOK, RunInv, QueueInv, LineInv, NEW t \in Task,
           Runs(t) \/ pc[t] = "streaming",
           Leaves(t) \/ UNCHANGED running, UNCHANGED <<queue, line>>,
           NEW p, pc' = [pc EXCEPT ![t] = p]
    PROVE  RunInv' /\ QueueInv' /\ LineInv'
<1>1. \A w \in Thread : running'[w] \in {running[w], None}
  BY LeavesFree
<1>2. \A u \in Task \ {t} : pc'[u] = pc[u]
  BY DEF TypeOK
<1>3. \A u \in Task : ~Runs(u) => running'[Place[u]] # u
  BY <1>1, NobodyTakenUp
<1>4. RunInv'
  BY <1>1, RunKept
<1>5. QueueInv'
  BY <1>2, <1>3, QueueKept DEF Awaiting
<1>6. LineInv'
  BY <1>2, <1>3, LineKept DEF Task
<1>7. QED
  BY <1>4, <1>5, <1>6

\* Nor does handing over the lock disturb them.
LEMMA UnlockKeepsQueues ==
    ASSUME TypeOK, RunInv, QueueInv, LineInv, NEW t \in Task, Runs(t),
           Leaves(t) \/ UNCHANGED running, UNCHANGED line,
           NEW p, Unlock(t, p)
    PROVE  RunInv' /\ QueueInv' /\ LineInv'
<1>1. \A w \in Thread : running'[w] \in {running[w], None}
  BY LeavesFree
<1>2. \A u \in Task : ~Runs(u) => running'[Place[u]] # u
  BY <1>1, NobodyTakenUp
<1>3. RunInv'
  BY <1>1, RunKept
<1>4. QueueInv'
  BY <1>1, UnlockQueue
<1>5. \A u \in Task \ {t} : pc'[u] = pc[u] \/ pc[u] \in Awaiting
  BY UnlockMoves
<1>6. \A u \in Handler : ~Runs(u) /\ pc[u] = "waiting"
          => pc'[u] = pc[u] /\ running'[Place[u]] # u
  BY <1>2, <1>5 DEF Awaiting, Task
<1>7. LineInv'
  BY <1>6, LineKept
<1>8. QED
  BY <1>3, <1>4, <1>7

\* Every step keeps threads and queues in order.
LEMMA QueueStep ==
    ASSUME RuntimeInv, [Next]_vars
    PROVE  RunInv' /\ QueueInv' /\ LineInv'
<1>0. TypeOK /\ RunInv /\ QueueInv /\ LineInv
  BY DEF RuntimeInv
<1>1. Handler \subseteq Task /\ Subscriber \subseteq Task
  BY DEF Task
<1>2. Place \in [Task -> Thread] /\ None \notin Task
  BY RuntimeAssumption
<1>3. ASSUME NEW t \in Task, Poll(t)
      PROVE  RunInv' /\ QueueInv' /\ LineInv'
  <2>1. /\ running' = [running EXCEPT ![Place[t]] = t]
        /\ UNCHANGED <<queue, line>>
        /\ pc[t] \notin Awaiting \cup {"waiting"}
    BY <1>3 DEF Poll, Ready, Awaiting, permitVars
  <2>2. \A u \in Task \ {t} : pc'[u] = pc[u]
    BY <1>0, <1>3 DEF Poll, TypeOK
  <2>3. \A u \in Task \ {t} : ~Runs(u) => running'[Place[u]] # u
    BY <1>0, <1>2, <2>1 DEF Runs, TypeOK
  <2>4. RunInv'
    BY <1>0, <1>2, <2>1 DEF RunInv, TypeOK
  <2>5. QueueInv'
    BY <1>0, <2>1, <2>2, <2>3, QueueKept
  <2>6. LineInv'
    BY <1>0, <1>1, <2>1, <2>2, <2>3, LineKept
  <2>7. QED
    BY <2>4, <2>5, <2>6
<1>4. ASSUME NEW t \in Task, Lock(t)
      PROVE  RunInv' /\ QueueInv' /\ LineInv'
  <2>1. Runs(t) /\ UNCHANGED line
    BY <1>4 DEF Lock, permitVars
  <2>2. CASE /\ pc' = [pc EXCEPT ![t] = Section(@)]
             /\ UNCHANGED <<queue, running>>
    BY <1>0, <2>1, <2>2, MoverKeepsQueues
  <2>3. CASE queue' = Append(queue, t) /\ Leaves(t) /\ UNCHANGED pc
    <3>1. \A w \in Thread : running'[w] \in {running[w], None}
      BY <1>0, <2>3, LeavesFree
    <3>2. \A u \in Task : ~Runs(u) => running'[Place[u]] # u
      BY <3>1, NobodyTakenUp
    <3>3. RunInv' /\ LineInv'
      BY <1>0, <1>1, <2>1, <2>3, <3>1, <3>2, RunKept, LineKept
    <3>4. queue \in Seq(Task) /\ DOMAIN queue = 1 .. Len(queue)
      BY <1>0 DEF TypeOK
    <3>5. /\ Len(queue') = Len(queue) + 1
          /\ \A i \in 1 .. Len(queue) : queue'[i] = queue[i]
          /\ queue'[Len(queue) + 1] = t
          /\ queue' \in Seq(Task)
      BY <2>3, <3>4, Appended
    <3>6. /\ DOMAIN queue' = 1 .. Len(queue) + 1
          /\ Len(queue) \in Nat
      <4>1. DOMAIN queue' = 1 .. Len(queue')
        BY <3>5
      <4>2. QED
        BY <3>4, <3>5, <4>1
    <3>7. running'[Place[t]] # t
      BY <1>0, <1>2, <2>3 DEF Leaves, TypeOK
    <3>8. ASSUME NEW i \in DOMAIN queue'
          PROVE  /\ pc'[queue'[i]] \in Awaiting
                 /\ running'[Place[queue'[i]]] # queue'[i]
      <4>1. CASE i = Len(queue) + 1
        BY <1>4, <2>3, <3>5, <3>7, <4>1 DEF Lock
      <4>2. CASE i # Len(queue) + 1
        <5>1. i \in DOMAIN queue /\ queue'[i] = queue[i] /\ queue[i] \in Task
          BY <3>4, <3>5, <3>6, <4>2
        <5>2. pc[queue[i]] \in Awaiting /\ ~Runs(queue[i])
          BY <1>0, <5>1 DEF QueueInv
        <5>3. QED
          BY <2>3, <3>2, <5>1, <5>2
      <4>3. QED
        BY <4>1, <4>2
    <3>9. ASSUME NEW i \in DOMAIN queue', NEW j \in DOMAIN queue',
                 queue'[i] = queue'[j]
          PROVE  i = j
      <4>1. \A n \in DOMAIN queue : queue[n] # t
        BY <1>0, <2>1 DEF QueueInv
      <4>2. \A n \in DOMAIN queue' :
                \/ n = Len(queue) + 1 /\ queue'[n] = t
                \/ n \in DOMAIN queue /\ queue'[n] = queue[n]
        BY <3>4, <3>5, <3>6
      <4>3. QED
        BY <1>0, <3>9, <4>1, <4>2 DEF QueueInv
    <3>10. QueueInv'
      BY <3>8, <3>9 DEF QueueInv, Runs
    <3>11. QED
      BY <3>3, <3>10
  <2>4. QED
    BY <1>4, <2>2, <2>3 DEF Lock
<1>5. ASSUME NEW h \in Handler, HandlerStep(h)
      PROVE  RunInv' /\ QueueInv' /\ LineInv'
  <2>0. h \in Task
    BY <1>1
  <2>1. CASE Apply(h)
    BY <1>0, <2>0, <2>1, MoverKeepsQueues DEF Apply, permitVars
  <2>2. CASE Lock(h)
    BY <1>4, <2>0, <2>2
  <2>3. CASE Send(h)
    <3>1. Runs(h) /\ UNCHANGED line
      BY <2>3 DEF Send, permitVars
    <3>2. PICK p : Unlock(h, p) /\ (Leaves(h) \/ UNCHANGED running)
      BY <2>3 DEF Send, Return
    <3>3. QED
      BY <1>0, <2>0, <3>1, <3>2, UnlockKeepsQueues
  <2>4. CASE Remove(h)
    <3>1. Runs(h) /\ UNCHANGED line
      BY <2>4 DEF Remove, permitVars
    <3>2. PICK p : Unlock(h, p) /\ (Leaves(h) \/ UNCHANGED running)
      BY <2>4 DEF Remove, Return
    <3>3. QED
      BY <1>0, <2>0, <3>1, <3>2, UnlockKeepsQueues
  <2>5. CASE Acquire(h)
    <3>1. Runs(h) /\ pc[h] = "permits" /\ UNCHANGED queue
      BY <2>5 DEF Acquire
    <3>2. CASE /\ pc' = [pc EXCEPT ![h] = "spawning"]
               /\ UNCHANGED <<line, running>>
      BY <1>0, <2>0, <3>1, <3>2, MoverKeepsQueues
    <3>3. CASE /\ line' = Append(line, h)
               /\ pc' = [pc EXCEPT ![h] = "waiting"]
               /\ Leaves(h)
      <4>1. \A w \in Thread : running'[w] \in {running[w], None}
        BY <1>0, <2>0, <3>3, LeavesFree
      <4>2. \A u \in Task : ~Runs(u) => running'[Place[u]] # u
        BY <4>1, NobodyTakenUp
      <4>3. \A u \in Task \ {h} : pc'[u] = pc[u]
        BY <1>0, <3>3 DEF TypeOK
      <4>4. RunInv'
        BY <1>0, <4>1, RunKept
      <4>5. QueueInv'
        BY <1>0, <3>1, <4>2, <4>3, QueueKept
      <4>6. line \in Seq(Handler) /\ DOMAIN line = 1 .. Len(line)
        BY <1>0 DEF TypeOK
      <4>7. /\ Len(line') = Len(line) + 1
            /\ \A i \in 1 .. Len(line) : line'[i] = line[i]
            /\ line'[Len(line) + 1] = h
            /\ line' \in Seq(Handler)
        BY <3>3, <4>6, Appended
      <4>8. /\ DOMAIN line' = 1 .. Len(line) + 1
            /\ Len(line) \in Nat
        <5>1. DOMAIN line' = 1 .. Len(line')
          BY <4>7
        <5>2. QED
          BY <4>6, <4>7, <5>1
      <4>9. running'[Place[h]] # h /\ pc'[h] = "waiting"
        BY <1>0, <1>2, <2>0, <3>3 DEF Leaves, TypeOK
      <4>10. \A n \in DOMAIN line' :
                \/ n = Len(line) + 1 /\ line'[n] = h
                \/ n \in DOMAIN line /\ line'[n] = line[n]
        BY <4>6, <4>7, <4>8
      <4>11. \A n \in DOMAIN line :
                /\ line[n] # h /\ line[n] \in Task
                /\ pc[line[n]] = "waiting" /\ ~Runs(line[n])
        BY <1>0, <1>1, <3>1, <4>6 DEF LineInv
      <4>12. \A i \in DOMAIN line' :
                /\ pc'[line'[i]] = "waiting"
                /\ running'[Place[line'[i]]] # line'[i]
        BY <4>2, <4>3, <4>9, <4>10, <4>11
      <4>13. \A i, j \in DOMAIN line' : line'[i] = line'[j] => i = j
        BY <1>0, <4>10, <4>11 DEF LineInv
      <4>14. LineInv'
        BY <4>12, <4>13 DEF LineInv, Runs
      <4>15. QED
        BY <4>4, <4>5, <4>14
    <3>4. QED
      BY <2>5, <3>2, <3>3 DEF Acquire
  <2>6. CASE Spawn(h)
    <3>1. PICK p : pc' = [pc EXCEPT ![h] = p]
      BY <2>6 DEF Spawn
    <3>2. /\ Runs(h) /\ UNCHANGED <<queue, line>>
          /\ Leaves(h) \/ UNCHANGED running
      BY <2>6 DEF Spawn
    <3>3. QED
      BY <1>0, <2>0, <3>1, <3>2, MoverKeepsQueues
  <2>7. CASE TaskEnd(h)
    <3>1. UNCHANGED <<running, queue>>
      BY <2>7 DEF TaskEnd
    <3>2. RunInv'
      BY <1>0, <3>1 DEF RunInv
    <3>3. CASE UNCHANGED <<line, pc>>
      BY <1>0, <3>1, <3>2, <3>3 DEF QueueInv, LineInv, Runs
    <3>4. CASE /\ line # <<>>
               /\ line' = Tail(line)
               /\ pc' = [pc EXCEPT ![Head(line)] = "spawning"]
      <4>1. /\ line \in Seq(Handler) /\ DOMAIN line = 1 .. Len(line)
            /\ Len(line) \in Nat \ {0} /\ Head(line) = line[1]
        BY <1>0, <3>4 DEF TypeOK
      <4>2. /\ line' \in Seq(Handler) /\ Len(line') = Len(line) - 1
            /\ \A i \in 1 .. Len(line) - 1 : line'[i] = line[i + 1]
        BY <3>4, <4>1
      <4>3. DOMAIN line' = 1 .. Len(line) - 1
        <5>1. DOMAIN line' = 1 .. Len(line')
          BY <4>2
        <5>2. QED
          BY <4>2, <5>1
      <4>4. \A u \in Task : u # line[1] => pc'[u] = pc[u]
        BY <1>0, <3>4, <4>1 DEF TypeOK
      <4>5. pc[line[1]] = "waiting"
        BY <1>0, <4>1 DEF LineInv
      <4>6. QueueInv'
        <5>1. \A u \in Task : ~Runs(u) /\ pc[u] \in Awaiting
                  => pc'[u] = pc[u] /\ running'[Place[u]] # u
          BY <3>1, <4>4, <4>5 DEF Awaiting, Runs
        <5>2. QED
          BY <1>0, <3>1, <5>1, QueueKept
      <4>7. \A i \in DOMAIN line' :
                /\ i + 1 \in DOMAIN line /\ line'[i] = line[i + 1]
                /\ i \in Int /\ i + 1 # 1 /\ 1 \in DOMAIN line
        BY <4>1, <4>2, <4>3
      <4>8. \A i \in DOMAIN line' : line'[i] # line[1] /\ line'[i] \in Task
        BY <1>0, <1>1, <4>1, <4>7 DEF LineInv
      <4>9. \A i \in DOMAIN line' :
                /\ pc'[line'[i]] = "waiting"
                /\ running'[Place[line'[i]]] # line'[i]
        BY <1>0, <3>1, <4>4, <4>7, <4>8 DEF LineInv, Runs
      <4>10. \A i, j \in DOMAIN line' : line'[i] = line'[j] => i = j
        <5>1. TAKE i, j \in DOMAIN line'
        <5>2. HAVE line'[i] = line'[j]
        <5>3. i + 1 = j + 1
          BY <1>0, <4>7, <5>2 DEF LineInv
        <5>4. QED
          BY <4>7, <5>3
      <4>11. LineInv'
        BY <4>9, <4>10 DEF LineInv, Runs
      <4>12. QED
        BY <3>2, <4>6, <4>11
    <3>5. QED
      BY <2>7, <3>3, <3>4 DEF TaskEnd, Release
  <2>8. QED
    BY <1>5, <2>1, <2>2, <2>3, <2>4, <2>5, <2>6, <2>7 DEF HandlerStep
<1>6. ASSUME NEW s \in Subscriber, SubscriberStep(s) \/ Disconnect(s)
      PROVE  RunInv' /\ QueueInv' /\ LineInv'
  <2>0. s \in Task
    BY <1>1
  <2>1. CASE Lock(s)
    BY <1>4, <2>0, <2>1
  <2>2. CASE Subscribe(s)
    BY <1>0, <2>0, <2>2, UnlockKeepsQueues DEF Subscribe, permitVars
  <2>3. CASE Receive(s) \/ Lagged(s)
    <3>1. UNCHANGED <<pc, running, queue, line>>
      BY <2>3 DEF Receive, Lagged, permitVars
    <3>2. QED
      BY <1>0, <3>1 DEF RunInv, QueueInv, LineInv, Runs
  <2>4. CASE Disconnect(s)
    BY <1>0, <2>0, <2>4, MoverKeepsQueues DEF Disconnect, Streams, permitVars
  <2>5. QED
    BY <1>6, <2>1, <2>2, <2>3, <2>4 DEF SubscriberStep
<1>7. CASE UNCHANGED vars
  <2>1. UNCHANGED <<pc, running, queue, line>>
    BY <1>7 DEF vars, permitVars
  <2>2. QED
    BY <1>0, <2>1 DEF RunInv, QueueInv, LineInv, Runs
<1>8. QED
  BY <1>3, <1>4, <1>5, <1>6, <1>7 DEF Next

-----------------------------------------------------------------------------
(* The guard and the order of announcements.                               *)

\* GuardInv reads only the guard, the record, what was sent and which handlers
\* are announcing.
LEMMA GuardKept ==
    ASSUME GuardInv, UNCHANGED <<guard, version, event, sent>>,
           \A h \in Handler : pc'[h] \in Announcing <=> pc[h] \in Announcing
    PROVE  GuardInv'
  BY RuntimeAssumption DEF GuardInv, GuardedInOrder

\* Handing over the lock, a task moves nobody else out of or into the places
\* where a change is being announced.
LEMMA UnlockAnnounces ==
    ASSUME TypeOK, QueueInv, NEW t \in Task, NEW p, Unlock(t, p)
    PROVE  /\ pc'[t] = p
           /\ \A g \in Handler \ {t} :
                 pc'[g] \in Announcing <=> pc[g] \in Announcing
<1>1. /\ pc'[t] = p
      /\ \A u \in Task \ {t} :
            \/ pc'[u] = pc[u]
            \/ pc[u] \in Awaiting /\ pc'[u] = Section(pc[u])
  BY UnlockMoves
<1>2. \A g \in Handler : g \in Task /\ pc[g] # "subscribe"
  BY DEF Task, TypeOK, HandlerPc
<1>3. QED
  BY <1>1, <1>2 DEF Awaiting, Section, Announcing

\* A handler that returns gives its guard back, and nobody else's.
LEMMA ReturnGuard ==
    ASSUME TypeOK, QueueInv, GuardInv, NEW h \in Handler, pc[h] \in Announcing,
           Return(h), UNCHANGED <<version, event>>
    PROVE  /\ \A g \in Guarded : pc'[g] \in Announcing => guard' = g
           /\ guard' # None => /\ guard' \in Guarded
                               /\ pc'[guard'] \in Announcing
                               /\ event'[guard'] = version'
<1>1. /\ pc'[h] \notin Announcing
      /\ \A g \in Handler \ {h} :
            pc'[g] \in Announcing <=> pc[g] \in Announcing
  <2>1. h \in Task
    BY DEF Task
  <2>2. PICK p \in {"done", "permits"} : Unlock(h, p)
    BY DEF Return
  <2>3. QED
    BY <2>1, <2>2, UnlockAnnounces DEF Announcing
<1>2. h \in Guarded => guard = h
  BY DEF GuardInv
<1>3. Guarded \subseteq Handler
  BY RuntimeAssumption
<1>4. CASE guard = h
  <2>1. guard' = None
    BY <1>4 DEF Return
  <2>2. \A g \in Guarded : pc'[g] \notin Announcing
    BY <1>1, <1>3, <1>4 DEF GuardInv
  <2>3. QED
    BY <2>1, <2>2
<1>5. CASE guard # h
  <2>1. guard' = guard
    BY <1>5 DEF Return
  <2>2. \A g \in Guarded : pc'[g] \in Announcing <=> pc[g] \in Announcing
    BY <1>1, <1>2, <1>3, <1>5
  <2>3. QED
    BY <2>1, <2>2 DEF GuardInv
<1>6. QED
  BY <1>4, <1>5

\* Every step keeps the guard where it belongs and the announcements in order.
LEMMA GuardStep ==
    ASSUME RuntimeInv, [Next]_vars
    PROVE  GuardInv'
<1>0. TypeOK /\ QueueInv /\ LineInv /\ GuardInv
  BY DEF RuntimeInv
<1>1. Handler \subseteq Task /\ Guarded \subseteq Handler
  BY RuntimeAssumption DEF Task
<1>2. ASSUME NEW t \in Task, Poll(t) \/ Lock(t)
      PROVE  GuardInv'
  <2>1. UNCHANGED <<guard, version, event, sent>>
    BY <1>2 DEF Poll, Lock, recordVars, channelVars
  <2>2. \A h \in Handler : pc'[h] \in Announcing <=> pc[h] \in Announcing
    <3>1. CASE Poll(t)
      BY <1>0, <1>1, <3>1 DEF Poll, Announcing, TypeOK
    <3>2. CASE Lock(t)
      <4>1. t \in Handler => pc[t] # "subscribe"
        BY <1>0 DEF TypeOK, HandlerPc
      <4>2. QED
        BY <1>0, <1>1, <3>2, <4>1
           DEF Lock, Awaiting, Section, Announcing, TypeOK
    <3>3. QED
      BY <1>2, <3>1, <3>2
  <2>3. QED
    BY <1>0, <2>1, <2>2, GuardKept
<1>3. ASSUME NEW h \in Handler, Apply(h)
      PROVE  GuardInv'
  <2>1. /\ guard = None
        /\ guard' = IF h \in Guarded THEN h ELSE None
        /\ event' = [event EXCEPT ![h] = version']
        /\ pc' = [pc EXCEPT ![h] = "notify"]
        /\ version' \in {version, version + 1}
        /\ sent' = sent
    BY <1>3 DEF Apply, channelVars
  <2>2. h # None
    BY <1>1, RuntimeAssumption
  <2>3. \A g \in Guarded : pc[g] \notin Announcing
    BY <1>0, <1>1, <2>1, RuntimeAssumption DEF GuardInv
  <2>4. \A g \in Guarded : pc'[g] \in Announcing => guard' = g
    BY <1>0, <1>1, <2>1, <2>3 DEF TypeOK
  <2>5. guard' # None => /\ guard' \in Guarded
                         /\ pc'[guard'] \in Announcing
                         /\ event'[guard'] = version'
    BY <1>0, <1>1, <2>1 DEF TypeOK, Announcing
  <2>6. \A i \in DOMAIN sent' :
            sent'[i].by \in Guarded => sent'[i].version <= version'
    <3>1. TAKE i \in DOMAIN sent'
    <3>2. sent[i].version \in Nat /\ version \in Nat
      <4>1. sent \in Seq(Event) /\ i \in DOMAIN sent
        BY <1>0, <2>1 DEF TypeOK
      <4>2. sent[i] \in Event
        BY <4>1
      <4>3. QED
        BY <1>0, <4>2 DEF TypeOK, Event
    <3>3. sent[i].by \in Guarded => sent[i].version <= version
      BY <1>0, <2>1 DEF GuardInv
    <3>4. QED
      BY <2>1, <3>2, <3>3
  <2>7. GuardedInOrder'
    BY <1>0, <2>1 DEF GuardInv, GuardedInOrder
  <2>8. QED
    BY <2>4, <2>5, <2>6, <2>7 DEF GuardInv
<1>4. ASSUME NEW h \in Handler,
             Acquire(h) \/ Spawn(h) \/ TaskEnd(h)
      PROVE  GuardInv'
  <2>1. UNCHANGED <<guard, version, event, sent>>
    BY <1>4 DEF Acquire, Spawn, TaskEnd, recordVars, channelVars
  <2>2. \A g \in Handler : pc'[g] \in Announcing <=> pc[g] \in Announcing
    <3>1. CASE Acquire(h) \/ Spawn(h)
      BY <1>0, <1>1, <3>1 DEF Acquire, Spawn, Announcing, TypeOK
    <3>2. CASE TaskEnd(h)
      <4>1. CASE pc' = pc
        BY <4>1
      <4>2. CASE line # <<>> /\ pc' = [pc EXCEPT ![Head(line)] = "spawning"]
        <5>1. Head(line) = line[1] /\ 1 \in DOMAIN line
          BY <1>0, <4>2 DEF TypeOK
        <5>2. pc[Head(line)] = "waiting"
          BY <1>0, <5>1 DEF LineInv
        <5>3. QED
          BY <1>0, <1>1, <4>2, <5>2 DEF Announcing, TypeOK
      <4>3. QED
        BY <3>2, <4>1, <4>2 DEF TaskEnd, Release
    <3>3. QED
      BY <1>4, <3>1, <3>2
  <2>3. QED
    BY <1>0, <2>1, <2>2, GuardKept
<1>5. ASSUME NEW h \in Handler, Send(h)
      PROVE  GuardInv'
  <2>1. pc[h] = "sending" /\ UNCHANGED <<version, event>>
    BY <1>5 DEF Send, recordVars
  <2>2. pc[h] \in Announcing
    BY <2>1 DEF Announcing
  <2>3. CASE Unlock(h, "cleanup") /\ UNCHANGED <<sent, guard>>
    <3>1. \A g \in Handler : pc'[g] \in Announcing <=> pc[g] \in Announcing
      <4>1. /\ pc'[h] = "cleanup"
            /\ \A g \in Handler \ {h} :
                  pc'[g] \in Announcing <=> pc[g] \in Announcing
        BY <1>0, <1>1, <2>3, UnlockAnnounces
      <4>2. QED
        BY <2>2, <4>1 DEF Announcing
    <3>2. QED
      BY <1>0, <2>1, <2>3, <3>1, GuardKept
  <2>4. CASE Return(h) /\ sent' = sent
    <3>1. GuardedInOrder'
      BY <1>0, <2>4 DEF GuardInv, GuardedInOrder
    <3>2. \A i \in DOMAIN sent' :
              sent'[i].by \in Guarded => sent'[i].version <= version'
      BY <1>0, <2>1, <2>4 DEF GuardInv
    <3>3. QED
      BY <1>0, <2>1, <2>2, <2>4, <3>1, <3>2, ReturnGuard DEF GuardInv
  <2>5. CASE /\ Return(h)
             /\ sent' = Append(sent, [by |-> h, version |-> event[h]])
    <3>. DEFINE new == [by |-> h, version |-> event[h]]
    <3>1. sent \in Seq(Event) /\ new \in Event /\ version \in Nat
      BY <1>0 DEF TypeOK, Event
    <3>2. new.by = h /\ new.version = event[h]
      OBVIOUS
    <3>3. new.by \in Guarded => new.version = version
      BY <1>0, <1>1, <2>2, <3>2, RuntimeAssumption DEF GuardInv
    <3>4. /\ Len(sent') = Len(sent) + 1
          /\ \A i \in 1 .. Len(sent) : sent'[i] = sent[i]
          /\ sent'[Len(sent) + 1] = new
      <4>. HIDE DEF new
      <4>. QED
        BY <2>5, <3>1, Appended DEF new
    <3>5. sent' \in Seq(Event)
      BY <2>5, <3>1, Appended
    <3>6. /\ DOMAIN sent = 1 .. Len(sent)
          /\ DOMAIN sent' = 1 .. Len(sent) + 1
          /\ Len(sent) \in Nat
      BY <3>1, <3>4, <3>5
    <3>7. \A i \in DOMAIN sent : sent[i] \in Event
      BY <3>1
    <3>8. \A i \in DOMAIN sent :
              sent[i].version \in Nat
              /\ (sent[i].by \in Guarded => sent[i].version <= version)
      BY <1>0, <3>7 DEF GuardInv, Event
    <3>. HIDE DEF new
    <3>9. \A i \in DOMAIN sent' :
              sent'[i].by \in Guarded => sent'[i].version <= version'
      <4>1. TAKE i \in DOMAIN sent'
      <4>2. CASE i = Len(sent) + 1
        BY <2>1, <3>1, <3>3, <3>4, <4>2
      <4>3. CASE i # Len(sent) + 1
        <5>1. i \in DOMAIN sent /\ sent'[i] = sent[i]
          BY <3>4, <3>6, <4>3
        <5>2. QED
          BY <2>1, <3>8, <5>1
      <4>4. QED
        BY <4>2, <4>3
    <3>10. GuardedInOrder'
      <4>1. SUFFICES ASSUME NEW i \in DOMAIN sent', NEW j \in DOMAIN sent',
                            i < j, sent'[i].by \in Guarded,
                            sent'[j].by \in Guarded
                     PROVE  sent'[i].version <= sent'[j].version
        BY DEF GuardedInOrder
      <4>2. i \in DOMAIN sent /\ sent'[i] = sent[i]
        BY <3>4, <3>6, <4>1
      <4>3. CASE j = Len(sent) + 1
        BY <3>3, <3>4, <3>8, <4>1, <4>2, <4>3
      <4>4. CASE j # Len(sent) + 1
        <5>1. j \in DOMAIN sent /\ sent'[j] = sent[j]
          BY <3>4, <3>6, <4>4
        <5>2. {sent[i].by, sent[j].by} \subseteq Guarded
          BY <4>1, <4>2, <5>1
        <5>3. QED
          BY <1>0, <4>1, <4>2, <5>1, <5>2 DEF GuardInv, GuardedInOrder
      <4>5. QED
        BY <4>3, <4>4
    <3>11. QED
      BY <1>0, <2>1, <2>2, <2>5, <3>9, <3>10, ReturnGuard DEF GuardInv
  <2>6. QED
    BY <1>5, <2>3, <2>4, <2>5 DEF Send
<1>6. ASSUME NEW h \in Handler, Remove(h)
      PROVE  GuardInv'
  <2>1. /\ pc[h] \in Announcing
        /\ Return(h)
        /\ UNCHANGED <<version, event, sent>>
    BY <1>6 DEF Remove, Announcing, recordVars
  <2>2. GuardedInOrder'
    BY <1>0, <2>1 DEF GuardInv, GuardedInOrder
  <2>3. \A i \in DOMAIN sent' :
            sent'[i].by \in Guarded => sent'[i].version <= version'
    BY <1>0, <2>1 DEF GuardInv
  <2>4. QED
    BY <1>0, <2>1, <2>2, <2>3, ReturnGuard DEF GuardInv
<1>7. ASSUME NEW s \in Subscriber, SubscriberStep(s) \/ Disconnect(s)
      PROVE  GuardInv'
  <2>1. UNCHANGED <<guard, version, event, sent>>
    BY <1>7 DEF SubscriberStep, Lock, Subscribe, Receive, Lagged,
                Disconnect, recordVars, channelVars
  <2>2. s \notin Handler /\ s \in Task
    BY RuntimeAssumption DEF Task
  <2>3. \A h \in Handler : pc'[h] \in Announcing <=> pc[h] \in Announcing
    <3>1. CASE Subscribe(s)
      BY <1>0, <2>2, <3>1, UnlockAnnounces DEF Subscribe
    <3>2. CASE Lock(s) \/ Receive(s) \/ Lagged(s) \/ Disconnect(s)
      BY <1>0, <1>1, <2>2, <3>2 DEF Lock, Receive, Lagged, Disconnect, TypeOK
    <3>3. QED
      BY <1>7, <3>1, <3>2 DEF SubscriberStep
  <2>4. QED
    BY <1>0, <2>1, <2>3, GuardKept
<1>8. CASE UNCHANGED vars
  BY <1>0, <1>8, GuardKept DEF vars, recordVars, channelVars
<1>9. QED
  BY <1>1, <1>2, <1>3, <1>4, <1>5, <1>6, <1>7, <1>8 DEF Next, HandlerStep

-----------------------------------------------------------------------------
(* The streams.                                                            *)

\* StreamInv outlives whatever leaves the channel and the receivers alone and
\* lets nobody begin to stream.
LEMMA StreamKept ==
    ASSUME TypeOK, StreamInv, UNCHANGED <<channel, rx, joined, got>>,
           Len(sent') \in Nat, Len(sent') >= Len(sent),
           \A s \in Subscriber : pc'[s] = pc[s] \/ pc'[s] # "streaming"
    PROVE  StreamInv'
<1>1. /\ \A s \in Subscriber : pc'[s] = "streaming" => rx'[s] # None
      /\ NoOrphan'
  BY DEF StreamInv, NoOrphan
<1>2. MissedOnlyWhenFull'
  <2>1. SUFFICES ASSUME NEW s \in Subscriber, pc[s] = "streaming",
                        NEW i \in joined[s] .. rx[s].next - 1
                 PROVE  i \in got[s] \/ Len(sent') >= i + Capacity
    BY DEF MissedOnlyWhenFull
  <2>2. i \in got[s] \/ Len(sent) >= i + Capacity
    BY <2>1 DEF StreamInv, MissedOnlyWhenFull
  <2>3. rx[s] \in Receiver /\ joined[s] \in Nat
    BY <2>1 DEF StreamInv, TypeOK
  <2>4. i \in Int /\ Len(sent) \in Nat /\ Capacity \in Nat
    BY <2>3, RuntimeAssumption DEF Receiver, TypeOK
  <2>5. QED
    BY <2>2, <2>4
<1>3. QED
  BY <1>1, <1>2 DEF StreamInv

\* A handler that leaves the lock lets no subscriber begin to stream.
LEMMA ReturnStreams ==
    ASSUME TypeOK, QueueInv, NEW h \in Handler, NEW p, Unlock(h, p)
    PROVE  \A s \in Subscriber : pc'[s] = pc[s] \/ pc'[s] # "streaming"
<1>1. h \in Task /\ \A s \in Subscriber : s \in Task \ {h}
  BY RuntimeAssumption DEF Task
<1>2. \A u \in Task \ {h} :
          \/ pc'[u] = pc[u]
          \/ pc[u] \in Awaiting /\ pc'[u] = Section(pc[u])
  BY <1>1, UnlockMoves
<1>3. QED
  BY <1>1, <1>2 DEF Awaiting, Section

\* Every step keeps the streams connected and complete but for what did not fit.
LEMMA StreamStep ==
    ASSUME RuntimeInv, [Next]_vars
    PROVE  StreamInv'
<1>0. TypeOK /\ QueueInv /\ LineInv /\ StreamInv
  BY DEF RuntimeInv
<1>1. Handler \subseteq Task /\ Subscriber \subseteq Task
  BY DEF Task
<1>2. Handler \cap Subscriber = {} /\ None \notin Receiver /\ None \notin Nat
  BY RuntimeAssumption
<1>3. sent \in Seq(Event) /\ Len(sent) \in Nat
  BY <1>0 DEF TypeOK
<1>4. ASSUME NEW t \in Task, Poll(t) \/ Lock(t)
      PROVE  StreamInv'
  <2>1. UNCHANGED <<channel, rx, joined, got, sent>>
    BY <1>4 DEF Poll, Lock, channelVars, streamVars
  <2>2. \A s \in Subscriber : pc'[s] = pc[s] \/ pc'[s] # "streaming"
    BY <1>0, <1>1, <1>4 DEF Poll, Lock, Section, TypeOK
  <2>3. QED
    BY <1>0, <1>3, <2>1, <2>2, StreamKept
<1>5. ASSUME NEW h \in Handler,
             Apply(h) \/ Acquire(h) \/ Spawn(h) \/ TaskEnd(h)
      PROVE  StreamInv'
  <2>1. UNCHANGED <<channel, rx, joined, got, sent>>
    BY <1>5 DEF Apply, Acquire, Spawn, TaskEnd, channelVars, streamVars
  <2>2. \A s \in Subscriber : pc'[s] = pc[s]
    <3>1. line # <<>> => Head(line) \in Handler
      BY <1>0 DEF TypeOK
    <3>2. QED
      BY <1>0, <1>1, <1>2, <1>5, <3>1
         DEF Apply, Acquire, Spawn, TaskEnd, Release, TypeOK
  <2>3. QED
    BY <1>0, <1>3, <2>1, <2>2, StreamKept
<1>6. ASSUME NEW h \in Handler, Send(h)
      PROVE  StreamInv'
  <2>1. UNCHANGED <<channel, rx, joined, got>>
    BY <1>6 DEF Send, streamVars
  <2>2. \A s \in Subscriber : pc'[s] = pc[s] \/ pc'[s] # "streaming"
    BY <1>0, <1>6, ReturnStreams DEF Send, Return
  <2>3. Len(sent') \in Nat /\ Len(sent') >= Len(sent)
    <3>1. [by |-> h, version |-> event[h]] \in Event
      BY <1>0 DEF TypeOK, Event
    <3>2. sent' = sent \/ sent' = Append(sent, [by |-> h, version |-> event[h]])
      BY <1>6 DEF Send
    <3>3. QED
      BY <1>3, <3>1, <3>2, Appended
  <2>4. QED
    BY <1>0, <2>1, <2>2, <2>3, StreamKept
<1>7. ASSUME NEW h \in Handler, Remove(h)
      PROVE  StreamInv'
  <2>1. UNCHANGED <<rx, joined, got, sent>>
    BY <1>7 DEF Remove, streamVars
  <2>2. \A s \in Subscriber : pc'[s] = pc[s] \/ pc'[s] # "streaming"
    BY <1>0, <1>7, ReturnStreams DEF Remove, Return
  <2>3. CASE channel' = channel
    BY <1>0, <1>3, <2>1, <2>2, <2>3, StreamKept
  <2>4. CASE channel # None /\ Receivers(channel) = {}
    <3>1. \A s \in Subscriber : pc[s] # "streaming"
      BY <1>0, <2>4 DEF StreamInv, NoOrphan, Receivers
    <3>2. QED
      BY <2>2, <3>1 DEF StreamInv, NoOrphan, MissedOnlyWhenFull
  <2>5. QED
    BY <1>7, <2>3, <2>4 DEF Remove
<1>8. ASSUME NEW s \in Subscriber, Subscribe(s)
      PROVE  StreamInv'
  <2>. DEFINE r0 == [channel |-> channel', next |-> Len(sent) + 1]
  <2>1. /\ rx' = [rx EXCEPT ![s] = r0]
        /\ joined' = [joined EXCEPT ![s] = Len(sent) + 1]
        /\ got' = [got EXCEPT ![s] = {}]
        /\ sent' = sent
    BY <1>8 DEF Subscribe
  <2>2. channel' \in Nat
    BY <1>0, <1>8 DEF Subscribe, TypeOK
  <2>3. /\ r0 \in Receiver
        /\ r0.channel = channel'
        /\ r0.next = Len(sent) + 1
    BY <1>3, <2>2 DEF Receiver
  <2>. HIDE DEF r0
  <2>4. /\ rx'[s] = r0
        /\ joined'[s] = Len(sent) + 1
        /\ \A q \in Subscriber \ {s} :
              /\ pc'[q] = pc[q] \/ pc'[q] # "streaming"
              /\ rx'[q] = rx[q]
              /\ joined'[q] = joined[q]
              /\ got'[q] = got[q]
    <3>1. \A u \in Task \ {s} :
              \/ pc'[u] = pc[u]
              \/ pc[u] \in Awaiting /\ pc'[u] = Section(pc[u])
      BY <1>0, <1>1, <1>8, UnlockMoves DEF Subscribe
    <3>2. \A q \in Subscriber \ {s} : pc'[q] = pc[q] \/ pc'[q] # "streaming"
      BY <1>1, <3>1 DEF Section
    <3>3. QED
      BY <1>0, <1>1, <2>1, <3>2 DEF TypeOK
  <2>5. \A q \in Subscriber \ {s} : pc[q] = "streaming" => channel' = channel
    BY <1>0, <1>8 DEF Subscribe, StreamInv, NoOrphan
  <2>6. \A q \in Subscriber : pc'[q] = "streaming" => rx'[q] # None
    BY <1>0, <1>2, <2>3, <2>4 DEF StreamInv
  <2>7. NoOrphan'
    BY <1>0, <1>2, <2>2, <2>3, <2>4, <2>5 DEF StreamInv, NoOrphan
  <2>8. MissedOnlyWhenFull'
    <3>1. SUFFICES ASSUME NEW q \in Subscriber, pc'[q] = "streaming",
                          NEW i \in joined'[q] .. rx'[q].next - 1
                   PROVE  i \in got'[q] \/ Len(sent') >= i + Capacity
      BY DEF MissedOnlyWhenFull
    <3>2. q # s
      BY <1>3, <2>3, <2>4, <3>1
    <3>3. QED
      BY <1>0, <2>1, <2>4, <3>1, <3>2 DEF StreamInv, MissedOnlyWhenFull
  <2>9. QED
    BY <2>6, <2>7, <2>8 DEF StreamInv
<1>9. ASSUME NEW s \in Subscriber, Receive(s) \/ Lagged(s)
       PROVE  StreamInv'
  <2>1. /\ pc[s] = "streaming"
        /\ UNCHANGED <<pc, channel, joined, sent>>
    BY <1>9 DEF Receive, Lagged, Streams, channelVars
  <2>2. rx[s] \in Receiver
    BY <1>0, <2>1 DEF StreamInv, TypeOK
  <2>3. rx[s].next \in Nat \ {0}
    BY <2>2 DEF Receiver
  <2>4. Oldest \in Nat \ {0}
    BY <1>3, RuntimeAssumption DEF Oldest
  <2>5. PICK n \in Nat \ {0} : rx' = [rx EXCEPT ![s].next = n]
    <3>1. rx[s].next + 1 \in Nat \ {0}
      BY <2>3
    <3>2. CASE Receive(s)
      BY <3>1, <3>2 DEF Receive
    <3>3. CASE Lagged(s)
      BY <2>4, <3>3 DEF Lagged
    <3>4. QED
      BY <1>9, <3>2, <3>3
  <2>6. [rx[s] EXCEPT !.next = n] \in Receiver
    BY <2>2 DEF Receiver
  <2>7. /\ rx'[s] = [rx[s] EXCEPT !.next = n]
        /\ \A q \in Subscriber \ {s} : rx'[q] = rx[q]
    BY <1>0, <2>5 DEF TypeOK
  <2>8. rx'[s].next = n /\ rx'[s].channel = rx[s].channel
    BY <2>2, <2>7 DEF Receiver
  <2>9. \A q \in Subscriber : pc'[q] = "streaming" => rx'[q] # None
    BY <1>0, <1>2, <2>1, <2>6, <2>7 DEF StreamInv
  <2>10. NoOrphan'
    BY <1>0, <2>1, <2>7, <2>8 DEF StreamInv, NoOrphan
  <2>11. /\ got[s] \subseteq got'[s]
         /\ \A q \in Subscriber \ {s} : got'[q] = got[q]
    BY <1>0, <1>9 DEF Receive, Lagged, TypeOK
  <2>12. ASSUME NEW i \in Nat, rx[s].next <= i, i < n
         PROVE  i \in got'[s] \/ Len(sent) >= i + Capacity
    <3>1. CASE Receive(s)
      <4>1. rx' = [rx EXCEPT ![s].next = @ + 1]
        BY <3>1 DEF Receive
      <4>2. rx'[s] = [rx[s] EXCEPT !.next = @ + 1]
        BY <1>0, <4>1 DEF TypeOK
      <4>3. n = rx[s].next + 1
        BY <2>2, <2>3, <2>8, <4>2 DEF Receiver
      <4>4. i = rx[s].next
        BY <2>3, <2>12, <4>3
      <4>5. QED
        BY <1>0, <3>1, <4>4 DEF Receive, TypeOK
    <3>2. CASE Lagged(s)
      <4>1. rx' = [rx EXCEPT ![s].next = Oldest]
        BY <3>2 DEF Lagged
      <4>2. rx'[s] = [rx[s] EXCEPT !.next = Oldest]
        BY <1>0, <4>1 DEF TypeOK
      <4>3. n = Oldest
        BY <2>2, <2>4, <2>8, <4>2 DEF Receiver
      <4>4. rx[s].next < Oldest
        BY <3>2 DEF Lagged
      <4>5. Capacity \in Nat
        BY RuntimeAssumption
      <4>6. CASE Len(sent) > Capacity
        <5>1. Oldest = Len(sent) - Capacity + 1
          BY <4>6 DEF Oldest
        <5>2. QED
          BY <1>3, <2>12, <4>3, <4>5, <5>1
      <4>7. CASE ~(Len(sent) > Capacity)
        <5>1. Oldest = 1
          BY <4>7 DEF Oldest
        <5>2. QED
          BY <2>3, <4>4, <5>1
      <4>8. QED
        BY <4>6, <4>7
    <3>3. QED
      BY <1>9, <3>1, <3>2
  <2>13. MissedOnlyWhenFull'
    <3>1. SUFFICES ASSUME NEW q \in Subscriber, pc[q] = "streaming",
                          NEW i \in joined[q] .. rx'[q].next - 1
                   PROVE  i \in got'[q] \/ Len(sent) >= i + Capacity
      BY <2>1 DEF MissedOnlyWhenFull
    <3>2. CASE q # s
      BY <1>0, <2>7, <2>11, <3>1, <3>2 DEF StreamInv, MissedOnlyWhenFull
    <3>3. CASE q = s
      <4>1. joined[s] \in Nat
        BY <1>0 DEF TypeOK
      <4>2. i \in Nat /\ joined[s] <= i /\ i < n
        BY <2>8, <3>1, <3>3, <4>1
      <4>3. CASE rx[s].next <= i
        BY <2>12, <3>3, <4>2, <4>3
      <4>4. CASE i < rx[s].next
        <5>1. i \in joined[s] .. rx[s].next - 1
          BY <2>3, <4>1, <4>2, <4>4
        <5>2. i \in got[s] \/ Len(sent) >= i + Capacity
          BY <1>0, <2>1, <5>1 DEF StreamInv, MissedOnlyWhenFull
        <5>3. QED
          BY <2>11, <3>3, <5>2
      <4>5. QED
        BY <2>3, <4>2, <4>3, <4>4
    <3>4. QED
      BY <3>2, <3>3
  <2>14. QED
    BY <2>9, <2>10, <2>13 DEF StreamInv
<1>10. ASSUME NEW s \in Subscriber, Disconnect(s)
       PROVE  StreamInv'
  <2>1. /\ pc' = [pc EXCEPT ![s] = "new"]
        /\ UNCHANGED <<channel, sent>>
    BY <1>10 DEF Disconnect, channelVars
  <2>2. /\ pc'[s] # "streaming"
        /\ \A q \in Subscriber \ {s} :
              /\ pc'[q] = pc[q]
              /\ rx'[q] = rx[q]
              /\ joined'[q] = joined[q]
              /\ got'[q] = got[q]
    BY <1>0, <1>1, <1>10, <2>1 DEF Disconnect, TypeOK
  <2>3. QED
    BY <1>0, <2>1, <2>2 DEF StreamInv, NoOrphan, MissedOnlyWhenFull
<1>11. CASE UNCHANGED vars
  <2>1. UNCHANGED <<pc, channel, rx, joined, got, sent>>
    BY <1>11 DEF vars, channelVars, streamVars
  <2>2. QED
    BY <1>0, <1>3, <2>1, StreamKept
<1>12. QED
  BY <1>1, <1>4, <1>5, <1>6, <1>7, <1>8, <1>9, <1>10, <1>11
     DEF Next, HandlerStep, SubscriberStep

-----------------------------------------------------------------------------
(* The permits.                                                            *)

\* Handing over the lock makes nobody own a permit, nor takes one away.
LEMMA UnlockSpawning ==
    ASSUME TypeOK, QueueInv, NEW t \in Task, NEW p, Unlock(t, p),
           pc[t] # "spawning", p # "spawning"
    PROVE  Spawning' = Spawning
<1>1. /\ pc'[t] = p
      /\ \A u \in Task \ {t} :
            \/ pc'[u] = pc[u]
            \/ pc[u] \in Awaiting /\ pc'[u] = Section(pc[u])
  BY UnlockMoves
<1>2. \A u \in Task : pc'[u] = "spawning" <=> pc[u] = "spawning"
  BY <1>1 DEF Awaiting, Section
<1>3. QED
  BY <1>2 DEF Spawning, Task

\* A task that moves between other places neither.
LEMMA MoverSpawning ==
    ASSUME TypeOK, NEW t \in Task, NEW p, pc' = [pc EXCEPT ![t] = p],
           pc[t] = "spawning" <=> p = "spawning"
    PROVE  Spawning' = Spawning
<1>1. \A u \in Task : pc'[u] = "spawning" <=> pc[u] = "spawning"
  BY DEF TypeOK
<1>2. QED
  BY <1>1 DEF Spawning, Task

\* Every step keeps the count of permits.
LEMMA PermitStep ==
    ASSUME RuntimeInv, [Next]_vars
    PROVE  PermitInv'
<1>0. TypeOK /\ QueueInv /\ LineInv /\ PermitInv
  BY DEF RuntimeInv
<1>1. /\ Cardinality(tasks) \in Nat /\ Cardinality(Spawning) \in Nat
      /\ permits \in Nat /\ Permits \in Nat
  BY <1>0, FS_CardinalityType, RuntimeAssumption DEF PermitInv, TypeOK
<1>2. Handler \subseteq Task /\ Subscriber \subseteq Task
  BY DEF Task
<1>3. CASE UNCHANGED permitVars /\ Spawning' = Spawning
  BY <1>0, <1>3 DEF PermitInv, PermitsKept, permitVars
<1>4. ASSUME NEW t \in Task, Poll(t) \/ Lock(t)
      PROVE  UNCHANGED permitVars /\ Spawning' = Spawning
  <2>1. UNCHANGED permitVars
    BY <1>4 DEF Poll, Lock
  <2>2. \A u \in Task : pc'[u] = "spawning" <=> pc[u] = "spawning"
    BY <1>0, <1>4 DEF Poll, Lock, Awaiting, Section, TypeOK
  <2>3. QED
    BY <1>2, <2>1, <2>2 DEF Spawning
<1>5. ASSUME NEW h \in Handler, Apply(h) \/ Send(h) \/ Remove(h)
      PROVE  UNCHANGED permitVars /\ Spawning' = Spawning
  <2>1. UNCHANGED permitVars
    BY <1>5 DEF Apply, Send, Remove
  <2>2. CASE Apply(h)
    BY <1>0, <1>2, <2>1, <2>2, MoverSpawning DEF Apply
  <2>3. CASE Send(h) \/ Remove(h)
    <3>1. PICK p \in {"cleanup", "done", "permits"} : Unlock(h, p)
      BY <2>3 DEF Send, Remove, Return
    <3>2. pc[h] # "spawning" /\ p # "spawning"
      BY <2>3 DEF Send, Remove
    <3>3. QED
      BY <1>0, <1>2, <2>1, <3>1, <3>2, UnlockSpawning
  <2>4. QED
    BY <1>5, <2>2, <2>3
<1>6. ASSUME NEW h \in Handler, Acquire(h)
      PROVE  PermitInv'
  <2>1. pc[h] = "permits" /\ UNCHANGED <<left, tasks>>
    BY <1>6 DEF Acquire
  <2>2. CASE pc' = [pc EXCEPT ![h] = "waiting"] /\ UNCHANGED permits
    <3>1. Spawning' = Spawning
      BY <1>0, <1>2, <2>1, <2>2, MoverSpawning
    <3>2. QED
      BY <1>0, <2>1, <2>2, <3>1 DEF PermitInv, PermitsKept
  <2>3. CASE /\ pc' = [pc EXCEPT ![h] = "spawning"]
             /\ permits > 0 /\ permits' = permits - 1
    <3>1. h \notin Spawning /\ Spawning' = Spawning \cup {h}
      BY <1>0, <1>2, <2>1, <2>3 DEF Spawning, TypeOK
    <3>2. /\ IsFiniteSet(Spawning')
          /\ Cardinality(Spawning') = Cardinality(Spawning) + 1
      BY <1>0, <3>1, FS_AddElement DEF PermitInv
    <3>3. QED
      BY <1>0, <1>1, <2>1, <2>3, <3>2 DEF PermitInv, PermitsKept
  <2>4. QED
    BY <1>6, <2>2, <2>3 DEF Acquire
<1>7. ASSUME NEW h \in Handler, Spawn(h)
      PROVE  PermitInv'
  <2>. DEFINE new == [by |-> h, target |-> left[h]]
  <2>1. /\ permits' = permits
        /\ tasks' = tasks \cup {new}
        /\ left' = [left EXCEPT ![h] = @ - 1]
        /\ pc[h] = "spawning"
    BY <1>7 DEF Spawn
  <2>2. left[h] \in Nat /\ new.by = h /\ new.target = left[h]
    BY <1>0 DEF TypeOK
  <2>. HIDE DEF new
  <2>3. new \notin tasks
    BY <1>0, <2>2 DEF PermitInv
  <2>4. IsFiniteSet(tasks') /\ Cardinality(tasks') = Cardinality(tasks) + 1
    BY <1>0, <2>1, <2>3, FS_AddElement DEF PermitInv
  <2>5. h \in Spawning /\ Spawning' = Spawning \ {h}
    <3>1. PICK p \in {"done", "permits"} : pc' = [pc EXCEPT ![h] = p]
      BY <1>7 DEF Spawn
    <3>2. QED
      BY <1>0, <1>2, <2>1, <3>1 DEF Spawning, TypeOK
  <2>6. /\ IsFiniteSet(Spawning')
        /\ Cardinality(Spawning') = Cardinality(Spawning) - 1
    BY <1>0, <2>5, FS_RemoveElement DEF PermitInv
  <2>7. PermitsKept'
    BY <1>0, <1>1, <2>1, <2>4, <2>6 DEF PermitInv, PermitsKept
  <2>8. \A t \in tasks' : left'[t.by] < t.target
    <3>1. TAKE t \in tasks'
    <3>2. /\ left'[h] = left[h] - 1
          /\ \A g \in Handler \ {h} : left'[g] = left[g]
      BY <1>0, <2>1 DEF TypeOK
    <3>3. CASE t = new
      BY <2>2, <3>2, <3>3
    <3>4. CASE t # new
      <4>1. t \in tasks /\ t \in Replication
        BY <1>0, <2>1, <3>4 DEF TypeOK
      <4>2. t.by \in Handler /\ t.target \in Nat /\ left[t.by] \in Nat
        BY <1>0, <4>1 DEF TypeOK, Replication
      <4>3. left[t.by] < t.target
        BY <1>0, <4>1 DEF PermitInv
      <4>4. QED
        BY <2>2, <3>2, <4>2, <4>3
    <3>5. QED
      BY <3>3, <3>4
  <2>9. QED
    BY <2>4, <2>6, <2>7, <2>8 DEF PermitInv
<1>8. ASSUME NEW h \in Handler, TaskEnd(h)
      PROVE  PermitInv'
  <2>1. PICK t \in tasks : tasks' = tasks \ {t}
    BY <1>8 DEF TaskEnd
  <2>2. left' = left
    BY <1>8 DEF TaskEnd
  <2>3. IsFiniteSet(tasks') /\ Cardinality(tasks') = Cardinality(tasks) - 1
    BY <1>0, <2>1, FS_RemoveElement DEF PermitInv
  <2>4. IsFiniteSet(Spawning') /\ PermitsKept'
    <3>1. CASE permits' = permits + 1 /\ UNCHANGED <<line, pc>>
      <4>1. Spawning' = Spawning
        BY <3>1 DEF Spawning
      <4>2. QED
        BY <1>0, <1>1, <2>3, <3>1, <4>1 DEF PermitInv, PermitsKept
    <3>2. CASE /\ line # <<>>
               /\ pc' = [pc EXCEPT ![Head(line)] = "spawning"]
               /\ UNCHANGED permits
      <4>1. /\ Head(line) = line[1] /\ 1 \in DOMAIN line
            /\ Head(line) \in Handler
        BY <1>0, <3>2 DEF TypeOK
      <4>2. pc[Head(line)] = "waiting"
        BY <1>0, <4>1 DEF LineInv
      <4>3. /\ Head(line) \notin Spawning
            /\ Spawning' = Spawning \cup {Head(line)}
        BY <1>0, <1>2, <3>2, <4>1, <4>2 DEF Spawning, TypeOK
      <4>4. /\ IsFiniteSet(Spawning')
            /\ Cardinality(Spawning') = Cardinality(Spawning) + 1
        BY <1>0, <4>3, FS_AddElement DEF PermitInv
      <4>5. QED
        BY <1>0, <1>1, <2>3, <3>2, <4>4 DEF PermitInv, PermitsKept
    <3>3. QED
      BY <1>8, <3>1, <3>2 DEF TaskEnd, Release
  <2>5. QED
    BY <1>0, <2>1, <2>2, <2>3, <2>4 DEF PermitInv
<1>9. ASSUME NEW s \in Subscriber,
             \/ Subscribe(s) \/ Receive(s) \/ Lagged(s) \/ Disconnect(s)
      PROVE  UNCHANGED permitVars /\ Spawning' = Spawning
  <2>1. UNCHANGED permitVars
    BY <1>9 DEF Subscribe, Receive, Lagged, Disconnect
  <2>2. CASE Subscribe(s)
    BY <1>0, <1>2, <2>1, <2>2, UnlockSpawning DEF Subscribe
  <2>3. CASE Receive(s) \/ Lagged(s)
    BY <2>1, <2>3 DEF Receive, Lagged, Spawning
  <2>4. CASE Disconnect(s)
    BY <1>0, <1>2, <2>1, <2>4, MoverSpawning DEF Disconnect, Streams
  <2>5. QED
    BY <1>9, <2>2, <2>3, <2>4
<1>10. CASE UNCHANGED vars
  <2>1. UNCHANGED permitVars /\ UNCHANGED pc
    BY <1>10 DEF vars
  <2>2. QED
    BY <1>3, <2>1 DEF Spawning
<1>11. QED
  BY <1>2, <1>3, <1>4, <1>5, <1>6, <1>7, <1>8, <1>9, <1>10
     DEF Next, HandlerStep, SubscriberStep

-----------------------------------------------------------------------------
(* The theorems.                                                           *)

LEMMA InitOK == Init => RuntimeInv
<1>. SUFFICES ASSUME Init PROVE RuntimeInv
  OBVIOUS
<1>1. TypeOK
  <2>1. sent \in Seq(Event) /\ queue \in Seq(Task) /\ line \in Seq(Handler)
    BY DEF Init
  <2>2. /\ pc \in [Task -> HandlerPc \cup SubscriberPc]
        /\ \A h \in Handler : pc[h] \in HandlerPc
        /\ \A s \in Subscriber : pc[s] \in SubscriberPc
    BY DEF Init, Task, HandlerPc, SubscriberPc
  <2>3. left \in [Handler -> Nat] /\ permits \in 0 .. Permits
    BY RuntimeAssumption DEF Init
  <2>4. QED
    BY <2>1, <2>2, <2>3 DEF Init, TypeOK
<1>2. GuardInv
  BY RuntimeAssumption DEF Init, GuardInv, GuardedInOrder, Announcing, Task
<1>3. StreamInv
  BY DEF Init, StreamInv, NoOrphan, MissedOnlyWhenFull, Task
<1>4. PermitInv
  <2>1. Spawning = {}
    BY DEF Init, Spawning, Task
  <2>2. QED
    BY <2>1, FS_EmptySet, RuntimeAssumption DEF Init, PermitInv, PermitsKept
<1>5. RunInv /\ QueueInv /\ LineInv
  BY DEF Init, RunInv, QueueInv, LineInv
<1>6. QED
  BY <1>1, <1>2, <1>3, <1>4, <1>5 DEF RuntimeInv

\* The inductive invariant of the node: types, queues, guard, streams and permits
\* hold together in every behaviour of handlers, subscribers and threads.
THEOREM RuntimeInvariant == Spec => []RuntimeInv
<1>1. RuntimeInv /\ [Next]_vars => RuntimeInv'
  BY TypeStep, QueueStep, GuardStep, StreamStep, PermitStep DEF RuntimeInv
<1>2. QED
  BY <1>1, InitOK, PTL DEF Spec

\* The node's state is well typed: in particular the semaphore never has more
\* permits than it was made with, and no counter of targets goes below 0.
THEOREM TypeCorrect == Spec => []TypeOK
<1>1. RuntimeInv => TypeOK
  BY DEF RuntimeInv
<1>2. QED
  BY <1>1, RuntimeInvariant, PTL

\* The clean-up of notify, however its two lock scopes interleave with
\* subscribe, never removes the channel of a connected subscriber.
THEOREM NobodyIsCutOff == Spec => []NoOrphan
<1>1. RuntimeInv => NoOrphan
  BY DEF RuntimeInv, StreamInv
<1>2. QED
  BY <1>1, RuntimeInvariant, PTL

\* Merges are announced in the order in which they were made, since their
\* handlers keep the table's guard through notify.
THEOREM MergesAnnouncedInOrder == Spec => []GuardedInOrder
<1>1. RuntimeInv => GuardedInOrder
  BY DEF RuntimeInv, GuardInv
<1>2. QED
  BY <1>1, RuntimeInvariant, PTL

\* A stream skips only events that the channel, at its capacity, had to drop.
THEOREM NothingElseMissed == Spec => []MissedOnlyWhenFull
<1>1. RuntimeInv => MissedOnlyWhenFull
  BY DEF RuntimeInv, StreamInv
<1>2. QED
  BY <1>1, RuntimeInvariant, PTL

\* Permits are neither lost nor made: each is free or held by one replication
\* task of put_value, patch_value or delete_value.
THEOREM PermitsAreKept == Spec => []PermitsKept
<1>1. RuntimeInv => PermitsKept
  BY DEF RuntimeInv, PermitInv
<1>2. QED
  BY <1>1, RuntimeInvariant, PTL

-----------------------------------------------------------------------------
(* The circle of guard and lock.                                           *)

\* Who stands ahead of the j-th of the queue still does so when the first k
\* have been handed the lock.
LEMMA AheadKept ==
    ASSUME TypeOK, QueueInv,
           NEW j \in DOMAIN queue, NEW u \in Ahead(j), NEW k \in Nat,
           \A i \in DOMAIN queue : i > k =>
               i - k \in DOMAIN queue' /\ queue'[i - k] = queue[i],
           \A i \in DOMAIN queue : pc'[queue[i]] =
               IF i <= k THEN Section(pc[queue[i]]) ELSE pc[queue[i]],
           k > 1 => \A i \in 1 .. k : pc[queue[i]] = "notify",
           u \in Owners => k = 0 /\ pc'[u] = pc[u]
    PROVE  /\ j > k
           /\ u \in Ahead(j - k)'
<1>1. DOMAIN queue = 1 .. Len(queue) /\ Len(queue) \in Nat
  BY DEF TypeOK
<1>2. CASE u \in Owners
  <2>1. u \in Owners'
    BY <1>2 DEF Owners, Readers, Writers
  <2>2. QED
    BY <1>1, <1>2, <2>1 DEF Ahead
<1>3. CASE u \notin Owners
  <2>1. PICK i \in 1 .. j - 1 :
            u = queue[i] /\ \E m \in i .. j : pc[queue[m]] # "notify"
    BY <1>3 DEF Ahead
  <2>2. PICK m \in i .. j : pc[queue[m]] # "notify"
    BY <2>1
  <2>3. /\ i \in DOMAIN queue /\ m \in DOMAIN queue
        /\ i \in Nat /\ m \in Nat /\ j \in Nat
        /\ 1 <= i /\ i < j /\ i <= m /\ m <= j
    BY <1>1, <2>1, <2>2
  <2>4. j > k
    <3>1. SUFFICES ASSUME j <= k PROVE FALSE
      BY <2>3
    <3>2. k > 1 /\ m \in 1 .. k
      BY <2>3, <3>1
    <3>3. QED
      BY <2>2, <3>2
  <2>5. CASE i > k
    <3>1. /\ i - k \in DOMAIN queue' /\ queue'[i - k] = u
          /\ m - k \in DOMAIN queue' /\ queue'[m - k] = queue[m]
          /\ pc'[queue'[m - k]] # "notify"
      BY <2>1, <2>2, <2>3, <2>5
    <3>2. /\ i - k \in 1 .. (j - k) - 1
          /\ m - k \in i - k .. j - k
      BY <2>3, <2>5
    <3>3. QED
      BY <2>4, <3>1, <3>2 DEF Ahead
  <2>6. CASE i <= k
    <3>1. pc'[u] = Section(pc[u]) /\ pc[u] \in Awaiting /\ u \in Task
      BY <1>1, <2>1, <2>3, <2>6 DEF QueueInv, TypeOK
    <3>2. pc[u] = "notify" => u \in Handler
      BY <3>1 DEF TypeOK, Task, SubscriberPc
    <3>3. u \in Owners'
      BY <3>1, <3>2 DEF Awaiting, Section, Owners, Readers, Writers
    <3>4. QED
      BY <2>4, <3>3 DEF Ahead
  <2>7. QED
    BY <2>3, <2>5, <2>6
<1>4. QED
  BY <1>2, <1>3

\* A thread that waits for the guard goes on waiting whatever another task does.
LEMMA BlockedMover ==
    ASSUME TypeOK, NEW w \in Blocked, NEW t \in Task, Runs(t),
           pc[t] # "locking", Leaves(t) \/ UNCHANGED running
    PROVE  running'[w] = running[w] /\ running[w] # t
<1>1. w \in Thread /\ pc[running[w]] = "locking"
  BY DEF Blocked
<1>2. Place[t] # w
  BY <1>1 DEF Runs
<1>3. QED
  BY <1>1, <1>2 DEF Leaves, TypeOK

\* While the guard stays where it is, so do the threads that wait for it.
LEMMA BlockedStays ==
    ASSUME RuntimeInv, Next, NEW w \in Blocked, guard' = guard
    PROVE  w \in Blocked'
<1>0. TypeOK /\ RunInv /\ QueueInv /\ LineInv
  BY DEF RuntimeInv
<1>1. /\ w \in Thread /\ guard # None
      /\ running[w] # None /\ pc[running[w]] = "locking"
  BY DEF Blocked
<1>. DEFINE b == running[w]
<1>2. b \in Task
  BY <1>0, <1>1 DEF TypeOK
<1>3. Handler \subseteq Task /\ Subscriber \subseteq Task
  BY DEF Task
<1>4. SUFFICES running'[w] = b /\ pc'[b] = "locking"
  BY <1>1 DEF Blocked
<1>5. ASSUME NEW t \in Task, Poll(t)
      PROVE  running'[w] = b /\ pc'[b] = "locking"
  <2>1. Place[t] # w
    BY <1>1, <1>5 DEF Poll
  <2>2. running'[w] = b
    BY <1>0, <1>1, <1>5, <2>1 DEF Poll, TypeOK
  <2>3. pc'[b] = "locking"
    BY <1>0, <1>1, <1>2, <1>5 DEF Poll, TypeOK
  <2>4. QED
    BY <2>2, <2>3
<1>6. ASSUME NEW t \in Task, Runs(t), pc[t] # "locking",
             Leaves(t) \/ UNCHANGED running,
             \A v \in Task \ {t} : pc'[v] = pc[v] \/ pc[v] \in Awaiting
      PROVE  running'[w] = b /\ pc'[b] = "locking"
  <2>1. running'[w] = b /\ b # t
    BY <1>0, <1>6, BlockedMover
  <2>2. QED
    BY <1>1, <1>2, <1>6, <2>1 DEF Awaiting
<1>7. ASSUME NEW t \in Task, Lock(t)
      PROVE  running'[w] = b /\ pc'[b] = "locking"
  <2>1. /\ Runs(t) /\ pc[t] # "locking"
        /\ Leaves(t) \/ UNCHANGED running
    BY <1>7 DEF Lock, Awaiting
  <2>2. \A v \in Task \ {t} : pc'[v] = pc[v]
    BY <1>0, <1>7 DEF Lock, TypeOK
  <2>3. QED
    BY <1>6, <2>1, <2>2
<1>8. ASSUME NEW t \in Task, NEW p, Runs(t), pc[t] # "locking",
             Leaves(t) \/ UNCHANGED running, Unlock(t, p)
      PROVE  running'[w] = b /\ pc'[b] = "locking"
  <2>1. \A v \in Task \ {t} : pc'[v] = pc[v] \/ pc[v] \in Awaiting
    BY <1>0, <1>8, UnlockMoves
  <2>2. QED
    BY <1>6, <1>8, <2>1
<1>9. ASSUME NEW h \in Handler, HandlerStep(h)
      PROVE  running'[w] = b /\ pc'[b] = "locking"
  <2>0. h \in Task
    BY <1>3
  <2>1. CASE Apply(h)
    BY <1>1, <2>1 DEF Apply
  <2>2. CASE Lock(h)
    BY <1>7, <2>0, <2>2
  <2>3. CASE Send(h) \/ Remove(h)
    <3>1. Runs(h) /\ pc[h] # "locking"
      BY <2>3 DEF Send, Remove
    <3>2. PICK p : Unlock(h, p) /\ (Leaves(h) \/ UNCHANGED running)
      BY <2>3 DEF Send, Remove, Return
    <3>3. QED
      BY <1>8, <2>0, <3>1, <3>2
  <2>4. CASE Acquire(h) \/ Spawn(h)
    <3>1. /\ Runs(h) /\ pc[h] # "locking"
          /\ Leaves(h) \/ UNCHANGED running
      BY <2>4 DEF Acquire, Spawn
    <3>2. \A v \in Task \ {h} : pc'[v] = pc[v]
      BY <1>0, <2>4 DEF Acquire, Spawn, TypeOK
    <3>3. QED
      BY <1>6, <2>0, <3>1, <3>2
  <2>5. CASE TaskEnd(h)
    <3>1. running' = running
      BY <2>5 DEF TaskEnd
    <3>2. CASE pc' = pc
      BY <1>1, <3>1, <3>2
    <3>3. CASE line # <<>> /\ pc' = [pc EXCEPT ![Head(line)] = "spawning"]
      <4>1. Head(line) = line[1] /\ 1 \in DOMAIN line
        BY <1>0, <3>3 DEF TypeOK
      <4>2. pc[Head(line)] = "waiting"
        BY <1>0, <4>1 DEF LineInv
      <4>3. QED
        BY <1>0, <1>1, <1>2, <3>1, <3>3, <4>2 DEF TypeOK
    <3>4. QED
      BY <2>5, <3>2, <3>3 DEF TaskEnd, Release
  <2>6. QED
    BY <1>9, <2>1, <2>2, <2>3, <2>4, <2>5 DEF HandlerStep
<1>10. ASSUME NEW s \in Subscriber, SubscriberStep(s) \/ Disconnect(s)
       PROVE  running'[w] = b /\ pc'[b] = "locking"
  <2>0. s \in Task
    BY <1>3
  <2>1. CASE Lock(s)
    BY <1>7, <2>0, <2>1
  <2>2. CASE Subscribe(s)
    BY <1>8, <2>0, <2>2 DEF Subscribe
  <2>3. CASE Receive(s) \/ Lagged(s) \/ Disconnect(s)
    BY <1>0, <1>1, <1>2, <2>3 DEF Receive, Lagged, Disconnect, Streams, TypeOK
  <2>4. QED
    BY <1>10, <2>1, <2>2, <2>3 DEF SubscriberStep
<1>11. QED
  BY <1>5, <1>9, <1>10 DEF Next

\* The guard changes hands only when nobody has it, or when its holder runs.
LEMMA GuardStays ==
    ASSUME RuntimeInv, Next, guard # None, ~Runs(guard)
    PROVE  guard' = guard
<1>1. ASSUME NEW h \in Handler, Send(h) \/ Remove(h)
      PROVE  guard' = guard
  BY <1>1 DEF Send, Remove, Return
<1>2. ASSUME NEW t \in Task, Poll(t) \/ Lock(t)
      PROVE  guard' = guard
  BY <1>2 DEF Poll, Lock
<1>3. ASSUME NEW h \in Handler,
             Apply(h) \/ Acquire(h) \/ Spawn(h) \/ TaskEnd(h)
      PROVE  guard' = guard
  BY <1>3 DEF Apply, Acquire, Spawn, TaskEnd
<1>4. ASSUME NEW s \in Subscriber,
             \/ Subscribe(s) \/ Receive(s) \/ Lagged(s) \/ Disconnect(s)
      PROVE  guard' = guard
  BY <1>4 DEF Subscribe, Receive, Lagged, Disconnect
<1>5. QED
  BY <1>1, <1>2, <1>3, <1>4 DEF Next, HandlerStep, SubscriberStep, Task

\* Whatever happens, somebody ahead of the j-th of the queue who does not run
\* stays ahead of it.
LEMMA AheadStays ==
    ASSUME RuntimeInv, Next, NEW j \in DOMAIN queue,
           NEW u \in Ahead(j), u \in Task, ~Runs(u)
    PROVE  \E n \in DOMAIN queue' : queue'[n] = queue[j] /\ u \in Ahead(n)'
<1>0. TypeOK /\ RunInv /\ QueueInv /\ LineInv
  BY DEF RuntimeInv
<1>1. /\ queue \in Seq(Task) /\ DOMAIN queue = 1 .. Len(queue)
      /\ Len(queue) \in Nat /\ \A i \in DOMAIN queue : queue[i] \in Task
  BY <1>0 DEF TypeOK
<1>2. Handler \subseteq Task /\ Subscriber \subseteq Task
  BY DEF Task
<1>3. \A i \in DOMAIN queue : pc[queue[i]] \in Awaiting /\ ~Runs(queue[i])
  BY <1>0 DEF QueueInv
<1>4. u \in Owners => pc[u] \in {"sending", "removing", "inserting"}
  BY DEF Owners, Readers, Writers
\* Nobody leaves the queue, and its members and u stay where they are.
<1>5. ASSUME \A i \in DOMAIN queue : i \in DOMAIN queue' /\ queue'[i] = queue[i],
             \A i \in DOMAIN queue : pc'[queue[i]] = pc[queue[i]],
             u \in Owners => pc'[u] = pc[u]
      PROVE  \E n \in DOMAIN queue' : queue'[n] = queue[j] /\ u \in Ahead(n)'
  <2>1. \A i \in DOMAIN queue : i > 0 /\ i - 0 = i /\ ~(i <= 0)
    BY <1>1
  <2>2. u \in Ahead(j - 0)'
    BY <1>0, <1>5, <2>1, AheadKept
  <2>3. u \in Ahead(j)'
    BY <2>1, <2>2
  <2>4. QED
    BY <1>5, <2>3
<1>6. ASSUME UNCHANGED queue,
             \A v \in Task : \/ pc'[v] = pc[v]
                             \/ Runs(v)
                             \/ pc[v] \in {"new", "waiting", "streaming"}
      PROVE  \E n \in DOMAIN queue' : queue'[n] = queue[j] /\ u \in Ahead(n)'
  <2>1. \A i \in DOMAIN queue : pc'[queue[i]] = pc[queue[i]]
    BY <1>1, <1>3, <1>6 DEF Awaiting
  <2>2. u \in Owners => pc'[u] = pc[u]
    BY <1>4, <1>6
  <2>3. QED
    BY <1>5, <1>6, <2>1, <2>2
<1>7. ASSUME NEW t \in Task, Poll(t)
      PROVE  \E n \in DOMAIN queue' : queue'[n] = queue[j] /\ u \in Ahead(n)'
  <2>1. UNCHANGED queue
    BY <1>7 DEF Poll
  <2>2. \A v \in Task : pc'[v] = pc[v] \/ pc[v] = "new"
    BY <1>0, <1>7 DEF Poll, TypeOK
  <2>3. QED
    BY <1>6, <2>1, <2>2
<1>8. ASSUME NEW t \in Task, Lock(t)
      PROVE  \E n \in DOMAIN queue' : queue'[n] = queue[j] /\ u \in Ahead(n)'
  <2>1. CASE /\ pc' = [pc EXCEPT ![t] = Section(@)]
             /\ UNCHANGED <<queue, running>>
    <3>1. \A v \in Task : pc'[v] = pc[v] \/ Runs(v)
      BY <1>0, <1>8, <2>1 DEF Lock, TypeOK
    <3>2. QED
      BY <1>6, <2>1, <3>1
  <2>2. CASE queue' = Append(queue, t) /\ UNCHANGED pc
    <3>1. /\ Len(queue') = Len(queue) + 1
          /\ \A i \in 1 .. Len(queue) : queue'[i] = queue[i]
          /\ queue' \in Seq(Task)
      BY <1>1, <2>2, Appended
    <3>2. DOMAIN queue' = 1 .. Len(queue')
      BY <3>1
    <3>3. \A i \in DOMAIN queue : i \in DOMAIN queue' /\ queue'[i] = queue[i]
      BY <1>1, <3>1, <3>2
    <3>4. QED
      BY <1>5, <2>2, <3>3
  <2>3. QED
    BY <1>8, <2>1, <2>2 DEF Lock
<1>9. ASSUME NEW t \in Task, NEW p, Runs(t), Unlock(t, p)
      PROVE  \E n \in DOMAIN queue' : queue'[n] = queue[j] /\ u \in Ahead(n)'
  <2>1. PICK k \in 0 .. Len(queue) :
            /\ HandsTo(t, k)
            /\ queue' = SubSeq(queue, k + 1, Len(queue))
            /\ pc' = [v \in Task |->
                  IF v = t THEN p
                  ELSE IF \E i \in 1 .. k : queue[i] = v THEN Section(pc[v])
                  ELSE pc[v]]
    BY <1>9 DEF Unlock
  <2>2. k \in Nat /\ k <= Len(queue)
    BY <1>1, <2>1
  <2>3. /\ queue' \in Seq(Task)
        /\ Len(queue') = Len(queue) - k
        /\ \A i \in 1 .. Len(queue) - k : queue'[i] = queue[k + i]
    BY <1>1, <2>1, Shortened
  <2>4. DOMAIN queue' = 1 .. Len(queue) - k
    <3>1. DOMAIN queue' = 1 .. Len(queue')
      BY <2>3
    <3>2. QED
      BY <2>3, <3>1
  <2>5. \A i \in DOMAIN queue : i > k =>
            i - k \in DOMAIN queue' /\ queue'[i - k] = queue[i]
    <3>1. TAKE i \in DOMAIN queue
    <3>2. HAVE i > k
    <3>3. i - k \in 1 .. Len(queue) - k /\ k + (i - k) = i
      BY <1>1, <2>2, <3>2
    <3>4. QED
      BY <2>3, <2>4, <3>3
  <2>6. \A i \in DOMAIN queue : pc'[queue[i]] =
            IF i <= k THEN Section(pc[queue[i]]) ELSE pc[queue[i]]
    <3>1. TAKE i \in DOMAIN queue
    <3>2. queue[i] \in Task /\ queue[i] # t
      BY <1>1, <1>3, <1>9
    <3>3. (\E n \in 1 .. k : queue[n] = queue[i]) <=> i <= k
      <4>1. ASSUME NEW n \in 1 .. k, queue[n] = queue[i] PROVE i <= k
        <5>1. n \in DOMAIN queue
          BY <1>1, <2>2
        <5>2. n = i
          BY <1>0, <4>1, <5>1 DEF QueueInv
        <5>3. QED
          BY <2>2, <5>2
      <4>2. i <= k => i \in 1 .. k
        BY <1>1, <2>2
      <4>3. QED
        BY <4>1, <4>2
    <3>4. QED
      BY <2>1, <3>2, <3>3
  <2>7. k > 1 => \A i \in 1 .. k : pc[queue[i]] = "notify"
    BY <2>1, <2>2 DEF HandsTo
  <2>8. u \in Owners => k = 0 /\ pc'[u] = pc[u]
    <3>1. HAVE u \in Owners
    <3>2. u # t
      BY <1>9
    <3>3. k = 0
      BY <2>1, <3>1, <3>2 DEF HandsTo
    <3>4. \A i \in 1 .. k : queue[i] # u
      BY <3>3
    <3>5. QED
      BY <2>1, <3>2, <3>3, <3>4
  <2>9. j > k /\ u \in Ahead(j - k)'
    BY <1>0, <2>2, <2>5, <2>6, <2>7, <2>8, AheadKept
  <2>10. QED
    BY <2>5, <2>9
<1>10. ASSUME NEW h \in Handler, HandlerStep(h)
       PROVE  \E n \in DOMAIN queue' : queue'[n] = queue[j] /\ u \in Ahead(n)'
  <2>0. h \in Task
    BY <1>2
  <2>1. CASE Apply(h) \/ Acquire(h) \/ Spawn(h)
    <3>1. UNCHANGED queue
      BY <2>1 DEF Apply, Acquire, Spawn
    <3>2. \A v \in Task : pc'[v] = pc[v] \/ Runs(v)
      BY <1>0, <2>1 DEF Apply, Acquire, Spawn, TypeOK
    <3>3. QED
      BY <1>6, <3>1, <3>2
  <2>2. CASE Lock(h)
    BY <1>8, <2>0, <2>2
  <2>3. CASE Send(h) \/ Remove(h)
    <3>1. PICK p : Unlock(h, p)
      BY <2>3 DEF Send, Remove, Return
    <3>2. QED
      BY <1>9, <2>0, <2>3, <3>1 DEF Send, Remove
  <2>4. CASE TaskEnd(h)
    <3>1. UNCHANGED queue
      BY <2>4 DEF TaskEnd
    <3>2. \A v \in Task : pc'[v] = pc[v] \/ pc[v] = "waiting"
      <4>1. CASE pc' = pc
        BY <4>1
      <4>2. CASE line # <<>> /\ pc' = [pc EXCEPT ![Head(line)] = "spawning"]
        <5>1. Head(line) = line[1] /\ 1 \in DOMAIN line
          BY <1>0, <4>2 DEF TypeOK
        <5>2. pc[Head(line)] = "waiting"
          BY <1>0, <5>1 DEF LineInv
        <5>3. QED
          BY <1>0, <4>2, <5>2 DEF TypeOK
      <4>3. QED
        BY <2>4, <4>1, <4>2 DEF TaskEnd, Release
    <3>3. QED
      BY <1>6, <3>1, <3>2
  <2>5. QED
    BY <1>10, <2>1, <2>2, <2>3, <2>4 DEF HandlerStep
<1>11. ASSUME NEW s \in Subscriber, SubscriberStep(s) \/ Disconnect(s)
       PROVE  \E n \in DOMAIN queue' : queue'[n] = queue[j] /\ u \in Ahead(n)'
  <2>0. s \in Task
    BY <1>2
  <2>1. CASE Lock(s)
    BY <1>8, <2>0, <2>1
  <2>2. CASE Subscribe(s)
    BY <1>9, <2>0, <2>2 DEF Subscribe
  <2>3. CASE Receive(s) \/ Lagged(s) \/ Disconnect(s)
    <3>1. UNCHANGED queue
      BY <2>3 DEF Receive, Lagged, Disconnect
    <3>2. \A v \in Task : pc'[v] = pc[v] \/ pc[v] = "streaming"
      BY <1>0, <2>3 DEF Receive, Lagged, Disconnect, Streams, TypeOK
    <3>3. QED
      BY <1>6, <3>1, <3>2
  <2>4. QED
    BY <1>11, <2>1, <2>2, <2>3 DEF SubscriberStep
<1>12. QED
  BY <1>7, <1>10, <1>11 DEF Next

\* A circle of guard and lock is never left.
LEMMA StuckStep ==
    ASSUME RuntimeInv, [Next]_vars, Stuck
    PROVE  Stuck'
<1>0. TypeOK /\ QueueInv /\ GuardInv
  BY DEF RuntimeInv
<1>1. CASE UNCHANGED vars
  BY <1>1 DEF vars, Stuck, Blocked, Ahead, Owners, Readers, Writers
<1>2. CASE Next /\ guard # None /\ Place[guard] \in Blocked
  <2>1. pc[guard] # "locking"
    BY <1>0, <1>2 DEF GuardInv, Announcing
  <2>2. ~Runs(guard)
    BY <1>2, <2>1 DEF Runs, Blocked
  <2>3. guard' = guard
    BY <1>2, <2>2, GuardStays
  <2>4. QED
    BY <1>2, <2>3, BlockedStays DEF Stuck
<1>3. CASE Next /\ \E j \in DOMAIN queue :
               /\ queue[j] = guard
               /\ \E u \in Ahead(j) : Place[u] \in Blocked
  <2>1. PICK j \in DOMAIN queue :
            /\ queue[j] = guard
            /\ \E u \in Ahead(j) : Place[u] \in Blocked
    BY <1>3
  <2>2. PICK u \in Ahead(j) : Place[u] \in Blocked
    BY <2>1
  <2>3. /\ DOMAIN queue = 1 .. Len(queue) /\ Len(queue) \in Nat
        /\ \A i \in DOMAIN queue : queue[i] \in Task
    BY <1>0 DEF TypeOK
  <2>4. u \in Task /\ pc[u] # "locking"
    <3>1. CASE u \in Owners
      BY <3>1 DEF Owners, Readers, Writers, Task
    <3>2. CASE u \notin Owners
      <4>1. PICK i \in 1 .. j - 1 : u = queue[i]
        BY <3>2 DEF Ahead
      <4>2. i \in DOMAIN queue
        BY <2>3
      <4>3. QED
        BY <1>0, <2>3, <4>1, <4>2 DEF QueueInv, Awaiting
    <3>3. QED
      BY <3>1, <3>2
  <2>5. ~Runs(u)
    BY <2>2, <2>4 DEF Runs, Blocked
  <2>6. guard # None /\ ~Runs(guard)
    <3>1. guard \in Task
      BY <2>1, <2>3
    <3>2. QED
      BY <1>0, <2>1, <3>1, RuntimeAssumption DEF QueueInv
  <2>7. guard' = guard
    BY <1>3, <2>6, GuardStays
  <2>8. Place[u] \in Blocked'
    BY <1>3, <2>2, <2>7, BlockedStays
  <2>9. PICK n \in DOMAIN queue' : queue'[n] = queue[j] /\ u \in Ahead(n)'
    BY <1>3, <2>4, <2>5, AheadStays
  <2>10. QED
    BY <2>1, <2>7, <2>8, <2>9 DEF Stuck
<1>4. QED
  BY <1>1, <1>2, <1>3 DEF Stuck

\* The circle of put_value_internal's guard and the lock of the channels is a
\* deadlock: no step of any handler, subscriber or replication task, no client
\* that leaves and no timeout of a task ever opens it.
THEOREM StuckForGood == Spec => [][Stuck => Stuck']_vars
<1>1. RuntimeInv /\ [Next]_vars => [Stuck => Stuck']_vars
  BY StuckStep
<1>2. QED
  BY <1>1, RuntimeInvariant, PTL DEF Spec

\* What the circle takes: a thread that polls a handler and another task.  With
\* every handler on a thread of its own, which actix does not promise, the
\* guard held across notify stops nobody for good.
THEOREM AloneNeverStuck ==
    ASSUME \A h \in Handler : \A t \in Task : Place[t] = Place[h] => t = h
    PROVE  Spec => []NoThreadStuck
<1>1. RuntimeInv => NoThreadStuck
  <2>1. SUFFICES ASSUME RuntimeInv, Stuck PROVE FALSE
    BY DEF NoThreadStuck
  <2>2. TypeOK /\ RunInv /\ QueueInv /\ GuardInv
    BY <2>1 DEF RuntimeInv
  <2>3. ASSUME NEW u \in Task, pc[u] # "locking", Place[u] \in Blocked
        PROVE  FALSE
    <3>. DEFINE b == running[Place[u]]
    <3>1. b \in Task /\ pc[b] = "locking" /\ Place[b] = Place[u]
      BY <2>2, <2>3 DEF Blocked, RunInv, TypeOK
    <3>2. b \in Handler
      BY <2>2, <3>1 DEF TypeOK, Task, SubscriberPc
    <3>3. QED
      BY <2>3, <3>1, <3>2
  <2>4. ASSUME guard # None, Place[guard] \in Blocked PROVE FALSE
    BY <2>2, <2>3, <2>4, RuntimeAssumption DEF GuardInv, Announcing, Task
  <2>5. ASSUME NEW j \in DOMAIN queue, NEW u \in Ahead(j),
               Place[u] \in Blocked
        PROVE  FALSE
    <3>1. /\ DOMAIN queue = 1 .. Len(queue) /\ Len(queue) \in Nat
          /\ \A i \in DOMAIN queue : queue[i] \in Task
      BY <2>2 DEF TypeOK
    <3>2. CASE u \in Owners
      BY <2>3, <2>5, <3>2 DEF Owners, Readers, Writers, Task
    <3>3. CASE u \notin Owners
      <4>1. PICK i \in 1 .. j - 1 : u = queue[i]
        BY <3>3 DEF Ahead
      <4>2. i \in DOMAIN queue
        BY <3>1
      <4>3. QED
        BY <2>2, <2>3, <2>5, <3>1, <4>1, <4>2 DEF QueueInv, Awaiting
    <3>4. QED
      BY <3>2, <3>3
  <2>6. QED
    BY <2>1, <2>4, <2>5 DEF Stuck
<1>2. QED
  BY <1>1, RuntimeInvariant, PTL

=============================================================================
