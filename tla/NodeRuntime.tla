---------------------------- MODULE NodeRuntime ----------------------------
(***************************************************************************)
(* What happens inside one node while requests for one key are handled:    *)
(* the worker threads that poll the handlers of src/storage/engine.rs, the *)
(* guard of the key's table, the SubscriptionManager of                    *)
(* src/storage/subscription.rs with its streams, and the semaphore that    *)
(* bounds replication tasks.  ReplicatedStore says what the handlers do to *)
(* the record; here the record is the number of changes made to it.        *)
(*                                                                         *)
(* A worker thread runs one task at a time and leaves it only where it     *)
(* awaits something that is not available.  Waiting for the table's guard, *)
(* a lock of DashMap, is no such place: it stops the thread.               *)
(***************************************************************************)
EXTENDS Naturals, Sequences, FiniteSets

CONSTANTS
    Thread,      \* actix worker threads
    Handler,     \* requests that change the record and notify subscribers
    Subscriber,  \* requests to subscribe_to_key, then their streams
    Place,       \* Place[t]: the thread that polls task t
    Guarded,     \* the handlers that keep the guard until they return
    Targets,     \* Targets[h]: the replication tasks that handler h spawns
    Capacity,    \* of a broadcast channel (16 in the code)
    Permits,     \* of the replication semaphore (20 in the code)
    Visits,      \* how often a client subscribes (a bound)
    None

VARIABLES
    pc,        \* pc[t]: where task t is
    running,   \* running[w]: the task that thread w is in, or None
    queue,     \* the tasks that wait for the lock of the channels
    guard,     \* the handler that holds the table's guard, or None
    version,   \* the changes made to the record so far
    event,     \* event[h]: the version that handler h announces
    sent,      \* every event sent for the key, with the handler that sent it
    channel,   \* the channel in the manager's map: its number, or None
    channels,  \* ghost: how many channels have been created for the key
    rx,        \* rx[s]: the receiver of s, or None
    visits,    \* visits[s]: how often s has subscribed
    joined,    \* ghost: joined[s], the first event sent after s subscribed
    got,       \* ghost: got[s], the indices of the events that s was given
    left,      \* left[h]: the targets that h has not spawned a task for yet
    tasks,     \* the replication tasks that have not ended
    permits,   \* free permits
    line       \* the handlers that wait for a permit

recordVars == <<version, event>>
streamVars == <<rx, visits, joined, got>>
channelVars == <<sent, channel, channels>>
permitVars == <<left, tasks, permits, line>>

vars == <<pc, running, queue, guard, recordVars, channelVars, streamVars,
          permitVars>>

Task == Handler \cup Subscriber

Receiver == [channel : Nat, next : Nat \ {0}]

Replication == [by : Handler, target : Nat]

Event == [by : Handler, version : Nat]

HandlerPc == {"new", "locking", "notify", "sending", "cleanup", "removing",
              "permits", "waiting", "spawning", "done"}

SubscriberPc == {"new", "subscribe", "inserting", "streaming"}

ASSUME RuntimeAssumption ==
    /\ Handler \cap Subscriber = {}
    /\ None \notin Task
    /\ None \notin Nat
    /\ None \notin Receiver
    /\ Place \in [Task -> Thread]
    /\ Guarded \subseteq Handler
    /\ Targets \in [Handler -> Nat]
    /\ \A h \in Guarded : Targets[h] = 0
    /\ Capacity \in Nat \ {0}
    /\ Permits \in Nat \ {0}
    /\ Visits \in Nat

-----------------------------------------------------------------------------
(* The RwLock around the map of channels, a semaphore of tokio: who finds  *)
(* it taken, or others waiting, queues up, and who leaves it hands it over *)
(* to the first in the queue.  A task owns the lock from then on, though   *)
(* its thread may not come to poll it.                                     *)

Readers == {h \in Handler : pc[h] = "sending"}

Writers == {t \in Task : pc[t] \in {"removing", "inserting"}}

Owners == Readers \cup Writers

\* The await of each critical section; the sections contain no await.
Awaiting == {"notify", "cleanup", "subscribe"}

Section(p) == CASE p = "notify" -> "sending"
                [] p = "cleanup" -> "removing"
                [] OTHER -> "inserting"

\* The lock is granted at once.
CanEnter(t) ==
    /\ queue = <<>>
    /\ Writers = {}
    /\ Readers = {} \/ pc[t] = "notify"

\* Leaving the lock, t hands it to the first k in the queue: to nobody while
\* others own it too, otherwise to one writer, or to all readers up to the next
\* writer.
HandsTo(t, k) ==
    \/ Owners # {t} /\ k = 0
    \/ /\ Owners = {t}
       /\ k > 1 => \A i \in 1 .. k : pc[queue[i]] = "notify"
       /\ k < Len(queue) => /\ k > 0
                            /\ \/ pc[queue[1]] # "notify"
                               \/ pc[queue[k + 1]] # "notify"

\* t leaves the lock and goes on to p.
Unlock(t, p) ==
    \E k \in 0 .. Len(queue) :
        /\ HandsTo(t, k)
        /\ queue' = SubSeq(queue, k + 1, Len(queue))
        /\ pc' = [u \in Task |->
              IF u = t THEN p
              ELSE IF \E i \in 1 .. k : queue[i] = u THEN Section(pc[u])
              ELSE pc[u]]

-----------------------------------------------------------------------------
(* The executor.                                                           *)

Runs(t) == running[Place[t]] = t

Leaves(t) == running' = [running EXCEPT ![Place[t]] = None]

\* The task has come in, or it was handed what it waited for.
Ready(t) ==
    \/ pc[t] = "new" /\ (t \in Subscriber => visits[t] < Visits)
    \/ pc[t] \in {"sending", "removing", "inserting", "spawning"}

\* An idle thread takes up a task.
Poll(t) ==
    /\ running[Place[t]] = None
    /\ Ready(t)
    /\ running' = [running EXCEPT ![Place[t]] = t]
    /\ pc' = [pc EXCEPT ![t] =
          IF @ # "new" THEN @
          ELSE IF t \in Handler THEN "locking" ELSE "subscribe"]
    /\ UNCHANGED <<queue, guard, recordVars, channelVars, streamVars,
                   permitVars>>

\* channels.read().await or channels.write().await: the task enters, or it
\* queues up and lets its thread go on with other tasks.
Lock(t) ==
    /\ Runs(t)
    /\ pc[t] \in Awaiting
    /\ \/ /\ CanEnter(t)
          /\ pc' = [pc EXCEPT ![t] = Section(@)]
          /\ UNCHANGED <<queue, running>>
       \/ /\ ~CanEnter(t)
          /\ queue' = Append(queue, t)
          /\ Leaves(t)
          /\ UNCHANGED pc
    /\ UNCHANGED <<guard, recordVars, channelVars, streamVars, permitVars>>

-----------------------------------------------------------------------------
(* The handlers.                                                           *)

\* Seeded fault: no handler keeps the guard while it notifies.
ApplyReleasing(h) ==
    /\ Runs(h)
    /\ pc[h] = "locking"
    /\ guard = None
    /\ \/ version' = version + 1
       \/ h \in Guarded /\ version > 0 /\ version' = version
    /\ event' = [event EXCEPT ![h] = version']
    /\ pc' = [pc EXCEPT ![h] = "notify"]
    /\ UNCHANGED <<running, queue, guard, channelVars, streamVars, permitVars>>

\* The local change, under the guard of the table.  put_value, patch_value and
\* delete_value have dropped the guard when they go on; put_value_internal and
\* the internal branch of access keep it.  A merge may leave the record as it
\* was, and its result is announced all the same.
Apply(h) ==
    /\ Runs(h)
    /\ pc[h] = "locking"
    /\ guard = None
    /\ guard' = IF h \in Guarded THEN h ELSE None
    /\ \/ version' = version + 1
       \/ h \in Guarded /\ version > 0 /\ version' = version
    /\ event' = [event EXCEPT ![h] = version']
    /\ pc' = [pc EXCEPT ![h] = "notify"]
    /\ UNCHANGED <<running, queue, channelVars, streamVars, permitVars>>

\* What follows notify: the handlers that replicate go on to the permits, the
\* others return, which drops the guard.
Return(h) ==
    /\ guard' = IF guard = h THEN None ELSE guard
    /\ \/ Targets[h] = 0 /\ Unlock(h, "done") /\ Leaves(h)
       \/ Targets[h] > 0 /\ Unlock(h, "permits") /\ UNCHANGED running

\* The receivers of a channel.
Receivers(c) == {s \in Subscriber : rx[s] # None /\ rx[s].channel = c}

\* Under the read lock notify sends to the channel, if there is one.  send
\* fails when nobody listens, and then the channel is to be removed.
Send(h) ==
    /\ Runs(h)
    /\ pc[h] = "sending"
    /\ \/ /\ channel # None
          /\ Receivers(channel) = {}
          /\ Unlock(h, "cleanup")
          /\ UNCHANGED <<sent, guard, running>>
       \/ /\ channel # None
          /\ Receivers(channel) # {}
          /\ sent' = Append(sent, [by |-> h, version |-> event[h]])
          /\ Return(h)
       \/ /\ channel = None
          /\ Return(h)
          /\ UNCHANGED sent
    /\ UNCHANGED <<recordVars, channel, channels, streamVars, permitVars>>

\* Seeded fault: the receivers are not counted again.
RemoveUnchecked(h) ==
    /\ Runs(h)
    /\ pc[h] = "removing"
    /\ channel' = None
    /\ Return(h)
    /\ UNCHANGED <<recordVars, sent, channels, streamVars, permitVars>>

\* Under the write lock the channel goes, unless someone has subscribed since.
Remove(h) ==
    /\ Runs(h)
    /\ pc[h] = "removing"
    /\ channel' = IF channel # None /\ Receivers(channel) = {}
                  THEN None ELSE channel
    /\ Return(h)
    /\ UNCHANGED <<recordVars, sent, channels, streamVars, permitVars>>

\* acquire_owned().await before each replication task: the semaphore has a
\* permit to give, or the handler queues up for one.
Acquire(h) ==
    /\ Runs(h)
    /\ pc[h] = "permits"
    /\ \/ /\ permits > 0
          /\ permits' = permits - 1
          /\ pc' = [pc EXCEPT ![h] = "spawning"]
          /\ UNCHANGED <<line, running>>
       \/ /\ permits = 0
          /\ line' = Append(line, h)
          /\ pc' = [pc EXCEPT ![h] = "waiting"]
          /\ Leaves(h)
          /\ UNCHANGED permits
    /\ UNCHANGED <<queue, guard, recordVars, channelVars, streamVars, left,
                   tasks>>

\* The spawn of one replication task, which owns the permit from now on.  The
\* handler answers when it has spawned the last one.
Spawn(h) ==
    /\ Runs(h)
    /\ pc[h] = "spawning"
    /\ tasks' = tasks \cup {[by |-> h, target |-> left[h]]}
    /\ left' = [left EXCEPT ![h] = @ - 1]
    /\ \/ /\ left[h] = 1
          /\ pc' = [pc EXCEPT ![h] = "done"]
          /\ Leaves(h)
       \/ /\ left[h] > 1
          /\ pc' = [pc EXCEPT ![h] = "permits"]
          /\ UNCHANGED running
    /\ UNCHANGED <<queue, guard, recordVars, channelVars, streamVars, line,
                   permits>>

\* A permit that is dropped goes to the handler that has waited longest.
Release ==
    \/ /\ line = <<>>
       /\ permits' = permits + 1
       /\ UNCHANGED <<line, pc>>
    \/ /\ line # <<>>
       /\ line' = Tail(line)
       /\ pc' = [pc EXCEPT ![Head(line)] = "spawning"]
       /\ UNCHANGED permits

\* Seeded faults: a permit is given back after every attempt, or never.
TaskEndEveryAttempt(h) ==
    /\ running[Place[h]] = None
    /\ \E t \in tasks : t.by = h /\ tasks' \in {tasks, tasks \ {t}}
    /\ Release
    /\ UNCHANGED <<running, queue, guard, recordVars, channelVars, streamVars,
                   left>>
TaskEndLeaking(h) ==
    /\ running[Place[h]] = None
    /\ \E t \in tasks : t.by = h /\ tasks' = tasks \ {t}
    /\ UNCHANGED <<pc, running, queue, guard, recordVars, channelVars,
                   streamVars, left, line, permits>>

\* A replication task has been answered or has used up its attempts, each of
\* which ends after 3 s at most; its permit is dropped with it.  The task was
\* spawned on the runtime of the handler's thread.
TaskEnd(h) ==
    /\ running[Place[h]] = None
    /\ \E t \in tasks : t.by = h /\ tasks' = tasks \ {t}
    /\ Release
    /\ UNCHANGED <<running, queue, guard, recordVars, channelVars, streamVars,
                   left>>

-----------------------------------------------------------------------------
(* The subscribers.                                                        *)

\* Under the write lock subscribe joins the key's channel or makes one.  A
\* receiver starts behind the last event sent.
Subscribe(s) ==
    /\ Runs(s)
    /\ pc[s] = "inserting"
    /\ \/ /\ channel # None
          /\ UNCHANGED <<channel, channels>>
       \/ /\ channel = None
          /\ channels' = channels + 1
          /\ channel' = channels'
    /\ rx' = [rx EXCEPT ![s] = [channel |-> channel', next |-> Len(sent) + 1]]
    /\ visits' = [visits EXCEPT ![s] = @ + 1]
    /\ joined' = [joined EXCEPT ![s] = Len(sent) + 1]
    /\ got' = [got EXCEPT ![s] = {}]
    /\ Unlock(s, "streaming")
    /\ Leaves(s)
    /\ UNCHANGED <<guard, recordVars, sent, permitVars>>

\* The oldest event that a channel still holds.
Oldest == IF Len(sent) > Capacity THEN Len(sent) - Capacity + 1 ELSE 1

\* The stream of a subscriber is polled and the client takes its output.
Streams(s) == pc[s] = "streaming" /\ running[Place[s]] = None

\* recv gives the next event, which the stream yields.
Receive(s) ==
    /\ Streams(s)
    /\ rx[s].next \in Oldest .. Len(sent)
    /\ got' = [got EXCEPT ![s] = @ \cup {rx[s].next}]
    /\ rx' = [rx EXCEPT ![s].next = @ + 1]
    /\ UNCHANGED <<pc, running, queue, guard, recordVars, channelVars, visits,
                   joined, permitVars>>

\* Seeded faults: the stream subscribes anew, or asks for the same event again.
LaggedResubscribes(s) ==
    /\ Streams(s)
    /\ rx[s].next < Oldest
    /\ rx' = [rx EXCEPT ![s].next = Len(sent) + 1]
    /\ UNCHANGED <<pc, running, queue, guard, recordVars, channelVars, visits,
                   joined, got, permitVars>>
LaggedStays(s) ==
    /\ Streams(s)
    /\ rx[s].next < Oldest
    /\ UNCHANGED vars

\* recv reports that the channel has dropped events the stream had not read
\* yet; the stream goes on with the oldest one left.
Lagged(s) ==
    /\ Streams(s)
    /\ rx[s].next < Oldest
    /\ rx' = [rx EXCEPT ![s].next = Oldest]
    /\ UNCHANGED <<pc, running, queue, guard, recordVars, channelVars, visits,
                   joined, got, permitVars>>

\* The client closes the connection and the stream is dropped, with its
\* receiver.  The client may subscribe again.
Disconnect(s) ==
    /\ Streams(s)
    /\ pc' = [pc EXCEPT ![s] = "new"]
    /\ rx' = [rx EXCEPT ![s] = None]
    /\ joined' = [joined EXCEPT ![s] = 1]
    /\ got' = [got EXCEPT ![s] = {}]
    /\ UNCHANGED <<running, queue, guard, recordVars, channelVars, visits,
                   permitVars>>

-----------------------------------------------------------------------------

Init ==
    /\ pc = [t \in Task |-> "new"]
    /\ running = [w \in Thread |-> None]
    /\ queue = <<>>
    /\ guard = None
    /\ version = 0
    /\ event = [h \in Handler |-> 0]
    /\ sent = <<>>
    /\ channel = None
    /\ channels = 0
    /\ rx = [s \in Subscriber |-> None]
    /\ visits = [s \in Subscriber |-> 0]
    /\ joined = [s \in Subscriber |-> 1]
    /\ got = [s \in Subscriber |-> {}]
    /\ left = Targets
    /\ tasks = {}
    /\ permits = Permits
    /\ line = <<>>

\* What the runtime does with tasks that have begun.
HandlerStep(h) ==
    \/ Apply(h)
    \/ Lock(h)
    \/ Send(h)
    \/ Remove(h)
    \/ Acquire(h)
    \/ Spawn(h)
    \/ TaskEnd(h)

SubscriberStep(s) ==
    \/ Lock(s)
    \/ Subscribe(s)
    \/ Receive(s)
    \/ Lagged(s)

Next ==
    \/ \E t \in Task : Poll(t)
    \/ \E h \in Handler : HandlerStep(h)
    \/ \E s \in Subscriber : SubscriberStep(s) \/ Disconnect(s)

Spec == Init /\ [][Next]_vars

\* A thread that is not stopped goes on with its task, polls every task that
\* was woken, and ends replication tasks; clients that stay connected read
\* their streams.  Nothing makes a request arrive or a client leave.
Fairness ==
    /\ \A t \in Task : WF_vars(pc[t] # "new" /\ Poll(t))
    /\ \A h \in Handler : WF_vars(HandlerStep(h))
    /\ \A s \in Subscriber : WF_vars(SubscriberStep(s))

FairSpec == Spec /\ Fairness

-----------------------------------------------------------------------------
(* Properties.                                                             *)

TypeOK ==
    /\ pc \in [Task -> HandlerPc \cup SubscriberPc]
    /\ \A h \in Handler : pc[h] \in HandlerPc
    /\ \A s \in Subscriber : pc[s] \in SubscriberPc
    /\ running \in [Thread -> Task \cup {None}]
    /\ queue \in Seq(Task)
    /\ guard \in Handler \cup {None}
    /\ version \in Nat
    /\ event \in [Handler -> Nat]
    /\ sent \in Seq(Event)
    /\ channel \in Nat \cup {None}
    /\ channels \in Nat
    /\ rx \in [Subscriber -> Receiver \cup {None}]
    /\ visits \in [Subscriber -> Nat]
    /\ joined \in [Subscriber -> Nat]
    /\ got \in [Subscriber -> SUBSET Nat]
    /\ left \in [Handler -> Nat]
    /\ tasks \subseteq Replication
    /\ permits \in 0 .. Permits
    /\ line \in Seq(Handler)

\* A subscriber that is connected listens to the channel notify sends to: the
\* removal of an empty channel, decided under one lock and made under another,
\* never cuts off someone who subscribed in between.  (The branch of
\* subscribe_to_key for a closed channel is therefore never taken.)
NoOrphan ==
    \A s \in Subscriber :
        pc[s] = "streaming" => channel # None /\ rx[s].channel = channel

\* The handlers that keep the guard announce their versions in the order in
\* which they were made, however the lock of the channels is granted.
GuardedInOrder ==
    \A i, j \in DOMAIN sent :
        (i < j /\ {sent[i].by, sent[j].by} \subseteq Guarded)
            => sent[i].version <= sent[j].version

\* A connected subscriber misses an event only when as many further events as
\* the channel holds were sent before it read that one.
MissedOnlyWhenFull ==
    \A s \in Subscriber : pc[s] = "streaming" =>
        \A i \in joined[s] .. rx[s].next - 1 :
            i \in got[s] \/ Len(sent) >= i + Capacity

\* The handlers that own a permit they have not passed on to a task yet.
Spawning == {h \in Handler : pc[h] = "spawning"}

\* Every permit is free, or with a handler about to spawn a task, or held by one
\* replication task that has not ended: no more tasks run than the semaphore
\* has permits, and none leaks.
PermitsKept == Cardinality(tasks) + Cardinality(Spawning) + permits = Permits

\* The threads that stand still because the guard is taken.
Blocked == {w \in Thread : /\ guard # None
                           /\ running[w] # None
                           /\ pc[running[w]] = "locking"}

\* The tasks that must leave the lock before the j-th of the queue gets it: its
\* owners, and who queues ahead, unless both are readers of one batch.
Ahead(j) ==
    Owners \cup {queue[i] : i \in {n \in 1 .. j - 1 :
                      \E m \in n .. j : pc[queue[m]] # "notify"}}

\* A thread waits for the guard, whose holder waits, to be polled or for the
\* lock, for a task that only this thread can poll.
Stuck ==
    \/ guard # None /\ Place[guard] \in Blocked
    \/ \E j \in DOMAIN queue :
          /\ queue[j] = guard
          /\ \E u \in Ahead(j) : Place[u] \in Blocked

\* No thread waits for a task that only itself can run.
NoThreadStuck == ~Stuck

\* Every request that was taken up is answered, unless a thread waits for a
\* task that only itself can run: guard, lock and permits wait for each other
\* in no other circle.
EventuallyAnswered ==
    \A h \in Handler : pc[h] # "new" ~> (pc[h] = "done" \/ Stuck)

\* A subscriber that stays connected ends up with the last event, however slow
\* it was, unless its node is stuck.
EventuallyCaughtUp ==
    \A s \in Subscriber :
        <>[](pc[s] = "streaming" =>
                \/ sent = <<>> \/ joined[s] > Len(sent) \/ Len(sent) \in got[s]
                \/ Stuck)

-----------------------------------------------------------------------------
(* The inductive invariant behind the safety properties.                   *)

\* A thread runs only its own tasks.
RunInv == \A w \in Thread : running[w] # None => Place[running[w]] = w

\* Who waits for the lock waits once, at one of its awaits, and is not running.
QueueInv ==
    /\ \A i \in DOMAIN queue : pc[queue[i]] \in Awaiting /\ ~Runs(queue[i])
    /\ \A i, j \in DOMAIN queue : queue[i] = queue[j] => i = j

\* The same of who waits for a permit.
LineInv ==
    /\ \A i \in DOMAIN line : pc[line[i]] = "waiting" /\ ~Runs(line[i])
    /\ \A i, j \in DOMAIN line : line[i] = line[j] => i = j

\* Where a handler has changed the record and may not have announced it yet.
Announcing == {"notify", "sending", "cleanup", "removing"}

\* A handler that keeps the guard has it from its change of the record until it
\* returns, so nobody changes the record before that change is announced.
GuardInv ==
    /\ \A h \in Guarded : pc[h] \in Announcing => guard = h
    /\ guard # None => /\ guard \in Guarded
                       /\ pc[guard] \in Announcing
                       /\ event[guard] = version
    /\ \A i \in DOMAIN sent :
          sent[i].by \in Guarded => sent[i].version <= version
    /\ GuardedInOrder

StreamInv ==
    /\ \A s \in Subscriber : pc[s] = "streaming" => rx[s] # None
    /\ NoOrphan
    /\ MissedOnlyWhenFull

\* The targets of a handler are numbered downwards as tasks are spawned.
PermitInv ==
    /\ IsFiniteSet(tasks)
    /\ IsFiniteSet(Spawning)
    /\ \A t \in tasks : left[t.by] < t.target
    /\ PermitsKept

\* What the queues, the guard, the streams and the permits rest on.
RuntimeInv ==
    /\ TypeOK
    /\ RunInv /\ QueueInv /\ LineInv
    /\ GuardInv
    /\ StreamInv
    /\ PermitInv

=============================================================================
