# A TLA+ development of DynaRust

DynaRust is a replicated key-value store: every node keeps all tables in memory,
any node takes requests, and changes are replicated to all active nodes by
background HTTP requests. This directory holds specifications of its replicated
store, of what happens inside a node, of its disk and restarts, of its user
accounts and of its cluster membership, the TLC configurations that check them on
small instances, and TLAPS proofs of what holds for every instance. All source
paths below are relative to the repository's `src/`.

## Inventory

| component | source | state | operations | correct when |
|---|---|---|---|---|
| versioned records | `storage/engine.rs` | body, vector clock, timestamp, owner | `new`, `update`, `patch`, `dominates`, merge, selection, repair test | dominance means causality; a merge gives the same result in any order |
| replicated handlers | `storage/engine.rs` | one map per table; spawned tasks with retries | GET with read repair, PUT, PATCH, DELETE, and their internal counterparts | replicas converge, no acknowledged write is undone, only the owner changes a record, reads are fresh, every task ends |
| admin API | `storage/admin.rs` | the same maps | put and delete without owner check, one replication attempt | as above |
| membership | `network/broadcaster.rs`, `join_cluster` in `storage/engine.rs`, `main.rs` | address -> status and last heartbeat | join, probe (direct and through helpers), gossip, merge | only silent nodes are listed as Down; listings agree with what runs |
| hash ring | `get_replication_nodes` | none | order of the targets | every node once |
| subscriptions | `storage/subscription.rs` | a broadcast channel per key | subscribe, notify, clean up | no subscriber is cut off; merges are announced in order; a slow subscriber ends with the last event |
| persistence | `storage/persistance.rs` | one data file and WAL per table | periodic save, load, merge of a remote store | a full save is read back; one that is cut short leaves nothing older; what stays in memory is saved in the end |
| snapshots | `storage/snapshoting.rs` | copies of the files | write, prune | the newest copies stay |
| authentication | `security/authentication.rs` | the `auth` table | register, log in, replicate a user (and the key-value routes, which reach the same records) | one secret per user on all nodes |
| statistics | `storage/statistics.rs` | counters | count, report | display only |
| start-up | `main.rs` | - | load, join, pull the store, serve | see membership and persistence |

How they interact. Handlers read the membership map for their targets, update
the local map under a DashMap lock, notify subscriptions, take one of 20
semaphore permits per target and spawn a task that calls the internal handler of
the target, three times at most. GET asks all active nodes, selects the latest
answer and spawns repairs. The membership task changes which nodes are active
while all this is under way.

What is hard: requests that arrive late, twice or not at all; the comparison of
versions, which mixes vector clocks and wall clocks; checks and effects that are
separated by an unlock or an await; nodes that pause or restart and come back
with old views; clocks that tie, drift or are set back. `PROJECT.json` lists
these hazards with the line where each bites and the properties aimed at it.

## Modules

| module | what it is |
|---|---|
| `VersionedValue` | the record and its pure operations |
| `ReplicatedStore` | the handlers and replication tasks for one key |
| `RestartingStore` | `ReplicatedStore` composed with saves, kills, restarts and the merge on joining |
| `TwoNodes` | the deployment on two nodes that both take requests, and its inductive invariant |
| `SingleCoordinator` | the deployment in which clients of a key use one node, its inductive invariants and its refinement mapping |
| `PrimaryCopy` | the abstract specification that `SingleCoordinator` implements |
| `NodeRuntime` | threads, guards, permits and subscriptions inside one node |
| `ColdStorage` | the periodic save and the reload of one node's tables |
| `Accounts` | registration and login of one user |
| `Membership` | the membership protocol |
| `MCReplicatedStore`, `MCRestartingStore`, `MCSingleCoordinator`, `MCNodeRuntime`, `MCColdStorage`, `MCMembership` | instances for TLC |
| `FoldProofs` | what a fold over a sequence of any length computes |
| `ReplicatedStoreProofs`, `SingleCoordinatorProofs`, `RestartingStoreProofs`, `NodeRuntimeProofs`, `ColdStorageProofs`, `AccountsProofs`, `MembershipProofs` | theorems |

### VersionedValue

A JSON body is the set of client writes folded into it (PUT replaces, PATCH
adds), which is what the properties tell apart. A clock is a function on all
nodes with 0 for a missing entry. `Dominates` keeps the two loops of
`dominates`; that they compute the pointwise order is the theorem
`DominatesIsPointwise`. `Latest` is `max_by` as a fold of its one step `Later`, and `LatestOf` ranges over
all orders in which the ring may list the nodes. `id` is a ghost.

### ReplicatedStore

One key is modelled: handlers touch one key each. `store[n]` is node n's entry,
`tasks` the replication requests under way, `reads` the GETs, `deletes` the
DELETEs between their check and their removal. PUT, PATCH and the admin writes
are one step, because the table stays locked from the owner check to the insert.
What follows (notification, permits, spawning) delays tasks, and a delayed task is
one that is delivered later. DELETE is two steps, since the lock is released
in between. A GET is one step per node asked and one to finish.

An attempt of a task is answered (`Deliver`), refused (`Refuse`), handled with its
answer lost (`DeliverUnanswered`), or timed out (`Timeout`), in which case
the abandoned request may still arrive later or never (`Drop`). `tasks` is a set: two abandoned attempts of one task
that are under way together are one element and arrive once. `log`, `seen`,
`failures` and `lost` are ghosts: the accepted requests with what their node knew,
what each node has known, the faults so far, and whether some request was given up.

Constants stand for the environment: `Views` (what a node may list as active),
`Gap` and `Skew` (how time passes and what clocks read), `SecretSet`, and the bounds
`Budget`, `MaxRequests` and `Faults`. `KeepingSpec` is the store of a key that nobody
removes; several properties hold only there, since a removal leaves no trace.

### TwoNodes

No state of its own: `Deployed` says what the deployment is (two nodes that list each
other as active, timestamps that tell writes apart and agree with their order), and `PairInv`
is the invariant that its properties follow from.

### PrimaryCopy and SingleCoordinator

`PrimaryCopy` is what a client would like to be told: there is one history of bodies, the
coordinator holds its last one, every other node holds some body of it and only
moves forward. `SingleCoordinator` maps the detailed state to it: `requests` is the
length of the log, `history` the body after each write, `copy` what each node
holds without clocks and timestamps. `ImplementsPrimaryCopy` is checked by TLC and proved.

### RestartingStore

Adds to every node a last save (`disk`), a phase and what it fetched from the node it
joins. A kill loses the store, the handlers and the tasks (requests on their way may
still arrive); a save under way may take the previous one with it. The node comes back
with its save, or with an empty store and the save still on disk when loading fails, merges what it fetched before it began to serve (other nodes may have
written since), and serves. `ColdStorage` justifies the one-step save,
for a key that no other key is trimmed to.

### NodeRuntime

One node and one key, with the record reduced to the number of changes made to it. A
worker thread runs one task at a time and leaves it only at an await that cannot go
on; the table's guard is a blocking lock and stops the thread. `Guarded` handlers
(`put_value_internal`, the internal branch of `access`) keep the guard
until they return, the others release it before they notify. The lock of the channels is
tokio's RwLock: who finds it taken, or others waiting, queues up (`queue`), and who leaves it hands it to the
first writer or the first readers of the queue (`HandsTo`), who own it from then on, whether or not their
thread comes to poll them. The semaphore hands its permits on in the same way (`line`). The channel with its capacity, the clean-up in two lock scopes, streams that lag and
leave, and the semaphore with the replication tasks that hold its permits are modelled
step by step. `Place` says which thread polls
which task. `Stuck` is the circle this makes possible: a thread stands still at the guard, and the guard's
holder waits, to be polled or behind others in the queue of the lock, for a task that only
this thread can poll.

### ColdStorage

A record is the number of the write that made it; a data file is the sequence of its
complete lines, each with the key as it was written, and whether the last line is torn. The saver
lists the tables, copies one key by key under the table's guard, truncates the file, writes
the lines in any order and empties the WAL; an error ends the whole save. A kill or an
error may fall anywhere. The reload cuts each line at its first `=` and trims the key: `ReadAs` says
under which key a line comes back (blanks around it are lost, and of a key with a newline only
what follows the newline is left) and `Skipped` which lines are not read at all (those of keys with a `=`).
Two keys may be read back as one, and then the line that comes last decides. Then it replays the WAL. It
refuses to start when a line does not decrypt. A failing read starts with an empty store. Left out: a key
that contains a newline and a whole record line of its own, which would be read as a second record.

### Accounts

One user name; the record (hash and owner) that each node holds, the requests under way, and as
ghosts the secrets that were registered or got a token and what other routes have stored. `access` is
`Register`, `Login` and `Replicate`. The record is also a key of the table `auth`, which
the key-value and the admin routes change like any other: `Write` (PUT, PATCH and the admin's PUT), `Delete`,
`Repair` (of a GET), `Merge` (`put_value_internal`) and `Remove`. Clocks and
timestamps are left out there and either version may win a merge.

### Membership

`nodes[n]` is the map of node n, a total function with `None` for missing keys. A
round of `membership_sync` is cut where it awaits: `BeginRound` selects the targets,
`CheckNode` decides the outcome of a probe, `Record` writes it (gossip may
arrive in between), `Gossip` ends the round. `Join`, `Joined` and `JoinFailed` are
the two sides of joining; the server of a joining node does not answer yet, and joining through
a paused node hangs until that resumes or dies (`Hangs`), since the client has no timeout. `Receive`
is `update_membership`, one step because the map is locked throughout. `Crash` loses
the map, `Pause` and `Resume` keep it (the test suite stops nodes that way). The
subtraction of `update_node_status` wraps at `Word`, as u128 does in a release build.
`NodeStatus::Leaving` is left out: nothing sets it.

The two modules meet in `Views`: `ReplicatedStore` lets a node see any set in
`Views` as active at any moment, which covers what `Membership` can produce.

## Runs

Passing:

* **restarts** - two nodes, two users, any views, any three requests (PUTs, a PATCH, an
  admin PUT, a DELETE), saves at any moment and one kill and restart. `OwnerWrote`: records
  hold writes of their owner and the administrator only, although merges, repairs and
  recoveries check no owner; `RecoveryInv` is its inductive form. `ReplicaAdvances`: a record is exchanged only for one that supersedes
  it. `OutrankedOnlyAfterRestart`: a write's clock is reached by that of an earlier write
  only if the key was removed or a node had restarted before. When all requests went to one node
  it takes a restart of that node; otherwise a node that has restarted and is asked next can set back the
  entry of the other one, through a merge.
* **two_nodes** - a PUT, two PATCHes and a GET at two nodes, distinct timestamps, two attempts
  per task and two faults, so that tasks are retried, abandoned and given up.
  `PairInv`, the inductive invariant behind the others; `CausalClocks`, `ClockIdentifies`, `QuiescentConverged` (replicas agree
  when all is quiet and nothing was given up), `NoRollback` (no replica goes back to
  a version it has known), `ReadFresh` (the GET's result does not depend on the ring order
  and is not older than the coordinator's record at the start), `StaleRepaired`. The violation
  runs show what is lost with a third node or a DELETE. Ties of timestamps are left to the
  theorem `TieNeverMerges`. Read repair goes by timestamps where selection goes by clocks, which
  makes no difference in this run: with clocks that disagree or tie it misses a stale
  replica (theorem `RepairFollowsTime`).
* **single_coordinator** - one node takes all requests, its clock may be
  set back by 2 ms, and `CLUSTER_SECRET` is not set, so that admin replication is
  refused. The refinement `ImplementsPrimaryCopy`, `AckedWritesKept`, `QuiescentConverged`, `NoRollback`, the
  inductive invariants `LeaderInv`, `HistoryInv`, `SeenInv` and `FloorInv`, and the liveness properties `EventuallyQuiet`
  and `EventuallyConverged`.
* **node_runtime** - a PUT with two targets and one permit, two internal PUTs,
  each on a thread of its own, and on the thread of the PUT a subscriber that comes twice, with a channel
  of one event. `NoOrphan`: clean-up never cuts off someone who subscribes meanwhile.
  `GuardedInOrder`: merges are announced in their order. `MissedOnlyWhenFull`,
  `EventuallyCaughtUp`: lagging loses only what did not fit, never the last event.
  `PermitsKept`: no permit is lost or given back twice. `RuntimeInv` is their inductive form and contains the
  type invariant. `EventuallyAnswered`: guard, channel lock and permits wait in no other circle than
  `Stuck`. That circle does occur here, across threads: the subscriber is handed the lock while the PUT stops its
  thread at the guard, and the guard's holder queues behind the subscriber.
* **cold_storage** - two tables and three keys, one of which is trimmed to another and one not read
  back, a PUT and any DELETEs, one kill and one error at any step, from a directory with an old WAL.
  `FullSaveReadable`: a reload gives each key a record that the last full save wrote for a key read back as it, and no
  other record. `CutSaveLeavesPart`: a save that was cut short leaves a part of its own copy and nothing
  of the save before, and only then does the node refuse to start. `CopyIsACut`, the inductive form
  `StorageInv`, and `EventuallySaved`.
* **membership_pair** - two nodes, one of which joins the other, one crash or pause
  anywhere. The type invariant (no node selects itself for a probe), `DownSilent`, its inductive form `EvidenceInv`, and the liveness
  properties `EventuallyDetected` and `EventuallyMutual`.

Violated, each by a behaviour of the code that contradicts a document or comment
(quoted in `PROJECT.json`):

* **causal_three_nodes** - merging keeps one clock and drops the other, so that with
  three nodes and six writes a record dominates one it never saw.
* **delete_diverges** - without tombstones a late replication request, for instance the one a
  PUT sends to its own node, undoes a DELETE on one node only.
* **delete_race** - the record removed is not the record checked.
* **guard_deadlock** - two internal PUTs on one thread: the first yields inside `notify`
  with the table's guard held, the second stops the thread on that guard for good (theorem `StuckForGood`).
* **registration_race** - a user registered at two nodes at once ends with different
  secrets on them.
* **membership_skew** - a heartbeat time ahead of the local clock wraps the
  subtraction, and the node goes Down at the second failed probe.

`CHECK_DEADLOCK FALSE` throughout: clients stop when their budget is used, and a
cluster whose nodes are stopped stays so.

Bounds. Two nodes let every pair of handlers interleave; the third matters only
where clocks are merged twice, which is the violation. One or two faults let a task be
retried after success, be abandoned, and arrive late; with as many faults as attempts,
as in `two_nodes`, it is given up. `restarts` has one attempt per request and no other fault than the kill, which
already loses, delays and refuses requests, and each write takes time of its own there,
because what it asks about clocks does not depend on timestamps. One permit, a channel of
one event and one error are the smallest numbers at which the limits
are met; with a key from the WAL one PUT is enough to fall between two keys of a copy, to meet the key it
is trimmed to, and to change a table between a full save and one that is cut short. Four
requests in `restarts` are too many to exhaust; within 12 steps from the start, and in random walks with
six requests and two kills, `OutrankedOnlyAfterRestart` holds too. In
`membership_pair` one unit of time is the threshold (five intervals in the code), two units are enough to
go Down, and one outage makes probes fail for any length of time. Lost probes are
left to the proofs and to `membership_skew`, and so are helpers, which need a third node:
with three nodes whose rounds overlap freely there are millions of states even without time or outages,
too many for checking liveness.
Symmetry is used only in runs without liveness, over nodes that may all coordinate and
users that may all ask.

Fairness. In the store `TaskStep` and `ReadStep` are weakly fair: tokio keeps polling
spawned tasks, and each request ends by an answer or the client's 3 s timeout. In
`NodeRuntime` a thread that is not stopped goes on with its task and polls what was
woken, replication tasks end (three attempts of 3 s), and a connected client reads
its stream; lock and semaphore serve their queues in order, so weak fairness of each task is
enough. In `ColdStorage` the saver goes on, its timer fires, and a process
that was killed is started again by whoever supervises it. In
`Membership` the steps of a node's own loop, of joining and of delayed gossip
are fair, and so is the end of each update, delivered or not. Client requests,
starts, resumptions, ticks, errors and outages are not fair. `EventuallyDetected` relies
on a round checking all other nodes, as it does when there are at most three.

Each property of a passing run has a seeded fault (definitions marked "Seeded
fault" in the modules) that breaks it; `PROJECT.json` pairs them under `mutants`.

## Proofs

* `FoldProofs`: the library defines `FoldLeft` by recursion over sets of indices. Its
  induction theorems take an operator as a parameter and cannot be used here; the
  lemmas go by the smallest element of a set of numbers instead, and describe the folded operator by
  its graph. They give what a fold computes for a sequence of any length.
* `ReplicatedStoreProofs`, first part, for any set of nodes: `dominates` is the pointwise
  strict order; no two versions supersede each other; merging two comparable versions gives the same
  result in either order; concurrent versions with the same timestamp never merge; a GET repairs a superseded answer exactly
  when its timestamp is older (`RepairFollowsTime`), whatever the clocks say; `max_by`
  finds an answer that supersedes all the others in a list of any length and
  in any order (`LatestSupersedes`, `LatestWhateverTheOrder`), although the
  comparison is not transitive.
* `ReplicatedStoreProofs`, second part, for any nodes, users, views, clocks, retries and faults:
  `TypeCorrect`; `OwnerWroteEverything`; `ReplicasAdvance`. `OwnerWrote` is not inductive,
  because a GET turns collected answers into repair tasks: `OwnerInv` adds
  that the answers, too, hold their owner's writes, and that ids are in the log.
* `ReplicatedStoreProofs`, third part, from `Deployed` (two nodes that list each other, clocks that
  agree, no two writes in one millisecond) and `KeepingSpec` (no deletes), both nodes taking
  any number of requests, with any faults: `PairCausal`, `PairIdentifies`,
  `PairNeverRollsBack`, `PairReadsFresh` and `PairConverges`. `Deployed` is needed: two writes in one
  millisecond leave replicas different for good. A merge keeps
  one of two concurrent clocks, so that a node's own entry can fall back and grow again: no
  single entry grows with time. What `PairInv`
  finds instead is that the order of writes is everywhere. Timestamps follow it (`PairTimes`), no replica
  falls behind its own writes or what it has seen, and the clocks follow it lexicographically
  (`PairEntries`, `PairBefore`): of two versions made by one node the later has more in the *other*
  node's entry, in which case that node has written in between, or the same there and more in its own; and a version
  of the other node has more in its maker's entry. Hence a later version is never dominated, a merge, a selection
  and the repair test all keep the later write (`PairOrder`, `PairMerge`), and an entry
  that reaches that of an earlier version has seen it (`PairSeen`). That a node has written in between
  is what makes it inductive: when a node takes a version newer than its own it has not written since,
  so every later version agrees with that one in its entry (`PairNewer`). With a
  third node the entry of a clock can grow through it, and `causal_three_nodes` is what happens.
* `RestartingStoreProofs`, for any number of kills, age and loss of saves:
  `OwnerWroteRecovered` and `ReplicasAdvanceRecovered`, the same two results. `RecoveryInv` carries
  provenance through saves and fetched stores, and states that a node that
  does not serve holds nothing in memory, so that the merge on joining replaces no record.
  For a key with one coordinator, `OutrankedNeedsRestart`. Its invariant
  `EntryInv` speaks of every version in memory, in a save, fetched, collected or on its way: the coordinator's
  clock entry is the only one in use, it orders any two versions as their writes
  unless the coordinator was killed before the later one, and as long as it has not
  been killed its own record has the largest entry of all. With two coordinators a restart of either is
  enough. With several coordinators and three
  nodes a merge can take an entry back without any restart, as in `causal_three_nodes`.
* `SingleCoordinatorProofs`, from `LeaderAssumption` (one coordinator, full views)
  and `KeepingSpec` (no deletes), in four layers.
  `LeaderInv` says that the coordinator's version is the newest of all that is
  stored, in flight or collected, compared in the coordinator's clock entry, the only
  one in use; that it holds the current writes; and that a node that lacks it is
  still being sent it unless a request was given up: `AckedWritesAreKept`,
  `ReplicasConverge`. It does not order two versions that are both behind the coordinator's,
  which a replica may hold and be sent; `HistoryInv` adds that any two versions anywhere are
  ordered alike by the clock entry and by the log, and that each is a body of the history. Then a merge
  that replaces a record is a `CatchUp` of `PrimaryCopy`, a write a `Write`, the start of a GET a
  `Read`, and everything else a stutter: `ImplementsPrimary`; and `ClocksIdentify`. `SeenInv` adds that
  a node knows of exactly the history up to the version it holds: `ClocksAreCausal`,
  `NothingRollsBack`. `FloorInv` follows the coordinator's own answer through a GET:
  `ReadsAreFresh`, with `LatestSupersedes` for the order of the ring.
  Timestamps play no part in these arguments, which is why the clock may do anything.
* `NodeRuntimeProofs`, for any threads, handlers, subscribers, placement, capacity
  and permits: `NobodyIsCutOff`, `MergesAnnouncedInOrder`, `NothingElseMissed`, `PermitsAreKept`.
  `RuntimeInv` adds to these properties that threads run their own tasks, that who is in a queue waits there once and is
  not running, who has the guard when (`GuardInv`: from the change
  of the record to the return, so that no later version exists before an announcement), that streams have a
  receiver, and that the targets a handler has yet to serve differ from those
  of its running tasks, without which spawning would not add a task.
  `StuckForGood`: once a thread is in the circle `Stuck` no step of any task takes it out, because the queue only
  loses tasks at its head when an owner of the lock leaves, and the owner or the one ahead is
  a task that the stopped thread does not poll.
* `ColdStorageProofs`, for any tables, keys, chunks, errors, kills and WALs of any length:
  `LastEntryDecides` (of the lines and WAL entries read under one key the last one counts), `SavedCopyIsACut`, `FullSavesAreReadable`
  and `CutSavesLeaveParts`, for any `ReadAs` and `Skipped`.
  `StorageInv` adds to them that only deletes change the table while it is copied
  (`SaverInv`), that a file without an unfinished save has an empty WAL and a line for every saved record, and
  that a file being written has lines of the copy only (`FileInv`).
* `AccountsProofs`, for any nodes, users, secrets and views: `TokensNeedStoredSecrets` (a token is issued only for a
  secret that was registered or whose hash another route stored), and
  `UnracedAuthenticatesAnywhere`, the part of the promise that `registration_race`
  leaves standing, as long as no other route touches the record. The invariant says that every stored or travelling hash was registered or
  written, and that a node without the only secret in use is still being sent it.
* `MembershipProofs`: `TypeCorrect`; from `Synchronised` (all clocks agree)
  `EvidenceInvariant` and `DownMeansSilent`. The invariant carries soundness through
  every map that is held, answered to a join or gossiped, and states that
  an exchange never takes an entry back behind the node's own last answer.

Assumptions on constants are the named `ASSUME`s, which TLC evaluates in the runs.
`Deployed` is a hypothesis of the theorems about two nodes and holds in `StoreTwoNodes.cfg`.
Only model-checked: liveness (fairness is out of the prover's reach), and
`OutrankedOnlyAfterRestart` for two nodes that both take requests (with one coordinator it
is proved). `StaleRepaired` is checked where clocks agree; it is false for
a coordinator whose clock is set back (`RepairFollowsTime`). `EntryInv` is proved
and not part of a run: the run with restarts has two coordinators, to which it does not apply.

## Not modelled, and the plan

Next: `OutrankedOnlyAfterRestart` for two coordinators, which needs the order of `PairInv` cut at
each node's last restart; the size limit of the membership map, which takes a third node.

Left out for good: snapshots (backup files that no code reads back), statistics (counters
for display), the dashboard and the read-only listings (no state), the hashing of the ring
(every caller asks for all active nodes, so it decides only an order, and the models allow every order),
TLS, JWT and encryption (library calls).
