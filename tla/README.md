# A verification development of the QD locking library

This directory holds TLA+ specifications of the C++ QD locking library in `src/`,
configurations that model-check them with TLC, and theorems about them whose proofs
TLAPS checks. The modules are translated from the code; paths and line numbers below
refer to `src/`. `PROJECT.json` lists the runs, the lines every definition stands for,
the hazards and the findings.

A *queue delegation lock* does not only exclude threads from each other: a thread hands
its critical section, the *operation*, to the lock. If the lock is free the thread runs
the operation itself. Otherwise it stores it in the *delegation queue* of the lock and
returns, and the thread that holds the lock, the *helper*, runs it. What is hard is that
storing and running, opening and closing the queue and giving up the lock overlap in
every way that atomic instructions allow, with no lock around any of it.

## 1. The system

### Components

| component | source | state | operations | status |
|---|---|---|---|---|
| queue delegation | `qdlock_base.hpp` | a mutex lock, a delegation queue; per call a retry counter | `delegate`, `try_enqueue`, `helper`, `executor` | `QDLock` |
| qdlock interface | `qdlock.hpp`, `qd.hpp` | none of its own | `delegate_n/f/p/fp`, `lock`, `unlock` | `QDLock` |
| waiting future | `waiting_future.hpp` | the shared state of a `std::future` | `get`, `wait`, destructor, `discard`, assignment | `QDLock` |
| dual buffer queue | `queues/dual_buffer_queue.hpp` | `counter`, `entries[]`, `buffer_array` | `open`, `enqueue`, `flush` | `DualBufferQueue` |
| MCS futex lock | `locks/mcs_futex_lock.hpp` | one word (last node and flag), one node per thread | `lock`, `unlock`, `try_lock`, `try_lock_or_wait`, `is_locked`, `wake` | `McsFutexLock`, `HandoffLock` |
| multiple reader qdlock | `mrqdlock.hpp` | `writeBarrier`, reader indicator, a `qdlock_base` | `rlock`, `runlock`, `lock`, `unlock`, `delegate_*` | `MRHQDLock` |
| reader groups | `readindicator/reader_groups.hpp` | an array of counters | `arrive`, `depart`, `query` | `ReaderGroups` |
| hierarchical qdlock | `hqdlock.hpp` | a global lock, one `qdlock_base` per NUMA node, the mapping of CPUs | `delegate_*`, `lock`, `unlock`, reader variants | `MRHQDLock`, but for a number of nodes that was never set |
| ticket futex lock | `locks/ticket_futex_lock.hpp` | `ticket`, `serving` with a flag bit | as above | `TicketFutexLock` |
| futex lock | `locks/futex_lock.hpp` | one word: free, taken, contended | as above | `FutexLock` |
| MCS lock | `locks/mcs_lock.hpp` | tail pointer, nodes | `lock`, `unlock`, `try_lock` | `McsLock` |
| buffer queue | `queues/buffer_queue.hpp` | `counter`, `closed`, bytes, three replaced maps, two stacks of maps to free | `open`, `enqueue`, `flush` | `BufferQueue`, in part |
| entry queue | `queues/entry_queue.hpp` | `counter`, `closed`, entries | `open`, `enqueue`, `flush` | `EntryQueue` |
| thread identifiers | `threadid.hpp` | `max_id`, `orphans` under a mutex | `get`, `free` | `ThreadId` |
| test-and-set, mutex, pthreads locks | `locks/tatas_lock.hpp` and others | a flag, or an OS mutex and a flag | thin wrappers | in `MRHQDLock`, where their memory order matters; `waitable_lock` is used by nobody and not modelled |
| simple locked queue | `queues/simple_locked_queue.hpp` | a `std::queue` under a mutex | `enqueue`, `flush` | not modelled: it has no `status` type, so no `qdlock_base` can use it |
| condition variable | `qd_condition_variable.hpp` | | | not modelled: commented out in `qd.hpp`, does not compile when instantiated |
| utilities, examples, tests | `util/`, `padded.hpp`, `examples/`, `tests/` | none | | not modelled; read for what callers do |

`qdlock`, the type that programs use, is `qdlock_impl<mcs_futex_lock,
dual_buffer_queue<6144, 24, use_fetch_and_add>, starvation_free>` (`qd.hpp`); the models
cover the other values of the last two policies as well.

### How they interact

* `delegate()` calls `try_lock()` of the lock. On success it is the *executor*: it runs
  its operation and unlocks, without a look at the queue.
* Otherwise it loops: one `enqueue()`, then one try at the lock. If the enqueue succeeds
  the call returns. If the lock is won after a refused enqueue, the thread is the
  *helper*: it opens the queue, runs its own operation, calls `flush()`, unlocks.
* Every 128th round the try at the lock is `try_lock_or_wait()`, which sleeps in the
  kernel until an unlock wakes it. After 511 rounds the starvation free variant calls
  `lock()` and runs its operation as an executor does.
* `enqueue()` claims consecutive slots with one instruction on `counter`, writes size and
  parameters and publishes the slot by storing its function pointer. `flush()` runs slots
  in order, spins on a claimed one until it is published, and closes the queue with an
  exchange on `counter` when it sees no new claim; only then it clears the pointers.
* The lock and the queue share no variable. All that ties them together is that `open()`
  and `flush()` are called by the thread that holds the lock.
* A multiple reader lock puts two waits into `delegate()`: for the write barrier before
  the lock, for the readers after it. A hierarchical lock puts a global lock around
  `helper()` and `executor()` of each node.

### What is hard, and what makes each component correct

* **Queue delegation.** Enqueuers that saw an open queue are still under way when it is
  closed, when the lock is free, when an executor runs, when the next helper opens it. A
  refused operation is retried by the same call in later sessions. Correct means: one
  operation at a time; each exactly once; none lost when the queue closes; an operation
  runs after those accepted before it was delegated; every call returns.
* **Dual buffer queue.** Claims beyond the end of the array and across it; a scan that
  follows sizes which enqueuers write; entries reused in the next session. Correct means:
  the scan stays on entry boundaries and calls what was stored in this session; `flush()`
  ends; the counter is far from wrapping.
* **MCS futex lock.** `lock()` links its node after the exchange that queues it, `unlock()`
  reads pointer, flag and word at three times; two kinds of kernel waits. Correct means:
  one owner; the list is the order of the exchanges; no wake is lost.
* **Multiple reader lock.** Readers and writers each announce themselves and then look at
  the other, which needs sequential consistency; a stalled reader raises a barrier that
  delegators wait for. Correct: no reader beside a writer, readers get in, no deadlock.
* **Hierarchical lock.** A thread may change its node between `lock()` and `unlock()`, and
  without libnuma the number of nodes is not set. Correct: one section over all nodes,
  each lock released by the thread that took it.
* **Ticket and futex locks.** Words read at different times, overflow of the tickets;
  correct: one owner, no sleeper without a waker, `is_locked()` as the state is.
* **Buffer and entry queue.** Two variables for closed and claimed; functions registered
  by replacing maps that others read. Correct: what the dual buffer queue promises.
* **Thread identifiers.** Correct: identifiers in use are distinct, `max_id` is the
  largest, the free ones below it are the orphans.

## 2. The modules

The queue delegation lock that programs use, from the interface to the atomic
instruction:

| module | what it is |
|---|---|
| `Threads` | the set of threads, shared by all components |
| `DualBufferQueue` | the queue: state and actions of `open()`, `enqueue()`, `flush()` |
| `HandoffLock` | what `delegate()` sees of its lock: one action per atomic instruction at which an operation of the lock takes effect |
| `QDLock` | `delegate()`, `lock()`, `unlock()`, futures: conjoins the actions of the two modules above at the program counters of `delegate()`; the properties |
| `Delegation` | the abstract specification: operations are delegated, accepted, run one at a time, and return |
| `QDLockRefinement` | the refinement mappings from `QDLock` to `Delegation`, and from its queue to `TantrumQueue` |
| `QDLockInvariants` | the inductive invariant, in named parts |
| `QDLockProofs` | TLAPS: types, the holder of the lock, mutual exclusion, the bound of the counter |
| `QDLockSessionProofs` | TLAPS: the inductive invariant and what follows from it |
| `QDLockOrderProofs` | TLAPS: operations run in real-time order |
| `QDLockRefinementProofs` | TLAPS: the step simulations from `QDLock` to `Delegation` and to `TantrumQueue` |
| `McsFutexLock` | the lock itself, one action per access or system call; shown to implement `HandoffLock` |
| `McsFutexLockProofs` | TLAPS: its inductive invariant, its safety properties, the step simulation to `HandoffLock` |

Readers and nodes, which put hooks into `delegate()`:

| module | what it is |
|---|---|
| `ThreadId` | identifiers that are given out, given back and reused |
| `ReaderGroups` | extends it: counters indexed by identifier; `query()` looks at one group per step |
| `MRHQDLock` | extends that: `mrqdlock_impl`, `hqdlock_impl` and `mrhqdlock_impl`, which differ in the hooks and in which lock readers look at |
| `MRHQDLockProofs` | TLAPS: the inductive invariant and all safety properties of `MRHQDLock` |

The other locks and queues that the templates can be instantiated with:

| module | what it is |
|---|---|
| `FutexLock`, `TicketFutexLock`, `McsLock` | one action per access or system call |
| `MCLocks` | all four locks with one set of promises: one owner, no sleeper forgotten, order, calls return |
| `LocksProofs` | TLAPS: an inductive invariant for each lock, and the safety properties of `MCLocks`; it takes those of the fourth from `McsFutexLockProofs` |
| `TantrumQueue` | the abstract specification of a delegation queue: sessions, accepted operations |
| `FlaggedQueue` | what the two queues with a counter and a flag share: actions parameterised by the capacity and the place |
| `EntryQueue`, `BufferQueue` | the two queues |
| `MCQueues` | both queues, and that they implement `TantrumQueue` |
| `QueuesProofs` | TLAPS: an inductive invariant for each of the two queues, their safety properties, the step simulation to `TantrumQueue` |
| `MCQDLock`, `MCMcsFutexLock`, `MCMRHQDLock` | instances for TLC |

`TantrumQueue` is what `MRHQDLock` keeps of a queue (a session and the number of accepted
operations), as `HandoffLock` is what `QDLock` keeps of a lock.

### Correspondence

*DualBufferQueue.* `counter` and `entries` are the members of those names; of an entry we
keep whether its pointer is null, a wrapper, `no_op` or garbage. Of the buffer we keep the
size word at the start of a slot (`header`) and whose parameters are there (`argument`).
`index`, `todo`, `open` are the locals of the functions. `slot` (who claimed what in this
session) and `accepted` (stored with SUCCESS, not run yet) are history variables: no
action of the queue depends on them. Of the callers' actions, those of futures read
`accepted`, which stands there for a promise that is not set yet.
`EnqueueLoad` is the test of the counter; `Claim*` the fetch_add or the successful
compare_exchange, split by what `enqueue()` does with the index it gets; `CasRetry` a
failed compare_exchange, which reloads the index without testing it again; `WriteEntry`,
`Publish`, `WriteNoOp`, `PublishNoOp` the stores. `FlushLoad`, `FlushLoadSame` and
`FlushClose` are the load of the counter and the exchange, `FlushPoll` the end of the
spin, `FlushRun` the call of the function, `FlushClear` the fill.

*QDLock.* `pc` is the place in `delegate()`, `lock()`, `unlock()` or a future, `retries`
the loop counter, `op` the operation that a call carries; `owed` is a history variable
for `RealTimeOrder`. `Execute` is the body of an operation run directly, or user code
between `lock()` and `unlock()`. Operations are recycled: `Delegate` picks one that no
call carries and that is not accepted: a new operation, so that this restricts names,
not behaviour.

*McsFutexLock.* `locked` is the word as a record of node and flag, `is_locked` and `next`
the fields of the nodes, `current`, `found`, `flagged` the locals; `owner` and `order` are
history variables that name the thread that has the lock and those behind it. Two loads
that may be joined without a difference to others are one action with the access that
follows or precedes (the spin of 512 loads is "sees free" or "gives up").

*MRHQDLock.* `template` is the instantiation: class, kind of the lock that readers look at,
kind of the nodes' locks, pinning. `holder[l]` is
the lock of a node, or `Top`, the lock that readers look at: the `mutex_lock` of the only
`qdlock_base` in `mrqdlock_impl`, the `global_lock` of the other two. `writeBarrier`,
`patience`, `raised` are the members and locals of these names; `node[t]` is the
`qdlock_base` that `delegate()` or `lock()` is a call of, and between calls that of a pinned
thread, whose `node_id` is set once. `Qd(t)` is what `get_qd()` may return: the node of a pinned
thread, any node for a free one, which may run anywhere. `unlock()` looks it up again
(`Unlocked`), and what it does with a lock that the thread does not have depends on the kind: a
"word" (`futex_lock`) is released whoever has it, a "list" (`mcs_futex_lock`) is not, and the
caller stays in `unlock()` (`UnlockHangs`, place "stuck"). For a
lock of kind "flag" (`mutex_lock`, `pthreads_lock`) taking it and announcing it are two
things: `flag` is `locked` as others see it, `buffered` the store that is still in the store
buffer; `Drain` makes it visible at any time, the release of the mutex at the latest.
`ThreadEnd` is the end of a thread and the start of the next one in its place, with a new
identifier and no node.

*Locks.* `pc` names the instruction to come. `locked` of `FutexLock` is its word; `ticket`
and `serving` are those words modulo `W`, the flag in the lowest bit of `serving`. The
tickets start at `FirstTicket`, shortly before the wrap. `Renumber` is not code: it sets
both words, and the numbers that threads have loaded and will still use, back by one ticket.
The code compares numbers and adds to them and nothing else, so that this is a renaming of
states. It is possible whenever nobody is about to use the oldest number, also while threads hold
and wait for the lock, so that contention without an idle moment goes on for ever in a
finite instance. What `MayCall` bounds is the number of tickets that lie between the oldest number
that is still in use and the next one; in the code that is half the range of an unsigned word,
and a thread would have to stop between two accesses while others take the lock that often. `McsLock` is the
node list of `McsFutexLock` without flag and sleepers.

*Queues.* `fun[i]` is the function pointer of `entry_queue`, or the word at byte `i` of
`buffer_queue`: the number of a function, the marker -1, zero, or, where parameters lie,
something that is neither (`Parameters`). `buf[i]` says whose parameters are in the entry.
`counter` beyond the capacity is kept at the capacity. `IsNew`, `NewIndex`, `AddSize`,
`AddFunction`, `AddReverse` are the registration of a function; the numbers `functions`
gives out are small integers as in the code.

### What is left out, and why it makes no difference to what is claimed

* *Sizes.* ENTRIES is 1 to 3 in the runs instead of 6144, RETRY_LIMIT 2 to 4 instead of
  512, WAIT_PERIOD 1 or 2 instead of 128. Every branch on them occurs: a claim inside, across
  and outside the array, a full queue, rounds with and without a wait, the end of the
  loop. The theorems hold for all values.
* *Memory order.* The models are sequentially consistent. In the queue what matters is
  published with a release store of the function pointer and read by an acquire load of
  it, and sessions are ordered by the lock, which is acquired and released; the relaxed
  accesses to `counter` are on one variable. Modification order of one variable and
  acquire/release pairs are what the argument of the invariant uses. This does not hold
  for the multiple reader lock with a lock that is announced by a flag, where `MRHQDLock` has
  the store buffer of that flag. In `entry_queue` and `buffer_queue` some accesses to
  `closed` and `counter` are relaxed; the models order them as the program does.
* *Strings, types, promises.* An operation is a model value with a number of entries; a
  promise is "the operation has run". Moving the arguments is not modelled: `enqueue()`
  moves them only after a successful claim, so a refused call still has them.
* *The fill of `flush()`* leaves out the last byte of the last pointer; on x86-64 that
  byte of a user-space function pointer is zero.
* *Kernel waits* end by a wake only. Signals and spurious wake-ups would add returns that
  the callers treat as a failed attempt.
* *Operations* return, do not throw, and do not delegate to the lock they run under.
  Both cases are listed as hazards without a property.
* *The queue in `MRHQDLock`* is a session and a count, the lock its holder. That this is
  what the real ones show is what `ImplementsDelegation`, `ImplementsTantrumQueue` and
  `ImplementsHandoff` say, with one difference: when operations are accepted, which
  thread gets the lock first and which attempt fails is left open, so that the model
  allows more than the code. The waits of `try_lock_or_wait()` are not repeated there.
* *Node locks of free threads.* An `unlock()` that comes to a lock of another thread is
  modelled for locks that are one word and for `mcs_futex_lock` (finding 3). With
  `ticket_futex_lock` it would serve a ticket that nobody finished with, and with
  `mutex_lock` it is undefined; neither is modelled.
* *Number of NUMA nodes.* Without libnuma `hqdlock.hpp:78` sizes its array with a number
  that was never set; the models start with at least one node.
* *Maps of `buffer_queue`.* Copying a map and installing it by compare_exchange is one step
  (a failed exchange starts over with a new copy); replaced maps are never freed, so that
  the model says nothing about an enqueuer that reads one while `flush()` deletes it.
* *`entry_queue` at birth* has zeroed entries, as `dual_buffer_queue` in zeroed storage.
* *Patience* stops counting past its limit: the code acts at one value only.
* `wake()` and `notify_one()` of the locks are called by nobody; a failed `try_lock()` and
  `is_locked()` change nothing and are not steps of their own.
* Destruction of locks and nodes, and threads that end inside a call, do not occur.

## 3. What TLC checks

| run | instance | distinct states | properties |
|---|---|---|---|
| `fetch_and_add` | 3 threads, 3 operations of 1 or 2 entries, ENTRIES 2, starvation free, limit 4 | 0.8 million | `TypeOK`, `MutualExclusion`, `RunsWhatWasStored`, `NoLostOperation`, `RealTimeOrder`, `CounterBounded`, `ImplementsDelegation` |
| `compare_and_swap` | 3 threads that also lock directly, 3 operations, ENTRIES 3, may starve | 0.9 million | `SafetyInv`, `OrderOK`, `ImplementsDelegation`, `ImplementsTantrumQueue` |
| `calls_return` | 3 threads, 3 operations of 1 or 2 entries, ENTRIES 2, fetch_add, one round that waits and then `lock()`, fairness | 391 thousand | `CallsGoOn`, `AcceptedRuns` |
| `handover_starvation` | 3 threads, two of which lock directly, fairness | – | `CallsReturn` is violated |
| `unzeroed_entries` | entries hold garbage at birth | – | `WaitsUntilAvailable` is violated |
| `mcs_futex` | 4 threads, all operations of the lock | 1.3 million | `TypeOK`, `OwnerHolds`, `ListIsOrder`, `SleeperHasFlag`, `ListInv`, `ImplementsHandoff` |
| `locks` | the four locks, 3 threads, all operations, tickets that wrap, fairness | 157 thousand | `AllTypeOK`, `MutualExclusion`, `SleepersRemembered`, `TicketOrder`, `ListOrder`, `LockReturns`, `UnlockReturns`, `FutexWakes` |
| `readers_and_nodes` | 5 instantiations, 3 threads (2 readers, 2 delegators, one user of `lock()`), 2 nodes, 2 groups, patience 1, fairness | 541 thousand | `TypeOK`, `MutualExclusion`, `ReaderExclusion`, `StoredIsHelped`, `ReadersAccounted`, `IdsAccounted`, `UnlocksOwn`, `RaisedReaderGetsIn`, `WriterProceeds` |
| `unlock_migrated` | `hqdlock_impl` over `mcs_futex_lock`, free threads, 2 nodes | – | `UnlocksWhileLocked` is violated |
| `reader_beside_writer` | `mrqdlock_impl` over a lock with a flag | – | `NoReaderBesideWriter` is violated |
| `flagged_queues` | both queues, 3 threads, 3 operations of 2 functions and sizes, fairness | 650 thousand | `QueuesTypeOK`, `RunsWhatWasStored`, `ImplementsTantrumQueue`, `FlushComesBack` |
| `lost_operation` | `buffer_queue` with an operation without parameters | – | `FlushRunsAll` is violated |

Three threads are the least in which a helper, an enqueuer under way and a third actor
meet; with an operation of two entries on two slots all claims inside, across and beyond
the array occur, on three slots the mix of them in one session. Counters are finite
without a bound in the guards: `open()` resets the counter of the queue, each thread adds
at most one claim beyond the end (that is `CounterBounded`), and where the loop of
`delegate()` has no limit only the remainder of its counter is kept. Four threads in the
MCS lock give two queued threads, an owner and a sleeper; three threads in `locks` give an
owner, a waiter and a third that sleeps or tries. In `readers_and_nodes` one thread reads,
one delegates and calls `lock()`, and one reads and delegates: two readers race for the
barrier, two writers meet on one node or on two, and a writer scans two groups with a reader in
either. Its instantiations are `mrqdlock_impl` over a word and over a flag, `hqdlock_impl` with
pinned threads, and `mrhqdlock_impl` with free ones over node locks of either kind: with those,
threads leave locks behind, get stuck in `unlock()` or release a lock of others, and exclusion,
the helper of what is stored and the progress of readers and of writers that wait for them have to
hold nevertheless. The two identifiers fall into different groups there; that more readers share a
group is covered by the theorems. An array of 8 bytes in words of 2, with entries of
3 and 5 bytes, has claims that fit, that leave a marker and that lie across the end,
with different places in the next session. In `calls_return` three operations are in calls at
a time: while one thread helps, two others meet in its queue, so that one of them claims the
tail of the array and publishes a `no_op` there (dropping that store violates
`CallsGoOn`); and a holder can pass the lock on to a caller past a third thread that sleeps. Only one
thread delegates the operation of two entries there, which keeps the graph small enough
for liveness. Threads are a symmetry set
where all or none of them call `lock()`; runs with liveness use no symmetry.

`ImplementsTantrumQueue` says that an operation is accepted in a session only, runs once, and
that a session ends with none left, which is why `lost_operation` is the counterexample it is:
there the word at the end of the array is stored after all. `compare_and_swap` checks it of the
dual buffer queue, `flagged_queues` of the other two.

`ImplementsDelegation` says that every step of the code is a step of `Delegation` or none:
exactly one run of each operation, no overlap, order, and no return from a future before
the run. `ImplementsHandoff` says the same of the MCS lock and `HandoffLock`, and with
it `QDLock`, which is built on `HandoffLock`, speaks of the real lock. `HandoffLock` is
used by `QDLock` at the grain of atomic effects (the compare_exchange loop of `lock()` is one
step there), which is what the refinement justifies for safety.

Every property of a passing run has a mutant in `PROJECT.json`: a variant of one action, as
a bug would leave it ("Variant for sensitivity" in the modules), under which TLC finds
the property violated.

### Fairness

* `QDLock!FairSpec`: weak fairness of `Step(t)`, the steps of a call once it has begun.
  Threads are scheduled preemptively and spin loops yield or pause, so a step that stays
  possible is made. Beginning a call and dropping a future are not fair.
* `QDLock!ExchangeMayFail`, in `calls_return`: weak fairness of all those steps but the exchange
  of `lock()`. In `mcs_futex_lock` that is a compare_exchange loop, which other threads can make
  fail for ever however the caller is scheduled. `handover_starvation` keeps `FairSpec`, so that
  its counterexample does not come from there.
* `MCLocks!AllFairSpec`: weak fairness of the steps of each lock (with `unlock()` of a thread that
  holds it), and nothing stronger. So `LockReturns` starts where the lock has an order for the
  thread: with its ticket, or behind its exchange of the word of an `mcs_futex_lock`.
* `MRHQDLock!FairSpec`: the same, and weak fairness of `Drain`, for a store buffer is
  drained in the end. A delegator may be overtaken at the
  write barrier for ever, and a reader that finds the lock taken at every look but has
  not raised the barrier yet may retry; what is claimed is that a reader that has raised the
  barrier gets in, and that a writer that waits for readers proceeds.
* `MCQueues!QueuesSpec`: weak fairness of the steps inside `enqueue()`, `open()` and `flush()`,
  and a helper that has opened the queue flushes it, as `helper()` does.
* Liveness of `QDLock` is checked for fetch_add only. With compare_and_swap an enqueuer can
  lose its loop for ever, which the code accepts, and `may_starve` says itself that calls may
  starve. There is strong fairness nowhere. `LockReturns` leaves out `futex_lock`, which serves nobody in order.

### Findings

1. *Entries are not initialised* (`queues/dual_buffer_queue.hpp:36`, run
   `unzeroed_entries`). The constructor sets `counter` only, but `flush()` relies on "0
   until entry available" (line 103). A lock in static storage is zero; the example
   program of `README.md` has its lock on the stack.
2. *Starvation under hand-over* (`qdlock_base.hpp:662`, run `handover_starvation`).
   `unlock()` of the MCS futex lock that finds a successor wakes that one only
   (`locks/mcs_futex_lock.hpp:107`), where its comment says "If there are sleeping threads,
   they will also be woken up" (line 79); a chain of hand-overs can go on for ever. So
   `delegate()` of the starvation free variant may sleep for ever in round
   128, before it gets to the `lock()` that is to guarantee that it ends. The run has two threads
   that call `lock()` and `unlock()`, which keeps it small. Delegators alone can do it as well:
   those at the end of their loop call `lock()` themselves, and three of them can pass the
   lock round while a fourth sleeps, if each call comes between another's look at the word
   and its wait. So `calls_return` does not claim that calls return. `CallsGoOn` says
   that they are held up nowhere but asleep beside a taken lock, or in the exchange of
   `lock()`.
3. *unlock() of another node* (`hqdlock.hpp:199`, run `unlock_migrated`). With free threads, the
   default, `lock()` and `unlock()` of `hqdlock_impl` and `mrhqdlock_impl` each take the node
   of the processor they run on. A thread that migrates in between unlocks another node's lock:
   `mcs_futex_lock` relies on "thread_local mynode is set while locked"
   (`locks/mcs_futex_lock.hpp:84`), finds its node not in the list and waits for ever for the
   next one, while the lock of the first node stays taken. `delegate_*` keeps a pointer to its
   node and is not affected; for pinned threads `UnlocksOwn` is proved.
4. *Reader beside writer* (`mrqdlock.hpp:154`, run `reader_beside_writer`). With
   `mutex_lock` or `pthreads_lock` as the lock, the release store that announces the writer
   may be in its store buffer when the reader looks, and the writer sees no reader that has
   not arrived yet. With locks that are taken by one instruction `ReaderExclusion` holds, and
   is proved.
5. *A lost operation* (`queues/buffer_queue.hpp:130`, run `lost_operation`). An entry of one word
   in the last four bytes of the array is accepted by `enqueue()` and beyond the limit to which
   `flush()` clamps. `flagged_queues` has parameters in every operation and no such loss.

A remark on `ticket_futex_lock`: `try_lock_or_wait()` compares two numbers it has loaded one after
the other (`locks/ticket_futex_lock.hpp:82-93`). With `lock()` and `unlock()` of another thread
between the loads it takes a free lock for a taken one, sets the flag and sleeps, until somebody
locks and unlocks again. `SleepersRemembered` holds then too: the flag is set, and that unlock
wakes it.

## 4. What is proved

| theorem | module | statement |
|---|---|---|
| `TypeCorrect` | `QDLockProofs` | `Spec => []TypeOK` |
| `MutualExclusionCorrect` | `QDLockProofs` | `Spec => []MutualExclusion` |
| `CounterBoundedCorrect` | `QDLockProofs` | `IsFiniteSet(Thread) => (Spec => []CounterBounded)` |
| `SafetyInvCorrect` | `QDLockSessionProofs` | `ZeroedStorage => (Spec => []SafetyInv)` |
| `RunsWhatWasStoredCorrect` | `QDLockSessionProofs` | `ZeroedStorage => (Spec => []RunsWhatWasStored)` |
| `NoLostOperationCorrect` | `QDLockSessionProofs` | `ZeroedStorage => (Spec => []NoLostOperation)` |
| `OrderCorrect` | `QDLockOrderProofs` | `ZeroedStorage => (Spec => []OrderOK)` |
| `RealTimeOrderCorrect` | `QDLockOrderProofs` | `ZeroedStorage => (Spec => []RealTimeOrder)` |
| `ImplementsDelegationCorrect` | `QDLockRefinementProofs` | `ZeroedStorage => (Spec => ImplementsDelegation)` |
| `ImplementsTantrumQueueCorrect` | `QDLockRefinementProofs` | `ZeroedStorage => (Spec => ImplementsTantrumQueue)` |
| `ListCorrect` | `McsFutexLockProofs` | `Spec => []ListInv` |
| `McsTypeCorrect` | `McsFutexLockProofs` | `Spec => []TypeOK` |
| `OwnerHoldsCorrect` | `McsFutexLockProofs` | `Spec => []OwnerHolds` |
| `ListIsOrderCorrect` | `McsFutexLockProofs` | `Spec => []ListIsOrder` |
| `SleeperHasFlagCorrect` | `McsFutexLockProofs` | `Spec => []SleeperHasFlag` |
| `ImplementsHandoffCorrect` | `McsFutexLockProofs` | `Spec => ImplementsHandoff` |
| `AllTypeOKCorrect` | `LocksProofs` | `AllSpec => []AllTypeOK` |
| `MutualExclusionCorrect` | `LocksProofs` | `AllSpec => []MutualExclusion` |
| `SleepersRememberedCorrect` | `LocksProofs` | `AllSpec => []SleepersRemembered` |
| `TicketOrderCorrect` | `LocksProofs` | `AllSpec => []TicketOrder` |
| `ListOrderCorrect` | `LocksProofs` | `AllSpec => []ListOrder` |
| `TypeCorrect` | `MRHQDLockProofs` | `Spec => []TypeOK` |
| `MutualExclusionCorrect` | `MRHQDLockProofs` | `Spec => []MutualExclusion` |
| `ReaderExclusionCorrect` | `MRHQDLockProofs` | `Spec => []ReaderExclusion` |
| `StoredIsHelpedCorrect` | `MRHQDLockProofs` | `Spec => []StoredIsHelped` |
| `ReadersAccountedCorrect` | `MRHQDLockProofs` | `Spec => []ReadersAccounted` |
| `IdsAccountedCorrect` | `MRHQDLockProofs` | `Spec => []IdsAccounted` |
| `UnlocksOwnCorrect` | `MRHQDLockProofs` | `Spec => UnlocksOwn` |
| `QueuesTypeOKCorrect` | `QueuesProofs` | `HaveParameters => (QueuesSpec => []QueuesTypeOK)` |
| `RunsWhatWasStoredCorrect` | `QueuesProofs` | `HaveParameters => (QueuesSpec => []RunsWhatWasStored)` |
| `ImplementsTantrumQueueCorrect` | `QueuesProofs` | `HaveParameters => (QueuesSpec => ImplementsTantrumQueue)` |

Every inductive invariant was checked by TLC before it was proved; `compare_and_swap` and
`mcs_futex` go on checking `SafetyInv`, `OrderOK` and `ListInv` with every run.

### The queue delegation lock

The theorems hold for every set of threads and operations, every number of entries, all sizes
and policies, under the named assumptions on the constants, which say no more than the types
of the template parameters (and that an operation fits into an empty queue). `ZeroedStorage`
is finding 1: without it the theorems that assume it are false. `CounterBounded` counts
threads, which have to be finitely many.

*Types and holder.* `TypeInv` adds to the types where each thread's locals
may be at each program counter; `HolderOK` says that a thread at a place that needs the
lock is the holder. Both are inductive, and two threads in critical sections would be one
holder.

*Sessions.* Neither `RunsWhatWasStored` nor `NoLostOperation` is inductive: that
the helper finds a stored function at its index depends on where every claim of the
session lies. `SessionInv` says so:

* `TilingOK`: the claims of a session tile the array from 0 to `Limit`, without gap or
  overlap; a claim across the end is a tile, too, and this is what the no_op entry is for;
* `ScanOK`: the helper's position is on a tile border, within what it has seen; what lies
  behind it has been published; once `open` is false the counter is at least ENTRIES, so
  no tile is added;
* `WriterOK`: an enqueuer between claim and publication owns its tile, with what it has
  written so far; `PublishedOK`: a published slot carries the size of its tile;
* `AcceptedOK`: the accepted operations are in one-to-one correspondence with the
  published wrappers from the position on;
* `BetweenSessionsOK`: with no helper the queue is closed, clean, and nothing is accepted.
  It carries the invariant from one session to the next, past enqueuers that still are
  about to claim (they get an index beyond the array) and past executors.

`OwnersOK` says that an operation is in one place only. `FlushClear` is the subtle step:
at that point the position equals the limit, all tiles are published, so there is no
writer left and clearing the array loses nothing.

*The counter.* `CounterBounded` says more than a bound: it subtracts the threads that have seen
an open queue and are still to add their size. With that it is inductive by itself; a claim
lowers the number of those threads by one, which is a lemma about finite sets.

*Order.* `RealTimeOrder` speaks of the moment an operation runs, `OrderOK` of all that is
under way: what an operation is owed (`owed`, those accepted when its call began) has been
accepted and not run; while it waits in a slot, that slot lies before the slot of whoever is
owed it, published or claimed; and who has won the lock is owed nothing. The last part holds
because a call gets the lock only between sessions, where nothing is accepted; the one before
because claims grow with the counter, which is why a claim needs `TilingOK`.

*Refinement.* `ImplementsDelegation` is proved action by action: the claim and the writes of an
enqueuer stutter, `Publish` is acceptance, `FlushRun` and `Execute` are the run, the end of the
call and of the wait are the return. The mapping reads the phase of an operation from the place
of its caller, so that each step needs the one caller of `OwnersOK`, and the run needs `OrderOK`
and mutual exclusion. The mapping itself had a flaw that TLC cannot see: two arms of its CASE
overlapped, and TLC takes the first of them where the logic takes any. It is written with IF now.

`ImplementsTantrumQueue` needs `SafetyInv` only: an enqueuer that publishes has a tile, so there is
a session (`BetweenSessionsOK`); a helper that opens the queue holds the lock, so there is none
(`HolderOK`); and where `flush()` clears the array its position is the limit, beyond which no
tile and so no accepted operation lies.

### The locks

For any number of threads. *mcs_futex_lock and mcs_lock.* `Chain(i)` is the owner and the threads
queued behind it. `ListInv` says: the word names the last of the chain, and nobody is in it
twice (`ChainOK`); a thread that waits is in the chain, the owner is its first, and the owner
is the only one of it whose node is free (`PlaceOK`); a node is linked to the one behind it if,
and only if, that thread has been at `link`, and to no other (`LinksOK`). That a thread has
been linked by the time the lock is passed to it, and that nobody is left in the chain when the word
is freed, both come from it. The flag of the word has a short invariant of its own. With `ListInv` each
step of the code is a step of `HandoffLock` or a stutter: the exchange queues, the store in
the next node hands over, a spin sees what the hand-over did before.

*ticket_futex_lock.* What is inductive is said of `Past(n)`, the distance of a number from
`FirstTicket`, which does not wrap as long as fewer than W/2 tickets lie between the oldest number in use and the
next (`TicketAssumption`; the bound is in `MayCall`). `Renumber` takes one ticket off each of
them. `CountOK`: the tickets between
`serving` and `ticket` are as many as there are users, and those who may still draw one
have room; `KnowsOK`: what a thread has loaded is not ahead of the words; `DistinctOK`: no two users have
the same number, and a holder has the one that is served. Mutual exclusion is
`DistinctOK`, `TicketOrder` is `CountOK` turned back into remainders.

*futex_lock.* The word is not free while somebody holds the lock, and one does.

`MCLocks` runs the four side by side; `AllInv` is the invariant of the kind at hand. That of
`mcs_futex_lock` is not proved twice: `LocksProofs` instantiates `McsFutexLockProofs`.

### Readers and nodes

The theorems of `MRHQDLock` hold for every finite set of threads (counting them needs it),
all nodes, groups and instantiations. `IInv` has, beside types and `IdsAccounted`:

* `PlaceOK`: which node, role and reader's locals a thread has at each place. It carries
  the node from `lock()` to `unlock()`, where `get_qd()` is called again;
* `HolderOK`: a thread at a place that needs `Top` is its holder; and so with the lock of its
  node as long as `NodeIsKept`, that is, unless free threads call `lock()` and `unlock()`, which
  may release it. Mutual exclusion rests on `Top` alone and holds for free threads, too;
  `UnlocksOwn` says of the rest what it does under `NodeIsKept`;
* `SessionOK`: a queue is open only while the holder of `Top` is a helper on its node that waits
  for readers or runs operations; `StoredIsHelped` follows. Said of the node's own lock it would
  be false for free threads;
* `ReadersAccounted`, by adding or removing one thread from a finite set;
* `ReadersSeen`: readers that are in are in groups that `query()` has yet to look at. This is
  why it need not read all groups at once: a reader goes in only if it sees the lock free,
  and it cannot while a writer is looking, so the groups behind the writer's position stay
  empty of readers that are in.

That `get()` and `free()` keep `IdsAccounted` is shown first.

### The queues with a counter and a flag

For every finite set of threads and functions, all operations and every size of array and
entries. `HaveParameters` says that an entry of `buffer_queue` is longer than the word that
names its function. It is finding 5: without it `ImplementsTantrumQueue` is false. TLC finds the two invariants true
without it as well (on the instance of `lost_operation`), but they mean less there: the enqueuer of an
entry that the helper does not wait for can store its function in a later session, into the
parameters of another operation, and parameters are kept as a whole in the model. That
`NoOp` is not an operation, that `ENTRIES` is a number and that threads and functions are
finitely many are the other assumptions.

*buffer_queue* needs an invariant in two halves, which only meet in the number that a slot
of `fun` has.

* The array. A `Tile` is what a claim has taken: an entry that can be run, a marker with
  all that lies behind it, or the claim of an enqueuer that is about to store. Tiles do not
  overlap (`Disjoint`), whatever is not zero lies in one (`Covered`: the parameters that an earlier
  operation left are never taken for a function), and they follow one another from the
  helper's position to `Limit` (`SpanOK`). `Limit` is the counter, as far as `flush()`
  looks, until the helper closes the queue, and then what it read when closing it: from there on the
  counter is at its end and no claim succeeds (`HelperOK`). `WritersOK` gives an enqueuer that
  stores its place, which is still zero.
  With no session there is no tile at all: this lets an enqueuer that was delayed past
  the end of a session claim nothing, or claim in the next one, and a late store of FULL
  do no harm.
* The registry. The three maps are replaced one after the other, and two enqueuers may
  register the same function. `RegistryOK`: a number is drawn by one thread, nothing
  in the array has it before its function is in `functions`, and what a number names does not
  change. Two numbers may name one function. `NumbersLeft` is the bound on the numbers: the
  pairs of a function and a thread that may still draw one are counted, and a draw takes one
  away, for a thread that has registered a function finds it registered from then on.

*entry_queue* has entries of one size, so `SlotOK` and `StorerOK` say the same without tiles.

`Promise` is a step of `TantrumQueue` or a stutter. The store of the function is the
acceptance: `SpanOK` and `Covered` give the session, and that the operation is in no other place.
`Run` is the run; claims, the writes of parameters, the loads and the rounds of the scan
stutter; and the return of `flush()` ends the session with nothing stored because no tile is
left between position and limit.

### Only model-checked

All liveness (`CallsGoOn`, `AcceptedRuns`, `LockReturns`, `UnlockReturns`, `FutexWakes`,
`RaisedReaderGetsIn`, `WriterProceeds`, `FlushComesBack`): it rests on fairness, and ENABLED is
out of the prover's reach. Every invariant and every action property that a passing run
checks, and all refinements, are proved.

## 5. Plan

Done: the queue delegation lock, all four locks, readers, nodes and identifiers, and the three
queues, with proofs of all their safety properties and of the refinements. In the order
of what comes next:

1. What holds of `buffer_queue` without `HaveParameters`, with the places of parameters told
   apart: that nothing is run twice and nothing outside a session.
2. That `MRHQDLock` implements `Delegation`, as `QDLock` does; its queues have to keep the
   operations themselves for this, as `TantrumQueue` does, and not only their number.
3. Nested delegation and operations that throw, as an extension of `QDLock`, which needs a
   stack of calls for each thread.
4. The maps of `buffer_queue` with their deletion.
