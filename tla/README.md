# lockfree-stm in TLA+

Specifications of [lstm](../src/README.md), a C++14 header-only software
transactional memory: TLA+ modules translated from `include/lstm`, TLC
configurations that check them on small instances, and TLAPS proofs of what
matters most for all instances. Paths below are relative to `src/include/lstm`.

## The system

A program shares `var`s. A thread hands a function to `atomic`; it is run, and
run again until it commits. There are no background threads: everything happens
on the threads of the user, which meet in the version clock, in the
`version_lock` and `storage` words of the variables, in the `active` epochs of
each other and in the mutexes of the registry of threads.

| Part | State | Operations | Hard because of |
| --- | --- | --- | --- |
| transaction domain (`detail/transaction_domain.hpp`) | `clock` | `get_clock`, `fetch_and_bump_clock` | bumped in the middle of a commit |
| variables (`var.hpp`, `detail/var_detail.hpp`) | `version_lock`, `storage` | construct, destroy, get, set | two words that change one after the other |
| reads and writes (`detail/transaction_base.hpp`) | version, read and write set of the attempt | tracked and untracked reads, writes, each with a fast and a slow path | optimistic reads beside commits |
| commit (`detail/commit_algorithm.hpp`) | the loops of `try_commit` | lock, validate, write, bump, publish, unlock | interleaving at every access; partial failure |
| retry loop (`read_write.hpp`, `read_only.hpp`, `atomic.hpp`, `detail/atomic_base.hpp`) | `tx_state` | `slow_path`, `tx_failure`, `tx_success`, `unhandled_exception` | progress, exceptions, nesting |
| thread data (`thread_data.hpp`) | callbacks, epoch | `access_lock/unlock`, `reclaim`, `sometime_synchronized_after`, destructor | when it is safe to free |
| thread synchronization (`detail/thread_synchronization.hpp`) | registry, `active` | register, unregister, `synchronize_min_epoch` | threads waiting for each other, memory order |
| quiescence buffer (`detail/quiescence_buffer.hpp`) | ring of epochs and callbacks | push, clear, finalize, run the first epoch | wrap-around, growth, callbacks that re-enter |
| mutex (`detail/fast_rw_mutex.hpp`) | one word | `lock(_shared)`, `unlock(_shared)` | readers that count themselves before they look |
| write set, filter, vectors (`detail/pod_*.hpp`, `write_set_lookup.hpp`) | vectors, hash filter | push, find, clear, `unordered_erase` | growth, false positives |
| memory (`memory.hpp`) | - | `allocate_construct`, `destroy_deallocate`, ... | who frees after failure, after success |
| containers (`containers/list.hpp`, `rbtree.hpp`) | nodes of `var`s | insert, find, erase | untracked reads beside validated ones |

What makes each part correct:

- a transaction that commits is serializable in real time; one that runs, doomed
  or not, reads one memory; a lock bit has one owner and is given back; a
  transaction left alone commits;
- what a commit replaces is freed once, after everyone who may have read it has
  left; waiting for that ends; nothing is left at thread exit;
- the mutex excludes, does not lose count, and lets writers in;
- the ring holds the queue of epochs it stands for, and runs each callback once;
- the registry does not change while someone walks it, a wait for an epoch is one
  whoever joins or leaves meanwhile, and registering, exiting and waiting end;
- an attempt that fails has not been, one that succeeds leaves nothing behind,
  and every allocated object has one owner;
- the tree is a linearizable bag and stays balanced.

## The modules

```
SnapshotIsolation            what a transaction is promised, no locks or clocks
      ^  implemented by (TLC and TLAPS)
CommitAlgorithm              transactions at the grain of shared accesses
      ^  extended by
  StrictSerializability      + the total order of the transactions (history)
  Reclamation                + epochs, grace periods, callbacks, thread exit
FastRwMutex                  the mutex of registry and nodes
ThreadRegistry               the registry: joining, leaving, walking, waiting
EpochQueue                   a queue of epochs with their callbacks
      ^  implemented by (TLC and TLAPS)
QuiescenceBuffer             the ring buffer and the loops that empty it
WriteSet                     filter, vector, look-up, reads that are dropped
      ^  extended by
  Attempts                   one thread: nesting, reads, writes, the ways out
      ^  extended by
  TransactionalMemory        + memory.hpp
RbTree                       the tree's operations as functions of a memory
      ^  extended by
  SharedTree                 threads that call them in transactions
      |  implements (TLC)
      v
OrderedBag                   what the tree promises
```

Each layer takes from the one below what that one is checked to provide:
`Reclamation` runs the real commit algorithm, `SharedTree` takes attempts for
what `CommitAlgorithm` implements, `ThreadRegistry` a mutex for what
`FastRwMutex` is, `Attempts` the other threads for checks and commits that may
fail at any time.

`*MC` modules hold the instances for TLC, `*Proofs` modules the proofs.

### CommitAlgorithm

One action per access to shared memory, for any set of threads and variables.
`clock`, `version_lock` and `storage` are the shared words. `pc[t]` says where a
thread is:

| `pc` | Code |
| --- | --- |
| `idle`, `top` | outside of `slow_path`; at the top of its `while (true)` |
| `run` | in the user's function, between two calls |
| `fast`, `reload`, `slow`, `displace` | between the accesses of one read or write: storage loaded and version to check (fast path), about to load it again (slow path), loaded again, version checked and storage to load (fast path of a write) |
| `lock`, `cas` | `lock_writes`: before the load and before the compare-exchange of `lock()` |
| `validate`, `write`, `publish` | `validate_reads`; `do_writes` and the clock; `publish` |
| `unlock` | `unlock_write_set` on failure |

The user's function is any sequence of at most `MaxOps` of the calls `Calls[t]`,
`retry()`, an exception, or its return; what it does may depend on what it reads.
A fast path may be left for the slow one at any time, as a full set or a false
positive of the write set's filter makes it.

A `storage` word is the identity of the object it points to. An attempt that
fails gives its objects back and the next one may get the same addresses, which
is why `Fresh(t)` depends on the transaction and not on the attempt.
`snapshot` and `seen` are history: the memory at the instant the attempt loads
the clock, and what its reads return. `Memory` counts the stores of a commit as
done once its reads are validated.

### SnapshotIsolation

Begin reads the memory as a whole; Read returns what that memory held; Commit
checks that nobody has replaced a variable of the write set since and replaces
them all at once. `CommitAlgorithm!ImplementsSnapshotIsolation` is the
refinement: `memory <- Memory`, and a transaction counts as committed from
`write` on. That is before its stores and before its clock value exists, and it
is the only instant that works: attempts that begin after the bump see the new
values, those before it must not, and a commit validated earlier can get the
later version.

### StrictSerializability

Adds `serial`, all transactions in one order: a commit takes its place when it
has all its locks, a transaction that writes nothing when it loads the clock.
Running them one after the other in this order gives every committed transaction
what it has read and the memory what it holds. The order is not that of the
versions.

### Reclamation

`CommitAlgorithm` with `thread_data` and `thread_synchronization` around it.
`at[t]` says where a thread is around its transactions: the clock is loaded
(`entering`), published (`inside`), the attempt is over (`failed`, `succeeded`),
its epoch is withdrawn (`reclaiming`), it waits in `synchronize_min_epoch`
(`waiting`, or `closing` in the destructor), runs callbacks (`freeing`,
`draining`). `active`, `working` and `chunks` are `active`, the working epoch and
the finalized epochs of the quiescence buffer. Whether the buffer has reached
`ReclaimLimit` is left open at each commit, so every limit is covered. `stored` is
history: every object that a non-atomic variable has ever held. `FreedOnce` compares
it with what variables hold now: the difference is exactly what was freed and what
waits to be (in a commit that is publishing, a working epoch or a queue), each object
in one place, so that a callback that is dropped shows as well as one that runs twice.

Memory order: all modules interleave atomic accesses. That the
code's acquire and release orders make the loads and stores of the commit
algorithm behave this way is an assumption, not a result. There is one place where
they plainly do not, and it is modelled: the store of `access_lock` may stay behind the loads that follow it. `Delayed` is the
set of threads to which that happens: a buffer of at most `BufferSize` stores that reaches
memory at any later time, and before every read-modify-write (x86). Nothing else
is reordered.

Registering a callback of one's own (`Registrars`) shows once the attempt has
succeeded, so `Registers` chooses it there.

### FastRwMutex

The word as its two fields, one action per atomic access, weak compare-exchanges
that fail for no reason. A loop that loads and goes round is a guard.

### ThreadRegistry

`nodes` is the vector of `global_synchronization_list`, `keeper` its mutex. The
mutex of a node is `claim` (a writer has its bit) and `shared` (the owner reads):
`ClaimNode` and `NodeLocked` are the two halves of `lock()`, between which a
writer waits for the reader it has overtaken. `at[t]` follows the constructor
(`registering`, `joining`, `joined`), the destructor (`exiting`, `parting`,
`parted`, `unlocking`), sections (`inside`) and `synchronize_min_epoch`
(`waiting`, `walking`, `slow`, `synchronized`). Epochs are any up to `MaxEpoch`:
the clock a section publishes may have become old, and what a thread waits for
may be older or later than every section. `running` is history: the sections that
ran when the wait began.

### QuiescenceBuffer

`ring` is the members of the class as one record, its member functions are
operators on it, and the positions are the code's, wrapped where the code wraps
them (`write_pos` runs ahead of the ring until it is needed). `frames` are the
loops of `reclaim_slow_path` and `reclaim_all` in progress, with the locals of
`do_first_epoch_callbacks`: more than one when a callback runs a transaction whose
commit reclaims. Epochs are numbered by the commits of the thread that write; one
that only registers callbacks is finalized with epoch 0. What `synchronize_min_epoch`
returns is any epoch later than the first one that the clock may have reached, or
`off_state`. `EpochQueue` is what `Reclamation`
uses in its place, with the objects the callbacks free as their content.

### WriteSet, Attempts, TransactionalMemory

One thread at the grain of its calls. `stack` is the calls it is in, of
`read_write`, `read_only` and `relative`; only the outermost has a loop and a
commit. `write_set` is a record of filter, vector and capacity, `read_set` a
sequence with its duplicates, `fail_callbacks`, `working` and `queue` sequences of
what a callback does and to which object. `heap` says of each object whether it is
free, raw or holds a live value; an operation that does not fit (a second
destruction, the deallocation of a live value) makes it `broken`. `roots` and
`mine` are the objects of the user, from before the attempt and from within it.
`before`, `written`, `tracked`, `seen` are history.

An exception leaves as many levels as lie between it and its handler, which may be
the user's (the attempt goes on) or nobody's (`unhandled_exception`). What the
library asserts its user not to do is not done: writes in a read-only transaction,
transactions in a relative section, functions of `memory.hpp` that register in a
section without a read-write transaction (`KindsThatAllocate`).

The handler in `allocate_construct` of a `var` (`detail/var_detail.hpp:136`) also
runs the destructor of the value whose constructor has thrown, which is undefined;
`GiveBack` is the deallocation alone.

### RbTree, SharedTree, OrderedBag

A variable is a node and a field. The operations of the tree are functions from a
working memory to the next that also collect which variables were read with `get`
(tracked) and which written; `untracked_get` leaves no trace, as in the source.
Mirrored cases take their side as a parameter. In `SharedTree` an attempt reads the
memory as of its start and commits if nothing it has tracked or written was
replaced since; nodes a commit unlinks are destroyed when the attempts that began
before it are over. `clear`'s callback runs `destroy_deallocate_subtree` as it is:
it misses the right child of a node without a left one, and such nodes end up in
`lost`.

An erasure that runs when a `clear` commits erases in what was the tree and commits as
well: it takes its place before the `clear`. `OrderedBag` says so with `overtaken`: what
each clear has taken out, and the erasures it overlapped, which may still take an
element of it, each element once, until their attempt is over. The mapping finds this
in `garbage`: the elements of the detached subtree, and the attempts its callback
waits for. A call that found an answer keeps it until its attempt ends; if the attempt
fails, the same call starts over.

`EmplaceMeetsErase = FALSE` keeps calls of `emplace` and `erase_one` from
overlapping, where the source is wrong (`rbtree_mixed`).

## What TLC checks

| Run | Instance | Shows |
| --- | --- | --- |
| `serializability` | 3 threads, 2 variables: two may overwrite what the other has read, the third replaces without looking | `StrictlySerializable`, write skew included, `LockOwnership`, `Opacity`, `FreesWhatItReplaces`, the inductive invariant `VersionsTellContents`, refinement of `SnapshotIsolation` |
| `commit_progress` | 2 threads, 2 variables (one atomic), 1 transaction each of up to 2 calls of every kind | `AttemptsEnd`, `LocksAreReleased`, `SoloProgress` |
| `fast_rw_mutex` | 2 readers, 2 writers, unbounded | `Exclusion`, `WordTellsAll`, `WriterEnters`, `LockProgress` |
| `reclamation` | 2 threads that replace, 2 transactions each; the one that does not read has its stores delayed, the other registers callbacks | `NoUseAfterFree`, `FreedOnce`, `ChunksInOrder`, `GracePeriodsEnd`, `NothingLeaks` |
| `reclamation_delayed` | both threads read and replace, stores delayed | **violates** `NoUseAfterFree` |
| `reclamation_earliest` | one that reads and replaces also registers callbacks | **violates** `NoUseAfterFree` |
| `registry` | 3 threads that come and go: one waits, one has a section, one both | `GracePeriod`, `NodesOutliveTheirUse`, `WalksAreUndisturbed`, `EverythingEnds` |
| `quiescence_buffer` | ring of 8, limit 4, 9 callbacks; no re-entrant ones | `ImplementsQueue`, `HeadersLinked` |
| `quiescence_reentrant` | one callback runs a transaction | **violates** `RunsOnce` |
| `memory` | 2 calls, 2 levels, 3 steps an attempt, 2 variables with one bit of the filter, an object of the user's | `NothingIsLeftOver`, `KindIsTheOutermost`, `NothingIsLost`, `ReadsOwnWrites`, `ValidatesTheRest`, `FailuresUndo` |
| `rbtree` | 2 threads, 2 calls each, trees of 3 and 8 elements; `emplace` and `erase_one` do not overlap | `TreeVerified`, `ElementsStayWhole`, `NodesHaveOneOwner`, `NothingDangles`, `ImplementsOrderedBag` |
| `rbtree_mixed` | one `emplace`, one `erase_one` that overlap | **violates** `TreeVerified` |

The bounds. Two variables and two operations are the least at which a mix of two
memories or a write skew exists; two transactions per thread
(`reclamation`), the least at which a queue of epochs has an order; three threads, the least at which someone sees two commits that cross, and
at which a minimum is taken over more than one other thread. The proofs are for
any number. Transactions are bounded by `MaxTx`; attempts are not. Nine callbacks
are enough to wrap around a ring of 8 and to grow it with its first epoch in the
middle, by a push and by `finalize_epoch`; a limit of 4 is the least the code
accepts. Three threads are the least at which one joins or leaves under another
that waits for a third; `MaxSections` and `MaxWaits` divide the roles so that all
three are at work at once. A store buffer of one entry (`BufferSize`) suffices for
the violation. In `memory` three steps are enough to write, nest and throw, and a
vector that starts with two slots grows at its second element; with four steps
(2.1 million states) and with two variables of different bits the properties hold as
well. The trees of 8 elements have three black levels: every case of insertion and
removal is reached from them within two calls a thread.

Fairness. `FairSpec` of `CommitAlgorithm` and `FairEpochSpec` are weakly fair to
each thread that is in a transaction or in the library: the operating system
schedules threads, and the functions of the user return. Nothing is assumed of
who wins a race. A conflict can make an attempt fail for ever, so no property says
every transaction commits: `SoloProgress` says one does when its peers are out of
theirs, which is what a leaked lock bit or a version ahead of the clock breaks.
`GracePeriodsEnd` holds because a commit's epoch is older than the clock it leaves:
transactions that begin during the wait are not waited for. The epoch 0 of a
transaction without writes is an exception while the clock is still 0 (a thread
that keeps retrying can be seen in its epoch for ever), so that property is about
later epochs. `ThreadRegistry!FairSpec` has weak fairness of each thread that
registers, exits, waits or is in a section (sections end): the mutexes need no
more, since a writer's claim turns later readers away and every loop is over a
list that does not change under it. `FastRwMutex!FairSpec` adds strong fairness of each compare-exchange's outcome:
a weak one does not fail spuriously for ever.

## What the violations show

- **A reader that is not seen** (`reclamation_delayed`,
  `detail/thread_synchronization.hpp:150`). `access_lock` stores the epoch with
  release order and then has an acquire fence. Neither orders that store before
  the transaction's loads (that takes a sequentially consistent fence, on x86 too).
  So a thread can load a variable, find it valid, and go on using it, while its
  epoch is not visible yet; a committing thread finds `off_state` and frees it.
- **Epoch 0 behind later ones** (`reclamation_earliest`,
  `detail/commit_algorithm.hpp:142`). A read-write transaction that writes nothing
  returns epoch 0, "synchronize on the earliest epoch". If it has registered a
  callback, the working epoch is finalized with 0, behind epochs that are greater.
  `reclaim_all` at thread exit waits for the epoch at the back (0: for nobody),
  and frees them all.

- **A callback that commits** (`quiescence_reentrant`,
  `detail/quiescence_buffer.hpp:184`). `ring_begin` is advanced when all callbacks
  of the first epoch have run. If one runs a transaction, the commit finds a ring
  that is still at its limit and runs the same epoch again.
  `test/destructor_transaction.cpp` has such a destructor; it is not among the
  tests that are built.

- **An insertion under a moving root** (`rbtree_mixed`,
  `containers/rbtree.hpp:263`). `push_impl` walks down with reads nobody validates
  and then reads again, tracked, what its place depends on: the links of parent and
  grandparent, but not those of the grandparent if it is the root. An `erase_one`
  of the root moves the key of the root's successor into the root and unlinks the
  successor's node; if that is the parent the insertion has picked, both commit,
  and the new element hangs below a node that is in no tree.

`reclamation` shows where the first two stop: the delay matters for a thread
that reads what others replace, the epoch 0 for one that has also replaced
something. `rbtree` does the same for the last: calls of one of the two kinds, with
lookups and `clear`, may overlap.

Three more places where the source goes wrong or might are listed as hazards without
a property: the functions of `memory.hpp` in a read-only transaction (with
`KindsThatAllocate` set to both kinds TLC finds `NothingIsLeftOver` violated),
the destructor of a value that was not constructed, and nodes that
`destroy_deallocate_subtree` misses.

## What is proved

TLAPS checks these for every value of the constants that satisfies the assumptions
of the modules: `ConstantsAssumption` and `ReclamationAssumption` (the initial
allocator is not a thread, atomic variables are variables, calls are calls, bounds are
naturals), `RegistryAssumption` and `FiniteThreads` (finitely many threads, for the registry and the mutex),
`StartSizeAssumption` and `AttemptsAssumption` (a vector has room from the start, objects are
numbered from 1 and the variables hold different ones), `LimitAssumption` (the limit of the
quiescence buffer is a power of two greater than 2, as its static assertion has it) and
`BoundsAssumption` (its bounds are naturals).

| Theorem | Module |
| --- | --- |
| `TypeCorrect`, `LocksOwned`, `VersionsTell`, `Opaque`, `FreesReplaced` | `CommitAlgorithmProofs` |
| `Implements`: `Spec => ImplementsSnapshotIsolation` | `SnapshotIsolationProofs` |
| `SerializableCorrect`, `SerialInvCorrect` | `StrictSerializabilityProofs` |
| `EpochTypeCorrect`, `FreedOnceCorrect`, `ChunksOrdered`, `NothingUsedAfterFree` | `ReclamationProofs` |
| `TypeCorrect`, `Exclusive`, `WordCounts` | `FastRwMutexProofs` |
| `RegistryTypeCorrect`, `GracePeriodCorrect`, `NodesOutliveCorrect`, `WalksCorrect` | `ThreadRegistryProofs` |
| `MemoryTypeCorrect`, `NothingLeftOverCorrect`, `KindCorrect`, `NothingLostCorrect`, `OwnWritesCorrect`, `ValidationCorrect`, `FailuresUndoCorrect` | `TransactionalMemoryProofs` |
| `RingCorrect`, `HeadersLinkedCorrect`, `ImplementsCorrect`: `Spec => ImplementsQueue`, `RunsOnceCorrect` | `QuiescenceBufferProofs` |

Three of them have a hypothesis of their own, which is what the code needs and not what
the proof does; the runs show what happens without it.

- `Disciplined` (`NothingUsedAfterFree`): the store to `active` of a thread that reads
  is not delayed, and nobody but itself registers callbacks of its own. Those are
  the two ways to use an object after it was freed: `reclamation_delayed` breaks
  the first and `reclamation_earliest` the second. The constants of `reclamation.cfg`
  satisfy it, with a thread that only writes for the delayed one.
- `WhereUndone` (all of `TransactionalMemoryProofs`): inside of a section, the functions
  of `memory.hpp` that take a `thread_data` are used in read-write transactions
  only. A read-only transaction never runs the failure callbacks that they register
  (`memory.hpp:32`, a hazard), and TLC finds `NothingIsLeftOver` violated with it.
- `Reentrant = {}` (all of `QuiescenceBufferProofs`): no callback runs a transaction.
  `quiescence_reentrant` has one that does and breaks `RunsOnce`. Without it a loop
  goes on with positions of a ring that may have grown or lost its first epoch meanwhile.

**CommitAlgorithm.** Opacity is not inductive: an attempt that has
loaded a storage word has to conclude from a version it loads afterwards.
`Settled(v, r)` is what it may conclude: for a transaction of version `r`, the
content of `v` is what its version says. It holds unless a commit is storing to
`v`, or has stored and will publish a version greater than `r`. `Consistent(t)`
says that all settled variables hold, and were loaded by `t` as, what `t`'s
snapshot holds. That this is preserved needs

1. `LockOwnership`: the commit that stores to `v` is the only one to hold it, so
   that nobody clears its bit and nobody else stores;
2. `Versions`: no version is ahead of the clock, so that what is committed after
   the attempt loaded the clock publishes a greater version;
3. `Progress(t)`: where each loop stands, in particular that what is still to be
   published has been stored.

`VersionsTellContents` is their conjunction, `Inv` adds type correctness, Opacity
and FreesWhatItReplaces, and `InvStep` proves it inductive, one lemma per part, one
step per action. `ValidSettled` is the link to the code: `rw_valid` implies
`Settled`. The refinement then follows: `RefinementStep` maps
`AllValid` to Commit, `GetClock` to Begin, a passed check to Read or Write, the
ends to Finish and Fail and everything else to a stutter; that Commit's guard holds is
`Consistent` for the locked variables.

**StrictSerializability.** Snapshot isolation does not give it: what a transaction only
read may be replaced before it commits, and two commits that validate at once have not
decided yet. `SerialInv` says where everybody stands in the order `serial`:

1. `Place(t)`: a commit that has its locks is in the order once, behind
   `born[t]`, the number of transactions that came before its attempt;
2. `Snapped(t)`: a variable that is settled for an attempt is in its snapshot as the first
   `born[t]` transactions leave it, and no decided transaction behind them replaces it.
   So a variable whose version a commit finds valid after it took its place is still
   what those before it left: this is why the reads have to be validated with all the
   locks held, and not before;
3. `ReadsFrom(n, r)`: the read `r` is what the first `n` transactions leave, and no commit
   among them that may still succeed replaces it. The second half is what keeps it true when
   such a commit is decided (`DecideKeeps`); a pending commit holds its locks, so whoever
   finds the version valid knows that there is none (`PendingHolds`).

`Serialized`, `Validated` and `Seen` say `ReadsFrom` of the decided transactions, of the reads
that a pending commit has validated and of running attempts. Two kinds of steps change
places that others refer to: an attempt that gives up its place takes it out, and a
transaction that changed nothing comes in where its attempt began. `Moves(f)` says that a step
renumbers the places by a growing `f`, and `Kept` that all of `SerialInv` survives it
but for what it says of the thread that moved. A commit that changes nothing in the
order but is decided (`AllValid`) is `DecideKeeps`: its writes are the last of the
order to those variables by `Snapped`, so the memory is what the order leaves.
`AfterIs` characterizes the greatest place before another that writes a variable,
by induction over the length.

**Reclamation.** Its steps are those of the commit algorithm or leave it alone, so
`Inv` carries over (`Transactions`). `GarbageInv` adds what holds whoever is late:
`Owned` (what is stored, about to be retired, in a queue and freed are disjoint, and a
storage that was not stored yet is in none of them), `Accounted` (whatever was ever stored
is in one of them: a step replaces the object of one variable, which its commit then
retires, or moves objects from one of these places to the next, `ReplacementsStep`), `Ordered` (a thread's
epochs grow, and all are before the clock) and `ReadersAreEarlier`: who has
read what `u` is going to free has a version that is not after the epoch of that
chunk. This is where the commit algorithm comes in: the reader has checked the version
of a variable whose replacement was not published yet (`Settled`). `FreedOnce` and
`ChunksInOrder` follow. For `NoUseAfterFree`, `EpochInv` adds `Visited`: what `u` knows
of a reader whose node it has passed is either that the reader is later than
the epoch or that `u` is about to wait for it; when the last node is passed nobody is left.

**FastRwMutex.** The count is the cardinality of those who have counted
themselves, and the bit has one owner; `Exclusion` follows.

**ThreadRegistry.** `Locked`: there is one keeper of the list, and while it goes on,
every node before its position carries its claim and has no reader. A walk
holds its own node shared, so a change of the list (all nodes locked) and a
walk exclude each other (`NobodyWalks`). `Walked`: of every section that ran when the wait
began, a node before the walk's position has none left, or a later one.
`NodesOutliveTheirUse` follows from `List`, which says where the owner of a listed node is.

**TransactionalMemory.** `MemoryInv` relates the containers to the history:
`Writes` (the write set is a function and is what was written, each entry has its bit in the
filter), `Reads`, `Owners` (the set of objects that are not free is the disjoint union of
those of the user, of the attempt, of the variables, the pending ones and those queued),
`Registrations` (what is replaced is registered to be freed) and the effects of the
callbacks: `Reclaims` says what running the queue would do to the heap now,
`Undoes` what running the failure callbacks would. Both are statements about a recursive
function (`Run`), preserved because an operation changes the heap and registers the callback
that undoes the change at once. Facts about `Run` and `RemoveWritesFromReads`
for all sequences are proved with `Induction`: a set of naturals that contains 0
and every successor is all of them, from the finiteness of `0 .. n`. So that they
could be, both are recursive functions and not operators.

**QuiescenceBuffer.** The positions of the source are remainders: `ring_begin` and `epoch_begin`
always, `write_pos` and a loop's index not until they are used. The proof counts from
the first header instead: `At(r, i)` is the element `i` behind it, `Size` and `Finalized` (where
the working epoch begins) are such distances, and the lemmas on the remainder, which need the
quotient, say what a step adds to them or takes away. `LimitAssumption` is used here only for
the ring having room at first; that `Wrap` is a bit mask in the source is what the power of two is for.
Each operation then has one lemma: `EmplaceBack` adds an element behind
the others and changes none of them, whether the ring grows or not (`reserve_more` moves every
element, and `At` says the same of it before and after), the removal of the first epoch
shifts them by its size.

`Linked(r, o, n)` says what the headers have to: there are `n` finalized epochs, `o[k]` is where
the one behind the first `k` begins, the header before knows that size as its `size` and the one
there as its `prev_size`. `Chain` says that there are such `n` and `o`; `finalize_epoch` extends
them (`FinalizeEpoch` writes the size before it pushes the header that knows it, and
the push may move both), and removing the first epoch shifts them. `RingInv` adds that the loop in
progress has the end of the first epoch as its `end` and an index no further. `HeadersLinked`
follows, since `back_epoch` is `o[n - 1]` and the assertion is about `o[1]`. For the refinement,
`EpochsAre` computes the recursive function `Epochs` from `Linked`, with an induction
from the last epoch backwards: what it finds from `o[k]` on are the epochs behind the first `k`. Each step
then is `Push`, `Finalize`, `Clear`, `Front`, `Run` or `Retire` of `EpochQueue` or a stutter; that the
epoch removed is the head, and that what is left of it is what still has to run, is where
`RingInv` comes in. `OnceInv` adds `Unrun`: a callback is in the ring at one place at most, and none
of those that the loop has not reached has run.

Only model-checked: all liveness (under fairness it is out of the prover's reach) and
the tree (`TreeVerified`, `ElementsStayWhole`, `NodesHaveOneOwner`, `NothingDangles`), whose
operations are recursive operators that no backend reasons about and
whose properties are about the shape of whole trees.

## What is not modelled, and the plan

Still worth proving:

- What holds of the ring when callbacks run transactions: which loops may still find their
  epoch, and from which `ReclaimLimit` on.
- The balance of the tree, if its operations are written with recursive functions.

And worth modelling: callbacks that run transactions beside the epochs of other
threads (`QuiescenceBuffer` has the callbacks, `Reclamation` the epochs): what such
a transaction finalizes while `reclaim_all` loops was never waited for.

Not modelled: `list` (every read is tracked, so that its operations are
transactions like any other), `unsafe_get` and `unsafe_set` (no synchronization,
left to the user), results of functions, failing allocators, `backoff` (time only),
`easy_var` (each operator is a transaction), `htm` (unused), `perf_stats` and
`tools/` (counters), `privatized_future` (unfinished), macros.

## Running

```
tlc -workers 2 -config serializability.cfg StrictSerializabilityMC.tla
tlc -workers 2 -config reclamation.cfg ReclamationMC.tla
tlc -workers 2 -config registry.cfg ThreadRegistryMC.tla
tlc -workers 2 -config quiescence_buffer.cfg QuiescenceBufferMC.tla
tlc -workers 2 -config memory.cfg TransactionalMemoryMC.tla
tlc -workers 2 -config rbtree.cfg SharedTreeMC.tla
tlapm CommitAlgorithmProofs.tla
tlapm SnapshotIsolationProofs.tla
tlapm StrictSerializabilityProofs.tla
tlapm FastRwMutexProofs.tla
tlapm ReclamationProofs.tla
tlapm ThreadRegistryProofs.tla
tlapm TransactionalMemoryProofs.tla
tlapm QuiescenceBufferProofs.tla
```

`PROJECT.json` lists the runs with their properties, the mutation of the code
that each property rules out, and the source lines of every definition.
