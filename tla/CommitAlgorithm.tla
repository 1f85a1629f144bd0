--------------------------- MODULE CommitAlgorithm ---------------------------
(***************************************************************************)
(* Transactions of lockfree-stm running against each other: the reads and  *)
(* writes of transaction_base, the retry loops of read_write and           *)
(* read_only, and commit_algorithm::try_commit.  One action is one access  *)
(* to shared memory: the version clock, a variable's version_lock or a     *)
(* variable's storage.                                                     *)
(*                                                                         *)
(* Data.  A version_lock word is a version and its lock bit.  A storage    *)
(* word is the identity of the object it points to: <<t, n>> is what       *)
(* thread t allocates in its n-th transaction (an attempt that fails gives *)
(* it back and the next one may get the same address again).  Read and     *)
(* write sets are sets: they are vectors in insertion order, which is the  *)
(* user's, so the loops over them may go in any order.                     *)
(***************************************************************************)
EXTENDS Naturals, FiniteSets

CONSTANTS
    Threads,     \* threads running transactions
    Vars,        \* the transactional variables (var_base)
    AtomicVars,  \* those kept in the storage word itself (var<T>::atomic)
    Nobody,      \* allocator of the initial storage of every variable
    Calls,       \* bound: what each thread's functions may call, on which variable
    MaxTx,       \* bound: transactions each thread completes
    MaxOps       \* bound: reads and writes of one attempt

ASSUME ConstantsAssumption ==
    /\ Nobody \notin Threads
    /\ AtomicVars \subseteq Vars
    /\ Calls \in [Threads -> SUBSET ({"read", "untracked", "write"} \X Vars)]
    /\ MaxTx \in Nat
    /\ MaxOps \in Nat

VARIABLES
    clock,         \* transaction_domain::clock
    version_lock,  \* var_base::version_lock of each variable
    storage,       \* var_base::storage of each variable
    pc,            \* where each thread is
    kind,          \* read_write or read_only, the entry point it called
    version_,      \* transaction_base::version_ of the attempt
    read_set,      \* variables whose reads the attempt will validate
    write_set,     \* variables the attempt will replace (by Fresh)
    displaced,     \* the storage each success callback of a write will free
    ops,           \* reads and writes the attempt has made so far
    what,          \* read, untracked or write: the call being executed
    cur,           \* ... its variable, or the one lock() works on
    loaded,        \* ... the storage it has loaded
    version_buf,   \* ... the version lock() has loaded
    todo,          \* variables the current loop of the commit has yet to visit
    sync_epoch,    \* clock before the bump of the commit
    done,          \* number of transactions the thread has completed
    snapshot,      \* history: the memory when the attempt read the clock
    seen           \* history: what the attempt's reads have returned

shared == <<clock, version_lock, storage>>
sets == <<read_set, write_set, displaced>>
call == <<what, cur, loaded>>
history == <<snapshot, seen>>
vars == <<shared, pc, kind, version_, sets, ops, call, version_buf, todo,
          sync_epoch, done, history>>

Storage == (Threads \cup {Nobody}) \X Nat
Initial == <<Nobody, 0>>

Word(version, locked) == [version |-> version, locked |-> locked]

(* What t's current transaction allocates for the variables it writes. *)
Fresh(t) == <<t, done[t]>>

(* Mutant: the lock bit is masked out of the word. *)
ValidWhileLocked(t, v) == version_lock[v].version <= version_[t]

(* rw_valid: the lock bit is the top bit of the word, so that a locked     *)
(* word is above every version.                                            *)
Valid(t, v) ==
    /\ ~version_lock[v].locked
    /\ version_lock[v].version <= version_[t]

(* The memory as transactions that start from now on will see it: between  *)
(* the end of its validation and its do_writes, what a commit is about to  *)
(* store counts as stored, its locks keep everyone else out.               *)
Memory ==
    [v \in Vars |->
        IF \E t \in Threads : pc[t] = "write" /\ v \in write_set[t]
        THEN Fresh(CHOOSE t \in Threads : pc[t] = "write" /\ v \in write_set[t])
        ELSE storage[v]]

Init ==
    /\ clock = 0
    /\ version_lock = [v \in Vars |-> Word(0, FALSE)]
    /\ storage = [v \in Vars |-> Initial]
    /\ pc = [t \in Threads |-> "idle"]
    /\ kind = [t \in Threads |-> "read_write"]
    /\ version_ = [t \in Threads |-> 0]
    /\ read_set = [t \in Threads |-> {}]
    /\ write_set = [t \in Threads |-> {}]
    /\ displaced = [t \in Threads |-> [v \in Vars |-> Initial]]
    /\ ops = [t \in Threads |-> 0]
    /\ what = [t \in Threads |-> "read"]
    /\ cur = [t \in Threads |-> Nobody]
    /\ loaded = [t \in Threads |-> Initial]
    /\ version_buf = [t \in Threads |-> 0]
    /\ todo = [t \in Threads |-> {}]
    /\ sync_epoch = [t \in Threads |-> 0]
    /\ done = [t \in Threads |-> 0]
    /\ snapshot = [t \in Threads |-> storage]
    /\ seen = [t \in Threads |-> {}]
-----------------------------------------------------------------------------
(* The retry loop *)

Goto(t, label) == pc' = [pc EXCEPT ![t] = label]

(* The call on a variable returns: its locals are gone. *)
Returned(t) ==
    /\ what' = [what EXCEPT ![t] = "read"]
    /\ cur' = [cur EXCEPT ![t] = Nobody]
    /\ loaded' = [loaded EXCEPT ![t] = Initial]

(* The attempt ends, failed or not: its sets are cleared and its locals    *)
(* are gone.                                                               *)
EndAttempt(t) ==
    /\ version_' = [version_ EXCEPT ![t] = 0]
    /\ read_set' = [read_set EXCEPT ![t] = {}]
    /\ write_set' = [write_set EXCEPT ![t] = {}]
    /\ displaced' = [displaced EXCEPT ![t] = [v \in Vars |-> Initial]]
    /\ ops' = [ops EXCEPT ![t] = 0]
    /\ version_buf' = [version_buf EXCEPT ![t] = 0]
    /\ todo' = [todo EXCEPT ![t] = {}]
    /\ sync_epoch' = [sync_epoch EXCEPT ![t] = 0]
    /\ snapshot' = [snapshot EXCEPT ![t] = [v \in Vars |-> Initial]]
    /\ seen' = [seen EXCEPT ![t] = {}]
    /\ Returned(t)
    /\ UNCHANGED shared

(* tx_failure: the loop starts the transaction over. *)
Fail(t) ==
    /\ Goto(t, "top")
    /\ EndAttempt(t)
    /\ UNCHANGED <<kind, done>>

(* tx_success, and unhandled_exception: the transaction is over. *)
Finish(t) ==
    /\ Goto(t, "idle")
    /\ EndAttempt(t)
    /\ kind' = [kind EXCEPT ![t] = "read_write"]
    /\ done' = [done EXCEPT ![t] = @ + 1]

Invoke(t, k) ==
    /\ pc[t] = "idle"
    /\ done[t] < MaxTx
    /\ Goto(t, "top")
    /\ kind' = [kind EXCEPT ![t] = k]
    /\ UNCHANGED <<shared, version_, sets, ops, call, version_buf, todo, sync_epoch, done, history>>

GetClock(t) ==
    /\ pc[t] = "top"
    /\ Goto(t, "run")
    /\ version_' = [version_ EXCEPT ![t] = clock]
    /\ snapshot' = [snapshot EXCEPT ![t] = Memory]
    /\ UNCHANGED <<shared, kind, sets, ops, call, version_buf, todo, sync_epoch, done, seen>>

(* The user's function calls retry(). *)
Retry(t) == pc[t] = "run" /\ Fail(t)

(* The user's function throws something else. *)
Throw(t) == pc[t] = "run" /\ Finish(t)
-----------------------------------------------------------------------------
(* Reads and writes of the user's function *)

(* Mutant: the call works on the variable of an earlier one. *)
CalledOnStale(t, w, v) ==
    /\ pc[t] = "run"
    /\ ops[t] < MaxOps
    /\ w = "write" => kind[t] = "read_write"
    /\ ops' = [ops EXCEPT ![t] = @ + 1]
    /\ what' = [what EXCEPT ![t] = w]
    /\ UNCHANGED cur

Called(t, w, v) ==
    /\ pc[t] = "run"
    /\ ops[t] < MaxOps
    /\ w = "write" => kind[t] = "read_write"
    /\ ops' = [ops EXCEPT ![t] = @ + 1]
    /\ what' = [what EXCEPT ![t] = w]
    /\ cur' = [cur EXCEPT ![t] = v]

(* A variable the attempt has written already: its pending storage is      *)
(* returned, or assigned to, if the variable itself is still valid.        *)
AccessPending(t, v) ==
    /\ pc[t] = "run"
    /\ ops[t] < MaxOps
    /\ v \in write_set[t]
    /\ \/ /\ Valid(t, v)
          /\ ops' = [ops EXCEPT ![t] = @ + 1]
          /\ UNCHANGED <<shared, pc, kind, version_, sets, call, version_buf, todo,
                         sync_epoch, done, history>>
       \/ ~Valid(t, v) /\ Fail(t)

(* The fast path of a read that is not in the write set. *)
ReadFast(t, w, v) ==
    /\ w # "write"
    /\ kind[t] = "read_write"
    /\ v \notin write_set[t]
    /\ Called(t, w, v)
    /\ loaded' = [loaded EXCEPT ![t] = storage[v]]
    /\ Goto(t, "fast")
    /\ UNCHANGED <<shared, kind, version_, sets, version_buf, todo, sync_epoch, done, history>>

(* A set is full or the write set's filter matches: the slow path at once. *)
(* A read-only transaction has one path only, and it is the same.          *)
SlowPath(t, w, v) ==
    /\ v \notin write_set[t]
    /\ Called(t, w, v)
    /\ Goto(t, "reload")
    /\ UNCHANGED <<shared, kind, version_, sets, loaded, version_buf, todo, sync_epoch, done, history>>

(* The fast path of a write: the variable is checked first. *)
WriteFast(t, w, v) ==
    /\ w = "write"
    /\ v \notin write_set[t]
    /\ Called(t, w, v)
    /\ Goto(t, IF Valid(t, v) THEN "displace" ELSE "reload")
    /\ UNCHANGED <<shared, kind, version_, sets, loaded, version_buf, todo, sync_epoch, done, history>>

(* ... and the storage that a commit would replace is loaded afterwards,   *)
(* for the success callback that frees it.  An atomic variable frees none. *)
Displace(t) ==
    LET v == cur[t] IN
    /\ pc[t] = "displace"
    /\ write_set' = [write_set EXCEPT ![t] = @ \cup {v}]
    /\ displaced' = IF v \in AtomicVars THEN displaced
                    ELSE [displaced EXCEPT ![t][v] = storage[v]]
    /\ Goto(t, "run")
    /\ Returned(t)
    /\ UNCHANGED <<shared, kind, version_, read_set, ops, version_buf, todo, sync_epoch,
                   done, history>>

Reload(t) ==
    /\ pc[t] = "reload"
    /\ loaded' = [loaded EXCEPT ![t] = storage[cur[t]]]
    /\ Goto(t, "slow")
    /\ UNCHANGED <<shared, kind, version_, sets, ops, what, cur, version_buf, todo, sync_epoch,
                   done, history>>

(* The version is checked after the storage was loaded. *)
CheckPasses(t) ==
    LET v == cur[t] IN
    /\ pc[t] \in {"fast", "slow"}
    /\ Valid(t, v)
    /\ Goto(t, "run")
    /\ read_set' = IF what[t] = "read" /\ kind[t] = "read_write"
                   THEN [read_set EXCEPT ![t] = @ \cup {v}] ELSE read_set
    /\ write_set' = IF what[t] = "write"
                    THEN [write_set EXCEPT ![t] = @ \cup {v}] ELSE write_set
    /\ displaced' = IF what[t] = "write" /\ v \notin AtomicVars
                    THEN [displaced EXCEPT ![t][v] = loaded[t]] ELSE displaced
    /\ seen' = IF what[t] # "write"
               THEN [seen EXCEPT ![t] = @ \cup {<<v, loaded[t]>>}] ELSE seen
    /\ Returned(t)
    /\ UNCHANGED <<shared, kind, version_, ops, version_buf, todo, sync_epoch, done, snapshot>>

(* Mutant: the slow path tries again instead of giving up the attempt. *)
CheckFailsForever(t) ==
    /\ pc[t] \in {"fast", "slow"}
    /\ ~Valid(t, cur[t])
    /\ Goto(t, "reload")
    /\ UNCHANGED <<shared, kind, version_, sets, ops, call, version_buf, todo, sync_epoch,
                   done, history>>

(* The fast path falls back to the slow one, the slow one retries. *)
CheckFails(t) ==
    /\ pc[t] \in {"fast", "slow"}
    /\ ~Valid(t, cur[t])
    /\ \/ /\ pc[t] = "fast"
          /\ Goto(t, "reload")
          /\ UNCHANGED <<shared, kind, version_, sets, ops, call, version_buf, todo, sync_epoch,
                         done, history>>
       \/ pc[t] = "slow" /\ Fail(t)
-----------------------------------------------------------------------------
(* try_commit *)

(* Nothing written: no validation, no clock. *)
CommitNothing(t) ==
    /\ pc[t] = "run"
    /\ write_set[t] = {}
    /\ Finish(t)

RemoveWritesFromReads(t) ==
    /\ pc[t] = "run"
    /\ write_set[t] # {}
    /\ read_set' = [read_set EXCEPT ![t] = @ \ write_set[t]]
    /\ todo' = [todo EXCEPT ![t] = write_set[t]]
    /\ Goto(t, "lock")
    /\ UNCHANGED <<shared, kind, version_, write_set, displaced, ops, call, version_buf,
                   sync_epoch, done, history>>

Commit == <<kind, version_, sets, ops, what, loaded, done, history>>

(* Mutant: a failed commit leaves its locks behind. *)
UnlockNothing(t, locked) ==
    /\ Goto(t, "unlock")
    /\ todo' = [todo EXCEPT ![t] = {}]

(* unlock_write_set over what has been locked so far. *)
UnlockFrom(t, locked) ==
    /\ Goto(t, "unlock")
    /\ todo' = [todo EXCEPT ![t] = locked]

(* lock(): the version is loaded and checked ... *)
LockLoad(t, v) ==
    /\ pc[t] = "lock"
    /\ v \in todo[t]
    /\ \/ /\ Valid(t, v)
          /\ Goto(t, "cas")
          /\ cur' = [cur EXCEPT ![t] = v]
          /\ version_buf' = [version_buf EXCEPT ![t] = version_lock[v].version]
          /\ UNCHANGED todo
       \/ /\ ~Valid(t, v)
          /\ UnlockFrom(t, write_set[t] \ todo[t])
          /\ UNCHANGED <<cur, version_buf>>
    /\ UNCHANGED <<shared, sync_epoch, Commit>>

(* Mutants: the CAS compares the version and not the lock bit, or only     *)
(* finds the word unlocked, whatever its version.                          *)
SameVersion(t, v) == version_lock[v].version = version_buf[t]
Unlocked(t, v) == ~version_lock[v].locked

SameWord(t, v) == version_lock[v] = Word(version_buf[t], FALSE)

(* ... and the lock bit is set if the word has not changed since. *)
LockCas(t) ==
    LET v == cur[t] IN
    /\ pc[t] = "cas"
    /\ \/ /\ SameWord(t, v)
          /\ version_lock' = [version_lock EXCEPT ![v] = Word(version_buf[t], TRUE)]
          /\ todo' = [todo EXCEPT ![t] = @ \ {v}]
          /\ Goto(t, "lock")
       \/ /\ ~SameWord(t, v)
          /\ UnlockFrom(t, write_set[t] \ todo[t])
          /\ UNCHANGED version_lock
    /\ UNCHANGED <<clock, storage, cur, version_buf, sync_epoch, Commit>>

(* unlock() flips the lock bit of a word it believes to be locked. *)
Unlock(t, v) ==
    /\ pc[t] = "unlock"
    /\ v \in todo[t]
    /\ version_lock' = [version_lock EXCEPT ![v] = Word(@.version, ~@.locked)]
    /\ todo' = [todo EXCEPT ![t] = @ \ {v}]
    /\ UNCHANGED <<clock, storage, pc, cur, version_buf, sync_epoch, Commit>>

CommitFailed(t) ==
    /\ pc[t] = "unlock"
    /\ todo[t] = {}
    /\ Fail(t)

(* One loop of the commit is through, the next begins. *)
NextLoop(t, from, to, over) ==
    /\ pc[t] = from
    /\ todo[t] = {}
    /\ Goto(t, to)
    /\ todo' = [todo EXCEPT ![t] = over]

(* Mutant: the reads are not validated. *)
AllLockedIsEnough(t) ==
    /\ NextLoop(t, "lock", "validate", {})
    /\ UNCHANGED <<shared, cur, version_buf, sync_epoch, Commit>>

AllLocked(t) ==
    /\ NextLoop(t, "lock", "validate", read_set[t])
    /\ UNCHANGED <<shared, cur, version_buf, sync_epoch, Commit>>

ValidateRead(t, v) ==
    /\ pc[t] = "validate"
    /\ v \in todo[t]
    /\ \/ Valid(t, v) /\ todo' = [todo EXCEPT ![t] = @ \ {v}] /\ UNCHANGED pc
       \/ ~Valid(t, v) /\ UnlockFrom(t, write_set[t])
    /\ UNCHANGED <<shared, cur, version_buf, sync_epoch, Commit>>

(* From here on the transaction is committed. *)
AllValid(t) ==
    /\ NextLoop(t, "validate", "write", write_set[t])
    /\ UNCHANGED <<shared, cur, version_buf, sync_epoch, Commit>>

DoWrite(t, v) ==
    /\ pc[t] = "write"
    /\ v \in todo[t]
    /\ storage' = [storage EXCEPT ![v] = Fresh(t)]
    /\ todo' = [todo EXCEPT ![t] = @ \ {v}]
    /\ UNCHANGED <<clock, version_lock, pc, cur, version_buf, sync_epoch, Commit>>

FetchAndBumpClock(t) ==
    /\ NextLoop(t, "write", "publish", write_set[t])
    /\ sync_epoch' = [sync_epoch EXCEPT ![t] = clock]
    /\ clock' = clock + 1
    /\ UNCHANGED <<version_lock, storage, cur, version_buf, Commit>>

(* Mutants: the commit publishes the version it read, or one too many. *)
VersionBefore(t) == sync_epoch[t]
VersionBeyond(t) == sync_epoch[t] + 2

WriteVersion(t) == sync_epoch[t] + 1

Publish(t, v) ==
    /\ pc[t] = "publish"
    /\ v \in todo[t]
    /\ version_lock' = [version_lock EXCEPT ![v] = Word(WriteVersion(t), FALSE)]
    /\ todo' = [todo EXCEPT ![t] = @ \ {v}]
    /\ UNCHANGED <<clock, storage, pc, cur, version_buf, sync_epoch, Commit>>

CommitSucceeded(t) ==
    /\ pc[t] = "publish"
    /\ todo[t] = {}
    /\ Finish(t)
-----------------------------------------------------------------------------
User(t) ==
    \/ \E k \in {"read_write", "read_only"} : Invoke(t, k)
    \/ Retry(t) \/ Throw(t)
    \/ \E c \in Calls[t] :
           \/ ReadFast(t, c[1], c[2]) \/ WriteFast(t, c[1], c[2])
           \/ SlowPath(t, c[1], c[2]) \/ AccessPending(t, c[2])
    \/ CommitNothing(t) \/ RemoveWritesFromReads(t)

Library(t) ==
    \/ GetClock(t) \/ Displace(t) \/ Reload(t) \/ CheckPasses(t) \/ CheckFails(t)
    \/ LockCas(t) \/ AllLocked(t) \/ AllValid(t) \/ FetchAndBumpClock(t)
    \/ CommitSucceeded(t) \/ CommitFailed(t)
    \/ \E v \in Vars : \/ LockLoad(t, v) \/ Unlock(t, v) \/ ValidateRead(t, v)
                       \/ DoWrite(t, v) \/ Publish(t, v)

Step(t) == User(t) \/ Library(t)

(* Every thread has completed its transactions: the program is over. *)
Terminated ==
    /\ \A t \in Threads : pc[t] = "idle" /\ done[t] = MaxTx
    /\ UNCHANGED vars

Next == (\E t \in Threads : Step(t)) \/ Terminated

Spec == Init /\ [][Next]_vars

(* Threads are scheduled, and the user's functions return: a thread that   *)
(* is inside a transaction keeps taking steps.  Nobody has to start one.   *)
FairSpec == Spec /\ \A t \in Threads : WF_vars(pc[t] # "idle" /\ Step(t))
-----------------------------------------------------------------------------
(* What holds *)

Labels == {"idle", "top", "run", "fast", "reload", "slow", "displace", "lock", "cas",
           "unlock", "validate", "write", "publish"}

(* Type invariant. *)
TypeOK ==
    /\ clock \in Nat
    /\ version_lock \in [Vars -> [version : Nat, locked : BOOLEAN]]
    /\ storage \in [Vars -> Storage]
    /\ pc \in [Threads -> Labels]
    /\ kind \in [Threads -> {"read_write", "read_only"}]
    /\ version_ \in [Threads -> Nat]
    /\ read_set \in [Threads -> SUBSET Vars]
    /\ write_set \in [Threads -> SUBSET Vars]
    /\ displaced \in [Threads -> [Vars -> Storage]]
    /\ ops \in [Threads -> Nat]
    /\ what \in [Threads -> {"read", "untracked", "write"}]
    /\ cur \in [Threads -> Vars \cup {Nobody}]
    /\ \A t \in Threads :
           pc[t] \in {"fast", "reload", "slow", "displace", "cas"} => cur[t] \in Vars
    /\ loaded \in [Threads -> Storage]
    /\ version_buf \in [Threads -> Nat]
    /\ todo \in [Threads -> SUBSET Vars]
    /\ sync_epoch \in [Threads -> Nat]
    /\ done \in [Threads -> Nat]
    /\ snapshot \in [Threads -> [Vars -> Storage]]
    /\ seen \in [Threads -> SUBSET (Vars \X Storage)]

(* The variables whose lock bit t has set and not yet cleared: nothing in  *)
(* the lock word says whose it is, this is what each loop relies on.       *)
Held(t) ==
    {v \in write_set[t] :
        \/ pc[t] \in {"lock", "cas"} /\ v \notin todo[t]
        \/ pc[t] \in {"validate", "write"}
        \/ pc[t] \in {"publish", "unlock"} /\ v \in todo[t]}

(* A lock bit is set exactly while one commit holds it, and no two commits *)
(* hold the same variable: unlock_as_version's assertion that the word is  *)
(* locked never fails, an unlock (which flips the bit) never locks, and a  *)
(* failed commit leaves no variable locked behind.                         *)
LockOwnership ==
    /\ \A v \in Vars : version_lock[v].locked <=> \E t \in Threads : v \in Held(t)
    /\ \A t, u \in Threads : t # u => Held(t) \cap Held(u) = {}

(* Opacity: whatever a running attempt has read, even one that is doomed   *)
(* to fail, even untracked, is what one single memory held, that of the    *)
(* instant the attempt loaded the clock.                                   *)
Opacity ==
    \A t \in Threads : \A r \in seen[t] : r[2] = snapshot[t][r[1]]

(* The storage that a write's success callback is going to free is the one *)
(* that do_writes is about to overwrite, although it was loaded during the *)
(* attempt, and on the fast path after the version was checked: nothing is *)
(* freed twice or leaked, and nothing is freed that a variable still holds.*)
FreesWhatItReplaces ==
    \A t \in Threads : pc[t] = "write" =>
        \A v \in todo[t] \ AtomicVars : displaced[t][v] = storage[v]

(* For a transaction of version r, v's storage is what its version_lock    *)
(* says, or will say once the commit that is publishing it has come to v;  *)
(* a commit that is still storing will say something greater than r.       *)
Settled(v, r) ==
    /\ \A u \in Threads : pc[u] = "write" => v \notin write_set[u]
    /\ \A u \in Threads : pc[u] = "publish" /\ v \in todo[u] => sync_epoch[u] + 1 <= r
    /\ (\A u \in Threads : pc[u] = "publish" => v \notin todo[u])
           => version_lock[v].version <= r

Attempting == {t \in Threads : pc[t] \notin {"idle", "top"}}

(* Where each loop stands. *)
Progress(t) ==
    /\ t \notin Attempting => write_set[t] = {} /\ seen[t] = {}
    /\ pc[t] \in {"idle", "top", "run", "fast", "reload", "slow", "displace"} => todo[t] = {}
    /\ pc[t] \in {"lock", "cas", "unlock", "write", "publish"} => todo[t] \subseteq write_set[t]
    /\ pc[t] = "cas" => cur[t] \in todo[t]
    /\ pc[t] = "write" => \A v \in write_set[t] \ todo[t] : storage[v] = Fresh(t)
    /\ pc[t] = "publish" => \A v \in todo[t] : storage[v] = Fresh(t)

(* No version is ahead of the clock, and none that is held is ahead of its *)
(* holder.                                                                 *)
Versions ==
    /\ \A v \in Vars : version_lock[v].version <= clock
    /\ \A t \in Threads :
           /\ version_[t] <= clock
           /\ pc[t] = "publish" => sync_epoch[t] < clock
           /\ pc[t] = "cas" => version_buf[t] <= version_[t]
           /\ pc[t] \in {"lock", "cas", "validate"} =>
                  \A v \in Held(t) : version_lock[v].version <= version_[t]

(* What is settled for an attempt is its snapshot: the storage itself, the *)
(* storage it has just loaded, and the one its callbacks will free.        *)
Consistent(t) ==
    \A v \in Vars : Settled(v, version_[t]) =>
        /\ storage[v] = snapshot[t][v]
        /\ pc[t] \in {"fast", "slow"} /\ cur[t] = v => loaded[t] = snapshot[t][v]
        /\ v \in write_set[t] \ AtomicVars => displaced[t][v] = snapshot[t][v]

(* The inductive invariant behind the properties above: it is one lock per *)
(* commit that lets a version stand for the content of a variable, and     *)
(* versions not ahead of the clock that keep later commits out of a        *)
(* snapshot.                                                               *)
VersionsTellContents ==
    /\ \A t \in Threads : Progress(t)
    /\ LockOwnership
    /\ Versions
    /\ \A t \in Attempting : Consistent(t)

(* The commit algorithm implements snapshot isolation, the commit taking   *)
(* effect when the last read is validated, before anything is stored and   *)
(* before the clock moves.                                                 *)
Status(t) ==
    IF pc[t] \in {"idle", "top"} THEN "idle"
    ELSE IF pc[t] \in {"write", "publish"} THEN "committed" ELSE "live"

Promise == INSTANCE SnapshotIsolation WITH
    memory <- Memory,
    status <- [t \in Threads |-> Status(t)],
    writes <- write_set

ImplementsSnapshotIsolation == Promise!Spec

(* Every attempt ends, the user's function being finite: the library makes *)
(* no transaction wait for another.                                        *)
AttemptsEnd ==
    \A t \in Threads : pc[t] = "run" ~> pc[t] \in {"idle", "top"}

(* No variable stays locked. *)
LocksAreReleased ==
    \A v \in Vars : version_lock[v].locked ~> ~version_lock[v].locked

(* A thread whose peers stay out of transactions, and whose function stops *)
(* calling retry(), completes its transaction: no failed or successful     *)
(* commit of theirs leaves anything behind that keeps making it fail.      *)
SoloProgress ==
    \A t \in Threads :
        (/\ <>[](\A u \in Threads \ {t} : pc[u] = "idle")
         /\ <>[][~Retry(t)]_vars)
        => []<>(pc[t] = "idle")
=============================================================================
