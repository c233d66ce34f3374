# libnvram-rs: specifications and proofs

TLA+ models of `libnvram.so` for Tomato64 (this repository), checked with TLC
and proved with TLAPS. Paths below are relative to the repository's
root; `src/x.rs` is the library's source.

## 1. The system

libnvram keeps the router's settings (about 3,500 `name=value` variables) in
three tiers, shared by every process that links the library. There are no
threads: all concurrency is between processes.

| Component | State | Operations |
|---|---|---|
| Shared segment (`shm.rs`) | open-addressing index of entries (hash, key, value offset and length, state, `FL_DIRTY`), append-only arena, 4096 seqlock counters, `arena_seq` | `put`, `remove`, `compact`, `clear`, `read_value`, `repair_seq`, `commit_snapshot`, `commit_writeback`; `create`, `attach`, `validate` |
| Per-process cache (`cache.rs`) | an entry per key read: value, the buffer it replaced, counter seen, valid | `install`, `invalidate_all` |
| Persistent store (`disk.rs`) | one file per key in `/nvram`, temporaries `.tmp.<pid>.<key>` | `stage`, `publish`, `discard`, `remove`, `remove_all`, `sync_store`, `differs_on_disk`, `load_all`, `read_one`, `write_atomic` |
| Semaphores (`sem.rs`) | a writer and a commit semaphore, both `SEM_UNDO` | `acquire`, `acquire_commit`, drop |
| Orchestration (`store.rs`) | the attached segment, the cache, a count of detached operations | `get`, `set`, `unset`, `commit`, `clear`, `getall`, `init`, `reattach` |
| C ABI (`lib.rs`) | one global `Store` | wrappers, `parse_int` |

How they interact. A set writes the segment under the writer semaphore and
touches no file. A get takes no lock: it serves its private copy while the key's
counter has not moved, else reads the segment behind that counter and
`arena_seq`, and only after 1000 torn reads takes the semaphore. A commit holds
the commit semaphore throughout and the writer semaphore only to copy out what
the disk owes and, after the files are written, to retire the flags of what has
not changed since. A clear holds both.

What is hard here, and what correctness means:

* *Reads without a lock.* A read returns a value its key had during the read,
  whatever writer, compaction or clear runs under it. A cached copy whose
  counter has not moved is the current value.
* *Writes while a commit is under way.* No flag is retired for a value that is
  not on disk; nothing is stranded in memory.
* *Death of a process between any two stores.* The lock comes back, the
  counters repair themselves, reads still end, the entry is old, new or empty.
* *Power loss between any two file operations.* A file is a whole value, no
  older than the last successful barrier.
* *Failures of single operations* (staging, flushing, renaming, unlinking,
  semaphores). What failed stays owed; temporaries do not leak.
* *Direct edits of `/nvram`.* Missing or resized files come back.
* *Bring-up.* One process builds the segment, from the right filesystem, whole;
  the others wait for it, refuse what is stale, and work on the files until they
  find it.
* *Pointers into a private cache.* A pointer that `nvram_get` returned is good
  until its key changes, whatever else the process and the others do.
* *The contract as a whole.* A set is visible everywhere at once and is not
  durable; a commit that succeeds is a barrier, one that fails takes nothing back.

`PROJECT.json` lists these as hazards, each at its line, with the properties
that cover it.

## 2. Modules

| Module | Models | Granularity |
|---|---|---|
| `Store` | `store.rs`, with the parts of `disk.rs`, `sem.rs`, `cache.rs` and `shm.rs` it drives | one action per section under the writer semaphore, per file operation, per return |
| `Segment` | `shm.rs` and the read loop of `Store::get` | one action per load of a reader and per store of a writer |
| `Bringup` | `init`, `adopt` and `reattach` of `store.rs`; `attach`, `create`, `map`, `validate` of `shm.rs`; `sem_get` and `lock` of `sem.rs`; `load_all` | one action per system call, and per store to `ready` |
| `Capi` | `lib.rs` as one process sees it, with `cache.rs`, `getall` and the detached branches of `store.rs` | one action per call |
| `Nvram` | the contract in the head of `lib.rs`, an abstract specification | one action per promise |
| `Registers` | what `Store` takes the segment for, an abstract specification | one action per start, end or death of a write, and per start, answer and return of a read |
| `MCStore`, `MCSegment`, `MCBringup`, `MCCapi` | instances for TLC | |
| `StoreProofs`, `StoreDurability`, `StoreRefinement` | theorems about `Store`: memory and flags; the device; the refinement of `Nvram` | |
| `SegmentProofs`, `SegmentIndex`, `SegmentReads` | theorems about `Segment`: types and probing; what the index holds; the lock-free reads and the refinement of `Registers` | |
| `BringupProofs`, `CapiProofs` | theorems about `Bringup` and `Capi` | |

`Store` takes `put`, `remove`, `clear` and a validated read for atomic; `Segment` is
where they are not. What `Store` relies on is `Registers`: a write that returns has
given its variable its value and no other variable another, a read returns a value of
its own duration, a copy that may be used without looking is current. `Segment`
implements it (`DeliversRegisters`). The run `reclaim`, and the deaths listed at the
end of section 3, show where the code does not deliver that; `Store`'s `Kill`
therefore kills outside those windows.
`Store` implements `Nvram` (`KeepsPromise`). `Bringup` ends where `Store` begins:
with a process that has a segment, or works on the files; `Capi` follows one
process across that line, with the other processes as its environment.

### Store

| Variable | Code |
|---|---|
| `seg[k]` | value and `FL_DIRTY` of the key's entry; `Absent` stands for no entry and, with the flag, for a tombstone |
| `slots[s]` | `Header::slots` |
| `cache[p][k]` | `Entry` of process p: `value`, `slot_seen`, `valid` |
| `file[k]`, `dur[k]` | what `/nvram` shows; the set of contents a power cut may leave |
| `tmp[p][k]` | the temporary of p for k: none, in the page cache, on the device |
| `wlock`, `clock` | holders of the writer and the commit semaphore |
| `pc`, `want`, `pending`, `staged`, `done`, `allOk` | where a call is, and its locals |
| `drift`, `late`, `hist`, `histc` | ghosts: files something else made differ; edits since the snapshot; values since the last barrier |

Actions follow the code from top to bottom: `Get`, then `ReadValue`,
`ReadLocked` or `GetDegraded`; `Set` and `Unset` over `Update`; `CommitBegin`,
`Snapshot`, `Stage`, `FlushStaged` or `FlushFails`, `Publish`, `Writeback`,
`CommitReturn`, with `CommitNoSem` for the early returns; `ClearBegin`,
`ClearSegment`, `WipeFile`, `WipeEnd`, `ClearReturn`, `ClearNoSem`. The
environment is `Edit`, `Kill` and `PowerLoss`; the constant `Fault` says which
failures a run allows.

`SyncStore` makes names and bytes durable. `Rename` adds to `dur` the new value
and, if the temporary had not been flushed, `Torn`: a name without its bytes. A
power cut picks any member of `dur[k]` for each key independently, and rc loads
the result. A set that finds no room in the segment changes nothing and is not an
action. The files of a dead process are swept by clear, by the next boot, or by
`Sweep`: the `load_all` of a process without a segment, or of another
`nvram_init`, unlinks every temporary it meets, those of a running commit too,
whose rename then fails.

`Promise` is `Nvram` under the mapping `mem` = the segment's values, `since` = the
ghost `hist`, `running` = the ghost `histc` while a commit or clear has looked at
memory and not returned, `foreign` = `drift`, and `copy` = what each process
would serve as a hit. What a degraded get reads from the file is outside it: such
a get is no copy of the segment.

### Nvram

One value per name. `since[k]` is the set of values a crash may still bring back:
those the name has had since the last barrier. `Begin` is a commit's look at
memory, `Succeed` its successful return, which makes the values since `Begin` the
new `since`; `GiveUp` is its failure or death. `Clear` is look and change in one.
`Outside` is somebody else's change of a file: it may survive a crash, and until
the library has written the file again (`Settle`) a barrier only promises not to
bring back what was older still. `CopiesCurrent` constrains every step: a copy a
process may use without looking is the current value.

### Segment

A cell of the index has state, key, value offset, length and flag. An offset is
named by the value it points at, since the arena only grows until `arena_seq`
moves; `Bytes` gives a value back for its own offset and length and `Mixed`
otherwise, and a reader that crosses a change of the arena copies `Mixed`.
`NoKey` is a cell whose key bytes and hash belong to different writes. There is at
most one writer, the record `w`; readers are records `rd[r]`.
`stable`, `held`, `saved` and `cut` are ghosts: the value of a key when no write was
last under way, the values a read may return, what the last commit left in
the file, and the keys a put was killed over a live value of before it set the flag,
until they are next written, committed or cleared. `Commit` is a whole commit: of what
it owes it writes any part and retires the flags of that; that a flag is retired only
where the counter has not moved since the snapshot is `Store`'s `Retired`. `WipeCell`
and `Refill` take the stores of `compact` and `clear` to one cell together: they are
inside the arena window, where a reader is torn whichever of them it meets. The values
put are not empty: `Empty` is what a length of 0 reads as, and with it a put of the
empty string would differ from a killed one in nothing. `ensure_space` is free to ask for a compaction before any put. A
behaviour begins right after `nvram_init` has loaded at most one variable, so a
first write already overwrites, removes or collides with something.

`Atomic` is `Registers` under the mapping `value` = the ghost `stable`, `call` = the
writer's key and value with how far it has come (`Stage`), `asked`, `may` and `answer`
= the key, the ghost `held` and the validated value of each reader, and `copy` = what
it would serve as a hit. `stable` is what the index says whenever no write is under
way, and `deaths` keeps a return from passing for a kill. A clear empties the
registers when it empties the index; until its last store the copies of others may
lag behind it.

Loads and stores are sequentially consistent: the acquire and release orderings
and fences are taken to give that, the arena's plain copies included. Counters
are natural numbers: a 64-bit counter does not wrap in the life of a device.
Keys with the same 64-bit hash are not considered.

### Bringup

| Variable | Code |
|---|---|
| `root`, `fs` | what is mounted on `/nvram`; the files of the bare directory and of the partition |
| `name`, `obj` | what the shared memory name stands for; every object made so far: sized, `store_dev`, variables, `ready` |
| `sem[d]` | the writer semaphore found by `ftok` under filesystem d: none, created and still 0, free, or held |
| `run[p]` | where p is: the system call it is about to make, who called `attach`, the object it has open, the files still to load |
| `seg[p]`, `ops[p]` | `Store::seg`, `Store::detached_ops` modulo `REATTACH_INTERVAL` |
| `from`, `had` of an object, `missed`, `raced` | ghosts |

`Open`, `Map`, `Ready`, `ReadyAgain`, `CheckDev` are `attach`; `Failed` says where
its four callers go without a segment. `InitCall`, `Unlink`, `Create` or
`CreateLoses`, then `Truncate`, `RecordDev`, `List`, `Load`, `Publish`, `Release`
are `nvram_init`; `Abandon` and `Unname` its way out. `SemGet`, `SetVal`, `SemOp`
acquire; `SemFails` is the `None` that neither `create` nor `validate` looks at.
`Fault` says what may fail; a failing first test of `init` (`store_available`)
changes nothing and is left out. Magic and version are those of one build.

A process that is killed starts again in the same place, so two names stand for
any number of processes one after the other. `raced` is set when an `nvram_init`
begins while another is under way: `OneSegment` is what holds without that, and
`LoserAttaches` is what the code's documentation promises with it. `had` is what a
file has held since the device was recorded; a file that cannot be read ("read" in
`Fault`) is passed over by `Load`, and that adds nothing to it.

### Capi

`cache[k]` has the buffers `value` and `retired` with an address each; an address
is free again when no buffer and no pointer uses it. `held` is a ghost: the
pointers returned whose key has not read otherwise since. A key is "changed" when
its value, as this process would be told it, is another one, so a process that
attaches to a segment with other values than the files has seen its keys change.
`Settable` are the keys `valid_key` accepts; another one can still be a file that
`nvram_init` loads. `nvram_get_int` hands out no pointer. `Committed(K)` is what a commit
that wrote the files of `K` leaves: which keys are owed and which of them fail is
`Store`'s, and here it may be any part of those that can be set. A call that fails for
want of a semaphore changes nothing but what `reattach` does, as a commit of nothing.

`Getall` packs in any order. What may fail under it is `Fault`: with "sem" an attached
process has no writer semaphore and returns failure with the caller's buffer as it was
(`last.buf` empty); with "disk" a detached one cannot list the directory, or read some
of its files, and goes on with the rest, or with nothing (`Met`). A `Byte` is a one-letter string, `NUL`
for the terminator or `BadByte` for one that no UTF-8 text has; names are not empty,
different and without `NUL`, since they are C strings or names of files. Values
include one with "=" in it, and the texts for `parse_int` every text of up to
three bytes over blank, signs, a digit, a letter and `BadByte`, and numbers around
`MaxInt`, and the values themselves. `Trim` cuts blanks only: the other characters that
Rust and C take for white space are not the same.

## 3. Runs

Passing runs (distinct states as TLC counts them):

| Run | Instance | Shows |
|---|---|---|
| `faults` | 2 processes, 1 key, 2 values of different lengths, 1 edit, every failure but that of unlink (377 k) | `TypeOK`, `CacheCoherent`, `NoRollback`, `NothingStranded`, `HealsItself`, `NoTempLeak`, `ClearEmptiesDisk`, and the refinement `KeepsPromise` |
| `live` | 2 processes, 1 key, kills, failing flushes and unlinks (18 k) | `CallsReturn` |
| `reads` | 1 reader, 1 key, 2 values of one length and 1 of another, 2 writes of every kind on a loaded segment, 1 death in put or remove (798 k, symmetry of the two values) | `ReadsLinearize`, `HitsCurrent`, `NeverDegraded`, `ChangesAreOwed`, `DeathLeaves`, `TypeOK`, and the refinement `DeliversRegisters` |
| `pair` | 1 reader, 2 keys in one window and on one counter, 2 writes of every kind (353 k) | `ReadsLinearize`, `HitsCurrent` |
| `compact` | 3 keys in overlapping windows of a 4-cell index, 5 writes (73 k) | `CompactionKeeps` and `DeliversRegisters` for a cluster that does not wrap |
| `readlive` | 1 reader, 2 writes, 2 deaths anywhere (66 k) | `ReadsReturn` |
| `bringup` | 2 processes, 1 key, 2 `nvram_init`, a mount, 1 change of a file, 1 kill or failing system call, reads excepted (1.32 M) | `TypeOK`, `OneSegment`, `SegmentMatchesMount`, `CatchesUp`, `PublishesWhole` |
| `bringlive` | the same without changes of files, the device check and the reads of files failing too (201 k) | `CallsReturn` |
| `capi` | 2 keys on one counter, one of them not settable, 2 values, 2 changes, buffers of 1 to 12 bytes, no semaphore or unreadable files under `nvram_getall` (228 k) | `TypeOK`, `HitsCurrent`, `PointersLastOnSegment`, `GracePeriod`, `GetallUnpacks`, `IntsAgree` |

Violation runs, each a disagreement between the code and its own words (quoted in
`PROJECT.json`):

| Run | Property | What happens |
|---|---|---|
| `reclaim` | `ReadsLinearize` | a reader matches a committed tombstone of K1; before it loads the state again a writer of K2, on another counter, reclaims the cell; the read of K1 validates with K2's value |
| `initrace` | `LoserAttaches` | P1 and P2 both find no segment; P1 creates, populates and adopts; P2 unlinks P1's name and creates another; both report success |
| `dangling` | `PointersLast` | a detached get returns a pointer; the process finds the segment and retires the buffer; the next get of the unchanged key frees it |

### Other disagreements

These showed while the runs were set up. The passing runs stay clear of them, or the
property names the exception; each can be seen again by the change named.

* *Death inside `compact`* (`shm.rs:735`). `MCSegment_reads.cfg` with
  `DiesIn = {"compact"}`, two keys, `N = 2` and `MaxProbes = 2`: `DeathLeaves` and
  `ChangesAreOwed` fail. The index is
  emptied before the kept entries are put back from private memory, so other
  variables are gone, against "the worst case a key that reads empty instead"
  (`shm.rs:633`).
* *Death inside `put`* (`shm.rs:638`). The cfg as it is with `CommitMatches` for
  `ChangesAreOwed`: it fails after one put. Killed between the stores of its length and
  of `FL_DIRTY`, a put over a live value of the same length leaves memory with the new
  value and the file with the old one; a clean entry is asked for its length only
  (`shm.rs:860`), so no commit writes it until the key is set again, against "Commit
  makes disk match memory" (`shm.rs:857`). `ChangesAreOwed` is what holds: this is the
  only way for a change not to be owed.
* *Death inside `clear`* (`shm.rs:810`). `MCSegment_reads.cfg` with `DiesIn = {"clear"}`:
  `HitsCurrent` fails. Killed before the counters move, a clear leaves cleared
  values that are still hits elsewhere, against "Every cached value everywhere is
  now wrong" (`shm.rs:812`).
* *A clear killed before it unlinks* (`store.rs:503`) leaves files without a
  tombstone in memory; no later commit removes them and the next boot loads them.
  `NothingStranded` counts such files as foreign (`drift`).
* *Unlink errors* (`disk.rs:222`). With "unlink" in the `Fault` of `faults`,
  `ClearEmptiesDisk` fails: `remove_all` drops every unlink's error, so a clear
  reports success with files left, against "Empty both the shared segment and the
  on-disk store" (`store.rs:482`).
* *Compaction of a cluster that wraps* (`shm.rs:757`). With `WrapHome` for
  `MidHome`, `k4` among the keys and six writes, `CompactionKeeps` fails: the
  cluster is re-inserted in another order than it was built in, and an entry that
  then needs more than `MAX_PROBES` probes is passed over, against "dropping garbage
  and clean tombstones" (`shm.rs:695`); at the real sizes that takes a cluster of
  some 64 cells across cell 8191.
* *Unreadable files* (`disk.rs:92`). With "read" in the `Fault` of `bringup`,
  `PublishesWhole` fails: a file that cannot be read (or, at `disk.rs:75` and `88`, a
  directory entry or its type) is passed over and the segment published without that
  variable, against "a partially populated segment must never be published"
  (`shm.rs:156-157`).
* *Unreadable files under `nvram_getall`* (`store.rs:561`). With `GetallWhole` in `capi`,
  it fails: a detached process ignores that the directory cannot be listed, and
  `load_all` passes over files it cannot read, so that success comes with part of the
  variables or none, against "Emit the whole store" (`store.rs:515`) and "must report
  overflow, not truncate silently" (`tests/contract.rs:264`).
* *The window before `SETVAL`* (`sem.rs:42`). With "setval" in the `Fault` of
  `bringlive`, `CallsReturn` fails: a process killed there leaves a semaphore of value
  0 on which everybody blocks.
* *A failing stat in `validate`* (`shm.rs:297`). With "restat" in the `Fault` of
  `bringup`, `OneSegment` fails: `nvram_init` takes a good segment for a stale one
  and unlinks it while others use it.
* *Detached processes* see and make sets only in the files for up to
  `REATTACH_INTERVAL` operations after the segment exists (`store.rs:129`), against
  "visible to every process immediately" (`lib.rs:18`). `CatchesUp` bounds it.
* *Degraded reads of an attached process* (`store.rs:235`) install the file's value
  and so retire the segment's; a torn read followed by a good one frees a pointer
  to an unchanged key, as in `dangling`. `Capi` has no torn reads.
* *`nvram_getall` without the semaphore* (`store.rs:556`) fails before it has ended the
  caller's buffer, against "terminated by an empty string" (`lib.rs:250-251`): a caller
  that walks the buffer without looking at the result walks what was in it before.
  `GetallUnpacks` asks for the terminator where anything was written, and for the
  failure where nothing was.
* *"=" in a name* is accepted by `valid_key`; `nvram_getall`'s records can then be
  split in two ways. `Names` has none.
* *A NUL in a file* (`disk.rs:92`) that another program wrote is part of the value, and
  `nvram_getall` writes it out as it is: the record ends there and what follows reads
  as another, or as the end of the list. No value of the run has one.
* *A text that is not UTF-8* makes `nvram_get_int` 0 although digits come first
  (`lib.rs:152`), against "consume a leading integer, ignore trailing junk"
  (`lib.rs:154`). `IntsAgree` leaves those texts out.
* *Names longer than `MAX_KEY_LEN`* that are files are loaded by `nvram_init` and can
  be read by an attached process, but not by a detached one, and cannot be set or
  unset by either.

*Bounds.* `MaxSeq` stops writes at a counter value (two or so writes per counter
between reboots), `MaxEdits` the edits, `MaxWrites` and `MaxDeaths` the write
operations and kills of a Segment run. Two processes are enough for every race
between a commit and a set, a clear or another commit, since a third can only
repeat what the second did; two keys are what a shared probe window takes, and a
shared counter is covered by the proofs for any number of keys; on a loaded
segment two writes make a tombstone and reclaim it under a reader. In `bringup`,
`MaxInits` counts the calls of `nvram_init` that find no segment attached (two: a
builder and a rival or a successor), `MaxFaults` the kills and failing calls, and
`MaxWrites` the changes of files; one mount is all there is between a bare
directory and a partition, and it comes on top of the other faults. One key
suffices there because files are loaded one by one and independently. `Interval`
stands for `REATTACH_INTERVAL`. In `capi`, `MaxChanges` bounds the changes of the
store by anybody; two of them, a value and back, are what a stale copy or a freed
buffer takes, and the calls that change nothing are not bounded. `MaxInt` stands
for `INT_MAX`, small enough for three-digit texts to cross it.
`MaxTries` stands for the 1000 retries. Deadlock is not checked where every process
may be dead, attached with nothing left to do, or every bound used up; in `faults` a
power cut is always possible, so it is `CallsReturn` that shows that nobody waits for
ever.

*Fairness.* Weak fairness of a process's steps once it is inside a call: the
kernel schedules it, `semop` blocks without a timeout and is retried on EINTR,
and a dead holder's semaphore is released. Calls themselves are not fair. Weak
fairness suffices for `CallsReturn` although semaphores are contended, because the
writes that take the writer semaphore for a whole step are bounded by `MaxSeq`;
that a process is never overtaken for ever by others is left to the kernel's
first-come semaphore queue. The failure "sem" is not part of `live`: with it, every
wait could end in an early return. `bringlive` has the same fairness, of a
process inside a call; the semaphore a waiter needs is given back by its holder or
by the kernel when the holder dies, also when a mount has changed which semaphore
newcomers use.

Each property has a mutant of the code (a dropped check, a swapped order, a
missing reset) that the run refutes; they stand next to the definitions they
change and are marked as such.

## 4. Proofs

Every theorem is for all values of the constants, under the assumptions the
component's module names and, where the code needs one, a hypothesis that stands
in the theorem. Each hypothesis excludes a disagreement of section 3, and the
instances of the runs that check the property satisfy it or, for the two that speak of behaviours
(`CrossReclaim`, `HasRoom`), have many behaviours that do.

| Module | Theorem | Property | Hypothesis |
|---|---|---|---|
| `StoreProofs` | `TypeCorrect`, `Coherent`, `Unstranded` | `TypeOK`, `CacheCoherent`, `NothingStranded` | |
| `StoreDurability` | `NoLeak`, `Heals` | `NoTempLeak`, `HealsItself` | |
| | `Emptied`, `Durable` | `ClearEmptiesDisk`, `NoRollback` | unlink does not fail |
| `StoreRefinement` | `Refinement` | `KeepsPromise` | unlink does not fail |
| `SegmentProofs` | `TypeCorrect`, `Repairs` | `TypeOK`, `NeverDegraded` | |
| `SegmentIndex` | `Compacts`, `Interrupted` | `CompactionKeeps`, `DeathLeaves` | kills only in put and remove; `HasRoom` |
| | `Owing` | `ChangesAreOwed` | the same |
| | `Fits` | `HasRoom` itself | kills only in put and remove; `Straight` |
| `SegmentReads` | `Linearizable`, `Current` | `ReadsLinearize`, `HitsCurrent` | kills only in put and remove; `HasRoom`; no `CrossReclaim` |
| | `Registered` | `DeliversRegisters` | the same |
| `BringupProofs` | `TypeCorrect`, `Matches`, `CaughtUp` | `TypeOK`, `SegmentMatchesMount`, `CatchesUp` | |
| | `Whole` | `PublishesWhole` | no read of a file fails |
| | `Shared` | `OneSegment` | the second stat does not fail |
| `CapiProofs` | `TypeCorrect`, `Current`, `Lasting`, `Grace` | `TypeOK`, `HitsCurrent`, `PointersLastOnSegment`, `GracePeriod` | |
| | `Unpacks` | `GetallUnpacks` | no "=" in a name, no NUL in a value |
| | `Ints` | `IntsAgree` | values are UTF-8 |

### Store

`TypeCorrect` is inductive as it stands; that counters are even rests on
`NextEvenFacts`.

* `Coherent`. The property alone is not inductive: a counter could come back to an
  old copy's. `CacheInv` adds that a recorded counter, in a cache or in a running
  get, is never ahead of the segment's; since every update moves the counter of its
  key strictly forward (`BumpFacts`), what has fallen behind stays behind.
* `Unstranded`. `CommitInv` adds that only the holder of the commit semaphore is
  inside a commit or a clear, and only it has records (`CommitLocked`); that a clear
  that wipes the files keeps every set out (`WipeLocked`); and that a record
  (`RecordOk`) whose counter has not moved since the snapshot still has memory's
  value, is already in the file once published, and otherwise its key is flagged or
  its value is still memory's. `Writeback` retires a flag exactly when the counter
  has not moved, and then the file is right.
* `NoLeak`, from `TempInv`: a temporary is that of a staged value of a commit that is
  still staging or publishing. `Emptied` is inductive over `CommitInv`: while a clear
  wipes, `WipeLocked` keeps sets out and `CommitLocked` keeps commits out.
* `Heals`. `HealInv` says that a file the running commit has published and nobody has
  touched is what it published, and that a live, clean key whose file has another
  length is still to come, or `allOk` is down; `FlushInv`, that nothing is still to
  come at the end.
* `Durable`. `HistoryInv` says that memory's value and whatever a power cut may leave
  are in the history of their key; `BarrierInv`, that the running barrier, if nothing
  fails from now on, ends with every file holding a value from after it looked
  (`histc`), so that the history may be cut there. A failing unlink would leave a file
  from before.
* `Refinement`. Memory, the history since the barrier, that of a barrier under way,
  the foreign files and the hits of the caches map to the variables of `Nvram`; a step
  that changes none of them is a stutter. It uses `CacheInv` for the copies and
  `HistoryInv` and `BarrierInv` for the barrier.

### Segment

* `TypeCorrect` and `Repairs`. `TypeInv` adds what each program counter knows of
  writer and reader, that a cell without a key holds garbage (`KeyedInv`) and where
  a counter is odd (`ParityInv`). The lemmas on probing (`FirstExists`,
  `LookupFirst`, `TargetFacts`) say what `Least` over the window finds; the modules
  that follow use only them.
* `IndexInv` (`SegmentIndex`): every entry is within reach of its own probe, a key
  has at most one, a live one has the bytes of one write (`IndexOK`); a compaction
  has put back what it has come to and nothing else (`RefillInv`); what the writer
  has stored so far (`EntryInv`); every key that is not being written has the value
  it last had at rest (`RestInv`). One store is then `OneStore`: it keeps the order
  (`StoreOrder`) and costs another key at most a clean tombstone (`StoreOther`).
  `Compacts` and `Interrupted` follow.
* `Owing` adds `SavedInv`: every key that is not in `cut` is in step with its file or
  owed, at every program counter but the one at which a put has replaced a live value
  and not yet flagged it. A kill there puts the key into `cut`, which is the exception
  `ChangesAreOwed` names; the end of a write flags its key, and
  so takes it out.
* `HasRoom` says that the compaction under way can put its next entry back. The code
  does not guarantee it: at the real sizes a cluster across cell 8191 breaks it
  (section 3). `Fits` proves it, with no bound on
  crowding, where no entry lies before its home (`Straight`): a compaction takes its
  entries in cell order, so `FitInv` can say that every entry already back sits at or
  before the cell it came from; the cell of the next one is then still empty, and its
  probe gets no further. What is left for `HasRoom` to exclude is a crowded cluster
  that wraps round cell 8191, exactly the disagreement of section 3.
* `Linearizable` and `Current` (`SegmentReads`). A reader whose two counters are even
  and have not moved has seen one index: `Guarded` says that every step leaves what
  its probe has passed, and the cell it is at, alone while the counters stay, and
  `Progress` says how far it has come. `Fresh` carries a validated value to the cache:
  as long as the recorded counter stays, the value is the one at rest. A put that
  claims a tombstone from behind another counter (`CrossReclaim`) breaks `Guarded`,
  which is the run `reclaim`. `Compacts` gives what a reader that begins after
  `arena_end` needs.
* `Registered` (`SegmentReads`). A step is `Forget`, with the registers as they were,
  unless it starts a write, finds room or none, returns, dies or empties the index, or
  asks, validates or returns a read. That a return has given its variable its value is
  `EntryInv` (what the writer has stored so far) at the last store; that a compaction
  has changed nothing is `SettledSame`; that a death leaves old, new or empty is
  `KilledLeaves`. Copies need `Fresh` and that counters only grow: a
  hit that was none before is the answer just given.

### Bringup

* `BuildInv` (with `TypeInv`): no two processes write to one object, and what is ready
  is sized and records its device. `TypeCorrect` follows.
* `Matches`, from `FromInv`: a mount happens once, so what was recorded or read before
  it is of the bare directory, and an object that records the partition was read after
  the mount.
* `Whole`, from `WholeInv`: of a creator whose filesystem is still mounted, each key it
  is through with has a value its file had, and the others are not loaded yet. A file
  that cannot be read ends that (section 3).
* `CaughtUp`, from `CatchInv`: operations are missed only while a usable segment is
  there, a search that began with one there finds it, and between searches the count
  runs behind `ops`.
* `Shared`, from `OneInv`: as long as no two processes are inside `nvram_init`, the name
  stands for what the one inside looks at or makes (`Tidy`), no two published objects
  are of one filesystem, and the published one of what is mounted has the name
  (`Single`); what a process uses is published (`Held`).

### Capi

`EntryOK` says that an entry has at most one current and one retired buffer, different
ones. `HitInv` (for `Current`): no recorded counter is ahead of the segment's. `PtrInv`
(for `Lasting`): a pointer under contract is to the current buffer of its key, never to
the retired one. `Grace` is the action property that the same step lemmas give.
`IntInv` (for `Ints`): what `nvram_get_int` has just returned is what `parse_int` makes
of the value the key has.
`IsFiniteSet(Key)` in `KeyAssumption` is there so that a free address exists: finitely
many buffers and pointers are in use.

`Unpacks` and `Ints` are about loops over bytes and records, modelled by recursive
functions. Two lemmas stand for the induction: `Reaches`, that a set of naturals with 0
in it that no step upward leaves has them all (from `LeastExists`, itself from the
well-foundedness of < on the naturals), and `LoopExists`, that a loop's states form a
function, so that the recursive definition means what it says.

* `Unpacks`. After any number of records the buffer holds them one behind the other
  (`Filled`, `Records`), so its NULs are their ends (`RecordsEnd`) and the first "=" of
  each is the end of its name (`RecordSplits`); the empty string behind the last one
  is the only one, and fits because `Overflows` counts it. A record that does not fit
  leaves the buffer as it was and success is then no longer reported. The order runs
  over whatever part of the files could be read (`EmitStep`); the return without the
  semaphore is a case of its own.
* `Ints`, by `ReadAlike`: `parse_int` and `atoi` read the same number from every UTF-8
  text. `TrimFacts` and `LeadingFacts` say where the text without its blanks, its sign
  and its digits begin and end; `ReadSoFar` says where `atoi` is after each byte and
  that it then has what `parse_int` has of the digits so far, and `ScanStep` that the
  next byte keeps that. TLC evaluates the same fact on every text of the instance
  (`Misread`).

### Model-checked before, and only

The invariants of `Store`, `Bringup` and `Segment` were checked with TLC before they
were proved: those of `Store` on the instance of `faults` and on one with two keys on
one counter, those of `Bringup` on that of `bringup`, those of `SegmentReads` on
those of `reads` and `pair` and on one with two counters, those of `SegmentIndex` on
three instances without readers (two or three keys in overlapping windows, four or
five writes of every kind, a kill; up to 675 k states) and `Owing`'s on one with two keys, values of one
length, three writes and two kills (273 k), and `DeliversRegisters` on those
of `reads`, `compact` and `pair`. Those of `Capi` were proved at once.

Only model-checked:

* liveness (`CallsReturn` twice, `ReadsReturn`): TLAPS has no rules for fairness here;
* the Segment properties outside the hypotheses above, as far as they hold at all:
  section 3 lists where they do not.

## 5. Not modelled, and the plan

Done: the modules of section 2, and a theorem for every invariant, action property and
refinement of a passing run. What is left is what a kill inside a compaction or a clear
leaves, stated as properties that hold.

Left out:

* the sizes of arena and index: a put that finds no room fails and changes nothing,
  apart from the compaction it may have asked for, which is modelled;
* byte-level bounds checks of offsets read from the segment: offsets are named by
  what they point at;
* FNV-1a (`hash.rs`): `Home` and `SlotOf` are arbitrary;
* memory orderings weaker than sequential consistency;
* a build with another `SHM_MAGIC` or `SHM_VERSION`;
* `nvram_close` and `nvram_get_nvramspace`, which do nothing; path and constant
  definitions; the functions and the helper binary that exist for the tests.
