# TLA+ models of Max (src/Max)

Max is a variant of F2FS that scales on many cores. This directory models
two of its parts:

- **RPS** (`src/Max/rps.c`, `rps.h`) is a reader-preferring semaphore. Readers
  go through per-CPU counters (the "highway"). A writer announces itself in
  `writers_cnt`, waits for a sched grace period, takes an inner `rw_semaphore`,
  drains the counters into `lowway_cnt` and waits for it to reach zero.
  `max_init.c` creates two of them, `rps_cp_rwsem` and `rps_node_write`.
- **The node manager** (`src/Max/node.c`) keeps the NAT: for each node id
  (NID), its block address, inode and version. It has three layers:
  - a cache sharded by file cell (`FILE_CELL`: `nat_root[i]`,
    `nat_set_root[i]`, the per-core counters, each under its own
    `nat_tree_lock[i]`);
  - the NAT journal in the hot-data summary block;
  - the on-disk NAT blocks, each a pair of copies selected by `nat_bitmap`.

  At a checkpoint, `flush_nat_entries_per_core` (or the classic
  `flush_nat_entries`) writes the dirty cache entries back. The free-NID pool
  is refilled from the flush and from `build_free_nids`.
- **The free-NID pool** (`node.c`, `PER_CORE_NID_LIST`): one list, radix tree
  and `percore_fcnt` per CPU, filled at mount by `build_all_free_nids` (every
  NAT page from `next_scan_nid`, then the journal) and drawn from by
  `alloc_nid`. `alloc_nid` picks a list with the atomic `next_allocator`; when
  the list is empty it takes `build_lock`, runs `build_free_nids` (which, in
  this configuration, reads only the NAT journal) and retries.
  `get_dnode_of_data` follows `alloc_nid` with `new_node_page` and then
  `alloc_nid_done`, or `alloc_nid_failed` if the page could not be made.
  `truncate_node` frees a NID, but only in the cache; the checkpoint flush
  writes it as `NULL_ADDR` and hands it back with `add_free_nid`.

How the parts interact: `f2fs_write_node_page` takes `rps_node_write` as a
reader (`rps_down_read_try_lock` on reclaim), and the checkpoint takes it as a
writer. The model has this as the checkpoint fence: while `cp # "none"`, no
node operation runs. The RPS model shows the fence is a correct reader-writer
lock, so the NatCache model can take that as given.

## Modules

| Module | Models | Code |
|---|---|---|
| `RPS` | `struct rps` and every function of rps.c | rps.c 12-94 |
| `MC_RPS` | TLC instance | — |
| `RPS_proofs` | TLAPS proof of `HighwayFrozen` | — |
| `NatCache` | NAT cache, journal, NAT blocks, checkpoint flush, node operations, free-NID pool, `get_node_info` readers | node.c |
| `MC_NatCache` | TLC instance | — |
| `NatScan` | the NID order of the mount scan of `build_all_free_nids` (`scan_nat_page` and the page loop), as recursive functions | node.c 1950-2029 |
| `MC_NatScan` | TLC instance: every `next_scan_nid` above the reserved block | — |
| `FreeNid` | the per-CPU free-NID pool: mount build, `alloc_nid`, `build_free_nids`, `add/remove_free_nid`, `alloc_nid_done/failed`, `new_node_page`, `truncate_node`, the checkpoint's `add_free_nid` | node.c 34-54, 756-852, 1172-1229, 1848-2058, 2114-2249, 2604-2777, 2782-2884 |
| `MC_FreeNid` | TLC instance with one or two allocating threads | — |
| `FreeNid_proofs` | TLAPS proof of `FreeNidsFree` | — |
| `FreeNidCount_proofs` | TLAPS proofs of `FcntExact` and `TypeOK` of `FreeNid` | — |
| `NatCache_proofs` | TLAPS proof of `RollbackIntact` (per-core flush, or one NAT cache shard) | — |

### RPS

**State and threads.**
- Variables: `highway_cnt[c]`, `writers_cnt`, `lowway_cnt` and `rw_sem` (the
  inner semaphore: its readers and writer).
- Each thread has a program counter `pc` and the CPU `cpu[t]` it is running
  on.
- Readers may migrate between CPUs. A reader entering on one CPU and leaving
  on another is why only the sum of the counters means anything.

**The grace period.**
- `synchronize_sched_expedited` is the variable `gp[w]`. It is a snapshot of
  the readers that were inside the preempt-disabled region of `go_highway`
  (`InRegion`) when writer `w` began its wait. Readers leave the snapshot as
  they run `preempt_enable` (`LeaveRegion`).
- `DownWriteSync` (and `UpWriteSync` for `rps_up_write`) is enabled once the
  snapshot is empty. That is the guarantee of a grace period: every region
  that started before it has ended.

**Actions** (one for each step between two shared accesses of the code):
- `rps_down_read`, `rps_down_read_try_lock`, `DownReadHighway`, `go_lowway`,
  `DownReadTryLowway`;
- `rps_up_read`, `UpReadHighway`, `UpReadLowway`;
- `rps_down_write`, `DownWriteSync`, `DownWriteLock`, `clear_highway`,
  `DownWriteWait`;
- `rps_up_write`, `UpWriteSync`, `UpWriteDec`.

`clear_highway` is one atomic step over all CPUs. The writer holds `rw_sem`
and the grace period has passed, so no reader can touch the counters then,
and `HighwayFrozen` checks exactly that.

### NatCache

**State.**
- `nm` is `struct f2fs_nm_info`:
  - the cache `nm.cache[n]` (a `struct nat_entry` or `NONE`);
  - per shard: `nat_cnt`, `dirty_cnt`, the set counts `set_cnt` and the sets
    present in `set_root`;
  - the free-NID pool `free`.
- `jnl` is the journal. `nat[c][n]` is copy `c` of the NAT. `bitmap` is
  `nat_bitmap`.
- `natDirty` holds the NAT meta pages written but not yet committed.
- `pageDirty` holds the dirty node pages. `nextAddr` is the node log.
- `fsck` is the set of `f2fs_bug_on` sites that fired.
- The history variables `rbImage`/`rbCopy` record what the last committed
  checkpoint left on disk.

**Node operations.** Each runs whole, under its node-page lock, when no
checkpoint runs:
- `NewNode` (`new_node_page`, with `alloc_nid` and `alloc_nid_done`);
- `WriteNode` (`f2fs_write_node_page`: `get_node_info`, then `set_node_addr`
  to a new block);
- `TruncateNode` (`truncate_node`);
- `DirtyNode`;
- `TryToFreeNats` (LRU trimming: any non-empty set of clean entries of one
  shard);
- `BuildFreeNids` (PER_CORE: it scans the journal only).

All of them call the same `set_node_addr`. Its eleven `f2fs_bug_on`
conditions are `SetNodeAddrBugs`.

**Readers.** A reader runs `get_node_info` for `read_node_page`, one step per
lock acquisition:
- `GniLookup`: cache lookup under `nat_tree_lock` (a hit ends the call);
- `GniJournal`: the journal under `curseg_mutex`;
- `GniNatPage`: the current NAT page;
- `GniCache`: `cache_nat_entry` under `nat_tree_lock` again;
- `GniDone`: `read_node_page` uses the result.

**Checkpoint.** `block_operations` raises the fence: every dirty node page is
written first (`CpBlockOps`, modelled from its use; it is not in src/). Then:
- `FlushBegin` counts the dirty entries and drains the journal into the cache
  (`remove_nats_in_journal`) if they do not fit.
- `GatherSet` takes the gang lookups one set at a time, into an ordered list
  (`AdjustSet`, or `AdjustPack` for the per-core packs). `GatherDone` ends the
  gathering.
- `FlushSet` flushes each set: to the journal, or through
  `get_next_nat_page` into the other copy of the NAT block, flipping
  `nat_bitmap`.
- `FlushEnd` is the final `f2fs_bug_on`.
- `CpCommit` (`do_checkpoint`, modelled from its use) writes the NAT pages and
  the bitmap, which become the rollback point.

### FreeNid and NatScan

`FreeNid` keeps the pool exactly: `freeNid[n]` is the state of NID n's
`struct free_nid` (`"none"`, `NID_NEW`, `NID_ALLOC`), `fcnt` is
`percore_fcnt`, and `nextAllocator`, `buildLock` and `valid`
(`total_valid_node_count`) are the fields of the same name. The NAT cache is
reduced to what the pool reads: `live` (the NID has a block address) and
`dirty` (its cached entry is not `IS_CHECKPOINTED`, the second half of the
check in `add_free_nid(build)`). `jnl` is the NAT journal. The NAT blocks are
read only at mount, so `Init` picks them (every subset of NIDs that is
`NULL_ADDR`) together with the journal, and computes the mount scan:
`MountPool` is the first `FreeNidCap` distinct `NULL_ADDR` NIDs in the order
`NatScan!MountScan` gives. The journal pass of the mount is `MountJournalEntry`,
one entry per step.

Each thread in `get_dnode_of_data` has a `pc`:
- `Call`: the thread calls `alloc_nid`;
- `AllocRetry`: the label `retry`, from the `available_nids` test to either
  taking a `NID_NEW` entry or going to the build path. `next_allocator` is a
  `CounterBits`-wide signed int; a negative `list_id` is undefined behaviour
  (an out-of-bounds index), recorded in `fsck`, after which the garbage count
  may send the thread either way;
- `BuildLock`: `mutex_lock(build_lock)` and the test `percore_fcnt == 0`;
- `BuildEntry` and `BuildEnd`: `build_free_nids`, one journal entry per step,
  then `mutex_unlock` and `goto retry`;
- `NewNodePage`: fails (`-ENOMEM` from `grab_cache_page`, `-ENOSPC` from
  `inc_valid_node_count`) or makes the NID live and dirty;
- `alloc_nid_done` and `alloc_nid_failed`.

The environment runs `truncate_node` on any live NID and
`flush_nat_entries_per_core`. A checkpoint holds `rps_cp_rwsem` for write and
the allocating callers hold it for read (the lock order of spec.md 5), so the
flush runs only when every thread is idle. It drains the journal if the dirty
entries do not fit, flushes one pack per NAT block to the journal or the NAT
page, and offers every entry written as `NULL_ADDR` to `add_free_nid` until
the memory budget stops it. The packs may be flushed in any order: their
order in the code depends on the NAT shards, which this module does not split.

`NatScan` is constant-level: `MountScan(start)` is the sequence of NIDs that
`build_all_free_nids` hands to `add_free_nid` from the NAT pages, computed
with recursive functions (no `RECURSIVE` operator, so the proof module can
extend it).

## Runs

| Run | Instance | Checks | Result |
|---|---|---|---|
| `rps_safety` | 2 CPUs, 2 readers, 2 writers, `HighwayBound` 2 | `TypeOK`, `HighwayFrozen`, `ReaderAccounting`, `WriterExclusion` | pass, 50,028 states |
| `rps_liveness` | 2 CPUs, 2 readers, 1 writer, `FairSpec` | `WriterProgress`, `ReaderProgress` | pass, 12,380 states |
| `nat_percore` | 4 file cells, 2 NAT blocks of 2 entries, journal of 1, 3 node blocks, 2 checkpoints, 1-bit version, per-core flush | `TypeOK`, `CacheCoherent`, `RollbackIntact`, `FreeNidIsFree`, `NoBugOn` | pass, 689,387 states |
| `nat_readers` | same with one `get_node_info` thread, 2 node blocks, one version | `NatCounters`, `FlushCleansAll` | pass, 934,576 states |
| `nat_classic` | 1 file cell, classic flush, 3 node blocks | `RollbackIntact`, `NoBugOn` | pass, 686,665 states |
| `nat_classic_rollback` | 4 file cells, classic flush | `RollbackIntact` | **violation** |
| `nat_gni_race` | 4 file cells, one reader | `CacheCoherent` | **violation** |
| `freenid_safety` | 2 threads, 4 NAT blocks of 2 NIDs (NIDs 4-7 allocatable), 2 lists, journal of 1, budget 2, 2-bit counter | `TypeOK`, `FreeNidsFree`, `FcntExact` | pass, 1,368,234 states |
| `freenid_cap_spin` | 1 thread, 1 list, 3 NAT blocks, budget 1; only mounts where the budget left a free NID out, no `truncate_node` | `AllocNidReturns` | **violation** |
| `freenid_cp_livelock` | 1 thread, 1 list, 3 NAT blocks, budget 3 | `AllocNidReturns` | **violation** |
| `freenid_list_wrap` | 1 thread, 2 lists, 3-bit counter | `ListIdInRange` | **violation** |
| `natscan_mount` | 4 NAT blocks of 2 NIDs, every `next_scan_nid` from 2 to 7 | `ScanCoversAll` | **violation** |

**What the properties say.**
- `HighwayFrozen`: from the end of the writer's grace period until it releases
  the lock, no reader is between reading `writers_cnt` and adding to its
  counter, and after the drain the counters stay at zero.
- `ReaderAccounting`: the counters and `lowway_cnt` together count exactly the
  readers inside.
- `WriterExclusion`: no reader or other writer is inside while a writer is.
- `NatCounters`: the per-shard counters (`nat_cnt`, `dirty_cnt`, the set
  counts) stay exact across a concurrent reader.
- `CacheCoherent`: a clean cache entry equals what the device says.
- `RollbackIntact`: during a checkpoint, the NAT copies of the last committed
  checkpoint are untouched.
- `FlushCleansAll`: after the flush, nothing is dirty and no set is left.
- `FreeNidIsFree`: a NID in the pool is free in memory and on the device.
- `NoBugOn`: no `f2fs_bug_on` fires.
- `FreeNidsFree`: once the mount build has read the journal, no `NID_NEW`
  entry is allocated; each NID `alloc_nid` returned is `NID_ALLOC`, held by one
  thread, and still unallocated when `new_node_page` starts.
- `FcntExact`: `percore_fcnt[l]` is the number of `NID_NEW` entries of list l.
  `alloc_nid` trusts it not to hit its `f2fs_bug_on`, and the memory budget
  sums it.
- `AllocNidReturns`: every call of `alloc_nid` leaves its retry loop.
- `ListIdInRange`: `list_id` is never negative.
- `ScanCoversAll`: the mount scan offers every NID outside the reserved
  first NAT block.

Each property has a mutant in PROJECT.json: a plausible bug in the mapped code
that TLC catches with that property. Examples: a missing
`synchronize_sched_expedited`, an off-by-one in the `lowway_cnt` wait, the
version increment without `& 0xff`, a journal drain that loses entries, and a
flush that writes the current NAT copy in place.

**Bounds.**
- RPS: two CPUs are enough for migration, two readers for one on each path,
  and two writers for writer-writer exclusion and the overlap of one writer's
  `rps_up_write` with the next one's `rps_down_write`. `HighwayBound` caps the
  per-CPU counters; the cap is never the reason a step is refused in the
  runs, because only two readers exist.
- NatCache: with two NAT blocks of two entries, NIDs 1-3 span both blocks. The
  shards split them so that two shards hold sets of the same block: this is
  what makes the classic flush write a block twice. A journal of one entry
  forces both the journal path and the NAT-block path, and the drain.
  `NumAddrs` bounds the node log; three blocks let a node be written twice
  and another once. `NodeVersionMod` 2 makes the `u8` version wrap reachable;
  the readers run uses 1 because no property it checks reads versions. Two checkpoints let a second flush meet the
  first one's leftovers (NEW_ADDR entries, freed NIDs).
- FreeNid: four allocatable NIDs on two lists, two per NAT block, give two
  packs to a flush and two NIDs to each list. A one-entry journal forces both
  the journal path and the drain. A budget of two, below the four NIDs, makes
  `add_free_nid` refuse entries. A 2-bit counter wraps within a few retries.
  Two threads are enough for two NIDs in flight at once, and for one thread
  to build while the other allocates, fails or returns.
  The liveness runs use one list and one thread, so that each counterexample
  shows one cause. `freenid_cap_spin` runs `CapSpinSpec` of `MC_FreeNid`:
  it starts only from mounts where `add_free_nid` hit the budget and left a
  `NULL_ADDR` NID, unknown to the journal, out of the pool
  (`BudgetDropped`), and its next-state relation has no `truncate_node`. So
  no NID waits for a checkpoint, and the livelock of `freenid_cp_livelock`
  cannot explain the loop.
- `max_init.c` requires `node_count <= NAT_ENTRY_PER_BLOCK - 3`. The scaled
  instance does not keep that ratio, but nothing in the flush logic depends on
  it.

**Fairness** (`RPS_liveness`):
- Every step after a thread has called into rps is weakly fair: the thread is
  runnable.
- Critical sections end: the users of rps hold it around bounded work.
- Waiting on the inner `rw_semaphore` (`go_lowway`, `DownWriteLock`) is
  strongly fair: the kernel rwsem queues its waiters FIFO.

**Fairness** (`FreeNid`):
- Every step of a thread inside `get_dnode_of_data` is weakly fair.
- The wait for `build_lock` is strongly fair: the mutex wakes a waiter each
  time it is released.
- The mount build and the checkpoint flush are weakly fair: checkpoints are
  triggered periodically and by sync.
- Callers and truncations are the environment and get no fairness.

Even with all this fairness, `AllocNidReturns` fails (findings 3 and 4).

The NatCache runs are safety-only, so no fairness is assumed there.

## Findings

1. **get_node_info caches a stale entry** (`nat_gni_race`, node.c:567).
   `get_node_info` drops `nat_tree_lock` after a miss, reads the journal and
   then the NAT page, and installs what it read if the NID still has no
   cache entry. The trace:
   - A checkpoint drains the journal into the cache
     (`remove_nats_in_journal`) just before the reader looks there.
   - The reader misses in the journal and reads the NAT page. The page still
     holds the value from before the entry went to the journal, because the
     flush writes the entry back into the journal, not into the NAT page.
   - `try_to_free_nats` evicts the entry, now clean.
   - `cache_nat_entry` installs the page's stale `NULL_ADDR` as a clean entry
     for a live node. `read_node_page` returns `-ENOENT`,
   and a later flush may put the NID back in the free pool. In the model this
   is possible because readers run concurrently with the flush. In the code
   that is so because `read_node_page` does not take `rps_node_write`.
2. **Classic flush overwrites the rollback copy** (`nat_classic_rollback`,
   node.c:2477). With `FILE_CELL` and several cells, `flush_nat_entries`
   gathers one set per shard and NAT block. Two sets of one block each call
   `get_next_nat_page`, which flips the block back onto the copy of the last
   checkpoint and overwrites it. `f2fs_bug_on(PageDirty)` at line 138 fires.
   The per-core flush packs all of a block's sets and avoids this, and
   `nat_classic` shows that one cell is safe too.

3. **alloc_nid spins on NIDs that only the NAT blocks hold**
   (`freenid_cap_spin`, node.c:2040). Under `PER_CORE_NID_LIST`,
   `build_free_nids` reads only the journal. Take a NID that is `NULL_ADDR`
   in its NAT block but is not in the pool. This happens when `add_free_nid`
   hit the memory budget during the mount scan (or when `alloc_nid_failed` or
   the checkpoint dropped the NID). Such a NID is never found again, and
   `alloc_nid` loops forever. The run starts from mounts where the budget
   dropped a NID and has no `truncate_node`, so the budget alone causes the
   loop. spec.md 4.2 says the incremental build scans
   the next NAT block first.
4. **alloc_nid livelocks against the checkpoint** (`freenid_cp_livelock`,
   node.c:2123). `truncate_node` lowers `total_valid_node_count` at once.
   The NID it frees, however, is a dirty `NULL_ADDR` entry, which
   `add_free_nid(build)` treats as allocated until a checkpoint writes it.
   When every free NID is in that state, `alloc_nid` passes its
   `available_nids` test and loops. The checkpoint cannot start, because the
   caller holds `rps_cp_rwsem` for read.
5. **Negative list index after the counter wraps** (`freenid_list_wrap`,
   node.c:2128). `atomic_inc_return(&next_allocator) % nid_list_cnt` is a
   signed int. `next_allocator` is never reset and grows on every retry. After
   2^31 increments `list_id` is negative and indexes before
   `free_nid_list_lock` and `percore_fcnt`.
6. **The mount scan skips NAT blocks** (`natscan_mount`, node.c:2026).
   `build_all_free_nids` loops `(end - start) + 1` times from
   `next_scan_nid`, so after the last block it wraps to the second block
   only. The NIDs before `next_scan_nid` in its own block are never scanned,
   and neither are the blocks between the second and that one. No later
   build reads NAT blocks, so those NIDs are not allocated in this mount.

## Proofs

`RPS_proofs` proves `THEOREM HighwayFrozenInvariant == Spec => []HighwayFrozen`
for all finite sets of CPUs, readers and writers and every `HighwayBound`. It
uses the assumption `RPSAssumption`. The invariant is not inductive on its
own. The proof strengthens it to
`IInv == TypeCore /\ WritersCount /\ SyncCovers /\ HighwayFrozen`:
- `WritersCount`: `writers_cnt` equals the number of writers between their
  increment and their decrement. Without it, a reader could see 0 while a
  writer is waiting.
- `SyncCovers`: a writer waiting for its grace period has a snapshot
  containing every reader in the region. Without it, the end of the grace
  period would not imply an empty region.
- `TypeCore`: the type invariant without `lowway_cnt`.

There is a lemma for each of `Init => IInv`, a reader step, a writer step and
a stutter. The writer step is split into one case per action, using the
finite-set lemmas for adding and removing a writer from the count.

`FreeNid_proofs` proves `THEOREM FreeNidsFreeInvariant == Spec => []FreeNidsFree`
for every NAT size, list count, journal size, memory budget (`FreeNidCap`),
counter width and set of allocator threads. It uses the assumptions
`NatScanAssumption` and `FreeNidAssumption`. The invariant is not inductive on
its own. The proof strengthens it to
`IInv == TypeCore /\ MountFirst /\ StaleUntilJournal /\ HeldAlloc`:
- `MountFirst`: no thread leaves `idle` before the mount's journal pass is
  done. Without it, `alloc_nid` could take an entry the mount scan added from
  a NAT block that the journal overrides.
- `StaleUntilJournal`: a `NID_NEW` entry that is allocated is one of those
  stale entries. Its NID is still on the mount's journal list, with a
  `valid` journal entry that `remove_free_nid` will act on. This is what makes
  the first conjunct of `FreeNidsFree` true again when the journal pass ends.
- `HeldAlloc`: a thread holds a NID exactly in `newpage`, `done` and `failed`.
  The entry is `NID_ALLOC`, no other thread holds it, and it is unallocated
  until `new_node_page` succeeds. `alloc_nid_failed` needs the last fact
  because it puts the NID back as `NID_NEW`. `NewNodePage` needs distinctness
  so that one thread's allocation does not falsify another's.
- `TypeCore`: the types of the pool, the allocated and dirty sets, the
  journal and the thread variables.

The argument has one lemma per action and one for `Init`:
- **Init:** the mount scan only adds NIDs that are NULL in their NAT block
  (`MountPoolSub`).
- **Journal entries:** an entry read by the mount or by `build_free_nids`
  changes only its NID's entry, and makes it `NID_NEW` only when it is
  unallocated (`JournalEntryEffect`, which needs the `Allocated` check of
  `add_free_nid(build = true)`).
- **alloc_nid:** reduced to "moves to idle/build/bug" or "takes a NID_NEW
  entry" (`AllocRetryShape`).
- **The checkpoint flush:** it runs with every thread idle and returns only
  NIDs outside `live`.

`available_free_memory`, `sum_up_fcnt`, the flush order and the journal
accounting stay opaque. The proof holds whatever the memory budget and the
journal decide.

`FreeNidCount_proofs` proves two more theorems of `FreeNid`, for every
value of the constants:
- `FcntExactInvariant == Spec => []FcntExact`;
- `FreeNidTypeOK == Spec => []TypeOK`.

Both rest on one inductive invariant,
`CInv == IInv /\ TypeOK /\ FcntExact /\ ValidNodeCount`. Here `IInv` is the
invariant of `FreeNid_proofs`, and `ValidNodeCount` says that
`total_valid_node_count` is the number of allocated nodes. `ValidNodeCount`
is only a conjunct of the induction: it follows from `FreeNidsFree`, so no
run checks it on its own. `TypeOK`'s bound on the counter rests on it. None
of the conjuncts holds without `IInv`:
- `alloc_nid` decrements `percore_fcnt[list_id]` for the entry it takes. That
  entry is `NID_NEW`, so the counter only goes down when the set it counts
  shrinks.
- `new_node_page` increments `total_valid_node_count`. That is right only
  because the NID it allocates is not yet allocated (`HeldAlloc`).
- `truncate_node` decrements it for a NID it removes from the allocated set.

The counting lemmas are `CountAdd`, `CountRemove` and `CountSame`. They use
`FS_AddElement`, `FS_RemoveElement`, `FS_Union` and `FS_CardinalityType` from
`FiniteSetTheorems`. The checkpoint's `add_free_nid` calls add a whole set
`A` of NIDs that were not in the pool, so list l gains exactly the members of
`A` on it (`FlushCount`).

`FreeNidTypeOK` bounds `next_allocator` by its width, which needs two facts
in `FreeNidAssumption`:
- `NidListCnt <= 2^(CounterBits-1)`: `nid_list_cnt` is `num_online_cpus()`,
  which fits in the `int`. Without it, the initial
  `(next_scan_nid - 1) % nid_list_cnt` would be out of range.
- `2^(CounterBits-1) \in Nat`: true arithmetic that the provers do not derive
  for a symbolic exponent. TLC evaluates both on every run.

`NatCache_proofs` proves
`THEOREM RollbackIntactInvariant == ASSUME OneSetPerBlock PROVE Spec => []RollbackIntact`
for every number of NIDs, NAT blocks and NAT cache shards. Here
`OneSetPerBlock == PerCoreFlush \/ NatTreeCnt = 1`. The hypothesis is needed:
with classic flush and several shards, each shard sends its own set for the
same block. The second write then lands on the copy the first one made
current, which is the rollback copy. Run `nat_classic_rollback` shows this.
The theorem therefore states exactly the configurations that `nat_percore`
and `nat_classic` check.

`RollbackIntact` is not inductive as it stands. The strengthening `RInv`
adds:
- `RbImageHeld`: the rollback copy holds the committed image in every phase,
  not only during a checkpoint.
- Outside the "sets" phase, `nat_bitmap` equals the rollback selection
  `rbCopy`.
- In the "sets" phase, this holds for the block of every set still on the
  list.
- In the "gather" phase, every listed set has been gathered from some shard.
- Under `OneSetPerBlock`, no two listed sets name the same block
  (`DistinctSets`).
- Typing of `nat`, `nat_bitmap`, `rbCopy` and the list. It also includes the
  shape of the cache record (`NmOK`), which `__clear_nat_cache_dirty` and
  the set bookkeeping rely on.

The argument, step by step:
- Gathering a set (`GatherSet`) inserts it, moves it, or grows it in place.
  The list lemmas `InsertFresh`, `MoveToTail`, `GrowInPlace` and
  `AdjustSetInsert` show that each keeps the list's sets distinct.
- Flushing the head set writes the block's copy `1 - nat_bitmap[k]`
  (`FlushSetRInv`). Because the set is still listed, that copy is not
  `rbCopy[k]`. Because the sets are distinct, no later set on the list has
  block `k`, so the "sets" conjunct survives the flip of `nat_bitmap[k]`.
- `CpCommit` moves the rollback point to the new image.
- All other actions leave the NAT blocks alone.

The proof is 616 obligations and about 4 minutes. TLC checked `RInv` as an
invariant of the `nat_percore` and `nat_classic` instances before the proof
was written.

**What stays with TLC, and why.**
- `ReaderAccounting`, `WriterExclusion` and the type of `lowway_cnt` involve
  `SumFunction`, a fold defined by recursion over the set. Its value for
  every input would need induction over data, which the installed provers
  cannot do.
- The liveness properties are temporal properties under fairness; TLAPS
  here cannot prove them or reason about ENABLED.
- `AllocNidReturns` (liveness) and the violated runs of `FreeNid` and
  `NatScan` are model-checked only.
- NatCache's other invariants are model-checked only. `NatCounters`, and
  `TypeOK` with it (its counters stay natural numbers only because they
  count), quantify over cardinalities of sets defined through the whole
  cache. `CacheCoherent`, `FreeNidIsFree`, `FlushCleansAll` and `NoBugOn`
  rest on those counters, or on the journal and NAT-page contents as a
  whole, for every node and reader step.

## Not modelled

- **Roll-forward recovery** (`recover_*`, `restore_node_summary`): data
  transformations at mount.
- **The dnode walkers** (`get_dnode_of_data` apart from its allocation path, `truncate_*`), `sync_node_pages`
  and readahead. They decide which node operations happen, and the model
  leaves that free.
- **In NatCache**, allocation and `alloc_nid_done` are one step, with no
  `available_nids` limit. `FreeNid` models those parts of the pool.
- **The builds compiled without `PER_CORE_NID_LIST`**: the single-list
  `alloc_nid` and the NAT-scanning `build_free_nids` (node.c 2061-2106, 2153-2182).
- **`radix_tree_preload` failing in `add_free_nid`**: it only drops one more
  NID, as the memory budget does.
- **The fsync marks**, and the unlocked cross-shard update of the inode entry
  in `set_node_addr` (node.c:448).
- **The fxmark benchmarks**: user-space load generators.
