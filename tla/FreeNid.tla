------------------------------- MODULE FreeNid -------------------------------
(***************************************************************************)
(* The sharded free-NID pool of src/Max/node.c under PER_CORE_NID_LIST and *)
(* FILE_CELL: the pool filled at mount by build_all_free_nids, alloc_nid   *)
(* with its retry loop through build_lock and build_free_nids, the callers *)
(* new_node_page / alloc_nid_done / alloc_nid_failed of get_dnode_of_data, *)
(* truncate_node returning a NID, and the checkpoint flush of the NAT      *)
(* entries, which hands the NIDs it writes as NULL_ADDR back to the pool.  *)
(*                                                                         *)
(* The NAT cache is abstracted to two sets: live (the cached or on-disk    *)
(* address is not NULL_ADDR) and dirty (the cached entry is not            *)
(* IS_CHECKPOINTED).  The on-disk NAT blocks matter only to the mount scan *)
(* and are chosen in Init; the NAT journal, which build_free_nids reads,   *)
(* is state.                                                               *)
(***************************************************************************)
EXTENDS NatScan, Integers, FiniteSets, Sequences

CONSTANTS
    NidListCnt,       \* nid_list_count = num_online_cpus()
    MaxNatJentries,   \* MAX_NAT_JENTRIES(sum): NAT journal slots
    FreeNidCap,       \* free-NID entries available_free_memory(FREE_NIDS) allows
    NextScanNid,      \* ckpt->next_free_nid, read by init_node_manager
    CounterBits,      \* width of the atomic_t next_allocator
    Allocators,       \* threads in get_dnode_of_data(ALLOC_NODE)
    NONE

ASSUME FreeNidAssumption ==
    /\ NidListCnt \in Nat \ {0}
    /\ MaxNatJentries \in Nat \ {0}
    /\ FreeNidCap \in Nat \ {0}
    /\ NextScanNid \in 0..(MaxNid - 1)
    /\ CounterBits \in Nat \ {0}
    /\ 2 ^ (CounterBits - 1) \in Nat
    /\ NidListCnt <= 2 ^ (CounterBits - 1)   \* num_online_cpus() fits in the int
    /\ NONE \notin Allocators \cup Int

F2FS_RESERVED_NODE_NUM == 3
ROOT_INO == 3
Allocatable == (F2FS_RESERVED_NODE_NUM + 1)..(MaxNid - 1)

(* init_node_manager: 0, node_ino and meta_ino are never used, root counts *)
(* as a valid node.                                                        *)
available_nids == MaxNid - F2FS_RESERVED_NODE_NUM

LIST_IDX(n) == n % NidListCnt
ListIds == 0..(NidListCnt - 1)

(* atomic_inc_return on a CounterBits-wide two's complement int, and C's   *)
(* truncating %, whose result has the sign of the dividend.                *)
IntMin == -(2 ^ (CounterBits - 1))
IntMax == 2 ^ (CounterBits - 1) - 1
atomic_inc_return(v) == IF v = IntMax THEN IntMin ELSE v + 1
CRem(a, b) == IF a >= 0 THEN a % b ELSE -((-a) % b)

VARIABLES
    freeNid,        \* n -> "none" | "new" | "alloc": free_nid_root/free_nid_list
    fcnt,           \* percore_fcnt: NID_NEW entries of each list
    nextAllocator,  \* next_allocator
    buildLock,      \* holder of build_lock, or NONE
    live,           \* NIDs whose NAT entry has a block address
    dirty,          \* NIDs whose cached NAT entry is not IS_CHECKPOINTED
    valid,          \* total_valid_node_count
    jnl,            \* NAT journal: n -> "absent" | "null" | "valid"
    pc,             \* where each allocator is in get_dnode_of_data
    held,           \* the NID alloc_nid returned to it
    lst,            \* its list_id
    todo,           \* journal entries its build_free_nids has yet to read
    mountTodo,      \* journal entries the mount build has yet to read
    fsck            \* f2fs_bug_on sites reached and undefined behaviour met

poolVars == <<freeNid, fcnt>>
nodeVars == <<live, dirty, valid>>
allocVars == <<pc, held, lst, todo>>
vars == <<freeNid, fcnt, nextAllocator, buildLock, live, dirty, valid, jnl,
          pc, held, lst, todo, mountTodo, fsck>>

JournalNids == {n \in Allocatable : jnl[n] # "absent"}

(* sum_up_fcnt, as available_free_memory(FREE_NIDS) recomputes nm_i->fcnt. *)
sum_up_fcnt ==
    LET s[i \in 0..NidListCnt] == IF i = 0 THEN 0 ELSE s[i - 1] + fcnt[i - 1]
    IN  s[NidListCnt]

available_free_memory == sum_up_fcnt < FreeNidCap

(* The check of add_free_nid(build = true): a cached entry that is not    *)
(* checkpointed or has an address.                                         *)
Allocated(n) == n \in live \/ n \in dirty

(* add_free_nid(build = true) without the check of the NAT cache.        *)
add_free_nid_unchecked(n, build) ==
    IF ~available_free_memory \/ freeNid[n] # "none"
      THEN UNCHANGED poolVars
      ELSE /\ freeNid' = [freeNid EXCEPT ![n] = "new"]
           /\ fcnt' = [fcnt EXCEPT ![LIST_IDX(n)] = @ + 1]

(* add_free_nid: -1 when over the memory budget, 0 for an allocated NID or *)
(* one the radix tree already holds, else a NID_NEW entry at the list tail.*)
add_free_nid(n, build) ==
    IF ~available_free_memory \/ (build /\ Allocated(n)) \/ freeNid[n] # "none"
      THEN UNCHANGED poolVars
      ELSE /\ freeNid' = [freeNid EXCEPT ![n] = "new"]
           /\ fcnt' = [fcnt EXCEPT ![LIST_IDX(n)] = @ + 1]

(* remove_free_nid without the NID_NEW test on the looked-up entry.       *)
remove_free_nid_any(n) ==
    /\ freeNid' = [freeNid EXCEPT ![n] = "none"]
    /\ fcnt' = [fcnt EXCEPT ![LIST_IDX(n)] = @ - 1]

remove_free_nid(n) ==
    IF freeNid[n] = "new"
      THEN /\ freeNid' = [freeNid EXCEPT ![n] = "none"]
           /\ fcnt' = [fcnt EXCEPT ![LIST_IDX(n)] = @ - 1]
      ELSE UNCHANGED poolVars

(* One journal entry of the pass of build_all_free_nids/build_free_nids.   *)
JournalEntry(n) ==
    IF jnl[n] = "null" THEN add_free_nid(n, TRUE) ELSE remove_free_nid(n)

(* The NAT-block part of build_all_free_nids with an empty NAT cache: the  *)
(* first FreeNidCap distinct NULL_ADDR NIDs in scan order.                 *)
MountPool(natNull) ==
    LET s == MountScan(NextScanNid)
        first(i) == s[i] \in natNull /\ \A j \in 1..(i - 1) : s[j] # s[i]
    IN  {s[i] : i \in {k \in DOMAIN s :
                         first(k) /\ Cardinality({j \in 1..(k - 1) : first(j)}) < FreeNidCap}}

PoolCount(P) == [l \in ListIds |-> Cardinality({n \in P : LIST_IDX(n) = l})]

Init ==
    \E natNull \in SUBSET Allocatable,
       j \in {f \in [Allocatable -> {"absent", "null", "valid"}] :
                Cardinality({n \in Allocatable : f[n] # "absent"}) <= MaxNatJentries} :
        LET P == MountPool(natNull)
        IN  /\ jnl = j
            /\ live = {ROOT_INO} \cup {n \in Allocatable :
                                         IF j[n] = "absent" THEN n \notin natNull
                                                            ELSE j[n] = "valid"}
            /\ dirty = {}
            /\ valid = Cardinality(live)
            /\ freeNid = [n \in Allocatable |-> IF n \in P THEN "new" ELSE "none"]
            /\ fcnt = PoolCount(P)
            /\ mountTodo = {n \in Allocatable : j[n] # "absent"}
            /\ nextAllocator = (NextScanNid - 1) % NidListCnt
            /\ buildLock = NONE
            /\ pc = [t \in Allocators |-> "idle"]
            /\ held = [t \in Allocators |-> NONE]
            /\ lst = [t \in Allocators |-> NONE]
            /\ todo = [t \in Allocators |-> {}]
            /\ fsck = {}
-----------------------------------------------------------------------------
(* build_all_free_nids, journal pass: one entry under curseg_mutex.        *)
MountJournalEntry(n) ==
    /\ n \in mountTodo
    /\ JournalEntry(n)
    /\ mountTodo' = mountTodo \ {n}
    /\ UNCHANGED <<nextAllocator, buildLock, nodeVars, jnl, allocVars, fsck>>

(* get_dnode_of_data(ALLOC_NODE) calls alloc_nid.                          *)
Call(t) ==
    /\ mountTodo = {}
    /\ pc[t] = "idle"
    /\ pc' = [pc EXCEPT ![t] = "retry"]
    /\ UNCHANGED <<poolVars, nextAllocator, buildLock, nodeVars, jnl,
                   held, lst, todo, mountTodo, fsck>>

(* alloc_nid, from the label retry to the return or to the build path.  A  *)
(* negative list_id (next_allocator wrapped) indexes before percore_fcnt   *)
(* and free_nid_list_lock: the model records it and lets the garbage count *)
(* send the thread to the build path.                                      *)
AllocRetry(t) ==
    /\ pc[t] = "retry"
    /\ IF valid + 1 > available_nids
         THEN /\ pc' = [pc EXCEPT ![t] = "idle"]
              /\ UNCHANGED <<poolVars, nextAllocator, held, lst, fsck>>
         ELSE LET v == atomic_inc_return(nextAllocator)
                  id == CRem(v, NidListCnt)
              IN  /\ nextAllocator' = v
                  /\ IF id < 0
                       THEN /\ fsck' = fsck \cup {"list_idx_oob"}
                            /\ pc' = [pc EXCEPT ![t] = "build"]
                            /\ lst' = [lst EXCEPT ![t] = NONE]
                            /\ UNCHANGED <<poolVars, held>>
                     ELSE IF fcnt[id] > 0 /\ buildLock = NONE
                       THEN LET news == {n \in Allocatable : LIST_IDX(n) = id /\ freeNid[n] = "new"}
                            IN  IF news = {}
                                  THEN /\ fsck' = fsck \cup {"alloc_nid_no_new"}
                                       /\ pc' = [pc EXCEPT ![t] = "bug"]
                                       /\ UNCHANGED <<poolVars, held, lst>>
                                  ELSE \E n \in news :
                                       /\ freeNid' = [freeNid EXCEPT ![n] = "alloc"]
                                       /\ fcnt' = [fcnt EXCEPT ![id] = @ - 1]
                                       /\ held' = [held EXCEPT ![t] = n]
                                       /\ pc' = [pc EXCEPT ![t] = "newpage"]
                                       /\ UNCHANGED <<lst, fsck>>
                       ELSE /\ pc' = [pc EXCEPT ![t] = "build"]
                            /\ lst' = [lst EXCEPT ![t] = id]
                            /\ UNCHANGED <<poolVars, held, fsck>>
    /\ UNCHANGED <<buildLock, nodeVars, jnl, todo, mountTodo>>

(* mutex_lock(build_lock); build_free_nids only if the list is still      *)
(* empty, else straight to mutex_unlock and retry.                         *)
BuildLock(t) ==
    /\ pc[t] = "build"
    /\ buildLock = NONE
    /\ \E empty \in IF lst[t] = NONE THEN BOOLEAN ELSE {fcnt[lst[t]] = 0} :
         IF empty
           THEN /\ buildLock' = t
                /\ todo' = [todo EXCEPT ![t] = JournalNids]
                /\ pc' = [pc EXCEPT ![t] = "building"]
           ELSE /\ pc' = [pc EXCEPT ![t] = "retry"]
                /\ UNCHANGED <<buildLock, todo>>
    /\ UNCHANGED <<poolVars, nextAllocator, nodeVars, jnl, held, lst, mountTodo, fsck>>

(* build_free_nids: one journal entry.                                     *)
BuildEntry(t) ==
    /\ pc[t] = "building"
    /\ \E n \in todo[t] :
         /\ JournalEntry(n)
         /\ todo' = [todo EXCEPT ![t] = @ \ {n}]
    /\ UNCHANGED <<nextAllocator, buildLock, nodeVars, jnl, pc, held, lst, mountTodo, fsck>>

(* End of build_free_nids; mutex_unlock(build_lock); goto retry.           *)
BuildEnd(t) ==
    /\ pc[t] = "building"
    /\ todo[t] = {}
    /\ buildLock' = NONE
    /\ pc' = [pc EXCEPT ![t] = "retry"]
    /\ UNCHANGED <<poolVars, nextAllocator, nodeVars, jnl, held, lst, todo, mountTodo, fsck>>

(* new_node_page for the NID alloc_nid returned: grab_cache_page may fail  *)
(* (ENOMEM), inc_valid_node_count fails past total_node_count = max_nid    *)
(* (ENOSPC); otherwise the old address must be NULL_ADDR and the entry     *)
(* becomes NEW_ADDR, dirty.                                                *)
NewNodePage(t) ==
    /\ pc[t] = "newpage"
    /\ LET n == held[t]
       IN  \/ /\ pc' = [pc EXCEPT ![t] = "failed"]
              /\ UNCHANGED <<nodeVars, fsck>>
           \/ /\ valid + 1 <= MaxNid
              /\ fsck' = IF n \in live THEN fsck \cup {"new_node_page_old_blk"} ELSE fsck
              /\ live' = live \cup {n}
              /\ dirty' = dirty \cup {n}
              /\ valid' = valid + 1
              /\ pc' = [pc EXCEPT ![t] = "done"]
    /\ UNCHANGED <<poolVars, nextAllocator, buildLock, jnl, held, lst, todo, mountTodo>>

(* alloc_nid_done: the entry must be NID_ALLOC; it leaves the pool.        *)
alloc_nid_done(t) ==
    /\ pc[t] = "done"
    /\ LET n == held[t]
       IN  /\ fsck' = IF freeNid[n] # "alloc" THEN fsck \cup {"alloc_nid_done_state"} ELSE fsck
           /\ freeNid' = [freeNid EXCEPT ![n] = "none"]
    /\ pc' = [pc EXCEPT ![t] = "idle"]
    /\ held' = [held EXCEPT ![t] = NONE]
    /\ UNCHANGED <<fcnt, nextAllocator, buildLock, nodeVars, jnl, lst, todo, mountTodo>>

(* alloc_nid_failed that sets NID_NEW without percore_fcnt[list_id]++.  *)
alloc_nid_failed_uncounted(t) ==
    /\ pc[t] = "failed"
    /\ freeNid' = [freeNid EXCEPT ![held[t]] = "new"]
    /\ pc' = [pc EXCEPT ![t] = "idle"]
    /\ held' = [held EXCEPT ![t] = NONE]
    /\ UNCHANGED <<fcnt, nextAllocator, buildLock, nodeVars, jnl, lst, todo, mountTodo, fsck>>

(* alloc_nid_failed: back to NID_NEW if the memory budget allows, else the *)
(* entry is freed.                                                         *)
alloc_nid_failed(t) ==
    /\ pc[t] = "failed"
    /\ LET n == held[t]
       IN  /\ fsck' = IF freeNid[n] # "alloc" THEN fsck \cup {"alloc_nid_failed_state"} ELSE fsck
           /\ IF available_free_memory
                THEN /\ freeNid' = [freeNid EXCEPT ![n] = "new"]
                     /\ fcnt' = [fcnt EXCEPT ![LIST_IDX(n)] = @ + 1]
                ELSE /\ freeNid' = [freeNid EXCEPT ![n] = "none"]
                     /\ UNCHANGED fcnt
    /\ pc' = [pc EXCEPT ![t] = "idle"]
    /\ held' = [held EXCEPT ![t] = NONE]
    /\ UNCHANGED <<nextAllocator, buildLock, nodeVars, jnl, lst, todo, mountTodo>>

(* truncate_node of an allocated node: dec_valid_node_count and           *)
(* set_node_addr(NULL_ADDR), which dirties the cached entry.               *)
truncate_node(n) ==
    /\ mountTodo = {}
    /\ n \in live \cap Allocatable
    /\ freeNid[n] = "none"
    /\ live' = live \ {n}
    /\ dirty' = dirty \cup {n}
    /\ valid' = valid - 1
    /\ UNCHANGED <<poolVars, nextAllocator, buildLock, jnl, allocVars, mountTodo, fsck>>
(* The value raw_nat_from_node_info writes for n.                          *)
RawOf(n) == IF n \in live THEN "valid" ELSE "null"

(* __has_cursum_space(sum, size, NAT_JOURNAL).                             *)
has_cursum_space(J, size) == Cardinality(J) + size <= MaxNatJentries

(* The per_core_sets_pack of flush_nat_entries_per_core over the entries  *)
(* W: one per NAT block.  __adjust_nat_entry_set_per_core orders a pack by *)
(* its entry_cnt when it is created, before the sets of the other NAT      *)
(* shards join it, so the flush order depends on the shards, which this    *)
(* module does not split: any order is allowed.                            *)
SetOf(W, b) == {n \in W : NAT_BLOCK_OFFSET(n) = b}
SetOrders(W) ==
    LET Bs == {NAT_BLOCK_OFFSET(n) : n \in W}
        k == Cardinality(Bs)
    IN  {o \in [1..k -> Bs] : \A b \in Bs : \E i \in 1..k : o[i] = b}

(* __flush_nat_entry_set_per_core for each pack in order: to the journal  *)
(* when __has_cursum_space(sum, sets->entry_cnt), else to its NAT block.  The    *)
(* result is the set of NIDs the journal holds afterwards.                 *)
JournalAfter(W, J0, o) ==
    LET g[i \in 0..Len(o)] ==
            IF i = 0 THEN J0
            ELSE IF has_cursum_space(g[i - 1], Cardinality(SetOf(W, o[i])))
                   THEN g[i - 1] \cup SetOf(W, o[i])
                   ELSE g[i - 1]
    IN  g[Len(o)]

(* flush_nat_entries_per_core at a checkpoint.  The checkpoint holds rps_cp_rwsem   *)
(* for write, and get_dnode_of_data runs under it for read (the lock order *)
(* of spec.md 5), so no allocator is between alloc_nid and its            *)
(* alloc_nid_done/failed.  If the dirty entries do not fit the journal,   *)
(* remove_nats_in_journal moves every journal entry into the dirty set.    *)
(* Every written NULL_ADDR entry goes to add_free_nid(build = false), one  *)
(* after the other, until the memory budget stops them.                    *)
flush_nat_entries_per_core ==
    /\ mountTodo = {}
    /\ \A t \in Allocators : pc[t] = "idle"
    /\ dirty # {}
    /\ LET drain == ~has_cursum_space(JournalNids, Cardinality(dirty))
           W == IF drain THEN dirty \cup JournalNids ELSE dirty
           J0 == IF drain THEN {} ELSE JournalNids
           freed == {n \in W \ live : freeNid[n] = "none"}
           room == IF available_free_memory THEN FreeNidCap - sum_up_fcnt ELSE 0
           nadd == IF Cardinality(freed) < room THEN Cardinality(freed) ELSE room
       IN  \E o \in SetOrders(W), A \in SUBSET freed :
             LET J1 == JournalAfter(W, J0, o)
             IN  /\ Cardinality(A) = nadd
                 /\ jnl' = [n \in Allocatable |-> IF n \in W \cap J1 THEN RawOf(n)
                                                  ELSE IF n \in J1 THEN jnl[n] ELSE "absent"]
                 /\ freeNid' = [n \in Allocatable |-> IF n \in A THEN "new" ELSE freeNid[n]]
                 /\ fcnt' = [l \in ListIds |-> fcnt[l] + Cardinality({n \in A : LIST_IDX(n) = l})]
    /\ dirty' = {}
    /\ UNCHANGED <<nextAllocator, buildLock, live, valid, allocVars, mountTodo, fsck>>

-----------------------------------------------------------------------------
Next ==
    \/ \E n \in Allocatable : MountJournalEntry(n) \/ truncate_node(n)
    \/ \E t \in Allocators :
         \/ Call(t) \/ AllocRetry(t) \/ BuildLock(t) \/ BuildEntry(t) \/ BuildEnd(t)
         \/ NewNodePage(t) \/ alloc_nid_done(t) \/ alloc_nid_failed(t)
    \/ flush_nat_entries_per_core

(* The steps of a thread inside get_dnode_of_data are weakly fair; the     *)
(* wait for build_lock is strongly fair, as a mutex waiter is woken each   *)
(* time it is released.  The mount build finishes, and checkpoints keep    *)
(* coming (the checkpoint thread and sync).  Callers and truncations are   *)
(* the environment, with no fairness.                                      *)
Fairness ==
    /\ \A t \in Allocators :
         /\ WF_vars(AllocRetry(t)) /\ SF_vars(BuildLock(t))
         /\ WF_vars(BuildEntry(t)) /\ WF_vars(BuildEnd(t))
         /\ WF_vars(NewNodePage(t))
         /\ WF_vars(alloc_nid_done(t)) /\ WF_vars(alloc_nid_failed(t))
    /\ WF_vars(\E n \in Allocatable : MountJournalEntry(n))
    /\ WF_vars(flush_nat_entries_per_core)

Spec == Init /\ [][Next]_vars /\ Fairness

-----------------------------------------------------------------------------
PcStates == {"idle", "retry", "build", "building", "newpage", "done", "failed", "bug"}

TypeOK ==
    /\ freeNid \in [Allocatable -> {"none", "new", "alloc"}]
    /\ fcnt \in [ListIds -> Nat]
    /\ nextAllocator \in IntMin..IntMax
    /\ buildLock \in Allocators \cup {NONE}
    /\ live \subseteq {ROOT_INO} \cup Allocatable
    /\ dirty \subseteq Allocatable
    /\ valid \in Nat
    /\ jnl \in [Allocatable -> {"absent", "null", "valid"}]
    /\ pc \in [Allocators -> PcStates]
    /\ held \in [Allocators -> Allocatable \cup {NONE}]
    /\ lst \in [Allocators -> ListIds \cup {NONE}]
    /\ todo \in [Allocators -> SUBSET Allocatable]
    /\ mountTodo \subseteq Allocatable

(* spec.md 3 and 7: a NID in the free pool is not allocated, and           *)
(* concurrent alloc_nid calls never hand out the same NID.  Every NID_NEW  *)
(* entry is unallocated once the mount build has read the journal (no     *)
(* thread allocates before); a NID alloc_nid returned is NID_ALLOC, held by    *)
(* one thread, and still unallocated when new_node_page starts.  Breaking  *)
(* it takes the journal pass of build_free_nids, truncate_node, the        *)
(* checkpoint's add_free_nid and the alloc_nid_failed path interleaved.    *)
FreeNidsFree ==
    /\ mountTodo = {} => \A n \in Allocatable : freeNid[n] = "new" => n \notin live
    /\ \A t \in Allocators :
         pc[t] \in {"newpage", "done", "failed"} =>
            /\ freeNid[held[t]] = "alloc"
            /\ pc[t] = "newpage" => held[t] \notin live
            /\ \A u \in Allocators \ {t} : held[u] # held[t]

(* percore_fcnt[l], which alloc_nid trusts to find a NID_NEW entry without *)
(* an f2fs_bug_on and which available_free_memory sums, counts exactly the *)
(* NID_NEW entries of list l, across alloc_nid, alloc_nid_failed, the      *)
(* builds and the checkpoint.                                              *)
FcntExact ==
    \A l \in ListIds :
        fcnt[l] = Cardinality({n \in Allocatable : LIST_IDX(n) = l /\ freeNid[n] = "new"})

InAllocNid(t) == pc[t] \in {"retry", "build", "building"}

(* spec.md 4.2 and 6: alloc_nid returns, with a NID or with false when     *)
(* total_valid_node_count + 1 > available_nids.  Every call of alloc_nid   *)
(* eventually leaves its retry loop.                                       *)
AllocNidReturns == \A t \in Allocators : InAllocNid(t) ~> ~InAllocNid(t)

(* next_allocator % nid_list_cnt is a valid list index: alloc_nid never    *)
(* indexes percore_fcnt or free_nid_list_lock with a negative list_id.     *)
ListIdInRange == "list_idx_oob" \notin fsck
=============================================================================
