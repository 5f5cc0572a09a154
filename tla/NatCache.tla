------------------------------ MODULE NatCache ------------------------------
(***************************************************************************)
(* The node manager of src/Max/node.c: the sharded NAT cache (nat_root,    *)
(* nat_set_root, the counters), its two backing stores (the NAT journal    *)
(* in the hot-data summary and the paired NAT blocks selected by           *)
(* nat_bitmap), the checkpoint flush (flush_nat_entries and                *)
(* flush_nat_entries_per_core), the node operations that call              *)
(* set_node_addr, LRU trimming, and the free-NID pool as far as the NAT    *)
(* cache feeds it.                                                         *)
(*                                                                         *)
(* struct f2fs_nm_info is the record variable nm.  A NID's cache entry is  *)
(* nm.cache[n] (NONE when absent); its IS_DIRTY flag stands for its place  *)
(* on a nat_entry_set's entry_list, and a clean entry is on the shard's    *)
(* LRU list (whose order is abstracted: trimming may pick any clean        *)
(* entry).  Readers run get_node_info step by step, each step being what   *)
(* one lock acquisition covers; every other operation on a NID runs        *)
(* atomically under that NID's node-page lock, and the mutators are fenced *)
(* off while a checkpoint runs (cp # "none").                              *)
(***************************************************************************)
EXTENDS Integers, FiniteSets, Sequences, Functions

CONSTANTS
    NatEntryPerBlock,   \* NAT_ENTRY_PER_BLOCK
    NatBlocks,          \* number of NAT block pairs; max_nid = their product
    NatTreeCnt,         \* nat_tree_cnt: NAT cache shards (file cells)
    NidListCnt,         \* nid_list_count: free-NID list shards
    JournalEntries,     \* NAT_JOURNAL_ENTRIES in the hot-data summary
    NumAddrs,           \* node blocks the log can still append: 1..NumAddrs
    NodeVersionMod,     \* unsigned char version: 256
    MaxCheckpoints,     \* checkpoints a behaviour may take
    Readers,            \* threads reading node pages (get_node_info)
    PerCoreFlush,       \* TRUE: checkpoint calls flush_nat_entries_per_core
    NONE                \* absent cache entry / journal slot

ASSUME NatCacheAssumption ==
    /\ NatEntryPerBlock \in Nat \ {0}
    /\ NatBlocks \in Nat \ {0}
    /\ NatTreeCnt \in Nat \ {0}
    /\ NidListCnt \in Nat \ {0}
    /\ JournalEntries \in Nat \ {0}
    /\ NumAddrs \in Nat \ {0}
    /\ NodeVersionMod \in Nat \ {0}
    /\ MaxCheckpoints \in Nat
    /\ PerCoreFlush \in BOOLEAN

MaxNid == NatEntryPerBlock * NatBlocks
AllNids == 0..(MaxNid - 1)
Nids == 1..(MaxNid - 1)              \* nid 0 is never used
Blocks == 0..(NatBlocks - 1)
Shards == 0..(NatTreeCnt - 1)
Versions == 0..(NodeVersionMod - 1)

NULL_ADDR == 0
NEW_ADDR == -1
ValidAddrs == 1..NumAddrs
BlkAddrs == {NULL_ADDR, NEW_ADDR} \cup ValidAddrs

(* struct f2fs_nat_entry: what the journal and a NAT block hold.  The      *)
(* flush never persists NEW_ADDR.                                          *)
RawNat == [ino : AllNids, blk : BlkAddrs \ {NEW_ADDR}, ver : Versions]
NodeInfoT == [ino : AllNids, blk : BlkAddrs, ver : Versions]   \* struct node_info
NullRaw == [ino |-> 0, blk |-> NULL_ADDR, ver |-> 0]

(* struct nat_entry: node_info plus the flags. *)
(* HAS_FSYNCED_INODE and HAS_LAST_FSYNC only feed the fsync and roll-     *)
(* forward queries (need_dentry_mark, is_checkpointed_node, ...), which    *)
(* are not modelled, so the entry keeps IS_CHECKPOINTED and IS_DIRTY.      *)
NatEntry == [ino : AllNids, blk : BlkAddrs, ver : Versions,
             ckpt : BOOLEAN,        \* IS_CHECKPOINTED
             dirty : BOOLEAN]       \* IS_DIRTY

(* The entries of one gathered nat_entry_set, or of a per_core_sets_pack. *)
SetRef == [set : Blocks, shards : SUBSET Shards, cnt : Nat]

(* Places where f2fs_bug_on fires (a warning plus SBI_NEED_FSCK).         *)
BugSites == {"sna_no_entry_new", "sna_realloc_not_null", "sna_addr_mismatch",
             "sna_null_to_null", "sna_new_to_new", "sna_valid_to_new",
             "new_node_page_not_null", "journal_full", "nat_src_dirty",
             "set_not_empty", "dirty_left"}

VARIABLES
    nm,         \* struct f2fs_nm_info (the volatile node manager)
    jnl,        \* NAT journal of the hot-data summary: [AllNids -> RawNat \cup {NONE}]
    nat,        \* NAT area: nat[c][n] is the entry of n in copy c of its block pair
    bitmap,     \* nat_bitmap: current copy of each block pair
    natDirty,   \* NAT meta pages written by this checkpoint, not yet on disk
    nextAddr,   \* the next free block of the node log (allocate_data_block)
    pageDirty,  \* node pages that are dirty in the page cache
    cp,         \* checkpoint phase: "none", "flush", "gather", "sets", "commit"
    cpCount,    \* checkpoints committed so far (bounded by MaxCheckpoints)
    cpGathered, \* the (shard, set) pairs already moved onto the flush list
    cpList,     \* the ordered list of sets flush still has to write
    rbImage,    \* history: the NAT as the last committed checkpoint left it
    rbCopy,     \* history: the copy of each block pair holding that image
    fsck,       \* the f2fs_bug_on sites that fired
    pc, nid, res \* reader threads: step, nid being read, node_info found

rd == <<pc, nid, res>>
disk == <<jnl, nat, bitmap, natDirty, nextAddr>>
vars == <<nm, disk, pageDirty, cp, cpCount, cpGathered, cpList, rbImage, rbCopy, fsck, rd>>

-----------------------------------------------------------------------------
(* Helpers of node.h and node.c                                            *)

TREE_IDX(n) == n % NatTreeCnt                    \* shard of the NAT cache
LIST_IDX(n) == n % NidListCnt                    \* shard of the free-NID pool
NAT_BLOCK_OFFSET(n) == n \div NatEntryPerBlock   \* set id = NAT block index

(* The same without the wrap of the unsigned char. *)
inc_node_version_unwrapped(v) == v + 1
inc_node_version(v) == (v + 1) % NodeVersionMod

RawOf(e) == [ino |-> e.ino, blk |-> e.blk, ver |-> e.ver]

(* The entry of n in the NAT block copy that nat_bitmap makes current.     *)
CurrentNat(n) == nat[bitmap[NAT_BLOCK_OFFSET(n)]][n]

(* What get_node_info finds for n: cache, then journal, then NAT block.    *)
NodeInfo(n) ==
    IF nm.cache[n] # NONE THEN RawOf(nm.cache[n])
    ELSE IF jnl[n] # NONE THEN jnl[n]
    ELSE CurrentNat(n)

(* What the device says of n: the journal overrides the NAT block.         *)
DiskNat(n) == IF jnl[n] # NONE THEN jnl[n] ELSE CurrentNat(n)

JournalNids == {n \in AllNids : jnl[n] # NONE}

ShardNids(s) == {n \in Nids : TREE_IDX(n) = s}
Cached(s) == {n \in ShardNids(s) : nm.cache[n] # NONE}
DirtyIn(s, k) == {n \in Cached(s) : nm.cache[n].dirty /\ NAT_BLOCK_OFFSET(n) = k}

(* grab_nat_entry + node_info_from_raw_nat: the new entry gets             *)
(* nat_reset_flag (IS_CHECKPOINTED set).                                   *)
grab_nat_entry(m, n, r) ==
    [m EXCEPT !.cache[n] = [ino |-> r.ino, blk |-> r.blk, ver |-> r.ver,
                            ckpt |-> TRUE, dirty |-> FALSE],
              !.nat_cnt[TREE_IDX(n)] = @ + 1]

(* cache_nat_entry: install unless an entry is there already. *)
cache_nat_entry(m, n, r) == IF m.cache[n] = NONE THEN grab_nat_entry(m, n, r) ELSE m

(* The same without the early return for an entry already dirty. *)
SetNatCacheDirtyRecount(m, n) ==
    LET s == TREE_IDX(n)
        k == NAT_BLOCK_OFFSET(n)
    IN  [m EXCEPT !.cache[n].dirty = TRUE,
                  !.set_root[s] = @ \cup {k},
                  !.set_cnt[s][k] = IF k \in m.set_root[s] THEN @ + 1 ELSE 1,
                  !.dirty_cnt[s] = @ + 1]

(* __set_nat_cache_dirty: move the entry to its set, creating the set.     *)
SetNatCacheDirty(m, n) ==
    LET s == TREE_IDX(n)
        k == NAT_BLOCK_OFFSET(n)
    IN  IF m.cache[n].dirty THEN m
        ELSE [m EXCEPT !.cache[n].dirty = TRUE,
                       !.set_root[s] = @ \cup {k},
                       !.set_cnt[s][k] = IF k \in m.set_root[s] THEN @ + 1 ELSE 1,
                       !.dirty_cnt[s] = @ + 1]

(* __del_from_nat_cache for the entries V of shard s (all clean). *)
del_from_nat_cache(m, V, s) ==
    [m EXCEPT !.cache = [n \in Nids |-> IF n \in V THEN NONE ELSE @[n]],
              !.nat_cnt[s] = @ - Cardinality(V)]

(* nat_reset_flag and __clear_nat_cache_dirty for the entries W of set k:  *)
(* each leaves its set's list for the LRU list, checkpointed and clean.    *)
clear_nat_cache_dirty(m, W, k) ==
    LET WIn(s) == Cardinality({n \in W : TREE_IDX(n) = s})
    IN  [m EXCEPT
           !.cache = [n \in Nids |-> IF n \in W
                                       THEN [@[n] EXCEPT !.ckpt = TRUE, !.dirty = FALSE]
                                       ELSE @[n]],
           !.set_cnt = [s \in Shards |-> [m.set_cnt[s] EXCEPT ![k] = @ - WIn(s)]],
           !.dirty_cnt = [s \in Shards |-> @[s] - WIn(s)]]

(* get_node_info done without interference (the caller's node-page lock    *)
(* and the checkpoint fence exclude every writer of n): the node_info and  *)
(* the cache after cache_nat_entry.                                        *)
GniNm(n) == IF nm.cache[n] # NONE THEN nm ELSE cache_nat_entry(nm, n, NodeInfo(n))

(***************************************************************************)
(* set_node_addr(ni, new_blkaddr, _) on the cache m, for the NID n        *)
(* n described by the caller's node_info ni (ni.ino is the owner inode).   *)
(***************************************************************************)
SnaEntry(m, ni, n, new) ==
    IF m.cache[n] = NONE
      THEN grab_nat_entry(m, n, ni)                       \* + copy_node_info
      ELSE IF new = NEW_ADDR
             THEN [m EXCEPT !.cache[n].ino = ni.ino, !.cache[n].blk = ni.blk,
                            !.cache[n].ver = ni.ver]      \* re-initialise
             ELSE m

SetNodeAddrBugs(m, ni, n, new) ==
    LET old == SnaEntry(m, ni, n, new).cache[n].blk
    IN  { b \in BugSites :
            \/ b = "sna_no_entry_new" /\ m.cache[n] = NONE /\ ni.blk = NEW_ADDR
            \/ b = "sna_realloc_not_null" /\ m.cache[n] # NONE
                  /\ new = NEW_ADDR /\ ni.blk # NULL_ADDR
            \/ b = "sna_addr_mismatch" /\ old # ni.blk
            \/ b = "sna_null_to_null" /\ old = NULL_ADDR /\ new = NULL_ADDR
            \/ b = "sna_new_to_new" /\ old = NEW_ADDR /\ new = NEW_ADDR
            \/ b = "sna_valid_to_new" /\ old \in ValidAddrs /\ new = NEW_ADDR }

set_node_addr(m, ni, n, new) ==
    LET m1 == SnaEntry(m, ni, n, new)
        e == m1.cache[n]
        ver == IF e.blk # NEW_ADDR /\ new = NULL_ADDR
                 THEN inc_node_version(e.ver) ELSE e.ver
        ckpt == IF new \in {NEW_ADDR, NULL_ADDR} THEN FALSE ELSE e.ckpt
    IN  SetNatCacheDirty([m1 EXCEPT !.cache[n].ver = ver,
                                    !.cache[n].blk = new,
                                    !.cache[n].ckpt = ckpt], n)

-----------------------------------------------------------------------------
TypeOK ==
    /\ nm \in [cache : [Nids -> NatEntry \cup {NONE}],
               nat_cnt : [Shards -> Nat], dirty_cnt : [Shards -> Nat],
               set_root : [Shards -> SUBSET Blocks],
               set_cnt : [Shards -> [Blocks -> Nat]],
               free : SUBSET Nids]
    /\ jnl \in [AllNids -> RawNat \cup {NONE}]
    /\ nat \in [{0, 1} -> [AllNids -> RawNat]]
    /\ bitmap \in [Blocks -> {0, 1}]
    /\ natDirty \in [Blocks -> SUBSET {0, 1}]
    /\ nextAddr \in 1..(NumAddrs + 1)
    /\ pageDirty \subseteq Nids
    /\ cp \in {"none", "flush", "gather", "sets", "commit"}
    /\ cpCount \in 0..MaxCheckpoints
    /\ cpGathered \subseteq Shards \X Blocks
    /\ cpList \in Seq(SetRef)
    /\ rbImage \in [AllNids -> RawNat]
    /\ rbCopy \in [Blocks -> {0, 1}]
    /\ fsck \subseteq BugSites
    /\ pc \in [Readers -> {"idle", "journal", "natpage", "cache", "ret"}]
    /\ nid \in [Readers -> AllNids]
    /\ res \in [Readers -> NodeInfoT]

(* build_all_free_nids on the NAT image img with an empty journal: scan   *)
(* every NAT block and add each NID whose address is NULL_ADDR (NID 0 is   *)
(* never added).                                                           *)
build_all_free_nids(img) == {n \in Nids : img[n].blk = NULL_ADDR}

(* A freshly mounted file system whose NAT is all NULL_ADDR: the cache is  *)
(* empty and build_all_free_nids has put every NID in the free pool.       *)
Init ==
    /\ nm = [cache |-> [n \in Nids |-> NONE],
             nat_cnt |-> [s \in Shards |-> 0], dirty_cnt |-> [s \in Shards |-> 0],
             set_root |-> [s \in Shards |-> {}],
             set_cnt |-> [s \in Shards |-> [k \in Blocks |-> 0]],
             free |-> build_all_free_nids([n \in AllNids |-> NullRaw])]
    /\ jnl = [n \in AllNids |-> NONE]
    /\ nat = [c \in {0, 1} |-> [n \in AllNids |-> NullRaw]]
    /\ bitmap = [k \in Blocks |-> 0]
    /\ natDirty = [k \in Blocks |-> {}]
    /\ nextAddr = 1
    /\ pageDirty = {}
    /\ cp = "none"
    /\ cpCount = 0
    /\ cpGathered = {}
    /\ cpList = <<>>
    /\ rbImage = [n \in AllNids |-> NullRaw]
    /\ rbCopy = [k \in Blocks |-> 0]
    /\ fsck = {}
    /\ pc = [t \in Readers |-> "idle"]
    /\ nid = [t \in Readers |-> 0]
    /\ res = [t \in Readers |-> NullRaw]


-----------------------------------------------------------------------------
(* Node operations.  Each runs under the node page lock of n (a reader     *)
(* holding it excludes them) and under f2fs_lock_op / node_write, which    *)
(* block_operations takes for the whole checkpoint (cp = "none").          *)

Locked == {nid[t] : t \in Readers} \ {0}

(* Allocated in the sense of add_free_nid's build check. *)
Allocated(m, n) == m.cache[n] # NONE /\ (~m.cache[n].ckpt \/ m.cache[n].blk # NULL_ADDR)

(* alloc_nid (PER_CORE_NID_LIST): a NID_NEW entry of a free-NID list is   *)
(* handed out; which list the round robin picks is abstracted.             *)
alloc_nid(m, n) == n \in m.free

(* alloc_nid_done that leaves the NID on its free list. *)
alloc_nid_done_kept(m, n) == m

(* alloc_nid_done: the allocated NID leaves the free-NID list. *)
alloc_nid_done(m, n) == [m EXCEPT !.free = @ \ {n}]

(* alloc_nid, new_node_page(dn, ofs) and alloc_nid_done: node n of inode  *)
(* i.  The owner inode only feeds the fsync marks, which are abstracted,   *)
(* so the model lets every node own itself (i = n, as for an inode).       *)
NewNode(n, i) ==
    /\ cp = "none"
    /\ alloc_nid(nm, n)
    /\ n \notin Locked
    /\ LET old == NodeInfo(n)
           m1 == GniNm(n)
           ni == [old EXCEPT !.ino = i]
       IN  /\ nm' = alloc_nid_done(set_node_addr(m1, ni, n, NEW_ADDR), n)
           /\ fsck' = fsck \cup SetNodeAddrBugs(m1, ni, n, NEW_ADDR)
                           \cup {b \in {"new_node_page_not_null"} : old.blk # NULL_ADDR}
    /\ pageDirty' = pageDirty \cup {n}
    /\ UNCHANGED <<disk, cp, cpCount, cpGathered, cpList, rbImage, rbCopy, rd>>

(* f2fs_write_node_page: a truncated node's page is dropped; otherwise the *)
(* page is appended to the node log (write_node_page) and set_node_addr    *)
(* records the new address.  The log is never cleaned, so NumAddrs bounds  *)
(* the writes of a behaviour.                                              *)
WriteNode(n) ==
    /\ cp = "none"
    /\ n \in pageDirty
    /\ n \notin Locked
    /\ LET ni == NodeInfo(n)
           m1 == GniNm(n)
       IN  \/ /\ ni.blk = NULL_ADDR
              /\ nm' = m1
              /\ UNCHANGED <<fsck, nextAddr>>
           \/ /\ ni.blk # NULL_ADDR
              /\ nextAddr <= NumAddrs
              /\ nm' = set_node_addr(m1, ni, n, nextAddr)
              /\ fsck' = fsck \cup SetNodeAddrBugs(m1, ni, n, nextAddr)
              /\ nextAddr' = nextAddr + 1
    /\ pageDirty' = pageDirty \ {n}
    /\ UNCHANGED <<jnl, nat, bitmap, natDirty, cp, cpCount, cpGathered, cpList, rbImage, rbCopy, rd>>

(* truncate_node: the node's address becomes NULL_ADDR and its page is     *)
(* cleaned (clear_node_page_dirty).                                        *)
TruncateNode(n) ==
    /\ cp = "none"
    /\ n \notin Locked
    /\ NodeInfo(n).blk # NULL_ADDR
    /\ LET ni == NodeInfo(n)
           m1 == GniNm(n)
       IN  /\ nm' = set_node_addr(m1, ni, n, NULL_ADDR)
           /\ fsck' = fsck \cup SetNodeAddrBugs(m1, ni, n, NULL_ADDR)
    /\ pageDirty' = pageDirty \ {n}
    /\ UNCHANGED <<disk, cp, cpCount, cpGathered, cpList, rbImage, rbCopy, rd>>

(* f2fs_set_node_page_dirty on the cached page of a written node. *)
DirtyNode(n) ==
    /\ cp = "none"
    /\ n \notin Locked
    /\ n \notin pageDirty
    /\ NodeInfo(n).blk \in ValidAddrs
    /\ pageDirty' = pageDirty \cup {n}
    /\ UNCHANGED <<nm, disk, cp, cpCount, cpGathered, cpList, rbImage, rbCopy, fsck, rd>>

(* try_to_free_nats under memory pressure, for shard s: clean entries      *)
(* leave the LRU list (which ones is abstracted).                          *)
TryToFreeNats(s) ==
    \E victims \in SUBSET {n \in Cached(s) : ~nm.cache[n].dirty} \ {{}} :
        /\ nm' = del_from_nat_cache(nm, victims, s)
        /\ UNCHANGED <<disk, pageDirty, cp, cpCount, cpGathered, cpList, rbImage, rbCopy, fsck, rd>>

(* remove_free_nid for the NIDs R: a NID_NEW entry leaves its list. *)
remove_free_nid(m, R) == [m EXCEPT !.free = @ \ R]

(* build_free_nids (PER_CORE_NID_LIST), run by alloc_nid when a free-NID   *)
(* list is empty: only the journal is scanned.  add_free_nid may fail for  *)
(* lack of memory, so any subset of the candidates is added.               *)
BuildFreeNids ==
    /\ \E l \in 0..(NidListCnt - 1) : \A n \in nm.free : LIST_IDX(n) # l
    /\ LET jn == JournalNids \cap Nids
       IN  \E added \in SUBSET {n \in jn : jnl[n].blk = NULL_ADDR /\ ~Allocated(nm, n)} :
             nm' = remove_free_nid([nm EXCEPT !.free = @ \cup added],
                                   {n \in jn : jnl[n].blk # NULL_ADDR})
    /\ UNCHANGED <<disk, pageDirty, cp, cpCount, cpGathered, cpList, rbImage, rbCopy, fsck, rd>>

-----------------------------------------------------------------------------
(* get_node_info from read_node_page, one step per lock it takes.  The     *)
(* caller holds the lock of n's page, which is not up to date (so not     *)
(* dirty).                                                                 *)

(* Under nat_tree_lock[TREE_IDX(n)] (read): a hit returns at once. *)
GniLookup(t, n) ==
    /\ pc[t] = "idle"
    /\ n \notin Locked
    /\ n \notin pageDirty
    /\ nid' = [nid EXCEPT ![t] = n]
    /\ \/ /\ nm.cache[n] # NONE
          /\ res' = [res EXCEPT ![t] = RawOf(nm.cache[n])]
          /\ pc' = [pc EXCEPT ![t] = "ret"]
       \/ /\ nm.cache[n] = NONE
          /\ pc' = [pc EXCEPT ![t] = "journal"]
          /\ UNCHANGED res
    /\ UNCHANGED <<nm, disk, pageDirty, cp, cpCount, cpGathered, cpList, rbImage, rbCopy, fsck>>

(* Under curseg_mutex: lookup_journal_in_cursum. *)
GniJournal(t) ==
    /\ pc[t] = "journal"
    /\ \/ /\ jnl[nid[t]] # NONE
          /\ res' = [res EXCEPT ![t] = jnl[nid[t]]]
          /\ pc' = [pc EXCEPT ![t] = "cache"]
       \/ /\ jnl[nid[t]] = NONE
          /\ pc' = [pc EXCEPT ![t] = "natpage"]
          /\ UNCHANGED res
    /\ UNCHANGED <<nm, disk, pageDirty, cp, cpCount, cpGathered, cpList, rbImage, rbCopy, fsck, nid>>

(* Under the meta page lock: get_current_nat_page. *)
GniNatPage(t) ==
    /\ pc[t] = "natpage"
    /\ res' = [res EXCEPT ![t] = CurrentNat(nid[t])]
    /\ pc' = [pc EXCEPT ![t] = "cache"]
    /\ UNCHANGED <<nm, disk, pageDirty, cp, cpCount, cpGathered, cpList, rbImage, rbCopy, fsck, nid>>

(* Under nat_tree_lock[TREE_IDX(n)] (write): cache_nat_entry. *)
GniCache(t) ==
    /\ pc[t] = "cache"
    /\ nm' = cache_nat_entry(nm, nid[t], res[t])
    /\ pc' = [pc EXCEPT ![t] = "ret"]
    /\ UNCHANGED <<disk, pageDirty, cp, cpCount, cpGathered, cpList, rbImage, rbCopy, fsck, nid, res>>

(* read_node_page uses the node_info and unlocks the page; the thread's    *)
(* locals are gone (nid 0 is never a node).                                *)
GniDone(t) ==
    /\ pc[t] = "ret"
    /\ pc' = [pc EXCEPT ![t] = "idle"]
    /\ nid' = [nid EXCEPT ![t] = 0]
    /\ res' = [res EXCEPT ![t] = NullRaw]
    /\ UNCHANGED <<nm, disk, pageDirty, cp, cpCount, cpGathered, cpList, rbImage, rbCopy, fsck>>

-----------------------------------------------------------------------------
(* The checkpoint.  block_operations and do_checkpoint live outside this   *)
(* file; their effect here is the fence and the commit.                    *)

(* block_operations that does not wait for the dirty node pages. *)
CpBlockOpsNoSync ==
    /\ cp = "none"
    /\ cpCount < MaxCheckpoints
    /\ cp' = "flush"
    /\ UNCHANGED <<nm, disk, pageDirty, cpCount, cpGathered, cpList, rbImage, rbCopy, fsck, rd>>

(* block_operations: mutators are fenced and every dirty node page has     *)
(* been written (sync_node_pages until none is left).                      *)
CpBlockOps ==
    /\ cp = "none"
    /\ cpCount < MaxCheckpoints
    /\ pageDirty = {}
    /\ cp' = "flush"
    /\ UNCHANGED <<nm, disk, pageDirty, cpCount, cpGathered, cpList, rbImage, rbCopy, fsck, rd>>

(* __has_cursum_space and MAX_NAT_JENTRIES on the NAT journal. *)
HasCursumSpace(size) == Cardinality(JournalNids) + size <= JournalEntries
MaxNatJentries == JournalEntries - Cardinality(JournalNids)

(* remove_nats_in_journal that empties the journal without caching it. *)
DrainedLost(m) == m

(* remove_nats_in_journal: every journalled entry becomes a dirty cache    *)
(* entry (the cached one, when present, is newer) and the journal empties. *)
Drained(m) ==
    LET jn == JournalNids \cap Nids
        nd == {n \in jn : m.cache[n] = NONE \/ ~m.cache[n].dirty}  \* newly dirty
        ND(s, k) == Cardinality({n \in nd : TREE_IDX(n) = s /\ NAT_BLOCK_OFFSET(n) = k})
    IN  [m EXCEPT
           !.cache = [n \in Nids |->
                        IF n \notin jn THEN m.cache[n]
                        ELSE IF m.cache[n] = NONE
                          THEN [ino |-> jnl[n].ino, blk |-> jnl[n].blk, ver |-> jnl[n].ver,
                                ckpt |-> TRUE, dirty |-> TRUE]
                          ELSE [m.cache[n] EXCEPT !.dirty = TRUE]],
           !.nat_cnt = [s \in Shards |->
                          @[s] + Cardinality({n \in jn : TREE_IDX(n) = s /\ m.cache[n] = NONE})],
           !.dirty_cnt = [s \in Shards |->
                            @[s] + Cardinality({n \in nd : TREE_IDX(n) = s})],
           !.set_root = [s \in Shards |->
                           @[s] \cup {NAT_BLOCK_OFFSET(n) : n \in {x \in nd : TREE_IDX(x) = s}}],
           !.set_cnt = [s \in Shards |-> [k \in Blocks |->
                          IF k \in m.set_root[s] THEN @[s][k] + ND(s, k)
                          ELSE IF ND(s, k) > 0 THEN ND(s, k) ELSE @[s][k]]]]

(* flush_nat_entries[_per_core], first part: sum the per-shard dirty       *)
(* counters; nothing to do when zero; drain the journal when it cannot     *)
(* take them all.                                                          *)
FlushBegin ==
    /\ cp = "flush"
    /\ LET total == SumFunction(nm.dirty_cnt)
       IN  \/ /\ total = 0
              /\ cp' = "commit"
              /\ UNCHANGED <<nm, jnl, cpGathered>>
           \/ /\ total # 0
              /\ IF HasCursumSpace(total)
                   THEN UNCHANGED <<nm, jnl>>
                   ELSE /\ nm' = Drained(nm)
                        /\ jnl' = [n \in AllNids |-> NONE]
              /\ cp' = "gather"
              /\ cpGathered' = {}
    /\ cpList' = <<>>
    /\ UNCHANGED <<nat, bitmap, natDirty, nextAddr, pageDirty, cpCount, rbImage, rbCopy, fsck, rd>>

(* The position before which __adjust_nat_entry_set links a set of c       *)
(* entries: the first one with at least c entries, or the end.             *)
FirstAtLeast(l, c, j) ==
    /\ j <= Len(l) => l[j].cnt >= c
    /\ \A i \in 1..(j - 1) : l[i].cnt < c

InsertAt(l, j, x) == SubSeq(l, 1, j - 1) \o <<x>> \o SubSeq(l, j, Len(l))
RemoveAt(l, i) == SubSeq(l, 1, i - 1) \o SubSeq(l, i + 1, Len(l))

(* __adjust_nat_entry_set: sets too big for the journal go to the tail,    *)
(* the others are kept in ascending order of entry_cnt.                    *)
AdjustSet(x, max) ==
    \/ x.cnt >= max /\ cpList' = Append(cpList, x)
    \/ /\ x.cnt < max
       /\ \E j \in 1..(Len(cpList) + 1) :
            FirstAtLeast(cpList, x.cnt, j) /\ cpList' = InsertAt(cpList, j, x)

(* __adjust_nat_entry_set_per_core: a set joins the pack of its NAT block, *)
(* which goes to the tail once it is too big for the journal; a new pack   *)
(* is placed like a set in __adjust_nat_entry_set (on an empty list both   *)
(* append).                                                                *)
AdjustPack(x, max) ==
    \/ \E i \in 1..Len(cpList) :
         /\ cpList[i].set = x.set
         /\ LET p == [cpList[i] EXCEPT !.shards = @ \cup x.shards, !.cnt = @ + x.cnt]
            IN  cpList' = IF p.cnt >= max THEN Append(RemoveAt(cpList, i), p)
                          ELSE [cpList EXCEPT ![i] = p]
    \/ /\ \A i \in 1..Len(cpList) : cpList[i].set # x.set
       /\ AdjustSet(x, max)

Ungathered == {p \in Shards \X Blocks : p[2] \in nm.set_root[p[1]]} \ cpGathered

(* The gang lookup: shard by shard, each shard's sets by ascending index.  *)
GatherSet ==
    /\ cp = "gather"
    /\ \E s \in Shards, k \in Blocks :
         /\ <<s, k>> \in Ungathered
         /\ \A p \in Ungathered : s < p[1] \/ (s = p[1] /\ k <= p[2])
         /\ LET x == [set |-> k, shards |-> {s}, cnt |-> nm.set_cnt[s][k]]
            IN  IF PerCoreFlush THEN AdjustPack(x, MaxNatJentries)
                ELSE AdjustSet(x, MaxNatJentries)
         /\ cpGathered' = cpGathered \cup {<<s, k>>}
    /\ UNCHANGED <<nm, disk, pageDirty, cp, cpCount, rbImage, rbCopy, fsck, rd>>

GatherDone ==
    /\ cp = "gather"
    /\ Ungathered = {}
    /\ cp' = "sets"
    /\ cpGathered' = {}
    /\ UNCHANGED <<nm, disk, pageDirty, cpCount, cpList, rbImage, rbCopy, fsck, rd>>

(* next_nat_addr, written in place instead of in the other copy. *)
next_nat_copy_in_place(k) == bitmap[k]

(* next_nat_addr: the copy of block pair k that nat_bitmap does not select. *)
next_nat_copy(k) == 1 - bitmap[k]

(* The write of a set's entries (both flush variants): into the journal  *)
(* when it has room for the count (lookup_journal_in_cursum must find a    *)
(* slot for each), otherwise into the next copy of NAT block k, which      *)
(* get_next_nat_page fills from the current copy before nat_bitmap flips.  *)
write_nat_entries(k, W, toJournal, fits) ==
    LET src == bitmap[k]
        dst == next_nat_copy(k)
    IN  IF toJournal
          THEN /\ jnl' = IF fits
                           THEN [n \in AllNids |-> IF n \in W THEN RawOf(nm.cache[n])
                                                   ELSE jnl[n]]
                           ELSE jnl
               /\ UNCHANGED <<nat, bitmap, natDirty>>
          ELSE /\ nat' = [nat EXCEPT ![dst] =
                            [n \in AllNids |->
                               IF NAT_BLOCK_OFFSET(n) # k THEN nat[dst][n]
                               ELSE IF n \in W THEN RawOf(nm.cache[n])
                               ELSE nat[src][n]]]
               /\ bitmap' = [bitmap EXCEPT ![k] = dst]
               /\ natDirty' = [natDirty EXCEPT ![k] = @ \cup {dst}]
               /\ UNCHANGED jnl

(* __flush_nat_entry_set (one shard's set) or __flush_nat_entry_set_per_core *)
(* (a pack): NEW_ADDR entries are skipped; the written ones get            *)
(* nat_reset_flag and leave the set, and freed NIDs go back to the pool    *)
(* (add_free_nid, memory permitting).  The classic variant drops only its  *)
(* own shard's set and checks that it is empty; the per-core one drops     *)
(* the set of block k from every shard.                                    *)
FlushSet ==
    /\ cp = "sets"
    /\ cpList # <<>>
    /\ LET x == Head(cpList)
           k == x.set
           E == {n \in Nids : NAT_BLOCK_OFFSET(n) = k /\ TREE_IDX(n) \in x.shards
                              /\ nm.cache[n] # NONE /\ nm.cache[n].dirty}
           W == {n \in E : nm.cache[n].blk # NEW_ADDR}
           WIn(s) == Cardinality({n \in W : TREE_IDX(n) = s})
           toJournal == HasCursumSpace(x.cnt)
           fits == Cardinality(JournalNids \cup W) <= JournalEntries
           gone == IF PerCoreFlush THEN Shards ELSE x.shards
       IN  /\ write_nat_entries(k, W, toJournal, fits)
           /\ fsck' = fsck
                 \cup {b \in {"journal_full"} : toJournal /\ ~fits}
                 \cup {b \in {"nat_src_dirty"} : ~toJournal /\ bitmap[k] \in natDirty[k]}
                 \cup {b \in {"set_not_empty"} :
                          ~PerCoreFlush /\ \E s \in x.shards : nm.set_cnt[s][k] # WIn(s)}
           /\ \E added \in SUBSET {n \in W : nm.cache[n].blk = NULL_ADDR} :
                nm' = [clear_nat_cache_dirty(nm, W, k) EXCEPT
                         !.set_root = [s \in Shards |-> IF s \in gone THEN @[s] \ {k} ELSE @[s]],
                         !.free = @ \cup added]
    /\ cpList' = Tail(cpList)
    /\ UNCHANGED <<nextAddr, pageDirty, cp, cpCount, cpGathered, rbImage, rbCopy, rd>>

(* The flush loop left after its first set, the rest of the list dropped. *)
FlushEndEarly ==
    /\ cp = "sets"
    /\ cp' = "commit"
    /\ cpList' = <<>>
    /\ fsck' = fsck \cup {b \in {"dirty_left"} :
                            PerCoreFlush /\ \E s \in Shards : nm.dirty_cnt[s] # 0}
    /\ UNCHANGED <<nm, disk, pageDirty, cpCount, cpGathered, rbImage, rbCopy, rd>>

(* The end of the flush: flush_nat_entries_per_core checks that no shard   *)
(* has dirty entries left.                                                 *)
FlushEnd ==
    /\ cp = "sets"
    /\ cpList = <<>>
    /\ cp' = "commit"
    /\ fsck' = fsck \cup {b \in {"dirty_left"} :
                            PerCoreFlush /\ \E s \in Shards : nm.dirty_cnt[s] # 0}
    /\ UNCHANGED <<nm, disk, pageDirty, cpCount, cpGathered, cpList, rbImage, rbCopy, rd>>

(* do_checkpoint: the NAT pages reach the disk with the new nat_bitmap,    *)
(* which becomes the rollback point; unblock_operations lifts the fence.   *)
CpCommit ==
    /\ cp = "commit"
    /\ cp' = "none"
    /\ cpCount' = cpCount + 1
    /\ natDirty' = [k \in Blocks |-> {}]
    /\ rbImage' = [n \in AllNids |-> CurrentNat(n)]
    /\ rbCopy' = bitmap
    /\ UNCHANGED <<nm, jnl, nat, bitmap, nextAddr, pageDirty, cpGathered, cpList, fsck, rd>>

-----------------------------------------------------------------------------
Next ==
    \/ \E n \in Nids : NewNode(n, n)
    \/ \E n \in Nids : WriteNode(n) \/ TruncateNode(n) \/ DirtyNode(n)
    \/ \E s \in Shards : TryToFreeNats(s)
    \/ BuildFreeNids
    \/ \E t \in Readers :
         \/ \E n \in Nids : GniLookup(t, n)
         \/ GniJournal(t) \/ GniNatPage(t) \/ GniCache(t) \/ GniDone(t)
    \/ CpBlockOps \/ FlushBegin \/ GatherSet \/ GatherDone
    \/ FlushSet \/ FlushEnd \/ CpCommit

Spec == Init /\ [][Next]_vars

-----------------------------------------------------------------------------
(* Properties                                                              *)

(* The shard counters (percore_nat_cnt, percore_dirty_nat_cnt, the sets'   *)
(* entry_cnt) count what the radix trees hold, and every dirty entry is    *)
(* on a live set: what flush relies on to find and count them.             *)
NatCounters ==
    \A s \in Shards :
        /\ nm.nat_cnt[s] = Cardinality(Cached(s))
        /\ nm.dirty_cnt[s] = Cardinality({n \in Cached(s) : nm.cache[n].dirty})
        /\ \A k \in nm.set_root[s] : nm.set_cnt[s][k] = Cardinality(DirtyIn(s, k))
        /\ \A n \in Cached(s) : nm.cache[n].dirty => NAT_BLOCK_OFFSET(n) \in nm.set_root[s]

(* A clean cache entry says what the device says (journal over NAT block): *)
(* evicting it loses nothing, and get_node_info returns the truth.         *)
CacheCoherent ==
    \A n \in Nids :
        nm.cache[n] # NONE /\ ~nm.cache[n].dirty => RawOf(nm.cache[n]) = DiskNat(n)

(* Until the checkpoint commits, the NAT copies that the previous          *)
(* checkpoint made current are untouched: a crash in the flush rolls back  *)
(* to them (get_next_nat_page writes only the other copy).                 *)
RollbackIntact ==
    cp \in {"flush", "gather", "sets", "commit"} =>
        \A n \in AllNids : nat[rbCopy[NAT_BLOCK_OFFSET(n)]][n] = rbImage[n]

(* When the flush is over, no dirty NAT entry and no set is left behind    *)
(* for do_checkpoint to miss.                                              *)
FlushCleansAll ==
    cp = "commit" =>
        /\ \A n \in Nids : nm.cache[n] # NONE => ~nm.cache[n].dirty
        /\ \A s \in Shards : nm.set_root[s] = {} /\ nm.dirty_cnt[s] = 0

(* A NID in the free pool is free both now and on the device: alloc_nid   *)
(* never hands out a NID whose node exists or whose deletion the last      *)
(* checkpoint has not recorded (its old node would come back after a       *)
(* crash).                                                                 *)
FreeNidIsFree ==
    \A n \in nm.free : NodeInfo(n).blk = NULL_ADDR /\ DiskNat(n).blk = NULL_ADDR

(* No f2fs_bug_on fires. *)
NoBugOn == fsck = {}

=============================================================================
