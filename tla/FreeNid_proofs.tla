---------------------------- MODULE FreeNid_proofs ----------------------------
(***************************************************************************)
(* Proof that no free-NID entry is ever allocated and no NID goes to two   *)
(* threads (FreeNidsFree), for every NAT size, list count, journal size,   *)
(* memory budget, counter width and set of threads.  FreeNidsFree is not   *)
(* inductive: a step of the mount's journal pass, of alloc_nid or of       *)
(* new_node_page needs to know more about the state than it says.          *)
(***************************************************************************)
EXTENDS FreeNid, TLAPS

HeldStates == {"newpage", "done", "failed"}

TypeCore ==
    /\ freeNid \in [Allocatable -> {"none", "new", "alloc"}]
    /\ live \subseteq {ROOT_INO} \cup Allocatable
    /\ dirty \subseteq Allocatable
    /\ jnl \in [Allocatable -> {"absent", "null", "valid"}]
    /\ pc \in [Allocators -> PcStates]
    /\ held \in [Allocators -> Allocatable \cup {NONE}]
    /\ todo \in [Allocators -> SUBSET Allocatable]
    /\ mountTodo \subseteq Allocatable

(* No thread runs before the mount build has read the whole journal.      *)
MountFirst == (\E t \in Allocators : pc[t] # "idle") => mountTodo = {}

(* A NID_NEW entry that is allocated came from a NAT block that the        *)
(* journal overrides, and the mount's journal pass will remove it.         *)
StaleUntilJournal ==
    \A n \in Allocatable :
        freeNid[n] = "new" /\ n \in live => n \in mountTodo /\ jnl[n] = "valid"

(* A thread holds a NID exactly between alloc_nid and alloc_nid_done or    *)
(* alloc_nid_failed; the entry is NID_ALLOC, nobody else holds it, and it  *)
(* is unallocated until new_node_page succeeds.                            *)
HeldAlloc ==
    \A t \in Allocators :
        /\ (pc[t] \in HeldStates) = (held[t] # NONE)
        /\ pc[t] \in HeldStates => freeNid[held[t]] = "alloc"
        /\ pc[t] \in {"newpage", "failed"} => held[t] \notin live
        /\ \A u \in Allocators \ {t} : held[t] # NONE => held[u] # held[t]

IInv == TypeCore /\ MountFirst /\ StaleUntilJournal /\ HeldAlloc

-----------------------------------------------------------------------------
LEMMA NoneNotNid == NONE \notin Allocatable
  BY FreeNidAssumption DEF Allocatable

LEMMA RootNotAllocatable == ROOT_INO \notin Allocatable
  BY DEF ROOT_INO, Allocatable, F2FS_RESERVED_NODE_NUM

(* The mount scan only adds NIDs that are NULL_ADDR in their NAT block.    *)
LEMMA MountPoolSub ==
    ASSUME NEW natNull \in SUBSET Allocatable
    PROVE  MountPool(natNull) \subseteq natNull
  BY DEF MountPool

(* One journal entry read by a build: only that NID's entry changes, an    *)
(* entry becomes NID_NEW only if it was NID_NEW or is unallocated, and     *)
(* NID_ALLOC entries are left alone.                                       *)
LEMMA JournalEntryEffect ==
    ASSUME TypeCore, NEW n \in Allocatable, JournalEntry(n)
    PROVE  /\ freeNid' \in [Allocatable -> {"none", "new", "alloc"}]
           /\ \A m \in Allocatable \ {n} : freeNid'[m] = freeNid[m]
           /\ freeNid'[n] = "new" =>
                 \/ freeNid[n] = "new" /\ jnl[n] = "null"
                 \/ n \notin live
           /\ (freeNid'[n] = "alloc") = (freeNid[n] = "alloc")
  BY DEF JournalEntry, add_free_nid, remove_free_nid, Allocated, poolVars, TypeCore

-----------------------------------------------------------------------------
LEMMA InitIInv == Init => IInv
  BY MountPoolSub, NoneNotNid, RootNotAllocatable
  DEF Init, IInv, TypeCore, MountFirst, StaleUntilJournal, HeldAlloc, HeldStates, PcStates

(* The mount's journal pass: no thread runs yet, and the entry it reads    *)
(* becomes NID_NEW only for a NID that is not allocated.                   *)
LEMMA MountJournalEntryIInv ==
    ASSUME IInv, NEW n \in Allocatable, MountJournalEntry(n)
    PROVE  IInv'
<1>1. /\ freeNid' \in [Allocatable -> {"none", "new", "alloc"}]
      /\ \A m \in Allocatable \ {n} : freeNid'[m] = freeNid[m]
      /\ freeNid'[n] = "new" => \/ freeNid[n] = "new" /\ jnl[n] = "null"
                               \/ n \notin live
  BY JournalEntryEffect DEF MountJournalEntry, IInv
<1>2. \A t \in Allocators : pc[t] = "idle"
  BY DEF MountJournalEntry, IInv, MountFirst
<1>3. UNCHANGED <<live, dirty, jnl, pc, held, todo>>
  BY DEF MountJournalEntry, nodeVars, allocVars
<1>4. TypeCore'
  BY <1>1, <1>3 DEF MountJournalEntry, IInv, TypeCore
<1>5. MountFirst'
  BY <1>2, <1>3 DEF MountFirst
<1>6. StaleUntilJournal'
  BY <1>1, <1>3 DEF MountJournalEntry, IInv, StaleUntilJournal
<1>7. HeldAlloc'
  BY <1>2, <1>3 DEF IInv, TypeCore, HeldAlloc, HeldStates
<1>8. QED
  BY <1>4, <1>5, <1>6, <1>7 DEF IInv

(* A build's journal entry, read while the mount build is over.            *)
LEMMA BuildEntryIInv ==
    ASSUME IInv, NEW t \in Allocators, BuildEntry(t)
    PROVE  IInv'
<1>1. mountTodo = {}
  BY DEF BuildEntry, IInv, MountFirst
<1>2. PICK n \in todo[t] : JournalEntry(n) /\ todo' = [todo EXCEPT ![t] = @ \ {n}]
  BY DEF BuildEntry
<1>3. n \in Allocatable
  BY DEF IInv, TypeCore
<1>4. /\ freeNid' \in [Allocatable -> {"none", "new", "alloc"}]
      /\ \A m \in Allocatable \ {n} : freeNid'[m] = freeNid[m]
      /\ freeNid'[n] = "new" => \/ freeNid[n] = "new" /\ jnl[n] = "null"
                               \/ n \notin live
      /\ (freeNid'[n] = "alloc") = (freeNid[n] = "alloc")
  BY <1>2, <1>3, JournalEntryEffect DEF IInv
<1>5. UNCHANGED <<live, dirty, jnl, pc, held, mountTodo>>
  BY DEF BuildEntry, nodeVars
<1>6. TypeCore'
  BY <1>2, <1>4, <1>5 DEF IInv, TypeCore
<1>7. MountFirst'
  BY <1>1, <1>5 DEF MountFirst
<1>8. StaleUntilJournal'
  BY <1>1, <1>4, <1>5 DEF IInv, StaleUntilJournal
<1>9. HeldAlloc'
  <2>1. \A m \in Allocatable : (freeNid'[m] = "alloc") = (freeNid[m] = "alloc")
    BY <1>4
  <2>2. QED
    BY <2>1, <1>5 DEF IInv, TypeCore, HeldAlloc, HeldStates
<1>10. QED
  BY <1>6, <1>7, <1>8, <1>9 DEF IInv
(* alloc_nid either leaves the pool and the thread's NID alone and moves    *)
(* the thread to idle, build or bug, or takes a NID_NEW entry.             *)
LEMMA AllocRetryShape ==
    ASSUME NEW t \in Allocators, AllocRetry(t)
    PROVE  /\ UNCHANGED <<live, dirty, jnl, todo, mountTodo>>
           /\ \/ /\ UNCHANGED <<freeNid, held>>
                 /\ \E x \in {"idle", "build", "bug"} : pc' = [pc EXCEPT ![t] = x]
              \/ \E n \in Allocatable :
                    /\ freeNid[n] = "new"
                    /\ freeNid' = [freeNid EXCEPT ![n] = "alloc"]
                    /\ held' = [held EXCEPT ![t] = n]
                    /\ pc' = [pc EXCEPT ![t] = "newpage"]
<1> DEFINE v == atomic_inc_return(nextAllocator)
           id == CRem(v, NidListCnt)
           news == {n \in Allocatable : LIST_IDX(n) = id /\ freeNid[n] = "new"}
<1>1. UNCHANGED <<live, dirty, jnl, todo, mountTodo>>
  BY DEF AllocRetry, nodeVars
<1>2. CASE valid + 1 > available_nids
  BY <1>1, <1>2 DEF AllocRetry, poolVars
<1>3. CASE ~(valid + 1 > available_nids) /\ id < 0
  BY <1>1, <1>3 DEF AllocRetry, poolVars
<1>4. CASE ~(valid + 1 > available_nids) /\ ~(id < 0) /\ ~(fcnt[id] > 0 /\ buildLock = NONE)
  BY <1>1, <1>4 DEF AllocRetry, poolVars
<1>5. CASE ~(valid + 1 > available_nids) /\ ~(id < 0) /\ fcnt[id] > 0 /\ buildLock = NONE
           /\ news = {}
  BY <1>1, <1>5 DEF AllocRetry, poolVars
<1>6. CASE ~(valid + 1 > available_nids) /\ ~(id < 0) /\ fcnt[id] > 0 /\ buildLock = NONE
           /\ news # {}
  <2>1. \E n \in news :
           /\ freeNid' = [freeNid EXCEPT ![n] = "alloc"]
           /\ held' = [held EXCEPT ![t] = n]
           /\ pc' = [pc EXCEPT ![t] = "newpage"]
    BY <1>6 DEF AllocRetry
  <2>2. QED
    BY <1>1, <2>1
<1>7. QED
  BY <1>2, <1>3, <1>4, <1>5, <1>6

(* alloc_nid: a NID it takes is NID_NEW, hence unallocated and held by no  *)
(* other thread, whose entries are NID_ALLOC.                              *)
LEMMA AllocRetryIInv ==
    ASSUME IInv, NEW t \in Allocators, AllocRetry(t)
    PROVE  IInv'
<1>1. mountTodo = {} /\ held[t] = NONE
  BY DEF AllocRetry, IInv, MountFirst, HeldAlloc, HeldStates
<1>2. UNCHANGED <<live, dirty, jnl, todo, mountTodo>>
  BY AllocRetryShape
<1>3. CASE /\ UNCHANGED <<freeNid, held>>
           /\ \E x \in {"idle", "build", "bug"} : pc' = [pc EXCEPT ![t] = x]
  <2>1. PICK x \in {"idle", "build", "bug"} : pc' = [pc EXCEPT ![t] = x]
    BY <1>3
  <2>2. TypeCore'
    BY <1>2, <1>3, <2>1 DEF IInv, TypeCore, PcStates
  <2>3. MountFirst'
    BY <1>1, <1>2 DEF MountFirst
  <2>4. StaleUntilJournal'
    BY <1>2, <1>3 DEF IInv, StaleUntilJournal
  <2>5. HeldAlloc'
    BY <1>1, <1>2, <1>3, <2>1 DEF IInv, TypeCore, HeldAlloc, HeldStates
  <2>6. QED
    BY <2>2, <2>3, <2>4, <2>5 DEF IInv
<1>4. CASE \E n \in Allocatable :
              /\ freeNid[n] = "new"
              /\ freeNid' = [freeNid EXCEPT ![n] = "alloc"]
              /\ held' = [held EXCEPT ![t] = n]
              /\ pc' = [pc EXCEPT ![t] = "newpage"]
  <2>1. PICK n \in Allocatable :
              /\ freeNid[n] = "new"
              /\ freeNid' = [freeNid EXCEPT ![n] = "alloc"]
              /\ held' = [held EXCEPT ![t] = n]
              /\ pc' = [pc EXCEPT ![t] = "newpage"]
    BY <1>4
  <2>2. n \notin live
    BY <1>1, <2>1 DEF IInv, StaleUntilJournal
  <2>3. \A u \in Allocators : held[u] # n
    BY <1>1, <2>1, NoneNotNid DEF IInv, TypeCore, HeldAlloc, HeldStates
  <2>4. TypeCore'
    BY <1>2, <2>1 DEF IInv, TypeCore, PcStates
  <2>5. MountFirst'
    BY <1>1, <1>2 DEF MountFirst
  <2>6. StaleUntilJournal'
    BY <1>1, <1>2, <2>1 DEF IInv, TypeCore, StaleUntilJournal
  <2>7. HeldAlloc'
    BY <1>1, <1>2, <2>1, <2>2, <2>3, NoneNotNid DEF IInv, TypeCore, HeldAlloc, HeldStates
  <2>8. QED
    BY <2>4, <2>5, <2>6, <2>7 DEF IInv
<1>5. QED
  BY <1>3, <1>4, AllocRetryShape
(* get_dnode_of_data entering alloc_nid: only after the mount build.       *)
LEMMA CallIInv ==
    ASSUME IInv, NEW t \in Allocators, Call(t)
    PROVE  IInv'
  BY DEF Call, IInv, TypeCore, MountFirst, StaleUntilJournal, HeldAlloc, HeldStates,
         PcStates, poolVars, nodeVars

(* Taking build_lock: the thread holds no NID, and build_free_nids reads   *)
(* journal NIDs only.                                                      *)
LEMMA BuildLockIInv ==
    ASSUME IInv, NEW t \in Allocators, BuildLock(t)
    PROVE  IInv'
<1>1. /\ UNCHANGED <<freeNid, live, dirty, jnl, held, mountTodo>>
      /\ \/ pc' = [pc EXCEPT ![t] = "retry"] /\ todo' = todo
         \/ pc' = [pc EXCEPT ![t] = "building"] /\ todo' = [todo EXCEPT ![t] = JournalNids]
  BY DEF BuildLock, poolVars, nodeVars
<1>2. mountTodo = {} /\ held[t] = NONE
  BY DEF BuildLock, IInv, MountFirst, HeldAlloc, HeldStates
<1>3. JournalNids \subseteq Allocatable
  BY DEF JournalNids
<1>4. QED
  BY <1>1, <1>2, <1>3 DEF IInv, TypeCore, MountFirst, StaleUntilJournal, HeldAlloc,
                         HeldStates, PcStates

(* Releasing build_lock.                                                   *)
LEMMA BuildEndIInv ==
    ASSUME IInv, NEW t \in Allocators, BuildEnd(t)
    PROVE  IInv'
  BY DEF BuildEnd, IInv, TypeCore, MountFirst, StaleUntilJournal, HeldAlloc, HeldStates,
         PcStates, poolVars, nodeVars

(* new_node_page: the NID it allocates is NID_ALLOC, so no NID_NEW entry   *)
(* becomes allocated, and no other thread holds it.                        *)
LEMMA NewNodePageIInv ==
    ASSUME IInv, NEW t \in Allocators, NewNodePage(t)
    PROVE  IInv'
<1>1. /\ mountTodo = {}
      /\ held[t] \in Allocatable
      /\ freeNid[held[t]] = "alloc"
      /\ \A u \in Allocators \ {t} : held[u] # held[t]
  BY NoneNotNid DEF NewNodePage, IInv, TypeCore, MountFirst, HeldAlloc, HeldStates
<1>2. UNCHANGED <<freeNid, jnl, held, todo, mountTodo>>
  BY DEF NewNodePage, poolVars
<1>3. \/ pc' = [pc EXCEPT ![t] = "failed"] /\ live' = live /\ dirty' = dirty
      \/ /\ pc' = [pc EXCEPT ![t] = "done"]
         /\ live' = live \cup {held[t]}
         /\ dirty' = dirty \cup {held[t]}
  BY DEF NewNodePage, nodeVars
<1>4. QED
  BY <1>1, <1>2, <1>3 DEF NewNodePage, IInv, TypeCore, MountFirst, StaleUntilJournal,
                         HeldAlloc, HeldStates, PcStates

(* alloc_nid_done: the entry of the thread's NID is freed.                 *)
LEMMA AllocNidDoneIInv ==
    ASSUME IInv, NEW t \in Allocators, alloc_nid_done(t)
    PROVE  IInv'
<1>1. /\ mountTodo = {}
      /\ held[t] \in Allocatable
      /\ \A u \in Allocators \ {t} : held[u] # held[t]
  BY NoneNotNid DEF alloc_nid_done, IInv, TypeCore, MountFirst, HeldAlloc, HeldStates
<1>2. /\ UNCHANGED <<live, dirty, jnl, todo, mountTodo>>
      /\ freeNid' = [freeNid EXCEPT ![held[t]] = "none"]
      /\ pc' = [pc EXCEPT ![t] = "idle"]
      /\ held' = [held EXCEPT ![t] = NONE]
  BY DEF alloc_nid_done, nodeVars
<1>3. QED
  BY <1>1, <1>2 DEF IInv, TypeCore, MountFirst, StaleUntilJournal, HeldAlloc, HeldStates,
                   PcStates

(* alloc_nid_failed: the NID new_node_page did not allocate goes back to   *)
(* NID_NEW, or is freed.                                                   *)
LEMMA AllocNidFailedIInv ==
    ASSUME IInv, NEW t \in Allocators, alloc_nid_failed(t)
    PROVE  IInv'
<1>1. /\ mountTodo = {}
      /\ held[t] \in Allocatable
      /\ held[t] \notin live
      /\ \A u \in Allocators \ {t} : held[u] # held[t]
  BY NoneNotNid DEF alloc_nid_failed, IInv, TypeCore, MountFirst, HeldAlloc, HeldStates
<1>2. /\ UNCHANGED <<live, dirty, jnl, todo, mountTodo>>
      /\ \E x \in {"new", "none"} : freeNid' = [freeNid EXCEPT ![held[t]] = x]
      /\ pc' = [pc EXCEPT ![t] = "idle"]
      /\ held' = [held EXCEPT ![t] = NONE]
  BY DEF alloc_nid_failed, nodeVars
<1>3. QED
  BY <1>1, <1>2 DEF IInv, TypeCore, MountFirst, StaleUntilJournal, HeldAlloc, HeldStates,
                   PcStates

(* truncate_node only shrinks the set of allocated NIDs.                   *)
LEMMA TruncateNodeIInv ==
    ASSUME IInv, NEW n \in Allocatable, truncate_node(n)
    PROVE  IInv'
  BY DEF truncate_node, IInv, TypeCore, MountFirst, StaleUntilJournal, HeldAlloc,
         HeldStates, poolVars, allocVars

(* The checkpoint flush: it runs with every thread idle, and hands back    *)
(* only NIDs that are unallocated.                                         *)
LEMMA FlushIInv ==
    ASSUME IInv, flush_nat_entries_per_core
    PROVE  IInv'
<1> DEFINE drain == ~has_cursum_space(JournalNids, Cardinality(dirty))
           W == IF drain THEN dirty \cup JournalNids ELSE dirty
           freed == {n \in W \ live : freeNid[n] = "none"}
<1>1. PICK A \in SUBSET freed :
           /\ jnl' \in [Allocatable -> {"absent", "null", "valid"}]
           /\ freeNid' = [n \in Allocatable |-> IF n \in A THEN "new" ELSE freeNid[n]]
  BY DEF flush_nat_entries_per_core, IInv, TypeCore, RawOf
<1>2. /\ mountTodo = {}
      /\ \A t \in Allocators : pc[t] = "idle"
      /\ dirty' = {}
      /\ UNCHANGED <<live, pc, held, todo, mountTodo>>
  BY DEF flush_nat_entries_per_core, allocVars
<1>3. \A n \in A : n \in Allocatable /\ n \notin live
  BY DEF IInv, TypeCore, JournalNids
<1>4. QED
  BY <1>1, <1>2, <1>3 DEF IInv, TypeCore, MountFirst, StaleUntilJournal, HeldAlloc,
                         HeldStates, RawOf
-----------------------------------------------------------------------------
(* IInv is inductive: every action, and a stutter, preserves it.           *)
LEMMA IInvNext ==
    ASSUME IInv, [Next]_vars
    PROVE  IInv'
<1>1. CASE \E n \in Allocatable : MountJournalEntry(n) \/ truncate_node(n)
  BY <1>1, MountJournalEntryIInv, TruncateNodeIInv
<1>2. CASE \E t \in Allocators :
             \/ Call(t) \/ AllocRetry(t) \/ BuildLock(t) \/ BuildEntry(t) \/ BuildEnd(t)
             \/ NewNodePage(t) \/ alloc_nid_done(t) \/ alloc_nid_failed(t)
  BY <1>2, CallIInv, AllocRetryIInv, BuildLockIInv, BuildEntryIInv, BuildEndIInv,
     NewNodePageIInv, AllocNidDoneIInv, AllocNidFailedIInv
<1>3. CASE flush_nat_entries_per_core
  BY <1>3, FlushIInv
<1>4. CASE UNCHANGED vars
  BY <1>4 DEF vars, IInv, TypeCore, MountFirst, StaleUntilJournal, HeldAlloc, HeldStates
<1>5. QED
  BY <1>1, <1>2, <1>3, <1>4 DEF Next

(* The inductive invariant implies FreeNidsFree: once the mount build has  *)
(* read the journal, no NID_NEW entry is allocated.                        *)
LEMMA IInvFreeNidsFree == IInv => FreeNidsFree
  BY NoneNotNid DEF IInv, TypeCore, StaleUntilJournal, HeldAlloc, HeldStates, FreeNidsFree

(* spec.md 3 and 7, for every instance of the constants: alloc_nid never   *)
(* hands out a NID that is allocated or held by another thread, and no     *)
(* NID_NEW entry of the pool is allocated after the mount build, whatever  *)
(* interleaving of alloc_nid, build_free_nids, new_node_page,              *)
(* alloc_nid_done/failed, truncate_node and the checkpoint flush occurs.   *)
THEOREM FreeNidsFreeInvariant == Spec => []FreeNidsFree
<1>1. Init => IInv
  BY InitIInv
<1>2. IInv /\ [Next]_vars => IInv'
  BY IInvNext
<1>3. IInv => FreeNidsFree
  BY IInvFreeNidsFree
<1>4. QED
  BY <1>1, <1>2, <1>3, PTL DEF Spec
=============================================================================
