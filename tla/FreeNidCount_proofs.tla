------------------------- MODULE FreeNidCount_proofs -------------------------
(***************************************************************************)
(* Proofs that the free-NID pool's counters are exact: percore_fcnt[l]     *)
(* counts the NID_NEW entries of list l (FcntExact), and with it the type  *)
(* invariant TypeOK holds, for every instance of the constants, through    *)
(* total_valid_node_count counting the allocated nodes.  The argument     *)
(* builds on the inductive invariant IInv of FreeNid_proofs: alloc_nid    *)
(* takes only NID_NEW entries, and new_node_page allocates only            *)
(* unallocated NIDs.                                                       *)
(***************************************************************************)
EXTENDS FreeNid_proofs, FiniteSetTheorems

(* The NID_NEW entries of list l: what percore_fcnt[l] should count.       *)
NewOf(l) == {n \in Allocatable : LIST_IDX(n) = l /\ freeNid[n] = "new"}

(* total_valid_node_count equals the number of allocated nodes (the root   *)
(* included): new_node_page's inc_valid_node_count and truncate_node's     *)
(* dec_valid_node_count always change the set of allocated NIDs too.  It   *)
(* is part of the inductive invariant because TypeOK's bound on valid      *)
(* rests on it.                                                            *)
ValidNodeCount == valid = Cardinality(live)

CInv == IInv /\ TypeOK /\ FcntExact /\ ValidNodeCount

-----------------------------------------------------------------------------
LEMMA AllocatableFinite == IsFiniteSet(Allocatable) /\ Allocatable \subseteq Nat
  BY FS_Interval, NatScanAssumption DEF Allocatable, MaxNid, F2FS_RESERVED_NODE_NUM

LEMMA NewOfFinite ==
    ASSUME NEW l
    PROVE  IsFiniteSet(NewOf(l)) /\ IsFiniteSet(NewOf(l)')
  BY AllocatableFinite, FS_Subset DEF NewOf

LEMMA ListIdxRange ==
    ASSUME NEW n \in Allocatable
    PROVE  LIST_IDX(n) \in ListIds
  BY AllocatableFinite, FreeNidAssumption DEF LIST_IDX, ListIds

(* The counter bounds: a list index fits in next_allocator, and            *)
(* atomic_inc_return stays within the int.                                 *)
LEMMA CounterRange ==
    /\ IntMin \in Int /\ IntMax \in Nat /\ IntMin < 0
    /\ NidListCnt - 1 <= IntMax
    /\ \A v \in IntMin..IntMax : atomic_inc_return(v) \in IntMin..IntMax
  BY FreeNidAssumption DEF IntMin, IntMax, atomic_inc_return

(* A list index alloc_nid computes is in range unless it is negative.      *)
LEMMA CRemRange ==
    ASSUME NEW v \in Int
    PROVE  /\ CRem(v, NidListCnt) \in Int
           /\ CRem(v, NidListCnt) >= 0 => CRem(v, NidListCnt) \in ListIds
  BY FreeNidAssumption DEF CRem, ListIds

LEMMA LiveFinite == live \subseteq {ROOT_INO} \cup Allocatable => IsFiniteSet(live)
  <1>1. IsFiniteSet({ROOT_INO} \cup Allocatable)
    BY AllocatableFinite, FS_AddElement
  <1>2. QED
    BY <1>1, FS_Subset

-----------------------------------------------------------------------------
(* One entry becomes NID_NEW and its list's counter goes up by one: the    *)
(* else branches of add_free_nid and alloc_nid_failed.                     *)
LEMMA CountAdd ==
    ASSUME FcntExact, fcnt \in [ListIds -> Nat],
           freeNid \in [Allocatable -> {"none", "new", "alloc"}],
           NEW n \in Allocatable, freeNid[n] # "new",
           freeNid' = [freeNid EXCEPT ![n] = "new"],
           fcnt' = [fcnt EXCEPT ![LIST_IDX(n)] = @ + 1]
    PROVE  FcntExact' /\ fcnt' \in [ListIds -> Nat]
<1>1. LIST_IDX(n) \in ListIds
  BY ListIdxRange
<1>2. ASSUME NEW l \in ListIds PROVE fcnt'[l] = Cardinality(NewOf(l)')
  <2>1. CASE l = LIST_IDX(n)
    <3>1. NewOf(l)' = NewOf(l) \cup {n} /\ n \notin NewOf(l)
      BY <2>1 DEF NewOf
    <3>2. Cardinality(NewOf(l)') = Cardinality(NewOf(l)) + 1
      BY <3>1, NewOfFinite, FS_AddElement
    <3>3. QED
      BY <1>1, <2>1, <3>2 DEF FcntExact, NewOf
  <2>2. CASE l # LIST_IDX(n)
    <3>1. NewOf(l)' = NewOf(l)
      BY <2>2 DEF NewOf
    <3>2. QED
      BY <1>1, <2>2, <3>1 DEF FcntExact, NewOf
  <2>3. QED
    BY <2>1, <2>2
<1>3. QED
  BY <1>1, <1>2 DEF FcntExact, NewOf

(* A NID_NEW entry leaves the list and its counter goes down by one:       *)
(* remove_free_nid and alloc_nid.                                          *)
LEMMA CountRemove ==
    ASSUME FcntExact, fcnt \in [ListIds -> Nat],
           freeNid \in [Allocatable -> {"none", "new", "alloc"}],
           NEW n \in Allocatable, freeNid[n] = "new",
           NEW x \in {"none", "alloc"},
           freeNid' = [freeNid EXCEPT ![n] = x],
           fcnt' = [fcnt EXCEPT ![LIST_IDX(n)] = @ - 1]
    PROVE  FcntExact' /\ fcnt' \in [ListIds -> Nat]
<1>1. LIST_IDX(n) \in ListIds
  BY ListIdxRange
<1>2. ASSUME NEW l \in ListIds PROVE fcnt'[l] = Cardinality(NewOf(l)')
  <2>1. CASE l = LIST_IDX(n)
    <3>1. NewOf(l)' = NewOf(l) \ {n} /\ n \in NewOf(l)
      BY <2>1 DEF NewOf
    <3>2. Cardinality(NewOf(l)') = Cardinality(NewOf(l)) - 1
      BY <3>1, NewOfFinite, FS_RemoveElement
    <3>3. QED
      BY <1>1, <2>1, <3>2 DEF FcntExact, NewOf
  <2>2. CASE l # LIST_IDX(n)
    <3>1. NewOf(l)' = NewOf(l)
      BY <2>2 DEF NewOf
    <3>2. QED
      BY <1>1, <2>2, <3>1 DEF FcntExact, NewOf
  <2>3. QED
    BY <2>1, <2>2
<1>3. ASSUME NEW l \in ListIds PROVE fcnt'[l] \in Nat
  BY <1>2, NewOfFinite, FS_CardinalityType
<1>4. QED
  BY <1>1, <1>2, <1>3 DEF FcntExact, NewOf

(* Steps that leave the counters and which entries are NID_NEW alone.      *)
LEMMA CountSame ==
    ASSUME FcntExact, fcnt \in [ListIds -> Nat],
           freeNid' \in [Allocatable -> {"none", "new", "alloc"}],
           \A m \in Allocatable : (freeNid'[m] = "new") = (freeNid[m] = "new"),
           fcnt' = fcnt
    PROVE  FcntExact' /\ fcnt' \in [ListIds -> Nat]
<1>1. \A l \in ListIds : NewOf(l)' = NewOf(l)
  BY DEF NewOf
<1>2. QED
  BY <1>1 DEF FcntExact, NewOf
(* What the counters are: TypeOK without the parts TypeCore has, and the   *)
(* two counting invariants.                                                *)
CountPart ==
    /\ fcnt \in [ListIds -> Nat]
    /\ nextAllocator \in IntMin..IntMax
    /\ buildLock \in Allocators \cup {NONE}
    /\ valid \in Nat
    /\ lst \in [Allocators -> ListIds \cup {NONE}]
    /\ FcntExact
    /\ ValidNodeCount

LEMMA TypeFromParts == TypeCore /\ CountPart => TypeOK
  BY DEF TypeCore, CountPart, TypeOK

(* One journal entry read by a build keeps the counters exact.             *)
LEMMA JournalEntryCount ==
    ASSUME TypeCore, FcntExact, fcnt \in [ListIds -> Nat],
           NEW n \in Allocatable, JournalEntry(n)
    PROVE  FcntExact' /\ fcnt' \in [ListIds -> Nat]
<1>1. CASE jnl[n] = "null" /\ (~available_free_memory \/ Allocated(n) \/ freeNid[n] # "none")
  <2>1. UNCHANGED <<freeNid, fcnt>>
    BY <1>1 DEF JournalEntry, add_free_nid, poolVars
  <2>2. QED
    BY <2>1, CountSame DEF TypeCore
<1>2. CASE jnl[n] = "null" /\ ~(~available_free_memory \/ Allocated(n) \/ freeNid[n] # "none")
  <2>1. /\ freeNid[n] # "new"
        /\ freeNid' = [freeNid EXCEPT ![n] = "new"]
        /\ fcnt' = [fcnt EXCEPT ![LIST_IDX(n)] = @ + 1]
    BY <1>2 DEF JournalEntry, add_free_nid
  <2>2. QED
    BY <2>1, CountAdd DEF TypeCore
<1>3. CASE jnl[n] # "null" /\ freeNid[n] = "new"
  <2>1. /\ freeNid' = [freeNid EXCEPT ![n] = "none"]
        /\ fcnt' = [fcnt EXCEPT ![LIST_IDX(n)] = @ - 1]
    BY <1>3 DEF JournalEntry, remove_free_nid
  <2>2. QED
    BY <1>3, <2>1, CountRemove DEF TypeCore
<1>4. CASE jnl[n] # "null" /\ freeNid[n] # "new"
  <2>1. UNCHANGED <<freeNid, fcnt>>
    BY <1>4 DEF JournalEntry, remove_free_nid, poolVars
  <2>2. QED
    BY <2>1, CountSame DEF TypeCore
<1>5. QED
  BY <1>1, <1>2, <1>3, <1>4

LEMMA MountJournalEntryCount ==
    ASSUME CInv, NEW n \in Allocatable, MountJournalEntry(n)
    PROVE  CountPart'
<1>1. FcntExact' /\ fcnt' \in [ListIds -> Nat]
  BY JournalEntryCount DEF CInv, IInv, TypeOK, MountJournalEntry
<1>2. QED
  BY <1>1 DEF CInv, TypeOK, CountPart, ValidNodeCount, MountJournalEntry, nodeVars, allocVars

LEMMA BuildEntryCount ==
    ASSUME CInv, NEW t \in Allocators, BuildEntry(t)
    PROVE  CountPart'
<1>1. PICK n \in todo[t] : JournalEntry(n)
  BY DEF BuildEntry
<1>2. n \in Allocatable
  BY DEF CInv, IInv, TypeCore
<1>3. FcntExact' /\ fcnt' \in [ListIds -> Nat]
  BY <1>1, <1>2, JournalEntryCount DEF CInv, IInv, TypeOK
<1>4. QED
  BY <1>3 DEF CInv, TypeOK, CountPart, ValidNodeCount, BuildEntry, nodeVars

(* Call, BuildLock and BuildEnd leave the pool and the node counts alone.  *)
LEMMA CallCount ==
    ASSUME CInv, NEW t \in Allocators, Call(t)
    PROVE  CountPart'
  BY DEF CInv, TypeOK, CountPart, FcntExact, NewOf, ValidNodeCount, Call, poolVars, nodeVars

LEMMA BuildLockCount ==
    ASSUME CInv, NEW t \in Allocators, BuildLock(t)
    PROVE  CountPart'
  BY DEF CInv, TypeOK, CountPart, FcntExact, NewOf, ValidNodeCount, BuildLock, poolVars, nodeVars

LEMMA BuildEndCount ==
    ASSUME CInv, NEW t \in Allocators, BuildEnd(t)
    PROVE  CountPart'
  BY DEF CInv, TypeOK, CountPart, FcntExact, NewOf, ValidNodeCount, BuildEnd, poolVars, nodeVars
(* alloc_nid: a NID it takes is NID_NEW on list list_id, whose counter it  *)
(* decrements; next_allocator stays an int and list_id a list index or     *)
(* NONE.                                                                   *)
LEMMA AllocRetryCount ==
    ASSUME CInv, NEW t \in Allocators, AllocRetry(t)
    PROVE  CountPart'
<1> DEFINE v == atomic_inc_return(nextAllocator)
           id == CRem(v, NidListCnt)
           news == {n \in Allocatable : LIST_IDX(n) = id /\ freeNid[n] = "new"}
<1>1. /\ FcntExact /\ fcnt \in [ListIds -> Nat]
      /\ freeNid \in [Allocatable -> {"none", "new", "alloc"}]
      /\ nextAllocator \in IntMin..IntMax
      /\ lst \in [Allocators -> ListIds \cup {NONE}]
      /\ ValidNodeCount /\ valid \in Nat /\ buildLock \in Allocators \cup {NONE}
  BY DEF CInv, TypeOK
<1>2. /\ v \in IntMin..IntMax
      /\ v \in Int
      /\ ~(id < 0) => id \in ListIds
  BY <1>1, CounterRange, CRemRange
<1>3. UNCHANGED <<buildLock, live, valid>>
  BY DEF AllocRetry, nodeVars
<1>4. CASE valid + 1 > available_nids
  <2>1. UNCHANGED <<freeNid, fcnt, nextAllocator, lst>>
    BY <1>4 DEF AllocRetry, poolVars
  <2>2. FcntExact' /\ fcnt' \in [ListIds -> Nat]
    BY <1>1, <2>1, CountSame
  <2>3. QED
    BY <1>1, <1>3, <2>1, <2>2 DEF CountPart, ValidNodeCount
<1>5. CASE ~(valid + 1 > available_nids) /\ id < 0
  <2>1. /\ UNCHANGED <<freeNid, fcnt>>
        /\ nextAllocator' = v
        /\ lst' = [lst EXCEPT ![t] = NONE]
    BY <1>5 DEF AllocRetry, poolVars
  <2>2. FcntExact' /\ fcnt' \in [ListIds -> Nat]
    BY <1>1, <2>1, CountSame
  <2>3. QED
    BY <1>1, <1>2, <1>3, <2>1, <2>2 DEF CountPart, ValidNodeCount
<1>6. CASE ~(valid + 1 > available_nids) /\ ~(id < 0) /\ ~(fcnt[id] > 0 /\ buildLock = NONE)
  <2>1. /\ UNCHANGED <<freeNid, fcnt>>
        /\ nextAllocator' = v
        /\ lst' = [lst EXCEPT ![t] = id]
    BY <1>6 DEF AllocRetry, poolVars
  <2>2. FcntExact' /\ fcnt' \in [ListIds -> Nat]
    BY <1>1, <2>1, CountSame
  <2>3. QED
    BY <1>1, <1>2, <1>3, <1>6, <2>1, <2>2 DEF CountPart, ValidNodeCount
<1>7. CASE ~(valid + 1 > available_nids) /\ ~(id < 0) /\ fcnt[id] > 0 /\ buildLock = NONE
           /\ news = {}
  <2>1. /\ UNCHANGED <<freeNid, fcnt, lst>>
        /\ nextAllocator' = v
    BY <1>7 DEF AllocRetry, poolVars
  <2>2. FcntExact' /\ fcnt' \in [ListIds -> Nat]
    BY <1>1, <2>1, CountSame
  <2>3. QED
    BY <1>1, <1>2, <1>3, <2>1, <2>2 DEF CountPart, ValidNodeCount
<1>8. CASE ~(valid + 1 > available_nids) /\ ~(id < 0) /\ fcnt[id] > 0 /\ buildLock = NONE
           /\ news # {}
  <2>1. PICK n \in news :
           /\ freeNid' = [freeNid EXCEPT ![n] = "alloc"]
           /\ fcnt' = [fcnt EXCEPT ![id] = @ - 1]
           /\ UNCHANGED lst
           /\ nextAllocator' = v
    BY <1>8 DEF AllocRetry
  <2>2. n \in Allocatable /\ freeNid[n] = "new" /\ LIST_IDX(n) = id
    OBVIOUS
  <2>3. FcntExact' /\ fcnt' \in [ListIds -> Nat]
    BY <1>1, <2>1, <2>2, CountRemove
  <2>4. QED
    BY <1>1, <1>2, <1>3, <2>1, <2>3 DEF CountPart, ValidNodeCount
<1>9. QED
  BY <1>4, <1>5, <1>6, <1>7, <1>8

(* new_node_page allocates a NID that was not allocated, so               *)
(* inc_valid_node_count keeps total_valid_node_count equal to their number.*)
LEMMA NewNodePageCount ==
    ASSUME CInv, NEW t \in Allocators, NewNodePage(t)
    PROVE  CountPart'
<1>1. held[t] \in Allocatable /\ held[t] \notin live
  BY NoneNotNid DEF NewNodePage, CInv, IInv, TypeCore, HeldAlloc, HeldStates
<1>2. IsFiniteSet(live)
  BY LiveFinite DEF CInv, IInv, TypeCore
<1>3. UNCHANGED <<freeNid, fcnt, nextAllocator, buildLock, lst>>
  BY DEF NewNodePage, poolVars
<1>4. CASE live' = live /\ valid' = valid
  BY <1>3, <1>4 DEF CInv, TypeOK, CountPart, FcntExact, NewOf, ValidNodeCount
<1>5. CASE live' = live \cup {held[t]} /\ valid' = valid + 1
  <2>1. Cardinality(live') = Cardinality(live) + 1
    BY <1>1, <1>2, <1>5, FS_AddElement
  <2>2. QED
    BY <1>3, <1>5, <2>1 DEF CInv, TypeOK, CountPart, FcntExact, NewOf, ValidNodeCount
<1>6. QED
  BY <1>4, <1>5 DEF NewNodePage, nodeVars

(* alloc_nid_done: the NID_ALLOC entry leaves the pool, no count changes.  *)
LEMMA AllocNidDoneCount ==
    ASSUME CInv, NEW t \in Allocators, alloc_nid_done(t)
    PROVE  CountPart'
<1>1. held[t] \in Allocatable /\ freeNid[held[t]] = "alloc"
  BY NoneNotNid DEF alloc_nid_done, CInv, IInv, TypeCore, HeldAlloc, HeldStates
<1>2. /\ freeNid' = [freeNid EXCEPT ![held[t]] = "none"]
      /\ UNCHANGED <<fcnt, nextAllocator, buildLock, live, valid, lst>>
  BY DEF alloc_nid_done, nodeVars
<1>3. FcntExact' /\ fcnt' \in [ListIds -> Nat]
  BY <1>1, <1>2, CountSame DEF CInv, TypeOK
<1>4. QED
  BY <1>2, <1>3 DEF CInv, TypeOK, CountPart, ValidNodeCount

(* alloc_nid_failed: the NID_ALLOC entry becomes NID_NEW again with its    *)
(* list's counter incremented, or is freed.                                *)
LEMMA AllocNidFailedCount ==
    ASSUME CInv, NEW t \in Allocators, alloc_nid_failed(t)
    PROVE  CountPart'
<1>1. held[t] \in Allocatable /\ freeNid[held[t]] = "alloc"
  BY NoneNotNid DEF alloc_nid_failed, CInv, IInv, TypeCore, HeldAlloc, HeldStates
<1>2. UNCHANGED <<nextAllocator, buildLock, live, valid, lst>>
  BY DEF alloc_nid_failed, nodeVars
<1>3. CASE available_free_memory
  <2>1. /\ freeNid' = [freeNid EXCEPT ![held[t]] = "new"]
        /\ fcnt' = [fcnt EXCEPT ![LIST_IDX(held[t])] = @ + 1]
    BY <1>3 DEF alloc_nid_failed
  <2>2. FcntExact' /\ fcnt' \in [ListIds -> Nat]
    BY <1>1, <2>1, CountAdd DEF CInv, TypeOK
  <2>3. QED
    BY <1>2, <2>2 DEF CInv, TypeOK, CountPart, ValidNodeCount
<1>4. CASE ~available_free_memory
  <2>1. /\ freeNid' = [freeNid EXCEPT ![held[t]] = "none"]
        /\ fcnt' = fcnt
    BY <1>4 DEF alloc_nid_failed
  <2>2. FcntExact' /\ fcnt' \in [ListIds -> Nat]
    BY <1>1, <2>1, CountSame DEF CInv, TypeOK
  <2>3. QED
    BY <1>2, <2>2 DEF CInv, TypeOK, CountPart, ValidNodeCount
<1>5. QED
  BY <1>3, <1>4

(* truncate_node: dec_valid_node_count for a NID that is allocated.        *)
LEMMA TruncateNodeCount ==
    ASSUME CInv, NEW n \in Allocatable, truncate_node(n)
    PROVE  CountPart'
<1>1. n \in live /\ IsFiniteSet(live)
  BY LiveFinite DEF truncate_node, CInv, IInv, TypeCore
<1>2. Cardinality(live') = Cardinality(live) - 1 /\ Cardinality(live') \in Nat
  BY <1>1, FS_RemoveElement, FS_CardinalityType DEF truncate_node
<1>3. QED
  BY <1>2 DEF truncate_node, CInv, TypeOK, CountPart, FcntExact, NewOf, ValidNodeCount,
              poolVars, allocVars
(* The checkpoint flush: the NIDs A it hands to add_free_nid were not in   *)
(* the pool, so list l gains exactly the members of A on it, which is what *)
(* the counters gain.                                                      *)
LEMMA FlushCount ==
    ASSUME CInv, flush_nat_entries_per_core
    PROVE  CountPart'
<1> DEFINE drain == ~has_cursum_space(JournalNids, Cardinality(dirty))
           W == IF drain THEN dirty \cup JournalNids ELSE dirty
           freed == {n \in W \ live : freeNid[n] = "none"}
           On(A, l) == {n \in A : LIST_IDX(n) = l}
<1>1. PICK A \in SUBSET freed :
           /\ freeNid' = [n \in Allocatable |-> IF n \in A THEN "new" ELSE freeNid[n]]
           /\ fcnt' = [l \in ListIds |-> fcnt[l] + Cardinality(On(A, l))]
  BY DEF flush_nat_entries_per_core
<1>2. A \subseteq Allocatable /\ \A n \in A : freeNid[n] = "none"
  BY DEF CInv, IInv, TypeCore, JournalNids
<1>3. UNCHANGED <<nextAllocator, buildLock, live, valid, lst>>
  BY DEF flush_nat_entries_per_core, allocVars
<1>4. ASSUME NEW l \in ListIds
      PROVE  /\ Cardinality(On(A, l)) \in Nat
             /\ Cardinality(NewOf(l)') = Cardinality(NewOf(l)) + Cardinality(On(A, l))
  <2>1. IsFiniteSet(On(A, l)) /\ IsFiniteSet(NewOf(l))
    BY <1>2, AllocatableFinite, FS_Subset, NewOfFinite
  <2>2. NewOf(l)' = NewOf(l) \cup On(A, l) /\ NewOf(l) \cap On(A, l) = {}
    BY <1>1, <1>2 DEF NewOf
  <2>3. Cardinality(NewOf(l) \cup On(A, l))
          = Cardinality(NewOf(l)) + Cardinality(On(A, l)) - Cardinality(NewOf(l) \cap On(A, l))
    BY <2>1, FS_Union
  <2>4. Cardinality(NewOf(l) \cap On(A, l)) = 0
    BY <2>2, FS_EmptySet
  <2>5. Cardinality(NewOf(l)) \in Nat /\ Cardinality(On(A, l)) \in Nat
    BY <2>1, FS_CardinalityType
  <2>6. QED
    BY <2>2, <2>3, <2>4, <2>5
<1>5. ASSUME NEW l \in ListIds
      PROVE  fcnt'[l] = Cardinality(NewOf(l)') /\ fcnt'[l] \in Nat
  <2>1. fcnt[l] = Cardinality(NewOf(l)) /\ fcnt[l] \in Nat
    BY DEF CInv, FcntExact, NewOf, TypeOK
  <2>2. QED
    BY <1>1, <1>4, <2>1
<1>6. FcntExact' /\ fcnt' \in [ListIds -> Nat]
  BY <1>1, <1>5 DEF FcntExact, NewOf
<1>7. QED
  BY <1>3, <1>6 DEF CInv, TypeOK, CountPart, ValidNodeCount
-----------------------------------------------------------------------------
(* At mount, the counters are PoolCount of the pool the scan built, and    *)
(* total_valid_node_count is the number of NIDs with an address.           *)
LEMMA InitCount == Init => CountPart
<1> SUFFICES ASSUME Init PROVE CountPart
  OBVIOUS
<1>1. \E P \in SUBSET Allocatable :
         /\ freeNid = [n \in Allocatable |-> IF n \in P THEN "new" ELSE "none"]
         /\ fcnt = PoolCount(P)
  BY MountPoolSub DEF Init
<1>2. PICK P \in SUBSET Allocatable :
         /\ freeNid = [n \in Allocatable |-> IF n \in P THEN "new" ELSE "none"]
         /\ fcnt = PoolCount(P)
  BY <1>1
<1>3. /\ live \subseteq {ROOT_INO} \cup Allocatable
      /\ valid = Cardinality(live)
      /\ nextAllocator = (NextScanNid - 1) % NidListCnt
      /\ buildLock = NONE
      /\ lst = [t \in Allocators |-> NONE]
  BY DEF Init
<1>4. ASSUME NEW l \in ListIds
      PROVE  fcnt[l] = Cardinality(NewOf(l)) /\ fcnt[l] \in Nat
  <2>1. NewOf(l) = {n \in P : LIST_IDX(n) = l}
    BY <1>2 DEF NewOf
  <2>2. IsFiniteSet(NewOf(l))
    BY NewOfFinite
  <2>3. QED
    BY <1>2, <2>1, <2>2, FS_CardinalityType DEF PoolCount
<1>5. valid \in Nat
  BY <1>3, LiveFinite, FS_CardinalityType
<1>6. nextAllocator \in IntMin..IntMax
  BY <1>3, CounterRange, FreeNidAssumption, NatScanAssumption DEF MaxNid
<1>7. QED
  BY <1>2, <1>3, <1>4, <1>5, <1>6 DEF CountPart, FcntExact, NewOf, ValidNodeCount, PoolCount

LEMMA InitCInv == Init => CInv
  BY InitIInv, InitCount, TypeFromParts DEF CInv, IInv, CountPart

(* Every step keeps the counters exact and the state well typed.           *)
LEMMA CInvNext ==
    ASSUME CInv, [Next]_vars
    PROVE  CInv'
<1>1. IInv'
  BY IInvNext DEF CInv
<1>2. CountPart'
  <2>1. CASE \E n \in Allocatable : MountJournalEntry(n) \/ truncate_node(n)
    BY <2>1, MountJournalEntryCount, TruncateNodeCount
  <2>2. CASE \E t \in Allocators :
               \/ Call(t) \/ AllocRetry(t) \/ BuildLock(t) \/ BuildEntry(t) \/ BuildEnd(t)
               \/ NewNodePage(t) \/ alloc_nid_done(t) \/ alloc_nid_failed(t)
    BY <2>2, CallCount, AllocRetryCount, BuildLockCount, BuildEntryCount, BuildEndCount,
       NewNodePageCount, AllocNidDoneCount, AllocNidFailedCount
  <2>3. CASE flush_nat_entries_per_core
    BY <2>3, FlushCount
  <2>4. CASE UNCHANGED vars
    BY <2>4 DEF vars, CInv, TypeOK, CountPart, FcntExact, ValidNodeCount
  <2>5. QED
    BY <2>1, <2>2, <2>3, <2>4 DEF Next
<1>3. QED
  BY <1>1, <1>2 DEF CInv, IInv, TypeCore, CountPart, TypeOK

(* The type invariant of FreeNid holds in every reachable state: in        *)
(* particular percore_fcnt never goes negative, next_allocator stays       *)
(* within its int width, and list_id is a list index or unset.             *)
THEOREM FreeNidTypeOK == Spec => []TypeOK
<1>1. CInv => TypeOK
  BY DEF CInv
<1>2. QED
  BY InitCInv, CInvNext, <1>1, PTL DEF Spec

(* percore_fcnt[l] counts exactly the NID_NEW entries of list l in every   *)
(* reachable state, across the mount build, build_free_nids, alloc_nid,    *)
(* alloc_nid_failed and the checkpoint's add_free_nid.                     *)
THEOREM FcntExactInvariant == Spec => []FcntExact
<1>1. CInv => FcntExact
  BY DEF CInv
<1>2. QED
  BY InitCInv, CInvNext, <1>1, PTL DEF Spec

=============================================================================
