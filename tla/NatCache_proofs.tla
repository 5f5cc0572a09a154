--------------------------- MODULE NatCache_proofs ---------------------------
(***************************************************************************)
(* Proofs about the checkpoint flush of NatCache: the NAT block copies     *)
(* that the last committed checkpoint made current stay untouched while    *)
(* the next checkpoint runs (RollbackIntact), whenever the flush writes    *)
(* each NAT block at most once: with flush_nat_entries_per_core, or with   *)
(* one file cell.  The classic flush with several cells is the violated    *)
(* run nat_classic_rollback.                                               *)
(***************************************************************************)
EXTENDS NatCache, SequenceTheorems, FiniteSetTheorems, TLAPS

(* The flush writes every NAT block at most once per checkpoint: the      *)
(* per-core packs merge the sets of one block, and one cell has one set    *)
(* per block.                                                              *)
OneSetPerBlock == PerCoreFlush \/ NatTreeCnt = 1

Phases == {"none", "flush", "gather", "sets", "commit"}
NmFields == {"cache", "nat_cnt", "dirty_cnt", "set_root", "set_cnt", "free"}

(* The part of struct f2fs_nm_info the flush list is built from. *)
NmOK(m) == DOMAIN m = NmFields /\ m.set_cnt \in [Shards -> [Blocks -> Int]]

SetRefI == [set : Blocks, shards : SUBSET Shards, cnt : Int]

(* No two sets of the flush list belong to the same NAT block. *)
DistinctSets(l) == \A i, j \in 1..Len(l) : l[i].set = l[j].set => i = j

(* The copy that the last commit made current holds the rollback image,    *)
(* in every phase.                                                         *)
RbImageHeld == \A n \in AllNids : nat[rbCopy[NAT_BLOCK_OFFSET(n)]][n] = rbImage[n]

RInv ==
    /\ cp \in Phases
    /\ bitmap \in [Blocks -> {0, 1}]
    /\ rbCopy \in [Blocks -> {0, 1}]
    /\ DOMAIN nat = {0, 1}
    /\ NmOK(nm)
    /\ cpList \in Seq(SetRefI)
    /\ RbImageHeld
    /\ cp \in {"none", "flush", "gather"} => bitmap = rbCopy
    /\ cp = "sets" => \A i \in 1..Len(cpList) :
                         bitmap[cpList[i].set] = rbCopy[cpList[i].set]
    /\ cp = "gather" => \A i \in 1..Len(cpList) :
                           \E s \in Shards : <<s, cpList[i].set>> \in cpGathered
    /\ OneSetPerBlock => DistinctSets(cpList)

-----------------------------------------------------------------------------
(* Lemmas about the index helpers of node.h.                               *)

(* A NID lies in one of the NAT blocks: NAT_BLOCK_OFFSET < nat_blocks.     *)
LEMMA BlockOfNid ==
    ASSUME NEW n \in AllNids
    PROVE  NAT_BLOCK_OFFSET(n) \in Blocks
<1>1. NatEntryPerBlock \in Nat \ {0} /\ NatBlocks \in Nat \ {0}
    BY NatCacheAssumption
<1>2. n \in 0..(NatEntryPerBlock * NatBlocks - 1)
    BY DEF AllNids, MaxNid
<1>3. n \div NatEntryPerBlock \in Nat
    BY <1>1, <1>2
<1>4. (n \div NatEntryPerBlock) * NatEntryPerBlock <= n
    BY <1>1, <1>2
<1>5. n \div NatEntryPerBlock < NatBlocks
    <2>1. SUFFICES ASSUME n \div NatEntryPerBlock >= NatBlocks PROVE FALSE
        BY <1>3, <1>1
    <2>2. (n \div NatEntryPerBlock) * NatEntryPerBlock >= NatBlocks * NatEntryPerBlock
        BY <2>1, <1>1, <1>3
    <2>. QED  BY <1>4, <2>2, <1>2, <1>1
<1>. QED  BY <1>1, <1>3, <1>5 DEF NAT_BLOCK_OFFSET, Blocks

(* A NID's cache shard is a shard: TREE_IDX < nat_tree_cnt. *)
LEMMA TreeOfNid ==
    ASSUME NEW n \in Nat
    PROVE  TREE_IDX(n) \in Shards
BY NatCacheAssumption DEF TREE_IDX, Shards

(* Every set of NIDs has a cardinality. *)
LEMMA CardNids ==
    ASSUME NEW X \in SUBSET Nids
    PROVE  Cardinality(X) \in Nat
<1>1. IsFiniteSet(Nids)
    BY NatCacheAssumption, FS_Interval DEF Nids, MaxNid
<1>. QED  BY <1>1, FS_Subset, FS_CardinalityType

-----------------------------------------------------------------------------
(* The helpers of node.c keep the node manager a struct f2fs_nm_info with  *)
(* integer entry counts per set.                                           *)

LEMMA NidIsNid ==
    ASSUME NEW n \in Nids
    PROVE  /\ n \in AllNids /\ n \in Nat
           /\ NAT_BLOCK_OFFSET(n) \in Blocks /\ TREE_IDX(n) \in Shards
<1>1. n \in AllNids /\ n \in Nat
    BY NatCacheAssumption DEF Nids, AllNids, MaxNid
<1>. QED  BY <1>1, BlockOfNid, TreeOfNid

LEMMA GrabOK ==
    ASSUME NEW m, NmOK(m), NEW n, NEW r
    PROVE  /\ NmOK(grab_nat_entry(m, n, r))
           /\ NmOK(cache_nat_entry(m, n, r))
<1>1. NmOK(grab_nat_entry(m, n, r))
    BY DEF NmOK, NmFields, grab_nat_entry
<1>. QED  BY <1>1 DEF cache_nat_entry

LEMMA SetDirtyOK ==
    ASSUME NEW m, NmOK(m), NEW n \in Nids
    PROVE  NmOK(SetNatCacheDirty(m, n))
<1>1. NAT_BLOCK_OFFSET(n) \in Blocks /\ TREE_IDX(n) \in Shards
    BY NidIsNid
<1>. QED  BY <1>1 DEF NmOK, NmFields, SetNatCacheDirty

LEMMA SetNodeAddrOK ==
    ASSUME NEW m, NmOK(m), NEW n \in Nids, NEW ni, NEW new
    PROVE  NmOK(set_node_addr(m, ni, n, new))
<1>1. NmOK(SnaEntry(m, ni, n, new))
    BY GrabOK DEF SnaEntry, NmOK, NmFields
<1>. DEFINE m1 == SnaEntry(m, ni, n, new)
            e == m1.cache[n]
            ver == IF e.blk # NEW_ADDR /\ new = NULL_ADDR
                     THEN inc_node_version(e.ver) ELSE e.ver
            ckpt == IF new \in {NEW_ADDR, NULL_ADDR} THEN FALSE ELSE e.ckpt
<1>2. NmOK([m1 EXCEPT !.cache[n].ver = ver, !.cache[n].blk = new, !.cache[n].ckpt = ckpt])
    BY <1>1 DEF NmOK, NmFields
<1>. QED  BY <1>2, SetDirtyOK DEF set_node_addr

LEMMA GniNmOK ==
    ASSUME NmOK(nm), NEW n \in Nids
    PROVE  NmOK(GniNm(n))
BY GrabOK DEF GniNm

LEMMA FreeOK ==
    ASSUME NEW m, NmOK(m), NEW n, NEW R, NEW A
    PROVE  /\ NmOK(alloc_nid_done(m, n))
           /\ NmOK(remove_free_nid(m, R))
           /\ NmOK([m EXCEPT !.free = @ \cup A])
BY DEF NmOK, NmFields, alloc_nid_done, remove_free_nid

LEMMA RootFreeOK ==
    ASSUME NEW m, NmOK(m), NEW A, NEW B
    PROVE  NmOK([m EXCEPT !.set_root = A, !.free = B])
BY DEF NmOK, NmFields

LEMMA DelOK ==
    ASSUME NEW m, NmOK(m), NEW V, NEW s
    PROVE  NmOK(del_from_nat_cache(m, V, s))
BY DEF NmOK, NmFields, del_from_nat_cache

LEMMA ClearOK ==
    ASSUME NEW m, NmOK(m), NEW W \in SUBSET Nids, NEW k \in Blocks
    PROVE  NmOK(clear_nat_cache_dirty(m, W, k))
<1>. DEFINE WIn(s) == Cardinality({n \in W : TREE_IDX(n) = s})
            sc == [s \in Shards |-> [m.set_cnt[s] EXCEPT ![k] = @ - WIn(s)]]
<1>1. \A s \in Shards : WIn(s) \in Nat
    BY CardNids
<1>2. sc \in [Shards -> [Blocks -> Int]]
    BY <1>1 DEF NmOK
<1>3. clear_nat_cache_dirty(m, W, k) =
        [m EXCEPT
           !.cache = [n \in Nids |-> IF n \in W
                                       THEN [@[n] EXCEPT !.ckpt = TRUE, !.dirty = FALSE]
                                       ELSE @[n]],
           !.set_cnt = sc,
           !.dirty_cnt = [s \in Shards |-> @[s] - WIn(s)]]
    BY DEF clear_nat_cache_dirty
<1>. HIDE DEF sc, WIn
<1>4. DOMAIN clear_nat_cache_dirty(m, W, k) = NmFields
    BY <1>3 DEF NmOK
<1>5. clear_nat_cache_dirty(m, W, k).set_cnt = sc
    BY <1>3 DEF NmOK, NmFields
<1>. QED  BY <1>2, <1>4, <1>5 DEF NmOK

LEMMA DrainedOK ==
    ASSUME NmOK(nm)
    PROVE  NmOK(Drained(nm))
<1>. DEFINE jn == JournalNids \cap Nids
            nd == {n \in jn : nm.cache[n] = NONE \/ ~nm.cache[n].dirty}
            ND(s, k) == Cardinality({n \in nd : TREE_IDX(n) = s /\ NAT_BLOCK_OFFSET(n) = k})
<1>1. \A s \in Shards, k \in Blocks : ND(s, k) \in Nat
    BY CardNids
<1>2. DOMAIN Drained(nm) = NmFields
    BY DEF NmOK, NmFields, Drained
<1>3. Drained(nm).set_cnt =
        [s \in Shards |-> [k \in Blocks |->
           IF k \in nm.set_root[s] THEN nm.set_cnt[s][k] + ND(s, k)
           ELSE IF ND(s, k) > 0 THEN ND(s, k) ELSE nm.set_cnt[s][k]]]
    BY DEF NmOK, NmFields, Drained
<1>. QED  BY <1>1, <1>2, <1>3 DEF NmOK

-----------------------------------------------------------------------------
(* Lemmas about the list operations of __adjust_nat_entry_set[_per_core].  *)

(* list_add_tail before the j-th set: the sets before j keep their place,  *)
(* x comes next, and the others move one place on.                         *)
LEMMA InsertAtProps ==
    ASSUME NEW S, NEW l \in Seq(S), NEW j \in 1..(Len(l) + 1), NEW x \in S
    PROVE  /\ InsertAt(l, j, x) \in Seq(S)
           /\ Len(InsertAt(l, j, x)) = Len(l) + 1
           /\ \A i \in 1..(Len(l) + 1) :
                 InsertAt(l, j, x)[i] = IF i < j THEN l[i]
                                        ELSE IF i = j THEN x ELSE l[i - 1]
<1>. DEFINE a == SubSeq(l, 1, j - 1)
            b == SubSeq(l, j, Len(l))
            xs == <<x>>
            ax == a \o xs
<1>1. /\ a \in Seq(S)
      /\ Len(a) = j - 1
      /\ \A i \in 1..(j - 1) : a[i] = l[i]
    BY SubSeqProperties, LenProperties
<1>2. /\ b \in Seq(S)
      /\ Len(b) = Len(l) - j + 1
      /\ \A i \in 1..(Len(l) - j + 1) : b[i] = l[j + i - 1]
    BY SubSeqProperties, LenProperties
<1>3. xs \in Seq(S) /\ Len(xs) = 1 /\ xs[1] = x
    OBVIOUS
<1>4. InsertAt(l, j, x) = ax \o b
    BY DEF InsertAt
<1>5. Len(l) \in Nat
    BY LenProperties
<1>. HIDE DEF a, b, xs, ax
<1>6. /\ ax \in Seq(S)
      /\ Len(ax) = Len(a) + Len(xs)
      /\ \A i \in 1..(Len(a) + Len(xs)) :
            ax[i] = IF i <= Len(a) THEN a[i] ELSE xs[i - Len(a)]
    BY <1>1, <1>3, ConcatProperties DEF ax
<1>7. /\ ax \o b \in Seq(S)
      /\ Len(ax \o b) = Len(ax) + Len(b)
      /\ \A i \in 1..(Len(ax) + Len(b)) :
            (ax \o b)[i] = IF i <= Len(ax) THEN ax[i] ELSE b[i - Len(ax)]
    <2>1. ax \in Seq(S) /\ b \in Seq(S)
        BY <1>2, <1>6
    <2>. QED  BY <2>1, ConcatProperties, Zenon
<1>. QED  BY <1>1, <1>2, <1>3, <1>4, <1>5, <1>6, <1>7

(* list_del of the i-th set: the sets after it move one place back. *)
LEMMA RemoveAtProps ==
    ASSUME NEW S, NEW l \in Seq(S), NEW i \in 1..Len(l)
    PROVE  /\ RemoveAt(l, i) \in Seq(S)
           /\ Len(RemoveAt(l, i)) = Len(l) - 1
           /\ \A t \in 1..(Len(l) - 1) :
                 RemoveAt(l, i)[t] = IF t < i THEN l[t] ELSE l[t + 1]
<1>. DEFINE a == SubSeq(l, 1, i - 1)
            b == SubSeq(l, i + 1, Len(l))
<1>1. /\ a \in Seq(S)
      /\ Len(a) = i - 1
      /\ \A t \in 1..(i - 1) : a[t] = l[t]
    BY SubSeqProperties, LenProperties
<1>2. /\ b \in Seq(S)
      /\ Len(b) = Len(l) - i
      /\ \A t \in 1..(Len(l) - i) : b[t] = l[i + t]
    BY SubSeqProperties, LenProperties
<1>3. RemoveAt(l, i) = a \o b
    BY DEF RemoveAt
<1>4. Len(l) \in Nat
    BY LenProperties
<1>. HIDE DEF a, b
<1>5. /\ a \o b \in Seq(S)
      /\ Len(a \o b) = Len(a) + Len(b)
      /\ \A t \in 1..(Len(a) + Len(b)) :
            (a \o b)[t] = IF t <= Len(a) THEN a[t] ELSE b[t - Len(a)]
    BY <1>1, <1>2, ConcatProperties
<1>. QED  BY <1>1, <1>2, <1>3, <1>4, <1>5

-----------------------------------------------------------------------------
(* RInv holds initially and is kept by the steps that leave the flush      *)
(* state alone.                                                            *)

LEMMA InitRInv ==
    ASSUME Init
    PROVE  RInv
<1>1. NmOK(nm)
    BY DEF Init, NmOK, NmFields
<1>2. RbImageHeld
    BY BlockOfNid DEF Init, RbImageHeld
<1>3. cpList \in Seq(SetRefI) /\ DistinctSets(cpList)
    BY DEF Init, DistinctSets
<1>. QED  BY <1>1, <1>2, <1>3 DEF Init, RInv, Phases

(* A step that changes only the node manager (and the page cache, the      *)
(* journal, the free pool or the readers) keeps RInv.                      *)
LEMMA NmStepRInv ==
    ASSUME RInv, NmOK(nm'),
           UNCHANGED <<cp, bitmap, rbCopy, nat, cpList, rbImage, cpGathered>>
    PROVE  RInv'
BY DEF RInv, RbImageHeld, DistinctSets

LEMMA NodeOpsRInv ==
    ASSUME RInv, NEW n \in Nids,
           NewNode(n, n) \/ WriteNode(n) \/ TruncateNode(n) \/ DirtyNode(n)
    PROVE  RInv'
<1>1. NmOK(nm) /\ NmOK(GniNm(n))
    BY GniNmOK DEF RInv
<1>2. CASE NewNode(n, n)
    <2>. DEFINE ni == [NodeInfo(n) EXCEPT !.ino = n]
    <2>1. nm' = alloc_nid_done(set_node_addr(GniNm(n), ni, n, NEW_ADDR), n)
        BY <1>2 DEF NewNode
    <2>2. NmOK(set_node_addr(GniNm(n), ni, n, NEW_ADDR))
        BY <1>1, SetNodeAddrOK
    <2>. QED  BY <1>2, <2>1, <2>2, FreeOK, NmStepRInv DEF NewNode, disk
<1>3. CASE WriteNode(n)
    <2>1. nm' = GniNm(n) \/ nm' = set_node_addr(GniNm(n), NodeInfo(n), n, nextAddr)
        BY <1>3 DEF WriteNode
    <2>. QED  BY <1>1, <1>3, <2>1, SetNodeAddrOK, NmStepRInv DEF WriteNode, disk
<1>4. CASE TruncateNode(n)
    <2>1. nm' = set_node_addr(GniNm(n), NodeInfo(n), n, NULL_ADDR)
        BY <1>4 DEF TruncateNode
    <2>. QED  BY <1>1, <1>4, <2>1, SetNodeAddrOK, NmStepRInv DEF TruncateNode, disk
<1>5. CASE DirtyNode(n)
    BY <1>1, <1>5, NmStepRInv DEF DirtyNode, disk
<1>. QED  BY <1>2, <1>3, <1>4, <1>5

LEMMA PoolOpsRInv ==
    ASSUME RInv, (\E s \in Shards : TryToFreeNats(s)) \/ BuildFreeNids
    PROVE  RInv'
<1>1. NmOK(nm)
    BY DEF RInv
<1>2. CASE \E s \in Shards : TryToFreeNats(s)
    BY <1>1, <1>2, DelOK, NmStepRInv DEF TryToFreeNats, disk
<1>3. CASE BuildFreeNids
    <2>1. PICK added : nm' = remove_free_nid([nm EXCEPT !.free = @ \cup added],
                                 {n \in JournalNids \cap Nids : jnl[n].blk # NULL_ADDR})
        BY <1>3 DEF BuildFreeNids
    <2>2. NmOK([nm EXCEPT !.free = @ \cup added])
        BY <1>1, FreeOK
    <2>. QED  BY <1>3, <2>1, <2>2, FreeOK, NmStepRInv DEF BuildFreeNids, disk
<1>. QED  BY <1>2, <1>3

LEMMA ReaderRInv ==
    ASSUME RInv, NEW t \in Readers,
           \/ \E n \in Nids : GniLookup(t, n)
           \/ GniJournal(t) \/ GniNatPage(t) \/ GniCache(t) \/ GniDone(t)
    PROVE  RInv'
<1>1. NmOK(nm)
    BY DEF RInv
<1>2. CASE GniCache(t)
    BY <1>1, <1>2, GrabOK, NmStepRInv DEF GniCache, disk
<1>. QED  BY <1>1, <1>2, NmStepRInv DEF GniLookup, GniJournal, GniNatPage, GniDone, disk

-----------------------------------------------------------------------------
(* The phases of the checkpoint.                                           *)

LEMMA CpBlockOpsRInv ==
    ASSUME RInv, CpBlockOps
    PROVE  RInv'
BY DEF RInv, CpBlockOps, disk, RbImageHeld, DistinctSets, Phases, NmOK

LEMMA FlushBeginRInv ==
    ASSUME RInv, FlushBegin
    PROVE  RInv'
<1>1. NmOK(nm')
    <2>1. NmOK(nm) /\ NmOK(Drained(nm))
        BY DrainedOK DEF RInv
    <2>. QED  BY <2>1 DEF FlushBegin
<1>2. cpList' = <<>> /\ cp' \in {"commit", "gather"}
    BY DEF FlushBegin
<1>3. UNCHANGED <<bitmap, rbCopy, nat, rbImage>> /\ bitmap = rbCopy
    BY DEF FlushBegin, RInv
<1>. QED  BY <1>1, <1>2, <1>3 DEF RInv, RbImageHeld, DistinctSets, Phases

LEMMA GatherDoneRInv ==
    ASSUME RInv, GatherDone
    PROVE  RInv'
BY DEF RInv, GatherDone, disk, RbImageHeld, DistinctSets, Phases, NmOK

LEMMA FlushEndRInv ==
    ASSUME RInv, FlushEnd
    PROVE  RInv'
BY DEF RInv, FlushEnd, disk, RbImageHeld, DistinctSets, Phases, NmOK

(* do_checkpoint makes the current copies the rollback point. *)
LEMMA CpCommitRInv ==
    ASSUME RInv, CpCommit
    PROVE  RInv'
<1>1. RbImageHeld'
    BY BlockOfNid DEF CpCommit, RbImageHeld, CurrentNat
<1>. QED  BY <1>1 DEF RInv, CpCommit, DistinctSets, Phases, NmOK

-----------------------------------------------------------------------------
(* The gang lookup only adds, moves or grows sets: every set of the new    *)
(* list is the new one or was on the list, and the list keeps one set per *)
(* block when the new set's block is not on it.                            *)

SetsFrom(l2, l, x) ==
    \A t \in 1..Len(l2) : l2[t].set = x.set \/ \E u \in 1..Len(l) : l2[t].set = l[u].set

LEMMA InsertFresh ==
    ASSUME NEW l \in Seq(SetRefI), NEW x \in SetRefI, NEW j \in 1..(Len(l) + 1)
    PROVE  /\ InsertAt(l, j, x) \in Seq(SetRefI)
           /\ SetsFrom(InsertAt(l, j, x), l, x)
           /\ DistinctSets(l) /\ (\A t \in 1..Len(l) : l[t].set # x.set)
                => DistinctSets(InsertAt(l, j, x))
<1>1. /\ InsertAt(l, j, x) \in Seq(SetRefI)
      /\ Len(InsertAt(l, j, x)) = Len(l) + 1
      /\ \A i \in 1..(Len(l) + 1) :
            InsertAt(l, j, x)[i] = IF i < j THEN l[i]
                                   ELSE IF i = j THEN x ELSE l[i - 1]
    BY InsertAtProps
<1>2. Len(l) \in Nat
    BY LenProperties
<1>. DEFINE l2 == InsertAt(l, j, x)
<1>. HIDE DEF InsertAt, l2
<1>3. SetsFrom(l2, l, x)
    <2>1. SUFFICES ASSUME NEW t \in 1..(Len(l) + 1), l2[t].set # x.set
                   PROVE  \E u \in 1..Len(l) : l2[t].set = l[u].set
        BY <1>1 DEF SetsFrom, l2
    <2>2. CASE t < j
        BY <1>1, <1>2, <2>1, <2>2 DEF l2
    <2>3. CASE t > j
        BY <1>1, <1>2, <2>1, <2>3 DEF l2
    <2>. QED  BY <1>1, <1>2, <2>1, <2>2, <2>3 DEF l2
<1>4. ASSUME DistinctSets(l), \A t \in 1..Len(l) : l[t].set # x.set
      PROVE  DistinctSets(l2)
    <2>1. SUFFICES ASSUME NEW a \in 1..(Len(l) + 1), NEW b \in 1..(Len(l) + 1),
                          l2[a].set = l2[b].set
                   PROVE  a = b
        BY <1>1 DEF DistinctSets, l2
    <2>. DEFINE pos(i) == IF i < j THEN i ELSE i - 1
    <2>2. \A i \in 1..(Len(l) + 1) : i # j => /\ pos(i) \in 1..Len(l)
                                                /\ l2[i] = l[pos(i)]
        BY <1>1, <1>2 DEF l2
    <2>3. l2[j] = x
        BY <1>1, <1>2 DEF l2
    <2>4. CASE a # j /\ b # j
        <3>. HIDE DEF pos
        <3>2. pos(a) \in 1..Len(l) /\ pos(b) \in 1..Len(l)
              /\ l[pos(a)].set = l[pos(b)].set
            BY <2>1, <2>2, <2>4
        <3>1. pos(a) = pos(b)
            BY <3>2, <1>4 DEF DistinctSets
        <3>. QED  BY <3>1, <2>1, <2>4, <1>2 DEF pos
    <2>5. CASE a = j \/ b = j
        BY <2>1, <2>2, <2>3, <2>5, <1>4
    <2>. QED  BY <2>4, <2>5
<1>. QED  BY <1>1, <1>3, <1>4 DEF l2

(* list_move_tail of a grown pack. *)
LEMMA MoveToTail ==
    ASSUME NEW l \in Seq(SetRefI), NEW i \in 1..Len(l), NEW p \in SetRefI,
           p.set = l[i].set
    PROVE  /\ Append(RemoveAt(l, i), p) \in Seq(SetRefI)
           /\ \A t \in 1..Len(Append(RemoveAt(l, i), p)) :
                 \E u \in 1..Len(l) : Append(RemoveAt(l, i), p)[t].set = l[u].set
           /\ DistinctSets(l) => DistinctSets(Append(RemoveAt(l, i), p))
<1>1. /\ RemoveAt(l, i) \in Seq(SetRefI)
      /\ Len(RemoveAt(l, i)) = Len(l) - 1
      /\ \A t \in 1..(Len(l) - 1) : RemoveAt(l, i)[t] = IF t < i THEN l[t] ELSE l[t + 1]
    BY RemoveAtProps
<1>. DEFINE r == RemoveAt(l, i)
<1>. HIDE DEF r
<1>2. /\ Append(r, p) \in Seq(SetRefI)
      /\ Len(Append(r, p)) = Len(r) + 1
      /\ \A t \in 1..Len(r) : Append(r, p)[t] = r[t]
      /\ Append(r, p)[Len(r) + 1] = p
    BY <1>1, AppendProperties DEF r
<1>3. Len(l) \in Nat
    BY LenProperties
<1>. DEFINE l2 == Append(r, p)
<1>. HIDE DEF l2
<1>4. \A t \in 1..Len(l2) : \E u \in 1..Len(l) : l2[t].set = l[u].set
    <2>1. SUFFICES ASSUME NEW t \in 1..Len(l2) PROVE \E u \in 1..Len(l) : l2[t].set = l[u].set
        OBVIOUS
    <2>2. CASE t <= Len(r)
        <3>1. l2[t] = l[IF t < i THEN t ELSE t + 1] /\ (IF t < i THEN t ELSE t + 1) \in 1..Len(l)
            BY <1>1, <1>2, <1>3, <2>2 DEF l2, r
        <3>. QED  BY <3>1
    <2>3. CASE t = Len(r) + 1
        BY <1>2, <2>3 DEF l2
    <2>. QED  BY <1>1, <1>2, <1>3, <2>2, <2>3 DEF l2, r
<1>5. ASSUME DistinctSets(l) PROVE DistinctSets(l2)
    <2>1. SUFFICES ASSUME NEW a \in 1..Len(l2), NEW b \in 1..Len(l2), l2[a].set = l2[b].set
                   PROVE  a = b
        BY DEF DistinctSets
    <2>. DEFINE pos(t) == IF t = Len(r) + 1 THEN i ELSE IF t < i THEN t ELSE t + 1
    <2>2. \A t \in 1..Len(l2) : pos(t) \in 1..Len(l) /\ l2[t].set = l[pos(t)].set
        BY <1>1, <1>2, <1>3 DEF l2, r
    <2>. HIDE DEF pos
    <2>4. pos(a) \in 1..Len(l) /\ pos(b) \in 1..Len(l) /\ l[pos(a)].set = l[pos(b)].set
        BY <2>1, <2>2
    <2>3. pos(a) = pos(b)
        BY <2>4, <1>5 DEF DistinctSets
    <2>. QED  BY <2>1, <2>3, <1>1, <1>2, <1>3 DEF l2, r, pos
<1>. QED  BY <1>2, <1>4, <1>5 DEF l2, r

(* A pack that grows in place. *)
LEMMA GrowInPlace ==
    ASSUME NEW l \in Seq(SetRefI), NEW i \in 1..Len(l), NEW p \in SetRefI,
           p.set = l[i].set
    PROVE  /\ [l EXCEPT ![i] = p] \in Seq(SetRefI)
           /\ \A t \in 1..Len([l EXCEPT ![i] = p]) :
                 \E u \in 1..Len(l) : [l EXCEPT ![i] = p][t].set = l[u].set
           /\ DistinctSets(l) => DistinctSets([l EXCEPT ![i] = p])
<1>1. /\ [l EXCEPT ![i] = p] \in Seq(SetRefI)
      /\ Len([l EXCEPT ![i] = p]) = Len(l)
      /\ \A j \in 1..Len(l) : [l EXCEPT ![i] = p][j] = IF j = i THEN p ELSE l[j]
    BY ExceptSeq
<1>. QED  BY <1>1 DEF DistinctSets

(* __adjust_nat_entry_set places the set before some position. *)
LEMMA AdjustSetInsert ==
    ASSUME cpList \in Seq(SetRefI), NEW x \in SetRefI, NEW mx, AdjustSet(x, mx)
    PROVE  \E j \in 1..(Len(cpList) + 1) : cpList' = InsertAt(cpList, j, x)
<1>1. CASE cpList' = Append(cpList, x)
    <2>1. /\ InsertAt(cpList, Len(cpList) + 1, x) \in Seq(SetRefI)
          /\ Len(InsertAt(cpList, Len(cpList) + 1, x)) = Len(cpList) + 1
          /\ \A i \in 1..(Len(cpList) + 1) :
                InsertAt(cpList, Len(cpList) + 1, x)[i] = IF i < Len(cpList) + 1 THEN cpList[i]
                                                           ELSE x
        BY InsertAtProps, LenProperties
    <2>2. /\ Append(cpList, x) \in Seq(SetRefI)
          /\ Len(Append(cpList, x)) = Len(cpList) + 1
          /\ \A i \in 1..Len(cpList) : Append(cpList, x)[i] = cpList[i]
          /\ Append(cpList, x)[Len(cpList) + 1] = x
        BY AppendProperties
    <2>3. Len(cpList) \in Nat
        BY LenProperties
    <2>4. InsertAt(cpList, Len(cpList) + 1, x) = Append(cpList, x)
        <3>. HIDE DEF InsertAt
        <3>. QED  BY <2>1, <2>2, <2>3, SeqEqual
    <2>. QED  BY <1>1, <2>3, <2>4
<1>. QED  BY <1>1 DEF AdjustSet

(* The gang lookup of one (shard, set) pair keeps RInv: the new set is     *)
(* placed, merged or moved without repeating a block, and every set on the *)
(* list came from a gathered pair.                                         *)
LEMMA GatherSetRInv ==
    ASSUME RInv, GatherSet
    PROVE  RInv'
<1>1. PICK s \in Shards, k \in Blocks :
          /\ <<s, k>> \in Ungathered
          /\ LET x == [set |-> k, shards |-> {s}, cnt |-> nm.set_cnt[s][k]]
             IN  IF PerCoreFlush THEN AdjustPack(x, MaxNatJentries)
                 ELSE AdjustSet(x, MaxNatJentries)
          /\ cpGathered' = cpGathered \cup {<<s, k>>}
    BY DEF GatherSet
<1>. DEFINE x == [set |-> k, shards |-> {s}, cnt |-> nm.set_cnt[s][k]]
            mx == MaxNatJentries
            l == cpList
<1>2. x \in SetRefI /\ l \in Seq(SetRefI)
    BY DEF RInv, NmOK, SetRefI
<1>3. /\ cp = "gather" /\ bitmap = rbCopy
      /\ UNCHANGED <<nm, cp, bitmap, rbCopy, nat, rbImage>>
      /\ \A i \in 1..Len(l) : \E s2 \in Shards : <<s2, l[i].set>> \in cpGathered
    BY DEF GatherSet, RInv, disk
<1>4. <<s, k>> \notin cpGathered
    BY <1>1 DEF Ungathered
(* What the list step must establish. *)
<1>5. SUFFICES /\ cpList' \in Seq(SetRefI)
               /\ SetsFrom(cpList', l, x)
               /\ OneSetPerBlock => DistinctSets(cpList')
    <2>1. \A i \in 1..Len(cpList') : \E s2 \in Shards : <<s2, cpList'[i].set>> \in cpGathered'
        BY <1>1, <1>3 DEF SetsFrom
    <2>. QED  BY <1>3, <2>1 DEF RInv, RbImageHeld, Phases, NmOK
<1>. HIDE DEF x, mx, l
<1>6. ASSUME NEW j \in 1..(Len(l) + 1), cpList' = InsertAt(l, j, x),
             OneSetPerBlock => \A t \in 1..Len(l) : l[t].set # x.set
      PROVE  /\ cpList' \in Seq(SetRefI)
             /\ SetsFrom(cpList', l, x)
             /\ OneSetPerBlock => DistinctSets(cpList')
    BY <1>2, <1>6, InsertFresh DEF RInv, l
<1>7. CASE PerCoreFlush
    <2>1. AdjustPack(x, mx)
        BY <1>1, <1>7 DEF x, mx
    <2>2. CASE \E i \in 1..Len(l) : l[i].set = x.set
        <3>1. PICK i \in 1..Len(l) :
                  /\ l[i].set = x.set
                  /\ LET p == [l[i] EXCEPT !.shards = @ \cup x.shards, !.cnt = @ + x.cnt]
                     IN  cpList' = IF p.cnt >= mx THEN Append(RemoveAt(l, i), p)
                                   ELSE [l EXCEPT ![i] = p]
            BY <2>1, <2>2 DEF AdjustPack, l
        <3>. DEFINE p == [l[i] EXCEPT !.shards = @ \cup x.shards, !.cnt = @ + x.cnt]
        <3>2. p \in SetRefI /\ p.set = l[i].set
            <4>1. l[i] \in SetRefI
                BY <1>2, LenProperties
            <4>2. l[i] = [set |-> l[i].set, shards |-> l[i].shards, cnt |-> l[i].cnt]
                BY <4>1 DEF SetRefI
            <4>3. l[i].shards \cup x.shards \in SUBSET Shards /\ l[i].cnt + x.cnt \in Int
                BY <1>2, <4>1 DEF SetRefI
            <4>4. /\ DOMAIN p = {"set", "shards", "cnt"}
                  /\ p.set = l[i].set
                  /\ p.shards = l[i].shards \cup x.shards
                  /\ p.cnt = l[i].cnt + x.cnt
                BY <4>2
            <4>. QED  BY <4>1, <4>3, <4>4 DEF SetRefI
        <3>3. DistinctSets(l)
            BY <1>7 DEF RInv, OneSetPerBlock, l
        <3>6. cpList' = IF p.cnt >= mx THEN Append(RemoveAt(l, i), p)
                        ELSE [l EXCEPT ![i] = p]
            BY <3>1
        <3>. HIDE DEF p
        <3>4. CASE p.cnt >= mx
            <4>1. cpList' = Append(RemoveAt(l, i), p)
                BY <3>6, <3>4
            <4>2. /\ Append(RemoveAt(l, i), p) \in Seq(SetRefI)
                  /\ \A t \in 1..Len(Append(RemoveAt(l, i), p)) :
                        \E u \in 1..Len(l) : Append(RemoveAt(l, i), p)[t].set = l[u].set
                  /\ DistinctSets(l) => DistinctSets(Append(RemoveAt(l, i), p))
                BY <1>2, <3>2, MoveToTail
            <4>. QED  BY <3>3, <4>1, <4>2 DEF SetsFrom
        <3>5. CASE ~(p.cnt >= mx)
            <4>1. cpList' = [l EXCEPT ![i] = p]
                BY <3>6, <3>5
            <4>2. /\ [l EXCEPT ![i] = p] \in Seq(SetRefI)
                  /\ \A t \in 1..Len([l EXCEPT ![i] = p]) :
                        \E u \in 1..Len(l) : [l EXCEPT ![i] = p][t].set = l[u].set
                  /\ DistinctSets(l) => DistinctSets([l EXCEPT ![i] = p])
                BY <1>2, <3>2, GrowInPlace
            <4>. QED  BY <3>3, <4>1, <4>2 DEF SetsFrom
        <3>. QED  BY <3>4, <3>5
    <2>3. CASE ~\E i \in 1..Len(l) : l[i].set = x.set
        <3>1. AdjustSet(x, mx)
            BY <2>1, <2>3 DEF AdjustPack, l
        <3>. QED  BY <1>2, <2>3, <3>1, <1>6, AdjustSetInsert DEF l
    <2>. QED  BY <2>2, <2>3
<1>8. CASE ~PerCoreFlush
    <2>1. AdjustSet(x, mx)
        BY <1>1, <1>8 DEF x, mx
    (* One file cell: the sets on the list came from other pairs of cell 0. *)
    <2>2. OneSetPerBlock => \A t \in 1..Len(l) : l[t].set # x.set
        <3>1. SUFFICES ASSUME OneSetPerBlock, NEW t \in 1..Len(l), l[t].set = k
                       PROVE  FALSE
            BY DEF x
        <3>2. Shards = {0}
            BY <1>8, <3>1, NatCacheAssumption DEF OneSetPerBlock, Shards
        <3>3. PICK s2 \in Shards : <<s2, l[t].set>> \in cpGathered
            BY <1>3
        <3>. QED  BY <3>1, <3>2, <3>3, <1>4
    <2>. QED  BY <1>2, <2>1, <2>2, <1>6, AdjustSetInsert DEF l
<1>. QED  BY <1>7, <1>8

(* __flush_nat_entry_set[_per_core] of the head of the list: a NAT block   *)
(* is written into the copy nat_bitmap does not select, which is not the   *)
(* rollback copy because no earlier set of this checkpoint had the block.  *)
LEMMA FlushSetRInv ==
    ASSUME RInv, FlushSet, OneSetPerBlock
    PROVE  RInv'
<1>. DEFINE l == cpList
            k == Head(l).set
            dst == 1 - bitmap[k]
<1>1. /\ l \in Seq(SetRefI) /\ l # <<>>
      /\ cp = "sets" /\ cp' = "sets"
      /\ cpList' = Tail(l)
      /\ UNCHANGED <<rbCopy, rbImage>>
    BY DEF RInv, FlushSet
<1>2. /\ Head(l) \in SetRefI /\ Head(l) = l[1] /\ Len(l) \in Nat /\ Len(l) >= 1
      /\ Tail(l) \in Seq(SetRefI)
      /\ Len(Tail(l)) = Len(l) - 1
      /\ \A i \in 1..Len(Tail(l)) : Tail(l)[i] = l[i + 1]
    BY <1>1, HeadTailProperties, LenProperties, EmptySeq
<1>3. k \in Blocks /\ bitmap[k] = rbCopy[k] /\ dst \in {0, 1} /\ dst # rbCopy[k]
    BY <1>1, <1>2 DEF RInv, SetRefI
<1>4. DistinctSets(l)
    BY DEF RInv
<1>5. \A i \in 1..Len(Tail(l)) : Tail(l)[i].set # k
    BY <1>2, <1>4 DEF DistinctSets
<1>8. bitmap \in [Blocks -> {0, 1}] /\ rbCopy \in [Blocks -> {0, 1}] /\ DOMAIN nat = {0, 1}
      /\ RbImageHeld
    BY DEF RInv
(* The two outcomes of write_nat_entries. *)
<1>6. \/ UNCHANGED <<nat, bitmap>>
      \/ /\ DOMAIN nat' = {0, 1}
         /\ \A c \in {0, 1}, n \in AllNids :
               c # dst \/ NAT_BLOCK_OFFSET(n) # k => nat'[c][n] = nat[c][n]
         /\ bitmap' = [bitmap EXCEPT ![k] = dst]
    <2>. DEFINE x == Head(l)
                E == {n \in Nids : NAT_BLOCK_OFFSET(n) = k /\ TREE_IDX(n) \in x.shards
                                  /\ nm.cache[n] # NONE /\ nm.cache[n].dirty}
                W == {n \in E : nm.cache[n].blk # NEW_ADDR}
    <2>1. \E tj, f : write_nat_entries(k, W, tj, f)
        BY DEF FlushSet
    <2>2. PICK tj, f : write_nat_entries(k, W, tj, f)
        BY <2>1
    <2>3. CASE tj
        BY <2>2, <2>3 DEF write_nat_entries
    <2>4. CASE ~tj
        <3>1. nat' = [nat EXCEPT ![dst] =
                        [n \in AllNids |->
                           IF NAT_BLOCK_OFFSET(n) # k THEN nat[dst][n]
                           ELSE IF n \in W THEN RawOf(nm.cache[n])
                           ELSE nat[bitmap[k]][n]]]
              /\ bitmap' = [bitmap EXCEPT ![k] = dst]
            BY <2>2, <2>4 DEF write_nat_entries, next_nat_copy
        <3>. QED  BY <3>1, <1>3, <1>8
    <2>. QED  BY <2>3, <2>4
<1>7. NmOK(nm')
    <2>1. PICK added : nm' = [clear_nat_cache_dirty(nm, {n \in {n \in Nids :
                                 NAT_BLOCK_OFFSET(n) = k /\ TREE_IDX(n) \in Head(l).shards
                                 /\ nm.cache[n] # NONE /\ nm.cache[n].dirty} :
                                 nm.cache[n].blk # NEW_ADDR}, k) EXCEPT
                             !.set_root = [s \in Shards |->
                                 IF s \in (IF PerCoreFlush THEN Shards ELSE Head(l).shards)
                                   THEN @[s] \ {k} ELSE @[s]],
                             !.free = @ \cup added]
        BY DEF FlushSet
    <2>. QED  BY <1>3, <2>1, ClearOK, RootFreeOK DEF RInv
<1>9. CASE UNCHANGED <<nat, bitmap>>
    <2>1. \A i \in 1..Len(Tail(l)) : bitmap[Tail(l)[i].set] = rbCopy[Tail(l)[i].set]
        <3>1. SUFFICES ASSUME NEW i \in 1..Len(Tail(l))
                       PROVE  bitmap[Tail(l)[i].set] = rbCopy[Tail(l)[i].set]
            OBVIOUS
        <3>2. Tail(l)[i] = l[i + 1] /\ i + 1 \in 1..Len(l)
            BY <1>2
        <3>. QED  BY <3>2, <1>1 DEF RInv
    <2>2. DistinctSets(Tail(l))
        BY <1>2, <1>4 DEF DistinctSets
    <2>. QED  BY <1>1, <1>2, <1>7, <1>8, <1>9, <2>1, <2>2 DEF RInv, RbImageHeld, Phases
<1>10. CASE /\ DOMAIN nat' = {0, 1}
            /\ \A c \in {0, 1}, n \in AllNids :
                  c # dst \/ NAT_BLOCK_OFFSET(n) # k => nat'[c][n] = nat[c][n]
            /\ bitmap' = [bitmap EXCEPT ![k] = dst]
    <2>1. bitmap' \in [Blocks -> {0, 1}]
        BY <1>3, <1>8, <1>10
    <2>2. RbImageHeld'
        <3>1. SUFFICES ASSUME NEW n \in AllNids
                       PROVE  nat'[rbCopy[NAT_BLOCK_OFFSET(n)]][n] = rbImage[n]
            BY <1>1 DEF RbImageHeld
        <3>2. NAT_BLOCK_OFFSET(n) \in Blocks
            BY BlockOfNid
        <3>3. rbCopy[NAT_BLOCK_OFFSET(n)] \in {0, 1}
            BY <3>2, <1>8
        <3>4. rbCopy[NAT_BLOCK_OFFSET(n)] # dst \/ NAT_BLOCK_OFFSET(n) # k
            BY <1>3
        <3>5. nat'[rbCopy[NAT_BLOCK_OFFSET(n)]][n] = nat[rbCopy[NAT_BLOCK_OFFSET(n)]][n]
            BY <3>3, <3>4, <1>10
        <3>. QED  BY <3>5, <1>1, <1>8 DEF RbImageHeld
    <2>3. \A i \in 1..Len(Tail(l)) : bitmap'[Tail(l)[i].set] = rbCopy[Tail(l)[i].set]
        <3>1. SUFFICES ASSUME NEW i \in 1..Len(Tail(l))
                       PROVE  bitmap'[Tail(l)[i].set] = rbCopy'[Tail(l)[i].set]
            BY <1>1
        <3>2. Tail(l)[i] = l[i + 1] /\ i + 1 \in 1..Len(l)
            BY <1>2
        <3>6. l[i + 1] \in SetRefI
            BY <3>2, <1>1, ElementOfSeq
        <3>3. Tail(l)[i].set \in Blocks /\ Tail(l)[i].set # k
            BY <3>2, <3>6, <1>5 DEF SetRefI
        <3>4. bitmap[Tail(l)[i].set] = rbCopy[Tail(l)[i].set]
            BY <3>2, <1>1 DEF RInv
        <3>5. bitmap'[Tail(l)[i].set] = bitmap[Tail(l)[i].set]
            BY <3>3, <1>8, <1>10
        <3>. QED  BY <3>4, <3>5, <1>1
    <2>4. DistinctSets(Tail(l))
        BY <1>2, <1>4 DEF DistinctSets
    <2>. QED  BY <1>1, <1>2, <1>7, <1>8, <1>10, <2>1, <2>2, <2>3, <2>4 DEF RInv, Phases
<1>. QED  BY <1>6, <1>9, <1>10

(* RInv is preserved by every step of the NAT cache and checkpoint model  *)
(* when each NAT block is written at most once per checkpoint.            *)
LEMMA RInvNext ==
    ASSUME RInv, [Next]_vars, OneSetPerBlock
    PROVE  RInv'
<1>1. CASE \E n \in Nids : NewNode(n, n)
    BY <1>1, NodeOpsRInv
<1>2. CASE \E n \in Nids : WriteNode(n) \/ TruncateNode(n) \/ DirtyNode(n)
    BY <1>2, NodeOpsRInv
<1>3. CASE (\E s \in Shards : TryToFreeNats(s)) \/ BuildFreeNids
    BY <1>3, PoolOpsRInv
<1>4. CASE \E t \in Readers :
             \/ \E n \in Nids : GniLookup(t, n)
             \/ GniJournal(t) \/ GniNatPage(t) \/ GniCache(t) \/ GniDone(t)
    BY <1>4, ReaderRInv
<1>5. CASE CpBlockOps
    BY <1>5, CpBlockOpsRInv
<1>6. CASE FlushBegin
    BY <1>6, FlushBeginRInv
<1>7. CASE GatherSet
    BY <1>7, GatherSetRInv
<1>8. CASE GatherDone
    BY <1>8, GatherDoneRInv
<1>9. CASE FlushSet
    BY <1>9, FlushSetRInv
<1>10. CASE FlushEnd
    BY <1>10, FlushEndRInv
<1>11. CASE CpCommit
    BY <1>11, CpCommitRInv
<1>12. CASE UNCHANGED vars
    BY <1>12 DEF vars, disk, RInv, RbImageHeld, DistinctSets, NmOK
<1>. QED  BY <1>1, <1>2, <1>3, <1>4, <1>5, <1>6, <1>7, <1>8, <1>9, <1>10,
             <1>11, <1>12 DEF Next

(* The NAT block copies that the last checkpoint committed stay untouched  *)
(* through the whole of the next checkpoint (flush_nat_entries writes only *)
(* the copy get_next_nat_page chooses), so a crash in the flush rolls back *)
(* to a consistent NAT, whatever the numbers of NIDs, blocks and shards,   *)
(* as long as each block is written once per checkpoint: per-core flush,   *)
(* or a single NAT cache shard.                                            *)
THEOREM RollbackIntactInvariant ==
    ASSUME OneSetPerBlock
    PROVE  Spec => []RollbackIntact
<1>1. Init => RInv
    BY InitRInv
<1>2. RInv /\ [Next]_vars => RInv'
    BY RInvNext
<1>3. RInv => RollbackIntact
    BY DEF RInv, RbImageHeld, RollbackIntact
<1>. QED  BY <1>1, <1>2, <1>3, PTL DEF Spec

=============================================================================
