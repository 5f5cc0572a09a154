------------------------------ MODULE MC_FreeNid ------------------------------
(***************************************************************************)
(* FreeNid instantiated for TLC: two allocating threads; the NAT sizes,    *)
(* journal, memory budget and counter width are in the .cfg files.        *)
(***************************************************************************)
EXTENDS FreeNid, TLC

CONSTANTS a1, a2

MCAllocators == {a1, a2}

(* A single allocating thread, for the runs about one call of alloc_nid. *)
OneAllocator == {a1}

(* The two threads run the same code. *)
Symmetry == Permutations(MCAllocators)
(* For the memory-budget question alone: mounts whose build_all_free_nids  *)
(* left a NULL_ADDR NID, unknown to the journal, out of the pool because   *)
(* add_free_nid hit the budget; and no truncate_node, so that no NID waits *)
(* for a checkpoint to come back.                                          *)
BudgetDropped ==
    \E n \in Allocatable : n \notin live /\ jnl[n] = "absent" /\ freeNid[n] = "none"

NextNoTruncate ==
    \/ \E n \in Allocatable : MountJournalEntry(n)
    \/ \E t \in Allocators :
         \/ Call(t) \/ AllocRetry(t) \/ BuildLock(t) \/ BuildEntry(t) \/ BuildEnd(t)
         \/ NewNodePage(t) \/ alloc_nid_done(t) \/ alloc_nid_failed(t)
    \/ flush_nat_entries_per_core

CapSpinSpec == Init /\ BudgetDropped /\ [][NextNoTruncate]_vars /\ Fairness
=============================================================================
