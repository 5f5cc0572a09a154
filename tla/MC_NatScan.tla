------------------------------ MODULE MC_NatScan ------------------------------
(***************************************************************************)
(* The mount-time scan of build_all_free_nids for every value              *)
(* next_scan_nid (ckpt->next_free_nid, read by init_node_manager) can have *)
(* above the reserved first NAT block.  The state is that value; nothing   *)
(* changes it while the scan runs.                                         *)
(***************************************************************************)
EXTENDS NatScan

VARIABLE next_scan_nid

(* init_node_manager: next_scan_nid = le32_to_cpu(ckpt->next_free_nid).    *)
Init == next_scan_nid \in NatEntryPerBlock..(MaxNid - 1)

Next == UNCHANGED next_scan_nid

Spec == Init /\ [][Next]_next_scan_nid

TypeOK == next_scan_nid \in AllNids

ScannedNids == {MountScan(next_scan_nid)[i] : i \in DOMAIN MountScan(next_scan_nid)}

(* spec.md 4.2: the full build at mount scans every NAT block.  Every NID  *)
(* outside the reserved first block (which the FILE_CELL wrap skips on     *)
(* purpose) is offered to add_free_nid by the scan loop of                 *)
(* build_all_free_nids, whatever next_scan_nid the checkpoint recorded.    *)
ScanCoversAll ==
    \A n \in AllNids : NAT_BLOCK_OFFSET(n) >= 1 => n \in ScannedNids
=============================================================================
