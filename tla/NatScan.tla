------------------------------- MODULE NatScan -------------------------------
(***************************************************************************)
(* The NID order in which build_all_free_nids (src/Max/node.c, the         *)
(* PER_CORE_NID_LIST variant) visits the NAT at mount: starting at         *)
(* next_scan_nid, one NAT page per pass of its loop, scan_nat_page reading *)
(* each page from the NID it is given to the end of that page.  Under      *)
(* FILE_CELL, a NID that runs past max_nid wraps to NAT_ENTRY_PER_BLOCK.   *)
(***************************************************************************)
EXTENDS Naturals, Sequences

CONSTANTS
    NatEntryPerBlock,   \* NAT_ENTRY_PER_BLOCK
    NatBlocks           \* NAT blocks; max_nid = NAT_ENTRY_PER_BLOCK * NatBlocks

ASSUME NatScanAssumption ==
    /\ NatEntryPerBlock \in Nat \ {0}
    /\ NatBlocks \in Nat \ {0}

MaxNid == NatEntryPerBlock * NatBlocks
AllNids == 0..(MaxNid - 1)

NAT_BLOCK_OFFSET(n) == n \div NatEntryPerBlock

(* The NID the scan loop moves to after scanning the page of nid.           *)
NextPageNid(nid) ==
    LET p == nid + (NatEntryPerBlock - (nid % NatEntryPerBlock))
    IN  IF p >= MaxNid THEN NatEntryPerBlock ELSE p

(* The loop runs (blkno - start) + 1 times: blkno is end = the block of    *)
(* max_nid after the readahead loop, and the test is i++ == blkno - start. *)
ScanPasses(start) == NatBlocks - NAT_BLOCK_OFFSET(start)

(* The NID each pass k hands to scan_nat_page.                             *)
ScanNids(start) ==
    LET f[k \in 0..ScanPasses(start)] ==
            IF k = 0 THEN start ELSE NextPageNid(f[k - 1])
    IN  f

(* scan_nat_page: the NIDs from nid to the end of its page, stopping at    *)
(* max_nid.                                                                *)
scan_nat_page(nid) ==
    LET last == nid - (nid % NatEntryPerBlock) + NatEntryPerBlock - 1
        stop == IF last < MaxNid THEN last ELSE MaxNid - 1
    IN  [i \in 1..(stop - nid + 1) |-> nid + i - 1]

(* build_all_free_nids: the sequence of NIDs offered to add_free_nid, in   *)
(* the order the scan reads them (before the journal pass).                *)
MountScan(start) ==
    LET s == ScanNids(start)
        acc[k \in 0..ScanPasses(start)] ==
            IF k = 0 THEN scan_nat_page(s[0]) ELSE acc[k - 1] \o scan_nat_page(s[k])
    IN  acc[ScanPasses(start)]

=============================================================================
