----------------------------- MODULE RPS_proofs -----------------------------
(***************************************************************************)
(* Proofs about the reader-preferring semaphore of RPS.tla, for every      *)
(* finite set of CPUs and writers, any set of readers and any bound.       *)
(*                                                                         *)
(* The grace-period invariant HighwayFrozen is not inductive by itself: a  *)
(* reader may only open a go_highway region while writers_cnt is 0, so    *)
(* the proof needs writers_cnt to count the writers that have announced    *)
(* themselves (WritersCount), and a writer still in synchronize_sched_     *)
(* expedited to be waiting for every reader now in a region (SyncCovers). *)
(*                                                                         *)
(* The accounting invariant ReaderAccounting and WriterExclusion, which    *)
(* rests on it, are about SumFunction, a fold defined by a recursive       *)
(* function: what it computes cannot be derived by the provers, so those   *)
(* two stay with TLC.                                                      *)
(***************************************************************************)
EXTENDS RPS, FiniteSetTheorems, TLAPS

(* The writers between their atomic_inc and atomic_dec of writers_cnt. *)
Announced ==
    {w \in Writers : pc[w] \in {"dw_sync", "dw_lock", "dw_clear", "dw_wait",
                                 "cs", "uw_sync", "uw_dec"}}

(* The part of TypeOK the other conjuncts need; lowway_cnt is left out,    *)
(* its type after clear_highway depends on what SumFunction returns.       *)
TypeCore ==
    /\ highway_cnt \in [CPUs -> Int]
    /\ rw_sem \subseteq Writers
    /\ pc \in [Threads -> ReaderSteps \cup WriterSteps]
    /\ \A t \in Readers : pc[t] \in ReaderSteps
    /\ \A t \in Writers : pc[t] \in WriterSteps
    /\ cpu \in [Readers -> CPUs]
    /\ gp \in [Writers -> SUBSET Readers]

(* writers_cnt is the number of announced writers. *)
WritersCount == writers_cnt = Cardinality(Announced)

(* A writer inside rps_down_write's grace period waits for every reader    *)
(* that is in a go_highway region now.                                     *)
SyncCovers == \A w \in Writers : pc[w] = "dw_sync" => InRegion \subseteq gp[w]

IInv == TypeCore /\ WritersCount /\ SyncCovers /\ HighwayFrozen

-----------------------------------------------------------------------------
(* Announced is finite and writers_cnt is a natural number. *)
LEMMA AnnouncedFinite ==
    ASSUME TypeCore
    PROVE  /\ IsFiniteSet(Announced)
           /\ Cardinality(Announced) \in Nat
<1>1. Announced \subseteq Writers
  BY DEF Announced
<1>2. IsFiniteSet(Announced)
  BY <1>1, RPSAssumption, FS_Subset
<1>. QED
  BY <1>2, FS_CardinalityType

(* The initial states satisfy the inductive invariant. *)
LEMMA InitIInv == Init => IInv
<1> SUFFICES ASSUME Init PROVE IInv
  OBVIOUS
<1>1. TypeCore
  BY DEF Init, TypeCore, Threads, ReaderSteps, WriterSteps
<1>2. Announced = {}
  BY DEF Init, Announced, Threads
<1>3. WritersCount
  BY <1>2, FS_EmptySet DEF Init, WritersCount
<1>4. InRegion = {}
  BY DEF Init, InRegion, Threads
<1>5. SyncCovers
  BY <1>4 DEF SyncCovers
<1>6. HighwayFrozen
  BY DEF Init, HighwayFrozen, Threads
<1>. QED
  BY <1>1, <1>3, <1>5, <1>6 DEF IInv

(* A reader's step leaves every writer's pc, writers_cnt and rw_sem alone, *)
(* and lets a reader into a go_highway region only when no writer is       *)
(* announced; it takes a reader out of a region only by LeaveRegion.       *)
LEMMA ReaderStepIInv ==
    ASSUME IInv, NEW t \in Readers, ReaderNext(t)
    PROVE  IInv'
<1>. USE RPSAssumption
<1>1. TypeCore /\ WritersCount /\ SyncCovers /\ HighwayFrozen
  BY DEF IInv
<1>2. t \notin Writers
  OBVIOUS
<1>3. CASE rps_down_read(t) \/ rps_down_read_try_lock(t)
  <2>1. PICK lowStep \in {"dr_lw", "dt_lw"} : GoHighwayEnter(t, lowStep)
    BY <1>3 DEF rps_down_read, rps_down_read_try_lock
  <2>2. pc[t] = "idle"
    BY <2>1 DEF GoHighwayEnter
  <2>3. PICK c \in FitCPUs(1) :
          IF writers_cnt = 0
            THEN pc' = [pc EXCEPT ![t] = "dr_hw"] /\ cpu' = [cpu EXCEPT ![t] = c]
            ELSE pc' = [pc EXCEPT ![t] = lowStep] /\ UNCHANGED cpu
    BY <2>1 DEF GoHighwayEnter
  <2>4. UNCHANGED <<highway_cnt, lowway_cnt, writers_cnt, rw_sem, gp>>
    BY <2>1 DEF GoHighwayEnter
  <2>5. c \in CPUs
    BY DEF FitCPUs
  <2>6. \A v \in Writers : pc'[v] = pc[v]
    BY <2>3, <1>1, <1>2 DEF TypeCore, Threads
  <2>7. Announced' = Announced
    BY <2>6 DEF Announced
  <2>8. TypeCore'
    BY <2>3, <2>4, <2>5, <1>1, <1>2 DEF TypeCore, ReaderSteps, Threads
  <2>9. WritersCount'
    BY <2>4, <2>7, <1>1 DEF WritersCount
  <2>10. CASE writers_cnt = 0
    <3>1. Announced = {}
      BY <2>10, <1>1, AnnouncedFinite, FS_EmptySet DEF WritersCount
    <3>2. \A v \in Writers : pc'[v] \notin {"dw_sync", "dw_lock", "dw_clear",
                                            "dw_wait", "cs"}
      BY <3>1, <2>6 DEF Announced
    <3>. QED
      BY <3>2, <2>8, <2>9 DEF SyncCovers, HighwayFrozen, IInv
  <2>11. CASE writers_cnt # 0
    <3>1. InRegion' = InRegion
      BY <2>11, <2>3, <2>2, <1>1 DEF InRegion, TypeCore, Threads
    <3>. QED
      BY <3>1, <2>4, <2>6, <2>8, <2>9, <1>1 DEF SyncCovers, HighwayFrozen, IInv
  <2>. QED
    BY <2>10, <2>11
<1>4. CASE DownReadHighway(t) \/ UpReadHighway(t)
  <2>1. pc[t] \in {"dr_hw", "ur_hw"} /\ t \in InRegion
    BY <1>4 DEF DownReadHighway, UpReadHighway, InRegion
  <2>2. /\ pc' = [pc EXCEPT ![t] = IF pc[t] = "dr_hw" THEN "cs" ELSE "idle"]
        /\ \E d \in {1, -1} : highway_cnt' = [highway_cnt EXCEPT ![cpu[t]] = @ + d]
        /\ LeaveRegion(t)
        /\ UNCHANGED <<lowway_cnt, writers_cnt, rw_sem, cpu>>
    BY <1>4 DEF DownReadHighway, UpReadHighway
  <2>3. \A v \in Writers : pc'[v] = pc[v]
    BY <2>2, <1>1, <1>2 DEF TypeCore
  <2>4. Announced' = Announced
    BY <2>3 DEF Announced
  <2>5. InRegion' = InRegion \ {t}
    BY <2>2, <1>1 DEF InRegion, TypeCore, Threads
  <2>6. gp' = [v \in Writers |-> gp[v] \ {t}]
    BY <2>2 DEF LeaveRegion
  <2>7. TypeCore'
    BY <2>2, <2>6, <1>1, <1>2 DEF TypeCore, ReaderSteps, Threads
  <2>8. WritersCount'
    BY <2>2, <2>4, <1>1 DEF WritersCount
  <2>9. SyncCovers'
    BY <2>3, <2>5, <2>6, <1>1 DEF SyncCovers
  <2>10. \A v \in Writers : pc[v] \notin {"dw_lock", "dw_clear", "dw_wait", "cs"}
    BY <2>1, <1>1 DEF HighwayFrozen
  <2>11. HighwayFrozen'
    BY <2>3, <2>10 DEF HighwayFrozen
  <2>. QED
    BY <2>7, <2>8, <2>9, <2>11 DEF IInv
<1>5. CASE go_lowway(t) \/ DownReadTryLowway(t) \/ UpReadLowway(t)
  <2>1. /\ pc[t] \in {"dr_lw", "dt_lw", "ur_lw"}
        /\ \E s \in {"cs", "idle"} : pc' = [pc EXCEPT ![t] = s]
        /\ UNCHANGED <<highway_cnt, writers_cnt, rw_sem, cpu, gp>>
    BY <1>5 DEF go_lowway, DownReadTryLowway, UpReadLowway
  <2>2. \A v \in Writers : pc'[v] = pc[v]
    BY <2>1, <1>1, <1>2 DEF TypeCore
  <2>3. Announced' = Announced
    BY <2>2 DEF Announced
  <2>4. InRegion' = InRegion
    BY <2>1, <1>1 DEF InRegion, TypeCore
  <2>5. TypeCore'
    BY <2>1, <1>1, <1>2 DEF TypeCore, ReaderSteps, Threads
  <2>. QED
    BY <2>1, <2>2, <2>3, <2>4, <2>5, <1>1
       DEF WritersCount, SyncCovers, HighwayFrozen, IInv
<1>6. CASE rps_up_read(t)
  <2>1. pc[t] = "cs"
    BY <1>6 DEF rps_up_read
  <2>2. PICK c \in FitCPUs(-1) :
          IF writers_cnt = 0
            THEN pc' = [pc EXCEPT ![t] = "ur_hw"] /\ cpu' = [cpu EXCEPT ![t] = c]
            ELSE pc' = [pc EXCEPT ![t] = "ur_lw"] /\ UNCHANGED cpu
    BY <1>6 DEF rps_up_read
  <2>3. UNCHANGED <<highway_cnt, lowway_cnt, writers_cnt, rw_sem, gp>>
    BY <1>6 DEF rps_up_read
  <2>4. c \in CPUs
    BY DEF FitCPUs
  <2>5. \A v \in Writers : pc'[v] = pc[v]
    BY <2>2, <1>1, <1>2 DEF TypeCore, Threads
  <2>6. Announced' = Announced
    BY <2>5 DEF Announced
  <2>7. TypeCore'
    BY <2>2, <2>3, <2>4, <1>1, <1>2 DEF TypeCore, ReaderSteps, Threads
  <2>8. WritersCount'
    BY <2>3, <2>6, <1>1 DEF WritersCount
  <2>9. CASE writers_cnt = 0
    <3>1. Announced = {}
      BY <2>9, <1>1, AnnouncedFinite, FS_EmptySet DEF WritersCount
    <3>2. \A v \in Writers : pc'[v] \notin {"dw_sync", "dw_lock", "dw_clear",
                                            "dw_wait", "cs"}
      BY <3>1, <2>5 DEF Announced
    <3>. QED
      BY <3>2, <2>7, <2>8 DEF SyncCovers, HighwayFrozen, IInv
  <2>10. CASE writers_cnt # 0
    <3>1. InRegion' = InRegion
      BY <2>10, <2>2, <2>1, <1>1 DEF InRegion, TypeCore, Threads
    <3>. QED
      BY <3>1, <2>3, <2>5, <2>7, <2>8, <1>1 DEF SyncCovers, HighwayFrozen, IInv
  <2>. QED
    BY <2>9, <2>10
<1>. QED
  BY <1>3, <1>4, <1>5, <1>6 DEF ReaderNext

(* A writer's step moves only its own pc; InRegion, a set of readers, is   *)
(* left alone.  Leaving synchronize_sched_expedited with gp[w] empty means *)
(* no reader is in a region, and no reader can enter one while w is        *)
(* announced.                                                              *)
LEMMA WriterStepIInv ==
    ASSUME IInv, NEW w \in Writers, WriterNext(w)
    PROVE  IInv'
<1>. USE RPSAssumption
<1>1. TypeCore /\ WritersCount /\ SyncCovers /\ HighwayFrozen
  BY DEF IInv
<1>2. w \notin Readers
  OBVIOUS
<1>3. /\ IsFiniteSet(Announced)
      /\ Cardinality(Announced) \in Nat
  BY <1>1, AnnouncedFinite
<1>4. ASSUME NEW to \in WriterSteps, pc' = [pc EXCEPT ![w] = to]
      PROVE  /\ InRegion' = InRegion
             /\ pc' \in [Threads -> ReaderSteps \cup WriterSteps]
             /\ \A t \in Readers : pc'[t] \in ReaderSteps
             /\ \A t \in Writers : pc'[t] \in WriterSteps
             /\ \A v \in Writers \ {w} : pc'[v] = pc[v]
             /\ pc'[w] = to
  BY <1>4, <1>1, <1>2 DEF InRegion, TypeCore, Threads
<1>5. CASE rps_down_write(w)
  <2>1. /\ pc[w] = "idle"
        /\ writers_cnt' = writers_cnt + 1
        /\ gp' = [gp EXCEPT ![w] = InRegion]
        /\ pc' = [pc EXCEPT ![w] = "dw_sync"]
        /\ UNCHANGED <<highway_cnt, lowway_cnt, rw_sem, cpu>>
    BY <1>5 DEF rps_down_write
  <2>2. /\ InRegion' = InRegion
        /\ pc' \in [Threads -> ReaderSteps \cup WriterSteps]
        /\ \A t \in Readers : pc'[t] \in ReaderSteps
        /\ \A t \in Writers : pc'[t] \in WriterSteps
        /\ \A v \in Writers \ {w} : pc'[v] = pc[v]
        /\ pc'[w] = "dw_sync"
    BY <2>1, <1>4 DEF WriterSteps
  <2>3. Announced' = Announced \cup {w} /\ w \notin Announced
    BY <2>1, <2>2 DEF Announced
  <2>4. Cardinality(Announced') = Cardinality(Announced) + 1
    BY <2>3, <1>3, FS_AddElement
  <2>5. TypeCore'
    BY <2>1, <2>2, <1>1 DEF TypeCore, InRegion
  <2>6. WritersCount'
    BY <2>1, <2>4, <1>1 DEF WritersCount
  <2>7. SyncCovers'
    BY <2>1, <2>2, <1>1 DEF SyncCovers, TypeCore
  <2>8. HighwayFrozen'
    BY <2>1, <2>2, <1>1 DEF HighwayFrozen
  <2>. QED
    BY <2>5, <2>6, <2>7, <2>8 DEF IInv
<1>6. CASE DownWriteSync(w)
  <2>1. /\ pc[w] = "dw_sync" /\ gp[w] = {}
        /\ pc' = [pc EXCEPT ![w] = "dw_lock"]
        /\ UNCHANGED <<highway_cnt, lowway_cnt, writers_cnt, rw_sem, cpu, gp>>
    BY <1>6 DEF DownWriteSync, GracePeriodEnd
  <2>2. /\ InRegion' = InRegion
        /\ pc' \in [Threads -> ReaderSteps \cup WriterSteps]
        /\ \A t \in Readers : pc'[t] \in ReaderSteps
        /\ \A t \in Writers : pc'[t] \in WriterSteps
        /\ \A v \in Writers \ {w} : pc'[v] = pc[v]
        /\ pc'[w] = "dw_lock"
    BY <2>1, <1>4 DEF WriterSteps
  <2>3. InRegion = {}
    BY <2>1, <1>1 DEF SyncCovers
  <2>4. Announced' = Announced
    BY <2>1, <2>2 DEF Announced
  <2>. QED
    BY <2>1, <2>2, <2>3, <2>4, <1>1
       DEF TypeCore, WritersCount, SyncCovers, HighwayFrozen, IInv
<1>7. CASE DownWriteLock(w)
  <2>1. /\ pc[w] = "dw_lock" /\ rw_sem' = {w}
        /\ pc' = [pc EXCEPT ![w] = "dw_clear"]
        /\ UNCHANGED <<highway_cnt, lowway_cnt, writers_cnt, cpu, gp>>
    BY <1>7 DEF DownWriteLock
  <2>2. /\ InRegion' = InRegion
        /\ pc' \in [Threads -> ReaderSteps \cup WriterSteps]
        /\ \A t \in Readers : pc'[t] \in ReaderSteps
        /\ \A t \in Writers : pc'[t] \in WriterSteps
        /\ \A v \in Writers \ {w} : pc'[v] = pc[v]
        /\ pc'[w] = "dw_clear"
    BY <2>1, <1>4 DEF WriterSteps
  <2>3. InRegion = {}
    BY <2>1, <1>1 DEF HighwayFrozen
  <2>4. Announced' = Announced
    BY <2>1, <2>2 DEF Announced
  <2>. QED
    BY <2>1, <2>2, <2>3, <2>4, <1>1
       DEF TypeCore, WritersCount, SyncCovers, HighwayFrozen, IInv
<1>8. CASE clear_highway(w)
  <2>1. /\ pc[w] = "dw_clear"
        /\ highway_cnt' = [c \in CPUs |-> 0]
        /\ pc' = [pc EXCEPT ![w] = "dw_wait"]
        /\ UNCHANGED <<writers_cnt, rw_sem, cpu, gp>>
    BY <1>8 DEF clear_highway
  <2>2. /\ InRegion' = InRegion
        /\ pc' \in [Threads -> ReaderSteps \cup WriterSteps]
        /\ \A t \in Readers : pc'[t] \in ReaderSteps
        /\ \A t \in Writers : pc'[t] \in WriterSteps
        /\ \A v \in Writers \ {w} : pc'[v] = pc[v]
        /\ pc'[w] = "dw_wait"
    BY <2>1, <1>4 DEF WriterSteps
  <2>3. InRegion = {}
    BY <2>1, <1>1 DEF HighwayFrozen
  <2>4. Announced' = Announced
    BY <2>1, <2>2 DEF Announced
  <2>. QED
    BY <2>1, <2>2, <2>3, <2>4, <1>1
       DEF TypeCore, WritersCount, SyncCovers, HighwayFrozen, IInv
<1>9. CASE DownWriteWait(w)
  <2>1. /\ pc[w] = "dw_wait"
        /\ pc' = [pc EXCEPT ![w] = "cs"]
        /\ UNCHANGED <<highway_cnt, lowway_cnt, writers_cnt, rw_sem, cpu, gp>>
    BY <1>9 DEF DownWriteWait
  <2>2. /\ InRegion' = InRegion
        /\ pc' \in [Threads -> ReaderSteps \cup WriterSteps]
        /\ \A t \in Readers : pc'[t] \in ReaderSteps
        /\ \A t \in Writers : pc'[t] \in WriterSteps
        /\ \A v \in Writers \ {w} : pc'[v] = pc[v]
        /\ pc'[w] = "cs"
    BY <2>1, <1>4 DEF WriterSteps
  <2>3. Announced' = Announced
    BY <2>1, <2>2 DEF Announced
  <2>. QED
    BY <2>1, <2>2, <2>3, <1>1
       DEF TypeCore, WritersCount, SyncCovers, HighwayFrozen, IInv
<1>10. CASE rps_up_write(w)
  <2>1. /\ pc[w] = "cs" /\ rw_sem' = {}
        /\ gp' = [gp EXCEPT ![w] = InRegion]
        /\ pc' = [pc EXCEPT ![w] = "uw_sync"]
        /\ UNCHANGED <<highway_cnt, lowway_cnt, writers_cnt, cpu>>
    BY <1>10 DEF rps_up_write
  <2>2. /\ InRegion' = InRegion
        /\ pc' \in [Threads -> ReaderSteps \cup WriterSteps]
        /\ \A t \in Readers : pc'[t] \in ReaderSteps
        /\ \A t \in Writers : pc'[t] \in WriterSteps
        /\ \A v \in Writers \ {w} : pc'[v] = pc[v]
        /\ pc'[w] = "uw_sync"
    BY <2>1, <1>4 DEF WriterSteps
  <2>3. Announced' = Announced
    BY <2>1, <2>2 DEF Announced
  <2>. QED
    BY <2>1, <2>2, <2>3, <1>1
       DEF TypeCore, WritersCount, SyncCovers, HighwayFrozen, IInv, InRegion
<1>11. CASE UpWriteSync(w)
  <2>1. /\ pc[w] = "uw_sync"
        /\ pc' = [pc EXCEPT ![w] = "uw_dec"]
        /\ UNCHANGED <<highway_cnt, lowway_cnt, writers_cnt, rw_sem, cpu, gp>>
    BY <1>11 DEF UpWriteSync, GracePeriodEnd
  <2>2. /\ InRegion' = InRegion
        /\ pc' \in [Threads -> ReaderSteps \cup WriterSteps]
        /\ \A t \in Readers : pc'[t] \in ReaderSteps
        /\ \A t \in Writers : pc'[t] \in WriterSteps
        /\ \A v \in Writers \ {w} : pc'[v] = pc[v]
        /\ pc'[w] = "uw_dec"
    BY <2>1, <1>4 DEF WriterSteps
  <2>3. Announced' = Announced
    BY <2>1, <2>2 DEF Announced
  <2>. QED
    BY <2>1, <2>2, <2>3, <1>1
       DEF TypeCore, WritersCount, SyncCovers, HighwayFrozen, IInv
<1>12. CASE UpWriteDec(w)
  <2>1. /\ pc[w] = "uw_dec"
        /\ writers_cnt' = writers_cnt - 1
        /\ pc' = [pc EXCEPT ![w] = "idle"]
        /\ UNCHANGED <<highway_cnt, lowway_cnt, rw_sem, cpu, gp>>
    BY <1>12 DEF UpWriteDec
  <2>2. /\ InRegion' = InRegion
        /\ pc' \in [Threads -> ReaderSteps \cup WriterSteps]
        /\ \A t \in Readers : pc'[t] \in ReaderSteps
        /\ \A t \in Writers : pc'[t] \in WriterSteps
        /\ \A v \in Writers \ {w} : pc'[v] = pc[v]
        /\ pc'[w] = "idle"
    BY <2>1, <1>4 DEF WriterSteps
  <2>3. Announced' = Announced \ {w} /\ w \in Announced
    BY <2>1, <2>2 DEF Announced
  <2>4. Cardinality(Announced') = Cardinality(Announced) - 1
    BY <2>3, <1>3, FS_RemoveElement
  <2>5. WritersCount'
    BY <2>1, <2>4, <1>1 DEF WritersCount
  <2>. QED
    BY <2>1, <2>2, <2>5, <1>1
       DEF TypeCore, SyncCovers, HighwayFrozen, IInv
<1>. QED
  BY <1>5, <1>6, <1>7, <1>8, <1>9, <1>10, <1>11, <1>12 DEF WriterNext

(* Stuttering steps keep the invariant. *)
LEMMA StutterIInv == IInv /\ UNCHANGED vars => IInv'
  BY DEF IInv, TypeCore, WritersCount, Announced, SyncCovers, InRegion,
         HighwayFrozen, vars

(* HighwayFrozen holds in every reachable state of RPS: once a writer is   *)
(* past the synchronize_sched_expedited of rps_down_write and until it     *)
(* calls rps_up_write, no reader is inside go_highway, and after           *)
(* clear_highway the per-CPU counters stay zero.                           *)
THEOREM HighwayFrozenInvariant == Spec => []HighwayFrozen
<1>1. Init => IInv
  BY InitIInv
<1>2. IInv /\ [Next]_vars => IInv'
  BY ReaderStepIInv, WriterStepIInv, StutterIInv DEF Next
<1>3. IInv => HighwayFrozen
  BY DEF IInv
<1>. QED
  BY <1>1, <1>2, <1>3, PTL DEF Spec

=============================================================================
