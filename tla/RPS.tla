-------------------------------- MODULE RPS --------------------------------
(***************************************************************************)
(* The reader-preferring semaphore of src/Max/rps.c.                        *)
(*                                                                         *)
(* A reader normally takes the "highway": with preemption disabled it      *)
(* reads writers_cnt and, if no writer is announced, bumps the counter of   *)
(* the CPU it runs on.  Once a writer has announced itself, readers take   *)
(* the "lowway": they pass through the inner rw_semaphore and count        *)
(* themselves in lowway_cnt.  A writer announces itself, waits for a       *)
(* sched grace period (synchronize_sched_expedited), takes the inner       *)
(* semaphore for write, drains every per-CPU counter into lowway_cnt and   *)
(* waits for lowway_cnt to reach zero.                                     *)
(*                                                                         *)
(* Each thread is a reader or a writer.  A thread's pc names the next      *)
(* step of the function it is in; a reader inside a preemption-disabled    *)
(* region (go_highway) is pinned to cpu[t].  The grace period is modelled  *)
(* by the set gp[w] of threads that were inside such a region when writer  *)
(* w started waiting: the wait ends when all of them have left it.         *)
(***************************************************************************)
EXTENDS Integers, FiniteSets, Functions

CONSTANTS
    CPUs,           \* for_each_possible_cpu
    Readers,        \* threads calling rps_down_read / rps_up_read
    Writers,        \* threads calling rps_down_write / rps_up_write
    HighwayBound    \* bound on |highway_cnt[c]|: a reader may leave on a
                    \* different CPU from the one it entered on, so a single
                    \* per-CPU counter drifts without limit between writers

ASSUME RPSAssumption ==
    /\ CPUs # {} /\ IsFiniteSet(CPUs)
    /\ Readers \cap Writers = {}
    /\ IsFiniteSet(Writers)
    /\ HighwayBound \in Nat \ {0}

VARIABLES
    highway_cnt,    \* [CPUs -> Int], the per-CPU reader counters
    lowway_cnt,     \* atomic_t lowway_cnt
    writers_cnt,    \* atomic_t writers_cnt
    rw_sem,         \* the set of writers holding the inner rw_semaphore
    pc,             \* [Readers \cup Writers -> step]
    cpu,            \* the CPU a reader's preemption-disabled region runs on
    gp              \* [Writers -> set of readers a grace period waits for]

vars == <<highway_cnt, lowway_cnt, writers_cnt, rw_sem, pc, cpu, gp>>

Threads == Readers \cup Writers

ReaderSteps == {"idle", "dr_hw", "dr_lw", "dt_lw", "cs", "ur_hw", "ur_lw"}
WriterSteps == {"idle", "dw_sync", "dw_lock", "dw_clear", "dw_wait",
                "cs", "uw_sync", "uw_dec"}

(* Readers inside the preempt_disable() region of go_highway. *)
InRegion == {t \in Readers : pc[t] \in {"dr_hw", "ur_hw"}}

(* Readers that are counted: their increment is done, their decrement not. *)
Holders == {t \in Readers : pc[t] \in {"cs", "ur_hw", "ur_lw"}}

(* CPUs on which adding d keeps the per-CPU counter within the bound.     *)
FitCPUs(d) == {c \in CPUs : highway_cnt[c] + d \in -HighwayBound..HighwayBound}

LeaveRegion(t) == gp' = [w \in Writers |-> gp[w] \ {t}]

TypeOK ==
    /\ highway_cnt \in [CPUs -> Int]
    /\ lowway_cnt \in Int
    /\ writers_cnt \in Nat
    /\ rw_sem \subseteq Writers
    /\ pc \in [Threads -> ReaderSteps \cup WriterSteps]
    /\ \A t \in Readers : pc[t] \in ReaderSteps
    /\ \A t \in Writers : pc[t] \in WriterSteps
    /\ cpu \in [Readers -> CPUs]
    /\ gp \in [Writers -> SUBSET Readers]

Init ==
    /\ highway_cnt = [c \in CPUs |-> 0]
    /\ lowway_cnt = 0
    /\ writers_cnt = 0
    /\ rw_sem = {}
    /\ pc = [t \in Threads |-> "idle"]
    /\ cpu \in [Readers -> CPUs]
    /\ gp = [w \in Writers |-> {}]

-----------------------------------------------------------------------------
(* rps_down_read / rps_down_read_try_lock, first half of go_highway(+1):   *)
(* with preemption disabled on some CPU, read writers_cnt.  When it is 0   *)
(* the region stays open until the per-CPU add; otherwise it closes and    *)
(* the reader falls back to go_lowway (or to down_read_trylock).           *)
GoHighwayEnter(t, lowStep) ==
    /\ pc[t] = "idle"
    /\ \E c \in FitCPUs(1) :
         IF writers_cnt = 0
           THEN pc' = [pc EXCEPT ![t] = "dr_hw"] /\ cpu' = [cpu EXCEPT ![t] = c]
           ELSE pc' = [pc EXCEPT ![t] = lowStep] /\ UNCHANGED cpu
    /\ UNCHANGED <<highway_cnt, lowway_cnt, writers_cnt, rw_sem, gp>>

rps_down_read(t) == GoHighwayEnter(t, "dr_lw")

rps_down_read_try_lock(t) == GoHighwayEnter(t, "dt_lw")

(* The highway add with its preempt_enable left out: the region never   *)
(* ends for a grace period that began while it was open.                *)
DownReadHighwayNoPreemptEnable(t) ==
    /\ pc[t] = "dr_hw"
    /\ highway_cnt' = [highway_cnt EXCEPT ![cpu[t]] = @ + 1]
    /\ pc' = [pc EXCEPT ![t] = "cs"]
    /\ UNCHANGED <<lowway_cnt, writers_cnt, rw_sem, cpu, gp>>

(* this_cpu_add(+1) and preempt_enable: the reader holds the lock. *)
DownReadHighway(t) ==
    /\ pc[t] = "dr_hw"
    /\ highway_cnt' = [highway_cnt EXCEPT ![cpu[t]] = @ + 1]
    /\ pc' = [pc EXCEPT ![t] = "cs"]
    /\ LeaveRegion(t)
    /\ UNCHANGED <<lowway_cnt, writers_cnt, rw_sem, cpu>>

(* go_lowway taking rw_sem with down_read_trylock and returning unlocked *)
(* when a writer holds it.                                                  *)
go_lowway_trylock(t) ==
    /\ pc[t] = "dr_lw"
    /\ IF rw_sem = {}
         THEN lowway_cnt' = lowway_cnt + 1 /\ pc' = [pc EXCEPT ![t] = "cs"]
         ELSE UNCHANGED lowway_cnt /\ pc' = [pc EXCEPT ![t] = "idle"]
    /\ UNCHANGED <<highway_cnt, writers_cnt, rw_sem, cpu, gp>>

(* go_lowway: down_read(rw_sem); atomic_inc(lowway_cnt); up_read(rw_sem). *)
go_lowway(t) ==
    /\ pc[t] = "dr_lw"
    /\ rw_sem = {}
    /\ lowway_cnt' = lowway_cnt + 1
    /\ pc' = [pc EXCEPT ![t] = "cs"]
    /\ UNCHANGED <<highway_cnt, writers_cnt, rw_sem, cpu, gp>>

(* The slow half of rps_down_read_try_lock: down_read_trylock fails while  *)
(* a writer holds rw_sem and the call returns 0.                           *)
DownReadTryLowway(t) ==
    /\ pc[t] = "dt_lw"
    /\ IF rw_sem = {}
         THEN lowway_cnt' = lowway_cnt + 1 /\ pc' = [pc EXCEPT ![t] = "cs"]
         ELSE UNCHANGED lowway_cnt /\ pc' = [pc EXCEPT ![t] = "idle"]
    /\ UNCHANGED <<highway_cnt, writers_cnt, rw_sem, cpu, gp>>

(* rps_up_read, first half of go_highway(-1), possibly on another CPU. *)
rps_up_read(t) ==
    /\ pc[t] = "cs"
    /\ \E c \in FitCPUs(-1) :
         IF writers_cnt = 0
           THEN pc' = [pc EXCEPT ![t] = "ur_hw"] /\ cpu' = [cpu EXCEPT ![t] = c]
           ELSE pc' = [pc EXCEPT ![t] = "ur_lw"] /\ UNCHANGED cpu
    /\ UNCHANGED <<highway_cnt, lowway_cnt, writers_cnt, rw_sem, gp>>

UpReadHighway(t) ==
    /\ pc[t] = "ur_hw"
    /\ highway_cnt' = [highway_cnt EXCEPT ![cpu[t]] = @ - 1]
    /\ pc' = [pc EXCEPT ![t] = "idle"]
    /\ LeaveRegion(t)
    /\ UNCHANGED <<lowway_cnt, writers_cnt, rw_sem, cpu>>

(* atomic_dec_and_test(lowway_cnt); the wake_up_all is the writer's guard. *)
UpReadLowway(t) ==
    /\ pc[t] = "ur_lw"
    /\ lowway_cnt' = lowway_cnt - 1
    /\ pc' = [pc EXCEPT ![t] = "idle"]
    /\ UNCHANGED <<highway_cnt, writers_cnt, rw_sem, cpu, gp>>

-----------------------------------------------------------------------------
(* rps_down_write: atomic_inc(writers_cnt), then synchronize_sched_expedited *)
(* starts waiting for the readers now inside a preemption-disabled region. *)
rps_down_write(w) ==
    /\ pc[w] = "idle"
    /\ writers_cnt' = writers_cnt + 1
    /\ gp' = [gp EXCEPT ![w] = InRegion]
    /\ pc' = [pc EXCEPT ![w] = "dw_sync"]
    /\ UNCHANGED <<highway_cnt, lowway_cnt, rw_sem, cpu>>

GracePeriodEnd(w, from, to) ==
    /\ pc[w] = from
    /\ gp[w] = {}
    /\ pc' = [pc EXCEPT ![w] = to]
    /\ UNCHANGED <<highway_cnt, lowway_cnt, writers_cnt, rw_sem, cpu, gp>>

(* rps_down_write without its synchronize_sched_expedited. *)
DownWriteNoSync(w) ==
    /\ pc[w] = "dw_sync"
    /\ pc' = [pc EXCEPT ![w] = "dw_lock"]
    /\ UNCHANGED <<highway_cnt, lowway_cnt, writers_cnt, rw_sem, cpu, gp>>

DownWriteSync(w) == GracePeriodEnd(w, "dw_sync", "dw_lock")

(* down_write(&rps->rw_sem) *)
DownWriteLock(w) ==
    /\ pc[w] = "dw_lock"
    /\ rw_sem = {}
    /\ rw_sem' = {w}
    /\ pc' = [pc EXCEPT ![w] = "dw_clear"]
    /\ UNCHANGED <<highway_cnt, lowway_cnt, writers_cnt, cpu, gp>>

(* clear_highway zeroing the per-CPU counters with its result dropped     *)
(* instead of added to lowway_cnt.                                         *)
clear_highway_dropped(w) ==
    /\ pc[w] = "dw_clear"
    /\ highway_cnt' = [c \in CPUs |-> 0]
    /\ pc' = [pc EXCEPT ![w] = "dw_wait"]
    /\ UNCHANGED <<lowway_cnt, writers_cnt, rw_sem, cpu, gp>>

(* atomic_add(clear_highway(rps), &lowway_cnt) *)
clear_highway(w) ==
    /\ pc[w] = "dw_clear"
    /\ lowway_cnt' = lowway_cnt + SumFunction(highway_cnt)
    /\ highway_cnt' = [c \in CPUs |-> 0]
    /\ pc' = [pc EXCEPT ![w] = "dw_wait"]
    /\ UNCHANGED <<writers_cnt, rw_sem, cpu, gp>>

(* The wait ending while one reader is still counted. *)
DownWriteWaitOffByOne(w) ==
    /\ pc[w] = "dw_wait"
    /\ lowway_cnt <= 1
    /\ pc' = [pc EXCEPT ![w] = "cs"]
    /\ UNCHANGED <<highway_cnt, lowway_cnt, writers_cnt, rw_sem, cpu, gp>>

(* wait_event(writers_wait_q, !atomic_read(&lowway_cnt)) *)
DownWriteWait(w) ==
    /\ pc[w] = "dw_wait"
    /\ lowway_cnt = 0
    /\ pc' = [pc EXCEPT ![w] = "cs"]
    /\ UNCHANGED <<highway_cnt, lowway_cnt, writers_cnt, rw_sem, cpu, gp>>

(* rps_up_write: up_write(rw_sem), then synchronize_sched_expedited. *)
rps_up_write(w) ==
    /\ pc[w] = "cs"
    /\ rw_sem' = {}
    /\ gp' = [gp EXCEPT ![w] = InRegion]
    /\ pc' = [pc EXCEPT ![w] = "uw_sync"]
    /\ UNCHANGED <<highway_cnt, lowway_cnt, writers_cnt, cpu>>

UpWriteSync(w) == GracePeriodEnd(w, "uw_sync", "uw_dec")

(* The final atomic_dec repeated. *)
UpWriteDecRepeated(w) ==
    /\ pc[w] = "uw_dec"
    /\ writers_cnt' = writers_cnt - 1
    /\ UNCHANGED <<highway_cnt, lowway_cnt, rw_sem, pc, cpu, gp>>

(* atomic_dec(writers_cnt) *)
UpWriteDec(w) ==
    /\ pc[w] = "uw_dec"
    /\ writers_cnt' = writers_cnt - 1
    /\ pc' = [pc EXCEPT ![w] = "idle"]
    /\ UNCHANGED <<highway_cnt, lowway_cnt, rw_sem, cpu, gp>>

-----------------------------------------------------------------------------
ReaderNext(t) ==
    \/ rps_down_read(t) \/ rps_down_read_try_lock(t)
    \/ DownReadHighway(t) \/ go_lowway(t) \/ DownReadTryLowway(t)
    \/ rps_up_read(t) \/ UpReadHighway(t) \/ UpReadLowway(t)

WriterNext(w) ==
    \/ rps_down_write(w) \/ DownWriteSync(w) \/ DownWriteLock(w)
    \/ clear_highway(w) \/ DownWriteWait(w)
    \/ rps_up_write(w) \/ UpWriteSync(w) \/ UpWriteDec(w)

Next == (\E t \in Readers : ReaderNext(t)) \/ (\E w \in Writers : WriterNext(w))

(***************************************************************************)
(* Fairness.  A thread that has entered one of the functions keeps being   *)
(* scheduled (weak fairness of every step after the first), and readers    *)
(* and writers leave their critical sections (the users of rps hold it     *)
(* around a bounded piece of work).  Waiting for the inner rw_semaphore is *)
(* strongly fair: the kernel rwsem queues its waiters in order.  Nothing   *)
(* forces a thread to call rps_down_read or rps_down_write.                *)
(***************************************************************************)
Fairness ==
    /\ \A t \in Readers :
         /\ WF_vars(DownReadHighway(t)) /\ SF_vars(go_lowway(t))
         /\ WF_vars(DownReadTryLowway(t)) /\ WF_vars(rps_up_read(t))
         /\ WF_vars(UpReadHighway(t)) /\ WF_vars(UpReadLowway(t))
    /\ \A w \in Writers :
         /\ WF_vars(DownWriteSync(w)) /\ SF_vars(DownWriteLock(w))
         /\ WF_vars(clear_highway(w)) /\ WF_vars(DownWriteWait(w))
         /\ WF_vars(rps_up_write(w)) /\ WF_vars(UpWriteSync(w))
         /\ WF_vars(UpWriteDec(w))

Spec == Init /\ [][Next]_vars

FairSpec == Spec /\ Fairness

-----------------------------------------------------------------------------
(* Mutual exclusion: when rps_down_write has returned, no reader that went *)
(* through rps_down_read (highway or lowway) is still inside, and no other *)
(* writer is.  This is what the grace period and the drain of the per-CPU *)
(* counters into lowway_cnt are for.                                       *)
WriterExclusion ==
    \A w \in Writers : pc[w] = "cs" =>
        /\ Holders = {}
        /\ \A v \in Writers \ {w} : pc[v] # "cs"

(* The grace period of rps_down_write has done its job: from the end of   *)
(* synchronize_sched_expedited until rps_up_write, no reader is inside a   *)
(* go_highway region, and once clear_highway has drained the per-CPU       *)
(* counters they stay zero.  clear_highway reads and zeroes each counter   *)
(* with two plain accesses; this is why no this_cpu_add can fall between. *)
HighwayFrozen ==
    \A w \in Writers :
        /\ pc[w] \in {"dw_lock", "dw_clear", "dw_wait", "cs"} => InRegion = {}
        /\ pc[w] \in {"dw_wait", "cs"} => \A c \in CPUs : highway_cnt[c] = 0

(* The accounting that the drain relies on: the per-CPU highway counters   *)
(* and lowway_cnt together count exactly the readers inside, even though a *)
(* reader may enter on one path and CPU and leave on another.              *)
ReaderAccounting ==
    SumFunction(highway_cnt) + lowway_cnt = Cardinality(Holders)

(* rps_down_write eventually returns, and so does rps_down_read.           *)
WriterProgress == \A w \in Writers : pc[w] = "dw_sync" ~> pc[w] = "cs"

ReaderProgress == \A t \in Readers : pc[t] \in {"dr_hw", "dr_lw"} ~> pc[t] = "cs"
=============================================================================
