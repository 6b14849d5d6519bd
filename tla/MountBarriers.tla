---------------------------- MODULE MountBarriers ----------------------------
(***************************************************************************)
(* The barriers of the mntput() protocol, from dat3m/mnt_gp.c: one mount,  *)
(* an unmounter and either a holder or a walker, in the scenarios of that  *)
(* file.  MountPut takes memory to be sequentially consistent; here every  *)
(* store goes through a buffer of the thread that made it and may become   *)
(* visible after later ones, unless a barrier keeps them apart, and the    *)
(* loads of one pass of mnt_get_count() happen in any order.  All other    *)
(* loads happen in program order.                                          *)
(***************************************************************************)
EXTENDS Integers, Sequences, FiniteSets, SequencesExt

CONSTANTS
    NR_CPUS,    \* per-CPU slots of a counter
    Scenarios   \* which of the SCEN_* to run

T0 == 0         \* the holder or the walker
T1 == 1         \* the unmounter
Threads == {T0, T1}

HCPU == 0
UCPU == 1
WCPU == 0

ASSUME ScenarioAssumption ==
    /\ NR_CPUS \in Nat /\ NR_CPUS >= 2
    /\ Scenarios \subseteq {"A1", "A1MIG", "A2", "B1", "B2", "C1", "C2", "D1"}
    /\ "A1MIG" \in Scenarios => NR_CPUS >= 3

MNT_SYNC_UMOUNT == 1
MNT_DOOMED      == 2

VARIABLES
    scen,       \* the scenario of this run
    mem,        \* what is in memory
    buf,        \* each thread's stores that are not, and its smp_wmb()s
    pc,         \* where each thread is
    in_rcu,     \* is it inside a read section?
    todo, sum,  \* mnt_get_count(): slots still to be read, sum so far
    saw         \* what the threads saw, for the assertions at the end

vars == <<scen, mem, buf, pc, in_rcu, todo, sum, saw>>

(* A place in memory is a slot of a per-CPU counter, or a variable.        *)
Slots(counter) == {<<counter, c>> : c \in 0 .. NR_CPUS - 1}
mnt_ns     == <<"mnt_ns", 0>>
flags      == <<"flags", 0>>
freed      == <<"freed", 0>>
mount_lock == <<"mount_lock", 0>>
mount_seq  == <<"mount_seq", 0>>
Locations  == Slots("gets") \cup Slots("puts")
                \cup {mnt_ns, flags, freed, mount_lock, mount_seq}

-----------------------------------------------------------------------------
(* Memory *)

Store(loc, val) == [loc |-> loc, val |-> val]
WMB == Store(<<"smp_wmb", 0>>, 0)

(* A thread reads its own latest store, or memory.                         *)
READ_ONCE(t, loc) ==
    LET own == {i \in DOMAIN buf[t] : buf[t][i].loc = loc}
    IN IF own = {} THEN mem[loc] ELSE buf[t][Max(own)].val

(* The stores (and barriers) of seq enter t's buffer.                      *)
WRITE_ONCE(t, seq) == buf' = [buf EXCEPT ![t] = @ \o seq]

(* smp_mb(): all earlier stores are in memory.                             *)
smp_mb(t) == \A i \in DOMAIN buf[t] : buf[t][i] = WMB

(* A store reaches memory: not before an earlier one to the same place, or *)
(* one from before an smp_wmb().                                           *)
Drain(t) ==
    /\ \E i \in DOMAIN buf[t] :
         /\ buf[t][i] # WMB
         /\ \A j \in 1 .. i - 1 :
              IF buf[t][j] = WMB THEN \A n \in 1 .. j : buf[t][n] = WMB
                                 ELSE buf[t][j].loc # buf[t][i].loc
         /\ mem' = [mem EXCEPT ![buf[t][i].loc] = buf[t][i].val]
         /\ buf' = [buf EXCEPT ![t] = RemoveAt(@, i)]
    /\ UNCHANGED <<scen, pc, in_rcu, todo, sum, saw>>

At(t, label)   == pc[t] = label
Goto(t, label) == pc' = [pc EXCEPT ![t] = label]

Inc(t, loc) == Store(loc, READ_ONCE(t, loc) + 1)
Set(t, bit) == LET f == READ_ONCE(t, flags)
               IN Store(flags, IF f \in {bit, 3} THEN f ELSE f + bit)

(* spin_lock() is an atomic operation on memory, spin_unlock() a store     *)
(* with release semantics; both sides write the sequence count.            *)
spin_lock ==
    /\ mem[mount_lock] = 0
    /\ mem' = [mem EXCEPT ![mount_lock] = 1]

lock_mount_hash(t) ==
    /\ spin_lock
    /\ WRITE_ONCE(t, <<Inc(t, mount_seq), WMB>>)

unlock_stores(t) == <<WMB, Inc(t, mount_seq), WMB, Store(mount_lock, 0)>>

(* The other thread may be inside its read section when the grace period   *)
(* begins; it ends when the thread has left the section and the stores it  *)
(* made there are visible.  A section that begins later sees all that came *)
(* before the grace period, as if that had been over at once.              *)
(* Mutant: MUT_NOGP, a mere barrier.                                       *)
synchronize_rcu_NoGp(t) == smp_mb(t)

synchronize_rcu(t) ==
    /\ smp_mb(t)
    /\ \A o \in Threads \ {t} : ~in_rcu[o] /\ (At(o, "done") => smp_mb(o))

-----------------------------------------------------------------------------
(* mnt_get_count(), under mount_lock *)

StartCount(t) ==
    /\ todo' = [todo EXCEPT ![t] = Slots("puts") \cup Slots("gets")]
    /\ sum' = [sum EXCEPT ![t] = 0]
    /\ Goto(t, "count")

(* Mutant: MUT_NOMB_IN_SUM, the two passes are not kept apart.             *)
mnt_get_count_NoMb(t) == todo[t]

(* The slots that may be loaded next: those of puts in any order and then, *)
(* after a full barrier, those of gets.  (sum_slots() knows three of each; *)
(* what else NR_CPUS may give is nobody's and reads as zero.)              *)
mnt_get_count(t) ==
    LET puts == todo[t] \cap Slots("puts")
    IN IF puts # {} THEN puts ELSE IF smp_mb(t) THEN todo[t] ELSE {}

sum_slots(t) ==
    /\ At(t, "count")
    /\ \E s \in mnt_get_count(t) :
         /\ todo' = [todo EXCEPT ![t] = @ \ {s}]
         /\ sum' = [sum EXCEPT ![t] = IF s[1] = "puts" THEN @ - READ_ONCE(t, s)
                                                       ELSE @ + READ_ONCE(t, s)]
         /\ Goto(t, IF todo[t] = {s} THEN "counted" ELSE "count")
    /\ UNCHANGED <<scen, mem, buf, in_rcu, saw>>

mntput_final_stores(t) == <<Set(t, MNT_DOOMED), Inc(t, freed)>>

-----------------------------------------------------------------------------
(* mntput_no_expire() *)

put_cpu(t) == IF t = T1 THEN UCPU ELSE IF scen = "A1MIG" THEN 2 ELSE HCPU

mnt_dec_count(t, cpu) == <<Inc(t, <<"puts", cpu>>)>>

PutBegin(t) ==
    /\ At(t, "put")
    /\ in_rcu' = [in_rcu EXCEPT ![t] = TRUE]
    /\ Goto(t, "put_ns")
    /\ UNCHANGED <<scen, mem, buf, todo, sum, saw>>

(* Mutant: MUT_NOWMB.                                                      *)
put_barrier_None == <<>>

(* The put is not visible before the get it drops.                         *)
put_barrier == <<WMB>>

mntput_no_expire(t) ==
    /\ At(t, "put_ns")
    /\ IF READ_ONCE(t, mnt_ns) # 0
       THEN /\ WRITE_ONCE(t, put_barrier \o mnt_dec_count(t, put_cpu(t)))
            /\ saw' = [saw EXCEPT !.path[t] = "fast"]
            /\ Goto(t, IF scen = "D1" THEN "recheck" ELSE "put_end")
       ELSE /\ Goto(t, "slow_lock")
            /\ UNCHANGED <<buf, saw>>
    /\ UNCHANGED <<scen, mem, in_rcu, todo, sum>>

(* Mutant: MUT_DEKKER_WMB.                                                 *)
recheck_barrier_Wmb(t) == TRUE

(* The put is visible before mnt_ns is read again.                         *)
recheck_barrier(t) == smp_mb(t)

Recheck(t) ==
    /\ At(t, "recheck")
    /\ recheck_barrier(t)
    /\ saw' = [saw EXCEPT !.ns2 = READ_ONCE(t, mnt_ns)]
    /\ Goto(t, "put_end")
    /\ UNCHANGED <<scen, mem, buf, in_rcu, todo, sum>>

PutEnd(t) ==
    /\ At(t, "put_end")
    /\ in_rcu' = [in_rcu EXCEPT ![t] = FALSE]
    /\ Goto(t, "done")
    /\ UNCHANGED <<scen, mem, buf, todo, sum, saw>>

SlowLock(t) ==
    /\ At(t, "slow_lock")
    /\ lock_mount_hash(t)
    /\ Goto(t, "slow_dec")
    /\ UNCHANGED <<scen, in_rcu, todo, sum, saw>>

SlowDec(t) ==
    /\ At(t, "slow_dec")
    /\ smp_mb(t)
    /\ WRITE_ONCE(t, mnt_dec_count(t, put_cpu(t)))
    /\ StartCount(t)
    /\ UNCHANGED <<scen, mem, in_rcu, saw>>

slow_result(t) ==
    IF sum[t] # 0 THEN "slow_held"
    ELSE IF READ_ONCE(t, flags) \in {MNT_DOOMED, 3} THEN "slow_doomed"
    ELSE "slow_final"

IsSlowPut(t) == t = T0 \/ saw.fallback

mntput_no_expire_slowpath(t) ==
    /\ At(t, "counted") /\ IsSlowPut(t)
    /\ saw' = [saw EXCEPT !.path[t] = slow_result(t), !.slow[t] = sum[t]]
    /\ WRITE_ONCE(t, (IF slow_result(t) = "slow_final" THEN mntput_final_stores(t) ELSE <<>>)
                     \o unlock_stores(t))
    /\ in_rcu' = [in_rcu EXCEPT ![t] = FALSE]
    /\ Goto(t, "done")
    /\ UNCHANGED <<scen, mem, todo, sum>>

-----------------------------------------------------------------------------
(* T0: a holder *)

(* In A1, A1MIG and C1 it takes and drops another reference, in the others *)
(* it drops the one it has.                                                *)
HolderGet ==
    /\ At(T0, "holder")
    /\ IF scen \in {"A1", "A1MIG", "C1"}
       THEN WRITE_ONCE(T0, <<Inc(T0, <<"gets", HCPU>>)>>)
       ELSE UNCHANGED buf
    /\ Goto(T0, "put")
    /\ UNCHANGED <<scen, mem, in_rcu, todo, sum, saw>>

Mntput(t) ==
    \/ PutBegin(t) \/ mntput_no_expire(t) \/ Recheck(t) \/ PutEnd(t)
    \/ SlowLock(t) \/ SlowDec(t) \/ sum_slots(t)
    \/ mntput_no_expire_slowpath(t)

holder == HolderGet \/ Mntput(T0)

-----------------------------------------------------------------------------
(* T0: a walker, that began before the umount *)

WalkerBegin ==
    /\ At(T0, "walker")
    /\ in_rcu' = [in_rcu EXCEPT ![T0] = TRUE]
    /\ Goto(T0, "seqbegin")
    /\ UNCHANGED <<scen, mem, buf, todo, sum, saw>>

read_seqbegin ==
    /\ At(T0, "seqbegin")
    /\ READ_ONCE(T0, mount_seq) = 0
    /\ Goto(T0, "legit")
    /\ UNCHANGED <<scen, mem, buf, in_rcu, todo, sum, saw>>

read_seqretry == READ_ONCE(T0, mount_seq) # 0

LegitimizeBegin ==
    /\ At(T0, "legit")
    /\ IF read_seqretry
       THEN /\ saw' = [saw EXCEPT !.r1 = TRUE, !.res = 1]
            /\ Goto(T0, "walker_end")
            /\ UNCHANGED buf
       ELSE /\ WRITE_ONCE(T0, <<Inc(T0, <<"gets", WCPU>>)>>)
            /\ Goto(T0, "legit_retry")
            /\ UNCHANGED saw
    /\ UNCHANGED <<scen, mem, in_rcu, todo, sum>>

(* Mutant: MUT_WALKER_NOMB.                                                *)
legit_barrier_None == TRUE

(* The increment is visible before the sequence count is read again.       *)
legit_barrier == smp_mb(T0)

LegitimizeRetry ==
    /\ At(T0, "legit_retry")
    /\ legit_barrier
    /\ IF read_seqretry
       THEN saw' = [saw EXCEPT !.r2 = TRUE] /\ Goto(T0, "legit_lock")
       ELSE saw' = [saw EXCEPT !.res = 0] /\ Goto(T0, "walker_end")
    /\ UNCHANGED <<scen, mem, buf, in_rcu, todo, sum>>

(* Mutant: MUT_FLAGS_UNLOCKED, mnt_flags is read without mount_lock.       *)
LegitimizeLock_Unlocked ==
    /\ At(T0, "legit_lock")
    /\ LET f == READ_ONCE(T0, flags) IN
       /\ saw' = [saw EXCEPT !.flags = f, !.res = IF f # 0 THEN 1 ELSE -1]
       /\ WRITE_ONCE(T0, IF f # 0 THEN mnt_dec_count(T0, WCPU) ELSE <<>>)
    /\ Goto(T0, "walker_end")
    /\ UNCHANGED <<scen, mem, in_rcu, todo, sum>>

LegitimizeLock ==
    /\ At(T0, "legit_lock")
    /\ lock_mount_hash(T0)
    /\ Goto(T0, "legit_flags")
    /\ UNCHANGED <<scen, in_rcu, todo, sum, saw>>

LegitimizeFlags ==
    /\ At(T0, "legit_flags")
    /\ LET f == READ_ONCE(T0, flags) IN
       /\ saw' = [saw EXCEPT !.flags = f, !.res = IF f # 0 THEN 1 ELSE -1]
       /\ WRITE_ONCE(T0, (IF f # 0 THEN mnt_dec_count(T0, WCPU) ELSE <<>>)
                         \o unlock_stores(T0))
    /\ Goto(T0, "walker_end")
    /\ UNCHANGED <<scen, mem, in_rcu, todo, sum>>

WalkerEnd ==
    /\ At(T0, "walker_end")
    /\ in_rcu' = [in_rcu EXCEPT ![T0] = FALSE]
    /\ Goto(T0, "done")
    /\ UNCHANGED <<scen, mem, buf, todo, sum, saw>>

walker == WalkerBegin \/ read_seqbegin \/ LegitimizeBegin \/ LegitimizeRetry
            \/ LegitimizeLock \/ LegitimizeFlags \/ WalkerEnd

-----------------------------------------------------------------------------
(* T1: the unmounter *)

(* kern_unmount_array() of C1 and C2 clears mnt_ns without the lock.       *)
mnt_make_shortterm ==
    /\ At(T1, "unmount") /\ scen \in {"C1", "C2"}
    /\ WRITE_ONCE(T1, <<Store(mnt_ns, 0)>>)
    /\ Goto(T1, "peek_lock")
    /\ UNCHANGED <<scen, mem, in_rcu, todo, sum, saw>>

UmountLock ==
    /\ At(T1, "unmount") /\ scen \notin {"C1", "C2"}
    /\ lock_mount_hash(T1)
    /\ Goto(T1, "tree")
    /\ UNCHANGED <<scen, in_rcu, todo, sum, saw>>

umount_tree ==
    /\ At(T1, "tree")
    /\ WRITE_ONCE(T1, <<Store(mnt_ns, 0)>>
                      \o (IF scen = "B1" THEN <<Set(T1, MNT_SYNC_UMOUNT)>> ELSE <<>>)
                      \o unlock_stores(T1))
    /\ Goto(T1, "peek_lock")
    /\ UNCHANGED <<scen, mem, in_rcu, todo, sum, saw>>

PeekLock ==
    /\ At(T1, "peek_lock")
    /\ lock_mount_hash(T1)
    /\ Goto(T1, "peek")
    /\ UNCHANGED <<scen, in_rcu, todo, sum, saw>>

Peek ==
    /\ At(T1, "peek")
    /\ smp_mb(T1)
    /\ StartCount(T1)
    /\ UNCHANGED <<scen, mem, buf, in_rcu, saw>>

(* A mount with a count of one is finished at once, the others after a     *)
(* grace period.                                                           *)
mntput_unheld ==
    LET unheld == sum[T1] = 1 IN
    /\ At(T1, "counted") /\ ~IsSlowPut(T1) /\ scen # "D1"
    /\ saw' = [saw EXCEPT !.peek = sum[T1], !.fallback = ~unheld]
    /\ WRITE_ONCE(T1, (IF unheld THEN mnt_dec_count(T1, UCPU) \o mntput_final_stores(T1)
                                 ELSE <<>>)
                      \o unlock_stores(T1))
    /\ Goto(T1, IF unheld THEN "done" ELSE "gp")
    /\ UNCHANGED <<scen, mem, in_rcu, todo, sum>>

(* The variant of D1 only looks.                                           *)
dekker_peek ==
    /\ At(T1, "counted") /\ scen = "D1"
    /\ saw' = [saw EXCEPT !.peek = sum[T1]]
    /\ WRITE_ONCE(T1, unlock_stores(T1))
    /\ Goto(T1, "done")
    /\ UNCHANGED <<scen, mem, in_rcu, todo, sum>>

mntput_unmounted ==
    /\ At(T1, "gp")
    /\ synchronize_rcu(T1)
    /\ Goto(T1, "put")
    /\ UNCHANGED <<scen, mem, buf, in_rcu, todo, sum, saw>>

unmounter == mnt_make_shortterm \/ UmountLock \/ umount_tree \/ PeekLock \/ Peek
               \/ mntput_unheld \/ dekker_peek \/ mntput_unmounted \/ Mntput(T1)

-----------------------------------------------------------------------------
(* The specification *)

IsWalk(s) == s \in {"B1", "B2"}

Init ==
    /\ scen \in Scenarios
    /\ mem = [l \in Locations |->
                IF l \in {mnt_ns, <<"gets", UCPU>>} THEN 1
                ELSE IF l = <<"gets", HCPU>> /\ ~IsWalk(scen) THEN 1 ELSE 0]
    /\ buf = [t \in Threads |-> <<>>]
    /\ pc = [t \in Threads |-> IF t = T1 THEN "unmount"
                               ELSE IF IsWalk(scen) THEN "walker" ELSE "holder"]
    /\ in_rcu = [t \in Threads |-> FALSE]
    /\ todo = [t \in Threads |-> {}]
    /\ sum = [t \in Threads |-> 0]
    /\ saw = [path |-> [t \in Threads |-> "none"], slow |-> [t \in Threads |-> 0],
              ns2 |-> 0, peek |-> 0, fallback |-> FALSE,
              res |-> 1, r1 |-> FALSE, r2 |-> FALSE, flags |-> 0]

Drained == \A t \in Threads : smp_mb(t)
Joined  == Drained /\ \A t \in Threads : At(t, "done")

(* A walk that began after the umount is not looked at.                    *)
LateWalk == At(T0, "seqbegin") /\ READ_ONCE(T0, mount_seq) # 0

Finished == (Joined \/ LateWalk) /\ UNCHANGED vars

Next == holder \/ walker \/ unmounter \/ (\E t \in Threads : Drain(t)) \/ Finished

Spec == Init /\ [][Next]_vars

-----------------------------------------------------------------------------
(* Properties: the assertions main() makes after the joins *)

(* MNT-A1, A1MIG, C1: the mount is never finished under a holder that only *)
(* took and dropped an extra reference, even if it migrated in between.    *)
HeldIsNotFreed == scen \in {"A1", "A1MIG", "C1"} => mem[freed] = 0

(* MNT-A2, C2: the slow put after the grace period does not miss a put of  *)
(* the fast path; both references dropped, the mount is finished.          *)
NoPutIsMissed ==
    scen \in {"A2", "C2"} /\ Joined =>
        /\ ~(saw.path[T0] = "fast" /\ saw.fallback /\ saw.slow[T1] # 0)
        /\ mem[freed] = 1

(* MNT-B1: not both did the walker get its reference and the look of the   *)
(* unmounter say that there is none.                                       *)
LegitimizedIsNotFreed == scen = "B1" /\ Joined => ~(saw.res = 0 /\ mem[freed] = 1)

(* MNT-B2: a walker that saw the sequence count change and takes the lock  *)
(* sees MNT_DOOMED if the mount was finished.                              *)
BailedSeesDoomed ==
    scen = "B2" /\ Joined => ~(~saw.r1 /\ saw.r2 /\ saw.flags = 0 /\ mem[freed] = 1)

(* MNT-D1: not both did the holder still see mnt_ns after its put and the  *)
(* look of the unmounter miss that put.                                    *)
RecheckOrSeen ==
    scen = "D1" /\ Joined => ~(saw.path[T0] = "fast" /\ saw.ns2 = 1 /\ saw.peek = 2)

=============================================================================
