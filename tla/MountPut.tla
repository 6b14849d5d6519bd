------------------------------ MODULE MountPut ------------------------------
(***************************************************************************)
(* The mntput() protocol of cbmc/mntput_harness.c: how the last reference  *)
(* to an unmounted mount is recognised, who shuts the mount down, and when *)
(* struct mount is freed.  Three tasks run: U unmounts a batch of mounts,  *)
(* H holds a counted reference to one of them, W walks a path under RCU    *)
(* and tries to turn an uncounted pointer into a reference.                *)
(*                                                                         *)
(* One step of a task is one access to memory another task may use at the  *)
(* same time.  Statements that only touch locals, or state every reader of *)
(* which holds mount_lock, are part of the step before or after them.      *)
(* Memory is sequentially consistent: the barriers of the code do nothing  *)
(* here.                                                                   *)
(***************************************************************************)
EXTENDS Integers, FiniteSets

CONSTANTS
    NCPU,       \* number of possible CPUs
    BATCH,      \* mounts unmounted in one go
    SHAPE,      \* "sync": umount(2); "lazy": MNT_DETACH; "kern": kern_unmount_array()
    HELD,       \* the mount H has a reference to
    ORDER,      \* kern_unmount_array() gets the mounts last one first
    GETS,       \* extra mntget()/mntput() pairs H may do
    WALKER,     \* is there a walker?
    WALK,       \* the mount W looks up
    HCPU, WCPU, \* the CPUs H and W run on (U runs on CPU 0)
    MIGRATE     \* H is moved to CPU 0 between an extra get and its put

Mounts == 0 .. BATCH - 1
CPUs   == 0 .. NCPU - 1

U == 0
H == 1
W == 2
Threads == {U, H, W}
Nobody  == -1

(* The configurations the harness compiles: a synchronous umount of a      *)
(* mount with a child is -EBUSY, so it is only built for a batch of one.   *)
ASSUME ConfigAssumption ==
    /\ NCPU \in Nat \ {0}
    /\ BATCH \in {1, 2}
    /\ SHAPE \in {"sync", "lazy", "kern"}
    /\ SHAPE = "sync" => BATCH = 1
    /\ HELD \in Mounts /\ WALK \in Mounts
    /\ HCPU \in CPUs /\ WCPU \in CPUs
    /\ GETS \in Nat
    /\ ORDER \in BOOLEAN /\ WALKER \in BOOLEAN /\ MIGRATE \in BOOLEAN

(* Each task: where it is, the mount at hand, where mntput() and           *)
(* run_task_work() return to, the CPU it runs on, whether it is inside an  *)
(* RCU read section, and the mounts it cleans up when its system call ends.*)
VARIABLES pc, cur, ret, wret, this_cpu, in_rcu, task_work

(* Locals of mnt_get_count() (where it returns to, loop index and sums),   *)
(* of the slow path (was it the last put?) and of a grace period (the task *)
(* it waits for); H's remaining pairs; W's read_seqbegin(), and whether W  *)
(* is inside legitimize_mnt().                                             *)
VARIABLES cret, cpu, puts, gets, last, gp, left, seq, transient

(* mount_lock, a seqlock: who holds it, and its sequence count.            *)
VARIABLES lock_owner, sequence

(* struct mount: the per-CPU counters, flags, namespace, and whether it is *)
(* attached to a parent and in the mount hash.                             *)
VARIABLES mnt_gets, mnt_puts, mnt_flags, mnt_ns, hashed

(* U: the lists of unmounted and of held mounts, a loop index, what        *)
(* do_umount() returns, and whether it still owes the caller's put.        *)
VARIABLES head, held, k, retval, ref

(* Ghosts: the ledger of counted references, grace periods U paid for,     *)
(* puts of the caller's reference, and each mount's history.               *)
VARIABLES refs, gps, caller_put, cleaned, cleaner, freed, fast_final, umounted

callVars    == <<cur, ret, wret, this_cpu>>
countVars   == <<cret, cpu, puts, gets>>
localVars   == <<last, gp, left, seq, transient>>
lockVars    == <<lock_owner, sequence>>
counterVars == <<mnt_gets, mnt_puts, refs>>
mountVars   == <<mnt_flags, mnt_ns, hashed>>
umountVars  == <<head, held, k, retval, ref, gps, caller_put>>
historyVars == <<cleaned, cleaner, freed, fast_final, umounted>>

vars == <<pc, in_rcu, task_work, callVars, countVars, localVars, lockVars,
          counterVars, mountVars, umountVars, historyVars>>

-----------------------------------------------------------------------------
(* Types *)

NULL            == 0
NS_INIT         == 1
MNT_NS_INTERNAL == 2

EPERM  == 1
EBUSY  == 16
EINVAL == 22

Flags == {"MNT_INTERNAL", "MNT_UMOUNT", "MNT_SYNC_UMOUNT", "MNT_DOOMED"}

(* Where a call of mntput(), mntput_queue_cleanup() or run_task_work()     *)
(* returns to, and where a finished mnt_get_count() goes.                  *)
Returns      == {"work", "legit_relock", "queue_next", "held_next"}
WorkReturns  == {"u_return", "h_loop", "done"}
CountReturns == {"put_test", "unheld_test", "busy_test"}

(* Places at which the next step reads or writes struct mount cur[t].      *)
TouchLabels ==
    {"put", "put_ns", "put_dec", "slow_lock", "slow_dec", "count_puts",
     "count_gets", "put_test", "queue", "cleanup", "legit_inc", "legit_flags",
     "walker_use", "unheld_test", "unheld_dec", "unheld_final", "busy_test"}

OtherLabels ==
    {"put_rcu", "slow_rcu", "slow_unlock", "cleanup_gp", "free", "held_gp",
     "legit_begin", "legit_retry", "legit_lock", "legit_refuse", "legit_drop",
     "legit_put", "walker", "walker_seq", "walker_find", "walker_legit",
     "walker_fail", "umount", "u_lock", "u_check", "tree_ns", "tree_unhash",
     "u_dec", "u_unlock", "u_drop", "shortterm", "unmounted_lock",
     "unheld_next"}

Labels == TouchLabels \cup OtherLabels \cup Returns \cup WorkReturns

-----------------------------------------------------------------------------
(* Initial state: the own reference of each mount and the caller's one of  *)
(* mount 0 were taken on CPU 0, the holder's on HCPU.                      *)

PerTask(u, h, w) == [t \in Threads |-> IF t = U THEN u ELSE IF t = H THEN h ELSE w]

init_mount ==
    /\ mnt_gets = [m \in Mounts |-> [c \in CPUs |->
                      (IF c = 0 THEN 1 ELSE 0)
                    + (IF c = 0 /\ m = 0 /\ SHAPE # "kern" THEN 1 ELSE 0)
                    + (IF c = HCPU /\ m = HELD THEN 1 ELSE 0)]]
    /\ mnt_puts = [m \in Mounts |-> [c \in CPUs |-> 0]]
    /\ mnt_flags = [m \in Mounts |-> IF SHAPE = "kern" THEN {"MNT_INTERNAL"} ELSE {}]
    /\ mnt_ns = [m \in Mounts |-> IF SHAPE = "kern" THEN MNT_NS_INTERNAL ELSE NS_INIT]
    /\ hashed = [m \in Mounts |-> SHAPE # "kern"]
    /\ refs = PerTask([m \in Mounts |-> IF m = 0 /\ SHAPE # "kern" THEN 2 ELSE 1],
                      [m \in Mounts |-> IF m = HELD THEN 1 ELSE 0],
                      [m \in Mounts |-> 0])

InitTasks ==
    /\ pc = PerTask(IF SHAPE = "kern" THEN "shortterm" ELSE "umount",
                    "h_loop", IF WALKER THEN "walker" ELSE "done")
    /\ cur = PerTask(0, HELD, WALK)
    /\ ret = [t \in Threads |-> "work"]
    /\ wret = PerTask("u_return", "h_loop", "done")
    /\ this_cpu = PerTask(0, HCPU, WCPU)
    /\ in_rcu = [t \in Threads |-> FALSE]
    /\ task_work = [t \in Threads |-> {}]
    /\ cret = [t \in Threads |-> "put_test"]
    /\ cpu = [t \in Threads |-> 0]
    /\ puts = [t \in Threads |-> 0]
    /\ gets = [t \in Threads |-> 0]
    /\ last = [t \in Threads |-> FALSE]
    /\ gp = [t \in Threads |-> U]
    /\ left = GETS /\ seq = 0 /\ transient = FALSE

Init ==
    /\ init_mount
    /\ InitTasks
    /\ lock_owner = Nobody /\ sequence = 0
    /\ head = {} /\ held = {} /\ k = 0 /\ retval = 0 /\ ref = (SHAPE # "kern")
    /\ gps = 0 /\ caller_put = 0
    /\ cleaned = [m \in Mounts |-> 0]
    /\ cleaner = [m \in Mounts |-> Nobody]
    /\ freed = [m \in Mounts |-> FALSE]
    /\ fast_final = [m \in Mounts |-> FALSE]
    /\ umounted = [m \in Mounts |-> FALSE]

-----------------------------------------------------------------------------
(* Counters, lock, grace periods *)

At(t, label)    == pc[t] = label
Goto(t, label)  == pc' = [pc EXCEPT ![t] = label]

(* this_cpu_inc(): one of the two counters of the running CPU goes up, and *)
(* the ledger with it.                                                     *)
percpu_add(t, m, is_puts) ==
    LET c == this_cpu[t] IN
    IF is_puts
    THEN /\ mnt_puts' = [mnt_puts EXCEPT ![m][c] = @ + 1]
         /\ refs' = [refs EXCEPT ![t][m] = @ - 1]
         /\ UNCHANGED mnt_gets
    ELSE /\ mnt_gets' = [mnt_gets EXCEPT ![m][c] = @ + 1]
         /\ refs' = [refs EXCEPT ![t][m] = @ + 1]
         /\ UNCHANGED mnt_puts

mnt_inc_count(t, m) == percpu_add(t, m, FALSE)
mnt_dec_count(t, m) == percpu_add(t, m, TRUE)

(* Lock and sequence count change in one step: no task can tell the state  *)
(* in between from the one before it (lock) or after it (unlock).          *)
write_seqlock(t) ==
    /\ lock_owner = Nobody
    /\ lock_owner' = t
    /\ sequence' = sequence + 1

write_sequnlock(t) ==
    /\ sequence' = sequence + 1
    /\ lock_owner' = Nobody

lock_mount_hash(t)   == write_seqlock(t)
unlock_mount_hash(t) == write_sequnlock(t)

read_seqretry == sequence # seq

rcu_read_lock(t)   == in_rcu' = [in_rcu EXCEPT ![t] = TRUE]
rcu_read_unlock(t) == in_rcu' = [in_rcu EXCEPT ![t] = FALSE]

(* A grace period of t waits for the two other tasks, one after the other. *)
FirstOther(t) == IF t = U THEN H ELSE U
LastOther(t)  == IF t = W THEN H ELSE W

(* What the unsigned difference of the two sums is, as an int.             *)
Count(t) == gets[t] - puts[t]

-----------------------------------------------------------------------------
(* mnt_get_count(): called with mount_lock held, but gets and puts of the  *)
(* other tasks do not take it.  All puts are read before any get.          *)

StartCount(t, m, next) ==
    /\ cur' = [cur EXCEPT ![t] = m]
    /\ cret' = [cret EXCEPT ![t] = next]
    /\ cpu' = [cpu EXCEPT ![t] = 0]
    /\ puts' = [puts EXCEPT ![t] = 0]
    /\ gets' = [gets EXCEPT ![t] = 0]
    /\ Goto(t, "count_puts")
    /\ UNCHANGED <<ret, wret, this_cpu>>

(* Mutant: the loop runs one CPU too far.                                  *)
NextCpu_PastLast(t, label, out) ==
    /\ cpu' = [cpu EXCEPT ![t] = IF @ = NCPU THEN 0 ELSE @ + 1]
    /\ Goto(t, IF cpu[t] = NCPU THEN out ELSE label)

(* for_each_possible_cpu(): on to the next CPU, or out of the loop.        *)
NextCpu(t, label, out) ==
    /\ cpu' = [cpu EXCEPT ![t] = IF @ = NCPU - 1 THEN 0 ELSE @ + 1]
    /\ Goto(t, IF cpu[t] = NCPU - 1 THEN out ELSE label)

(* Mutant: one pass over gets and puts together, as with the single        *)
(* counter of MUT_TORN_SUM, the last CPU first.                            *)
CountPuts_Torn(t) ==
    /\ At(t, "count_puts")
    /\ LET c == NCPU - 1 - cpu[t] IN
       /\ puts' = [puts EXCEPT ![t] = @ + mnt_puts[cur[t]][c]]
       /\ gets' = [gets EXCEPT ![t] = @ + mnt_gets[cur[t]][c]]
    /\ NextCpu(t, "count_puts", cret[t])
    /\ UNCHANGED <<in_rcu, task_work, callVars, cret, localVars, lockVars,
                   counterVars, mountVars, umountVars, historyVars>>

CountPuts(t) ==
    /\ At(t, "count_puts")
    /\ puts' = [puts EXCEPT ![t] = @ + mnt_puts[cur[t]][cpu[t]]]
    /\ NextCpu(t, "count_puts", "count_gets")
    /\ UNCHANGED <<in_rcu, task_work, callVars, cret, gets, localVars, lockVars,
                   counterVars, mountVars, umountVars, historyVars>>

CountGets(t) ==
    /\ At(t, "count_gets")
    /\ gets' = [gets EXCEPT ![t] = @ + mnt_gets[cur[t]][cpu[t]]]
    /\ NextCpu(t, "count_gets", cret[t])
    /\ UNCHANGED <<in_rcu, task_work, callVars, cret, puts, localVars, lockVars,
                   counterVars, mountVars, umountVars, historyVars>>

-----------------------------------------------------------------------------
(* cleanup_mnt() and the grace period call_rcu() runs before the free      *)

mntput_final_locked(m) ==
    /\ mnt_flags' = [mnt_flags EXCEPT ![m] = @ \cup {"MNT_DOOMED"}]
    /\ UNCHANGED <<mnt_ns, hashed>>

(* Kernel internal mounts are cleaned up on the spot, the others when the  *)
(* task returns to user space.                                             *)
mntput_queue_cleanup(t) ==
    /\ At(t, "queue")
    /\ IF "MNT_INTERNAL" \in mnt_flags[cur[t]]
       THEN /\ Goto(t, "cleanup")
            /\ UNCHANGED task_work
       ELSE /\ Goto(t, ret[t])
            /\ task_work' = [task_work EXCEPT ![t] = @ \cup {cur[t]}]
    /\ UNCHANGED <<in_rcu, callVars, countVars, localVars, lockVars,
                   counterVars, mountVars, umountVars, historyVars>>

(* Mutant: struct mount is freed without a grace period.                   *)
cleanup_mnt_NoGp(t) ==
    /\ At(t, "cleanup")
    /\ cleaned' = [cleaned EXCEPT ![cur[t]] = @ + 1]
    /\ cleaner' = [cleaner EXCEPT ![cur[t]] = t]
    /\ Goto(t, "free")
    /\ UNCHANGED <<in_rcu, task_work, callVars, countVars, localVars, lockVars,
                   counterVars, mountVars, umountVars, freed, fast_final, umounted>>

(* The file system is shut down at once, struct mount goes after a grace   *)
(* period.                                                                 *)
cleanup_mnt(t) ==
    /\ At(t, "cleanup")
    /\ cleaned' = [cleaned EXCEPT ![cur[t]] = @ + 1]
    /\ cleaner' = [cleaner EXCEPT ![cur[t]] = t]
    /\ gp' = [gp EXCEPT ![t] = FirstOther(t)]
    /\ Goto(t, "cleanup_gp")
    /\ UNCHANGED <<in_rcu, task_work, callVars, countVars, last, left, seq,
                   transient, lockVars, counterVars, mountVars, umountVars,
                   freed, fast_final, umounted>>

(* __synchronize_rcu(): see the next task outside of a read section.       *)
synchronize_rcu(t, label, next) ==
    /\ At(t, label)
    /\ ~in_rcu[gp[t]]
    /\ gp' = [gp EXCEPT ![t] = LastOther(t)]
    /\ Goto(t, IF gp[t] = LastOther(t) THEN next ELSE label)
    /\ UNCHANGED <<in_rcu, task_work, callVars, countVars, last, left, seq,
                   transient, lockVars, counterVars, mountVars, umountVars,
                   historyVars>>

CleanupGp(t) == synchronize_rcu(t, "cleanup_gp", "free")

free_vfsmnt(t) ==
    /\ At(t, "free")
    /\ freed' = [freed EXCEPT ![cur[t]] = TRUE]
    /\ Goto(t, ret[t])
    /\ UNCHANGED <<in_rcu, task_work, callVars, countVars, localVars, lockVars,
                   counterVars, mountVars, umountVars, cleaned, cleaner,
                   fast_final, umounted>>

(* Mutant: work that has run stays queued.                                 *)
run_task_work_KeepsWork(t) ==
    /\ At(t, "work")
    /\ \E m \in task_work[t] : cur' = [cur EXCEPT ![t] = m]
    /\ ret' = [ret EXCEPT ![t] = "work"]
    /\ Goto(t, "cleanup")
    /\ UNCHANGED <<in_rcu, task_work, wret, this_cpu, countVars, localVars,
                   lockVars, counterVars, mountVars, umountVars, historyVars>>

(* The work a task queued runs on its way back to user space.              *)
run_task_work(t) ==
    /\ At(t, "work")
    /\ \E m \in task_work[t] :
         /\ \A n \in task_work[t] : m <= n
         /\ task_work' = [task_work EXCEPT ![t] = @ \ {m}]
         /\ cur' = [cur EXCEPT ![t] = m]
    /\ ret' = [ret EXCEPT ![t] = "work"]
    /\ Goto(t, "cleanup")
    /\ UNCHANGED <<in_rcu, wret, this_cpu, countVars, localVars, lockVars,
                   counterVars, mountVars, umountVars, historyVars>>

NoTaskWork(t) ==
    /\ At(t, "work")
    /\ task_work[t] = {}
    /\ Goto(t, wret[t])
    /\ UNCHANGED <<in_rcu, task_work, callVars, countVars, localVars, lockVars,
                   counterVars, mountVars, umountVars, historyVars>>

-----------------------------------------------------------------------------
(* mntput() *)

CallMntput(t, m, next) ==
    /\ cur' = [cur EXCEPT ![t] = m]
    /\ ret' = [ret EXCEPT ![t] = next]
    /\ Goto(t, "put")
    /\ UNCHANGED <<wret, this_cpu>>

MntputBegin(t) ==
    /\ At(t, "put")
    /\ rcu_read_lock(t)
    /\ Goto(t, "put_ns")
    /\ UNCHANGED <<task_work, callVars, countVars, localVars, lockVars,
                   counterVars, mountVars, umountVars, historyVars>>

(* A mount in a namespace has a reference of its own, so this is not the   *)
(* last one and no lock is needed.                                         *)
mntput_no_expire(t) ==
    /\ At(t, "put_ns")
    /\ Goto(t, IF mnt_ns[cur[t]] # NULL THEN "put_dec" ELSE "slow_lock")
    /\ UNCHANGED <<in_rcu, task_work, callVars, countVars, localVars, lockVars,
                   counterVars, mountVars, umountVars, historyVars>>

MntputFast(t) ==
    /\ At(t, "put_dec")
    /\ mnt_dec_count(t, cur[t])
    /\ Goto(t, "put_rcu")
    /\ UNCHANGED <<in_rcu, task_work, callVars, countVars, localVars, lockVars,
                   mountVars, umountVars, historyVars>>

MntputFastEnd(t) ==
    /\ At(t, "put_rcu")
    /\ rcu_read_unlock(t)
    /\ Goto(t, ret[t])
    /\ UNCHANGED <<task_work, callVars, countVars, localVars, lockVars,
                   counterVars, mountVars, umountVars, historyVars>>

SlowpathLock(t) ==
    /\ At(t, "slow_lock")
    /\ lock_mount_hash(t)
    /\ Goto(t, "slow_dec")
    /\ UNCHANGED <<in_rcu, task_work, callVars, countVars, localVars,
                   counterVars, mountVars, umountVars, historyVars>>

SlowpathDec(t) ==
    /\ At(t, "slow_dec")
    /\ mnt_dec_count(t, cur[t])
    /\ StartCount(t, cur[t], "put_test")
    /\ UNCHANGED <<in_rcu, task_work, localVars, lockVars, mountVars,
                   umountVars, historyVars>>

(* Is the put that brought the count to count the one that dooms m?        *)
IsLastPut(m, count) == count = 0 /\ "MNT_DOOMED" \notin mnt_flags[m]

mntput_no_expire_slowpath(t) ==
    /\ At(t, "put_test")
    /\ last' = [last EXCEPT ![t] = IsLastPut(cur[t], Count(t))]
    /\ IF IsLastPut(cur[t], Count(t)) THEN mntput_final_locked(cur[t])
                                      ELSE UNCHANGED mountVars
    /\ Goto(t, "slow_rcu")
    /\ UNCHANGED <<in_rcu, task_work, callVars, countVars, gp, left, seq,
                   transient, lockVars, counterVars, umountVars, historyVars>>

(* Mutant: only the early returns leave the read section.                  *)
SlowpathRcuUnlock_NotLast(t) ==
    /\ At(t, "slow_rcu")
    /\ IF last[t] THEN UNCHANGED in_rcu ELSE rcu_read_unlock(t)
    /\ Goto(t, "slow_unlock")
    /\ UNCHANGED <<task_work, callVars, countVars, localVars, lockVars,
                   counterVars, mountVars, umountVars, historyVars>>

SlowpathRcuUnlock(t) ==
    /\ At(t, "slow_rcu")
    /\ rcu_read_unlock(t)
    /\ Goto(t, "slow_unlock")
    /\ UNCHANGED <<task_work, callVars, countVars, localVars, lockVars,
                   counterVars, mountVars, umountVars, historyVars>>

SlowpathUnlock(t) ==
    /\ At(t, "slow_unlock")
    /\ unlock_mount_hash(t)
    /\ Goto(t, IF last[t] THEN "queue" ELSE ret[t])
    /\ UNCHANGED <<in_rcu, task_work, callVars, countVars, localVars,
                   counterVars, mountVars, umountVars, historyVars>>

-----------------------------------------------------------------------------
(* H: extra get/put pairs, then the final put *)

HolderGet ==
    /\ At(H, "h_loop")
    /\ left > 0
    /\ left' = left - 1
    /\ mnt_inc_count(H, HELD)
    /\ this_cpu' = [this_cpu EXCEPT ![H] = IF MIGRATE THEN 0 ELSE @]
    /\ cur' = [cur EXCEPT ![H] = HELD]
    /\ ret' = [ret EXCEPT ![H] = "work"]
    /\ Goto(H, "put")
    /\ UNCHANGED <<wret, in_rcu, task_work, countVars, last, gp, seq, transient,
                   lockVars, mountVars, umountVars, historyVars>>

HolderLastPut ==
    /\ At(H, "h_loop")
    /\ cur' = [cur EXCEPT ![H] = HELD]
    /\ ret' = [ret EXCEPT ![H] = "work"]
    /\ wret' = [wret EXCEPT ![H] = "done"]
    /\ Goto(H, "put")
    /\ UNCHANGED <<this_cpu, in_rcu, task_work, countVars, localVars, lockVars,
                   counterVars, mountVars, umountVars, historyVars>>

-----------------------------------------------------------------------------
(* W: find a mount under RCU, legitimize the pointer, use it, put it *)

WalkerBegin ==
    /\ At(W, "walker")
    /\ rcu_read_lock(W)
    /\ Goto(W, "walker_seq")
    /\ UNCHANGED <<task_work, callVars, countVars, localVars, lockVars,
                   counterVars, mountVars, umountVars, historyVars>>

(* read_seqbegin() waits for a writer to leave.                            *)
read_seqbegin ==
    /\ At(W, "walker_seq")
    /\ sequence % 2 = 0
    /\ seq' = sequence
    /\ Goto(W, "walker_find")
    /\ UNCHANGED <<in_rcu, task_work, callVars, countVars, last, gp, left,
                   transient, lockVars, counterVars, mountVars, umountVars,
                   historyVars>>

(* The mount is in the hash, or somebody who holds it is at hand.          *)
Found(m) == hashed[m] \/ refs[H][m] > 0

WalkerFind ==
    /\ At(W, "walker_find")
    /\ cur' = [cur EXCEPT ![W] = WALK]
    /\ transient' = Found(WALK)
    /\ Goto(W, IF Found(WALK) THEN "legit_begin" ELSE "walker_fail")
    /\ UNCHANGED <<ret, wret, this_cpu, in_rcu, task_work, countVars, last, gp,
                   left, seq, lockVars, counterVars, mountVars, umountVars,
                   historyVars>>

LegitimizeBegin ==
    /\ At(W, "legit_begin")
    /\ Goto(W, IF read_seqretry THEN "walker_fail" ELSE "legit_inc")
    /\ UNCHANGED <<in_rcu, task_work, callVars, countVars, localVars, lockVars,
                   counterVars, mountVars, umountVars, historyVars>>

LegitimizeInc ==
    /\ At(W, "legit_inc")
    /\ mnt_inc_count(W, cur[W])
    /\ Goto(W, "legit_retry")
    /\ UNCHANGED <<in_rcu, task_work, callVars, countVars, localVars, lockVars,
                   mountVars, umountVars, historyVars>>

(* Mutant: the sequence count is not checked again after the increment.    *)
LegitimizeRetry_Unchecked ==
    /\ At(W, "legit_retry")
    /\ Goto(W, "walker_legit")
    /\ UNCHANGED <<in_rcu, task_work, callVars, countVars, localVars, lockVars,
                   counterVars, mountVars, umountVars, historyVars>>

LegitimizeRetry ==
    /\ At(W, "legit_retry")
    /\ Goto(W, IF read_seqretry THEN "legit_lock" ELSE "walker_legit")
    /\ UNCHANGED <<in_rcu, task_work, callVars, countVars, localVars, lockVars,
                   counterVars, mountVars, umountVars, historyVars>>

LegitimizeLock ==
    /\ At(W, "legit_lock")
    /\ lock_mount_hash(W)
    /\ Goto(W, "legit_flags")
    /\ UNCHANGED <<in_rcu, task_work, callVars, countVars, localVars,
                   counterVars, mountVars, umountVars, historyVars>>

(* May W not even put the reference it took?  Then it takes it back.       *)
Refused(m) == mnt_flags[m] \cap {"MNT_SYNC_UMOUNT", "MNT_DOOMED"} # {}

LegitimizeFlags ==
    /\ At(W, "legit_flags")
    /\ IF Refused(cur[W])
       THEN /\ mnt_dec_count(W, cur[W])
            /\ Goto(W, "legit_refuse")
       ELSE /\ UNCHANGED counterVars
            /\ Goto(W, "legit_drop")
    /\ UNCHANGED <<in_rcu, task_work, callVars, countVars, localVars, lockVars,
                   mountVars, umountVars, historyVars>>

LegitimizeUnlock ==
    /\ pc[W] \in {"legit_refuse", "legit_drop"}
    /\ unlock_mount_hash(W)
    /\ Goto(W, IF At(W, "legit_refuse") THEN "walker_fail" ELSE "legit_put")
    /\ UNCHANGED <<in_rcu, task_work, callVars, countVars, localVars,
                   counterVars, mountVars, umountVars, historyVars>>

(* legitimize_mnt() drops the reference outside of the read section.       *)
legitimize_mnt ==
    /\ At(W, "legit_put")
    /\ rcu_read_unlock(W)
    /\ CallMntput(W, cur[W], "legit_relock")
    /\ UNCHANGED <<task_work, countVars, localVars, lockVars, counterVars,
                   mountVars, umountVars, historyVars>>

LegitimizeRelock ==
    /\ At(W, "legit_relock")
    /\ rcu_read_lock(W)
    /\ Goto(W, "walker_fail")
    /\ UNCHANGED <<task_work, callVars, countVars, localVars, lockVars,
                   counterVars, mountVars, umountVars, historyVars>>

(* Out of the read section: with a reference, or empty-handed.             *)
WalkerLeaves(label, next) ==
    /\ At(W, label)
    /\ rcu_read_unlock(W)
    /\ transient' = FALSE
    /\ Goto(W, next)
    /\ UNCHANGED <<task_work, callVars, countVars, last, gp, left, seq,
                   lockVars, counterVars, mountVars, umountVars, historyVars>>

WalkerLegit == WalkerLeaves("walker_legit", "walker_use")
WalkerFail  == WalkerLeaves("walker_fail", "work")

WalkerUse ==
    /\ At(W, "walker_use")
    /\ CallMntput(W, cur[W], "work")
    /\ UNCHANGED <<in_rcu, task_work, countVars, localVars, lockVars,
                   counterVars, mountVars, umountVars, historyVars>>

-----------------------------------------------------------------------------
(* U: do_umount() *)

(* DROP_REF(): the reference the caller of do_umount() brought goes.       *)
DROP_REF ==
    /\ caller_put' = caller_put + 1
    /\ CallMntput(U, 0, "work")

(* security_sb_umount() says no, or yes.                                   *)
UmountRefused ==
    /\ At(U, "umount")
    /\ retval' = -EPERM
    /\ DROP_REF
    /\ UNCHANGED <<in_rcu, task_work, countVars, localVars, lockVars,
                   counterVars, mountVars, head, held, k, ref, gps, historyVars>>

UmountAllowed ==
    /\ At(U, "umount")
    /\ Goto(U, "u_lock")
    /\ UNCHANGED <<in_rcu, task_work, callVars, countVars, localVars, lockVars,
                   counterVars, mountVars, umountVars, historyVars>>

UmountLock ==
    /\ At(U, "u_lock")
    /\ lock_mount_hash(U)
    /\ Goto(U, "u_check")
    /\ UNCHANGED <<in_rcu, task_work, callVars, countVars, localVars,
                   counterVars, mountVars, umountVars, historyVars>>

(* Mutant: an error exit leaves without unlock_mount_hash().               *)
UmountFails_KeepsLock(err) ==
    /\ retval' = -err
    /\ Goto(U, "u_drop")
    /\ UNCHANGED <<k, callVars, countVars, mnt_flags>>

UmountFails(err) ==
    /\ retval' = -err
    /\ Goto(U, "u_unlock")
    /\ UNCHANGED <<k, callVars, countVars, mnt_flags>>

(* umount_tree() marks all mounts before it takes them apart one by one.   *)
UmountTreeBegin ==
    /\ mnt_flags' = [m \in Mounts |-> mnt_flags[m] \cup {"MNT_UMOUNT"}]
    /\ k' = 0
    /\ Goto(U, "tree_ns")
    /\ UNCHANGED <<retval, callVars, countVars>>

check_mnt(m) == mnt_ns[m] = NS_INIT

(* A synchronous umount looks at the count first: there are no children,   *)
(* since SHAPE = "sync" has a batch of one.                                *)
do_umount ==
    /\ At(U, "u_check")
    /\ IF ~check_mnt(0) \/ ~hashed[0] THEN UmountFails(EINVAL)
       ELSE IF SHAPE = "lazy" THEN UmountTreeBegin
       ELSE StartCount(U, 0, "busy_test") /\ UNCHANGED <<mnt_flags, k, retval>>
    /\ UNCHANGED <<in_rcu, task_work, localVars, lockVars, counterVars, mnt_ns,
                   hashed, head, held, ref, gps, caller_put, historyVars>>

(* Mutant: off by one.                                                     *)
do_refcount_check_Loose(count) == count > 3

(* The mount's own reference and the caller's are expected.                *)
do_refcount_check(count) == count > 2

propagate_mount_busy ==
    /\ At(U, "busy_test")
    /\ IF do_refcount_check(Count(U)) THEN UmountFails(EBUSY)
                                      ELSE UmountTreeBegin
    /\ UNCHANGED <<in_rcu, task_work, localVars, lockVars, counterVars, mnt_ns,
                   hashed, head, held, ref, gps, caller_put, historyVars>>

(* The mount leaves its namespace, then its parent and the hash.           *)
umount_tree ==
    /\ At(U, "tree_ns")
    /\ mnt_ns' = [mnt_ns EXCEPT ![k] = NULL]
    /\ mnt_flags' = [mnt_flags EXCEPT ![k] =
                        @ \cup IF SHAPE = "sync" THEN {"MNT_SYNC_UMOUNT"} ELSE {}]
    /\ umounted' = [umounted EXCEPT ![k] = TRUE]
    /\ Goto(U, "tree_unhash")
    /\ UNCHANGED <<in_rcu, task_work, callVars, countVars, localVars, lockVars,
                   counterVars, hashed, umountVars, cleaned, cleaner, freed,
                   fast_final>>

umount_mnt ==
    /\ At(U, "tree_unhash")
    /\ hashed' = [hashed EXCEPT ![k] = FALSE]
    /\ head' = head \cup {k}
    /\ k' = k + 1
    /\ Goto(U, IF k + 1 = BATCH THEN "u_dec" ELSE "tree_ns")
    /\ UNCHANGED <<in_rcu, task_work, callVars, countVars, localVars, lockVars,
                   counterVars, mnt_flags, mnt_ns, held, retval, ref, gps,
                   caller_put, historyVars>>

(* Mutant: retain_and_null_ptr() is missing.                               *)
UmountDropsCaller_KeepsRef ==
    /\ At(U, "u_dec")
    /\ mnt_dec_count(U, 0)
    /\ caller_put' = caller_put + 1
    /\ Goto(U, "u_unlock")
    /\ UNCHANGED <<in_rcu, task_work, callVars, countVars, localVars, lockVars,
                   mountVars, head, held, k, retval, ref, gps, historyVars>>

(* The caller's reference is not the last one: no need for mntput().       *)
UmountDropsCaller ==
    /\ At(U, "u_dec")
    /\ mnt_dec_count(U, 0)
    /\ caller_put' = caller_put + 1
    /\ ref' = FALSE
    /\ Goto(U, "u_unlock")
    /\ UNCHANGED <<in_rcu, task_work, callVars, countVars, localVars, lockVars,
                   mountVars, head, held, k, retval, gps, historyVars>>

namespace_unlock ==
    /\ At(U, "u_unlock")
    /\ unlock_mount_hash(U)
    /\ Goto(U, IF head = {} THEN "u_drop" ELSE "unmounted_lock")
    /\ UNCHANGED <<in_rcu, task_work, callVars, countVars, localVars,
                   counterVars, mountVars, umountVars, historyVars>>

UmountEnd ==
    /\ At(U, "u_drop")
    /\ ref' = FALSE
    /\ IF ref THEN DROP_REF
              ELSE Goto(U, "work") /\ UNCHANGED <<callVars, caller_put>>
    /\ UNCHANGED <<in_rcu, task_work, countVars, localVars, lockVars,
                   counterVars, mountVars, head, held, k, retval, gps,
                   historyVars>>

-----------------------------------------------------------------------------
(* U: kern_unmount_array() *)

(* The i-th mount put on the list of unmounted mounts.                     *)
INSERTED(i) == IF SHAPE = "kern" /\ ORDER THEN BATCH - 1 - i ELSE i

mnt_make_shortterm(m) == mnt_ns' = [mnt_ns EXCEPT ![m] = NULL]

(* The store to mnt_ns is not under mount_lock.                            *)
kern_unmount_array ==
    /\ At(U, "shortterm")
    /\ mnt_make_shortterm(INSERTED(k))
    /\ head' = head \cup {INSERTED(k)}
    /\ k' = k + 1
    /\ Goto(U, IF k + 1 = BATCH THEN "unmounted_lock" ELSE "shortterm")
    /\ UNCHANGED <<in_rcu, task_work, callVars, countVars, localVars, lockVars,
                   counterVars, mnt_flags, hashed, held, retval, ref, gps,
                   caller_put, historyVars>>

-----------------------------------------------------------------------------
(* U: mntput_unmounted() *)

UnmountedLock ==
    /\ At(U, "unmounted_lock")
    /\ lock_mount_hash(U)
    /\ k' = BATCH - 1
    /\ Goto(U, "unheld_next")
    /\ UNCHANGED <<in_rcu, task_work, callVars, countVars, localVars,
                   counterVars, mountVars, head, held, retval, ref, gps,
                   caller_put, historyVars>>

(* The unmounted mounts are looked at last one first.                      *)
UnheldNext ==
    /\ At(U, "unheld_next")
    /\ k >= 0
    /\ IF INSERTED(k) \in head
       THEN StartCount(U, INSERTED(k), "unheld_test") /\ k' = k
       ELSE k' = k - 1 /\ UNCHANGED <<pc, callVars, countVars>>
    /\ UNCHANGED <<in_rcu, task_work, localVars, lockVars, counterVars,
                   mountVars, head, held, retval, ref, gps, caller_put,
                   historyVars>>

(* Mutant: a count of two is good enough (MUT_PEEK_LOOSE).                 *)
Unheld_Loose(count) == count \in {1, 2}

(* Is the own reference the only one?                                      *)
Unheld(count) == count = 1

(* Mutant: a held mount leaves the list and is not put on the other one.   *)
mntput_unheld_ForgetsHeld ==
    /\ At(U, "unheld_test")
    /\ IF Unheld(Count(U))
       THEN Goto(U, "unheld_dec") /\ UNCHANGED <<head, k>>
       ELSE /\ head' = head \ {cur[U]}
            /\ k' = k - 1
            /\ Goto(U, "unheld_next")
    /\ UNCHANGED <<in_rcu, task_work, callVars, countVars, localVars, lockVars,
                   counterVars, mountVars, held, retval, ref, gps, caller_put,
                   historyVars>>

mntput_unheld ==
    /\ At(U, "unheld_test")
    /\ IF Unheld(Count(U))
       THEN Goto(U, "unheld_dec") /\ UNCHANGED <<head, held, k>>
       ELSE /\ head' = head \ {cur[U]}
            /\ held' = held \cup {cur[U]}
            /\ k' = k - 1
            /\ Goto(U, "unheld_next")
    /\ UNCHANGED <<in_rcu, task_work, callVars, countVars, localVars, lockVars,
                   counterVars, mountVars, retval, ref, gps, caller_put,
                   historyVars>>

UnheldDec ==
    /\ At(U, "unheld_dec")
    /\ mnt_dec_count(U, cur[U])
    /\ Goto(U, "unheld_final")
    /\ UNCHANGED <<in_rcu, task_work, callVars, countVars, localVars, lockVars,
                   mountVars, umountVars, historyVars>>

UnheldFinal ==
    /\ At(U, "unheld_final")
    /\ mntput_final_locked(cur[U])
    /\ fast_final' = [fast_final EXCEPT ![cur[U]] = TRUE]
    /\ k' = k - 1
    /\ Goto(U, "unheld_next")
    /\ UNCHANGED <<in_rcu, task_work, callVars, countVars, localVars, lockVars,
                   counterVars, head, held, retval, ref, gps, caller_put,
                   cleaned, cleaner, freed, umounted>>

(* Mutant: the grace period comes before the cleanup of the others.        *)
UnmountedUnlock_GpFirst ==
    /\ At(U, "unheld_next")
    /\ k < 0
    /\ unlock_mount_hash(U)
    /\ k' = BATCH - 1
    /\ gps' = gps + 1
    /\ gp' = [gp EXCEPT ![U] = FirstOther(U)]
    /\ Goto(U, "held_gp")
    /\ UNCHANGED <<in_rcu, task_work, callVars, countVars, last, left, seq,
                   transient, counterVars, mountVars, head, held, retval, ref,
                   caller_put, historyVars>>

UnmountedUnlock ==
    /\ At(U, "unheld_next")
    /\ k < 0
    /\ unlock_mount_hash(U)
    /\ k' = BATCH - 1
    /\ Goto(U, "queue_next")
    /\ UNCHANGED <<in_rcu, task_work, callVars, countVars, localVars,
                   counterVars, mountVars, head, held, retval, ref, gps,
                   caller_put, historyVars>>

(* The mounts nobody holds are cleaned up before the grace period.         *)
QueueNext ==
    /\ At(U, "queue_next")
    /\ k >= 0
    /\ IF INSERTED(k) \in head
       THEN /\ cur' = [cur EXCEPT ![U] = INSERTED(k)]
            /\ ret' = [ret EXCEPT ![U] = "queue_next"]
            /\ Goto(U, "queue")
       ELSE UNCHANGED <<cur, ret, pc>>
    /\ head' = head \ {INSERTED(k)}
    /\ k' = k - 1
    /\ UNCHANGED <<wret, this_cpu, in_rcu, task_work, countVars, localVars,
                   lockVars, counterVars, mountVars, held, retval, ref, gps,
                   caller_put, historyVars>>

(* One grace period for all the mounts that are held.                      *)
mntput_unmounted ==
    /\ At(U, "queue_next")
    /\ k < 0
    /\ IF held = {}
       THEN Goto(U, "u_drop") /\ UNCHANGED <<gp, gps, k>>
       ELSE /\ gps' = gps + 1
            /\ gp' = [gp EXCEPT ![U] = FirstOther(U)]
            /\ k' = 0
            /\ Goto(U, "held_gp")
    /\ UNCHANGED <<in_rcu, task_work, callVars, countVars, last, left, seq,
                   transient, lockVars, counterVars, mountVars, head, held,
                   retval, ref, caller_put, historyVars>>

HeldGp == synchronize_rcu(U, "held_gp", "held_next")

HeldNext ==
    /\ At(U, "held_next")
    /\ k < BATCH
    /\ IF INSERTED(k) \in held THEN CallMntput(U, INSERTED(k), "held_next")
                               ELSE UNCHANGED <<pc, callVars>>
    /\ held' = held \ {INSERTED(k)}
    /\ k' = k + 1
    /\ UNCHANGED <<in_rcu, task_work, countVars, localVars, lockVars,
                   counterVars, mountVars, head, retval, ref, gps, caller_put,
                   historyVars>>

HeldEnd ==
    /\ At(U, "held_next")
    /\ k = BATCH
    /\ Goto(U, "u_drop")
    /\ UNCHANGED <<in_rcu, task_work, callVars, countVars, localVars, lockVars,
                   counterVars, mountVars, umountVars, historyVars>>

(* umount(2) or kern_unmount() has returned: wait for the other tasks.     *)
Join ==
    /\ At(U, "u_return")
    /\ At(H, "done") /\ At(W, "done")
    /\ Goto(U, "done")
    /\ UNCHANGED <<in_rcu, task_work, callVars, countVars, localVars, lockVars,
                   counterVars, mountVars, umountVars, historyVars>>

-----------------------------------------------------------------------------
(* The specification *)

Mntput(t) ==
    \/ MntputBegin(t) \/ mntput_no_expire(t) \/ MntputFast(t) \/ MntputFastEnd(t)
    \/ SlowpathLock(t) \/ SlowpathDec(t) \/ CountPuts(t) \/ CountGets(t)
    \/ mntput_no_expire_slowpath(t) \/ SlowpathRcuUnlock(t) \/ SlowpathUnlock(t)
    \/ mntput_queue_cleanup(t) \/ cleanup_mnt(t) \/ CleanupGp(t) \/ free_vfsmnt(t)
    \/ run_task_work(t) \/ NoTaskWork(t)

holder == HolderGet \/ HolderLastPut \/ Mntput(H)

walker ==
    \/ WalkerBegin \/ read_seqbegin \/ WalkerFind \/ LegitimizeBegin
    \/ LegitimizeInc \/ LegitimizeRetry \/ LegitimizeLock \/ LegitimizeFlags
    \/ LegitimizeUnlock \/ legitimize_mnt \/ LegitimizeRelock
    \/ WalkerFail \/ WalkerLegit \/ WalkerUse \/ Mntput(W)

main ==
    \/ UmountRefused \/ UmountAllowed \/ UmountLock \/ do_umount
    \/ propagate_mount_busy \/ umount_tree \/ umount_mnt \/ UmountDropsCaller
    \/ namespace_unlock \/ UmountEnd \/ kern_unmount_array
    \/ UnmountedLock \/ UnheldNext \/ mntput_unheld \/ UnheldDec \/ UnheldFinal
    \/ UnmountedUnlock \/ QueueNext \/ mntput_unmounted \/ HeldGp \/ HeldNext
    \/ HeldEnd \/ Join \/ Mntput(U)

(* All tasks have ended: nothing left to do.                               *)
Finished ==
    /\ \A t \in Threads : At(t, "done")
    /\ UNCHANGED vars

Next == main \/ holder \/ walker \/ Finished

(* The scheduler runs every task that can run.                             *)
Fairness == WF_vars(main) /\ WF_vars(holder) /\ WF_vars(walker)

Spec     == Init /\ [][Next]_vars
FairSpec == Spec /\ Fairness

-----------------------------------------------------------------------------
(* Properties *)

(* Every variable has the shape the code gives it: counters are naturals,  *)
(* the count loop stays within the possible CPUs and list positions within *)
(* the batch.                                                              *)
TypeOK ==
    /\ pc \in [Threads -> Labels]
    /\ cur \in [Threads -> Mounts]
    /\ ret \in [Threads -> Returns]
    /\ wret \in [Threads -> WorkReturns]
    /\ cret \in [Threads -> CountReturns]
    /\ this_cpu \in [Threads -> CPUs] /\ cpu \in [Threads -> CPUs]
    /\ puts \in [Threads -> Nat] /\ gets \in [Threads -> Nat]
    /\ last \in [Threads -> BOOLEAN] /\ in_rcu \in [Threads -> BOOLEAN]
    /\ gp \in [Threads -> Threads]
    /\ task_work \in [Threads -> SUBSET Mounts]
    /\ left \in 0 .. GETS /\ seq \in Nat /\ transient \in BOOLEAN
    /\ lock_owner \in Threads \cup {Nobody} /\ sequence \in Nat
    /\ mnt_gets \in [Mounts -> [CPUs -> Nat]]
    /\ mnt_puts \in [Mounts -> [CPUs -> Nat]]
    /\ mnt_flags \in [Mounts -> SUBSET Flags]
    /\ mnt_ns \in [Mounts -> {NULL, NS_INIT, MNT_NS_INTERNAL}]
    /\ hashed \in [Mounts -> BOOLEAN]
    /\ head \in SUBSET Mounts /\ held \in SUBSET Mounts /\ k \in -1 .. BATCH
    /\ retval \in {0, -EPERM, -EBUSY, -EINVAL} /\ ref \in BOOLEAN
    /\ gps \in Nat /\ caller_put \in Nat
    /\ refs \in [Threads -> [Mounts -> Int]]
    /\ cleaned \in [Mounts -> Nat]
    /\ cleaner \in [Mounts -> Threads \cup {Nobody}]
    /\ freed \in [Mounts -> BOOLEAN] /\ fast_final \in [Mounts -> BOOLEAN]
    /\ umounted \in [Mounts -> BOOLEAN]

(* The counted references to m that are not a walker's transient one.      *)
RealRefs(m) == refs[U][m] + refs[H][m] + IF transient THEN 0 ELSE refs[W][m]

Doomed(m)   == "MNT_DOOMED" \in mnt_flags[m]
Returned    == pc[U] \in {"u_return", "done"}

(* Places in the code between lock_mount_hash() and unlock_mount_hash(),   *)
(* and between rcu_read_lock() and rcu_read_unlock().                      *)
LockedLabels ==
    {"slow_dec", "count_puts", "count_gets", "put_test", "slow_rcu",
     "slow_unlock", "legit_flags", "legit_refuse", "legit_drop", "u_check",
     "busy_test", "tree_ns", "tree_unhash", "u_dec", "u_unlock",
     "unheld_next", "unheld_test", "unheld_dec", "unheld_final"}

RcuLabels ==
    {"put_ns", "put_dec", "put_rcu", "slow_lock", "slow_dec", "put_test",
     "slow_rcu", "walker_seq", "walker_find", "legit_begin", "legit_inc",
     "legit_retry", "legit_lock", "legit_flags", "legit_refuse",
     "legit_drop", "legit_put", "walker_fail", "walker_legit"}

(* mount_lock is held exactly by the one task that is in such a section,   *)
(* whatever early return it takes out of it, and the sequence count is odd *)
(* exactly while there is one: a walker that saw an even count and finds   *)
(* it unchanged overlapped no decision about a mount.                      *)
LockProtocol ==
    /\ \A t \in Threads : (lock_owner = t) <=> (pc[t] \in LockedLabels)
    /\ (lock_owner = Nobody) <=> (sequence % 2 = 0)

(* Nobody waits for a grace period with mount_lock held or inside an RCU   *)
(* read section, where it would never end.                                 *)
GpOutsideSections ==
    \A t \in Threads : pc[t] \in {"cleanup_gp", "held_gp"} =>
        ~in_rcu[t] /\ lock_owner # t

(* NoUAF: no task touches struct mount after delayed_free_vfsmnt(), and a  *)
(* walker that legitimized a mount never uses a file system that was shut  *)
(* down.                                                                   *)
NoUAF ==
    /\ \A t \in Threads : pc[t] \in TouchLabels => ~freed[cur[t]]
    /\ At(W, "walker_use") => cleaned[cur[W]] = 0

(* DoomedIsLast: mntput_final_locked() dooms a mount only when nobody but  *)
(* a transient walker has a counted reference, and nobody gets one later.  *)
DoomedIsLast == \A m \in Mounts : Doomed(m) => RealRefs(m) = 0

(* Whatever mnt_get_count() saw while other tasks kept counting, the       *)
(* decision taken on it is right: the busy check lets a umount go on only  *)
(* if there are two references, the look in mntput_unheld() says "the only *)
(* one" and the slow path "the last one" only if that is so, and           *)
(* WARN_ON(count < 0) never fires.                                         *)
CountIsSound ==
    /\ At(U, "busy_test") /\ ~do_refcount_check(Count(U)) => RealRefs(0) = 2
    /\ At(U, "unheld_test") /\ Unheld(Count(U)) => RealRefs(cur[U]) = 1
    /\ \A t \in Threads : At(t, "put_test") =>
         /\ Count(t) >= 0
         /\ IsLastPut(cur[t], Count(t)) => RealRefs(cur[t]) = 0

(* CleanupOnce: cleanup_mnt() runs at most once for a mount, only if it is *)
(* doomed, and no task queues a mount that another task has queued too.    *)
CleanupOnce ==
    \A m \in Mounts :
        /\ cleaned[m] <= 1
        /\ cleaned[m] = 1 => Doomed(m)
        /\ Cardinality({t \in Threads : m \in task_work[t]}) + cleaned[m] <= 1

(* SyncClean: when umount(2) has returned 0, the file system was shut down *)
(* by the caller itself and nobody else has a reference.                   *)
SyncClean ==
    SHAPE = "sync" /\ Returned /\ retval = 0 =>
        /\ cleaned[0] = 1 /\ cleaner[0] = U
        /\ RealRefs(0) = 0

(* CallerPutOnce: do_umount() drops the caller's reference once on every   *)
(* path, and keeps the own reference iff the umount was refused.           *)
CallerPutOnce ==
    SHAPE # "kern" /\ Returned =>
        /\ caller_put = 1
        /\ refs[U][0] = IF retval = 0 THEN 0 ELSE 1

(* The assertions main() makes at its end, which go by ghost_umounted      *)
(* instead of mnt_ns: "a mounted mount was cleaned up" must not happen.    *)
MountedIsNotCleaned ==
    (\A t \in Threads : At(t, "done")) =>
        \A m \in Mounts : ~umounted[m] => cleaned[m] = 0 /\ ~freed[m]

(* One grace period per batch, and the mounts nobody holds do not wait for *)
(* it: when U waits for the held ones, all others are cleaned up or queued *)
(* for U's return to user space.                                           *)
OnlyHeldWait ==
    /\ gps <= 1
    /\ At(U, "held_gp") => \A m \in Mounts :
         \/ m \in held
         \/ fast_final[m] /\ (m \in task_work[U] \/ cleaned[m] > 0)

(* Once umount(2) has marked a mount MNT_SYNC_UMOUNT nobody gets a new     *)
(* reference to it, however far a walker was at that moment.               *)
NoNewRefsAfterSync ==
    [][\A m \in Mounts : "MNT_SYNC_UMOUNT" \in mnt_flags[m]
                            => RealRefs(m)' <= RealRefs(m)]_vars

(* Every mount that leaves its namespace is freed in the end, whoever puts *)
(* the last reference.                                                     *)
EventuallyFreed ==
    \A m \in Mounts : (mnt_ns[m] = NULL) ~> freed[m]

=============================================================================
