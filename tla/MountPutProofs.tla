--------------------------- MODULE MountPutProofs ---------------------------
(***************************************************************************)
(* Theorems about the mntput() protocol, for every number of CPUs, every   *)
(* shape of umount and every number of extra references the holder takes.  *)
(*                                                                         *)
(* First the types, the lock and the read sections.  Then the ledger of    *)
(* counted references, task by task and place by place: which reference U, *)
(* H and W have at which line.  Last mnt_get_count() against the           *)
(* references there are: the two passes over the per-CPU counters, which   *)
(* other tasks keep changing, never make a count small that is not, and a  *)
(* mount found to be without references stays so.                          *)
(***************************************************************************)
EXTENDS MountPut, TLAPS

-----------------------------------------------------------------------------
(* Type correctness *)

(* The loop index of U is a list position wherever the code uses it as one *)
(* or counts it down, also while mnt_get_count() runs in between.          *)
LoopInv ==
    /\ pc[U] \in {"tree_ns", "tree_unhash", "shortterm"} => k \in Mounts
    /\ pc[U] \in {"unheld_test", "unheld_dec", "unheld_final"} => k >= 0
    /\ pc[U] \in {"count_puts", "count_gets"} /\ cret[U] = "unheld_test" => k >= 0

TypeInv == TypeOK /\ LoopInv

(* this_cpu_inc() keeps counters natural and the ledger an integer.        *)
LEMMA PercpuType ==
  ASSUME TypeOK, NEW t \in Threads, NEW m \in Mounts, NEW b \in BOOLEAN,
         percpu_add(t, m, b)
  PROVE  /\ mnt_gets' \in [Mounts -> [CPUs -> Nat]]
         /\ mnt_puts' \in [Mounts -> [CPUs -> Nat]]
         /\ refs' \in [Threads -> [Mounts -> Int]]
<1> DEFINE c == this_cpu[t]
<1>1. c \in CPUs
  BY DEF TypeOK
<1>2. CASE b
  <2>1. mnt_puts' = [mnt_puts EXCEPT ![m] = [mnt_puts[m] EXCEPT ![c] = mnt_puts[m][c] + 1]]
    BY <1>2 DEF percpu_add
  <2>2. [mnt_puts[m] EXCEPT ![c] = mnt_puts[m][c] + 1] \in [CPUs -> Nat]
    BY <1>1 DEF TypeOK
  <2>3. refs' = [refs EXCEPT ![t] = [refs[t] EXCEPT ![m] = refs[t][m] - 1]]
    BY <1>2 DEF percpu_add
  <2>4. [refs[t] EXCEPT ![m] = refs[t][m] - 1] \in [Mounts -> Int]
    BY DEF TypeOK
  <2> HIDE DEF c
  <2> QED
    BY <1>2, <2>1, <2>2, <2>3, <2>4 DEF TypeOK, percpu_add
<1>3. CASE ~b
  <2>1. mnt_gets' = [mnt_gets EXCEPT ![m] = [mnt_gets[m] EXCEPT ![c] = mnt_gets[m][c] + 1]]
    BY <1>3 DEF percpu_add
  <2>2. [mnt_gets[m] EXCEPT ![c] = mnt_gets[m][c] + 1] \in [CPUs -> Nat]
    BY <1>1 DEF TypeOK
  <2>3. refs' = [refs EXCEPT ![t] = [refs[t] EXCEPT ![m] = refs[t][m] + 1]]
    BY <1>3 DEF percpu_add
  <2>4. [refs[t] EXCEPT ![m] = refs[t][m] + 1] \in [Mounts -> Int]
    BY DEF TypeOK
  <2> HIDE DEF c
  <2> QED
    BY <1>3, <2>1, <2>2, <2>3, <2>4 DEF TypeOK, percpu_add
<1> QED
  BY <1>2, <1>3

(* The loops of mnt_get_count() only look at possible CPUs.                *)
LEMMA NextCpuType ==
  ASSUME TypeOK, NEW t \in Threads, NEW a \in Labels, NEW b \in Labels,
         NextCpu(t, a, b)
  PROVE  cpu' \in [Threads -> CPUs] /\ pc' \in [Threads -> Labels]
<1> DEFINE c == IF cpu[t] = NCPU - 1 THEN 0 ELSE cpu[t] + 1
<1>1. cpu[t] \in CPUs
  BY DEF TypeOK
<1>2. c \in CPUs
  BY <1>1, ConfigAssumption DEF CPUs
<1>3. cpu' = [cpu EXCEPT ![t] = c]
  BY DEF NextCpu
<1>4. (IF cpu[t] = NCPU - 1 THEN b ELSE a) \in Labels
  OBVIOUS
<1>5. pc' \in [Threads -> Labels]
  BY <1>4 DEF NextCpu, Goto, TypeOK
<1> HIDE DEF c
<1> QED
  BY <1>2, <1>3, <1>5 DEF TypeOK

(* A call of mnt_get_count() sets up its locals.                           *)
LEMMA StartCountType ==
  ASSUME TypeOK, NEW t \in Threads, NEW m \in Mounts, NEW n \in CountReturns,
         StartCount(t, m, n)
  PROVE  /\ pc' \in [Threads -> Labels] /\ cur' \in [Threads -> Mounts]
         /\ cret' \in [Threads -> CountReturns] /\ cpu' \in [Threads -> CPUs]
         /\ puts' \in [Threads -> Nat] /\ gets' \in [Threads -> Nat]
         /\ ret' = ret /\ wret' = wret /\ this_cpu' = this_cpu
<1>1. "count_puts" \in Labels
  BY DEF Labels, TouchLabels
<1>2. 0 \in CPUs
  BY ConfigAssumption DEF CPUs
<1> QED
  BY <1>1, <1>2 DEF StartCount, Goto, TypeOK

(* A call of mntput().                                                     *)
LEMMA CallMntputType ==
  ASSUME TypeOK, NEW t \in Threads, NEW m \in Mounts, NEW n \in Returns,
         CallMntput(t, m, n)
  PROVE  /\ pc' \in [Threads -> Labels] /\ cur' \in [Threads -> Mounts]
         /\ ret' \in [Threads -> Returns] /\ wret' = wret /\ this_cpu' = this_cpu
<1>1. "put" \in Labels
  BY DEF Labels, TouchLabels
<1> QED
  BY <1>1 DEF CallMntput, Goto, TypeOK

(* mntput_final_locked() adds a flag.                                      *)
LEMMA FinalType ==
  ASSUME TypeOK, NEW m \in Mounts, mntput_final_locked(m)
  PROVE  mnt_flags' \in [Mounts -> SUBSET Flags] /\ mnt_ns' = mnt_ns /\ hashed' = hashed
<1>1. mnt_flags[m] \cup {"MNT_DOOMED"} \in SUBSET Flags
  BY DEF TypeOK, Flags
<1> QED
  BY <1>1 DEF mntput_final_locked, TypeOK

(* The three tasks.                                                        *)
LEMMA Tasks == U \in Threads /\ H \in Threads /\ W \in Threads
  BY DEF Threads

(* Every position of the list holds a mount of the batch.                  *)
LEMMA InsertedType ==
  ASSUME NEW i \in Mounts
  PROVE  INSERTED(i) \in Mounts
  BY ConfigAssumption DEF INSERTED, Mounts

(* The harness starts in a well-typed state.                               *)
LEMMA InitType == Init => TypeInv
<1> SUFFICES ASSUME Init PROVE TypeInv
  OBVIOUS
<1> USE ConfigAssumption DEF Init
<1>1. /\ mnt_gets \in [Mounts -> [CPUs -> Nat]]
      /\ mnt_puts \in [Mounts -> [CPUs -> Nat]]
      /\ refs \in [Threads -> [Mounts -> Int]]
  BY DEF init_mount, PerTask, CPUs
<1>2. /\ mnt_flags \in [Mounts -> SUBSET Flags]
      /\ mnt_ns \in [Mounts -> {NULL, NS_INIT, MNT_NS_INTERNAL}]
      /\ hashed \in [Mounts -> BOOLEAN]
  BY DEF init_mount, Flags
<1>3. pc \in [Threads -> Labels]
  BY DEF InitTasks, PerTask, Labels, TouchLabels, OtherLabels, WorkReturns
<1>4. /\ cur \in [Threads -> Mounts]
      /\ ret \in [Threads -> Returns]
      /\ wret \in [Threads -> WorkReturns]
      /\ cret \in [Threads -> CountReturns]
  BY DEF InitTasks, PerTask, Returns, WorkReturns, CountReturns, Mounts
<1>5. this_cpu \in [Threads -> CPUs]
  BY DEF InitTasks, PerTask, CPUs, Threads
<1>6. /\ cpu \in [Threads -> CPUs]
      /\ puts \in [Threads -> Nat] /\ gets \in [Threads -> Nat]
  BY DEF InitTasks, CPUs
<1>7. last \in [Threads -> BOOLEAN] /\ in_rcu \in [Threads -> BOOLEAN]
  BY DEF InitTasks
<1>8. gp \in [Threads -> Threads] /\ task_work \in [Threads -> SUBSET Mounts]
  BY DEF InitTasks, Threads
<1>9. left \in 0 .. GETS /\ seq \in Nat
  BY DEF InitTasks
<1>10. transient \in BOOLEAN /\ ref \in BOOLEAN
  BY Zenon DEF InitTasks
<1>11. lock_owner \in Threads \cup {Nobody} /\ sequence \in Nat
  OBVIOUS
<1>12. head \in SUBSET Mounts /\ held \in SUBSET Mounts /\ k \in -1 .. BATCH
  OBVIOUS
<1>13. /\ retval \in {0, -EPERM, -EBUSY, -EINVAL}
       /\ gps \in Nat /\ caller_put \in Nat
  OBVIOUS
<1>14. cleaned \in [Mounts -> Nat] /\ cleaner \in [Mounts -> Threads \cup {Nobody}]
  OBVIOUS
<1>15. /\ freed \in [Mounts -> BOOLEAN] /\ fast_final \in [Mounts -> BOOLEAN]
       /\ umounted \in [Mounts -> BOOLEAN]
  OBVIOUS
<1>16. TypeOK
  BY <1>1, <1>2, <1>3, <1>4, <1>5, <1>6, <1>7, <1>8, <1>9, <1>10, <1>11,
     <1>12, <1>13, <1>14, <1>15 DEF TypeOK
<1>17. k \in Mounts /\ cret[U] = "put_test"
  BY DEF InitTasks, Mounts, Threads, U
<1>18. pc[U] \in {"umount", "shortterm"}
  BY DEF InitTasks, PerTask, Threads
<1> QED
  BY <1>16, <1>17, <1>18 DEF TypeInv, LoopInv

(* A step of mntput(), of cleanup_mnt() or of run_task_work().             *)
LEMMA MntputType ==
  ASSUME TypeInv, NEW t \in Threads, Mntput(t)
  PROVE  TypeOK'
<1> USE ConfigAssumption DEF TypeInv, TypeOK, At, Goto, Labels, TouchLabels,
                             OtherLabels
<1>1. CASE MntputBegin(t)
  BY <1>1 DEF MntputBegin, rcu_read_lock, callVars, countVars, localVars,
         lockVars, counterVars, mountVars, umountVars, historyVars
<1>2. CASE mntput_no_expire(t)
  BY <1>2 DEF mntput_no_expire, callVars, countVars, localVars, lockVars,
         counterVars, mountVars, umountVars, historyVars
<1>3. CASE MntputFast(t)
  <2>1. cur[t] \in Mounts
    OBVIOUS
  <2>2. percpu_add(t, cur[t], TRUE)
    BY <1>3 DEF MntputFast, mnt_dec_count
  <2>3. /\ mnt_gets' \in [Mounts -> [CPUs -> Nat]]
        /\ mnt_puts' \in [Mounts -> [CPUs -> Nat]]
        /\ refs' \in [Threads -> [Mounts -> Int]]
    BY <2>1, <2>2, PercpuType
  <2> QED
    BY <1>3, <2>1, <2>2, <2>3
       DEF MntputFast, callVars, countVars, localVars, lockVars, mountVars,
              umountVars, historyVars
<1>4. CASE MntputFastEnd(t)
  BY <1>4 DEF MntputFastEnd, rcu_read_unlock, callVars, countVars, localVars,
         lockVars, counterVars, mountVars, umountVars, historyVars
<1>5. CASE SlowpathLock(t)
  BY <1>5 DEF SlowpathLock, lock_mount_hash, write_seqlock, callVars,
         countVars, localVars, counterVars, mountVars, umountVars, historyVars
<1>6. CASE SlowpathDec(t)
  <2>1. cur[t] \in Mounts /\ "put_test" \in CountReturns
    BY DEF CountReturns
  <2>2. percpu_add(t, cur[t], TRUE) /\ StartCount(t, cur[t], "put_test")
    BY <1>6 DEF SlowpathDec, mnt_dec_count
  <2>3. /\ mnt_gets' \in [Mounts -> [CPUs -> Nat]]
        /\ mnt_puts' \in [Mounts -> [CPUs -> Nat]]
        /\ refs' \in [Threads -> [Mounts -> Int]]
    BY <2>1, <2>2, PercpuType
  <2>4. /\ pc' \in [Threads -> Labels] /\ cur' \in [Threads -> Mounts]
        /\ cret' \in [Threads -> CountReturns] /\ cpu' \in [Threads -> CPUs]
        /\ puts' \in [Threads -> Nat] /\ gets' \in [Threads -> Nat]
        /\ ret' = ret /\ wret' = wret /\ this_cpu' = this_cpu
    BY <2>1, <2>2, StartCountType
  <2> QED
    BY <1>6, <2>1, <2>2, <2>3, <2>4
       DEF SlowpathDec, localVars, lockVars, mountVars, umountVars,
              historyVars
<1>7. CASE CountPuts(t)
  <2>1. "count_puts" \in Labels /\ "count_gets" \in Labels
    OBVIOUS
  <2>2. cpu' \in [Threads -> CPUs] /\ pc' \in [Threads -> Labels]
    BY <1>7, <2>1, NextCpuType DEF CountPuts
  <2>3. mnt_puts[cur[t]][cpu[t]] \in Nat
    OBVIOUS
  <2>4. puts' \in [Threads -> Nat]
    BY <1>7, <2>3 DEF CountPuts
  <2> QED
    BY <1>7, <2>1, <2>2, <2>3, <2>4
       DEF CountPuts, callVars, localVars, lockVars, counterVars, mountVars,
              umountVars, historyVars
<1>8. CASE CountGets(t)
  <2>1. "count_gets" \in Labels /\ cret[t] \in Labels
    BY DEF CountReturns
  <2>2. cpu' \in [Threads -> CPUs] /\ pc' \in [Threads -> Labels]
    BY <1>8, <2>1, NextCpuType DEF CountGets
  <2>3. mnt_gets[cur[t]][cpu[t]] \in Nat
    OBVIOUS
  <2>4. gets' \in [Threads -> Nat]
    BY <1>8, <2>3 DEF CountGets
  <2> QED
    BY <1>8, <2>1, <2>2, <2>3, <2>4
       DEF CountGets, callVars, localVars, lockVars, counterVars, mountVars,
              umountVars, historyVars
<1>9. CASE mntput_no_expire_slowpath(t)
  <2>1. cur[t] \in Mounts
    OBVIOUS
  <2>2. IsLastPut(cur[t], Count(t)) \in BOOLEAN
    BY DEF IsLastPut
  <2>3. last' \in [Threads -> BOOLEAN]
    BY <1>9, <2>2, Zenon DEF mntput_no_expire_slowpath
  <2>4. /\ mnt_flags' \in [Mounts -> SUBSET Flags]
        /\ mnt_ns' = mnt_ns /\ hashed' = hashed
    BY <1>9, <2>1, FinalType DEF mntput_no_expire_slowpath, mountVars
  <2> QED
    BY <1>9, <2>1, <2>2, <2>3, <2>4
       DEF mntput_no_expire_slowpath, callVars, countVars, lockVars,
              counterVars, mountVars, umountVars, historyVars
<1>10. CASE SlowpathRcuUnlock(t)
  BY <1>10 DEF SlowpathRcuUnlock, rcu_read_unlock, callVars, countVars,
         localVars, lockVars, counterVars, mountVars, umountVars, historyVars
<1>11. CASE SlowpathUnlock(t)
  BY <1>11 DEF SlowpathUnlock, unlock_mount_hash, write_sequnlock, callVars,
         countVars, localVars, counterVars, mountVars, umountVars, historyVars
<1>12. CASE mntput_queue_cleanup(t)
  <2>1. CASE "MNT_INTERNAL" \in mnt_flags[cur[t]]
    BY <1>12, <2>1 DEF mntput_queue_cleanup, callVars, countVars, localVars,
           lockVars, counterVars, mountVars, umountVars, historyVars
  <2>2. CASE "MNT_INTERNAL" \notin mnt_flags[cur[t]]
    <3>1. task_work' = [task_work EXCEPT ![t] = task_work[t] \cup {cur[t]}]
      BY <1>12, <2>2 DEF mntput_queue_cleanup
    <3>2. task_work[t] \cup {cur[t]} \in SUBSET Mounts
      OBVIOUS
    <3>3. task_work' \in [Threads -> SUBSET Mounts]
      BY <3>1, <3>2
    <3>4. Goto(t, ret[t])
      BY <1>12, <2>2 DEF mntput_queue_cleanup
    <3> QED
      BY <1>12, <3>3, <3>4 DEF mntput_queue_cleanup, callVars, countVars,
             localVars, lockVars, counterVars, mountVars, umountVars,
             historyVars
  <2> QED
    BY <2>1, <2>2
<1>13. CASE cleanup_mnt(t)
  BY <1>13 DEF cleanup_mnt, FirstOther, callVars, countVars, lockVars,
         counterVars, mountVars, umountVars, Threads
<1>14. CASE CleanupGp(t)
  BY <1>14 DEF CleanupGp, synchronize_rcu, LastOther, callVars, countVars,
         lockVars, counterVars, mountVars, umountVars, historyVars, Threads
<1>15. CASE free_vfsmnt(t)
  BY <1>15 DEF free_vfsmnt, callVars, countVars, localVars, lockVars,
         counterVars, mountVars, umountVars
<1>16. CASE run_task_work(t)
  BY <1>16 DEF run_task_work, countVars, localVars, lockVars, counterVars,
         mountVars, umountVars, historyVars, Returns
<1>17. CASE NoTaskWork(t)
  BY <1>17 DEF NoTaskWork, callVars, countVars, localVars, lockVars,
         counterVars, mountVars, umountVars, historyVars, Returns
<1> QED
  BY <1>1, <1>2, <1>3, <1>4, <1>5, <1>6, <1>7, <1>8, <1>9, <1>10, <1>11,
         <1>12, <1>13, <1>14, <1>15, <1>16, <1>17 DEF Mntput

(* A step of the holder.                                                   *)
LEMMA HolderType ==
  ASSUME TypeInv, holder
  PROVE  TypeOK'
<1> USE ConfigAssumption DEF TypeInv, TypeOK, At, Goto, Labels, TouchLabels,
                             OtherLabels
<1>1. CASE HolderGet
  <2>1. HELD \in Mounts /\ percpu_add(H, HELD, FALSE)
    BY <1>1 DEF HolderGet, mnt_inc_count
  <2>2. /\ mnt_gets' \in [Mounts -> [CPUs -> Nat]]
        /\ mnt_puts' \in [Mounts -> [CPUs -> Nat]]
        /\ refs' \in [Threads -> [Mounts -> Int]]
    BY <2>1, PercpuType, Tasks
  <2>3. 0 \in CPUs /\ this_cpu[H] \in CPUs
    BY Tasks DEF CPUs
  <2>4. this_cpu' \in [Threads -> CPUs]
    BY <1>1, <2>3, Tasks, Zenon DEF HolderGet
  <2>5. left' \in 0 .. GETS
    BY <1>1 DEF HolderGet
  <2>6. cur' \in [Threads -> Mounts] /\ ret' \in [Threads -> Returns]
    BY <1>1, Tasks DEF HolderGet, Returns
  <2>7. pc' \in [Threads -> Labels]
    BY <1>1, Tasks DEF HolderGet
  <2> QED
    BY <1>1, <2>1, <2>2, <2>3, <2>4, <2>5, <2>6, <2>7, Tasks
       DEF HolderGet, countVars, lockVars, mountVars, umountVars, historyVars
<1>2. CASE HolderLastPut
  BY <1>2, Tasks DEF HolderLastPut, countVars, localVars, lockVars,
         counterVars, mountVars, umountVars, historyVars, Returns, WorkReturns
<1>3. CASE Mntput(H)
  BY <1>3, MntputType, Tasks
<1> QED
  BY <1>1, <1>2, <1>3 DEF holder

(* A step of the walker.                                                   *)
LEMMA WalkerType ==
  ASSUME TypeInv, walker
  PROVE  TypeOK'
<1> USE ConfigAssumption DEF TypeInv, TypeOK, At, Goto, Labels, TouchLabels,
                             OtherLabels
<1>1. CASE WalkerBegin
  BY <1>1, Tasks DEF WalkerBegin, rcu_read_lock, callVars, countVars,
         localVars, lockVars, counterVars, mountVars, umountVars, historyVars
<1>2. CASE read_seqbegin
  BY <1>2, Tasks DEF read_seqbegin, callVars, countVars, lockVars,
         counterVars, mountVars, umountVars, historyVars
<1>3. CASE WalkerFind
  BY <1>3, Tasks DEF WalkerFind, Found, countVars, lockVars, counterVars,
         mountVars, umountVars, historyVars
<1>4. CASE LegitimizeBegin
  BY <1>4, Tasks DEF LegitimizeBegin, read_seqretry, callVars, countVars,
         localVars, lockVars, counterVars, mountVars, umountVars, historyVars
<1>5. CASE LegitimizeInc
  <2>1. cur[W] \in Mounts
    BY Tasks
  <2>2. percpu_add(W, cur[W], FALSE)
    BY <1>5 DEF LegitimizeInc, mnt_inc_count
  <2>3. /\ mnt_gets' \in [Mounts -> [CPUs -> Nat]]
        /\ mnt_puts' \in [Mounts -> [CPUs -> Nat]]
        /\ refs' \in [Threads -> [Mounts -> Int]]
    BY <2>1, <2>2, PercpuType, Tasks
  <2> QED
    BY <1>5, <2>1, <2>2, <2>3, Tasks
       DEF LegitimizeInc, callVars, countVars, localVars, lockVars, mountVars,
              umountVars, historyVars
<1>6. CASE LegitimizeRetry
  BY <1>6, Tasks DEF LegitimizeRetry, read_seqretry, callVars, countVars,
         localVars, lockVars, counterVars, mountVars, umountVars, historyVars
<1>7. CASE LegitimizeLock
  BY <1>7, Tasks DEF LegitimizeLock, lock_mount_hash, write_seqlock, callVars,
         countVars, localVars, counterVars, mountVars, umountVars, historyVars
<1>8. CASE LegitimizeFlags
  <2>1. cur[W] \in Mounts
    BY Tasks
  <2>2. percpu_add(W, cur[W], TRUE) \/ UNCHANGED counterVars
    BY <1>8 DEF LegitimizeFlags, mnt_dec_count
  <2>3. /\ mnt_gets' \in [Mounts -> [CPUs -> Nat]]
        /\ mnt_puts' \in [Mounts -> [CPUs -> Nat]]
        /\ refs' \in [Threads -> [Mounts -> Int]]
    BY <2>1, <2>2, PercpuType, Tasks DEF counterVars
  <2>4. Goto(W, "legit_refuse") \/ Goto(W, "legit_drop")
    BY <1>8 DEF LegitimizeFlags
  <2>5. pc' \in [Threads -> Labels]
    BY <2>4, Tasks
  <2> QED
    BY <1>8, <2>1, <2>2, <2>3, <2>4, <2>5, Tasks
       DEF LegitimizeFlags, callVars, countVars, localVars, lockVars,
              counterVars, mountVars, umountVars, historyVars
<1>9. CASE LegitimizeUnlock
  BY <1>9, Tasks DEF LegitimizeUnlock, unlock_mount_hash, write_sequnlock,
         callVars, countVars, localVars, counterVars, mountVars, umountVars,
         historyVars
<1>10. CASE legitimize_mnt
  BY <1>10, Tasks DEF legitimize_mnt, rcu_read_unlock, CallMntput, countVars,
         localVars, lockVars, counterVars, mountVars, umountVars, historyVars,
         Returns
<1>11. CASE LegitimizeRelock
  BY <1>11, Tasks DEF LegitimizeRelock, rcu_read_lock, callVars, countVars,
         localVars, lockVars, counterVars, mountVars, umountVars, historyVars,
         Returns
<1>12. CASE WalkerFail
  BY <1>12, Tasks DEF WalkerFail, WalkerLeaves, rcu_read_unlock, callVars,
         countVars, lockVars, counterVars, mountVars, umountVars, historyVars,
         Returns
<1>13. CASE WalkerLegit
  BY <1>13, Tasks DEF WalkerLegit, WalkerLeaves, rcu_read_unlock, callVars,
         countVars, lockVars, counterVars, mountVars, umountVars, historyVars
<1>14. CASE WalkerUse
  BY <1>14, Tasks DEF WalkerUse, CallMntput, countVars, localVars, lockVars,
         counterVars, mountVars, umountVars, historyVars, Returns
<1>15. CASE Mntput(W)
  BY <1>15, MntputType, Tasks
<1> QED
  BY <1>1, <1>2, <1>3, <1>4, <1>5, <1>6, <1>7, <1>8, <1>9, <1>10, <1>11,
         <1>12, <1>13, <1>14, <1>15 DEF walker

(* A step of the unmounting task.                                          *)
LEMMA MainType ==
  ASSUME TypeInv, main
  PROVE  TypeOK'
<1> USE ConfigAssumption DEF TypeInv, TypeOK, At, Goto, Labels, TouchLabels,
                             OtherLabels
<1>1. CASE UmountRefused
  <2>1. 0 \in Mounts /\ "work" \in Returns
    BY DEF Mounts, Returns
  <2>2. /\ pc' \in [Threads -> Labels] /\ cur' \in [Threads -> Mounts]
        /\ ret' \in [Threads -> Returns] /\ wret' = wret /\ this_cpu' = this_cpu
    BY <1>1, <2>1, CallMntputType, Tasks DEF UmountRefused, DROP_REF
  <2> QED
    BY <1>1, <2>1, <2>2, Tasks
       DEF UmountRefused, DROP_REF, countVars, localVars, lockVars,
              counterVars, mountVars, historyVars
<1>2. CASE UmountAllowed
  BY <1>2, Tasks DEF UmountAllowed, callVars, countVars, localVars, lockVars,
         counterVars, mountVars, umountVars, historyVars
<1>3. CASE UmountLock
  BY <1>3, Tasks DEF UmountLock, lock_mount_hash, write_seqlock, callVars,
         countVars, localVars, counterVars, mountVars, umountVars, historyVars
<1>4. CASE do_umount
  <2>1. CASE UmountFails(EINVAL)
    BY <1>4, <2>1 DEF do_umount, UmountFails, localVars, lockVars, counterVars,
           historyVars, callVars, countVars
  <2>2. CASE UmountTreeBegin
    <3>1. \A m \in Mounts : mnt_flags[m] \cup {"MNT_UMOUNT"} \in SUBSET Flags
      BY DEF Flags
    <3>2. mnt_flags' \in [Mounts -> SUBSET Flags] /\ k' \in -1 .. BATCH
      BY <2>2, <3>1 DEF UmountTreeBegin
    <3>3. pc' \in [Threads -> Labels]
      BY <2>2, Tasks DEF UmountTreeBegin
    <3> QED
      BY <1>4, <2>2, <3>2, <3>3 DEF do_umount, UmountTreeBegin, localVars,
             lockVars, counterVars, historyVars, callVars, countVars
  <2>3. CASE StartCount(U, 0, "busy_test") /\ UNCHANGED <<mnt_flags, k, retval>>
    <3>1. 0 \in Mounts /\ "busy_test" \in CountReturns
      BY DEF Mounts, CountReturns
    <3>2. /\ pc' \in [Threads -> Labels] /\ cur' \in [Threads -> Mounts]
          /\ cret' \in [Threads -> CountReturns] /\ cpu' \in [Threads -> CPUs]
          /\ puts' \in [Threads -> Nat] /\ gets' \in [Threads -> Nat]
          /\ ret' = ret /\ wret' = wret /\ this_cpu' = this_cpu
      BY <2>3, <3>1, StartCountType, Tasks
    <3> QED
      BY <1>4, <2>3, <3>2 DEF do_umount, localVars, lockVars, counterVars,
             historyVars, callVars, countVars
  <2> QED
    BY <1>4, <2>1, <2>2, <2>3 DEF do_umount
<1>5. CASE propagate_mount_busy
  <2>1. CASE UmountFails(EBUSY)
    BY <1>5, <2>1 DEF propagate_mount_busy, UmountFails, localVars, lockVars,
           counterVars, historyVars, callVars, countVars
  <2>2. CASE UmountTreeBegin
    <3>1. \A m \in Mounts : mnt_flags[m] \cup {"MNT_UMOUNT"} \in SUBSET Flags
      BY DEF Flags
    <3>2. mnt_flags' \in [Mounts -> SUBSET Flags] /\ k' \in -1 .. BATCH
      BY <2>2, <3>1 DEF UmountTreeBegin
    <3>3. pc' \in [Threads -> Labels]
      BY <2>2, Tasks DEF UmountTreeBegin
    <3> QED
      BY <1>5, <2>2, <3>2, <3>3 DEF propagate_mount_busy, UmountTreeBegin,
             localVars, lockVars, counterVars, historyVars, callVars, countVars
  <2> QED
    BY <1>5, <2>1, <2>2 DEF propagate_mount_busy
<1>6. CASE umount_tree
  <2>1. k \in Mounts
    BY <1>6 DEF LoopInv, umount_tree
  <2>2. mnt_flags[k] \cup (IF SHAPE = "sync" THEN {"MNT_SYNC_UMOUNT"} ELSE {}) \in SUBSET Flags
    BY <2>1 DEF Flags
  <2>3. mnt_flags' \in [Mounts -> SUBSET Flags]
    BY <1>6, <2>1, <2>2 DEF umount_tree
  <2>4. mnt_ns' \in [Mounts -> {NULL, NS_INIT, MNT_NS_INTERNAL}]
    BY <1>6, <2>1 DEF umount_tree
  <2>5. umounted' \in [Mounts -> BOOLEAN]
    BY <1>6, <2>1 DEF umount_tree
  <2>6. pc' \in [Threads -> Labels]
    BY <1>6, Tasks DEF umount_tree
  <2> QED
    BY <1>6, <2>1, <2>2, <2>3, <2>4, <2>5, <2>6, Tasks
       DEF umount_tree, callVars, countVars, localVars, lockVars, counterVars,
              umountVars
<1>7. CASE umount_mnt
  <2>1. k \in Mounts
    BY <1>7 DEF LoopInv, umount_mnt
  <2>2. hashed' \in [Mounts -> BOOLEAN] /\ head' \in SUBSET Mounts
    BY <1>7, <2>1 DEF umount_mnt
  <2>3. k' \in -1 .. BATCH
    BY <1>7, <2>1 DEF umount_mnt, Mounts
  <2>4. pc' \in [Threads -> Labels]
    BY <1>7, Tasks DEF umount_mnt
  <2> QED
    BY <1>7, <2>1, <2>2, <2>3, <2>4, Tasks
       DEF umount_mnt, callVars, countVars, localVars, lockVars, counterVars,
              historyVars
<1>8. CASE UmountDropsCaller
  <2>1. 0 \in Mounts
    BY DEF Mounts
  <2>2. percpu_add(U, 0, TRUE)
    BY <1>8 DEF UmountDropsCaller, mnt_dec_count
  <2>3. /\ mnt_gets' \in [Mounts -> [CPUs -> Nat]]
        /\ mnt_puts' \in [Mounts -> [CPUs -> Nat]]
        /\ refs' \in [Threads -> [Mounts -> Int]]
    BY <2>1, <2>2, PercpuType, Tasks
  <2>4. caller_put' \in Nat
    BY <1>8 DEF UmountDropsCaller
  <2>5. ref' \in BOOLEAN
    BY <1>8 DEF UmountDropsCaller
  <2>6. pc' \in [Threads -> Labels]
    BY <1>8, Tasks DEF UmountDropsCaller
  <2> QED
    BY <1>8, <2>1, <2>2, <2>3, <2>4, <2>5, <2>6, Tasks
       DEF UmountDropsCaller, callVars, countVars, localVars, lockVars,
              mountVars, historyVars
<1>9. CASE namespace_unlock
  BY <1>9, Tasks DEF namespace_unlock, unlock_mount_hash, write_sequnlock,
         callVars, countVars, localVars, counterVars, mountVars, umountVars,
         historyVars
<1>10. CASE UmountEnd
  <2>1. 0 \in Mounts /\ "work" \in Returns
    BY DEF Mounts, Returns
  <2>2. \/ CallMntput(U, 0, "work")
        \/ Goto(U, "work") /\ UNCHANGED callVars
    BY <1>10, Zenon DEF UmountEnd, DROP_REF
  <2>3. /\ pc' \in [Threads -> Labels] /\ cur' \in [Threads -> Mounts]
        /\ ret' \in [Threads -> Returns] /\ wret' = wret /\ this_cpu' = this_cpu
    BY <2>1, <2>2, CallMntputType, Tasks DEF callVars, Returns
  <2>4. ref' \in BOOLEAN
    BY <1>10 DEF UmountEnd
  <2>5. caller_put' \in Nat
    BY <1>10 DEF UmountEnd, DROP_REF
  <2> QED
    BY <1>10, <2>1, <2>2, <2>3, <2>4, <2>5, Tasks
       DEF UmountEnd, DROP_REF, callVars, countVars, localVars, lockVars,
              counterVars, mountVars, historyVars
<1>11. CASE kern_unmount_array
  <2>1. k \in Mounts /\ INSERTED(k) \in Mounts
    BY <1>11, InsertedType DEF LoopInv, kern_unmount_array
  <2>2. mnt_ns' \in [Mounts -> {NULL, NS_INIT, MNT_NS_INTERNAL}]
        /\ head' \in SUBSET Mounts
    BY <1>11, <2>1 DEF kern_unmount_array, mnt_make_shortterm
  <2>3. k' \in -1 .. BATCH
    BY <1>11, <2>1 DEF kern_unmount_array, Mounts
  <2>4. pc' \in [Threads -> Labels]
    BY <1>11, Tasks DEF kern_unmount_array
  <2> QED
    BY <1>11, <2>1, <2>2, <2>3, <2>4, Tasks
       DEF kern_unmount_array, mnt_make_shortterm, callVars, countVars,
              localVars, lockVars, counterVars, historyVars
<1>12. CASE UnmountedLock
  BY <1>12, Tasks DEF UnmountedLock, lock_mount_hash, write_seqlock, callVars,
         countVars, localVars, counterVars, mountVars, historyVars
<1>13. CASE UnheldNext
  <2>1. k \in Int /\ k >= 0
    BY <1>13 DEF UnheldNext
  <2>2. CASE INSERTED(k) \in head
    <3>1. INSERTED(k) \in Mounts /\ "unheld_test" \in CountReturns
      BY <2>2 DEF CountReturns
    <3>2. StartCount(U, INSERTED(k), "unheld_test") /\ k' = k
      BY <1>13, <2>2 DEF UnheldNext
    <3>3. /\ pc' \in [Threads -> Labels] /\ cur' \in [Threads -> Mounts]
          /\ cret' \in [Threads -> CountReturns] /\ cpu' \in [Threads -> CPUs]
          /\ puts' \in [Threads -> Nat] /\ gets' \in [Threads -> Nat]
          /\ ret' = ret /\ wret' = wret /\ this_cpu' = this_cpu
      BY <3>1, <3>2, StartCountType, Tasks
    <3> QED
      BY <1>13, <3>2, <3>3 DEF UnheldNext, callVars, countVars, localVars,
             lockVars, counterVars, mountVars, historyVars
  <2>3. CASE INSERTED(k) \notin head
    <3>1. k' \in -1 .. BATCH /\ UNCHANGED <<pc, callVars, countVars>>
      BY <1>13, <2>1, <2>3 DEF UnheldNext
    <3> QED
      BY <1>13, <3>1 DEF UnheldNext, callVars, countVars, localVars, lockVars,
             counterVars, mountVars, historyVars
  <2> QED
    BY <2>2, <2>3
<1>14. CASE mntput_unheld
  <2>1. cur[U] \in Mounts /\ k >= 0
    BY <1>14, Tasks DEF LoopInv, mntput_unheld
  <2>2. head' \in SUBSET Mounts /\ held' \in SUBSET Mounts
    BY <1>14, <2>1 DEF mntput_unheld
  <2>3. k' \in -1 .. BATCH
    BY <1>14, <2>1 DEF mntput_unheld
  <2>4. Goto(U, "unheld_dec") \/ Goto(U, "unheld_next")
    BY <1>14 DEF mntput_unheld
  <2>5. pc' \in [Threads -> Labels]
    BY <2>4, Tasks
  <2> QED
    BY <1>14, <2>1, <2>2, <2>3, <2>4, <2>5, Tasks
       DEF mntput_unheld, callVars, countVars, localVars, lockVars,
              counterVars, mountVars, historyVars
<1>15. CASE UnheldDec
  <2>1. cur[U] \in Mounts
    BY Tasks
  <2>2. percpu_add(U, cur[U], TRUE)
    BY <1>15 DEF UnheldDec, mnt_dec_count
  <2>3. /\ mnt_gets' \in [Mounts -> [CPUs -> Nat]]
        /\ mnt_puts' \in [Mounts -> [CPUs -> Nat]]
        /\ refs' \in [Threads -> [Mounts -> Int]]
    BY <2>1, <2>2, PercpuType, Tasks
  <2> QED
    BY <1>15, <2>1, <2>2, <2>3, Tasks
       DEF UnheldDec, callVars, countVars, localVars, lockVars, mountVars,
              umountVars, historyVars
<1>16. CASE UnheldFinal
  <2>1. cur[U] \in Mounts /\ k >= 0
    BY <1>16, Tasks DEF LoopInv, UnheldFinal
  <2>2. /\ mnt_flags' \in [Mounts -> SUBSET Flags]
        /\ mnt_ns' = mnt_ns /\ hashed' = hashed
    BY <1>16, <2>1, FinalType DEF UnheldFinal
  <2>3. fast_final' \in [Mounts -> BOOLEAN]
    BY <1>16, <2>1 DEF UnheldFinal
  <2>4. k' \in -1 .. BATCH
    BY <1>16, <2>1 DEF UnheldFinal
  <2>5. pc' \in [Threads -> Labels]
    BY <1>16, Tasks DEF UnheldFinal
  <2> QED
    BY <1>16, <2>1, <2>2, <2>3, <2>4, <2>5, Tasks
       DEF UnheldFinal, callVars, countVars, localVars, lockVars, counterVars
<1>17. CASE UnmountedUnlock
  BY <1>17, Tasks DEF UnmountedUnlock, unlock_mount_hash, write_sequnlock,
         callVars, countVars, localVars, counterVars, mountVars, historyVars,
         Returns
<1>18. CASE QueueNext
  <2>1. k >= 0
    BY <1>18 DEF QueueNext
  <2>2. \/ cur' = [cur EXCEPT ![U] = INSERTED(k)] /\ INSERTED(k) \in Mounts
        \/ cur' = cur
    BY <1>18 DEF QueueNext
  <2>3. cur' \in [Threads -> Mounts]
    BY <2>2, Tasks
  <2>4. ret' \in [Threads -> Returns]
    BY <1>18, Tasks DEF QueueNext, Returns
  <2>5. head' \in SUBSET Mounts
    BY <1>18 DEF QueueNext
  <2>6. k' \in -1 .. BATCH
    BY <1>18, <2>1 DEF QueueNext
  <2>7. pc' \in [Threads -> Labels]
    BY <1>18, Tasks DEF QueueNext
  <2> QED
    BY <1>18, <2>1, <2>2, <2>3, <2>4, <2>5, <2>6, <2>7, Tasks
       DEF QueueNext, countVars, localVars, lockVars, counterVars, mountVars,
              historyVars
<1>19. CASE mntput_unmounted
  <2>1. FirstOther(U) \in Threads
    BY DEF FirstOther, Threads
  <2>2. gp' \in [Threads -> Threads]
    BY <1>19, <2>1 DEF mntput_unmounted
  <2>3. gps' \in Nat
    BY <1>19 DEF mntput_unmounted
  <2>4. k' \in -1 .. BATCH
    BY <1>19 DEF mntput_unmounted
  <2>5. pc' \in [Threads -> Labels]
    BY <1>19, Tasks DEF mntput_unmounted
  <2> QED
    BY <1>19, <2>1, <2>2, <2>3, <2>4, <2>5, Tasks
       DEF mntput_unmounted, callVars, countVars, lockVars, counterVars,
              mountVars, historyVars
<1>20. CASE HeldGp
  BY <1>20, Tasks DEF HeldGp, synchronize_rcu, LastOther, callVars, countVars,
         lockVars, counterVars, mountVars, umountVars, historyVars, Returns,
         Threads
<1>21. CASE HeldNext
  <2>1. "held_next" \in Returns
    BY DEF Returns
  <2>2. \/ INSERTED(k) \in Mounts /\ CallMntput(U, INSERTED(k), "held_next")
        \/ UNCHANGED <<pc, callVars>>
    BY <1>21 DEF HeldNext
  <2>3. /\ pc' \in [Threads -> Labels] /\ cur' \in [Threads -> Mounts]
        /\ ret' \in [Threads -> Returns] /\ wret' = wret /\ this_cpu' = this_cpu
    BY <2>1, <2>2, CallMntputType, Tasks DEF callVars
  <2>4. held' \in SUBSET Mounts
    BY <1>21 DEF HeldNext
  <2>5. k' \in -1 .. BATCH
    BY <1>21 DEF HeldNext
  <2> QED
    BY <1>21, <2>1, <2>2, <2>3, <2>4, <2>5, Tasks
       DEF HeldNext, callVars, countVars, localVars, lockVars, counterVars,
              mountVars, historyVars
<1>22. CASE HeldEnd
  BY <1>22, Tasks DEF HeldEnd, callVars, countVars, localVars, lockVars,
         counterVars, mountVars, umountVars, historyVars, Returns
<1>23. CASE Join
  BY <1>23, Tasks DEF Join, callVars, countVars, localVars, lockVars,
         counterVars, mountVars, umountVars, historyVars, WorkReturns
<1>24. CASE Mntput(U)
  BY <1>24, MntputType, Tasks
<1> QED
  BY <1>1, <1>2, <1>3, <1>4, <1>5, <1>6, <1>7, <1>8, <1>9, <1>10, <1>11,
         <1>12, <1>13, <1>14, <1>15, <1>16, <1>17, <1>18, <1>19, <1>20, <1>21,
         <1>22, <1>23, <1>24 DEF main

(* A step keeps the loop index of U in range where U uses it: mntput() and *)
(* the other tasks leave it alone.                                         *)
LoopStep ==
    /\ k' = k
    /\ \/ pc'[U] = pc[U] /\ cret'[U] = cret[U]
       \/ pc'[U] \notin {"tree_ns", "tree_unhash", "shortterm", "count_puts",
                         "count_gets", "unheld_test", "unheld_dec", "unheld_final"}
       \/ pc'[U] \in {"count_puts", "count_gets"} /\ cret'[U] = "put_test"
       \/ /\ pc[U] \in {"count_puts", "count_gets"} /\ cret'[U] = cret[U]
          /\ pc'[U] \in {"count_puts", "count_gets", cret[U]}

(* Such a step keeps LoopInv.                                              *)
LEMMA LoopKept ==
  ASSUME TypeInv, LoopStep
  PROVE  LoopInv'
  BY Tasks DEF TypeInv, LoopInv, LoopStep, TypeOK, CountReturns

(* mntput() does not touch the loop index, and returns out of no loop.     *)
LEMMA MntputLoop ==
  ASSUME TypeInv, NEW t \in Threads, Mntput(t)
  PROVE  LoopStep
<1> USE Tasks DEF TypeInv, TypeOK, At, Goto, LoopStep, Returns, WorkReturns,
                  CountReturns
<1>1. CASE MntputBegin(t)
  BY <1>1 DEF MntputBegin, rcu_read_lock, countVars, umountVars
<1>2. CASE mntput_no_expire(t)
  BY <1>2 DEF mntput_no_expire, countVars, umountVars
<1>3. CASE MntputFast(t)
  BY <1>3 DEF MntputFast, countVars, umountVars
<1>4. CASE MntputFastEnd(t)
  BY <1>4 DEF MntputFastEnd, rcu_read_unlock, countVars, umountVars
<1>5. CASE SlowpathLock(t)
  BY <1>5 DEF SlowpathLock, lock_mount_hash, countVars, umountVars
<1>6. CASE SlowpathDec(t)
  BY <1>6 DEF SlowpathDec, StartCount, umountVars
<1>7. CASE CountPuts(t)
  BY <1>7 DEF CountPuts, NextCpu, umountVars
<1>8. CASE CountGets(t)
  BY <1>8 DEF CountGets, NextCpu, umountVars
<1>9. CASE mntput_no_expire_slowpath(t)
  BY <1>9 DEF mntput_no_expire_slowpath, countVars, umountVars
<1>10. CASE SlowpathRcuUnlock(t)
  BY <1>10 DEF SlowpathRcuUnlock, rcu_read_unlock, countVars, umountVars
<1>11. CASE SlowpathUnlock(t)
  BY <1>11 DEF SlowpathUnlock, unlock_mount_hash, countVars, umountVars
<1>12. CASE mntput_queue_cleanup(t)
  BY <1>12 DEF mntput_queue_cleanup, countVars, umountVars
<1>13. CASE cleanup_mnt(t)
  BY <1>13 DEF cleanup_mnt, countVars, umountVars
<1>14. CASE CleanupGp(t)
  BY <1>14 DEF CleanupGp, synchronize_rcu, countVars, umountVars
<1>15. CASE free_vfsmnt(t)
  BY <1>15 DEF free_vfsmnt, countVars, umountVars
<1>16. CASE run_task_work(t)
  BY <1>16 DEF run_task_work, countVars, umountVars
<1>17. CASE NoTaskWork(t)
  BY <1>17 DEF NoTaskWork, countVars, umountVars
<1> QED
  BY <1>1, <1>2, <1>3, <1>4, <1>5, <1>6, <1>7, <1>8, <1>9, <1>10, <1>11,
         <1>12, <1>13, <1>14, <1>15, <1>16, <1>17 DEF Mntput

(* The holder does not touch the loop index.                               *)
LEMMA HolderLoop ==
  ASSUME TypeInv, holder
  PROVE  LoopStep
<1> USE Tasks DEF TypeInv, TypeOK, At, Goto, LoopStep, U, H, Returns,
                  WorkReturns, CountReturns
<1>1. CASE HolderGet
  BY <1>1, Tasks DEF HolderGet, countVars, umountVars
<1>2. CASE HolderLastPut
  BY <1>2, Tasks DEF HolderLastPut, countVars, umountVars
<1>3. CASE Mntput(H)
  BY <1>3, MntputLoop, Tasks DEF TypeInv
<1> QED
  BY <1>1, <1>2, <1>3 DEF holder

(* Nor does the walker.                                                    *)
LEMMA WalkerLoop ==
  ASSUME TypeInv, walker
  PROVE  LoopStep
<1> USE Tasks DEF TypeInv, TypeOK, At, Goto, LoopStep, U, W, Returns,
                  WorkReturns, CountReturns
<1>1. CASE WalkerBegin
  BY <1>1, Tasks DEF WalkerBegin, rcu_read_lock, countVars, umountVars
<1>2. CASE read_seqbegin
  BY <1>2, Tasks DEF read_seqbegin, countVars, umountVars
<1>3. CASE WalkerFind
  BY <1>3, Tasks DEF WalkerFind, countVars, umountVars
<1>4. CASE LegitimizeBegin
  BY <1>4, Tasks DEF LegitimizeBegin, countVars, umountVars
<1>5. CASE LegitimizeInc
  BY <1>5, Tasks DEF LegitimizeInc, countVars, umountVars
<1>6. CASE LegitimizeRetry
  BY <1>6, Tasks DEF LegitimizeRetry, countVars, umountVars
<1>7. CASE LegitimizeLock
  BY <1>7, Tasks DEF LegitimizeLock, lock_mount_hash, countVars, umountVars
<1>8. CASE LegitimizeFlags
  BY <1>8, Tasks DEF LegitimizeFlags, countVars, umountVars
<1>9. CASE LegitimizeUnlock
  BY <1>9, Tasks DEF LegitimizeUnlock, unlock_mount_hash, countVars,
         umountVars
<1>10. CASE legitimize_mnt
  BY <1>10, Tasks DEF legitimize_mnt, rcu_read_unlock, CallMntput, countVars,
         umountVars
<1>11. CASE LegitimizeRelock
  BY <1>11, Tasks DEF LegitimizeRelock, rcu_read_lock, countVars, umountVars
<1>12. CASE WalkerFail
  BY <1>12, Tasks DEF WalkerFail, WalkerLeaves, rcu_read_unlock, countVars,
         umountVars
<1>13. CASE WalkerLegit
  BY <1>13, Tasks DEF WalkerLegit, WalkerLeaves, rcu_read_unlock, countVars,
         umountVars
<1>14. CASE WalkerUse
  BY <1>14, Tasks DEF WalkerUse, CallMntput, countVars, umountVars
<1>15. CASE Mntput(W)
  BY <1>15, MntputLoop, Tasks DEF TypeInv
<1> QED
  BY <1>1, <1>2, <1>3, <1>4, <1>5, <1>6, <1>7, <1>8, <1>9, <1>10, <1>11,
         <1>12, <1>13, <1>14, <1>15 DEF walker

(* U leaves each loop before its index runs out of the batch.              *)
LEMMA MainLoop ==
  ASSUME TypeInv, main
  PROVE  LoopInv'
<1> USE ConfigAssumption DEF TypeInv, TypeOK, LoopInv, At, Goto, Mounts
<1>1. CASE UmountRefused
  BY <1>1, Tasks DEF UmountRefused, DROP_REF, CallMntput, countVars
<1>2. CASE UmountAllowed
  BY <1>2, Tasks DEF UmountAllowed, callVars, countVars, umountVars
<1>3. CASE UmountLock
  BY <1>3, Tasks DEF UmountLock, lock_mount_hash, callVars, countVars,
         umountVars
<1>4. CASE do_umount
  <2>1. CASE UmountFails(EINVAL)
    BY <2>1, Tasks DEF UmountFails
  <2>2. CASE UmountTreeBegin
    BY <2>2, Tasks DEF UmountTreeBegin
  <2>3. CASE StartCount(U, 0, "busy_test")
    BY <2>3, Tasks DEF StartCount
  <2> QED
    BY <1>4, <2>1, <2>2, <2>3 DEF do_umount
<1>5. CASE propagate_mount_busy
  <2>1. CASE UmountFails(EBUSY)
    BY <2>1, Tasks DEF UmountFails
  <2>2. CASE UmountTreeBegin
    BY <2>2, Tasks DEF UmountTreeBegin
  <2> QED
    BY <1>5, <2>1, <2>2 DEF propagate_mount_busy
<1>6. CASE umount_tree
  BY <1>6, Tasks DEF umount_tree, callVars, countVars, umountVars
<1>7. CASE umount_mnt
  BY <1>7, Tasks DEF umount_mnt, callVars, countVars
<1>8. CASE UmountDropsCaller
  BY <1>8, Tasks DEF UmountDropsCaller, callVars, countVars
<1>9. CASE namespace_unlock
  BY <1>9, Tasks DEF namespace_unlock, unlock_mount_hash, callVars, countVars,
         umountVars
<1>10. CASE UmountEnd
  BY <1>10, Tasks DEF UmountEnd, DROP_REF, CallMntput, callVars, countVars
<1>11. CASE kern_unmount_array
  BY <1>11, Tasks DEF kern_unmount_array, callVars, countVars
<1>12. CASE UnmountedLock
  BY <1>12, Tasks DEF UnmountedLock, lock_mount_hash, callVars, countVars
<1>13. CASE UnheldNext
  BY <1>13, Tasks DEF UnheldNext, StartCount, callVars, countVars
<1>14. CASE mntput_unheld
  BY <1>14, Tasks DEF mntput_unheld, callVars, countVars
<1>15. CASE UnheldDec
  BY <1>15, Tasks DEF UnheldDec, callVars, countVars, umountVars
<1>16. CASE UnheldFinal
  BY <1>16, Tasks DEF UnheldFinal, callVars, countVars
<1>17. CASE UnmountedUnlock
  BY <1>17, Tasks DEF UnmountedUnlock, unlock_mount_hash, callVars, countVars
<1>18. CASE QueueNext
  BY <1>18, Tasks DEF QueueNext, countVars
<1>19. CASE mntput_unmounted
  BY <1>19, Tasks DEF mntput_unmounted, callVars, countVars
<1>20. CASE HeldGp
  BY <1>20, Tasks DEF HeldGp, synchronize_rcu, callVars, countVars, umountVars
<1>21. CASE HeldNext
  BY <1>21, Tasks DEF HeldNext, CallMntput, callVars, countVars
<1>22. CASE HeldEnd
  BY <1>22, Tasks DEF HeldEnd, callVars, countVars, umountVars
<1>23. CASE Join
  BY <1>23, Tasks DEF Join, callVars, countVars, umountVars
<1>24. CASE Mntput(U)
  BY <1>24, MntputLoop, LoopKept, Tasks
<1> QED
  BY <1>1, <1>2, <1>3, <1>4, <1>5, <1>6, <1>7, <1>8, <1>9, <1>10, <1>11,
         <1>12, <1>13, <1>14, <1>15, <1>16, <1>17, <1>18, <1>19, <1>20, <1>21,
         <1>22, <1>23, <1>24 DEF main

(* Type correctness is inductive together with LoopInv.                    *)
LEMMA TypeStep == TypeInv /\ [Next]_vars => TypeInv'
<1> SUFFICES ASSUME TypeInv, [Next]_vars
             PROVE  TypeInv'
  OBVIOUS
<1>1. CASE main
  BY <1>1, MainType, MainLoop DEF TypeInv
<1>2. CASE holder
  <2>1. LoopStep
    BY <1>2, HolderLoop
  <2>2. LoopInv'
    BY <2>1, LoopKept
  <2> QED
    BY <1>2, <2>2, HolderType DEF TypeInv
<1>3. CASE walker
  <2>1. LoopInv'
    BY <1>3, WalkerLoop, LoopKept
  <2> QED
    BY <1>3, <2>1, WalkerType DEF TypeInv
<1>4. CASE Finished \/ UNCHANGED vars
  BY <1>4 DEF Finished, vars, callVars, countVars, localVars, lockVars,
              counterVars, mountVars, umountVars, historyVars,
              TypeInv, TypeOK, LoopInv
<1> QED
  BY <1>1, <1>2, <1>3, <1>4 DEF Next

(* TypeCorrect: the protocol keeps every variable within its type for any  *)
(* number of CPUs and of extra references: no counter goes negative, and   *)
(* no loop of mnt_get_count() or mntput_unmounted() leaves its range.      *)
THEOREM TypeCorrect == Spec => []TypeOK
<1>1. Init => TypeInv
  BY InitType
<1>2. TypeInv /\ [Next]_vars => TypeInv'
  BY TypeStep
<1>3. TypeInv => TypeOK
  BY DEF TypeInv
<1> QED
  BY <1>1, <1>2, <1>3, PTL DEF Spec

-----------------------------------------------------------------------------
(* mount_lock *)

(* What a step of t may do to mount_lock: it takes it on its way into a    *)
(* section, gives it back on its way out, or stays on one side.            *)
LockStep(t) ==
    /\ \A s \in Threads \ {t} : pc'[s] = pc[s]
    /\ \/ UNCHANGED lockVars /\ (pc'[t] \in LockedLabels <=> pc[t] \in LockedLabels)
       \/ write_seqlock(t) /\ pc[t] \notin LockedLabels /\ pc'[t] \in LockedLabels
       \/ write_sequnlock(t) /\ pc[t] \in LockedLabels /\ pc'[t] \notin LockedLabels

(* mntput() leaves mount_lock on every path out of the slow path.          *)
LEMMA MntputLock ==
  ASSUME TypeInv, NEW t \in Threads, Mntput(t)
  PROVE  LockStep(t)
<1> USE DEF TypeInv, TypeOK, At, Goto, LockStep, LockedLabels, Returns, WorkReturns,
            CountReturns
<1>1. CASE MntputBegin(t)
  BY <1>1 DEF MntputBegin, rcu_read_lock, lockVars
<1>2. CASE mntput_no_expire(t)
  BY <1>2 DEF mntput_no_expire, lockVars
<1>3. CASE MntputFast(t)
  BY <1>3 DEF MntputFast, lockVars
<1>4. CASE MntputFastEnd(t)
  BY <1>4 DEF MntputFastEnd, rcu_read_unlock, lockVars
<1>5. CASE SlowpathLock(t)
  BY <1>5 DEF SlowpathLock, lock_mount_hash
<1>6. CASE SlowpathDec(t)
  BY <1>6 DEF SlowpathDec, StartCount, lockVars
<1>7. CASE CountPuts(t)
  BY <1>7 DEF CountPuts, NextCpu, lockVars
<1>8. CASE CountGets(t)
  BY <1>8 DEF CountGets, NextCpu, lockVars
<1>9. CASE mntput_no_expire_slowpath(t)
  BY <1>9 DEF mntput_no_expire_slowpath, lockVars
<1>10. CASE SlowpathRcuUnlock(t)
  BY <1>10 DEF SlowpathRcuUnlock, rcu_read_unlock, lockVars
<1>11. CASE SlowpathUnlock(t)
  BY <1>11 DEF SlowpathUnlock, unlock_mount_hash
<1>12. CASE mntput_queue_cleanup(t)
  BY <1>12 DEF mntput_queue_cleanup, lockVars
<1>13. CASE cleanup_mnt(t)
  BY <1>13 DEF cleanup_mnt, lockVars
<1>14. CASE CleanupGp(t)
  BY <1>14 DEF CleanupGp, synchronize_rcu, lockVars
<1>15. CASE free_vfsmnt(t)
  BY <1>15 DEF free_vfsmnt, lockVars
<1>16. CASE run_task_work(t)
  BY <1>16 DEF run_task_work, lockVars
<1>17. CASE NoTaskWork(t)
  BY <1>17 DEF NoTaskWork, lockVars
<1> QED
  BY <1>1, <1>2, <1>3, <1>4, <1>5, <1>6, <1>7, <1>8, <1>9, <1>10, <1>11,
         <1>12, <1>13, <1>14, <1>15, <1>16, <1>17 DEF Mntput

(* The holder takes mount_lock only in mntput().                           *)
LEMMA HolderLock ==
  ASSUME TypeInv, holder
  PROVE  LockStep(H)
<1> USE DEF TypeInv, TypeOK, At, Goto, LockStep, LockedLabels, Returns, WorkReturns,
            CountReturns
<1>1. CASE HolderGet
  BY <1>1, Tasks DEF HolderGet, lockVars
<1>2. CASE HolderLastPut
  BY <1>2, Tasks DEF HolderLastPut, lockVars
<1>3. CASE Mntput(H)
  BY <1>3, MntputLock, Tasks DEF TypeInv
<1> QED
  BY <1>1, <1>2, <1>3 DEF holder

(* __legitimize_mnt() leaves mount_lock on both of its paths.              *)
LEMMA WalkerLock ==
  ASSUME TypeInv, walker
  PROVE  LockStep(W)
<1> USE DEF TypeInv, TypeOK, At, Goto, LockStep, LockedLabels, Returns, WorkReturns,
            CountReturns
<1>1. CASE WalkerBegin
  BY <1>1, Tasks DEF WalkerBegin, rcu_read_lock, lockVars
<1>2. CASE read_seqbegin
  BY <1>2, Tasks DEF read_seqbegin, lockVars
<1>3. CASE WalkerFind
  BY <1>3, Tasks DEF WalkerFind, lockVars
<1>4. CASE LegitimizeBegin
  BY <1>4, Tasks DEF LegitimizeBegin, lockVars
<1>5. CASE LegitimizeInc
  BY <1>5, Tasks DEF LegitimizeInc, lockVars
<1>6. CASE LegitimizeRetry
  BY <1>6, Tasks DEF LegitimizeRetry, lockVars
<1>7. CASE LegitimizeLock
  BY <1>7, Tasks DEF LegitimizeLock, lock_mount_hash
<1>8. CASE LegitimizeFlags
  BY <1>8, Tasks DEF LegitimizeFlags, lockVars
<1>9. CASE LegitimizeUnlock
  BY <1>9, Tasks DEF LegitimizeUnlock, unlock_mount_hash
<1>10. CASE legitimize_mnt
  BY <1>10, Tasks DEF legitimize_mnt, rcu_read_unlock, CallMntput, lockVars
<1>11. CASE LegitimizeRelock
  BY <1>11, Tasks DEF LegitimizeRelock, rcu_read_lock, lockVars
<1>12. CASE WalkerFail
  BY <1>12, Tasks DEF WalkerFail, WalkerLeaves, rcu_read_unlock, lockVars
<1>13. CASE WalkerLegit
  BY <1>13, Tasks DEF WalkerLegit, WalkerLeaves, rcu_read_unlock, lockVars
<1>14. CASE WalkerUse
  BY <1>14, Tasks DEF WalkerUse, CallMntput, lockVars
<1>15. CASE Mntput(W)
  BY <1>15, MntputLock, Tasks DEF TypeInv
<1> QED
  BY <1>1, <1>2, <1>3, <1>4, <1>5, <1>6, <1>7, <1>8, <1>9, <1>10, <1>11,
         <1>12, <1>13, <1>14, <1>15 DEF walker

(* do_umount(), namespace_unlock() and mntput_unmounted() pair their        *)
(* lock_mount_hash() and unlock_mount_hash() whatever they return.         *)
LEMMA MainLock ==
  ASSUME TypeInv, main
  PROVE  LockStep(U)
<1> USE DEF TypeInv, TypeOK, At, Goto, LockStep, LockedLabels, Returns, WorkReturns,
            CountReturns
<1>1. CASE UmountRefused
  BY <1>1, Tasks DEF UmountRefused, DROP_REF, CallMntput, lockVars
<1>2. CASE UmountAllowed
  BY <1>2, Tasks DEF UmountAllowed, callVars, lockVars
<1>3. CASE UmountLock
  BY <1>3, Tasks DEF UmountLock, lock_mount_hash, callVars
<1>4. CASE do_umount
  BY <1>4, Tasks DEF do_umount, StartCount, UmountFails, UmountTreeBegin,
         lockVars, callVars
<1>5. CASE propagate_mount_busy
  BY <1>5, Tasks DEF propagate_mount_busy, UmountFails, UmountTreeBegin,
         lockVars, callVars
<1>6. CASE umount_tree
  BY <1>6, Tasks DEF umount_tree, callVars, lockVars
<1>7. CASE umount_mnt
  BY <1>7, Tasks DEF umount_mnt, callVars, lockVars
<1>8. CASE UmountDropsCaller
  BY <1>8, Tasks DEF UmountDropsCaller, callVars, lockVars
<1>9. CASE namespace_unlock
  BY <1>9, Tasks DEF namespace_unlock, unlock_mount_hash, callVars
<1>10. CASE UmountEnd
  BY <1>10, Tasks DEF UmountEnd, DROP_REF, CallMntput, callVars, lockVars
<1>11. CASE kern_unmount_array
  BY <1>11, Tasks DEF kern_unmount_array, callVars, lockVars
<1>12. CASE UnmountedLock
  BY <1>12, Tasks DEF UnmountedLock, lock_mount_hash, callVars
<1>13. CASE UnheldNext
  BY <1>13, Tasks DEF UnheldNext, StartCount, callVars, lockVars
<1>14. CASE mntput_unheld
  BY <1>14, Tasks DEF mntput_unheld, callVars, lockVars
<1>15. CASE UnheldDec
  BY <1>15, Tasks DEF UnheldDec, callVars, lockVars
<1>16. CASE UnheldFinal
  BY <1>16, Tasks DEF UnheldFinal, callVars, lockVars
<1>17. CASE UnmountedUnlock
  BY <1>17, Tasks DEF UnmountedUnlock, unlock_mount_hash, callVars
<1>18. CASE QueueNext
  BY <1>18, Tasks DEF QueueNext, lockVars
<1>19. CASE mntput_unmounted
  BY <1>19, Tasks DEF mntput_unmounted, callVars, lockVars
<1>20. CASE HeldGp
  BY <1>20, Tasks DEF HeldGp, synchronize_rcu, callVars, lockVars
<1>21. CASE HeldNext
  BY <1>21, Tasks DEF HeldNext, CallMntput, callVars, lockVars
<1>22. CASE HeldEnd
  BY <1>22, Tasks DEF HeldEnd, callVars, lockVars
<1>23. CASE Join
  BY <1>23, Tasks DEF Join, callVars, lockVars
<1>24. CASE Mntput(U)
  BY <1>24, MntputLock, Tasks DEF TypeInv
<1> QED
  BY <1>1, <1>2, <1>3, <1>4, <1>5, <1>6, <1>7, <1>8, <1>9, <1>10, <1>11,
         <1>12, <1>13, <1>14, <1>15, <1>16, <1>17, <1>18, <1>19, <1>20, <1>21,
         <1>22, <1>23, <1>24 DEF main

(* Such a step keeps LockProtocol.                                         *)
LEMMA LockKept ==
  ASSUME LockProtocol, TypeOK, NEW t \in Threads, LockStep(t)
  PROVE  LockProtocol'
<1> USE DEF LockStep, lockVars, write_seqlock, write_sequnlock
<1>1. sequence \in Nat /\ lock_owner \in Threads \cup {Nobody} /\ Nobody \notin Threads
  BY DEF TypeOK, Threads, U, H, W, Nobody
<1>2. (sequence + 1) % 2 = 0 <=> sequence % 2 # 0
  BY <1>1
<1>3. \A s \in Threads : (lock_owner' = s) <=> (pc'[s] \in LockedLabels)
  BY <1>1 DEF LockProtocol
<1>4. (lock_owner' = Nobody) <=> (sequence' % 2 = 0)
  <2>1. CASE UNCHANGED lockVars
    BY <2>1 DEF LockProtocol
  <2>2. CASE write_seqlock(t)
    BY <2>2, <1>1, <1>2 DEF LockProtocol
  <2>3. CASE write_sequnlock(t) /\ pc[t] \in LockedLabels
    BY <2>3, <1>1, <1>2 DEF LockProtocol
  <2> QED
    BY <2>1, <2>2, <2>3
<1> QED
  BY <1>3, <1>4 DEF LockProtocol

(* LockProtocol is inductive on top of the types.                          *)
LEMMA LockInductive == TypeInv /\ LockProtocol /\ [Next]_vars => LockProtocol'
<1> SUFFICES ASSUME TypeInv, LockProtocol, [Next]_vars
             PROVE  LockProtocol'
  OBVIOUS
<1>1. CASE main
  BY <1>1, MainLock, LockKept, Tasks DEF TypeInv
<1>2. CASE holder
  BY <1>2, HolderLock, LockKept, Tasks DEF TypeInv
<1>3. CASE walker
  BY <1>3, WalkerLock, LockKept, Tasks DEF TypeInv
<1>4. CASE Finished \/ UNCHANGED vars
  BY <1>4 DEF Finished, vars, lockVars, LockProtocol
<1> QED
  BY <1>1, <1>2, <1>3, <1>4 DEF Next

(* Nobody holds mount_lock at first.                                       *)
LEMMA LockInit == Init => LockProtocol
<1> SUFFICES ASSUME Init PROVE LockProtocol
  OBVIOUS
<1>1. \A t \in Threads : pc[t] \notin LockedLabels /\ t # Nobody
  BY DEF Init, InitTasks, PerTask, LockedLabels, Threads, U, H, W, Nobody
<1> QED
  BY <1>1 DEF Init, LockProtocol

(* LockCorrect: whatever the tasks do, mount_lock is held by exactly the   *)
(* task that is between lock_mount_hash() and unlock_mount_hash(), so at   *)
(* most one is, and the sequence count is odd exactly then.                *)
THEOREM LockCorrect == Spec => []LockProtocol
<1>1. Init => LockProtocol
  BY LockInit
<1>2. TypeInv /\ LockProtocol /\ [Next]_vars => LockProtocol'
  BY LockInductive
<1> QED
  BY <1>1, <1>2, InitType, TypeStep, PTL DEF Spec

-----------------------------------------------------------------------------
(* RCU read sections *)

(* t is between rcu_read_lock() and rcu_read_unlock(); mnt_get_count() is  *)
(* only inside a read section when the slow path of mntput() called it.    *)
InReadSection(t) ==
    \/ pc[t] \in RcuLabels
    \/ pc[t] \in {"count_puts", "count_gets"} /\ cret[t] = "put_test"

RcuProtocol == \A t \in Threads : in_rcu[t] <=> InReadSection(t)

(* What a step of t may do to its read section.                            *)
RcuStep(t) ==
    /\ \A s \in Threads \ {t} :
           pc'[s] = pc[s] /\ cret'[s] = cret[s] /\ in_rcu'[s] = in_rcu[s]
    /\ \/ in_rcu'[t] = in_rcu[t] /\ (InReadSection(t)' <=> InReadSection(t))
       \/ in_rcu'[t] = TRUE /\ InReadSection(t)'
       \/ in_rcu'[t] = FALSE /\ ~InReadSection(t)'

(* mntput() ends its read section before it hands the mount on or returns. *)
LEMMA MntputRcu ==
  ASSUME TypeInv, NEW t \in Threads, Mntput(t)
  PROVE  RcuStep(t)
<1> USE Tasks DEF TypeInv, TypeOK, At, Goto, RcuStep, InReadSection, RcuLabels,
                  Returns, WorkReturns, CountReturns
<1>1. CASE MntputBegin(t)
  BY <1>1 DEF MntputBegin, rcu_read_lock, callVars, countVars
<1>2. CASE mntput_no_expire(t)
  BY <1>2 DEF mntput_no_expire, callVars, countVars
<1>3. CASE MntputFast(t)
  BY <1>3 DEF MntputFast, callVars, countVars
<1>4. CASE MntputFastEnd(t)
  BY <1>4 DEF MntputFastEnd, rcu_read_unlock, callVars, countVars
<1>5. CASE SlowpathLock(t)
  BY <1>5 DEF SlowpathLock, lock_mount_hash, callVars, countVars
<1>6. CASE SlowpathDec(t)
  BY <1>6 DEF SlowpathDec, StartCount
<1>7. CASE CountPuts(t)
  BY <1>7 DEF CountPuts, NextCpu, callVars
<1>8. CASE CountGets(t)
  BY <1>8 DEF CountGets, NextCpu, callVars
<1>9. CASE mntput_no_expire_slowpath(t)
  BY <1>9 DEF mntput_no_expire_slowpath, callVars, countVars
<1>10. CASE SlowpathRcuUnlock(t)
  BY <1>10 DEF SlowpathRcuUnlock, rcu_read_unlock, callVars, countVars
<1>11. CASE SlowpathUnlock(t)
  BY <1>11 DEF SlowpathUnlock, unlock_mount_hash, callVars, countVars
<1>12. CASE mntput_queue_cleanup(t)
  BY <1>12 DEF mntput_queue_cleanup, callVars, countVars
<1>13. CASE cleanup_mnt(t)
  BY <1>13 DEF cleanup_mnt, callVars, countVars
<1>14. CASE CleanupGp(t)
  BY <1>14 DEF CleanupGp, synchronize_rcu, callVars, countVars
<1>15. CASE free_vfsmnt(t)
  BY <1>15 DEF free_vfsmnt, callVars, countVars
<1>16. CASE run_task_work(t)
  BY <1>16 DEF run_task_work, countVars
<1>17. CASE NoTaskWork(t)
  BY <1>17 DEF NoTaskWork, callVars, countVars
<1> QED
  BY <1>1, <1>2, <1>3, <1>4, <1>5, <1>6, <1>7, <1>8, <1>9, <1>10, <1>11,
         <1>12, <1>13, <1>14, <1>15, <1>16, <1>17 DEF Mntput

(* The holder is in a read section only in mntput().                       *)
LEMMA HolderRcu ==
  ASSUME TypeInv, holder
  PROVE  RcuStep(H)
<1> USE Tasks DEF TypeInv, TypeOK, At, Goto, RcuStep, InReadSection, RcuLabels,
                  Returns, WorkReturns, CountReturns
<1>1. CASE HolderGet
  BY <1>1, Tasks DEF HolderGet, countVars
<1>2. CASE HolderLastPut
  BY <1>2, Tasks DEF HolderLastPut, countVars
<1>3. CASE Mntput(H)
  BY <1>3, MntputRcu, Tasks DEF TypeInv
<1> QED
  BY <1>1, <1>2, <1>3 DEF holder

(* The walker keeps its read section except around the put of              *)
(* legitimize_mnt().                                                       *)
LEMMA WalkerRcu ==
  ASSUME TypeInv, walker
  PROVE  RcuStep(W)
<1> USE Tasks DEF TypeInv, TypeOK, At, Goto, RcuStep, InReadSection, RcuLabels,
                  Returns, WorkReturns, CountReturns
<1>1. CASE WalkerBegin
  BY <1>1, Tasks DEF WalkerBegin, rcu_read_lock, callVars, countVars
<1>2. CASE read_seqbegin
  BY <1>2, Tasks DEF read_seqbegin, callVars, countVars
<1>3. CASE WalkerFind
  BY <1>3, Tasks DEF WalkerFind, countVars
<1>4. CASE LegitimizeBegin
  BY <1>4, Tasks DEF LegitimizeBegin, callVars, countVars
<1>5. CASE LegitimizeInc
  BY <1>5, Tasks DEF LegitimizeInc, callVars, countVars
<1>6. CASE LegitimizeRetry
  BY <1>6, Tasks DEF LegitimizeRetry, callVars, countVars
<1>7. CASE LegitimizeLock
  BY <1>7, Tasks DEF LegitimizeLock, lock_mount_hash, callVars, countVars
<1>8. CASE LegitimizeFlags
  BY <1>8, Tasks DEF LegitimizeFlags, callVars, countVars
<1>9. CASE LegitimizeUnlock
  BY <1>9, Tasks DEF LegitimizeUnlock, unlock_mount_hash, callVars, countVars
<1>10. CASE legitimize_mnt
  BY <1>10, Tasks DEF legitimize_mnt, rcu_read_unlock, CallMntput, countVars
<1>11. CASE LegitimizeRelock
  BY <1>11, Tasks DEF LegitimizeRelock, rcu_read_lock, callVars, countVars
<1>12. CASE WalkerFail
  BY <1>12, Tasks DEF WalkerFail, WalkerLeaves, rcu_read_unlock, callVars,
         countVars
<1>13. CASE WalkerLegit
  BY <1>13, Tasks DEF WalkerLegit, WalkerLeaves, rcu_read_unlock, callVars,
         countVars
<1>14. CASE WalkerUse
  BY <1>14, Tasks DEF WalkerUse, CallMntput, countVars
<1>15. CASE Mntput(W)
  BY <1>15, MntputRcu, Tasks DEF TypeInv
<1> QED
  BY <1>1, <1>2, <1>3, <1>4, <1>5, <1>6, <1>7, <1>8, <1>9, <1>10, <1>11,
         <1>12, <1>13, <1>14, <1>15 DEF walker

(* U is in a read section only in mntput(), not in its own mnt_get_count().*)
LEMMA MainRcu ==
  ASSUME TypeInv, main
  PROVE  RcuStep(U)
<1> USE Tasks DEF TypeInv, TypeOK, At, Goto, RcuStep, InReadSection, RcuLabels,
                  Returns, WorkReturns, CountReturns
<1>1. CASE UmountRefused
  BY <1>1, Tasks DEF UmountRefused, DROP_REF, CallMntput, countVars
<1>2. CASE UmountAllowed
  BY <1>2, Tasks DEF UmountAllowed, callVars, countVars
<1>3. CASE UmountLock
  BY <1>3, Tasks DEF UmountLock, lock_mount_hash, callVars, countVars
<1>4. CASE do_umount
  BY <1>4, Tasks DEF do_umount, StartCount, UmountFails, UmountTreeBegin,
         callVars, countVars
<1>5. CASE propagate_mount_busy
  BY <1>5, Tasks DEF propagate_mount_busy, UmountFails, UmountTreeBegin,
         callVars, countVars
<1>6. CASE umount_tree
  BY <1>6, Tasks DEF umount_tree, callVars, countVars
<1>7. CASE umount_mnt
  BY <1>7, Tasks DEF umount_mnt, callVars, countVars
<1>8. CASE UmountDropsCaller
  BY <1>8, Tasks DEF UmountDropsCaller, callVars, countVars
<1>9. CASE namespace_unlock
  BY <1>9, Tasks DEF namespace_unlock, unlock_mount_hash, callVars, countVars
<1>10. CASE UmountEnd
  BY <1>10, Tasks DEF UmountEnd, DROP_REF, CallMntput, callVars, countVars
<1>11. CASE kern_unmount_array
  BY <1>11, Tasks DEF kern_unmount_array, callVars, countVars
<1>12. CASE UnmountedLock
  BY <1>12, Tasks DEF UnmountedLock, lock_mount_hash, callVars, countVars
<1>13. CASE UnheldNext
  BY <1>13, Tasks DEF UnheldNext, StartCount, callVars, countVars
<1>14. CASE mntput_unheld
  BY <1>14, Tasks DEF mntput_unheld, callVars, countVars
<1>15. CASE UnheldDec
  BY <1>15, Tasks DEF UnheldDec, callVars, countVars
<1>16. CASE UnheldFinal
  BY <1>16, Tasks DEF UnheldFinal, callVars, countVars
<1>17. CASE UnmountedUnlock
  BY <1>17, Tasks DEF UnmountedUnlock, unlock_mount_hash, callVars, countVars
<1>18. CASE QueueNext
  BY <1>18, Tasks DEF QueueNext, countVars
<1>19. CASE mntput_unmounted
  BY <1>19, Tasks DEF mntput_unmounted, callVars, countVars
<1>20. CASE HeldGp
  BY <1>20, Tasks DEF HeldGp, synchronize_rcu, callVars, countVars
<1>21. CASE HeldNext
  BY <1>21, Tasks DEF HeldNext, CallMntput, callVars, countVars
<1>22. CASE HeldEnd
  BY <1>22, Tasks DEF HeldEnd, callVars, countVars
<1>23. CASE Join
  BY <1>23, Tasks DEF Join, callVars, countVars
<1>24. CASE Mntput(U)
  BY <1>24, MntputRcu, Tasks DEF TypeInv
<1> QED
  BY <1>1, <1>2, <1>3, <1>4, <1>5, <1>6, <1>7, <1>8, <1>9, <1>10, <1>11,
         <1>12, <1>13, <1>14, <1>15, <1>16, <1>17, <1>18, <1>19, <1>20, <1>21,
         <1>22, <1>23, <1>24 DEF main

(* Such a step keeps RcuProtocol.                                          *)
LEMMA RcuKept ==
  ASSUME RcuProtocol, NEW t \in Threads, RcuStep(t)
  PROVE  RcuProtocol'
<1>1. ASSUME NEW s \in Threads \ {t}
      PROVE  in_rcu'[s] <=> InReadSection(s)'
  BY <1>1 DEF RcuProtocol, RcuStep, InReadSection
<1>2. in_rcu'[t] <=> InReadSection(t)'
  BY DEF RcuProtocol, RcuStep
<1> QED
  BY <1>1, <1>2 DEF RcuProtocol

(* RcuProtocol is inductive on top of the types.                           *)
LEMMA RcuInductive == TypeInv /\ RcuProtocol /\ [Next]_vars => RcuProtocol'
<1> SUFFICES ASSUME TypeInv, RcuProtocol, [Next]_vars
             PROVE  RcuProtocol'
  OBVIOUS
<1>1. CASE main
  BY <1>1, MainRcu, RcuKept, Tasks
<1>2. CASE holder
  BY <1>2, HolderRcu, RcuKept, Tasks
<1>3. CASE walker
  BY <1>3, WalkerRcu, RcuKept, Tasks
<1>4. CASE Finished \/ UNCHANGED vars
  BY <1>4 DEF Finished, vars, countVars, RcuProtocol, InReadSection
<1> QED
  BY <1>1, <1>2, <1>3, <1>4 DEF Next

(* Nobody is in a read section at first.                                   *)
LEMMA RcuInit == Init => RcuProtocol
<1> SUFFICES ASSUME Init, NEW t \in Threads
             PROVE  in_rcu[t] = FALSE /\ ~InReadSection(t)
  BY DEF RcuProtocol
<1>1. pc[t] \in {"umount", "shortterm", "h_loop", "walker", "done"}
  BY DEF Init, InitTasks, PerTask
<1> QED
  BY <1>1 DEF Init, InitTasks, InReadSection, RcuLabels

(* GpCorrect: synchronize_rcu_expedited() of mntput_unmounted() and the    *)
(* grace period behind call_rcu() are never waited for by a task that      *)
(* holds mount_lock or is inside a read section, on any path of any shape  *)
(* of umount, so no task waits for itself.                                 *)
THEOREM GpCorrect == Spec => []GpOutsideSections
<1>1. Init => RcuProtocol
  BY RcuInit
<1>2. TypeInv /\ RcuProtocol /\ [Next]_vars => RcuProtocol'
  BY RcuInductive
<1>3. LockProtocol /\ RcuProtocol => GpOutsideSections
  BY DEF LockProtocol, RcuProtocol, GpOutsideSections, InReadSection, RcuLabels,
         LockedLabels
<1> QED
  BY <1>1, <1>2, <1>3, LockCorrect, InitType, TypeStep, PTL DEF Spec

-----------------------------------------------------------------------------
(* What a step leaves alone *)

(* The variables only U changes, and those no mntput() changes.            *)
umountOnly == <<head, held, k, retval, ref, gps, caller_put, fast_final,
                umounted, mnt_ns, hashed>>
walkOnly   == <<seq, transient>>

(* A step of t changes nothing that belongs to another task.               *)
Frame(t) ==
    \A s \in Threads \ {t} :
        /\ pc'[s] = pc[s] /\ cur'[s] = cur[s] /\ ret'[s] = ret[s]
        /\ wret'[s] = wret[s] /\ cret'[s] = cret[s] /\ cpu'[s] = cpu[s]
        /\ puts'[s] = puts[s] /\ gets'[s] = gets[s] /\ last'[s] = last[s]
        /\ task_work'[s] = task_work[s] /\ refs'[s] = refs[s]

(* There is a first mount and a first CPU.                                 *)
LEMMA Zero == 0 \in Mounts /\ 0 \in CPUs
  BY ConfigAssumption DEF Mounts, CPUs

(* this_cpu_inc() on behalf of t changes the ledger of t alone.            *)
LEMMA DecRefs ==
  ASSUME TypeOK, NEW t \in Threads, NEW m \in Mounts, mnt_dec_count(t, m)
  PROVE  /\ \A s \in Threads \ {t} : refs'[s] = refs[s]
         /\ \A n \in Mounts : refs'[t][n] = IF n = m THEN refs[t][n] - 1 ELSE refs[t][n]
  BY DEF TypeOK, mnt_dec_count, percpu_add

(* A get of the fast path is one more reference.                           *)
LEMMA IncRefs ==
  ASSUME TypeOK, NEW t \in Threads, NEW m \in Mounts, mnt_inc_count(t, m)
  PROVE  /\ \A s \in Threads \ {t} : refs'[s] = refs[s]
         /\ \A n \in Mounts : refs'[t][n] = IF n = m THEN refs[t][n] + 1 ELSE refs[t][n]
  BY DEF TypeOK, mnt_inc_count, percpu_add

(* mntput() and what runs after it.                                        *)
LEMMA MntputFrame ==
  ASSUME TypeOK, NEW t \in Threads, Mntput(t)
  PROVE  Frame(t) /\ UNCHANGED <<umountOnly, walkOnly>>
<1> USE ConfigAssumption DEF TypeOK, At, Goto, Frame, umountOnly, walkOnly
<1>1. CASE MntputBegin(t)
  BY <1>1
     DEF MntputBegin, rcu_read_lock, callVars, countVars, localVars, lockVars,
         counterVars, mountVars, umountVars, historyVars
<1>2. CASE mntput_no_expire(t)
  BY <1>2
     DEF mntput_no_expire, callVars, countVars, localVars, lockVars,
         counterVars, mountVars, umountVars, historyVars
<1>3. CASE MntputFast(t)
  <2>1. cur[t] \in Mounts /\ mnt_dec_count(t, cur[t])
    BY <1>3, Zero, Tasks DEF MntputFast
  <2>2. \A s \in Threads \ {t} : refs'[s] = refs[s]
    BY <2>1, DecRefs, Tasks
  <2> QED
    BY <1>3, <2>2, Tasks
       DEF MntputFast, callVars, countVars, localVars, lockVars, mountVars,
           umountVars, historyVars
<1>4. CASE MntputFastEnd(t)
  BY <1>4
     DEF MntputFastEnd, rcu_read_unlock, callVars, countVars, localVars,
         lockVars, counterVars, mountVars, umountVars, historyVars
<1>5. CASE SlowpathLock(t)
  BY <1>5
     DEF SlowpathLock, lock_mount_hash, callVars, countVars, localVars,
         counterVars, mountVars, umountVars, historyVars, write_seqlock
<1>6. CASE SlowpathDec(t)
  <2>1. cur[t] \in Mounts /\ mnt_dec_count(t, cur[t])
    BY <1>6, Zero, Tasks DEF SlowpathDec
  <2>2. \A s \in Threads \ {t} : refs'[s] = refs[s]
    BY <2>1, DecRefs, Tasks
  <2> QED
    BY <1>6, <2>2, Tasks
       DEF SlowpathDec, StartCount, localVars, lockVars, mountVars,
           umountVars, historyVars
<1>7. CASE CountPuts(t)
  BY <1>7
     DEF CountPuts, NextCpu, callVars, localVars, lockVars, counterVars,
         mountVars, umountVars, historyVars
<1>8. CASE CountGets(t)
  BY <1>8
     DEF CountGets, NextCpu, callVars, localVars, lockVars, counterVars,
         mountVars, umountVars, historyVars
<1>9. CASE mntput_no_expire_slowpath(t)
  BY <1>9
     DEF mntput_no_expire_slowpath, mntput_final_locked, mountVars, callVars,
         countVars, lockVars, counterVars, umountVars, historyVars
<1>10. CASE SlowpathRcuUnlock(t)
  BY <1>10
     DEF SlowpathRcuUnlock, rcu_read_unlock, callVars, countVars, localVars,
         lockVars, counterVars, mountVars, umountVars, historyVars
<1>11. CASE SlowpathUnlock(t)
  BY <1>11
     DEF SlowpathUnlock, unlock_mount_hash, callVars, countVars, localVars,
         counterVars, mountVars, umountVars, historyVars, write_sequnlock
<1>12. CASE mntput_queue_cleanup(t)
  BY <1>12
     DEF mntput_queue_cleanup, callVars, countVars, localVars, lockVars,
         counterVars, mountVars, umountVars, historyVars
<1>13. CASE cleanup_mnt(t)
  BY <1>13
     DEF cleanup_mnt, callVars, countVars, lockVars, counterVars, mountVars,
         umountVars
<1>14. CASE CleanupGp(t)
  BY <1>14
     DEF CleanupGp, synchronize_rcu, callVars, countVars, lockVars,
         counterVars, mountVars, umountVars, historyVars
<1>15. CASE free_vfsmnt(t)
  BY <1>15
     DEF free_vfsmnt, callVars, countVars, localVars, lockVars, counterVars,
         mountVars, umountVars
<1>16. CASE run_task_work(t)
  BY <1>16
     DEF run_task_work, countVars, localVars, lockVars, counterVars,
         mountVars, umountVars, historyVars
<1>17. CASE NoTaskWork(t)
  BY <1>17
     DEF NoTaskWork, callVars, countVars, localVars, lockVars, counterVars,
         mountVars, umountVars, historyVars
<1> QED
  BY <1>1, <1>2, <1>3, <1>4, <1>5, <1>6, <1>7, <1>8, <1>9, <1>10, <1>11,
     <1>12, <1>13, <1>14, <1>15, <1>16, <1>17
     DEF Mntput

(* The holder.                                                             *)
LEMMA HolderFrame ==
  ASSUME TypeOK, holder
  PROVE  Frame(H) /\ UNCHANGED <<umountOnly, walkOnly>>
<1> USE ConfigAssumption DEF TypeOK, At, Goto, Frame, umountOnly, walkOnly
<1>1. CASE HolderGet
  <2>1. HELD \in Mounts /\ mnt_inc_count(H, HELD)
    BY <1>1, Zero, Tasks DEF HolderGet
  <2>2. \A s \in Threads \ {H} : refs'[s] = refs[s]
    BY <2>1, IncRefs, Tasks
  <2> QED
    BY <1>1, <2>2, Tasks
       DEF HolderGet, countVars, lockVars, mountVars, umountVars, historyVars
<1>2. CASE HolderLastPut
  BY <1>2, Tasks
     DEF HolderLastPut, countVars, localVars, lockVars, counterVars,
         mountVars, umountVars, historyVars
<1>3. CASE Mntput(H)
  BY <1>3, MntputFrame, Tasks
<1> QED
  BY <1>1, <1>2, <1>3 DEF holder

(* The walker.                                                             *)
LEMMA WalkerFrame ==
  ASSUME TypeOK, walker
  PROVE  Frame(W) /\ UNCHANGED umountOnly
<1> USE ConfigAssumption DEF TypeOK, At, Goto, Frame, umountOnly, walkOnly
<1>1. CASE WalkerBegin
  BY <1>1, Tasks
     DEF WalkerBegin, rcu_read_lock, callVars, countVars, localVars, lockVars,
         counterVars, mountVars, umountVars, historyVars
<1>2. CASE read_seqbegin
  BY <1>2, Tasks
     DEF read_seqbegin, callVars, countVars, lockVars, counterVars, mountVars,
         umountVars, historyVars
<1>3. CASE WalkerFind
  BY <1>3, Tasks
     DEF WalkerFind, countVars, lockVars, counterVars, mountVars, umountVars,
         historyVars
<1>4. CASE LegitimizeBegin
  BY <1>4, Tasks
     DEF LegitimizeBegin, callVars, countVars, localVars, lockVars,
         counterVars, mountVars, umountVars, historyVars
<1>5. CASE LegitimizeInc
  <2>1. cur[W] \in Mounts /\ mnt_inc_count(W, cur[W])
    BY <1>5, Zero, Tasks DEF LegitimizeInc
  <2>2. \A s \in Threads \ {W} : refs'[s] = refs[s]
    BY <2>1, IncRefs, Tasks
  <2> QED
    BY <1>5, <2>2, Tasks
       DEF LegitimizeInc, callVars, countVars, localVars, lockVars, mountVars,
           umountVars, historyVars
<1>6. CASE LegitimizeRetry
  BY <1>6, Tasks
     DEF LegitimizeRetry, callVars, countVars, localVars, lockVars,
         counterVars, mountVars, umountVars, historyVars
<1>7. CASE LegitimizeLock
  BY <1>7, Tasks
     DEF LegitimizeLock, lock_mount_hash, callVars, countVars, localVars,
         counterVars, mountVars, umountVars, historyVars, write_seqlock
<1>8. CASE LegitimizeFlags
  <2>1. CASE Refused(cur[W])
    <3>1. cur[W] \in Mounts /\ mnt_dec_count(W, cur[W])
      BY <1>8, <2>1, Tasks DEF LegitimizeFlags
    <3>2. \A s \in Threads \ {W} : refs'[s] = refs[s]
      BY <3>1, DecRefs, Tasks
    <3> QED
      BY <1>8, <2>1, <3>2, Tasks
         DEF LegitimizeFlags, counterVars, callVars, countVars, localVars,
             lockVars, mountVars, umountVars, historyVars
  <2>2. CASE ~Refused(cur[W])
    BY <1>8, <2>2, Tasks
       DEF LegitimizeFlags, counterVars, callVars, countVars, localVars,
           lockVars, mountVars, umountVars, historyVars
  <2> QED
    BY <2>1, <2>2
<1>9. CASE LegitimizeUnlock
  BY <1>9, Tasks
     DEF LegitimizeUnlock, unlock_mount_hash, callVars, countVars, localVars,
         counterVars, mountVars, umountVars, historyVars, write_sequnlock
<1>10. CASE legitimize_mnt
  BY <1>10, Tasks
     DEF legitimize_mnt, rcu_read_unlock, CallMntput, countVars, localVars,
         lockVars, counterVars, mountVars, umountVars, historyVars
<1>11. CASE LegitimizeRelock
  BY <1>11, Tasks
     DEF LegitimizeRelock, rcu_read_lock, callVars, countVars, localVars,
         lockVars, counterVars, mountVars, umountVars, historyVars
<1>12. CASE WalkerFail
  BY <1>12, Tasks
     DEF WalkerFail, WalkerLeaves, rcu_read_unlock, callVars, countVars,
         lockVars, counterVars, mountVars, umountVars, historyVars
<1>13. CASE WalkerLegit
  BY <1>13, Tasks
     DEF WalkerLegit, WalkerLeaves, rcu_read_unlock, callVars, countVars,
         lockVars, counterVars, mountVars, umountVars, historyVars
<1>14. CASE WalkerUse
  BY <1>14, Tasks
     DEF WalkerUse, CallMntput, countVars, localVars, lockVars, counterVars,
         mountVars, umountVars, historyVars
<1>15. CASE Mntput(W)
  BY <1>15, MntputFrame, Tasks
<1> QED
  BY <1>1, <1>2, <1>3, <1>4, <1>5, <1>6, <1>7, <1>8, <1>9, <1>10, <1>11,
     <1>12, <1>13, <1>14, <1>15
     DEF walker

(* The unmounting task.                                                    *)
LEMMA MainFrame ==
  ASSUME TypeOK, main
  PROVE  Frame(U) /\ UNCHANGED walkOnly
<1> USE ConfigAssumption DEF TypeOK, At, Goto, Frame, umountOnly, walkOnly
<1>1. CASE UmountRefused
  BY <1>1, Tasks
     DEF UmountRefused, DROP_REF, countVars, localVars, lockVars, counterVars,
         mountVars, historyVars, CallMntput
<1>2. CASE UmountAllowed
  BY <1>2, Tasks
     DEF UmountAllowed, callVars, countVars, localVars, lockVars, counterVars,
         mountVars, umountVars, historyVars
<1>3. CASE UmountLock
  BY <1>3, Tasks
     DEF UmountLock, lock_mount_hash, callVars, countVars, localVars,
         counterVars, mountVars, umountVars, historyVars, write_seqlock
<1>4. CASE do_umount
  BY <1>4, Tasks
     DEF do_umount, UmountFails, UmountTreeBegin, StartCount, localVars,
         lockVars, counterVars, historyVars, callVars, countVars
<1>5. CASE propagate_mount_busy
  BY <1>5, Tasks
     DEF propagate_mount_busy, UmountFails, UmountTreeBegin, localVars,
         lockVars, counterVars, historyVars, callVars, countVars
<1>6. CASE umount_tree
  BY <1>6, Tasks
     DEF umount_tree, callVars, countVars, localVars, lockVars, counterVars,
         umountVars
<1>7. CASE umount_mnt
  BY <1>7, Tasks
     DEF umount_mnt, callVars, countVars, localVars, lockVars, counterVars,
         historyVars
<1>8. CASE UmountDropsCaller
  <2>1. 0 \in Mounts /\ mnt_dec_count(U, 0)
    BY <1>8, Zero, Tasks DEF UmountDropsCaller
  <2>2. \A s \in Threads \ {U} : refs'[s] = refs[s]
    BY <2>1, DecRefs, Tasks
  <2> QED
    BY <1>8, <2>2, Tasks
       DEF UmountDropsCaller, callVars, countVars, localVars, lockVars,
           mountVars, historyVars
<1>9. CASE namespace_unlock
  BY <1>9, Tasks
     DEF namespace_unlock, unlock_mount_hash, callVars, countVars, localVars,
         counterVars, mountVars, umountVars, historyVars, write_sequnlock
<1>10. CASE UmountEnd
  BY <1>10, Tasks
     DEF UmountEnd, DROP_REF, callVars, countVars, localVars, lockVars,
         counterVars, mountVars, historyVars, CallMntput
<1>11. CASE kern_unmount_array
  BY <1>11, Tasks
     DEF kern_unmount_array, mnt_make_shortterm, callVars, countVars,
         localVars, lockVars, counterVars, historyVars
<1>12. CASE UnmountedLock
  BY <1>12, Tasks
     DEF UnmountedLock, lock_mount_hash, callVars, countVars, localVars,
         counterVars, mountVars, historyVars, write_seqlock
<1>13. CASE UnheldNext
  BY <1>13, Tasks
     DEF UnheldNext, StartCount, callVars, countVars, localVars, lockVars,
         counterVars, mountVars, historyVars
<1>14. CASE mntput_unheld
  BY <1>14, Tasks
     DEF mntput_unheld, callVars, countVars, localVars, lockVars, counterVars,
         mountVars, historyVars
<1>15. CASE UnheldDec
  <2>1. cur[U] \in Mounts /\ mnt_dec_count(U, cur[U])
    BY <1>15, Zero, Tasks DEF UnheldDec
  <2>2. \A s \in Threads \ {U} : refs'[s] = refs[s]
    BY <2>1, DecRefs, Tasks
  <2> QED
    BY <1>15, <2>2, Tasks
       DEF UnheldDec, callVars, countVars, localVars, lockVars, mountVars,
           umountVars, historyVars
<1>16. CASE UnheldFinal
  BY <1>16, Tasks
     DEF UnheldFinal, mntput_final_locked, callVars, countVars, localVars,
         lockVars, counterVars
<1>17. CASE UnmountedUnlock
  BY <1>17, Tasks
     DEF UnmountedUnlock, unlock_mount_hash, callVars, countVars, localVars,
         counterVars, mountVars, historyVars, write_sequnlock
<1>18. CASE QueueNext
  BY <1>18, Tasks
     DEF QueueNext, countVars, localVars, lockVars, counterVars, mountVars,
         historyVars
<1>19. CASE mntput_unmounted
  BY <1>19, Tasks
     DEF mntput_unmounted, callVars, countVars, lockVars, counterVars,
         mountVars, historyVars
<1>20. CASE HeldGp
  BY <1>20, Tasks
     DEF HeldGp, synchronize_rcu, callVars, countVars, lockVars, counterVars,
         mountVars, umountVars, historyVars
<1>21. CASE HeldNext
  BY <1>21, Tasks
     DEF HeldNext, CallMntput, callVars, countVars, localVars, lockVars,
         counterVars, mountVars, historyVars
<1>22. CASE HeldEnd
  BY <1>22, Tasks
     DEF HeldEnd, callVars, countVars, localVars, lockVars, counterVars,
         mountVars, umountVars, historyVars
<1>23. CASE Join
  BY <1>23, Tasks
     DEF Join, callVars, countVars, localVars, lockVars, counterVars,
         mountVars, umountVars, historyVars
<1>24. CASE Mntput(U)
  BY <1>24, MntputFrame, Tasks
<1> QED
  BY <1>1, <1>2, <1>3, <1>4, <1>5, <1>6, <1>7, <1>8, <1>9, <1>10, <1>11,
     <1>12, <1>13, <1>14, <1>15, <1>16, <1>17, <1>18, <1>19, <1>20, <1>21,
     <1>22, <1>23, <1>24
     DEF main
-----------------------------------------------------------------------------
(* Places in mntput(): before and after its reference is gone.             *)
BeforeDec == {"put", "put_ns", "put_dec", "slow_lock", "slow_dec"}
AfterDec ==
    {"put_rcu", "count_puts", "count_gets", "put_test", "slow_rcu",
     "slow_unlock", "queue", "cleanup", "cleanup_gp", "free"}
PutLabels == BeforeDec \cup AfterDec

Bit(b) == IF b THEN 1 ELSE 0

Counting(t) == pc[t] \in {"count_puts", "count_gets"}

(* t is on its way to the test label with the count of a mount.            *)
OnWayTo(t, label) == pc[t] = label \/ (Counting(t) /\ cret[t] = label)

-----------------------------------------------------------------------------
(* H only ever deals with HELD: the reference it began with until its last *)
(* put, and that of the pair at hand.                                      *)
HolderLedger ==
    /\ pc[H] \in PutLabels \cup {"work", "h_loop", "done"}
    /\ cur[H] = HELD /\ task_work[H] \subseteq {HELD}
    /\ ret[H] = "work" /\ cret[H] = "put_test"
    /\ wret[H] \in {"h_loop", "done"}
    /\ pc[H] = "h_loop" => wret[H] = "h_loop"
    /\ pc[H] = "done" => wret[H] = "done"
    /\ \A m \in Mounts : refs[H][m] =
         IF m = HELD THEN Bit(wret[H] = "h_loop") + Bit(pc[H] \in BeforeDec) ELSE 0

(* Places at which W has looked the mount up and not yet decided.          *)
Tentative == {"legit_begin", "legit_inc", "legit_retry", "legit_lock", "legit_flags"}

(* Places at which W has a reference nobody may take away: legitimized, or *)
(* found not to be doomed under mount_lock and about to be put.            *)
Firm == {"legit_drop", "legit_put", "walker_legit", "walker_use"} \cup BeforeDec

WalkerHas == {"legit_retry", "legit_lock", "legit_flags"} \cup Firm

WalkerLedger ==
    /\ pc[W] \in PutLabels \cup Tentative \cup Firm \cup
                 {"work", "done", "walker", "walker_seq", "walker_find",
                  "walker_fail", "legit_refuse", "legit_relock"}
    /\ cur[W] = WALK /\ task_work[W] \subseteq {WALK}
    /\ ret[W] \in {"work", "legit_relock"} /\ cret[W] = "put_test"
    /\ wret[W] = "done"
    /\ pc[W] \in Tentative => transient
    /\ \A m \in Mounts : refs[W][m] = Bit(m = WALK /\ pc[W] \in WalkerHas)
    /\ seq % 2 = 0 /\ seq <= sequence

-----------------------------------------------------------------------------
(* U, phase by phase.                                                      *)
Early ==
    \/ pc[U] \in {"umount", "u_lock", "u_check", "tree_ns", "tree_unhash", "shortterm"}
    \/ OnWayTo(U, "busy_test")

Peek ==
    \/ pc[U] \in {"unheld_next", "unheld_dec", "unheld_final"}
    \/ OnWayTo(U, "unheld_test")

Queueing ==
    \/ pc[U] = "queue_next"
    \/ pc[U] \in {"queue", "cleanup", "cleanup_gp", "free"} /\ ret[U] = "queue_next"

(* U is in a mntput() that returns to r.                                   *)
InPut(r) ==
    /\ pc[U] \in PutLabels \ {"count_puts", "count_gets"} \/ OnWayTo(U, "put_test")
    /\ ret[U] = r

Holding == pc[U] \in {"held_gp", "held_next"} \/ InPut("held_next")

Ending == pc[U] \in {"u_drop", "work", "u_return", "done"} \/ InPut("work")

Phases ==
    /\ \/ Early \/ Peek \/ Queueing \/ Holding \/ Ending
       \/ pc[U] \in {"u_dec", "u_unlock", "unmounted_lock"}
    /\ wret[U] = "u_return"
    /\ pc[U] \in BeforeDec /\ ret[U] = "work" => cur[U] = 0 /\ SHAPE # "kern"
    /\ pc[U] \in {"umount", "u_lock", "u_check", "tree_ns", "tree_unhash", "u_dec",
                  "u_unlock"} \/ OnWayTo(U, "busy_test") => SHAPE # "kern"
    /\ pc[U] = "shortterm" => SHAPE = "kern"
    /\ OnWayTo(U, "busy_test") => SHAPE = "sync" /\ cur[U] = 0

(* The lists: built up to position k, looked at from the last position     *)
(* down, emptied from the last position down, and the held ones put from   *)
(* the first position up.                                                  *)
Lists ==
    /\ retval # 0 => head = {} /\ held = {} /\ (pc[U] = "u_unlock" \/ Ending)
    /\ Early => held = {} /\ retval = 0
    /\ pc[U] \in {"umount", "u_lock", "u_check"} \/ OnWayTo(U, "busy_test") => head = {}
    /\ pc[U] \in {"tree_ns", "tree_unhash", "shortterm"} =>
         \A i \in Mounts : INSERTED(i) \in head <=> i < k
    /\ pc[U] \in {"u_dec", "unmounted_lock"} => retval = 0 /\ head = Mounts /\ held = {}
    /\ pc[U] = "u_unlock" /\ retval = 0 => head = Mounts /\ held = {}
    /\ ~Peek /\ ~Queueing /\ ~Holding /\ ~Ending => \A m \in Mounts : ~fast_final[m]
    /\ retval # 0 => \A m \in Mounts : ~fast_final[m]
    /\ Peek => k < BATCH
    /\ Peek => \A i \in Mounts :
         IF i <= k THEN /\ INSERTED(i) \in head \ held
                        /\ ~fast_final[INSERTED(i)]
                   ELSE \/ INSERTED(i) \in head \ held /\ fast_final[INSERTED(i)]
                        \/ INSERTED(i) \in held \ head /\ ~fast_final[INSERTED(i)]
    /\ pc[U] \in {"unheld_dec", "unheld_final"} \/ OnWayTo(U, "unheld_test") =>
         k \in Mounts /\ cur[U] = INSERTED(k)
    /\ Queueing => \A i \in Mounts :
         /\ fast_final[INSERTED(i)] => INSERTED(i) \notin held
         /\ ~fast_final[INSERTED(i)] => INSERTED(i) \in held \ head
         /\ i > k => INSERTED(i) \notin head
    /\ Holding => /\ head = {}
                  /\ \A i \in Mounts : INSERTED(i) \in held => i >= k /\ ~fast_final[INSERTED(i)]
    /\ pc[U] = "held_gp" => \A m \in Mounts : m \in held <=> ~fast_final[m]
    /\ pc[U] \in BeforeDec /\ ret[U] = "held_next" => ~fast_final[cur[U]] /\ cur[U] \notin held
    /\ Ending => head = {} /\ held = {}

(* The caller's reference.                                                 *)
CallerHas == Early \/ pc[U] = "u_dec" \/ (pc[U] \in {"u_unlock", "u_drop"} /\ retval # 0)

Caller ==
    /\ SHAPE = "kern" => caller_put = 0 /\ ~ref
    /\ SHAPE # "kern" => caller_put = Bit(~CallerHas)
    /\ pc[U] = "u_drop" \/ ~Ending => (ref <=> SHAPE # "kern" /\ caller_put = 0)

CallerRef(m) ==
    m = 0 /\ SHAPE # "kern" /\ (CallerHas \/ (pc[U] \in BeforeDec /\ ret[U] = "work"))

(* U still has the mount's own reference.                                  *)
OwnRef(m) ==
    \/ retval # 0
    \/ Early /\ m \notin head
    \/ m \in head /\ ~fast_final[m] /\ ~(pc[U] = "unheld_final" /\ cur[U] = m)
    \/ m \in held
    \/ pc[U] \in BeforeDec /\ ret[U] = "held_next" /\ cur[U] = m

UmountLedger ==
    \A m \in Mounts : refs[U][m] = Bit(OwnRef(m)) + Bit(CallerRef(m))

(* Everything about U, and about the three tasks.                          *)
UmountInv == Phases /\ Lists /\ Caller /\ UmountLedger

Ledger == HolderLedger /\ WalkerLedger /\ UmountInv

(* A step of mntput() of the holder, in the ledger.                        *)
LEMMA HolderPut ==
  ASSUME TypeOK, HolderLedger, Mntput(H)
  PROVE  HolderLedger'
<1> USE ConfigAssumption DEF TypeOK, At, Goto, HolderLedger, BeforeDec, AfterDec,
                             PutLabels, Bit
<1>1. CASE MntputBegin(H)
  BY <1>1, Tasks
     DEF MntputBegin, rcu_read_lock, callVars, countVars, localVars, lockVars,
         counterVars, mountVars, umountVars, historyVars
<1>2. CASE mntput_no_expire(H)
  BY <1>2, Tasks
     DEF mntput_no_expire, callVars, countVars, localVars, lockVars,
         counterVars, mountVars, umountVars, historyVars
<1>3. CASE MntputFast(H)
  <2>1. cur[H] \in Mounts /\ mnt_dec_count(H, cur[H])
    BY <1>3, Zero, Tasks DEF MntputFast
  <2>2. \A n \in Mounts : refs'[H][n] = IF n = cur[H] THEN refs[H][n] - 1 ELSE refs[H][n]
    BY <2>1, DecRefs, Tasks
  <2> QED
    BY <1>3, <2>2, Tasks
       DEF MntputFast, callVars, countVars, localVars, lockVars, mountVars,
           umountVars, historyVars
<1>4. CASE MntputFastEnd(H)
  BY <1>4, Tasks
     DEF MntputFastEnd, rcu_read_unlock, callVars, countVars, localVars,
         lockVars, counterVars, mountVars, umountVars, historyVars
<1>5. CASE SlowpathLock(H)
  BY <1>5, Tasks
     DEF SlowpathLock, lock_mount_hash, callVars, countVars, localVars,
         counterVars, mountVars, umountVars, historyVars, write_seqlock
<1>6. CASE SlowpathDec(H)
  <2>1. cur[H] \in Mounts /\ mnt_dec_count(H, cur[H])
    BY <1>6, Zero, Tasks DEF SlowpathDec
  <2>2. \A n \in Mounts : refs'[H][n] = IF n = cur[H] THEN refs[H][n] - 1 ELSE refs[H][n]
    BY <2>1, DecRefs, Tasks
  <2> QED
    BY <1>6, <2>2, Tasks
       DEF SlowpathDec, StartCount, localVars, lockVars, mountVars,
           umountVars, historyVars
<1>7. CASE CountPuts(H)
  BY <1>7, Tasks
     DEF CountPuts, NextCpu, callVars, localVars, lockVars, counterVars,
         mountVars, umountVars, historyVars
<1>8. CASE CountGets(H)
  BY <1>8, Tasks
     DEF CountGets, NextCpu, callVars, localVars, lockVars, counterVars,
         mountVars, umountVars, historyVars
<1>9. CASE mntput_no_expire_slowpath(H)
  BY <1>9, Tasks
     DEF mntput_no_expire_slowpath, mntput_final_locked, mountVars, callVars,
         countVars, lockVars, counterVars, umountVars, historyVars
<1>10. CASE SlowpathRcuUnlock(H)
  BY <1>10, Tasks
     DEF SlowpathRcuUnlock, rcu_read_unlock, callVars, countVars, localVars,
         lockVars, counterVars, mountVars, umountVars, historyVars
<1>11. CASE SlowpathUnlock(H)
  BY <1>11, Tasks
     DEF SlowpathUnlock, unlock_mount_hash, callVars, countVars, localVars,
         counterVars, mountVars, umountVars, historyVars, write_sequnlock
<1>12. CASE mntput_queue_cleanup(H)
  BY <1>12, Tasks
     DEF mntput_queue_cleanup, callVars, countVars, localVars, lockVars,
         counterVars, mountVars, umountVars, historyVars
<1>13. CASE cleanup_mnt(H)
  BY <1>13, Tasks
     DEF cleanup_mnt, callVars, countVars, lockVars, counterVars, mountVars,
         umountVars
<1>14. CASE CleanupGp(H)
  BY <1>14, Tasks
     DEF CleanupGp, synchronize_rcu, callVars, countVars, lockVars,
         counterVars, mountVars, umountVars, historyVars
<1>15. CASE free_vfsmnt(H)
  BY <1>15, Tasks
     DEF free_vfsmnt, callVars, countVars, localVars, lockVars, counterVars,
         mountVars, umountVars
<1>16. CASE run_task_work(H)
  BY <1>16, Tasks
     DEF run_task_work, countVars, localVars, lockVars, counterVars,
         mountVars, umountVars, historyVars
<1>17. CASE NoTaskWork(H)
  BY <1>17, Tasks
     DEF NoTaskWork, callVars, countVars, localVars, lockVars, counterVars,
         mountVars, umountVars, historyVars
<1> QED
  BY <1>1, <1>2, <1>3, <1>4, <1>5, <1>6, <1>7, <1>8, <1>9, <1>10, <1>11,
     <1>12, <1>13, <1>14, <1>15, <1>16, <1>17
     DEF Mntput

(* A step of the holder, in its ledger.                                    *)
LEMMA HolderStep ==
  ASSUME TypeOK, HolderLedger, holder
  PROVE  HolderLedger'
<1> USE ConfigAssumption DEF TypeOK, At, Goto, HolderLedger, BeforeDec, AfterDec,
                             PutLabels, Bit
<1>1. CASE HolderGet
  <2>1. HELD \in Mounts /\ mnt_inc_count(H, HELD)
    BY <1>1, Zero, Tasks DEF HolderGet
  <2>2. \A n \in Mounts : refs'[H][n] = IF n = HELD THEN refs[H][n] + 1 ELSE refs[H][n]
    BY <2>1, IncRefs, Tasks
  <2> QED
    BY <1>1, <2>2, Tasks
       DEF HolderGet, countVars, lockVars, mountVars, umountVars, historyVars
<1>2. CASE HolderLastPut
  BY <1>2, Tasks
     DEF HolderLastPut, countVars, localVars, lockVars, counterVars,
         mountVars, umountVars, historyVars
<1>3. CASE Mntput(H)
  BY <1>3, HolderPut
<1> QED
  BY <1>1, <1>2, <1>3 DEF holder
(* A step of mntput() of the walker, in the ledger.                        *)
LEMMA WalkerPut ==
  ASSUME TypeOK, WalkerLedger, Mntput(W)
  PROVE  WalkerLedger'
<1> USE ConfigAssumption DEF TypeOK, At, Goto, WalkerLedger, BeforeDec, AfterDec,
                             PutLabels, Tentative, Firm, WalkerHas, Bit
<1>1. CASE MntputBegin(W)
  BY <1>1, Tasks
     DEF MntputBegin, rcu_read_lock, callVars, countVars, localVars, lockVars,
         counterVars, mountVars, umountVars, historyVars
<1>2. CASE mntput_no_expire(W)
  BY <1>2, Tasks
     DEF mntput_no_expire, callVars, countVars, localVars, lockVars,
         counterVars, mountVars, umountVars, historyVars
<1>3. CASE MntputFast(W)
  <2>1. cur[W] \in Mounts /\ mnt_dec_count(W, cur[W])
    BY <1>3, Tasks DEF MntputFast
  <2>2. \A n \in Mounts : refs'[W][n] = IF n = cur[W] THEN refs[W][n] - 1 ELSE refs[W][n]
    BY <2>1, DecRefs, Tasks
  <2>3. pc'[W] = "put_rcu" /\ pc[W] \in WalkerHas
    BY <1>3, Tasks DEF MntputFast
  <2>4. \A n \in Mounts : refs[W][n] = IF n = cur[W] THEN 1 ELSE 0
    BY <2>3 DEF WalkerLedger, Bit
  <2>5. \A n \in Mounts : refs'[W][n] = 0
    BY <2>2, <2>4
  <2>6. \A n \in Mounts : refs'[W][n] = Bit(n = WALK /\ pc'[W] \in WalkerHas)
    BY <2>3, <2>5
  <2> QED
    BY <1>3, <2>3, <2>6, Tasks
       DEF MntputFast, callVars, countVars, localVars, lockVars, mountVars,
           umountVars, historyVars
<1>4. CASE MntputFastEnd(W)
  BY <1>4, Tasks
     DEF MntputFastEnd, rcu_read_unlock, callVars, countVars, localVars,
         lockVars, counterVars, mountVars, umountVars, historyVars
<1>5. CASE SlowpathLock(W)
  BY <1>5, Tasks
     DEF SlowpathLock, lock_mount_hash, callVars, countVars, localVars,
         counterVars, mountVars, umountVars, historyVars, write_seqlock
<1>6. CASE SlowpathDec(W)
  <2>1. cur[W] \in Mounts /\ mnt_dec_count(W, cur[W])
    BY <1>6, Tasks DEF SlowpathDec
  <2>2. \A n \in Mounts : refs'[W][n] = IF n = cur[W] THEN refs[W][n] - 1 ELSE refs[W][n]
    BY <2>1, DecRefs, Tasks
  <2>3. pc'[W] = "count_puts" /\ pc[W] \in WalkerHas
    BY <1>6, Tasks DEF SlowpathDec, StartCount
  <2>4. \A n \in Mounts : refs[W][n] = IF n = cur[W] THEN 1 ELSE 0
    BY <2>3 DEF WalkerLedger, Bit
  <2>5. \A n \in Mounts : refs'[W][n] = 0
    BY <2>2, <2>4
  <2>6. \A n \in Mounts : refs'[W][n] = Bit(n = WALK /\ pc'[W] \in WalkerHas)
    BY <2>3, <2>5
  <2> QED
    BY <1>6, <2>3, <2>6, Tasks
       DEF SlowpathDec, StartCount, localVars, lockVars, mountVars,
           umountVars, historyVars
<1>7. CASE CountPuts(W)
  BY <1>7, Tasks
     DEF CountPuts, NextCpu, callVars, localVars, lockVars, counterVars,
         mountVars, umountVars, historyVars
<1>8. CASE CountGets(W)
  BY <1>8, Tasks
     DEF CountGets, NextCpu, callVars, localVars, lockVars, counterVars,
         mountVars, umountVars, historyVars
<1>9. CASE mntput_no_expire_slowpath(W)
  BY <1>9, Tasks
     DEF mntput_no_expire_slowpath, mntput_final_locked, mountVars, callVars,
         countVars, lockVars, counterVars, umountVars, historyVars
<1>10. CASE SlowpathRcuUnlock(W)
  BY <1>10, Tasks
     DEF SlowpathRcuUnlock, rcu_read_unlock, callVars, countVars, localVars,
         lockVars, counterVars, mountVars, umountVars, historyVars
<1>11. CASE SlowpathUnlock(W)
  BY <1>11, Tasks
     DEF SlowpathUnlock, unlock_mount_hash, callVars, countVars, localVars,
         counterVars, mountVars, umountVars, historyVars, write_sequnlock
<1>12. CASE mntput_queue_cleanup(W)
  BY <1>12, Tasks
     DEF mntput_queue_cleanup, callVars, countVars, localVars, lockVars,
         counterVars, mountVars, umountVars, historyVars
<1>13. CASE cleanup_mnt(W)
  BY <1>13, Tasks
     DEF cleanup_mnt, callVars, countVars, lockVars, counterVars, mountVars,
         umountVars
<1>14. CASE CleanupGp(W)
  BY <1>14, Tasks
     DEF CleanupGp, synchronize_rcu, callVars, countVars, lockVars,
         counterVars, mountVars, umountVars, historyVars
<1>15. CASE free_vfsmnt(W)
  BY <1>15, Tasks
     DEF free_vfsmnt, callVars, countVars, localVars, lockVars, counterVars,
         mountVars, umountVars
<1>16. CASE run_task_work(W)
  BY <1>16, Tasks
     DEF run_task_work, countVars, localVars, lockVars, counterVars,
         mountVars, umountVars, historyVars
<1>17. CASE NoTaskWork(W)
  BY <1>17, Tasks
     DEF NoTaskWork, callVars, countVars, localVars, lockVars, counterVars,
         mountVars, umountVars, historyVars
<1> QED
  BY <1>1, <1>2, <1>3, <1>4, <1>5, <1>6, <1>7, <1>8, <1>9, <1>10, <1>11,
     <1>12, <1>13, <1>14, <1>15, <1>16, <1>17
     DEF Mntput

(* A step of the walker, in its ledger.                                    *)
LEMMA WalkerStep ==
  ASSUME TypeOK, WalkerLedger, walker
  PROVE  WalkerLedger'
<1> USE ConfigAssumption DEF TypeOK, At, Goto, WalkerLedger, BeforeDec, AfterDec,
                             PutLabels, Tentative, Firm, WalkerHas, Bit
<1>1. CASE WalkerBegin
  BY <1>1, Tasks
     DEF WalkerBegin, rcu_read_lock, callVars, countVars, localVars, lockVars,
         counterVars, mountVars, umountVars, historyVars
<1>2. CASE read_seqbegin
  BY <1>2, Tasks
     DEF read_seqbegin, callVars, countVars, lockVars, counterVars, mountVars,
         umountVars, historyVars
<1>3. CASE WalkerFind
  BY <1>3, Tasks
     DEF WalkerFind, countVars, lockVars, counterVars, mountVars, umountVars,
         historyVars
<1>4. CASE LegitimizeBegin
  BY <1>4, Tasks
     DEF LegitimizeBegin, callVars, countVars, localVars, lockVars,
         counterVars, mountVars, umountVars, historyVars
<1>5. CASE LegitimizeInc
  <2>1. cur[W] \in Mounts /\ mnt_inc_count(W, cur[W])
    BY <1>5, Zero, Tasks DEF LegitimizeInc
  <2>2. \A n \in Mounts : refs'[W][n] = IF n = cur[W] THEN refs[W][n] + 1 ELSE refs[W][n]
    BY <2>1, IncRefs, Tasks
  <2> QED
    BY <1>5, <2>2, Tasks
       DEF LegitimizeInc, callVars, countVars, localVars, lockVars, mountVars,
           umountVars, historyVars
<1>6. CASE LegitimizeRetry
  BY <1>6, Tasks
     DEF LegitimizeRetry, callVars, countVars, localVars, lockVars,
         counterVars, mountVars, umountVars, historyVars
<1>7. CASE LegitimizeLock
  BY <1>7, Tasks
     DEF LegitimizeLock, lock_mount_hash, callVars, countVars, localVars,
         counterVars, mountVars, umountVars, historyVars, write_seqlock
<1>8. CASE LegitimizeFlags
  <2>1. CASE Refused(cur[W])
    <3>1. cur[W] \in Mounts /\ mnt_dec_count(W, cur[W])
      BY <1>8, <2>1, Tasks DEF LegitimizeFlags
    <3>2. \A n \in Mounts : refs'[W][n] = IF n = cur[W] THEN refs[W][n] - 1 ELSE refs[W][n]
      BY <3>1, DecRefs, Tasks
    <3>3. pc'[W] = "legit_refuse" /\ pc[W] \in WalkerHas
      BY <1>8, <2>1, Tasks DEF LegitimizeFlags
    <3>4. \A n \in Mounts : refs[W][n] = IF n = cur[W] THEN 1 ELSE 0
      BY <3>3 DEF WalkerLedger, Bit
    <3>5. \A n \in Mounts : refs'[W][n] = 0
      BY <3>2, <3>4
    <3>6. \A n \in Mounts : refs'[W][n] = Bit(n = WALK /\ pc'[W] \in WalkerHas)
      BY <3>3, <3>5
    <3> QED
      BY <1>8, <2>1, <3>3, <3>6, Tasks
         DEF LegitimizeFlags, counterVars, callVars, countVars, localVars,
             lockVars, mountVars, umountVars, historyVars
  <2>2. CASE ~Refused(cur[W])
    BY <1>8, <2>2, Tasks
       DEF LegitimizeFlags, counterVars, callVars, countVars, localVars,
           lockVars, mountVars, umountVars, historyVars
  <2> QED
    BY <2>1, <2>2
<1>9. CASE LegitimizeUnlock
  BY <1>9, Tasks
     DEF LegitimizeUnlock, unlock_mount_hash, callVars, countVars, localVars,
         counterVars, mountVars, umountVars, historyVars, write_sequnlock
<1>10. CASE legitimize_mnt
  BY <1>10, Tasks
     DEF legitimize_mnt, rcu_read_unlock, CallMntput, countVars, localVars,
         lockVars, counterVars, mountVars, umountVars, historyVars
<1>11. CASE LegitimizeRelock
  BY <1>11, Tasks
     DEF LegitimizeRelock, rcu_read_lock, callVars, countVars, localVars,
         lockVars, counterVars, mountVars, umountVars, historyVars
<1>12. CASE WalkerFail
  BY <1>12, Tasks
     DEF WalkerFail, WalkerLeaves, rcu_read_unlock, callVars, countVars,
         lockVars, counterVars, mountVars, umountVars, historyVars
<1>13. CASE WalkerLegit
  BY <1>13, Tasks
     DEF WalkerLegit, WalkerLeaves, rcu_read_unlock, callVars, countVars,
         lockVars, counterVars, mountVars, umountVars, historyVars
<1>14. CASE WalkerUse
  BY <1>14, Tasks
     DEF WalkerUse, CallMntput, countVars, localVars, lockVars, counterVars,
         mountVars, umountVars, historyVars
<1>15. CASE Mntput(W)
  BY <1>15, WalkerPut
<1> QED
  BY <1>1, <1>2, <1>3, <1>4, <1>5, <1>6, <1>7, <1>8, <1>9, <1>10, <1>11,
     <1>12, <1>13, <1>14, <1>15
     DEF walker

(* The sequence count never goes back.                                     *)
LEMMA SequenceGrows ==
  ASSUME TypeOK, NEW t \in Threads, LockStep(t)
  PROVE  sequence' \in Nat /\ sequence' >= sequence
  BY DEF TypeOK, LockStep, lockVars, write_seqlock, write_sequnlock

(* The other tasks leave the ledgers of the holder and the walker alone.   *)
LEMMA HolderOthers ==
  ASSUME HolderLedger, NEW t \in {U, W}, Frame(t)
  PROVE  HolderLedger'
<1>1. H \in Threads \ {t}
  BY DEF Threads, U, H, W
<1> QED
  BY <1>1 DEF Frame, HolderLedger

(* What the others do leaves the walker's ledger alone.                    *)
LEMMA WalkerOthers ==
  ASSUME TypeOK, WalkerLedger, NEW t \in {U, H}, Frame(t), LockStep(t), UNCHANGED walkOnly
  PROVE  WalkerLedger'
<1>1. W \in Threads \ {t} /\ t \in Threads
  BY DEF Threads, U, H, W
<1>2. sequence' \in Nat /\ sequence' >= sequence /\ sequence \in Nat /\ seq \in Nat
  BY <1>1, SequenceGrows DEF TypeOK
<1> QED
  BY <1>1, <1>2 DEF Frame, WalkerLedger, walkOnly
(* Every mount has one position on the list, whichever way it was filled.  *)
LEMMA InsertedOnce ==
  /\ \A i \in Mounts : INSERTED(i) \in Mounts /\ INSERTED(INSERTED(i)) = i
  /\ \A i, j \in Mounts : INSERTED(i) = INSERTED(j) => i = j
  BY ConfigAssumption DEF INSERTED, Mounts

(* Positions and mounts are small naturals.                                *)
LEMMA MountRange ==
  /\ BATCH \in Nat /\ \A m : m \in Mounts <=> m \in Int /\ 0 <= m /\ m < BATCH
  BY ConfigAssumption DEF Mounts

(* Off the kernel internal path, position and mount are the same.          *)
LEMMA InsertedPlain == SHAPE # "kern" => \A i \in Mounts : INSERTED(i) = i
  BY DEF INSERTED

(* U stays in its phase through mntput(), and goes where it returns to.    *)
LEMMA PhasesPut ==
  ASSUME TypeOK, Phases, Mntput(U)
  PROVE  Phases'
<1> USE ConfigAssumption, Tasks DEF TypeOK, At, Goto, Phases, OnWayTo, Counting, Early, Peek, Queueing,
                             InPut, Holding, Ending, BeforeDec, AfterDec, PutLabels
<1>1. CASE MntputBegin(U)
  BY <1>1
     DEF MntputBegin, rcu_read_lock, callVars, countVars, localVars, lockVars,
         mountVars, umountVars, historyVars
<1>2. CASE mntput_no_expire(U)
  BY <1>2
     DEF mntput_no_expire, callVars, countVars, localVars, lockVars,
         mountVars, umountVars, historyVars
<1>3. CASE MntputFast(U)
  BY <1>3
     DEF MntputFast, callVars, countVars, localVars, lockVars, mountVars,
         umountVars, historyVars
<1>4. CASE MntputFastEnd(U)
  BY <1>4
     DEF MntputFastEnd, rcu_read_unlock, callVars, countVars, localVars,
         lockVars, mountVars, umountVars, historyVars
<1>5. CASE SlowpathLock(U)
  BY <1>5
     DEF SlowpathLock, lock_mount_hash, callVars, countVars, localVars,
         mountVars, umountVars, historyVars, write_seqlock
<1>6. CASE SlowpathDec(U)
  BY <1>6
     DEF SlowpathDec, StartCount, localVars, lockVars, mountVars, umountVars,
         historyVars
<1>7. CASE CountPuts(U)
  BY <1>7
     DEF CountPuts, NextCpu, callVars, localVars, lockVars, mountVars,
         umountVars, historyVars
<1>8. CASE CountGets(U)
  BY <1>8
     DEF CountGets, NextCpu, callVars, localVars, lockVars, mountVars,
         umountVars, historyVars
<1>9. CASE mntput_no_expire_slowpath(U)
  BY <1>9
     DEF mntput_no_expire_slowpath, mntput_final_locked, mountVars, callVars,
         countVars, lockVars, umountVars, historyVars
<1>10. CASE SlowpathRcuUnlock(U)
  BY <1>10
     DEF SlowpathRcuUnlock, rcu_read_unlock, callVars, countVars, localVars,
         lockVars, mountVars, umountVars, historyVars
<1>11. CASE SlowpathUnlock(U)
  BY <1>11
     DEF SlowpathUnlock, unlock_mount_hash, callVars, countVars, localVars,
         mountVars, umountVars, historyVars, write_sequnlock
<1>12. CASE mntput_queue_cleanup(U)
  BY <1>12
     DEF mntput_queue_cleanup, callVars, countVars, localVars, lockVars,
         mountVars, umountVars, historyVars
<1>13. CASE cleanup_mnt(U)
  BY <1>13
     DEF cleanup_mnt, callVars, countVars, lockVars, mountVars, umountVars
<1>14. CASE CleanupGp(U)
  BY <1>14
     DEF CleanupGp, synchronize_rcu, callVars, countVars, lockVars, mountVars,
         umountVars, historyVars
<1>15. CASE free_vfsmnt(U)
  BY <1>15
     DEF free_vfsmnt, callVars, countVars, localVars, lockVars, mountVars,
         umountVars
<1>16. CASE run_task_work(U)
  BY <1>16
     DEF run_task_work, countVars, localVars, lockVars, mountVars, umountVars,
         historyVars
<1>17. CASE NoTaskWork(U)
  BY <1>17
     DEF NoTaskWork, callVars, countVars, localVars, lockVars, mountVars,
         umountVars, historyVars
<1> QED
  BY <1>1, <1>2, <1>3, <1>4, <1>5, <1>6, <1>7, <1>8, <1>9, <1>10, <1>11,
     <1>12, <1>13, <1>14, <1>15, <1>16, <1>17
     DEF Mntput

(* The phases of U follow each other.                                      *)
LEMMA PhasesStep ==
  ASSUME TypeInv, UmountInv, main
  PROVE  Phases'
<1> USE ConfigAssumption, Tasks DEF TypeOK, At, Goto, Phases, OnWayTo, Counting, Early, Peek, Queueing,
                             InPut, Holding, Ending, BeforeDec, AfterDec, PutLabels, UmountInv, TypeInv, Caller
<1>1. CASE UmountRefused
  BY <1>1
     DEF UmountRefused, DROP_REF, countVars, localVars, lockVars, mountVars,
         historyVars, CallMntput
<1>2. CASE UmountAllowed
  BY <1>2
     DEF UmountAllowed, callVars, countVars, localVars, lockVars, mountVars,
         umountVars, historyVars
<1>3. CASE UmountLock
  BY <1>3
     DEF UmountLock, lock_mount_hash, callVars, countVars, localVars,
         mountVars, umountVars, historyVars, write_seqlock
<1>4. CASE do_umount
  BY <1>4
     DEF do_umount, UmountFails, UmountTreeBegin, StartCount, localVars,
         lockVars, historyVars, callVars, countVars
<1>5. CASE propagate_mount_busy
  BY <1>5
     DEF propagate_mount_busy, UmountFails, UmountTreeBegin, localVars,
         lockVars, historyVars, callVars, countVars
<1>6. CASE umount_tree
  BY <1>6
     DEF umount_tree, callVars, countVars, localVars, lockVars, umountVars
<1>7. CASE umount_mnt
  BY <1>7
     DEF umount_mnt, callVars, countVars, localVars, lockVars, historyVars
<1>8. CASE UmountDropsCaller
  BY <1>8
     DEF UmountDropsCaller, callVars, countVars, localVars, lockVars,
         mountVars, historyVars
<1>9. CASE namespace_unlock
  BY <1>9
     DEF namespace_unlock, unlock_mount_hash, callVars, countVars, localVars,
         mountVars, umountVars, historyVars, write_sequnlock
<1>10. CASE UmountEnd
  BY <1>10
     DEF UmountEnd, DROP_REF, callVars, countVars, localVars, lockVars,
         mountVars, historyVars, CallMntput
<1>11. CASE kern_unmount_array
  BY <1>11
     DEF kern_unmount_array, mnt_make_shortterm, callVars, countVars,
         localVars, lockVars, historyVars
<1>12. CASE UnmountedLock
  BY <1>12
     DEF UnmountedLock, lock_mount_hash, callVars, countVars, localVars,
         mountVars, historyVars, write_seqlock
<1>13. CASE UnheldNext
  BY <1>13
     DEF UnheldNext, StartCount, callVars, countVars, localVars, lockVars,
         mountVars, historyVars
<1>14. CASE mntput_unheld
  BY <1>14
     DEF mntput_unheld, callVars, countVars, localVars, lockVars, mountVars,
         historyVars
<1>15. CASE UnheldDec
  BY <1>15
     DEF UnheldDec, callVars, countVars, localVars, lockVars, mountVars,
         umountVars, historyVars
<1>16. CASE UnheldFinal
  BY <1>16
     DEF UnheldFinal, mntput_final_locked, callVars, countVars, localVars,
         lockVars
<1>17. CASE UnmountedUnlock
  BY <1>17
     DEF UnmountedUnlock, unlock_mount_hash, callVars, countVars, localVars,
         mountVars, historyVars, write_sequnlock
<1>18. CASE QueueNext
  BY <1>18
     DEF QueueNext, countVars, localVars, lockVars, mountVars, historyVars
<1>19. CASE mntput_unmounted
  BY <1>19
     DEF mntput_unmounted, callVars, countVars, lockVars, mountVars,
         historyVars
<1>20. CASE HeldGp
  BY <1>20
     DEF HeldGp, synchronize_rcu, callVars, countVars, lockVars, mountVars,
         umountVars, historyVars
<1>21. CASE HeldNext
  BY <1>21
     DEF HeldNext, CallMntput, callVars, countVars, localVars, lockVars,
         mountVars, historyVars
<1>22. CASE HeldEnd
  BY <1>22
     DEF HeldEnd, callVars, countVars, localVars, lockVars, mountVars,
         umountVars, historyVars
<1>23. CASE Join
  BY <1>23
     DEF Join, callVars, countVars, localVars, lockVars, mountVars,
         umountVars, historyVars
<1>24. CASE Mntput(U)
  BY <1>24, PhasesPut
<1> QED
  BY <1>1, <1>2, <1>3, <1>4, <1>5, <1>6, <1>7, <1>8, <1>9, <1>10, <1>11,
     <1>12, <1>13, <1>14, <1>15, <1>16, <1>17, <1>18, <1>19, <1>20, <1>21,
     <1>22, <1>23, <1>24
     DEF main

(* mntput() leaves the lists alone.                                        *)
LEMMA ListsPut ==
  ASSUME TypeOK, Phases, Lists, Mntput(U)
  PROVE  Lists'
<1> USE ConfigAssumption, Tasks DEF TypeOK, At, Goto, Lists, Phases, OnWayTo, Counting, Early, Peek, Queueing,
                             InPut, Holding, Ending, BeforeDec, AfterDec, PutLabels
<1>1. CASE MntputBegin(U)
  BY <1>1
     DEF MntputBegin, rcu_read_lock, callVars, countVars, localVars, lockVars,
         mountVars, umountVars, historyVars
<1>2. CASE mntput_no_expire(U)
  BY <1>2
     DEF mntput_no_expire, callVars, countVars, localVars, lockVars,
         mountVars, umountVars, historyVars
<1>3. CASE MntputFast(U)
  BY <1>3
     DEF MntputFast, callVars, countVars, localVars, lockVars, mountVars,
         umountVars, historyVars
<1>4. CASE MntputFastEnd(U)
  BY <1>4
     DEF MntputFastEnd, rcu_read_unlock, callVars, countVars, localVars,
         lockVars, mountVars, umountVars, historyVars
<1>5. CASE SlowpathLock(U)
  BY <1>5
     DEF SlowpathLock, lock_mount_hash, callVars, countVars, localVars,
         mountVars, umountVars, historyVars, write_seqlock
<1>6. CASE SlowpathDec(U)
  BY <1>6
     DEF SlowpathDec, StartCount, localVars, lockVars, mountVars, umountVars,
         historyVars
<1>7. CASE CountPuts(U)
  BY <1>7
     DEF CountPuts, NextCpu, callVars, localVars, lockVars, mountVars,
         umountVars, historyVars
<1>8. CASE CountGets(U)
  BY <1>8
     DEF CountGets, NextCpu, callVars, localVars, lockVars, mountVars,
         umountVars, historyVars
<1>9. CASE mntput_no_expire_slowpath(U)
  BY <1>9
     DEF mntput_no_expire_slowpath, mntput_final_locked, mountVars, callVars,
         countVars, lockVars, umountVars, historyVars
<1>10. CASE SlowpathRcuUnlock(U)
  BY <1>10
     DEF SlowpathRcuUnlock, rcu_read_unlock, callVars, countVars, localVars,
         lockVars, mountVars, umountVars, historyVars
<1>11. CASE SlowpathUnlock(U)
  BY <1>11
     DEF SlowpathUnlock, unlock_mount_hash, callVars, countVars, localVars,
         mountVars, umountVars, historyVars, write_sequnlock
<1>12. CASE mntput_queue_cleanup(U)
  BY <1>12
     DEF mntput_queue_cleanup, callVars, countVars, localVars, lockVars,
         mountVars, umountVars, historyVars
<1>13. CASE cleanup_mnt(U)
  BY <1>13
     DEF cleanup_mnt, callVars, countVars, lockVars, mountVars, umountVars
<1>14. CASE CleanupGp(U)
  BY <1>14
     DEF CleanupGp, synchronize_rcu, callVars, countVars, lockVars, mountVars,
         umountVars, historyVars
<1>15. CASE free_vfsmnt(U)
  BY <1>15
     DEF free_vfsmnt, callVars, countVars, localVars, lockVars, mountVars,
         umountVars
<1>16. CASE run_task_work(U)
  BY <1>16
     DEF run_task_work, countVars, localVars, lockVars, mountVars, umountVars,
         historyVars
<1>17. CASE NoTaskWork(U)
  BY <1>17
     DEF NoTaskWork, callVars, countVars, localVars, lockVars, mountVars,
         umountVars, historyVars
<1> QED
  BY <1>1, <1>2, <1>3, <1>4, <1>5, <1>6, <1>7, <1>8, <1>9, <1>10, <1>11,
     <1>12, <1>13, <1>14, <1>15, <1>16, <1>17
     DEF Mntput

(* The lists say what U has done with each mount.                          *)
LEMMA ListsStep ==
  ASSUME TypeInv, UmountInv, main
  PROVE  Lists'
<1> USE DEF UmountInv, Lists, Phases, OnWayTo, Counting, Early, Peek, Queueing,
            InPut, Holding, Ending, BeforeDec, AfterDec, PutLabels, LoopInv
<1>0. /\ k \in Int /\ head \subseteq Mounts /\ held \subseteq Mounts
      /\ fast_final \in [Mounts -> BOOLEAN] /\ LoopInv
  BY MountRange DEF TypeInv, TypeOK
<1>1. CASE UmountRefused
  BY <1>1, Tasks
     DEF TypeInv, TypeOK, At, Goto, EPERM, UmountRefused, DROP_REF, countVars,
         localVars, lockVars, mountVars, historyVars, CallMntput
<1>2. CASE UmountAllowed
  BY <1>2, Tasks
     DEF TypeInv, TypeOK, At, Goto, EPERM, UmountAllowed, callVars, countVars,
         localVars, lockVars, mountVars, umountVars, historyVars
<1>3. CASE UmountLock
  BY <1>3, Tasks
     DEF TypeInv, TypeOK, At, Goto, EPERM, UmountLock, lock_mount_hash,
         callVars, countVars, localVars, mountVars, umountVars, historyVars,
         write_seqlock
<1>4. CASE do_umount
  <2>1. CASE pc'[U] = "u_unlock"
    <3>1. /\ pc[U] = "u_check" /\ pc'[U] = "u_unlock"
          /\ retval' = -EINVAL /\ head' = head /\ held' = held /\ fast_final' = fast_final
      BY <1>4, <2>1, Tasks
         DEF TypeInv, TypeOK, At, Goto, do_umount, UmountFails,
             UmountTreeBegin, StartCount, localVars, lockVars, historyVars,
             callVars, countVars
    <3> QED
      BY <1>0, MountRange, <3>1 DEF EINVAL
  <2>2. CASE pc'[U] = "tree_ns"
    <3>1. /\ pc[U] = "u_check" /\ pc'[U] = "tree_ns"
          /\ k' = 0 /\ retval' = retval
          /\ head' = head /\ held' = held /\ fast_final' = fast_final
      BY <1>4, <2>2, Tasks
         DEF TypeInv, TypeOK, At, Goto, do_umount, UmountFails,
             UmountTreeBegin, StartCount, localVars, lockVars, historyVars,
             callVars, countVars
    <3> QED
      BY <1>0, MountRange, <3>1, InsertedOnce
  <2>3. CASE pc'[U] \notin {"u_unlock", "tree_ns"}
    <3>1. /\ pc[U] = "u_check" /\ pc'[U] = "count_puts" /\ cret'[U] = "busy_test"
          /\ retval' = retval /\ head' = head /\ held' = held /\ fast_final' = fast_final
      BY <1>4, <2>3, Tasks
         DEF TypeInv, TypeOK, At, Goto, do_umount, UmountFails,
             UmountTreeBegin, StartCount, localVars, lockVars, historyVars,
             callVars, countVars
    <3> QED
      BY <1>0, MountRange, <3>1
  <2> QED
    BY <2>1, <2>2, <2>3
<1>5. CASE propagate_mount_busy
  <2>1. CASE pc'[U] = "u_unlock"
    <3>1. /\ pc[U] = "busy_test" /\ pc'[U] = "u_unlock"
          /\ retval' = -EBUSY /\ head' = head /\ held' = held /\ fast_final' = fast_final
      BY <1>5, <2>1, Tasks
         DEF TypeInv, TypeOK, At, Goto, propagate_mount_busy, UmountFails,
             UmountTreeBegin, localVars, lockVars, historyVars, callVars,
             countVars
    <3> QED
      BY <1>0, MountRange, <3>1 DEF EBUSY
  <2>2. CASE pc'[U] # "u_unlock"
    <3>1. /\ pc[U] = "busy_test" /\ pc'[U] = "tree_ns"
          /\ k' = 0 /\ retval' = retval
          /\ head' = head /\ held' = held /\ fast_final' = fast_final
      BY <1>5, <2>2, Tasks
         DEF TypeInv, TypeOK, At, Goto, propagate_mount_busy, UmountFails,
             UmountTreeBegin, localVars, lockVars, historyVars, callVars,
             countVars
    <3> QED
      BY <1>0, MountRange, <3>1, InsertedOnce
  <2> QED
    BY <2>1, <2>2
<1>6. CASE umount_tree
  BY <1>6, Tasks
     DEF TypeInv, TypeOK, At, Goto, EPERM, umount_tree, callVars, countVars,
         localVars, lockVars, umountVars
<1>7. CASE umount_mnt
  <2>1. CASE k + 1 = BATCH
    <3>1. /\ pc[U] = "tree_unhash" /\ pc'[U] = "u_dec"
          /\ head' = head \cup {k} /\ held' = held
          /\ retval' = retval /\ fast_final' = fast_final
      BY <1>7, <2>1, Tasks
         DEF TypeInv, TypeOK, At, Goto, umount_mnt, callVars, countVars,
             localVars, lockVars, historyVars
    <3> QED
      BY <1>0, MountRange, <3>1, <2>1, InsertedPlain
  <2>2. CASE k + 1 # BATCH
    <3>1. /\ pc[U] = "tree_unhash" /\ pc'[U] = "tree_ns"
          /\ head' = head \cup {k} /\ held' = held /\ k' = k + 1
          /\ retval' = retval /\ fast_final' = fast_final
      BY <1>7, <2>2, Tasks
         DEF TypeInv, TypeOK, At, Goto, umount_mnt, callVars, countVars,
             localVars, lockVars, historyVars
    <3> QED
      BY <1>0, MountRange, <3>1, <2>2, InsertedPlain
  <2> QED
    BY <2>1, <2>2
<1>8. CASE UmountDropsCaller
  BY <1>8, Tasks
     DEF TypeInv, TypeOK, At, Goto, EPERM, UmountDropsCaller, callVars,
         countVars, localVars, lockVars, mountVars, historyVars
<1>9. CASE namespace_unlock
  BY <1>9, Tasks
     DEF TypeInv, TypeOK, At, Goto, EPERM, namespace_unlock,
         unlock_mount_hash, callVars, countVars, localVars, mountVars, umountVars,
         historyVars, write_sequnlock
<1>10. CASE UmountEnd
  BY <1>10, Tasks
     DEF TypeInv, TypeOK, At, Goto, EPERM, UmountEnd, DROP_REF, callVars,
         countVars, localVars, lockVars, mountVars, historyVars, CallMntput
<1>11. CASE kern_unmount_array
  <2>1. CASE k + 1 = BATCH
    <3>1. /\ pc[U] = "shortterm" /\ pc'[U] = "unmounted_lock"
          /\ head' = head \cup {INSERTED(k)} /\ held' = held
          /\ retval' = retval /\ fast_final' = fast_final
      BY <1>11, <2>1, Tasks
         DEF TypeInv, TypeOK, At, Goto, kern_unmount_array,
             mnt_make_shortterm, callVars, countVars, localVars, lockVars,
             historyVars
    <3> QED
      BY <1>0, MountRange, <3>1, <2>1, InsertedOnce
  <2>2. CASE k + 1 # BATCH
    <3>1. /\ pc[U] = "shortterm" /\ pc'[U] = "shortterm"
          /\ head' = head \cup {INSERTED(k)} /\ held' = held /\ k' = k + 1
          /\ retval' = retval /\ fast_final' = fast_final
      BY <1>11, <2>2, Tasks
         DEF TypeInv, TypeOK, At, Goto, kern_unmount_array,
             mnt_make_shortterm, callVars, countVars, localVars, lockVars,
             historyVars
    <3> QED
      BY <1>0, MountRange, <3>1, <2>2, InsertedOnce
  <2> QED
    BY <2>1, <2>2
<1>12. CASE UnmountedLock
  <2>1. /\ pc[U] = "unmounted_lock" /\ pc'[U] = "unheld_next"
        /\ k' = BATCH - 1 /\ retval' = retval
        /\ head' = head /\ held' = held /\ fast_final' = fast_final
    BY <1>12, Tasks
       DEF TypeInv, TypeOK, At, Goto, UnmountedLock, lock_mount_hash,
           callVars, countVars, localVars, mountVars, historyVars, write_seqlock
  <2> QED
    BY <1>0, MountRange, <2>1, InsertedOnce
<1>13. CASE UnheldNext
  <2>1. CASE INSERTED(k) \in head
    <3>1. /\ pc[U] = "unheld_next" /\ pc'[U] = "count_puts" /\ cret'[U] = "unheld_test"
          /\ cur'[U] = INSERTED(k) /\ k >= 0 /\ k' = k
          /\ retval' = retval /\ head' = head /\ held' = held /\ fast_final' = fast_final
      BY <1>13, <2>1, Tasks
         DEF TypeInv, TypeOK, At, Goto, UnheldNext, StartCount, callVars,
             countVars, localVars, lockVars, mountVars, historyVars
    <3> QED
      BY <1>0, MountRange, <3>1, InsertedOnce
  <2>2. CASE INSERTED(k) \notin head
    <3>1. /\ pc[U] = "unheld_next" /\ pc'[U] = "unheld_next"
          /\ k >= 0 /\ k' = k - 1
          /\ retval' = retval /\ head' = head /\ held' = held /\ fast_final' = fast_final
      BY <1>13, <2>2, Tasks
         DEF TypeInv, TypeOK, At, Goto, UnheldNext, StartCount, callVars,
             countVars, localVars, lockVars, mountVars, historyVars
    <3> QED
      BY <1>0, MountRange, <3>1, <2>2, InsertedOnce
  <2> QED
    BY <2>1, <2>2
<1>14. CASE mntput_unheld
  <2>1. CASE Unheld(Count(U))
    <3>1. /\ pc[U] = "unheld_test" /\ pc'[U] = "unheld_dec"
          /\ cur'[U] = cur[U] /\ k' = k
          /\ retval' = retval /\ head' = head /\ held' = held /\ fast_final' = fast_final
      BY <1>14, <2>1, Tasks
         DEF TypeInv, TypeOK, At, Goto, mntput_unheld, callVars, countVars,
             localVars, lockVars, mountVars, historyVars
    <3> QED
      BY <1>0, MountRange, <3>1
  <2>2. CASE ~Unheld(Count(U))
    <3>1. /\ pc[U] = "unheld_test" /\ pc'[U] = "unheld_next"
          /\ head' = head \ {cur[U]} /\ held' = held \cup {cur[U]}
          /\ k' = k - 1 /\ retval' = retval /\ fast_final' = fast_final
      BY <1>14, <2>2, Tasks
         DEF TypeInv, TypeOK, At, Goto, mntput_unheld, callVars, countVars,
             localVars, lockVars, mountVars, historyVars
    <3> QED
      BY <1>0, MountRange, <3>1, InsertedOnce
  <2> QED
    BY <2>1, <2>2
<1>15. CASE UnheldDec
  BY <1>15, Tasks
     DEF TypeInv, TypeOK, At, Goto, EPERM, UnheldDec, callVars, countVars,
         localVars, lockVars, mountVars, umountVars, historyVars
<1>16. CASE UnheldFinal
  <2>1. /\ pc[U] = "unheld_final" /\ pc'[U] = "unheld_next"
        /\ k' = k - 1 /\ retval' = retval /\ head' = head /\ held' = held
        /\ fast_final' = [fast_final EXCEPT ![cur[U]] = TRUE]
    BY <1>16, Tasks
       DEF TypeInv, TypeOK, At, Goto, UnheldFinal, mntput_final_locked,
           callVars, countVars, localVars, lockVars
  <2> QED
    BY <1>0, MountRange, <2>1, InsertedOnce
<1>17. CASE UnmountedUnlock
  <2>1. /\ pc[U] = "unheld_next" /\ pc'[U] = "queue_next" /\ k < 0
        /\ k' = BATCH - 1 /\ retval' = retval
        /\ head' = head /\ held' = held /\ fast_final' = fast_final
    BY <1>17, Tasks
       DEF TypeInv, TypeOK, At, Goto, UnmountedUnlock, unlock_mount_hash,
           callVars, countVars, localVars, mountVars, historyVars, write_sequnlock
  <2> QED
    BY <1>0, MountRange, <2>1, InsertedOnce
<1>18. CASE QueueNext
  <2>1. CASE INSERTED(k) \in head
    <3>1. /\ pc[U] = "queue_next" /\ pc'[U] = "queue" /\ ret'[U] = "queue_next"
          /\ k >= 0 /\ k' = k - 1 /\ retval' = retval
          /\ head' = head \ {INSERTED(k)} /\ held' = held /\ fast_final' = fast_final
      BY <1>18, <2>1, Tasks
         DEF TypeInv, TypeOK, At, Goto, QueueNext, countVars, localVars,
             lockVars, mountVars, historyVars
    <3> QED
      BY <1>0, MountRange, <3>1, InsertedOnce
  <2>2. CASE INSERTED(k) \notin head
    <3>1. /\ pc[U] = "queue_next" /\ pc'[U] = "queue_next"
          /\ k >= 0 /\ k' = k - 1 /\ retval' = retval
          /\ head' = head \ {INSERTED(k)} /\ held' = held /\ fast_final' = fast_final
      BY <1>18, <2>2, Tasks
         DEF TypeInv, TypeOK, At, Goto, QueueNext, countVars, localVars,
             lockVars, mountVars, historyVars
    <3> QED
      BY <1>0, MountRange, <3>1, <2>2, InsertedOnce
  <2> QED
    BY <2>1, <2>2
<1>19. CASE mntput_unmounted
  <2>1. CASE held = {}
    <3>1. /\ pc[U] = "queue_next" /\ pc'[U] = "u_drop" /\ k < 0
          /\ retval' = retval /\ head' = head /\ held' = held /\ fast_final' = fast_final
      BY <1>19, <2>1, Tasks
         DEF TypeInv, TypeOK, At, Goto, mntput_unmounted, callVars, countVars,
             lockVars, mountVars, historyVars
    <3> QED
      BY <1>0, MountRange, <3>1, <2>1, InsertedOnce
  <2>2. CASE held # {}
    <3>1. /\ pc[U] = "queue_next" /\ pc'[U] = "held_gp" /\ k < 0
          /\ k' = 0 /\ retval' = retval
          /\ head' = head /\ held' = held /\ fast_final' = fast_final
      BY <1>19, <2>2, Tasks
         DEF TypeInv, TypeOK, At, Goto, mntput_unmounted, callVars, countVars,
             lockVars, mountVars, historyVars
    <3> QED
      BY <1>0, MountRange, <3>1, <2>2, InsertedOnce
  <2> QED
    BY <2>1, <2>2
<1>20. CASE HeldGp
  BY <1>20, Tasks
     DEF TypeInv, TypeOK, At, Goto, EPERM, HeldGp, synchronize_rcu, callVars,
         countVars, lockVars, mountVars, umountVars, historyVars
<1>21. CASE HeldNext
  <2>1. CASE INSERTED(k) \in held
    <3>1. /\ pc[U] = "held_next" /\ pc'[U] = "put" /\ ret'[U] = "held_next"
          /\ cur'[U] = INSERTED(k) /\ k' = k + 1 /\ k < BATCH
          /\ head' = head /\ held' = held \ {INSERTED(k)}
          /\ retval' = retval /\ fast_final' = fast_final
      BY <1>21, <2>1, Tasks
         DEF TypeInv, TypeOK, At, Goto, HeldNext, CallMntput, callVars,
             countVars, localVars, lockVars, mountVars, historyVars
    <3> QED
      BY <1>0, MountRange, <3>1, <2>1, InsertedOnce
  <2>2. CASE INSERTED(k) \notin held
    <3>1. /\ pc[U] = "held_next" /\ pc'[U] = "held_next"
          /\ k' = k + 1 /\ k < BATCH
          /\ head' = head /\ held' = held \ {INSERTED(k)}
          /\ retval' = retval /\ fast_final' = fast_final
      BY <1>21, <2>2, Tasks
         DEF TypeInv, TypeOK, At, Goto, HeldNext, CallMntput, callVars,
             countVars, localVars, lockVars, mountVars, historyVars
    <3> QED
      BY <1>0, MountRange, <3>1, <2>2, InsertedOnce
  <2> QED
    BY <2>1, <2>2
<1>22. CASE HeldEnd
  <2>1. /\ pc[U] = "held_next" /\ pc'[U] = "u_drop" /\ k = BATCH
        /\ retval' = retval /\ head' = head /\ held' = held /\ fast_final' = fast_final
    BY <1>22, Tasks
       DEF TypeInv, TypeOK, At, Goto, HeldEnd, callVars, countVars, localVars,
           lockVars, mountVars, umountVars, historyVars
  <2> QED
    BY <1>0, MountRange, <2>1, InsertedOnce
<1>23. CASE Join
  BY <1>23, Tasks
     DEF TypeInv, TypeOK, At, Goto, EPERM, Join, callVars, countVars,
         localVars, lockVars, mountVars, umountVars, historyVars
<1>24. CASE Mntput(U)
  BY <1>24, ListsPut DEF TypeInv
<1> QED
  BY <1>1, <1>2, <1>3, <1>4, <1>5, <1>6, <1>7, <1>8, <1>9, <1>10, <1>11,
     <1>12, <1>13, <1>14, <1>15, <1>16, <1>17, <1>18, <1>19, <1>20, <1>21,
     <1>22, <1>23, <1>24
     DEF main
(* mntput() itself does not say whose reference it drops.                  *)
LEMMA CallerPut ==
  ASSUME TypeOK, Phases, Lists, Caller, Mntput(U)
  PROVE  Caller'
<1> USE Tasks DEF TypeOK, At, Goto, Phases, Lists, Caller, CallerHas, Bit, OnWayTo,
            Counting, Early, Peek, Queueing, InPut, Holding, Ending, BeforeDec,
            AfterDec, PutLabels
<1>1. CASE MntputBegin(U)
  BY <1>1
     DEF MntputBegin, rcu_read_lock, callVars, countVars, localVars, lockVars,
         mountVars, umountVars, historyVars
<1>2. CASE mntput_no_expire(U)
  BY <1>2
     DEF mntput_no_expire, callVars, countVars, localVars, lockVars,
         mountVars, umountVars, historyVars
<1>3. CASE MntputFast(U)
  BY <1>3
     DEF MntputFast, callVars, countVars, localVars, lockVars, mountVars,
         umountVars, historyVars
<1>4. CASE MntputFastEnd(U)
  BY <1>4
     DEF MntputFastEnd, rcu_read_unlock, callVars, countVars, localVars,
         lockVars, mountVars, umountVars, historyVars
<1>5. CASE SlowpathLock(U)
  BY <1>5
     DEF SlowpathLock, lock_mount_hash, callVars, countVars, localVars,
         mountVars, umountVars, historyVars, write_seqlock
<1>6. CASE SlowpathDec(U)
  BY <1>6
     DEF SlowpathDec, StartCount, localVars, lockVars, mountVars, umountVars,
         historyVars
<1>7. CASE CountPuts(U)
  BY <1>7
     DEF CountPuts, NextCpu, callVars, localVars, lockVars, mountVars,
         umountVars, historyVars
<1>8. CASE CountGets(U)
  BY <1>8
     DEF CountGets, NextCpu, callVars, localVars, lockVars, mountVars,
         umountVars, historyVars
<1>9. CASE mntput_no_expire_slowpath(U)
  BY <1>9
     DEF mntput_no_expire_slowpath, mntput_final_locked, mountVars, callVars,
         countVars, lockVars, umountVars, historyVars
<1>10. CASE SlowpathRcuUnlock(U)
  BY <1>10
     DEF SlowpathRcuUnlock, rcu_read_unlock, callVars, countVars, localVars,
         lockVars, mountVars, umountVars, historyVars
<1>11. CASE SlowpathUnlock(U)
  BY <1>11
     DEF SlowpathUnlock, unlock_mount_hash, callVars, countVars, localVars,
         mountVars, umountVars, historyVars, write_sequnlock
<1>12. CASE mntput_queue_cleanup(U)
  BY <1>12
     DEF mntput_queue_cleanup, callVars, countVars, localVars, lockVars,
         mountVars, umountVars, historyVars
<1>13. CASE cleanup_mnt(U)
  BY <1>13
     DEF cleanup_mnt, callVars, countVars, lockVars, mountVars, umountVars
<1>14. CASE CleanupGp(U)
  BY <1>14
     DEF CleanupGp, synchronize_rcu, callVars, countVars, lockVars, mountVars,
         umountVars, historyVars
<1>15. CASE free_vfsmnt(U)
  BY <1>15
     DEF free_vfsmnt, callVars, countVars, localVars, lockVars, mountVars,
         umountVars
<1>16. CASE run_task_work(U)
  BY <1>16
     DEF run_task_work, countVars, localVars, lockVars, mountVars, umountVars,
         historyVars
<1>17. CASE NoTaskWork(U)
  BY <1>17
     DEF NoTaskWork, callVars, countVars, localVars, lockVars, mountVars,
         umountVars, historyVars
<1> QED
  BY <1>1, <1>2, <1>3, <1>4, <1>5, <1>6, <1>7, <1>8, <1>9, <1>10, <1>11,
     <1>12, <1>13, <1>14, <1>15, <1>16, <1>17
     DEF Mntput

(* The caller's reference is accounted for on every path of do_umount().   *)
LEMMA CallerStep ==
  ASSUME TypeInv, UmountInv, main
  PROVE  Caller'
<1> USE Tasks DEF TypeOK, At, Goto, Phases, Lists, Caller, CallerHas, Bit, OnWayTo,
            Counting, Early, Peek, Queueing, InPut, Holding, Ending, BeforeDec,
            AfterDec, PutLabels, UmountInv, TypeInv, EPERM, EBUSY, EINVAL
<1>1. CASE UmountRefused
  BY <1>1
     DEF UmountRefused, DROP_REF, countVars, localVars, lockVars, mountVars,
         historyVars, CallMntput
<1>2. CASE UmountAllowed
  BY <1>2
     DEF UmountAllowed, callVars, countVars, localVars, lockVars, mountVars,
         umountVars, historyVars
<1>3. CASE UmountLock
  BY <1>3
     DEF UmountLock, lock_mount_hash, callVars, countVars, localVars,
         mountVars, umountVars, historyVars, write_seqlock
<1>4. CASE do_umount
  BY <1>4
     DEF do_umount, UmountFails, UmountTreeBegin, StartCount, localVars,
         lockVars, historyVars, callVars, countVars
<1>5. CASE propagate_mount_busy
  BY <1>5
     DEF propagate_mount_busy, UmountFails, UmountTreeBegin, localVars,
         lockVars, historyVars, callVars, countVars
<1>6. CASE umount_tree
  BY <1>6
     DEF umount_tree, callVars, countVars, localVars, lockVars, umountVars
<1>7. CASE umount_mnt
  BY <1>7
     DEF umount_mnt, callVars, countVars, localVars, lockVars, historyVars
<1>8. CASE UmountDropsCaller
  BY <1>8
     DEF UmountDropsCaller, callVars, countVars, localVars, lockVars,
         mountVars, historyVars
<1>9. CASE namespace_unlock
  BY <1>9
     DEF namespace_unlock, unlock_mount_hash, callVars, countVars, localVars,
         mountVars, umountVars, historyVars, write_sequnlock
<1>10. CASE UmountEnd
  BY <1>10
     DEF UmountEnd, DROP_REF, callVars, countVars, localVars, lockVars,
         mountVars, historyVars, CallMntput
<1>11. CASE kern_unmount_array
  BY <1>11
     DEF kern_unmount_array, mnt_make_shortterm, callVars, countVars,
         localVars, lockVars, historyVars
<1>12. CASE UnmountedLock
  BY <1>12
     DEF UnmountedLock, lock_mount_hash, callVars, countVars, localVars,
         mountVars, historyVars, write_seqlock
<1>13. CASE UnheldNext
  BY <1>13
     DEF UnheldNext, StartCount, callVars, countVars, localVars, lockVars,
         mountVars, historyVars
<1>14. CASE mntput_unheld
  BY <1>14
     DEF mntput_unheld, callVars, countVars, localVars, lockVars, mountVars,
         historyVars
<1>15. CASE UnheldDec
  BY <1>15
     DEF UnheldDec, callVars, countVars, localVars, lockVars, mountVars,
         umountVars, historyVars
<1>16. CASE UnheldFinal
  BY <1>16
     DEF UnheldFinal, mntput_final_locked, callVars, countVars, localVars,
         lockVars
<1>17. CASE UnmountedUnlock
  BY <1>17
     DEF UnmountedUnlock, unlock_mount_hash, callVars, countVars, localVars,
         mountVars, historyVars, write_sequnlock
<1>18. CASE QueueNext
  BY <1>18
     DEF QueueNext, countVars, localVars, lockVars, mountVars, historyVars
<1>19. CASE mntput_unmounted
  BY <1>19
     DEF mntput_unmounted, callVars, countVars, lockVars, mountVars,
         historyVars
<1>20. CASE HeldGp
  BY <1>20
     DEF HeldGp, synchronize_rcu, callVars, countVars, lockVars, mountVars,
         umountVars, historyVars
<1>21. CASE HeldNext
  BY <1>21
     DEF HeldNext, CallMntput, callVars, countVars, localVars, lockVars,
         mountVars, historyVars
<1>22. CASE HeldEnd
  BY <1>22
     DEF HeldEnd, callVars, countVars, localVars, lockVars, mountVars,
         umountVars, historyVars
<1>23. CASE Join
  BY <1>23
     DEF Join, callVars, countVars, localVars, lockVars, mountVars,
         umountVars, historyVars
<1>24. CASE Mntput(U)
  BY <1>24, CallerPut
<1> QED
  BY <1>1, <1>2, <1>3, <1>4, <1>5, <1>6, <1>7, <1>8, <1>9, <1>10, <1>11,
     <1>12, <1>13, <1>14, <1>15, <1>16, <1>17, <1>18, <1>19, <1>20, <1>21,
     <1>22, <1>23, <1>24
     DEF main

(* Neither reference of U changes, or one of them goes.                    *)
LEMMA LedgerSame ==
  ASSUME UmountLedger, refs'[U] = refs[U],
         \A n \in Mounts : OwnRef(n)' <=> OwnRef(n),
         \A n \in Mounts : CallerRef(n)' <=> CallerRef(n)
  PROVE  UmountLedger'
  BY DEF UmountLedger, Bit

(* A put takes one of U's references from the ledger.                      *)
LEMMA LedgerDrop ==
  ASSUME UmountLedger, NEW m \in Mounts,
         \A n \in Mounts : refs'[U][n] = IF n = m THEN refs[U][n] - 1 ELSE refs[U][n],
         \/ /\ \A n \in Mounts : OwnRef(n)' <=> OwnRef(n)
            /\ \A n \in Mounts : ~CallerRef(n)' /\ (CallerRef(n) <=> n = m)
         \/ /\ \A n \in Mounts : OwnRef(n)' <=> (OwnRef(n) /\ n # m)
            /\ OwnRef(m)
            /\ \A n \in Mounts : CallerRef(n)' <=> CallerRef(n)
  PROVE  UmountLedger'
  BY DEF UmountLedger, Bit

(* mntput() drops the reference it was called for.                         *)
LEMMA LedgerPut ==
  ASSUME TypeOK, UmountInv, Mntput(U)
  PROVE  UmountLedger'
<1> USE Tasks DEF TypeOK, At, Goto, Phases, Lists, Caller, CallerHas, Bit, OnWayTo,
            Counting, Early, Peek, Queueing, InPut, Holding, Ending, BeforeDec,
            AfterDec, PutLabels,
            UmountLedger, OwnRef, CallerRef, UmountInv
<1>1. CASE MntputBegin(U)
  BY <1>1
     DEF MntputBegin, rcu_read_lock, callVars, countVars, localVars, lockVars,
         counterVars, mountVars, umountVars, historyVars
<1>2. CASE mntput_no_expire(U)
  BY <1>2
     DEF mntput_no_expire, callVars, countVars, localVars, lockVars,
         counterVars, mountVars, umountVars, historyVars
<1>3. CASE MntputFast(U)
  <2>1. cur[U] \in Mounts /\ mnt_dec_count(U, cur[U])
    BY <1>3 DEF MntputFast
  <2>2. \A n \in Mounts : refs'[U][n] = IF n = cur[U] THEN refs[U][n] - 1 ELSE refs[U][n]
    BY <2>1, DecRefs
  <2>3. /\ pc[U] = "put_dec" /\ pc'[U] = "put_rcu" /\ ret'[U] = ret[U] /\ cur'[U] = cur[U]
        /\ UNCHANGED <<head, held, retval, fast_final, caller_put>>
    BY <1>3 DEF MntputFast, callVars, umountVars, historyVars
  <2>4. CASE ret[U] = "work"
    <3>1. \A n \in Mounts : OwnRef(n)' <=> OwnRef(n)
      BY <2>3, <2>4
    <3>2. \A n \in Mounts : ~CallerRef(n)' /\ (CallerRef(n) <=> n = cur[U])
      BY <2>3, <2>4
    <3> HIDE DEF OwnRef, CallerRef, UmountLedger
    <3> QED
      BY <2>1, <2>2, <3>1, <3>2, LedgerDrop
  <2>5. CASE ret[U] = "held_next"
    <3>1. \A n \in Mounts : OwnRef(n)' <=> OwnRef(n) /\ n # cur[U]
      BY <2>3, <2>5
    <3>2. OwnRef(cur[U])
      BY <2>3, <2>5
    <3>3. \A n \in Mounts : ~CallerRef(n)' /\ ~CallerRef(n)
      BY <2>3, <2>5
    <3> HIDE DEF OwnRef, CallerRef, UmountLedger
    <3> QED
      BY <2>1, <2>2, <3>1, <3>2, <3>3, LedgerDrop
  <2> QED
    BY <2>3, <2>4, <2>5
<1>4. CASE MntputFastEnd(U)
  BY <1>4
     DEF MntputFastEnd, rcu_read_unlock, callVars, countVars, localVars,
         lockVars, counterVars, mountVars, umountVars, historyVars
<1>5. CASE SlowpathLock(U)
  BY <1>5
     DEF SlowpathLock, lock_mount_hash, callVars, countVars, localVars,
         counterVars, mountVars, umountVars, historyVars, write_seqlock
<1>6. CASE SlowpathDec(U)
  <2>1. cur[U] \in Mounts /\ mnt_dec_count(U, cur[U])
    BY <1>6 DEF SlowpathDec
  <2>2. \A n \in Mounts : refs'[U][n] = IF n = cur[U] THEN refs[U][n] - 1 ELSE refs[U][n]
    BY <2>1, DecRefs
  <2>3. /\ pc[U] = "slow_dec" /\ pc'[U] = "count_puts" /\ ret'[U] = ret[U] /\ cur'[U] = cur[U]
        /\ UNCHANGED <<head, held, retval, fast_final, caller_put>>
        /\ cret'[U] = "put_test"
    BY <1>6 DEF SlowpathDec, StartCount, umountVars, historyVars
  <2>4. CASE ret[U] = "work"
    <3>1. \A n \in Mounts : OwnRef(n)' <=> OwnRef(n)
      BY <2>3, <2>4
    <3>2. \A n \in Mounts : ~CallerRef(n)' /\ (CallerRef(n) <=> n = cur[U])
      BY <2>3, <2>4
    <3> HIDE DEF OwnRef, CallerRef, UmountLedger
    <3> QED
      BY <2>1, <2>2, <3>1, <3>2, LedgerDrop
  <2>5. CASE ret[U] = "held_next"
    <3>1. \A n \in Mounts : OwnRef(n)' <=> OwnRef(n) /\ n # cur[U]
      BY <2>3, <2>5
    <3>2. OwnRef(cur[U])
      BY <2>3, <2>5
    <3>3. \A n \in Mounts : ~CallerRef(n)' /\ ~CallerRef(n)
      BY <2>3, <2>5
    <3> HIDE DEF OwnRef, CallerRef, UmountLedger
    <3> QED
      BY <2>1, <2>2, <3>1, <3>2, <3>3, LedgerDrop
  <2> QED
    BY <2>3, <2>4, <2>5
<1>7. CASE CountPuts(U)
  BY <1>7
     DEF CountPuts, NextCpu, callVars, localVars, lockVars, counterVars,
         mountVars, umountVars, historyVars
<1>8. CASE CountGets(U)
  BY <1>8
     DEF CountGets, NextCpu, callVars, localVars, lockVars, counterVars,
         mountVars, umountVars, historyVars
<1>9. CASE mntput_no_expire_slowpath(U)
  BY <1>9
     DEF mntput_no_expire_slowpath, mntput_final_locked, mountVars, callVars,
         countVars, lockVars, counterVars, umountVars, historyVars
<1>10. CASE SlowpathRcuUnlock(U)
  BY <1>10
     DEF SlowpathRcuUnlock, rcu_read_unlock, callVars, countVars, localVars,
         lockVars, counterVars, mountVars, umountVars, historyVars
<1>11. CASE SlowpathUnlock(U)
  BY <1>11
     DEF SlowpathUnlock, unlock_mount_hash, callVars, countVars, localVars,
         counterVars, mountVars, umountVars, historyVars, write_sequnlock
<1>12. CASE mntput_queue_cleanup(U)
  BY <1>12
     DEF mntput_queue_cleanup, callVars, countVars, localVars, lockVars,
         counterVars, mountVars, umountVars, historyVars
<1>13. CASE cleanup_mnt(U)
  BY <1>13
     DEF cleanup_mnt, callVars, countVars, lockVars, counterVars, mountVars,
         umountVars
<1>14. CASE CleanupGp(U)
  BY <1>14
     DEF CleanupGp, synchronize_rcu, callVars, countVars, lockVars,
         counterVars, mountVars, umountVars, historyVars
<1>15. CASE free_vfsmnt(U)
  BY <1>15
     DEF free_vfsmnt, callVars, countVars, localVars, lockVars, counterVars,
         mountVars, umountVars
<1>16. CASE run_task_work(U)
  BY <1>16
     DEF run_task_work, countVars, localVars, lockVars, counterVars,
         mountVars, umountVars, historyVars
<1>17. CASE NoTaskWork(U)
  BY <1>17
     DEF NoTaskWork, callVars, countVars, localVars, lockVars, counterVars,
         mountVars, umountVars, historyVars
<1> QED
  BY <1>1, <1>2, <1>3, <1>4, <1>5, <1>6, <1>7, <1>8, <1>9, <1>10, <1>11,
     <1>12, <1>13, <1>14, <1>15, <1>16, <1>17
     DEF Mntput

(* U has the own reference of a mount until it drops it, and the caller's.  *)
LEMMA LedgerStep ==
  ASSUME TypeInv, UmountInv, main
  PROVE  UmountLedger'
<1> USE Tasks DEF TypeOK, At, Goto, Phases, Lists, Caller, CallerHas, Bit, OnWayTo,
            Counting, Early, Peek, Queueing, InPut, Holding, Ending, BeforeDec,
            AfterDec, PutLabels,
            UmountLedger, OwnRef, CallerRef, UmountInv, TypeInv, EPERM, EBUSY, EINVAL
<1>1. CASE UmountRefused
  <2>1. /\ pc[U] = "umount" /\ pc'[U] = "put" /\ ret'[U] = "work" /\ retval' = -EPERM
        /\ UNCHANGED <<head, held, fast_final, refs>>
    BY <1>1 DEF UmountRefused, DROP_REF, CallMntput, counterVars, historyVars
  <2>2. \A n \in Mounts : OwnRef(n)' <=> OwnRef(n)
    BY <2>1
  <2>3. \A n \in Mounts : CallerRef(n)' <=> CallerRef(n)
    BY <2>1
  <2> HIDE DEF OwnRef, CallerRef, UmountLedger
  <2> QED
    BY <2>1, <2>2, <2>3, LedgerSame
<1>2. CASE UmountAllowed
  BY <1>2, InsertedOnce, MountRange
     DEF UmountAllowed, callVars, countVars, localVars, lockVars, counterVars,
         mountVars, umountVars, historyVars
<1>3. CASE UmountLock
  BY <1>3, InsertedOnce, MountRange
     DEF UmountLock, lock_mount_hash, callVars, countVars, localVars,
         counterVars, mountVars, umountVars, historyVars, write_seqlock
<1>4. CASE do_umount
  BY <1>4, InsertedOnce, MountRange
     DEF do_umount, UmountFails, UmountTreeBegin, StartCount, localVars,
         lockVars, counterVars, historyVars, callVars, countVars
<1>5. CASE propagate_mount_busy
  BY <1>5, InsertedOnce, MountRange
     DEF propagate_mount_busy, UmountFails, UmountTreeBegin, localVars,
         lockVars, counterVars, historyVars, callVars, countVars
<1>6. CASE umount_tree
  BY <1>6, InsertedOnce, MountRange
     DEF umount_tree, callVars, countVars, localVars, lockVars, counterVars,
         umountVars
<1>7. CASE umount_mnt
  <2>1. /\ pc[U] = "tree_unhash" /\ pc'[U] = (IF k + 1 = BATCH THEN "u_dec" ELSE "tree_ns")
        /\ head' = head \cup {k}
        /\ UNCHANGED <<held, retval, fast_final, refs, cur, ret>>
    BY <1>7 DEF umount_mnt, callVars, counterVars, historyVars
  <2>2. \A n \in Mounts : OwnRef(n)' <=> OwnRef(n)
    <3>1. /\ k \in Mounts /\ retval = 0 /\ held = {}
          /\ \A n \in Mounts : ~fast_final[n]
          /\ \A i \in Mounts : INSERTED(i) \in head <=> i < k
      BY <2>1 DEF LoopInv
    <3>2. \A n \in Mounts : OwnRef(n)
      BY <2>1, <3>1
    <3>3. k + 1 = BATCH => \A n \in Mounts : n \in head'
      <4>1. ASSUME k + 1 = BATCH, NEW n \in Mounts
            PROVE  INSERTED(n) \in Mounts /\ INSERTED(INSERTED(n)) = n /\ INSERTED(n) <= k
        BY <3>1, <4>1, InsertedOnce, MountRange
      <4> QED
        BY <2>1, <3>1, <4>1, InsertedPlain
    <3>4. \A n \in Mounts : OwnRef(n)'
      BY <2>1, <3>1, <3>3
    <3> QED
      BY <3>2, <3>4
  <2>3. \A n \in Mounts : CallerRef(n)' <=> CallerRef(n)
    BY <2>1
  <2> HIDE DEF OwnRef, CallerRef, UmountLedger
  <2> QED
    BY <2>1, <2>2, <2>3, LedgerSame
<1>8. CASE UmountDropsCaller
  <2>1. 0 \in Mounts /\ mnt_dec_count(U, 0)
    BY <1>8, Zero DEF UmountDropsCaller
  <2>2. \A n \in Mounts : refs'[U][n] = IF n = 0 THEN refs[U][n] - 1 ELSE refs[U][n]
    BY <2>1, DecRefs
  <2>3. /\ pc[U] = "u_dec" /\ pc'[U] = "u_unlock"
        /\ UNCHANGED <<head, held, retval, fast_final>>
    BY <1>8 DEF UmountDropsCaller, historyVars
  <2>4. \A n \in Mounts : OwnRef(n)' <=> OwnRef(n)
    BY <2>3
  <2>5. \A n \in Mounts : ~CallerRef(n)' /\ (CallerRef(n) <=> n = 0)
    BY <2>3
  <2> HIDE DEF OwnRef, CallerRef, UmountLedger
  <2> QED
    BY <2>1, <2>2, <2>4, <2>5, LedgerDrop
<1>9. CASE namespace_unlock
  BY <1>9, InsertedOnce, MountRange
     DEF namespace_unlock, unlock_mount_hash, callVars, countVars, localVars,
         counterVars, mountVars, umountVars, historyVars, write_sequnlock
<1>10. CASE UmountEnd
  BY <1>10, InsertedOnce, MountRange
     DEF UmountEnd, DROP_REF, callVars, countVars, localVars, lockVars,
         counterVars, mountVars, historyVars, CallMntput
<1>11. CASE kern_unmount_array
  <2>1. /\ pc[U] = "shortterm" /\ pc'[U] = (IF k + 1 = BATCH THEN "unmounted_lock" ELSE "shortterm")
        /\ head' = head \cup {INSERTED(k)}
        /\ UNCHANGED <<held, retval, fast_final, refs, cur, ret>>
    BY <1>11 DEF kern_unmount_array, callVars, counterVars, historyVars
  <2>2. \A n \in Mounts : OwnRef(n)' <=> OwnRef(n)
    <3>1. /\ k \in Mounts /\ retval = 0 /\ held = {}
          /\ \A n \in Mounts : ~fast_final[n]
          /\ \A i \in Mounts : INSERTED(i) \in head <=> i < k
      BY <2>1 DEF LoopInv
    <3>2. \A n \in Mounts : OwnRef(n)
      BY <2>1, <3>1
    <3>3. k + 1 = BATCH => \A n \in Mounts : n \in head'
      <4>1. ASSUME k + 1 = BATCH, NEW n \in Mounts
            PROVE  INSERTED(n) \in Mounts /\ INSERTED(INSERTED(n)) = n /\ INSERTED(n) <= k
        BY <3>1, <4>1, InsertedOnce, MountRange
      <4>2. ASSUME k + 1 = BATCH, NEW n \in Mounts
            PROVE  n \in head'
        <5>1. CASE INSERTED(n) = k
          BY <2>1, <4>1, <4>2, <5>1, Zenon
        <5>2. CASE INSERTED(n) # k
          <6>1. INSERTED(n) < k
            <7>1. INSERTED(n) \in Int /\ k \in Int /\ INSERTED(n) <= k
              BY <3>1, <4>1, <4>2, MountRange
            <7> HIDE DEF TypeOK, Lists, Phases
            <7> QED
              BY <5>2, <7>1
          <6>2. INSERTED(INSERTED(n)) \in head
            BY <3>1, <4>1, <4>2, <6>1
          <6> QED
            BY <2>1, <4>1, <4>2, <6>2
        <5> QED
          BY <5>1, <5>2
      <4> QED
        BY <4>2
    <3>4. \A n \in Mounts : OwnRef(n)'
      BY <2>1, <3>1, <3>3
    <3> QED
      BY <3>2, <3>4
  <2>3. \A n \in Mounts : CallerRef(n)' <=> CallerRef(n)
    BY <2>1
  <2> HIDE DEF OwnRef, CallerRef, UmountLedger
  <2> QED
    BY <2>1, <2>2, <2>3, LedgerSame
<1>12. CASE UnmountedLock
  BY <1>12, InsertedOnce, MountRange
     DEF UnmountedLock, lock_mount_hash, callVars, countVars, localVars,
         counterVars, mountVars, historyVars, write_seqlock
<1>13. CASE UnheldNext
  BY <1>13, InsertedOnce, MountRange
     DEF UnheldNext, StartCount, callVars, countVars, localVars, lockVars,
         counterVars, mountVars, historyVars
<1>14. CASE mntput_unheld
  BY <1>14, InsertedOnce, MountRange
     DEF mntput_unheld, callVars, countVars, localVars, lockVars, counterVars,
         mountVars, historyVars
<1>15. CASE UnheldDec
  <2>1. cur[U] \in Mounts /\ mnt_dec_count(U, cur[U])
    BY <1>15, Zero, Tasks DEF UnheldDec
  <2>2. \A n \in Mounts : refs'[U][n] = IF n = cur[U] THEN refs[U][n] - 1 ELSE refs[U][n]
    BY <2>1, DecRefs, Tasks
  <2> QED
    BY <1>15, <2>2
       DEF UnheldDec, callVars, countVars, localVars, lockVars, mountVars,
           umountVars, historyVars
<1>16. CASE UnheldFinal
  BY <1>16, InsertedOnce, MountRange
     DEF UnheldFinal, mntput_final_locked, callVars, countVars, localVars,
         lockVars, counterVars
<1>17. CASE UnmountedUnlock
  BY <1>17, InsertedOnce, MountRange
     DEF UnmountedUnlock, unlock_mount_hash, callVars, countVars, localVars,
         counterVars, mountVars, historyVars, write_sequnlock
<1>18. CASE QueueNext
  BY <1>18, InsertedOnce, MountRange
     DEF QueueNext, countVars, localVars, lockVars, counterVars, mountVars,
         historyVars
<1>19. CASE mntput_unmounted
  BY <1>19, InsertedOnce, MountRange
     DEF mntput_unmounted, callVars, countVars, lockVars, counterVars,
         mountVars, historyVars
<1>20. CASE HeldGp
  BY <1>20, InsertedOnce, MountRange
     DEF HeldGp, synchronize_rcu, callVars, countVars, lockVars, counterVars,
         mountVars, umountVars, historyVars
<1>21. CASE HeldNext
  BY <1>21, InsertedOnce, MountRange
     DEF HeldNext, CallMntput, callVars, countVars, localVars, lockVars,
         counterVars, mountVars, historyVars
<1>22. CASE HeldEnd
  BY <1>22, InsertedOnce, MountRange
     DEF HeldEnd, callVars, countVars, localVars, lockVars, counterVars,
         mountVars, umountVars, historyVars
<1>23. CASE Join
  BY <1>23, InsertedOnce, MountRange
     DEF Join, callVars, countVars, localVars, lockVars, counterVars,
         mountVars, umountVars, historyVars
<1>24. CASE Mntput(U)
  BY <1>24, LedgerPut
<1> QED
  BY <1>1, <1>2, <1>3, <1>4, <1>5, <1>6, <1>7, <1>8, <1>9, <1>10, <1>11,
     <1>12, <1>13, <1>14, <1>15, <1>16, <1>17, <1>18, <1>19, <1>20, <1>21,
     <1>22, <1>23, <1>24
     DEF main

(* The holder and the walker leave everything about U alone.               *)
LEMMA UmountOthers ==
  ASSUME UmountInv, NEW t \in {H, W}, Frame(t), UNCHANGED umountOnly
  PROVE  UmountInv'
<1>1. U \in Threads \ {t}
  BY DEF Threads, U, H, W
<1>2. /\ pc'[U] = pc[U] /\ cur'[U] = cur[U] /\ ret'[U] = ret[U] /\ wret'[U] = wret[U]
      /\ cret'[U] = cret[U] /\ refs'[U] = refs[U]
      /\ head' = head /\ held' = held /\ k' = k /\ retval' = retval /\ ref' = ref
      /\ caller_put' = caller_put /\ fast_final' = fast_final
  BY <1>1 DEF Frame, umountOnly
<1> USE DEF OnWayTo, Counting, Early, Peek, Queueing, InPut, Holding, Ending, CallerHas
<1>3. Phases'
  BY <1>2 DEF UmountInv, Phases
<1>4. Lists'
  BY <1>2 DEF UmountInv, Lists
<1>5. Caller'
  BY <1>2 DEF UmountInv, Caller, Bit
<1>6. UmountLedger'
  BY <1>2 DEF UmountInv, UmountLedger, OwnRef, CallerRef, Bit
<1> QED
  BY <1>3, <1>4, <1>5, <1>6 DEF UmountInv

(* The ledger is right when the harness starts.                            *)
LEMMA LedgerInit == Init => Ledger
<1> SUFFICES ASSUME Init PROVE Ledger
  OBVIOUS
<1>1. /\ pc[U] = (IF SHAPE = "kern" THEN "shortterm" ELSE "umount")
      /\ pc[H] = "h_loop" /\ pc[W] \in {"walker", "done"}
      /\ cur[H] = HELD /\ cur[W] = WALK
      /\ wret[U] = "u_return" /\ wret[H] = "h_loop" /\ wret[W] = "done"
      /\ \A t \in Threads : ret[t] = "work" /\ cret[t] = "put_test" /\ task_work[t] = {}
  BY DEF Init, InitTasks, PerTask, Threads, U, H, W
<1>2. \A m \in Mounts :
         /\ refs[U][m] = IF m = 0 /\ SHAPE # "kern" THEN 2 ELSE 1
         /\ refs[H][m] = IF m = HELD THEN 1 ELSE 0
         /\ refs[W][m] = 0
  BY DEF Init, init_mount, PerTask, Threads, U, H, W
<1>3. HolderLedger
  BY <1>1, <1>2, Tasks DEF HolderLedger, BeforeDec, Bit
<1>4. WalkerLedger
  <2>1. seq = 0 /\ sequence = 0 /\ pc[W] \notin Tentative \cup WalkerHas
    BY <1>1 DEF Init, InitTasks, Tentative, WalkerHas, Firm, BeforeDec
  <2> QED
    BY <1>1, <1>2, <2>1, Tasks DEF WalkerLedger, Bit
<1>5. /\ Early /\ ~Peek /\ ~Queueing /\ ~Holding /\ ~Ending /\ CallerHas
      /\ ~OnWayTo(U, "busy_test") /\ ~OnWayTo(U, "unheld_test") /\ pc[U] \notin BeforeDec
  BY <1>1 DEF OnWayTo, Counting, Early, Peek, Queueing, InPut, Holding, Ending,
              CallerHas, BeforeDec, AfterDec, PutLabels
<1>6. /\ head = {} /\ held = {} /\ k = 0 /\ retval = 0 /\ caller_put = 0
      /\ \A m \in Mounts : ~fast_final[m]
  BY DEF Init
<1>7. ref <=> SHAPE # "kern"
  BY Zenon DEF Init
<1>8. Phases
  BY <1>1, <1>5 DEF Phases
<1>9. Lists
  BY <1>1, <1>5, <1>6, MountRange DEF Lists
<1>10. Caller
  BY <1>1, <1>5, <1>6, <1>7 DEF Caller, Bit
<1>11. UmountLedger
  BY <1>2, <1>5, <1>6 DEF UmountLedger, OwnRef, CallerRef, Bit
<1> QED
  BY <1>3, <1>4, <1>8, <1>9, <1>10, <1>11 DEF Ledger, UmountInv

(* The ledger is inductive on top of the types.                            *)
LEMMA LedgerInductive == TypeInv /\ Ledger /\ [Next]_vars => Ledger'
<1> SUFFICES ASSUME TypeInv, Ledger, [Next]_vars
             PROVE  Ledger'
  OBVIOUS
<1> USE DEF Ledger
<1>1. TypeOK
  BY DEF TypeInv
<1>2. CASE main
  <2>1. Frame(U) /\ LockStep(U) /\ UNCHANGED walkOnly
    BY <1>1, <1>2, MainFrame, MainLock
  <2>2. HolderLedger' /\ WalkerLedger'
    BY <1>1, <2>1, HolderOthers, WalkerOthers
  <2>3. UmountInv'
    BY <1>2, PhasesStep, ListsStep, CallerStep, LedgerStep DEF UmountInv
  <2> QED
    BY <2>2, <2>3
<1>3. CASE holder
  <2>1. Frame(H) /\ LockStep(H) /\ UNCHANGED <<umountOnly, walkOnly>>
    BY <1>1, <1>3, HolderFrame, HolderLock
  <2>2. WalkerLedger' /\ UmountInv'
    BY <1>1, <2>1, WalkerOthers, UmountOthers
  <2> QED
    BY <1>1, <1>3, <2>2, HolderStep
<1>4. CASE walker
  <2>1. Frame(W) /\ UNCHANGED umountOnly
    BY <1>1, <1>4, WalkerFrame
  <2>2. HolderLedger' /\ UmountInv'
    BY <2>1, HolderOthers, UmountOthers
  <2> QED
    BY <1>1, <1>4, <2>2, WalkerStep
<1>5. CASE Finished \/ UNCHANGED vars
  <2>1. UNCHANGED vars
    BY <1>5 DEF Finished
  <2>2. HolderLedger' /\ WalkerLedger'
    BY <2>1 DEF vars, callVars, countVars, localVars, lockVars, counterVars,
                HolderLedger, WalkerLedger
  <2>3. Frame(H) /\ UNCHANGED umountOnly
    BY <2>1 DEF vars, callVars, countVars, localVars, counterVars, mountVars,
                umountVars, historyVars, Frame, umountOnly
  <2>4. UmountInv'
    BY <2>3, UmountOthers
  <2> QED
    BY <2>2, <2>4
<1> QED
  BY <1>2, <1>3, <1>4, <1>5 DEF Next

(* What the later proofs build on.                                         *)
Base == TypeInv /\ LockProtocol /\ RcuProtocol /\ Ledger

(* The base holds at the start.                                            *)
LEMMA BaseInit == Init => Base
  BY InitType, LockInit, RcuInit, LedgerInit DEF Base

(* The base is inductive.                                                  *)
LEMMA BaseInductive == Base /\ [Next]_vars => Base'
  BY TypeStep, LockInductive, RcuInductive, LedgerInductive DEF Base

(* LedgerCorrect: at every line of every task the ledger holds exactly the *)
(* references that line has taken and not yet dropped, and the lists of U  *)
(* hold the mounts whose own reference it still owes.                      *)
THEOREM LedgerCorrect == Spec => []Ledger
<1>1. Base => Ledger
  BY DEF Base
<1> QED
  BY <1>1, BaseInit, BaseInductive, PTL DEF Spec

(* CallerCorrect: do_umount() drops the reference its caller brought       *)
(* exactly once on every path, refused, busy, stale or done, and when it   *)
(* has returned U has the mount's own reference iff the umount failed.     *)
THEOREM CallerCorrect == Spec => []CallerPutOnce
<1>1. Ledger => CallerPutOnce
  <2> SUFFICES ASSUME Ledger, SHAPE # "kern", Returned
               PROVE  caller_put = 1 /\ refs[U][0] = IF retval = 0 THEN 0 ELSE 1
    BY DEF CallerPutOnce
  <2>1. /\ Ending /\ ~Early /\ ~CallerHas /\ pc[U] \notin BeforeDec
        /\ pc[U] # "unheld_final"
    BY DEF Returned, Ending, Early, CallerHas, OnWayTo, Counting, BeforeDec
  <2>2. head = {} /\ held = {}
    BY <2>1 DEF Ledger, UmountInv, Lists
  <2>3. caller_put = 1
    BY <2>1 DEF Ledger, UmountInv, Caller, Bit
  <2>4. (OwnRef(0) <=> retval # 0) /\ ~CallerRef(0)
    BY <2>1, <2>2 DEF OwnRef, CallerRef
  <2>5. refs[U][0] = Bit(OwnRef(0)) + Bit(CallerRef(0))
    BY Zero DEF Ledger, UmountInv, UmountLedger
  <2> QED
    BY <2>3, <2>4, <2>5 DEF Bit
<1> QED
  BY <1>1, LedgerCorrect, PTL

-----------------------------------------------------------------------------
(* Sums over the CPUs                                                      *)

Steps == 0 .. NCPU

(* S[m][c] is the sum of the counters of m on the CPUs below c.            *)
IsPrefixSum(S, count) ==
    /\ S \in [Mounts -> [Steps -> Nat]]
    /\ \A m \in Mounts : S[m][0] = 0
    /\ \A m \in Mounts, c \in CPUs : S[m][c + 1] = S[m][c] + count[m][c]

(* One more on CPU c: the sums beyond it grow by one.                      *)
Bump(S, m, c) ==
    [S EXCEPT ![m] = [i \in Steps |-> IF i > c THEN S[m][i] + 1 ELSE S[m][i]]]

(* The places c and c + 1 of a prefix sum, first and last.                 *)
LEMMA StepsRange ==
  /\ NCPU \in Nat \ {0}
  /\ \A i : i \in Steps <=> i \in Int /\ 0 <= i /\ i <= NCPU
  /\ \A c : c \in CPUs <=> c \in Int /\ 0 <= c /\ c < NCPU
  BY ConfigAssumption DEF Steps, CPUs

(* A CPU's own place and the next one are places.                           *)
LEMMA CpuSteps ==
  /\ NCPU \in Steps /\ NCPU \in Int
  /\ \A c \in CPUs : c \in Steps /\ c + 1 \in Steps /\ c \in Int
  BY ConfigAssumption DEF Steps, CPUs

(* A bumped prefix sum is the prefix sum of the bumped counters.           *)
LEMMA BumpSum ==
  ASSUME NEW S, NEW count, NEW count2, NEW m \in Mounts, NEW c \in CPUs,
         count \in [Mounts -> [CPUs -> Nat]],
         IsPrefixSum(S, count),
         count2 = [count EXCEPT ![m][c] = @ + 1]
  PROVE  IsPrefixSum(Bump(S, m, c), count2)
<1> DEFINE B == Bump(S, m, c)
<1>1. \A n \in Mounts : S[n] \in [Steps -> Nat]
  BY DEF IsPrefixSum
<1>2. \A n \in Mounts : B[n] = IF n = m THEN [i \in Steps |-> IF i > c THEN S[m][i] + 1 ELSE S[m][i]]
                                        ELSE S[n]
  BY DEF Bump, IsPrefixSum
<1>3. [i \in Steps |-> IF i > c THEN S[m][i] + 1 ELSE S[m][i]] \in [Steps -> Nat]
  BY <1>1
<1>4. B \in [Mounts -> [Steps -> Nat]]
  BY <1>3 DEF Bump, IsPrefixSum
<1>5. \A n \in Mounts, i \in Steps :
         B[n][i] = IF n = m /\ i > c THEN S[n][i] + 1 ELSE S[n][i]
  BY <1>2
<1>6. \A n \in Mounts, i \in CPUs :
         count2[n][i] = IF n = m /\ i = c THEN count[n][i] + 1 ELSE count[n][i]
  OBVIOUS
<1> HIDE DEF B
<1>7. ASSUME NEW n \in Mounts PROVE B[n][0] = 0
  <2>1. 0 \in Steps /\ ~(0 > c)
    BY ConfigAssumption DEF Steps, CPUs
  <2>2. B[n][0] = S[n][0]
    BY <1>5, <2>1
  <2> QED
    BY <2>2 DEF IsPrefixSum
<1>8. ASSUME NEW n \in Mounts, NEW i \in CPUs
      PROVE  B[n][i + 1] = B[n][i] + count2[n][i]
  <2>1. /\ i \in Steps /\ i + 1 \in Steps /\ i \in Int /\ c \in Int
        /\ S[n][i] \in Nat /\ S[n][i + 1] \in Nat /\ count[n][i] \in Nat
    BY <1>1, CpuSteps
  <2>2. S[n][i + 1] = S[n][i] + count[n][i]
    BY DEF IsPrefixSum
  <2>3. /\ B[n][i] = IF n = m /\ i > c THEN S[n][i] + 1 ELSE S[n][i]
        /\ B[n][i + 1] = IF n = m /\ i + 1 > c THEN S[n][i + 1] + 1 ELSE S[n][i + 1]
        /\ count2[n][i] = IF n = m /\ i = c THEN count[n][i] + 1 ELSE count[n][i]
    BY <1>5, <1>6, <2>1
  <2>4. CASE n = m /\ i = c
    BY <2>1, <2>2, <2>3, <2>4
  <2>5. CASE n = m /\ i # c
    BY <2>1, <2>2, <2>3, <2>5
  <2>6. CASE n # m
    BY <2>1, <2>2, <2>3, <2>6
  <2> QED
    BY <2>4, <2>5, <2>6
<1> QED
  BY <1>4, <1>7, <1>8 DEF IsPrefixSum, B

(* Where a bumped prefix sum differs from the one before.                  *)
LEMMA BumpGrows ==
  ASSUME NEW S \in [Mounts -> [Steps -> Nat]], NEW m \in Mounts, NEW c \in CPUs
  PROVE  /\ \A n \in Mounts, i \in Steps :
              Bump(S, m, c)[n][i] = IF n = m /\ i > c THEN S[n][i] + 1 ELSE S[n][i]
         /\ \A n \in Mounts \ {m} : Bump(S, m, c)[n] = S[n]
  BY DEF Bump

-----------------------------------------------------------------------------
(* What mnt_get_count() may conclude                                       *)

(* Between the first look at a counter and the decision.                   *)
CountPlaces == {"count_puts", "count_gets"} \cup CountReturns

(* What the count will be if no counter changes any more.                  *)
Outlook(t, G) ==
    IF pc[t] = "count_gets" THEN Count(t) + G[cur[t]][NCPU] - G[cur[t]][cpu[t]]
                            ELSE Count(t)

(* References that are expected: a count of that many says nobody else has *)
(* one.                                                                    *)
Expected(t) ==
    IF cret[t] = "busy_test" THEN 2 ELSE IF cret[t] = "unheld_test" THEN 1 ELSE 0

(* Nobody but U has a reference to m, and if W has a transient one it will *)
(* not keep it.                                                            *)
Clear(m) == refs[H][m] = 0 /\ ~(m = WALK /\ pc[W] \in Firm)

(* The counters add up to the ledger.                                      *)
Balanced(G, P) ==
    /\ IsPrefixSum(G, mnt_gets) /\ IsPrefixSum(P, mnt_puts)
    /\ \A m \in Mounts :
         G[m][NCPU] - P[m][NCPU] = refs[U][m] + refs[H][m] + refs[W][m]

(* The puts read so far are not too many.  Once all puts are read, the     *)
(* count is not negative, and a count that is not above the expected one   *)
(* is right however the gets go on changing.                               *)
CountRight(t, G, P) ==
    /\ pc[t] = "count_puts" => puts[t] <= P[cur[t]][cpu[t]] /\ gets[t] = 0
    /\ pc[t] \in CountReturns => cret[t] = pc[t]
    /\ pc[t] \in {"count_gets"} \cup CountReturns =>
         /\ Outlook(t, G) >= 0
         /\ Outlook(t, G) <= Expected(t) =>
              Clear(cur[t]) /\ refs[U][cur[t]] <= Expected(t)

Summed(G, P) == Balanced(G, P) /\ \A t \in Threads : CountRight(t, G, P)

CountInv == \E G, P : Summed(G, P)

-----------------------------------------------------------------------------
(* What a step of t does to counters and to a count under way              *)

CounterStep(t) ==
    \/ UNCHANGED counterVars
    \/ \E m \in Mounts : mnt_dec_count(t, m)
    \/ t # U /\ \E m \in Mounts : mnt_inc_count(t, m)

CountStep(t) ==
    \/ pc'[t] \notin CountPlaces
    \/ pc'[t] = "count_puts" /\ cpu'[t] = 0 /\ puts'[t] = 0 /\ gets'[t] = 0
    \/ CountPuts(t)
    \/ CountGets(t)

(* mntput() counts down once and sums up once.                             *)
LEMMA MntputSum ==
  ASSUME TypeOK, NEW t \in Threads, Mntput(t)
  PROVE  CounterStep(t) /\ CountStep(t)
<1> USE DEF TypeOK, At, Goto, CounterStep, CountStep, CountPlaces, CountReturns,
            Returns, WorkReturns
<1>1. CASE MntputBegin(t)
  BY <1>1 DEF MntputBegin, callVars, countVars, counterVars
<1>2. CASE mntput_no_expire(t)
  BY <1>2 DEF mntput_no_expire, callVars, countVars, counterVars
<1>3. CASE MntputFast(t)
  BY <1>3 DEF MntputFast, callVars, countVars
<1>4. CASE MntputFastEnd(t)
  BY <1>4 DEF MntputFastEnd, callVars, countVars, counterVars
<1>5. CASE SlowpathLock(t)
  BY <1>5 DEF SlowpathLock, callVars, countVars, counterVars
<1>6. CASE SlowpathDec(t)
  BY <1>6 DEF SlowpathDec, StartCount
<1>7. CASE CountPuts(t)
  BY <1>7 DEF CountPuts
<1>8. CASE CountGets(t)
  BY <1>8 DEF CountGets
<1>9. CASE mntput_no_expire_slowpath(t)
  BY <1>9
     DEF mntput_no_expire_slowpath, mntput_final_locked, callVars, countVars,
         counterVars
<1>10. CASE SlowpathRcuUnlock(t)
  BY <1>10 DEF SlowpathRcuUnlock, callVars, countVars, counterVars
<1>11. CASE SlowpathUnlock(t)
  BY <1>11 DEF SlowpathUnlock, callVars, countVars, counterVars
<1>12. CASE mntput_queue_cleanup(t)
  BY <1>12 DEF mntput_queue_cleanup, callVars, countVars, counterVars
<1>13. CASE cleanup_mnt(t)
  BY <1>13 DEF cleanup_mnt, callVars, countVars, counterVars
<1>14. CASE CleanupGp(t)
  BY <1>14 DEF CleanupGp, synchronize_rcu, callVars, countVars, counterVars
<1>15. CASE free_vfsmnt(t)
  BY <1>15 DEF free_vfsmnt, callVars, countVars, counterVars
<1>16. CASE run_task_work(t)
  BY <1>16 DEF run_task_work, countVars, counterVars
<1>17. CASE NoTaskWork(t)
  BY <1>17 DEF NoTaskWork, callVars, countVars, counterVars
<1> QED
  BY <1>1, <1>2, <1>3, <1>4, <1>5, <1>6, <1>7, <1>8, <1>9, <1>10, <1>11,
     <1>12, <1>13, <1>14, <1>15, <1>16, <1>17
     DEF Mntput

(* The holder.                                                             *)
LEMMA HolderSum ==
  ASSUME TypeOK, holder
  PROVE  CounterStep(H) /\ CountStep(H)
<1> USE DEF TypeOK, At, Goto, CounterStep, CountStep, CountPlaces, CountReturns,
            Returns, WorkReturns
<1>1. CASE HolderGet
  <2>1. HELD \in Mounts /\ mnt_inc_count(H, HELD) /\ H # U
    BY <1>1, ConfigAssumption DEF HolderGet, H, U
  <2>2. CounterStep(H)
    BY <2>1
  <2>3. CountStep(H)
    BY <1>1, Tasks DEF HolderGet
  <2> QED
    BY <2>2, <2>3
<1>2. CASE HolderLastPut
  BY <1>2, Tasks, ConfigAssumption DEF HolderLastPut, countVars, counterVars
<1>3. CASE Mntput(H)
  BY <1>3, MntputSum, Tasks
<1> QED
  BY <1>1, <1>2, <1>3 DEF holder

(* The walker.                                                             *)
LEMMA WalkerSum ==
  ASSUME TypeOK, walker
  PROVE  CounterStep(W) /\ CountStep(W)
<1> USE DEF TypeOK, At, Goto, CounterStep, CountStep, CountPlaces, CountReturns,
            Returns, WorkReturns
<1>1. CASE WalkerBegin
  BY <1>1, Tasks DEF WalkerBegin, callVars, countVars, counterVars
<1>2. CASE read_seqbegin
  BY <1>2, Tasks DEF read_seqbegin, callVars, countVars, counterVars
<1>3. CASE WalkerFind
  BY <1>3, Tasks DEF WalkerFind, countVars, counterVars
<1>4. CASE LegitimizeBegin
  BY <1>4, Tasks DEF LegitimizeBegin, callVars, countVars, counterVars
<1>5. CASE LegitimizeInc
  <2>1. cur[W] \in Mounts /\ mnt_inc_count(W, cur[W]) /\ W # U
    BY <1>5, Tasks DEF LegitimizeInc, W, U
  <2>2. CounterStep(W)
    BY <2>1
  <2>3. CountStep(W)
    BY <1>5, Tasks DEF LegitimizeInc
  <2> QED
    BY <2>2, <2>3
<1>6. CASE LegitimizeRetry
  BY <1>6, Tasks DEF LegitimizeRetry, callVars, countVars, counterVars
<1>7. CASE LegitimizeLock
  BY <1>7, Tasks DEF LegitimizeLock, callVars, countVars, counterVars
<1>8. CASE LegitimizeFlags
  BY <1>8, Tasks DEF LegitimizeFlags, counterVars, callVars, countVars
<1>9. CASE LegitimizeUnlock
  BY <1>9, Tasks DEF LegitimizeUnlock, callVars, countVars, counterVars
<1>10. CASE legitimize_mnt
  BY <1>10, Tasks DEF legitimize_mnt, CallMntput, countVars, counterVars
<1>11. CASE LegitimizeRelock
  BY <1>11, Tasks DEF LegitimizeRelock, callVars, countVars, counterVars
<1>12. CASE WalkerFail
  BY <1>12, Tasks
     DEF WalkerFail, WalkerLeaves, callVars, countVars, counterVars
<1>13. CASE WalkerLegit
  BY <1>13, Tasks
     DEF WalkerLegit, WalkerLeaves, callVars, countVars, counterVars
<1>14. CASE WalkerUse
  BY <1>14, Tasks DEF WalkerUse, CallMntput, countVars, counterVars
<1>15. CASE Mntput(W)
  BY <1>15, MntputSum, Tasks
<1> QED
  BY <1>1, <1>2, <1>3, <1>4, <1>5, <1>6, <1>7, <1>8, <1>9, <1>10, <1>11,
     <1>12, <1>13, <1>14, <1>15
     DEF walker

(* The unmounting task.                                                    *)
LEMMA MainSum ==
  ASSUME TypeOK, main
  PROVE  CounterStep(U) /\ CountStep(U)
<1> USE DEF TypeOK, At, Goto, CounterStep, CountStep, CountPlaces, CountReturns,
            Returns, WorkReturns
<1>1. CASE UmountRefused
  BY <1>1, Tasks, Zero
     DEF UmountRefused, DROP_REF, countVars, counterVars, CallMntput
<1>2. CASE UmountAllowed
  BY <1>2, Tasks, Zero DEF UmountAllowed, callVars, countVars, counterVars
<1>3. CASE UmountLock
  BY <1>3, Tasks, Zero DEF UmountLock, callVars, countVars, counterVars
<1>4. CASE do_umount
  BY <1>4, Tasks, Zero
     DEF do_umount, UmountFails, UmountTreeBegin, StartCount, counterVars,
         callVars, countVars
<1>5. CASE propagate_mount_busy
  BY <1>5, Tasks, Zero
     DEF propagate_mount_busy, UmountFails, UmountTreeBegin, counterVars,
         callVars, countVars
<1>6. CASE umount_tree
  BY <1>6, Tasks, Zero DEF umount_tree, callVars, countVars, counterVars
<1>7. CASE umount_mnt
  BY <1>7, Tasks, Zero DEF umount_mnt, callVars, countVars, counterVars
<1>8. CASE UmountDropsCaller
  BY <1>8, Tasks, Zero DEF UmountDropsCaller, callVars, countVars
<1>9. CASE namespace_unlock
  BY <1>9, Tasks, Zero DEF namespace_unlock, callVars, countVars, counterVars
<1>10. CASE UmountEnd
  BY <1>10, Tasks, Zero
     DEF UmountEnd, DROP_REF, callVars, countVars, counterVars, CallMntput
<1>11. CASE kern_unmount_array
  BY <1>11, Tasks, Zero
     DEF kern_unmount_array, mnt_make_shortterm, callVars, countVars,
         counterVars
<1>12. CASE UnmountedLock
  BY <1>12, Tasks, Zero DEF UnmountedLock, callVars, countVars, counterVars
<1>13. CASE UnheldNext
  BY <1>13, Tasks, Zero
     DEF UnheldNext, StartCount, callVars, countVars, counterVars
<1>14. CASE mntput_unheld
  BY <1>14, Tasks, Zero DEF mntput_unheld, callVars, countVars, counterVars
<1>15. CASE UnheldDec
  BY <1>15, Tasks, Zero DEF UnheldDec, callVars, countVars
<1>16. CASE UnheldFinal
  BY <1>16, Tasks, Zero
     DEF UnheldFinal, mntput_final_locked, callVars, countVars, counterVars
<1>17. CASE UnmountedUnlock
  BY <1>17, Tasks, Zero DEF UnmountedUnlock, callVars, countVars, counterVars
<1>18. CASE QueueNext
  BY <1>18, Tasks, Zero DEF QueueNext, countVars, counterVars
<1>19. CASE mntput_unmounted
  BY <1>19, Tasks, Zero DEF mntput_unmounted, callVars, countVars, counterVars
<1>20. CASE HeldGp
  BY <1>20, Tasks, Zero
     DEF HeldGp, synchronize_rcu, callVars, countVars, counterVars
<1>21. CASE HeldNext
  BY <1>21, Tasks, Zero
     DEF HeldNext, CallMntput, callVars, countVars, counterVars
<1>22. CASE HeldEnd
  BY <1>22, Tasks, Zero DEF HeldEnd, callVars, countVars, counterVars
<1>23. CASE Join
  BY <1>23, Tasks, Zero DEF Join, callVars, countVars, counterVars
<1>24. CASE Mntput(U)
  BY <1>24, MntputSum, Tasks
<1> QED
  BY <1>1, <1>2, <1>3, <1>4, <1>5, <1>6, <1>7, <1>8, <1>9, <1>10, <1>11,
     <1>12, <1>13, <1>14, <1>15, <1>16, <1>17, <1>18, <1>19, <1>20, <1>21,
     <1>22, <1>23, <1>24
     DEF main
-----------------------------------------------------------------------------
(* A mount found clear stays clear                                         *)

(* mntput() never gets a reference back.                                   *)
LEMMA PutEntry ==
  ASSUME TypeOK, NEW t \in Threads, Mntput(t), pc[t] \notin BeforeDec
  PROVE  pc'[t] \notin BeforeDec /\ wret'[t] = wret[t]
<1> USE DEF TypeOK, At, Goto, BeforeDec, Returns, WorkReturns, CountReturns
<1>1. CASE MntputBegin(t)
  BY <1>1 DEF MntputBegin, callVars
<1>2. CASE mntput_no_expire(t)
  BY <1>2 DEF mntput_no_expire, callVars
<1>3. CASE MntputFast(t)
  BY <1>3 DEF MntputFast, callVars
<1>4. CASE MntputFastEnd(t)
  BY <1>4 DEF MntputFastEnd, callVars
<1>5. CASE SlowpathLock(t)
  BY <1>5 DEF SlowpathLock, callVars
<1>6. CASE SlowpathDec(t)
  BY <1>6 DEF SlowpathDec, StartCount
<1>7. CASE CountPuts(t)
  BY <1>7 DEF CountPuts, NextCpu, callVars
<1>8. CASE CountGets(t)
  BY <1>8 DEF CountGets, NextCpu, callVars
<1>9. CASE mntput_no_expire_slowpath(t)
  BY <1>9 DEF mntput_no_expire_slowpath, mntput_final_locked, callVars
<1>10. CASE SlowpathRcuUnlock(t)
  BY <1>10 DEF SlowpathRcuUnlock, callVars
<1>11. CASE SlowpathUnlock(t)
  BY <1>11 DEF SlowpathUnlock, callVars
<1>12. CASE mntput_queue_cleanup(t)
  BY <1>12 DEF mntput_queue_cleanup, callVars
<1>13. CASE cleanup_mnt(t)
  BY <1>13 DEF cleanup_mnt, callVars
<1>14. CASE CleanupGp(t)
  BY <1>14 DEF CleanupGp, synchronize_rcu, callVars
<1>15. CASE free_vfsmnt(t)
  BY <1>15 DEF free_vfsmnt, callVars
<1>16. CASE run_task_work(t)
  BY <1>16 DEF run_task_work
<1>17. CASE NoTaskWork(t)
  BY <1>17 DEF NoTaskWork, callVars
<1> QED
  BY <1>1, <1>2, <1>3, <1>4, <1>5, <1>6, <1>7, <1>8, <1>9, <1>10, <1>11,
     <1>12, <1>13, <1>14, <1>15, <1>16, <1>17
     DEF Mntput

(* Where mntput() and what runs after it go.                               *)
LEMMA MntputLabels ==
  ASSUME TypeOK, NEW t \in Threads, Mntput(t), cret[t] = "put_test" \/ pc[t] # "count_gets"
  PROVE  pc'[t] \in PutLabels \cup {ret[t], wret[t]}
<1> USE DEF TypeOK, At, Goto, PutLabels, BeforeDec, AfterDec, CountReturns
<1>1. CASE MntputBegin(t)
  BY <1>1 DEF MntputBegin, countVars
<1>2. CASE mntput_no_expire(t)
  BY <1>2 DEF mntput_no_expire, countVars
<1>3. CASE MntputFast(t)
  BY <1>3 DEF MntputFast, countVars
<1>4. CASE MntputFastEnd(t)
  BY <1>4 DEF MntputFastEnd, countVars
<1>5. CASE SlowpathLock(t)
  BY <1>5 DEF SlowpathLock, countVars
<1>6. CASE SlowpathDec(t)
  BY <1>6 DEF SlowpathDec, StartCount
<1>7. CASE CountPuts(t)
  BY <1>7 DEF CountPuts, NextCpu
<1>8. CASE CountGets(t)
  BY <1>8 DEF CountGets, NextCpu
<1>9. CASE mntput_no_expire_slowpath(t)
  BY <1>9 DEF mntput_no_expire_slowpath, mntput_final_locked, countVars
<1>10. CASE SlowpathRcuUnlock(t)
  BY <1>10 DEF SlowpathRcuUnlock, countVars
<1>11. CASE SlowpathUnlock(t)
  BY <1>11 DEF SlowpathUnlock, countVars
<1>12. CASE mntput_queue_cleanup(t)
  BY <1>12 DEF mntput_queue_cleanup, countVars
<1>13. CASE cleanup_mnt(t)
  BY <1>13 DEF cleanup_mnt, countVars
<1>14. CASE CleanupGp(t)
  BY <1>14 DEF CleanupGp, synchronize_rcu, countVars
<1>15. CASE free_vfsmnt(t)
  BY <1>15 DEF free_vfsmnt, countVars
<1>16. CASE run_task_work(t)
  BY <1>16 DEF run_task_work, countVars
<1>17. CASE NoTaskWork(t)
  BY <1>17 DEF NoTaskWork, countVars
<1> QED
  BY <1>1, <1>2, <1>3, <1>4, <1>5, <1>6, <1>7, <1>8, <1>9, <1>10, <1>11,
     <1>12, <1>13, <1>14, <1>15, <1>16, <1>17
     DEF Mntput

(* A holder without references gets none.                                  *)
LEMMA HolderStaysOut ==
  ASSUME TypeOK, HolderLedger, HolderLedger', holder, NEW m \in Mounts, refs[H][m] = 0
  PROVE  refs'[H][m] = 0
<1>1. CASE m # HELD
  BY <1>1 DEF HolderLedger
<1>2. CASE m = HELD
  <2>1. wret[H] # "h_loop" /\ pc[H] \notin BeforeDec /\ pc[H] # "h_loop"
    BY <1>2 DEF HolderLedger, Bit
  <2>2. Mntput(H)
    BY <2>1 DEF holder, HolderGet, HolderLastPut, At
  <2>3. pc'[H] \notin BeforeDec /\ wret'[H] = wret[H]
    BY <2>1, <2>2, PutEntry, Tasks
  <2> QED
    BY <1>2, <2>1, <2>3 DEF HolderLedger, Bit
<1> QED
  BY <1>1, <1>2

(* The walker comes by a reference it may keep in two ways: the sequence   *)
(* count has not changed, or it looks at the flags under mount_lock.       *)
LEMMA FirmEntry ==
  ASSUME TypeOK, WalkerLedger, walker, pc[W] \notin Firm, pc'[W] \in Firm
  PROVE  \/ pc[W] = "legit_retry" /\ sequence = seq
         \/ pc[W] = "legit_flags" /\ ~Refused(cur[W])
<1> USE Tasks DEF TypeOK, At, Goto, WalkerLedger, Firm, BeforeDec, read_seqretry
<1>1. CASE WalkerBegin
  BY <1>1 DEF WalkerBegin, callVars
<1>2. CASE read_seqbegin
  BY <1>2 DEF read_seqbegin, callVars
<1>3. CASE WalkerFind
  BY <1>3 DEF WalkerFind
<1>4. CASE LegitimizeBegin
  BY <1>4 DEF LegitimizeBegin, callVars
<1>5. CASE LegitimizeInc
  BY <1>5 DEF LegitimizeInc, callVars
<1>6. CASE LegitimizeRetry
  BY <1>6 DEF LegitimizeRetry, callVars
<1>7. CASE LegitimizeLock
  BY <1>7 DEF LegitimizeLock, callVars
<1>8. CASE LegitimizeFlags
  BY <1>8 DEF LegitimizeFlags, callVars
<1>9. CASE LegitimizeUnlock
  BY <1>9 DEF LegitimizeUnlock, callVars
<1>10. CASE legitimize_mnt
  BY <1>10 DEF legitimize_mnt, CallMntput
<1>11. CASE LegitimizeRelock
  BY <1>11 DEF LegitimizeRelock, callVars
<1>12. CASE WalkerFail
  BY <1>12 DEF WalkerFail, WalkerLeaves, callVars
<1>13. CASE WalkerLegit
  BY <1>13 DEF WalkerLegit, WalkerLeaves, callVars
<1>14. CASE WalkerUse
  BY <1>14 DEF WalkerUse, CallMntput
<1>15. CASE Mntput(W)
  <2>1. pc[W] \notin BeforeDec
    OBVIOUS
  <2>2. pc'[W] \notin BeforeDec
    BY <1>15, <2>1, PutEntry
  <2>3. pc'[W] \notin {"legit_drop", "legit_put", "walker_legit", "walker_use"}
    BY <1>15, MntputLabels DEF PutLabels, AfterDec
  <2> QED
    BY <2>2, <2>3
<1> QED
  BY <1>1, <1>2, <1>3, <1>4, <1>5, <1>6, <1>7, <1>8, <1>9, <1>10, <1>11,
     <1>12, <1>13, <1>14, <1>15
     DEF walker

(* While another task has mount_lock, the walker cannot keep a reference:  *)
(* it saw an even sequence count and the count is odd now.                 *)
LEMMA ClearStays ==
  ASSUME Base, Base', [Next]_vars, NEW t \in Threads, lock_owner = t,
         NEW m \in Mounts, Clear(m), ~(pc[W] = "legit_flags" /\ t = W)
  PROVE  Clear(m)'
<1>1. /\ TypeOK /\ HolderLedger /\ HolderLedger' /\ WalkerLedger /\ LockProtocol
  BY DEF Base, Ledger, TypeInv
<1>2. sequence % 2 # 0 /\ seq % 2 = 0
  BY <1>1 DEF LockProtocol, WalkerLedger, Threads, U, H, W, Nobody
<1>3. pc[W] = "legit_flags" => t = W
  BY <1>1, Tasks DEF LockProtocol, LockedLabels
<1>4. CASE main
  <2>1. Frame(U) /\ H \in Threads \ {U} /\ W \in Threads \ {U}
    BY <1>1, <1>4, MainFrame DEF Threads, U, H, W
  <2> QED
    BY <2>1 DEF Frame, Clear
<1>5. CASE holder
  <2>1. Frame(H) /\ W \in Threads \ {H}
    BY <1>1, <1>5, HolderFrame DEF Threads, U, H, W
  <2>2. refs'[H][m] = 0
    BY <1>1, <1>5, HolderStaysOut DEF Clear
  <2> QED
    BY <2>1, <2>2 DEF Frame, Clear
<1>6. CASE walker
  <2>1. Frame(W) /\ H \in Threads \ {W}
    BY <1>1, <1>6, WalkerFrame DEF Threads, U, H, W
  <2>2. m = WALK => pc'[W] \notin Firm
    BY <1>1, <1>2, <1>3, <1>6, FirmEntry DEF Clear
  <2> QED
    BY <2>1, <2>2 DEF Frame, Clear
<1>7. CASE Finished \/ UNCHANGED vars
  BY <1>7 DEF Finished, vars, counterVars, Clear
<1> QED
  BY <1>4, <1>5, <1>6, <1>7 DEF Next
-----------------------------------------------------------------------------
(* The counters and the ledger stay in balance                             *)

(* S2 is S with increments: no sum and no difference of sums is smaller.   *)
Grows(S, S2) ==
    /\ S2 \in [Mounts -> [Steps -> Nat]]
    /\ \A m \in Mounts, i \in Steps :
         /\ S2[m][i] >= S[m][i]
         /\ S2[m][NCPU] - S2[m][i] >= S[m][NCPU] - S[m][i]

(* A bumped sum has only grown.                                            *)
LEMMA BumpIsGrowth ==
  ASSUME NEW S \in [Mounts -> [Steps -> Nat]], NEW m \in Mounts, NEW c \in CPUs
  PROVE  Grows(S, Bump(S, m, c))
<1> DEFINE B == Bump(S, m, c)
<1>1. B \in [Mounts -> [Steps -> Nat]]
  <2>1. [i \in Steps |-> IF i > c THEN S[m][i] + 1 ELSE S[m][i]] \in [Steps -> Nat]
    OBVIOUS
  <2> QED
    BY <2>1 DEF Bump
<1>2. ASSUME NEW n \in Mounts, NEW i \in Steps
      PROVE  B[n][i] >= S[n][i] /\ B[n][NCPU] - B[n][i] >= S[n][NCPU] - S[n][i]
  <2>1. /\ NCPU \in Steps /\ NCPU > c /\ i \in Int /\ c \in Int
        /\ S[n][i] \in Nat /\ S[n][NCPU] \in Nat
    BY StepsRange
  <2>2. /\ B[n][i] = IF n = m /\ i > c THEN S[n][i] + 1 ELSE S[n][i]
        /\ B[n][NCPU] = IF n = m /\ NCPU > c THEN S[n][NCPU] + 1 ELSE S[n][NCPU]
    BY <2>1, BumpGrows
  <2> HIDE DEF B
  <2> QED
    BY <2>1, <2>2
<1> QED
  BY <1>1, <1>2 DEF Grows

(* Sums move only where counters do.                                       *)
Carried(S, S2, count, count2) ==
    \A m \in Mounts : count2[m] = count[m] => S2[m] = S[m]

(* Adding up the three ledgers.                                            *)
Refs(m) == refs[U][m] + refs[H][m] + refs[W][m]

(* A get or a put moves the references of one task and one mount.          *)
LEMMA RefsMove ==
  ASSUME TypeOK, NEW t \in Threads, NEW m \in Mounts, NEW d \in {-1, 1},
         \A s \in Threads \ {t} : refs'[s] = refs[s],
         \A n \in Mounts : refs'[t][n] = IF n = m THEN refs[t][n] + d ELSE refs[t][n]
  PROVE  \A n \in Mounts : Refs(n)' = IF n = m THEN Refs(n) + d ELSE Refs(n)
<1>1. \A s \in Threads, n \in Mounts : refs[s][n] \in Int
  BY DEF TypeOK
<1>2. CASE t = U
  BY <1>1, <1>2 DEF Refs, Threads, U, H, W
<1>3. CASE t = H
  BY <1>1, <1>3 DEF Refs, Threads, U, H, W
<1>4. CASE t = W
  BY <1>1, <1>4 DEF Refs, Threads, U, H, W
<1> QED
  BY <1>2, <1>3, <1>4 DEF Threads

(* this_cpu_inc() of either counter on behalf of t.                        *)
LEMMA DecCounters ==
  ASSUME TypeOK, NEW t \in Threads, NEW m \in Mounts, mnt_dec_count(t, m)
  PROVE  /\ mnt_puts' = [mnt_puts EXCEPT ![m][this_cpu[t]] = @ + 1]
         /\ mnt_gets' = mnt_gets
         /\ mnt_puts'[m] # mnt_puts[m]
         /\ this_cpu[t] \in CPUs
<1>1. /\ this_cpu[t] \in CPUs /\ mnt_puts[m] \in [CPUs -> Nat]
      /\ mnt_puts \in [Mounts -> [CPUs -> Nat]]
  BY DEF TypeOK
<1>2. /\ mnt_puts' = [mnt_puts EXCEPT ![m][this_cpu[t]] = @ + 1]
      /\ mnt_gets' = mnt_gets
  BY DEF mnt_dec_count, percpu_add
<1>3. mnt_puts'[m][this_cpu[t]] # mnt_puts[m][this_cpu[t]]
  BY <1>1, <1>2
<1> QED
  BY <1>1, <1>2, <1>3

(* mnt_inc_count() moves the counters and nothing else of the sums.        *)
LEMMA IncCounters ==
  ASSUME TypeOK, NEW t \in Threads, NEW m \in Mounts, mnt_inc_count(t, m)
  PROVE  /\ mnt_gets' = [mnt_gets EXCEPT ![m][this_cpu[t]] = @ + 1]
         /\ mnt_puts' = mnt_puts
         /\ mnt_gets'[m] # mnt_gets[m]
         /\ this_cpu[t] \in CPUs
<1>1. /\ this_cpu[t] \in CPUs /\ mnt_gets[m] \in [CPUs -> Nat]
      /\ mnt_gets \in [Mounts -> [CPUs -> Nat]]
  BY DEF TypeOK
<1>2. /\ mnt_gets' = [mnt_gets EXCEPT ![m][this_cpu[t]] = @ + 1]
      /\ mnt_puts' = mnt_puts
  BY DEF mnt_inc_count, percpu_add
<1>3. mnt_gets'[m][this_cpu[t]] # mnt_gets[m][this_cpu[t]]
  BY <1>1, <1>2
<1> QED
  BY <1>1, <1>2, <1>3

(* Every step has new sums that are in balance with the ledger again.      *)
LEMMA Rebalance ==
  ASSUME TypeOK, NEW t \in Threads, CounterStep(t), NEW G, NEW P, Balanced(G, P)
  PROVE  \E G2, P2 : /\ Balanced(G2, P2)'
                     /\ Grows(G, G2) /\ Grows(P, P2)
                     /\ Carried(G, G2, mnt_gets, mnt_gets')
                     /\ Carried(P, P2, mnt_puts, mnt_puts')
                     /\ UNCHANGED counterVars => G2 = G /\ P2 = P
<1>1. /\ G \in [Mounts -> [Steps -> Nat]] /\ P \in [Mounts -> [Steps -> Nat]]
      /\ mnt_gets \in [Mounts -> [CPUs -> Nat]] /\ mnt_puts \in [Mounts -> [CPUs -> Nat]]
      /\ \A m \in Mounts : G[m][NCPU] - P[m][NCPU] = Refs(m)
      /\ IsPrefixSum(G, mnt_gets) /\ IsPrefixSum(P, mnt_puts)
  BY DEF Balanced, IsPrefixSum, TypeOK, Refs
<1>2. Grows(G, G) /\ Grows(P, P)
  BY <1>1, StepsRange DEF Grows
<1>3. \A m \in Mounts : G[m][NCPU] \in Nat /\ P[m][NCPU] \in Nat /\ Refs(m) \in Int
  BY <1>1, StepsRange
<1>4. CASE UNCHANGED counterVars
  <2>1. Balanced(G, P)'
    BY <1>4 DEF Balanced, counterVars
  <2> QED
    BY <1>2, <1>4, <2>1 DEF Carried
<1>5. CASE \E m \in Mounts : mnt_dec_count(t, m)
  <2>1. PICK m \in Mounts : mnt_dec_count(t, m)
    BY <1>5
  <2>2. PICK c : c = this_cpu[t]
    OBVIOUS
  <2>3. PICK P2 : P2 = Bump(P, m, c)
    OBVIOUS
  <2>4. /\ mnt_puts' = [mnt_puts EXCEPT ![m][c] = @ + 1] /\ mnt_gets' = mnt_gets
        /\ mnt_puts'[m] # mnt_puts[m] /\ c \in CPUs
    BY <2>1, <2>2, DecCounters
  <2>5. IsPrefixSum(P2, mnt_puts')
    BY <1>1, <2>4, <2>3, BumpSum
  <2>6. IsPrefixSum(G, mnt_gets')
    BY <1>1, <2>4
  <2>7. Grows(P, P2)
    BY <1>1, <2>4, <2>3, BumpIsGrowth
  <2>8. /\ \A n \in Mounts, i \in Steps :
             P2[n][i] = IF n = m /\ i > c THEN P[n][i] + 1 ELSE P[n][i]
        /\ \A n \in Mounts \ {m} : P2[n] = P[n]
    <3>1. P \in [Mounts -> [Steps -> Nat]] /\ c \in CPUs
      BY <1>1, <2>4
    <3> QED
      BY <2>3, <3>1, BumpGrows
  <2>9. \A n \in Mounts : P2[n][NCPU] = IF n = m THEN P[n][NCPU] + 1 ELSE P[n][NCPU]
    <3>1. NCPU \in Steps /\ NCPU > c
      BY <2>4, StepsRange
    <3> QED
      BY <2>8, <3>1
  <2>10. \A n \in Mounts : Refs(n)' = IF n = m THEN Refs(n) + (-1) ELSE Refs(n)
    BY <2>1, DecRefs, RefsMove
  <2>11. \A n \in Mounts : G[n][NCPU] - P2[n][NCPU] = Refs(n)'
    BY <1>1, <1>3, <2>9, <2>10
  <2>12. Carried(P, P2, mnt_puts, mnt_puts')
    BY <2>4, <2>8 DEF Carried
  <2>13. Carried(G, G, mnt_gets, mnt_gets') /\ ~UNCHANGED counterVars
    BY <2>4 DEF Carried, counterVars
  <2>14. Balanced(G, P2)'
    BY <2>5, <2>6, <2>11 DEF Balanced, Refs
  <2> QED
    BY <1>2, <2>7, <2>12, <2>13, <2>14
<1>6. CASE \E m \in Mounts : mnt_inc_count(t, m)
  <2>1. PICK m \in Mounts : mnt_inc_count(t, m)
    BY <1>6
  <2>2. PICK c : c = this_cpu[t]
    OBVIOUS
  <2>3. PICK G2 : G2 = Bump(G, m, c)
    OBVIOUS
  <2>4. /\ mnt_gets' = [mnt_gets EXCEPT ![m][c] = @ + 1] /\ mnt_puts' = mnt_puts
        /\ mnt_gets'[m] # mnt_gets[m] /\ c \in CPUs
    BY <2>1, <2>2, IncCounters
  <2>5. IsPrefixSum(G2, mnt_gets')
    BY <1>1, <2>4, <2>3, BumpSum
  <2>6. IsPrefixSum(P, mnt_puts')
    BY <1>1, <2>4
  <2>7. Grows(G, G2)
    BY <1>1, <2>4, <2>3, BumpIsGrowth
  <2>8. /\ \A n \in Mounts, i \in Steps :
             G2[n][i] = IF n = m /\ i > c THEN G[n][i] + 1 ELSE G[n][i]
        /\ \A n \in Mounts \ {m} : G2[n] = G[n]
    <3>1. G \in [Mounts -> [Steps -> Nat]] /\ c \in CPUs
      BY <1>1, <2>4
    <3> QED
      BY <2>3, <3>1, BumpGrows
  <2>9. \A n \in Mounts : G2[n][NCPU] = IF n = m THEN G[n][NCPU] + 1 ELSE G[n][NCPU]
    <3>1. NCPU \in Steps /\ NCPU > c
      BY <2>4, StepsRange
    <3> QED
      BY <2>8, <3>1
  <2>10. \A n \in Mounts : Refs(n)' = IF n = m THEN Refs(n) + 1 ELSE Refs(n)
    BY <2>1, IncRefs, RefsMove
  <2>11. \A n \in Mounts : G2[n][NCPU] - P[n][NCPU] = Refs(n)'
    BY <1>1, <1>3, <2>9, <2>10
  <2>12. Carried(G, G2, mnt_gets, mnt_gets')
    BY <2>4, <2>8 DEF Carried
  <2>13. Carried(P, P, mnt_puts, mnt_puts') /\ ~UNCHANGED counterVars
    BY <2>4 DEF Carried, counterVars
  <2>14. Balanced(G2, P)'
    BY <2>5, <2>6, <2>11 DEF Balanced, Refs
  <2> QED
    BY <1>2, <2>7, <2>12, <2>13, <2>14
<1> QED
  BY <1>4, <1>5, <1>6 DEF CounterStep

-----------------------------------------------------------------------------
(* The count stays right                                                   *)

(* No task has a negative number of references, and a firm one counts.     *)
LEMMA LedgerBounds ==
  ASSUME Ledger
  PROVE  /\ \A t \in Threads, m \in Mounts : refs[t][m] \in Nat
         /\ pc[W] \in Firm => refs[W][WALK] = 1
<1>1. \A m \in Mounts : refs[H][m] \in Nat
  BY DEF Ledger, HolderLedger, Bit
<1>2. \A m \in Mounts : refs[W][m] \in Nat
  BY DEF Ledger, WalkerLedger, Bit
<1>3. \A m \in Mounts : refs[U][m] \in Nat
  BY DEF Ledger, UmountInv, UmountLedger, Bit
<1>4. pc[W] \in Firm => refs[W][WALK] = 1
  BY ConfigAssumption DEF Ledger, WalkerLedger, WalkerHas, Bit
<1> QED
  BY <1>1, <1>2, <1>3, <1>4 DEF Threads

(* U counts only mounts it has the expected references to.                 *)
LEMMA OwnExpected ==
  ASSUME Base, NEW t \in Threads, Counting(t)
  PROVE  refs[U][cur[t]] >= Expected(t)
<1>1. cur[t] \in Mounts /\ cret[t] \in CountReturns
  BY DEF Base, TypeInv, TypeOK
<1>2. refs[U][cur[t]] \in Nat
  BY <1>1, LedgerBounds, Tasks DEF Base
<1>3. t # U => cret[t] = "put_test"
  BY DEF Base, Ledger, HolderLedger, WalkerLedger, Threads
<1>4. CASE cret[t] = "put_test"
  BY <1>2, <1>4 DEF Expected
<1>5. CASE cret[t] = "unheld_test"
  <2>1. t = U /\ OnWayTo(U, "unheld_test") /\ Peek /\ pc[U] # "unheld_final"
    BY <1>3, <1>5 DEF OnWayTo, Peek, Counting
  <2>2. k \in Mounts /\ cur[U] = INSERTED(k)
    BY <2>1 DEF Base, Ledger, UmountInv, Lists
  <2>3. k \in Int
    BY DEF Base, TypeInv, TypeOK
  <2>4. cur[U] \in head /\ ~fast_final[cur[U]]
    BY <2>1, <2>2, <2>3 DEF Base, Ledger, UmountInv, Lists
  <2>5. OwnRef(cur[U])
    BY <2>1, <2>4 DEF OwnRef
  <2>6. refs[U][cur[U]] = 1 + Bit(CallerRef(cur[U]))
    BY <1>1, <2>1, <2>5 DEF Base, Ledger, UmountInv, UmountLedger, Bit
  <2> QED
    BY <1>5, <2>1, <2>6 DEF Expected, Bit
<1>6. CASE cret[t] = "busy_test"
  <2>1. t = U /\ OnWayTo(U, "busy_test") /\ Early
    BY <1>3, <1>6 DEF OnWayTo, Early, Counting
  <2>2. SHAPE = "sync" /\ cur[U] = 0 /\ head = {} /\ CallerHas
    BY <2>1 DEF Base, Ledger, UmountInv, Phases, Lists, CallerHas
  <2>3. OwnRef(0) /\ CallerRef(0)
    BY <2>1, <2>2 DEF OwnRef, CallerRef
  <2>4. refs[U][0] = 2
    BY <2>3, Zero DEF Base, Ledger, UmountInv, UmountLedger, Bit
  <2> QED
    BY <1>6, <2>1, <2>2, <2>4 DEF Expected
<1> QED
  BY <1>1, <1>4, <1>5, <1>6 DEF CountReturns

(* The references U has only get fewer.                                    *)
LEMMA UmountDown ==
  ASSUME TypeOK, [Next]_vars, NEW m \in Mounts
  PROVE  refs'[U][m] <= refs[U][m] /\ refs[U][m] \in Int
<1>1. refs[U][m] \in Int
  BY Tasks DEF TypeOK
<1>2. CASE main
  <2>1. CounterStep(U)
    BY <1>2, MainSum
  <2>2. CASE UNCHANGED counterVars
    BY <1>1, <2>2 DEF counterVars
  <2>3. CASE \E n \in Mounts : mnt_dec_count(U, n)
    BY <1>1, <2>3, DecRefs, Tasks
  <2> QED
    BY <2>1, <2>2, <2>3 DEF CounterStep
<1>3. CASE holder
  <2>1. Frame(H) /\ U \in Threads \ {H}
    BY <1>3, HolderFrame DEF Threads, U, H, W
  <2> QED
    BY <1>1, <2>1 DEF Frame
<1>4. CASE walker
  <2>1. Frame(W) /\ U \in Threads \ {W}
    BY <1>4, WalkerFrame DEF Threads, U, H, W
  <2> QED
    BY <1>1, <2>1 DEF Frame
<1>5. CASE Finished \/ UNCHANGED vars
  BY <1>1, <1>5 DEF Finished, vars, counterVars
<1> QED
  BY <1>2, <1>3, <1>4, <1>5 DEF Next

(* Whoever counts has mount_lock.                                          *)
LEMMA CounterHasLock ==
  ASSUME LockProtocol, NEW t \in Threads, pc[t] \in CountPlaces
  PROVE  lock_owner = t
  BY DEF LockProtocol, CountPlaces, CountReturns, LockedLabels

(* A count under way stays right whatever the other tasks do.              *)
LEMMA CountPassive ==
  ASSUME Base, Base', [Next]_vars, NEW s \in Threads, Frame(s),
         NEW t \in Threads \ {s}, NEW G \in [Mounts -> [Steps -> Nat]], NEW P \in [Mounts -> [Steps -> Nat]],
         NEW G2, NEW P2, Grows(G, G2), Grows(P, P2), CountRight(t, G, P)
  PROVE  CountRight(t, G2, P2)'
<1>1. /\ pc'[t] = pc[t] /\ cur'[t] = cur[t] /\ cret'[t] = cret[t] /\ cpu'[t] = cpu[t]
      /\ puts'[t] = puts[t] /\ gets'[t] = gets[t]
  BY DEF Frame
<1>2. /\ cur[t] \in Mounts /\ cpu[t] \in Steps /\ NCPU \in Steps
      /\ puts[t] \in Nat /\ gets[t] \in Nat /\ TypeOK /\ LockProtocol
  <2>1. TypeOK /\ LockProtocol
    BY DEF Base, TypeInv
  <2>2. cur[t] \in Mounts /\ cpu[t] \in CPUs /\ puts[t] \in Nat /\ gets[t] \in Nat
    BY <2>1 DEF TypeOK
  <2>3. cpu[t] \in Steps /\ NCPU \in Steps
    BY <2>2, CpuSteps
  <2> QED
    BY <2>1, <2>2, <2>3
<1>3. /\ P2[cur[t]][cpu[t]] >= P[cur[t]][cpu[t]]
      /\ P2[cur[t]][cpu[t]] \in Nat /\ P[cur[t]][cpu[t]] \in Nat
  BY <1>2 DEF Grows
<1>4. /\ G2[cur[t]][NCPU] - G2[cur[t]][cpu[t]] >= G[cur[t]][NCPU] - G[cur[t]][cpu[t]]
      /\ G2[cur[t]][NCPU] \in Nat /\ G2[cur[t]][cpu[t]] \in Nat
      /\ G[cur[t]][NCPU] \in Nat /\ G[cur[t]][cpu[t]] \in Nat
  BY <1>2 DEF Grows
<1>5. Outlook(t, G2)' >= Outlook(t, G) /\ Outlook(t, G2)' \in Int /\ Outlook(t, G) \in Int
  BY <1>1, <1>2, <1>4 DEF Outlook, Count
<1>6. Expected(t)' = Expected(t) /\ Expected(t) \in Int
  BY <1>1 DEF Expected
<1>7. pc[t] \in CountPlaces /\ Clear(cur[t]) => Clear(cur[t])'
  <2> SUFFICES ASSUME pc[t] \in CountPlaces, Clear(cur[t])
               PROVE  Clear(cur[t])'
    OBVIOUS
  <2>1. lock_owner = t /\ ~(pc[W] = "legit_flags" /\ t = W)
    BY <1>2, CounterHasLock DEF CountPlaces, CountReturns
  <2>2. PICK m : m = cur[t]
    OBVIOUS
  <2>3. Clear(m)'
    BY <1>2, <2>1, <2>2, ClearStays
  <2> QED
    BY <1>1, <2>2, <2>3 DEF Clear
<1>8. refs[U][cur[t]] <= Expected(t) => refs'[U][cur'[t]] <= Expected(t)'
  <2>1. refs'[U][cur[t]] <= refs[U][cur[t]] /\ refs[U][cur[t]] \in Int
    BY <1>2, UmountDown
  <2>2. TypeOK'
    BY DEF Base, TypeInv
  <2>3. refs'[U][cur[t]] \in Int
    BY <1>2, <2>2, Tasks DEF TypeOK
  <2> QED
    BY <1>1, <1>6, <2>1, <2>3
<1>9. pc'[t] = "count_puts" => puts'[t] <= P2[cur'[t]][cpu'[t]] /\ gets'[t] = 0
  BY <1>1, <1>2, <1>3 DEF CountRight
<1>10. pc'[t] \in CountReturns => cret'[t] = pc'[t]
  BY <1>1 DEF CountRight
<1>11. ASSUME pc'[t] \in {"count_gets"} \cup CountReturns
       PROVE  /\ Outlook(t, G2)' >= 0
              /\ Outlook(t, G2)' <= Expected(t)' =>
                   Clear(cur[t])' /\ refs'[U][cur'[t]] <= Expected(t)'
  <2>1. /\ Outlook(t, G) >= 0 /\ pc[t] \in CountPlaces
        /\ Outlook(t, G) <= Expected(t) =>
              Clear(cur[t]) /\ refs[U][cur[t]] <= Expected(t)
    BY <1>1, <1>11 DEF CountRight, CountPlaces
  <2> QED
    BY <1>5, <1>6, <1>7, <1>8, <2>1
<1> QED
  BY <1>9, <1>10, <1>11 DEF CountRight

(* One more CPU in the pass over the puts, or on to the gets: the first    *)
(* moment at which the count says something.                               *)
LEMMA CountPutsRight ==
  ASSUME Base, Base', NEW t \in Threads, CountPuts(t), NEW G, NEW P,
         Balanced(G, P), CountRight(t, G, P)
  PROVE  CountRight(t, G, P)'
<1>1. TypeOK /\ TypeOK'
  BY DEF Base, TypeInv
<1>2. PICK m, c : m = cur[t] /\ c = cpu[t]
  OBVIOUS
<1>3. /\ m \in Mounts /\ c \in CPUs /\ puts[t] \in Nat /\ gets[t] \in Nat
      /\ mnt_puts[m][c] \in Nat
  BY <1>1, <1>2 DEF TypeOK
<1>4. /\ pc[t] = "count_puts" /\ puts'[t] = puts[t] + mnt_puts[m][c] /\ gets'[t] = gets[t]
      /\ cur'[t] = m /\ cret'[t] = cret[t] /\ refs' = refs
      /\ cpu'[t] = IF c = NCPU - 1 THEN 0 ELSE c + 1
      /\ pc'[t] = IF c = NCPU - 1 THEN "count_gets" ELSE "count_puts"
      /\ \A s \in Threads \ {t} : pc'[s] = pc[s]
  BY <1>1, <1>2 DEF CountPuts, At, NextCpu, Goto, TypeOK, callVars, counterVars
<1>5. /\ c \in Steps /\ c + 1 \in Steps /\ NCPU \in Steps /\ 0 \in Steps /\ c \in Int
      /\ NCPU \in Int
  BY <1>3, StepsRange
<1>6. /\ P[m][c] \in Nat /\ P[m][c + 1] \in Nat /\ P[m][NCPU] \in Nat
      /\ G[m][0] = 0 /\ G[m][NCPU] \in Nat
      /\ P[m][c + 1] = P[m][c] + mnt_puts[m][c]
      /\ G[m][NCPU] - P[m][NCPU] = refs[U][m] + refs[H][m] + refs[W][m]
  BY <1>3, <1>5 DEF Balanced, IsPrefixSum
<1>7. puts[t] <= P[m][c] /\ gets[t] = 0
  BY <1>2, <1>4 DEF CountRight
<1>8. puts'[t] <= P[m][c + 1] /\ puts'[t] \in Nat
  BY <1>3, <1>4, <1>6, <1>7
<1>9. CASE c # NCPU - 1
  <2>1. pc'[t] = "count_puts" /\ cpu'[t] = c + 1
    BY <1>4, <1>9
  <2> QED
    BY <1>4, <1>7, <1>8, <2>1 DEF CountRight, CountReturns
<1>10. CASE c = NCPU - 1
  <2>1. pc'[t] = "count_gets" /\ cpu'[t] = 0 /\ c + 1 = NCPU
    BY <1>4, <1>5, <1>10
  <2>2. Outlook(t, G)' = G[m][NCPU] - puts'[t]
    <3>1. Outlook(t, G)' = gets'[t] - puts'[t] + G[m][NCPU] - G[m][0]
      BY <1>4, <2>1 DEF Outlook, Count
    <3> QED
      BY <1>4, <1>6, <1>7, <1>8, <3>1
  <2>3. /\ refs[U][m] \in Nat /\ refs[H][m] \in Nat /\ refs[W][m] \in Nat
        /\ pc[W] \in Firm => refs[W][WALK] = 1
    BY <1>3, LedgerBounds, Tasks DEF Base
  <2>4. Outlook(t, G)' >= refs[U][m] + refs[H][m] + refs[W][m] /\ Outlook(t, G)' \in Int
    BY <1>6, <1>8, <2>1, <2>2, <2>3
  <2>5. Expected(t)' = Expected(t) /\ Expected(t) \in Nat
    BY <1>4 DEF Expected
  <2>6. refs[U][m] >= Expected(t)
    BY <1>2, <1>4, OwnExpected DEF Counting
  <2>7. ASSUME Outlook(t, G)' <= Expected(t)'
        PROVE  Clear(cur[t])' /\ refs'[U][cur'[t]] <= Expected(t)'
    <3>1. refs[H][m] = 0 /\ refs[W][m] = 0 /\ refs[U][m] <= Expected(t)
      BY <2>3, <2>4, <2>5, <2>6, <2>7
    <3>2. ~(m = WALK /\ pc[W] \in Firm)
      BY <2>3, <3>1
    <3>3. pc'[W] \in Firm => pc[W] \in Firm
      BY <1>4, <2>1, Tasks DEF Firm, BeforeDec
    <3> QED
      BY <1>4, <2>5, <3>1, <3>2, <3>3 DEF Clear
  <2>8. Outlook(t, G)' >= 0
    BY <2>3, <2>4
  <2> QED
    BY <2>1, <2>7, <2>8 DEF CountRight, CountReturns
<1> QED
  BY <1>9, <1>10

(* One more CPU in the pass over the gets: what the count will be does not *)
(* change.                                                                 *)
LEMMA CountGetsRight ==
  ASSUME Base, Base', NEW t \in Threads, CountGets(t), NEW G, NEW P,
         Balanced(G, P), CountRight(t, G, P)
  PROVE  CountRight(t, G, P)' /\ Outlook(t, G)' = Outlook(t, G)
<1>1. TypeOK /\ TypeOK'
  BY DEF Base, TypeInv
<1>2. PICK m, c : m = cur[t] /\ c = cpu[t]
  OBVIOUS
<1>3. /\ m \in Mounts /\ c \in CPUs /\ puts[t] \in Nat /\ gets[t] \in Nat
      /\ mnt_gets[m][c] \in Nat /\ cret[t] \in CountReturns
  BY <1>1, <1>2 DEF TypeOK
<1>4. /\ pc[t] = "count_gets" /\ gets'[t] = gets[t] + mnt_gets[m][c] /\ puts'[t] = puts[t]
      /\ cur'[t] = m /\ cret'[t] = cret[t] /\ refs' = refs
      /\ cpu'[t] = IF c = NCPU - 1 THEN 0 ELSE c + 1
      /\ pc'[t] = IF c = NCPU - 1 THEN cret[t] ELSE "count_gets"
      /\ \A s \in Threads \ {t} : pc'[s] = pc[s]
  BY <1>1, <1>2 DEF CountGets, At, NextCpu, Goto, TypeOK, callVars, counterVars
<1>5. /\ c \in Steps /\ c + 1 \in Steps /\ NCPU \in Steps /\ c \in Int /\ NCPU \in Int
  BY <1>3, StepsRange
<1>6. /\ G[m][c] \in Nat /\ G[m][c + 1] \in Nat /\ G[m][NCPU] \in Nat
      /\ G[m][c + 1] = G[m][c] + mnt_gets[m][c]
  BY <1>3, <1>5 DEF Balanced, IsPrefixSum
<1>7. Outlook(t, G) = gets[t] - puts[t] + G[m][NCPU] - G[m][c]
  BY <1>2, <1>4 DEF Outlook, Count
<1>8. Outlook(t, G)' = Outlook(t, G)
  <2>1. CASE c # NCPU - 1
    <3>1. Outlook(t, G)' = gets'[t] - puts[t] + G[m][NCPU] - G[m][c + 1]
      BY <1>4, <2>1 DEF Outlook, Count
    <3> QED
      BY <1>3, <1>4, <1>6, <1>7, <3>1
  <2>2. CASE c = NCPU - 1
    <3>1. Outlook(t, G)' = gets'[t] - puts[t]
      BY <1>3, <1>4, <2>2 DEF Outlook, Count, CountReturns
    <3>2. c + 1 = NCPU
      BY <1>5, <2>2
    <3> QED
      BY <1>3, <1>4, <1>6, <1>7, <3>1, <3>2
  <2> QED
    BY <2>1, <2>2
<1>9. Expected(t)' = Expected(t)
  BY <1>4 DEF Expected
<1>10. Clear(m) => Clear(m)'
  <2>1. pc'[W] \in Firm => pc[W] \in Firm
    BY <1>3, <1>4, Tasks DEF Firm, BeforeDec, CountReturns
  <2> QED
    BY <1>4, <2>1 DEF Clear
<1>11. /\ Outlook(t, G) >= 0
       /\ Outlook(t, G) <= Expected(t) => Clear(m) /\ refs[U][m] <= Expected(t)
  BY <1>2, <1>4 DEF CountRight
<1>12. Clear(cur[t])' <=> Clear(m)'
  BY <1>4 DEF Clear
<1>13. /\ Outlook(t, G)' >= 0
       /\ Outlook(t, G)' <= Expected(t)' => Clear(cur[t])' /\ refs'[U][cur'[t]] <= Expected(t)'
  BY <1>4, <1>8, <1>9, <1>10, <1>11, <1>12
<1>14. pc'[t] # "count_puts" /\ (pc'[t] \in CountReturns => cret'[t] = pc'[t])
  BY <1>3, <1>4 DEF CountReturns
<1> QED
  BY <1>8, <1>13, <1>14 DEF CountRight

(* A count that begins, goes on or ends is right.                          *)
LEMMA CountActive ==
  ASSUME Base, Base', NEW t \in Threads, CountStep(t),
         NEW G, NEW P, Balanced(G, P), CountRight(t, G, P),
         NEW G2, NEW P2, Balanced(G2, P2)', UNCHANGED counterVars => G2 = G /\ P2 = P
  PROVE  CountRight(t, G2, P2)'
<1>1. CASE pc'[t] \notin CountPlaces
  BY <1>1 DEF CountRight, CountPlaces
<1>2. CASE pc'[t] = "count_puts" /\ cpu'[t] = 0 /\ puts'[t] = 0 /\ gets'[t] = 0
  <2>1. TypeOK'
    BY DEF Base, TypeInv
  <2>2. cur'[t] \in Mounts
    BY <2>1 DEF TypeOK
  <2>3. P2[cur'[t]][0] = 0
    BY <2>2 DEF Balanced, IsPrefixSum
  <2> QED
    BY <1>2, <2>3 DEF CountRight, CountReturns
<1>3. CASE CountPuts(t)
  <2>1. G2 = G /\ P2 = P
    BY <1>3 DEF CountPuts
  <2> QED
    BY <1>3, <2>1, CountPutsRight
<1>4. CASE CountGets(t)
  <2>1. G2 = G /\ P2 = P
    BY <1>4 DEF CountGets
  <2> QED
    BY <1>4, <2>1, CountGetsRight
<1> QED
  BY <1>1, <1>2, <1>3, <1>4 DEF CountStep

-----------------------------------------------------------------------------
(* The counts of all tasks                                                 *)

(* How the sums G2, P2 after a step follow from G, P before it.            *)
Follows(G, P, G2, P2) ==
    /\ Carried(G, G2, mnt_gets, mnt_gets') /\ Carried(P, P2, mnt_puts, mnt_puts')
    /\ UNCHANGED counterVars => G2 = G /\ P2 = P

(* A step of one task.                                                     *)
LEMMA TaskSums ==
  ASSUME Base, Base', [Next]_vars, NEW t \in Threads, Frame(t), CounterStep(t), CountStep(t),
         NEW G, NEW P, Summed(G, P)
  PROVE  \E G2, P2 : Summed(G2, P2)' /\ Follows(G, P, G2, P2)
<1>1. TypeOK /\ Balanced(G, P)
  BY DEF Base, TypeInv, Summed
<1>2. PICK G2, P2 : /\ Balanced(G2, P2)'
                    /\ Grows(G, G2) /\ Grows(P, P2)
                    /\ Carried(G, G2, mnt_gets, mnt_gets')
                    /\ Carried(P, P2, mnt_puts, mnt_puts')
                    /\ UNCHANGED counterVars => G2 = G /\ P2 = P
  BY <1>1, Rebalance
<1>3. CountRight(t, G2, P2)'
  BY <1>1, <1>2, CountActive DEF Summed
<1>4. ASSUME NEW s \in Threads \ {t}
      PROVE  CountRight(s, G2, P2)'
  <2>1. G \in [Mounts -> [Steps -> Nat]] /\ P \in [Mounts -> [Steps -> Nat]]
    BY <1>1 DEF Balanced, IsPrefixSum
  <2>2. CountRight(s, G, P)
    BY DEF Summed
  <2> QED
    BY <1>2, <2>1, <2>2, CountPassive
<1>5. \A s \in Threads : CountRight(s, G2, P2)'
  BY <1>3, <1>4
<1>6. Summed(G2, P2)'
  BY <1>2, <1>5 DEF Summed
<1> QED
  BY <1>2, <1>6 DEF Follows

(* Every step.                                                             *)
LEMMA SumsStep ==
  ASSUME Base, Base', [Next]_vars, NEW G, NEW P, Summed(G, P)
  PROVE  \E G2, P2 : Summed(G2, P2)' /\ Follows(G, P, G2, P2)
<1>1. TypeOK /\ HolderLedger /\ WalkerLedger
  BY DEF Base, TypeInv, Ledger
<1>2. CASE main
  <2>1. Frame(U) /\ CounterStep(U) /\ CountStep(U)
    BY <1>1, <1>2, MainFrame, MainSum
  <2> QED
    BY <2>1, TaskSums, Tasks
<1>3. CASE holder
  <2>1. Frame(H) /\ CounterStep(H) /\ CountStep(H)
    BY <1>1, <1>3, HolderFrame, HolderSum
  <2> QED
    BY <2>1, TaskSums, Tasks
<1>4. CASE walker
  <2>1. Frame(W) /\ CounterStep(W) /\ CountStep(W)
    BY <1>1, <1>4, WalkerFrame, WalkerSum
  <2> QED
    BY <2>1, TaskSums, Tasks
<1>5. CASE Finished \/ UNCHANGED vars
  <2>1. UNCHANGED vars
    BY <1>5 DEF Finished
  <2>2. Summed(G, P)'
    BY <2>1 DEF vars, counterVars, callVars, countVars, Summed, Balanced, CountRight,
                Outlook, Count, Expected, Clear
  <2> QED
    BY <2>1, <2>2 DEF Follows, Carried
<1> QED
  BY <1>2, <1>3, <1>4, <1>5 DEF Next

(* The sums stay right.                                                    *)
LEMMA CountInductive ==
  ASSUME Base, Base', CountInv, [Next]_vars
  PROVE  CountInv'
  BY SumsStep DEF CountInv

(* The sums at the beginning: every mount has its own reference and mount  *)
(* 0 the caller's on CPU 0, HELD the holder's on HCPU.                     *)
LEMMA CountInit ==
  ASSUME Init
  PROVE  CountInv
<1>1. PICK G : G = [m \in Mounts |-> [i \in Steps |->
                     (IF i > 0 THEN 1 ELSE 0)
                   + (IF i > 0 /\ m = 0 /\ SHAPE # "kern" THEN 1 ELSE 0)
                   + (IF i > HCPU /\ m = HELD THEN 1 ELSE 0)]]
  OBVIOUS
<1>2. PICK P : P = [m \in Mounts |-> [i \in Steps |-> 0]]
  OBVIOUS
<1>3. IsPrefixSum(P, mnt_puts)
  <2>1. P \in [Mounts -> [Steps -> Nat]]
    BY <1>2
  <2>2. \A m \in Mounts : P[m][0] = 0
    BY <1>2, StepsRange
  <2>3. ASSUME NEW m \in Mounts, NEW c \in CPUs
        PROVE  P[m][c + 1] = P[m][c] + mnt_puts[m][c]
    <3>1. c \in Steps /\ c + 1 \in Steps
      BY StepsRange
    <3>2. mnt_puts[m][c] = 0
      BY DEF Init, init_mount
    <3> QED
      BY <1>2, <3>1, <3>2
  <2> QED
    BY <2>1, <2>2, <2>3 DEF IsPrefixSum
<1>4. IsPrefixSum(G, mnt_gets)
  <2>1. G \in [Mounts -> [Steps -> Nat]]
    BY <1>1
  <2>2. \A m \in Mounts : G[m][0] = 0
    BY <1>1, StepsRange, ConfigAssumption
  <2>3. ASSUME NEW m \in Mounts, NEW c \in CPUs
        PROVE  G[m][c + 1] = G[m][c] + mnt_gets[m][c]
    <3>1. c \in Steps /\ c + 1 \in Steps /\ c \in Nat /\ HCPU \in Nat
      BY StepsRange, ConfigAssumption
    <3>2. mnt_gets[m][c] = (IF c = 0 THEN 1 ELSE 0)
                         + (IF c = 0 /\ m = 0 /\ SHAPE # "kern" THEN 1 ELSE 0)
                         + (IF c = HCPU /\ m = HELD THEN 1 ELSE 0)
      BY DEF Init, init_mount
    <3>3. G[m][c] = (IF c > 0 THEN 1 ELSE 0)
                  + (IF c > 0 /\ m = 0 /\ SHAPE # "kern" THEN 1 ELSE 0)
                  + (IF c > HCPU /\ m = HELD THEN 1 ELSE 0)
      BY <1>1, <3>1
    <3>4. G[m][c + 1] = (IF c + 1 > 0 THEN 1 ELSE 0)
                  + (IF c + 1 > 0 /\ m = 0 /\ SHAPE # "kern" THEN 1 ELSE 0)
                  + (IF c + 1 > HCPU /\ m = HELD THEN 1 ELSE 0)
      BY <1>1, <3>1
    <3> QED
      BY <3>1, <3>2, <3>3, <3>4
  <2> QED
    BY <2>1, <2>2, <2>3 DEF IsPrefixSum
<1>5. ASSUME NEW m \in Mounts
      PROVE  G[m][NCPU] - P[m][NCPU] = refs[U][m] + refs[H][m] + refs[W][m]
  <2>1. NCPU \in Steps /\ NCPU > 0 /\ NCPU > HCPU
    BY StepsRange, ConfigAssumption
  <2>2. /\ refs[U][m] = IF m = 0 /\ SHAPE # "kern" THEN 2 ELSE 1
        /\ refs[H][m] = IF m = HELD THEN 1 ELSE 0
        /\ refs[W][m] = 0
    BY Tasks DEF Init, init_mount, PerTask, U, H, W
  <2>3. /\ G[m][NCPU] = 1 + (IF m = 0 /\ SHAPE # "kern" THEN 1 ELSE 0)
                          + (IF m = HELD THEN 1 ELSE 0)
        /\ P[m][NCPU] = 0
    BY <1>1, <1>2, <2>1
  <2> QED
    BY <2>2, <2>3
<1>6. \A t \in Threads : CountRight(t, G, P)
  BY DEF Init, InitTasks, PerTask, CountRight, CountReturns, U, H, W
<1> QED
  BY <1>3, <1>4, <1>5, <1>6 DEF CountInv, Summed, Balanced

(* References that are not transient are U's, H's and W's firm ones.       *)
LEMMA ClearRefs ==
  ASSUME Base, NEW m \in Mounts, Clear(m)
  PROVE  RealRefs(m) = refs[U][m] /\ refs[U][m] \in Nat
<1>1. refs[U][m] \in Nat
  BY LedgerBounds, Tasks DEF Base
<1>2. refs[W][m] = 0 \/ transient
  BY DEF Base, Ledger, WalkerLedger, WalkerHas, Tentative, Bit, Clear
<1> QED
  BY <1>1, <1>2 DEF RealRefs, Clear

(* A count that was seen decides rightly.                                  *)
LEMMA CountDecides ==
  ASSUME Base, CountInv
  PROVE  CountIsSound
<1>1. PICK G, P : Summed(G, P)
  BY DEF CountInv
<1>2. ASSUME NEW t \in Threads, pc[t] \in CountReturns
      PROVE  /\ Count(t) >= 0 /\ Count(t) \in Int /\ cret[t] = pc[t] /\ cur[t] \in Mounts
             /\ Count(t) <= Expected(t) =>
                  RealRefs(cur[t]) = refs[U][cur[t]] /\ refs[U][cur[t]] <= Expected(t)
  <2>1. CountRight(t, G, P) /\ TypeOK
    BY <1>1 DEF Summed, Base, TypeInv
  <2>2. cur[t] \in Mounts /\ Count(t) \in Int
    BY <2>1 DEF TypeOK, Count
  <2>3. Outlook(t, G) = Count(t)
    BY <1>2 DEF Outlook, CountReturns
  <2>4. /\ Count(t) >= 0 /\ cret[t] = pc[t]
        /\ Count(t) <= Expected(t) => Clear(cur[t]) /\ refs[U][cur[t]] <= Expected(t)
    BY <1>2, <2>1, <2>3 DEF CountRight
  <2> QED
    BY <2>2, <2>4, ClearRefs
<1>3. \A t \in Threads, m \in Mounts : refs[t][m] \in Nat
  BY LedgerBounds DEF Base
<1>4. ASSUME At(U, "busy_test"), ~do_refcount_check(Count(U))
      PROVE  RealRefs(0) = 2
  <2>1. /\ cur[U] = 0 /\ refs[U][0] = 2
    <3>1. OnWayTo(U, "busy_test") /\ Early
      BY <1>4 DEF OnWayTo, Early, At
    <3>2. SHAPE = "sync" /\ cur[U] = 0 /\ head = {} /\ CallerHas
      BY <3>1 DEF Base, Ledger, UmountInv, Phases, Lists, CallerHas
    <3>3. OwnRef(0) /\ CallerRef(0)
      BY <3>1, <3>2 DEF OwnRef, CallerRef
    <3> QED
      BY <3>2, <3>3, Zero DEF Base, Ledger, UmountInv, UmountLedger, Bit
  <2>2. pc[U] \in CountReturns /\ pc[U] = "busy_test"
    BY <1>4 DEF CountReturns, At
  <2>3. cret[U] = "busy_test" /\ Count(U) \in Int
    BY <1>2, <2>2, Tasks
  <2>4. Count(U) <= Expected(U)
    BY <1>4, <2>3 DEF do_refcount_check, Expected
  <2> QED
    BY <1>2, <2>1, <2>2, <2>4, Tasks
<1>5. ASSUME At(U, "unheld_test"), Unheld(Count(U))
      PROVE  RealRefs(cur[U]) = 1
  <2>1. pc[U] \in CountReturns /\ pc[U] = "unheld_test"
    BY <1>5 DEF CountReturns, At
  <2>2. cret[U] = "unheld_test" /\ cur[U] \in Mounts
    BY <1>2, <2>1, Tasks
  <2>3. Count(U) <= Expected(U) /\ Expected(U) = 1
    BY <1>5, <2>2 DEF Unheld, Expected
  <2>4. RealRefs(cur[U]) = refs[U][cur[U]] /\ refs[U][cur[U]] <= 1
    BY <1>2, <2>1, <2>3, Tasks
  <2>5. refs[U][cur[U]] >= 1
    <3>1. OnWayTo(U, "unheld_test") /\ Peek /\ pc[U] # "unheld_final"
      BY <2>1 DEF OnWayTo, Peek
    <3>2. k \in Mounts /\ cur[U] = INSERTED(k) /\ k \in Int
      BY <3>1 DEF Base, Ledger, UmountInv, Lists, Mounts
    <3>3. cur[U] \in head /\ ~fast_final[cur[U]]
      BY <3>1, <3>2 DEF Base, Ledger, UmountInv, Lists
    <3>4. OwnRef(cur[U])
      BY <3>1, <3>3 DEF OwnRef
    <3> QED
      BY <2>2, <3>4 DEF Base, Ledger, UmountInv, UmountLedger, Bit
  <2> QED
    BY <1>3, <2>2, <2>4, <2>5, Tasks
<1>6. ASSUME NEW t \in Threads, At(t, "put_test")
      PROVE  Count(t) >= 0 /\ (IsLastPut(cur[t], Count(t)) => RealRefs(cur[t]) = 0)
  <2>1. pc[t] \in CountReturns /\ pc[t] = "put_test"
    BY <1>6 DEF CountReturns, At
  <2>2. cret[t] = "put_test" /\ cur[t] \in Mounts /\ Count(t) >= 0
    BY <1>2, <2>1
  <2>3. ASSUME IsLastPut(cur[t], Count(t))
        PROVE  RealRefs(cur[t]) = 0
    <3>1. Count(t) <= Expected(t) /\ Expected(t) = 0
      BY <2>2, <2>3 DEF IsLastPut, Expected
    <3>2. RealRefs(cur[t]) = refs[U][cur[t]] /\ refs[U][cur[t]] <= 0
      BY <1>2, <2>1, <3>1
    <3> QED
      BY <1>3, <2>2, <3>2, Tasks
  <2> QED
    BY <2>2, <2>3
<1> QED
  BY <1>4, <1>5, <1>6 DEF CountIsSound

(* However the two passes of mnt_get_count() interleave with this_cpu_inc()*)
(* on the other CPUs, the three decisions taken on a count are right: for  *)
(* every number of CPUs, batch and shape.                                  *)
THEOREM CountCorrect == Spec => []CountIsSound
<1>1. Init => Base /\ CountInv
  BY BaseInit, CountInit
<1>2. Base /\ CountInv /\ [Next]_vars => (Base /\ CountInv)'
  BY BaseInductive, CountInductive
<1>3. Base /\ CountInv => CountIsSound
  BY CountDecides
<1> QED
  BY <1>1, <1>2, <1>3, PTL DEF Spec
=============================================================================
