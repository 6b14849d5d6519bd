--------------------------- MODULE MountPutSafety ---------------------------
(***************************************************************************)
(* What the right count buys: a doomed mount stays without references, it  *)
(* is cleaned up exactly once by the task that owes it, and no task looks  *)
(* at it after it was freed.  A synchronous umount leaves nothing behind.  *)
(* And every step of the protocol is a step in the life of one mount of    *)
(* MountLife, or none: for every number of CPUs, shape, batch and number   *)
(* of extra references.                                                    *)
(***************************************************************************)
EXTENDS MountPutProofs, MountPutRefinement, FiniteSetTheorems

-----------------------------------------------------------------------------
(* What follows from MNT_DOOMED and MNT_SYNC_UMOUNT                        *)

Sync(m) == "MNT_SYNC_UMOUNT" \in mnt_flags[m]

(* U has not taken m out of the mount hash.                                *)
Attached(m) == SHAPE # "kern" /\ (retval # 0 \/ (Early /\ m \notin head))

(* Nobody gets a reference to m any more: the walkers that found it in the *)
(* hash are in for a retry.                                                *)
Closed(m) ==
    /\ Clear(m)
    /\ m = WALK /\ pc[W] \in {"legit_begin", "legit_inc", "legit_retry"} => seq < sequence
    /\ hashed[m] => pc[U] = "tree_unhash"

DoomInv ==
    /\ \A m \in Mounts :
         /\ hashed[m] => Attached(m)
         /\ Sync(m) \/ Doomed(m) => Closed(m)
         /\ Doomed(m) => refs[U][m] = 0
         /\ Sync(m) => SHAPE = "sync"
         /\ fast_final[m] => Doomed(m)
    /\ \A t \in Threads : OnWayTo(t, "put_test") => ~Doomed(cur[t])
    /\ pc[U] \in {"unheld_dec", "unheld_final"} => Clear(cur[U]) /\ ~Doomed(cur[U])
    /\ SHAPE = "sync" /\ pc[U] = "tree_ns" => Clear(0)

(* What a step of t may do to the flags.                                   *)
DoomStep(t) ==
    /\ \/ \A m \in Mounts : Doomed(m)' <=> Doomed(m)
       \/ mntput_no_expire_slowpath(t)
       \/ t = U /\ UnheldFinal
    /\ (\A m \in Mounts : Sync(m)' <=> Sync(m)) \/ (t = U /\ umount_tree)
    /\ fast_final' = fast_final \/ (t = U /\ UnheldFinal)
    /\ hashed' = hashed \/ (t = U /\ umount_mnt)
    /\ pc[t] = "tree_unhash" => umount_mnt
    /\ OnWayTo(t, "put_test")' =>
         (OnWayTo(t, "put_test") /\ cur'[t] = cur[t]) \/ SlowpathDec(t)
    /\ pc'[t] = "unheld_dec" => mntput_unheld /\ Unheld(Count(U))
    /\ pc'[t] = "unheld_final" => UnheldDec
    /\ pc'[t] = "tree_ns" =>
         \/ propagate_mount_busy /\ ~do_refcount_check(Count(U))
         \/ do_umount /\ SHAPE = "lazy"
         \/ umount_mnt /\ k + 1 # BATCH

(* mntput() dooms in one place.                                            *)
LEMMA MntputDoom ==
  ASSUME TypeOK, NEW t \in Threads, Mntput(t)
  PROVE  DoomStep(t)
<1> USE DEF TypeOK, At, Goto, DoomStep, OnWayTo, Counting, Doomed, Sync,
            Returns, WorkReturns, CountReturns
<1>1. CASE MntputBegin(t)
  BY <1>1
     DEF MntputBegin, callVars, countVars, mountVars, umountVars, historyVars
<1>2. CASE mntput_no_expire(t)
  BY <1>2
     DEF mntput_no_expire, callVars, countVars, mountVars, umountVars,
         historyVars
<1>3. CASE MntputFast(t)
  BY <1>3
     DEF MntputFast, callVars, countVars, mountVars, umountVars, historyVars
<1>4. CASE MntputFastEnd(t)
  BY <1>4
     DEF MntputFastEnd, callVars, countVars, mountVars, umountVars,
         historyVars
<1>5. CASE SlowpathLock(t)
  BY <1>5
     DEF SlowpathLock, callVars, countVars, mountVars, umountVars, historyVars
<1>6. CASE SlowpathDec(t)
  BY <1>6 DEF SlowpathDec, StartCount, mountVars, umountVars, historyVars
<1>7. CASE CountPuts(t)
  BY <1>7 DEF CountPuts, NextCpu, callVars, mountVars, umountVars, historyVars
<1>8. CASE CountGets(t)
  BY <1>8 DEF CountGets, NextCpu, callVars, mountVars, umountVars, historyVars
<1>9. CASE mntput_no_expire_slowpath(t)
  <2>1. /\ \A m \in Mounts : Sync(m)' <=> Sync(m)
        /\ fast_final' = fast_final /\ hashed' = hashed
    <3>1. CASE IsLastPut(cur[t], Count(t))
      <4>1. /\ mnt_flags' = [mnt_flags EXCEPT ![cur[t]] = @ \cup {"MNT_DOOMED"}]
            /\ fast_final' = fast_final /\ hashed' = hashed
        BY <1>9, <3>1 DEF mntput_no_expire_slowpath, mntput_final_locked, historyVars
      <4>2. \A m \in Mounts : mnt_flags'[m] = IF m = cur[t] THEN mnt_flags[m] \cup {"MNT_DOOMED"}
                                                           ELSE mnt_flags[m]
        BY <4>1
      <4> QED
        BY <4>1, <4>2
    <3>2. CASE ~IsLastPut(cur[t], Count(t))
      BY <1>9, <3>2 DEF mntput_no_expire_slowpath, mountVars, historyVars
    <3> QED
      BY <3>1, <3>2
  <2>2. ~OnWayTo(t, "put_test")' /\ pc[t] # "tree_unhash" /\ pc'[t] = "slow_rcu"
    BY <1>9 DEF mntput_no_expire_slowpath
  <2> QED
    BY <1>9, <2>1, <2>2
<1>10. CASE SlowpathRcuUnlock(t)
  BY <1>10
     DEF SlowpathRcuUnlock, callVars, countVars, mountVars, umountVars,
         historyVars
<1>11. CASE SlowpathUnlock(t)
  BY <1>11
     DEF SlowpathUnlock, callVars, countVars, mountVars, umountVars,
         historyVars
<1>12. CASE mntput_queue_cleanup(t)
  BY <1>12
     DEF mntput_queue_cleanup, callVars, countVars, mountVars, umountVars,
         historyVars
<1>13. CASE cleanup_mnt(t)
  BY <1>13 DEF cleanup_mnt, callVars, countVars, mountVars, umountVars
<1>14. CASE CleanupGp(t)
  BY <1>14
     DEF CleanupGp, synchronize_rcu, callVars, countVars, mountVars,
         umountVars, historyVars
<1>15. CASE free_vfsmnt(t)
  BY <1>15 DEF free_vfsmnt, callVars, countVars, mountVars, umountVars
<1>16. CASE run_task_work(t)
  BY <1>16 DEF run_task_work, countVars, mountVars, umountVars, historyVars
<1>17. CASE NoTaskWork(t)
  BY <1>17
     DEF NoTaskWork, callVars, countVars, mountVars, umountVars, historyVars
<1> QED
  BY <1>1, <1>2, <1>3, <1>4, <1>5, <1>6, <1>7, <1>8, <1>9, <1>10, <1>11,
     <1>12, <1>13, <1>14, <1>15, <1>16, <1>17
     DEF Mntput

(* The holder.                                                             *)
LEMMA HolderDoom ==
  ASSUME TypeOK, holder
  PROVE  DoomStep(H)
<1> USE DEF TypeOK, At, Goto, DoomStep, OnWayTo, Counting, Doomed, Sync,
            Returns, WorkReturns, CountReturns
<1>1. CASE HolderGet
  BY <1>1, Tasks DEF HolderGet, countVars, mountVars, umountVars, historyVars
<1>2. CASE HolderLastPut
  BY <1>2, Tasks
     DEF HolderLastPut, countVars, mountVars, umountVars, historyVars
<1>3. CASE Mntput(H)
  BY <1>3, MntputDoom, Tasks
<1> QED
  BY <1>1, <1>2, <1>3 DEF holder

(* The walker.                                                             *)
LEMMA WalkerDoom ==
  ASSUME TypeOK, walker
  PROVE  DoomStep(W)
<1> USE DEF TypeOK, At, Goto, DoomStep, OnWayTo, Counting, Doomed, Sync,
            Returns, WorkReturns, CountReturns
<1>1. CASE WalkerBegin
  BY <1>1, Tasks
     DEF WalkerBegin, callVars, countVars, mountVars, umountVars, historyVars
<1>2. CASE read_seqbegin
  BY <1>2, Tasks
     DEF read_seqbegin, callVars, countVars, mountVars, umountVars,
         historyVars
<1>3. CASE WalkerFind
  BY <1>3, Tasks DEF WalkerFind, countVars, mountVars, umountVars, historyVars
<1>4. CASE LegitimizeBegin
  BY <1>4, Tasks
     DEF LegitimizeBegin, callVars, countVars, mountVars, umountVars,
         historyVars
<1>5. CASE LegitimizeInc
  BY <1>5, Tasks
     DEF LegitimizeInc, callVars, countVars, mountVars, umountVars,
         historyVars
<1>6. CASE LegitimizeRetry
  BY <1>6, Tasks
     DEF LegitimizeRetry, callVars, countVars, mountVars, umountVars,
         historyVars
<1>7. CASE LegitimizeLock
  BY <1>7, Tasks
     DEF LegitimizeLock, callVars, countVars, mountVars, umountVars,
         historyVars
<1>8. CASE LegitimizeFlags
  BY <1>8, Tasks
     DEF LegitimizeFlags, callVars, countVars, mountVars, umountVars,
         historyVars
<1>9. CASE LegitimizeUnlock
  BY <1>9, Tasks
     DEF LegitimizeUnlock, callVars, countVars, mountVars, umountVars,
         historyVars
<1>10. CASE legitimize_mnt
  BY <1>10, Tasks
     DEF legitimize_mnt, CallMntput, countVars, mountVars, umountVars,
         historyVars
<1>11. CASE LegitimizeRelock
  BY <1>11, Tasks
     DEF LegitimizeRelock, callVars, countVars, mountVars, umountVars,
         historyVars
<1>12. CASE WalkerFail
  BY <1>12, Tasks
     DEF WalkerFail, WalkerLeaves, callVars, countVars, mountVars, umountVars,
         historyVars
<1>13. CASE WalkerLegit
  BY <1>13, Tasks
     DEF WalkerLegit, WalkerLeaves, callVars, countVars, mountVars,
         umountVars, historyVars
<1>14. CASE WalkerUse
  BY <1>14, Tasks
     DEF WalkerUse, CallMntput, countVars, mountVars, umountVars, historyVars
<1>15. CASE Mntput(W)
  BY <1>15, MntputDoom, Tasks
<1> QED
  BY <1>1, <1>2, <1>3, <1>4, <1>5, <1>6, <1>7, <1>8, <1>9, <1>10, <1>11,
     <1>12, <1>13, <1>14, <1>15
     DEF walker

(* The unmounting task.                                                    *)
LEMMA MainDoom ==
  ASSUME TypeOK, main
  PROVE  DoomStep(U)
<1> USE DEF TypeOK, At, Goto, DoomStep, OnWayTo, Counting, Doomed, Sync,
            Returns, WorkReturns, CountReturns
<1>1. CASE UmountRefused
  BY <1>1, Tasks
     DEF UmountRefused, DROP_REF, countVars, mountVars, historyVars,
         CallMntput
<1>2. CASE UmountAllowed
  BY <1>2, Tasks
     DEF UmountAllowed, callVars, countVars, mountVars, umountVars,
         historyVars
<1>3. CASE UmountLock
  BY <1>3, Tasks
     DEF UmountLock, callVars, countVars, mountVars, umountVars, historyVars
<1>4. CASE do_umount
  BY <1>4, Tasks
     DEF do_umount, UmountFails, UmountTreeBegin, StartCount, historyVars,
         callVars, countVars
<1>5. CASE propagate_mount_busy
  BY <1>5, Tasks
     DEF propagate_mount_busy, UmountFails, UmountTreeBegin, historyVars,
         callVars, countVars
<1>6. CASE umount_tree
  BY <1>6, Tasks DEF umount_tree, callVars, countVars, umountVars
<1>7. CASE umount_mnt
  BY <1>7, Tasks DEF umount_mnt, callVars, countVars, historyVars
<1>8. CASE UmountDropsCaller
  BY <1>8, Tasks
     DEF UmountDropsCaller, callVars, countVars, mountVars, historyVars
<1>9. CASE namespace_unlock
  BY <1>9, Tasks
     DEF namespace_unlock, callVars, countVars, mountVars, umountVars,
         historyVars
<1>10. CASE UmountEnd
  BY <1>10, Tasks
     DEF UmountEnd, DROP_REF, callVars, countVars, mountVars, historyVars,
         CallMntput
<1>11. CASE kern_unmount_array
  BY <1>11, Tasks
     DEF kern_unmount_array, mnt_make_shortterm, callVars, countVars,
         historyVars
<1>12. CASE UnmountedLock
  BY <1>12, Tasks
     DEF UnmountedLock, callVars, countVars, mountVars, historyVars
<1>13. CASE UnheldNext
  BY <1>13, Tasks
     DEF UnheldNext, StartCount, callVars, countVars, mountVars, historyVars
<1>14. CASE mntput_unheld
  BY <1>14, Tasks
     DEF mntput_unheld, callVars, countVars, mountVars, historyVars
<1>15. CASE UnheldDec
  BY <1>15, Tasks
     DEF UnheldDec, callVars, countVars, mountVars, umountVars, historyVars
<1>16. CASE UnheldFinal
  BY <1>16, Tasks
     DEF UnheldFinal, mntput_final_locked, callVars, countVars
<1>17. CASE UnmountedUnlock
  BY <1>17, Tasks
     DEF UnmountedUnlock, callVars, countVars, mountVars, historyVars
<1>18. CASE QueueNext
  BY <1>18, Tasks DEF QueueNext, countVars, mountVars, historyVars
<1>19. CASE mntput_unmounted
  BY <1>19, Tasks
     DEF mntput_unmounted, callVars, countVars, mountVars, historyVars
<1>20. CASE HeldGp
  BY <1>20, Tasks
     DEF HeldGp, synchronize_rcu, callVars, countVars, mountVars, umountVars,
         historyVars
<1>21. CASE HeldNext
  BY <1>21, Tasks
     DEF HeldNext, CallMntput, callVars, countVars, mountVars, historyVars
<1>22. CASE HeldEnd
  BY <1>22, Tasks
     DEF HeldEnd, callVars, countVars, mountVars, umountVars, historyVars
<1>23. CASE Join
  BY <1>23, Tasks
     DEF Join, callVars, countVars, mountVars, umountVars, historyVars
<1>24. CASE Mntput(U)
  BY <1>24, MntputDoom, Tasks
<1> QED
  BY <1>1, <1>2, <1>3, <1>4, <1>5, <1>6, <1>7, <1>8, <1>9, <1>10, <1>11,
     <1>12, <1>13, <1>14, <1>15, <1>16, <1>17, <1>18, <1>19, <1>20, <1>21,
     <1>22, <1>23, <1>24
     DEF main

(* A count for do_umount() stays one.                                      *)
LEMMA EarlyPut ==
  ASSUME TypeOK, Mntput(U)
  PROVE  Early => Early'
<1> USE Tasks DEF TypeOK, At, Goto, OnWayTo, Counting, Early, Attached, CountReturns
<1>1. CASE MntputBegin(U)
  BY <1>1 DEF MntputBegin, callVars, countVars
<1>2. CASE mntput_no_expire(U)
  BY <1>2 DEF mntput_no_expire, callVars, countVars
<1>3. CASE MntputFast(U)
  BY <1>3 DEF MntputFast, callVars, countVars
<1>4. CASE MntputFastEnd(U)
  BY <1>4 DEF MntputFastEnd, callVars, countVars
<1>5. CASE SlowpathLock(U)
  BY <1>5 DEF SlowpathLock, callVars, countVars
<1>6. CASE SlowpathDec(U)
  BY <1>6 DEF SlowpathDec, StartCount
<1>7. CASE CountPuts(U)
  BY <1>7 DEF CountPuts, NextCpu, callVars
<1>8. CASE CountGets(U)
  BY <1>8 DEF CountGets, NextCpu, callVars
<1>9. CASE mntput_no_expire_slowpath(U)
  BY <1>9 DEF mntput_no_expire_slowpath, callVars, countVars
<1>10. CASE SlowpathRcuUnlock(U)
  BY <1>10 DEF SlowpathRcuUnlock, callVars, countVars
<1>11. CASE SlowpathUnlock(U)
  BY <1>11 DEF SlowpathUnlock, callVars, countVars
<1>12. CASE mntput_queue_cleanup(U)
  BY <1>12 DEF mntput_queue_cleanup, callVars, countVars
<1>13. CASE cleanup_mnt(U)
  BY <1>13 DEF cleanup_mnt, callVars, countVars
<1>14. CASE CleanupGp(U)
  BY <1>14 DEF CleanupGp, synchronize_rcu, callVars, countVars
<1>15. CASE free_vfsmnt(U)
  BY <1>15 DEF free_vfsmnt, callVars, countVars
<1>16. CASE run_task_work(U)
  BY <1>16 DEF run_task_work, countVars
<1>17. CASE NoTaskWork(U)
  BY <1>17 DEF NoTaskWork, callVars, countVars
<1> QED
  BY <1>1, <1>2, <1>3, <1>4, <1>5, <1>6, <1>7, <1>8, <1>9, <1>10, <1>11,
     <1>12, <1>13, <1>14, <1>15, <1>16, <1>17
     DEF Mntput

(* The hash entries U has not got to are those of mounts it has not        *)
(* unmounted.                                                              *)
LEMMA AttachedStep ==
  ASSUME Base, Base', main, NEW m \in Mounts, hashed[m] => Attached(m)
  PROVE  hashed'[m] => Attached(m)'
<1>0. TypeOK /\ Phases /\ Lists /\ Phases' /\ Lists'
  BY DEF Base, TypeInv, Ledger, UmountInv
<1> USE Tasks DEF TypeOK, At, Goto, OnWayTo, Counting, Early, Attached, CountReturns
<1>1. CASE UmountRefused
  BY <1>1, <1>0, ConfigAssumption
     DEF UmountRefused, DROP_REF, CallMntput, mountVars, EPERM
<1>2. CASE UmountAllowed
  BY <1>2, <1>0 DEF UmountAllowed, callVars, countVars, mountVars, umountVars
<1>3. CASE UmountLock
  BY <1>3, <1>0 DEF UmountLock, callVars, countVars, mountVars, umountVars
<1>4. CASE do_umount
  BY <1>4, <1>0, ConfigAssumption
     DEF do_umount, UmountFails, UmountTreeBegin, StartCount, umountVars,
         mountVars, callVars, countVars, EINVAL
<1>5. CASE propagate_mount_busy
  BY <1>5, <1>0, ConfigAssumption
     DEF propagate_mount_busy, UmountFails, UmountTreeBegin, umountVars,
         mountVars, callVars, countVars, EBUSY
<1>6. CASE umount_tree
  BY <1>6, <1>0 DEF umount_tree, callVars, countVars, umountVars
<1>7. CASE umount_mnt
  <2>1. head' = head \cup {k} /\ hashed' = [hashed EXCEPT ![k] = FALSE] /\ retval' = retval
        /\ pc'[U] \in {"tree_ns", "u_dec"}
    BY <1>7, <1>0 DEF umount_mnt
  <2>2. pc'[U] = "u_dec" => head' = Mounts
    BY <1>0 DEF Lists
  <2>3. m = k => ~hashed'[m]
    BY <1>0, <2>1
  <2>4. m # k => (hashed'[m] <=> hashed[m]) /\ (m \in head' <=> m \in head)
    BY <1>0, <2>1
  <2> QED
    BY <2>1, <2>2, <2>3, <2>4
<1>8. CASE UmountDropsCaller
  BY <1>8, <1>0 DEF UmountDropsCaller, callVars, countVars, mountVars
<1>9. CASE namespace_unlock
  BY <1>9, <1>0
     DEF namespace_unlock, callVars, countVars, mountVars, umountVars
<1>10. CASE UmountEnd
  BY <1>10, <1>0
     DEF UmountEnd, DROP_REF, callVars, countVars, mountVars, CallMntput
<1>11. CASE kern_unmount_array
  <2>1. SHAPE = "kern" /\ hashed' = hashed
    BY <1>11, <1>0 DEF kern_unmount_array, Phases
  <2> QED
    BY <2>1
<1>12. CASE UnmountedLock
  BY <1>12, <1>0 DEF UnmountedLock, callVars, countVars, mountVars
<1>13. CASE UnheldNext
  BY <1>13, <1>0 DEF UnheldNext, StartCount, callVars, countVars, mountVars
<1>14. CASE mntput_unheld
  BY <1>14, <1>0 DEF mntput_unheld, callVars, countVars, mountVars
<1>15. CASE UnheldDec
  BY <1>15, <1>0 DEF UnheldDec, callVars, countVars, mountVars, umountVars
<1>16. CASE UnheldFinal
  BY <1>16, <1>0 DEF UnheldFinal, mntput_final_locked, Lists, Peek
<1>17. CASE UnmountedUnlock
  BY <1>17, <1>0 DEF UnmountedUnlock, callVars, countVars, mountVars
<1>18. CASE QueueNext
  BY <1>18, <1>0 DEF QueueNext, countVars, mountVars
<1>19. CASE mntput_unmounted
  BY <1>19, <1>0 DEF mntput_unmounted, callVars, countVars, mountVars
<1>20. CASE HeldGp
  BY <1>20, <1>0
     DEF HeldGp, synchronize_rcu, callVars, countVars, mountVars, umountVars
<1>21. CASE HeldNext
  BY <1>21, <1>0 DEF HeldNext, CallMntput, callVars, countVars, mountVars
<1>22. CASE HeldEnd
  BY <1>22, <1>0 DEF HeldEnd, callVars, countVars, mountVars, umountVars
<1>23. CASE Join
  BY <1>23, <1>0 DEF Join, callVars, countVars, mountVars, umountVars
<1>24. CASE Mntput(U)
  <2>1. UNCHANGED umountOnly
    BY <1>24, <1>0, MntputFrame
  <2>2. Early => Early'
    BY <1>24, <1>0, EarlyPut
  <2> QED
    BY <2>1, <2>2 DEF umountOnly
<1> QED
  BY <1>1, <1>2, <1>3, <1>4, <1>5, <1>6, <1>7, <1>8, <1>9, <1>10, <1>11,
     <1>12, <1>13, <1>14, <1>15, <1>16, <1>17, <1>18, <1>19, <1>20, <1>21,
     <1>22, <1>23, <1>24
     DEF main

(* Every step is the step of a task.                                       *)
Acts(t) ==
    /\ Frame(t) /\ LockStep(t) /\ DoomStep(t)
    /\ t = U => main
    /\ t = H => holder
    /\ t = W => walker
    /\ t # U => UNCHANGED umountOnly
    /\ t # W => UNCHANGED walkOnly

(* A step is the step of some task.                                        *)
LEMMA SomeTask ==
  ASSUME Base, [Next]_vars
  PROVE  UNCHANGED vars \/ \E t \in Threads : Acts(t)
<1>1. TypeInv /\ TypeOK
  BY DEF Base, TypeInv
<1>2. CASE main
  BY <1>1, <1>2, MainFrame, MainDoom, MainLock, Tasks DEF Acts, U, H, W
<1>3. CASE holder
  BY <1>1, <1>3, HolderFrame, HolderDoom, HolderLock, Tasks DEF Acts, U, H, W
<1>4. CASE walker
  BY <1>1, <1>4, WalkerFrame, WalkerDoom, WalkerLock, Tasks DEF Acts, U, H, W
<1> QED
  BY <1>2, <1>3, <1>4 DEF Next, Finished

(* While mount_lock is held every walker that began before is in for a     *)
(* retry.                                                                  *)
LEMMA LockedRetries ==
  ASSUME Base, lock_owner \in Threads
  PROVE  seq < sequence
<1>1. LockProtocol /\ WalkerLedger /\ TypeOK
  BY DEF Base, Ledger, TypeInv
<1>2. sequence % 2 # 0 /\ seq % 2 = 0 /\ seq <= sequence
  BY <1>1 DEF LockProtocol, WalkerLedger, Threads, U, H, W, Nobody
<1>3. seq \in Nat /\ sequence \in Nat
  BY <1>1 DEF TypeOK
<1> QED
  BY <1>2, <1>3

(* A mount in the hash has its own reference.                              *)
LEMMA AttachedOwned ==
  ASSUME Base, NEW m \in Mounts, Attached(m)
  PROVE  refs[U][m] >= 1
<1>1. OwnRef(m)
  BY DEF Attached, OwnRef
<1> QED
  BY <1>1 DEF Base, Ledger, UmountInv, UmountLedger, Bit

(* Who is about to put a reference has it.                                 *)
LEMMA PutterHas ==
  ASSUME Base, NEW t \in Threads, pc[t] \in BeforeDec
  PROVE  cur[t] \in Mounts /\ (Clear(cur[t]) => refs[U][cur[t]] >= 1)
<1>1. cur[t] \in Mounts
  BY DEF Base, TypeInv, TypeOK
<1>2. CASE t = H
  <2>1. cur[H] = HELD /\ refs[H][HELD] >= 1
    BY <1>1, <1>2 DEF Base, Ledger, HolderLedger, Bit
  <2> QED
    BY <1>1, <1>2, <2>1 DEF Clear
<1>3. CASE t = W
  <2>1. cur[W] = WALK /\ pc[W] \in Firm
    BY <1>3 DEF Base, Ledger, WalkerLedger, Firm
  <2> QED
    BY <1>1, <1>3, <2>1 DEF Clear
<1>4. CASE t = U
  <2>1. ret[U] \in {"work", "held_next"}
    <3>1. Phases
      BY DEF Base, Ledger, UmountInv
    <3> QED
      BY <1>4, <3>1 DEF Phases, Early, Peek, Queueing, Holding, Ending, InPut, OnWayTo,
                        Counting, BeforeDec
  <2>2. ret[U] = "work" => CallerRef(cur[U])
    BY <1>4 DEF CallerRef, Base, Ledger, UmountInv, Phases
  <2>3. ret[U] = "held_next" => OwnRef(cur[U])
    BY <1>4 DEF OwnRef
  <2>4. refs[U][cur[U]] = Bit(OwnRef(cur[U])) + Bit(CallerRef(cur[U]))
    BY <1>1, <1>4 DEF Base, Ledger, UmountInv, UmountLedger
  <2>5. refs[U][cur[U]] >= 1
    BY <2>1, <2>2, <2>3, <2>4 DEF Bit
  <2> QED
    BY <1>1, <1>4, <2>5
<1> QED
  BY <1>2, <1>3, <1>4 DEF Threads

(* A doomed mount is not in the hash.                                      *)
LEMMA DoomedIsUnhashed ==
  ASSUME Base, DoomInv, NEW m \in Mounts, Doomed(m)
  PROVE  ~hashed[m] /\ Clear(m) /\ refs[U][m] = 0
<1>1. Clear(m) /\ refs[U][m] = 0 /\ (hashed[m] => Attached(m))
  BY DEF DoomInv, Closed
<1> QED
  BY <1>1, AttachedOwned

(* A walker decides between its look at the hash and its check of the      *)
(* sequence count.                                                         *)
LEMMA WalkerEntry ==
  ASSUME TypeOK, WalkerLedger, walker,
         pc'[W] \in {"legit_begin", "legit_inc", "legit_retry"}
  PROVE  \/ pc[W] = "walker_find" /\ Found(WALK) /\ seq' = seq
         \/ pc[W] \in {"legit_begin", "legit_inc", "legit_retry"} /\ seq' = seq
<1> USE Tasks DEF TypeOK, At, Goto, WalkerLedger, PutLabels, BeforeDec, AfterDec
<1>1. CASE WalkerBegin
  BY <1>1 DEF WalkerBegin, localVars
<1>2. CASE read_seqbegin
  BY <1>2 DEF read_seqbegin
<1>3. CASE WalkerFind
  BY <1>3 DEF WalkerFind
<1>4. CASE LegitimizeBegin
  BY <1>4 DEF LegitimizeBegin, localVars
<1>5. CASE LegitimizeInc
  BY <1>5 DEF LegitimizeInc, localVars
<1>6. CASE LegitimizeRetry
  BY <1>6 DEF LegitimizeRetry, localVars
<1>7. CASE LegitimizeLock
  BY <1>7 DEF LegitimizeLock, localVars
<1>8. CASE LegitimizeFlags
  BY <1>8 DEF LegitimizeFlags, localVars
<1>9. CASE LegitimizeUnlock
  BY <1>9 DEF LegitimizeUnlock, localVars
<1>10. CASE legitimize_mnt
  BY <1>10 DEF legitimize_mnt, CallMntput, localVars
<1>11. CASE LegitimizeRelock
  BY <1>11 DEF LegitimizeRelock, localVars
<1>12. CASE WalkerFail
  BY <1>12 DEF WalkerFail, WalkerLeaves
<1>13. CASE WalkerLegit
  BY <1>13 DEF WalkerLegit, WalkerLeaves
<1>14. CASE WalkerUse
  BY <1>14 DEF WalkerUse, CallMntput, localVars
<1>15. CASE Mntput(W)
  <2>1. pc'[W] \in PutLabels \cup {ret[W], wret[W]}
    BY <1>15, MntputLabels
  <2> QED
    BY <2>1
<1> QED
  BY <1>1, <1>2, <1>3, <1>4, <1>5, <1>6, <1>7, <1>8, <1>9, <1>10, <1>11,
     <1>12, <1>13, <1>14, <1>15
     DEF walker

(* A closed mount stays closed.                                            *)
LEMMA ClosedStays ==
  ASSUME Base, Base', DoomInv, NEW t \in Threads, Acts(t), NEW m \in Mounts, Sync(m) \/ Doomed(m)
  PROVE  Closed(m)'
<1>1. /\ TypeOK /\ HolderLedger /\ HolderLedger' /\ WalkerLedger /\ LockProtocol /\ Phases
      /\ Lists
  BY DEF Base, Ledger, UmountInv, TypeInv
<1>2. Closed(m)
  BY DEF DoomInv
<1>3. refs'[H][m] = 0
  <2>1. CASE t = H
    BY <1>1, <1>2, <2>1, HolderStaysOut DEF Acts, Closed, Clear
  <2>2. CASE t # H
    BY <1>2, <2>2, Tasks DEF Acts, Frame, Closed, Clear
  <2> QED
    BY <2>1, <2>2
<1>4. m = WALK => pc'[W] \notin Firm
  <2>1. CASE t = W
    <3> SUFFICES ASSUME m = WALK, pc'[W] \in Firm PROVE FALSE
      OBVIOUS
    <3>1. walker /\ pc[W] \notin Firm
      BY <1>2, <2>1 DEF Acts, Closed, Clear
    <3>2. \/ pc[W] = "legit_retry" /\ sequence = seq
          \/ pc[W] = "legit_flags" /\ ~Refused(cur[W])
      BY <1>1, <3>1, FirmEntry
    <3>3. pc[W] = "legit_retry" => seq < sequence
      BY <1>2 DEF Closed
    <3>4. Refused(cur[W])
      BY <1>1 DEF Refused, WalkerLedger, Sync, Doomed
    <3>5. seq \in Nat /\ sequence \in Nat
      BY <1>1 DEF TypeOK
    <3> QED
      BY <3>2, <3>3, <3>4, <3>5
  <2>2. CASE t # W
    BY <1>2, <2>2, Tasks DEF Acts, Frame, Closed, Clear
  <2> QED
    BY <2>1, <2>2
<1>5. sequence' >= sequence /\ sequence \in Nat /\ seq \in Nat /\ sequence' \in Nat
  <2>1. TypeOK'
    BY DEF Base, TypeInv
  <2>2. sequence' >= sequence
    BY <1>1, SequenceGrows DEF Acts
  <2> QED
    BY <1>1, <2>1, <2>2 DEF TypeOK
<1>6. ASSUME m = WALK, pc'[W] \in {"legit_begin", "legit_inc", "legit_retry"}
      PROVE  seq' < sequence'
  <2>1. CASE t = W
    <3>1. \/ pc[W] = "walker_find" /\ Found(WALK) /\ seq' = seq
          \/ pc[W] \in {"legit_begin", "legit_inc", "legit_retry"} /\ seq' = seq
      BY <1>1, <1>6, <2>1, WalkerEntry DEF Acts
    <3>2. CASE pc[W] = "walker_find" /\ Found(WALK) /\ seq' = seq
      <4>1. pc[U] = "tree_unhash"
        BY <1>2, <1>6, <3>2 DEF Closed, Clear, Found
      <4>2. lock_owner = U
        BY <1>1, <4>1, Tasks DEF LockProtocol, LockedLabels
      <4>3. seq < sequence
        BY <4>2, LockedRetries, Tasks
      <4> QED
        BY <1>5, <3>2, <4>3
    <3>3. CASE pc[W] \in {"legit_begin", "legit_inc", "legit_retry"} /\ seq' = seq
      BY <1>2, <1>5, <1>6, <3>3 DEF Closed
    <3> QED
      BY <3>1, <3>2, <3>3
  <2>2. CASE t # W
    BY <1>2, <1>5, <1>6, <2>2, Tasks DEF Acts, Frame, Closed, walkOnly
  <2> QED
    BY <2>1, <2>2
<1>7. ASSUME hashed'[m]
      PROVE  pc'[U] = "tree_unhash"
  <2>1. hashed[m]
    BY <1>1, <1>7 DEF Acts, DoomStep, umount_mnt, TypeOK
  <2>2. pc[U] = "tree_unhash" /\ Attached(m)
    BY <1>2, <2>1 DEF Closed, DoomInv
  <2>3. CASE t = U
    <3>1. Sync(m) /\ ~Doomed(m)
      BY <2>1, DoomedIsUnhashed
    <3>2. umount_mnt
      BY <2>2, <2>3, Tasks DEF Acts, DoomStep
    <3>3. k = m
      <4>1. BATCH = 1 /\ k \in Mounts
        BY <2>2, <3>1, ConfigAssumption DEF DoomInv, Base, TypeInv, LoopInv
      <4> QED
        BY <4>1, MountRange
    <3> QED
      BY <1>1, <1>7, <3>2, <3>3 DEF umount_mnt, TypeOK
  <2>4. CASE t # U
    BY <2>2, <2>4, Tasks DEF Acts, Frame
  <2> QED
    BY <2>3, <2>4
<1> QED
  BY <1>3, <1>4, <1>6, <1>7 DEF Closed, Clear

(* The put that sees a count of zero leaves a mount nobody can reach.      *)
LEMMA LastPutCloses ==
  ASSUME Base, CountInv, DoomInv, NEW t \in Threads, pc[t] = "put_test",
         IsLastPut(cur[t], Count(t))
  PROVE  cur[t] \in Mounts /\ lock_owner = t /\ Clear(cur[t]) /\ refs[U][cur[t]] = 0
<1>1. PICK G, P : Summed(G, P)
  BY DEF CountInv
<1>2. CountRight(t, G, P) /\ TypeOK /\ LockProtocol
  BY <1>1 DEF Summed, Base, TypeInv
<1>3. cret[t] = "put_test" /\ Outlook(t, G) = 0
  BY <1>2 DEF CountRight, CountReturns, Outlook, IsLastPut
<1>4. Clear(cur[t]) /\ refs[U][cur[t]] <= 0
  BY <1>2, <1>3 DEF CountRight, CountReturns, Expected
<1>5. cur[t] \in Mounts /\ lock_owner = t
  BY <1>2 DEF TypeOK, LockProtocol, LockedLabels
<1>6. refs[U][cur[t]] \in Nat
  BY <1>5, LedgerBounds, Tasks DEF Base
<1> QED
  BY <1>4, <1>5, <1>6

(* The look that sees a count of one leaves the own reference alone.       *)
LEMMA UnheldCloses ==
  ASSUME Base, CountInv, pc[U] = "unheld_test", Unheld(Count(U))
  PROVE  cur[U] \in Mounts /\ Clear(cur[U]) /\ refs[U][cur[U]] >= 1
<1>1. PICK G, P : Summed(G, P)
  BY DEF CountInv
<1>2. CountRight(U, G, P) /\ TypeOK
  BY <1>1, Tasks DEF Summed, Base, TypeInv
<1>3. cret[U] = "unheld_test" /\ Outlook(U, G) = 1
  BY <1>2 DEF CountRight, CountReturns, Outlook, Unheld
<1>4. Clear(cur[U])
  BY <1>2, <1>3 DEF CountRight, CountReturns, Expected
<1>5. cur[U] \in Mounts
  BY <1>2, Tasks DEF TypeOK
<1>6. OnWayTo(U, "unheld_test") /\ Peek /\ pc[U] # "unheld_final"
  BY DEF OnWayTo, Peek
<1>7. k \in Mounts /\ cur[U] = INSERTED(k) /\ k \in Int
  BY <1>6 DEF Base, Ledger, UmountInv, Lists, Mounts
<1>8. cur[U] \in head /\ ~fast_final[cur[U]]
  BY <1>6, <1>7 DEF Base, Ledger, UmountInv, Lists
<1>9. OwnRef(cur[U])
  BY <1>6, <1>8 DEF OwnRef
<1>10. refs[U][cur[U]] >= 1
  BY <1>5, <1>9 DEF Base, Ledger, UmountInv, UmountLedger, Bit
<1> QED
  BY <1>4, <1>5, <1>10

(* The busy check that goes on has seen nobody else.                       *)
LEMMA BusyCloses ==
  ASSUME Base, CountInv, pc[U] = "busy_test", ~do_refcount_check(Count(U))
  PROVE  Clear(0)
<1>1. PICK G, P : Summed(G, P)
  BY DEF CountInv
<1>2. CountRight(U, G, P) /\ TypeOK
  BY <1>1, Tasks DEF Summed, Base, TypeInv
<1>3. Count(U) \in Int /\ cret[U] = "busy_test" /\ Outlook(U, G) = Count(U)
  BY <1>2, Tasks DEF CountRight, CountReturns, Outlook, Count, TypeOK
<1>4. Count(U) <= 2
  BY <1>3 DEF do_refcount_check
<1>5. Clear(cur[U])
  BY <1>2, <1>3, <1>4 DEF CountRight, CountReturns, Expected
<1>6. cur[U] = 0
  BY DEF Base, Ledger, UmountInv, Phases, OnWayTo
<1> QED
  BY <1>5, <1>6

(* U ends the look at a mount it does not hold with the own reference.     *)
LEMMA UnheldFinalDropped ==
  ASSUME Base, pc[U] = "unheld_final"
  PROVE  refs[U][cur[U]] = 0 /\ cur[U] \in Mounts /\ retval = 0 /\ ~Early
<1>1. Lists /\ TypeOK /\ Peek /\ k \in Mounts /\ cur[U] = INSERTED(k) /\ cur[U] \in Mounts
  BY Tasks DEF Base, TypeInv, TypeOK, Ledger, UmountInv, Lists, Peek
<1>2. k \in Int
  BY <1>1 DEF Mounts
<1>3. cur[U] \in head \ held
  BY <1>1, <1>2 DEF Lists
<1>4. retval = 0 /\ ~Early /\ ~CallerHas
  BY <1>1 DEF Lists, Ending, InPut, Early, OnWayTo, Counting, PutLabels, BeforeDec, AfterDec,
              CallerHas
<1>5. ~OwnRef(cur[U]) /\ ~CallerRef(cur[U])
  BY <1>3, <1>4 DEF OwnRef, CallerRef, BeforeDec
<1> QED
  BY <1>1, <1>4, <1>5 DEF Base, Ledger, UmountInv, UmountLedger, Bit

(* Only the task that has mount_lock dooms.                                *)
LEMMA DoomsUnderLock ==
  ASSUME Base, NEW t \in Threads, Acts(t), NEW m \in Mounts, Doomed(m)', ~Doomed(m)
  PROVE  /\ lock_owner = t /\ m = cur[t]
         /\ \/ mntput_no_expire_slowpath(t) /\ IsLastPut(m, Count(t))
            \/ t = U /\ UnheldFinal
<1>1. TypeOK /\ LockProtocol
  BY DEF Base, TypeInv
<1>2. mntput_no_expire_slowpath(t) \/ (t = U /\ UnheldFinal)
  BY DEF Acts, DoomStep
<1>3. CASE mntput_no_expire_slowpath(t)
  <2>1. pc[t] = "put_test"
    BY <1>3 DEF mntput_no_expire_slowpath, At
  <2>2. lock_owner = t
    BY <1>1, <2>1 DEF LockProtocol, LockedLabels
  <2>3. IsLastPut(cur[t], Count(t))
    BY <1>3 DEF mntput_no_expire_slowpath, mountVars, Doomed
  <2>4. mnt_flags' = [mnt_flags EXCEPT ![cur[t]] = @ \cup {"MNT_DOOMED"}]
    BY <1>3, <2>3 DEF mntput_no_expire_slowpath, mntput_final_locked
  <2>5. m = cur[t]
    BY <1>1, <2>4 DEF Doomed, TypeOK
  <2> QED
    BY <1>3, <2>2, <2>3, <2>5
<1>4. CASE t = U /\ UnheldFinal
  <2>1. pc[t] = "unheld_final"
    BY <1>4 DEF UnheldFinal, At
  <2>2. lock_owner = t
    BY <1>1, <2>1 DEF LockProtocol, LockedLabels
  <2>3. mnt_flags' = [mnt_flags EXCEPT ![cur[t]] = @ \cup {"MNT_DOOMED"}]
    BY <1>4 DEF UnheldFinal, mntput_final_locked
  <2>4. m = cur[t]
    BY <1>1, <2>3 DEF Doomed, TypeOK
  <2> QED
    BY <1>4, <2>2, <2>4
<1> QED
  BY <1>2, <1>3, <1>4

(* A mount that becomes doomed is closed.                                  *)
LEMMA DoomCloses ==
  ASSUME Base, Base', CountInv, DoomInv, [Next]_vars, NEW t \in Threads, Acts(t),
         NEW m \in Mounts, Doomed(m)', ~Doomed(m)
  PROVE  Closed(m)' /\ refs'[U][m] = 0
<1>1. /\ lock_owner = t /\ m = cur[t]
      /\ \/ mntput_no_expire_slowpath(t) /\ IsLastPut(m, Count(t))
         \/ t = U /\ UnheldFinal
  BY DoomsUnderLock
<1>2. Clear(m) /\ refs[U][m] = 0 /\ ~(pc[W] = "legit_flags" /\ t = W)
  <2>1. CASE mntput_no_expire_slowpath(t) /\ IsLastPut(m, Count(t))
    <3>1. pc[t] = "put_test"
      BY <2>1 DEF mntput_no_expire_slowpath, At
    <3> QED
      BY <1>1, <2>1, <3>1, LastPutCloses
  <2>2. CASE t = U /\ UnheldFinal
    <3>1. pc[U] = "unheld_final"
      BY <2>2 DEF UnheldFinal, At
    <3>2. refs[U][m] = 0
      BY <1>1, <2>2, <3>1, UnheldFinalDropped
    <3>3. Clear(m)
      BY <1>1, <2>2, <3>1 DEF DoomInv
    <3> QED
      BY <2>2, <3>2, <3>3 DEF U, W
  <2> QED
    BY <1>1, <2>1, <2>2
<1>3. Clear(m)'
  BY <1>1, <1>2, ClearStays
<1>4. refs'[U][m] = 0
  <2>1. TypeOK /\ refs'[U][m] \in Nat
    BY DEF Base, TypeInv, Ledger, UmountInv, UmountLedger, Bit
  <2>2. refs'[U][m] <= refs[U][m]
    BY <2>1, UmountDown
  <2> QED
    BY <1>2, <2>1, <2>2
<1>5. ~hashed'[m]
  <2>1. ~hashed[m]
    <3>1. hashed[m] => Attached(m)
      BY DEF DoomInv
    <3> QED
      BY <1>2, <3>1, AttachedOwned
  <2>2. TypeOK
    BY DEF Base, TypeInv
  <2> QED
    BY <2>1, <2>2 DEF Acts, DoomStep, umount_mnt, TypeOK
<1>6. seq' < sequence'
  <2>1. seq < sequence
    BY <1>1, LockedRetries
  <2>2. seq' = seq /\ sequence' = sequence
    <3>1. CASE mntput_no_expire_slowpath(t)
      BY <3>1 DEF mntput_no_expire_slowpath, lockVars
    <3>2. CASE UnheldFinal
      BY <3>2 DEF UnheldFinal, localVars, lockVars
    <3> QED
      BY <1>1, <3>1, <3>2
  <2> QED
    BY <2>1, <2>2
<1> QED
  BY <1>3, <1>4, <1>5, <1>6 DEF Closed

(* A mount that is marked MNT_SYNC_UMOUNT is closed.                       *)
LEMMA SyncCloses ==
  ASSUME Base, Base', DoomInv, [Next]_vars, NEW t \in Threads, Acts(t),
         NEW m \in Mounts, Sync(m)', ~Sync(m)
  PROVE  Closed(m)' /\ SHAPE = "sync"
<1>1. t = U /\ umount_tree
  BY DEF Acts, DoomStep
<1>2. TypeOK /\ LockProtocol /\ pc[U] = "tree_ns" /\ pc'[U] = "tree_unhash"
  BY <1>1, Tasks DEF Base, TypeInv, TypeOK, umount_tree, At, Goto
<1>3. k \in Mounts
  BY <1>2 DEF Base, TypeInv, LoopInv
<1>4. SHAPE = "sync"
  BY <1>1, <1>2, <1>3 DEF umount_tree, Sync, TypeOK
<1>5. m = 0
  BY <1>4, ConfigAssumption, MountRange
<1>6. Clear(m) /\ lock_owner = U
  BY <1>2, <1>4, <1>5, Tasks DEF DoomInv, LockProtocol, LockedLabels
<1>7. Clear(m)'
  BY <1>6, ClearStays, Tasks DEF U, W
<1>8. seq < sequence
  BY <1>6, LockedRetries, Tasks
<1>9. seq' < sequence'
  BY <1>1, <1>8 DEF umount_tree, localVars, lockVars
<1> QED
  BY <1>2, <1>4, <1>7, <1>9 DEF Closed

(* The mounts.                                                             *)
LEMMA DoomMounts ==
  ASSUME Base, Base', CountInv, DoomInv, [Next]_vars, NEW t \in Threads, Acts(t), NEW m \in Mounts
  PROVE  /\ hashed'[m] => Attached(m)'
         /\ Sync(m)' \/ Doomed(m)' => Closed(m)'
         /\ Doomed(m)' => refs'[U][m] = 0
         /\ Sync(m)' => SHAPE = "sync"
         /\ fast_final'[m] => Doomed(m)'
<1>1. TypeOK /\ refs'[U][m] \in Nat
  BY DEF Base, TypeInv, Ledger, UmountInv, UmountLedger, Bit
<1>2. hashed'[m] => Attached(m)'
  <2>1. hashed[m] => Attached(m)
    BY DEF DoomInv
  <2>2. CASE t = U
    BY <2>1, <2>2, AttachedStep DEF Acts
  <2>3. CASE t # U
    BY <2>1, <2>3, Tasks DEF Acts, Frame, umountOnly, Attached, Early, OnWayTo, Counting
  <2> QED
    BY <2>2, <2>3
<1>3. Sync(m) \/ Doomed(m) => Closed(m)'
  BY ClosedStays
<1>4. Sync(m)' /\ ~Sync(m) => Closed(m)'
  BY SyncCloses
<1>5. Doomed(m)' /\ ~Doomed(m) => Closed(m)' /\ refs'[U][m] = 0
  BY DoomCloses
<1>6. Doomed(m) => refs'[U][m] = 0
  <2>1. refs'[U][m] <= refs[U][m]
    BY <1>1, UmountDown
  <2> QED
    BY <1>1, <2>1 DEF DoomInv
<1>7. Sync(m)' => SHAPE = "sync"
  BY SyncCloses DEF DoomInv
<1>8. fast_final'[m] => Doomed(m)'
  <2>1. CASE t = U /\ UnheldFinal
    <3>1. /\ fast_final' = [fast_final EXCEPT ![cur[U]] = TRUE]
          /\ mnt_flags' = [mnt_flags EXCEPT ![cur[U]] = @ \cup {"MNT_DOOMED"}]
          /\ cur[U] \in Mounts
      BY <1>1, <2>1, Tasks DEF UnheldFinal, mntput_final_locked, TypeOK
    <3>2. CASE m = cur[U]
      BY <1>1, <3>1, <3>2 DEF Doomed, TypeOK
    <3>3. CASE m # cur[U]
      <4>1. fast_final'[m] = fast_final[m] /\ mnt_flags'[m] = mnt_flags[m]
        BY <1>1, <3>1, <3>3 DEF TypeOK
      <4> QED
        BY <4>1 DEF DoomInv, Doomed
    <3> QED
      BY <3>2, <3>3
  <2>2. CASE fast_final' = fast_final
    <3>1. Doomed(m) => Doomed(m)'
      <4>1. CASE \A n \in Mounts : Doomed(n)' <=> Doomed(n)
        BY <4>1
      <4>2. CASE mntput_no_expire_slowpath(t)
        <5>1. \/ mnt_flags' = mnt_flags
              \/ mnt_flags' = [mnt_flags EXCEPT ![cur[t]] = @ \cup {"MNT_DOOMED"}]
          BY <4>2 DEF mntput_no_expire_slowpath, mntput_final_locked, mountVars
        <5>2. mnt_flags'[m] = mnt_flags[m] \/ mnt_flags'[m] = mnt_flags[m] \cup {"MNT_DOOMED"}
          BY <1>1, <5>1 DEF TypeOK
        <5> QED
          BY <5>2 DEF Doomed
      <4>3. CASE UnheldFinal
        BY <1>1, <4>3 DEF UnheldFinal, mntput_final_locked, Doomed, TypeOK
      <4> QED
        BY <4>1, <4>2, <4>3 DEF Acts, DoomStep
    <3> QED
      BY <2>2, <3>1 DEF DoomInv
  <2> QED
    BY <2>1, <2>2 DEF Acts, DoomStep
<1> QED
  BY <1>2, <1>3, <1>4, <1>5, <1>6, <1>7, <1>8

(* The tasks that are about to decide.                                     *)
LEMMA DoomTasks ==
  ASSUME Base, Base', CountInv, DoomInv, [Next]_vars, NEW t \in Threads, Acts(t)
  PROVE  /\ \A s \in Threads : OnWayTo(s, "put_test")' => ~Doomed(cur[s])'
         /\ pc'[U] \in {"unheld_dec", "unheld_final"} => Clear(cur[U])' /\ ~Doomed(cur[U])'
         /\ SHAPE = "sync" /\ pc'[U] = "tree_ns" => Clear(0)'
<1>1. TypeOK /\ LockProtocol /\ \A s \in Threads : cur[s] \in Mounts
  BY DEF Base, TypeInv, TypeOK
<1>2. ASSUME NEW s \in Threads \ {t}, lock_owner = s, ~Doomed(cur[s])
      PROVE  cur'[s] = cur[s] /\ ~Doomed(cur[s])'
  <2>1. cur'[s] = cur[s]
    BY DEF Acts, Frame
  <2>2. PICK m \in Mounts : m = cur[s]
    BY <1>1
  <2>3. ~Doomed(m)'
    BY <1>2, <2>2, DoomsUnderLock
  <2> QED
    BY <2>1, <2>2, <2>3 DEF Doomed
<1>3. ASSUME NEW s \in Threads, OnWayTo(s, "put_test")'
      PROVE  ~Doomed(cur[s])'
  <2>1. CASE s # t
    <3>1. OnWayTo(s, "put_test")
      BY <1>3, <2>1 DEF Acts, Frame, OnWayTo, Counting
    <3>2. lock_owner = s
      BY <1>1, <3>1 DEF LockProtocol, LockedLabels, OnWayTo, Counting
    <3> QED
      BY <1>2, <2>1, <3>1, <3>2 DEF DoomInv
  <2>2. CASE s = t /\ SlowpathDec(t)
    <3>1. pc[t] \in BeforeDec
      BY <2>2 DEF SlowpathDec, At, BeforeDec
    <3>2. ~Doomed(cur[t])
      <4>1. PICK m \in Mounts : m = cur[t]
        BY <1>1
      <4>2. Doomed(m) => Clear(m) /\ refs[U][m] = 0
        BY DEF DoomInv, Closed
      <4> QED
        BY <3>1, <4>1, <4>2, PutterHas
    <3>3. mnt_flags' = mnt_flags /\ cur'[t] = cur[t]
      BY <1>1, <2>2 DEF SlowpathDec, StartCount, mountVars, TypeOK
    <3> QED
      BY <2>2, <3>2, <3>3 DEF Doomed
  <2>3. CASE s = t /\ ~SlowpathDec(t)
    <3>1. OnWayTo(t, "put_test") /\ cur'[t] = cur[t]
      BY <1>3, <2>3 DEF Acts, DoomStep
    <3>2. ~mntput_no_expire_slowpath(t) /\ ~(t = U /\ UnheldFinal)
      <4>1. ASSUME mntput_no_expire_slowpath(t) PROVE FALSE
        BY <1>1, <1>3, <2>3, <4>1 DEF mntput_no_expire_slowpath, Goto, OnWayTo, Counting, TypeOK
      <4>2. ASSUME UnheldFinal, t = U PROVE FALSE
        BY <3>1, <4>2 DEF UnheldFinal, At, OnWayTo, Counting
      <4> QED
        BY <4>1, <4>2
    <3>3. PICK m \in Mounts : m = cur[t]
      BY <1>1
    <3>4. Doomed(m)' <=> Doomed(m)
      BY <3>2 DEF Acts, DoomStep
    <3>5. ~Doomed(m)
      BY <3>1, <3>3 DEF DoomInv
    <3> QED
      BY <2>3, <3>1, <3>3, <3>4, <3>5 DEF Doomed
  <2> QED
    BY <2>1, <2>2, <2>3
<1>4. ASSUME pc'[U] \in {"unheld_dec", "unheld_final"}
      PROVE  Clear(cur[U])' /\ ~Doomed(cur[U])'
  <2>1. PICK m \in Mounts : m = cur[U]
    BY <1>1, Tasks
  <2>2. CASE t # U
    <3>1. pc[U] \in {"unheld_dec", "unheld_final"}
      BY <1>4, <2>2, Tasks DEF Acts, Frame
    <3>2. lock_owner = U
      BY <1>1, <3>1, Tasks DEF LockProtocol, LockedLabels
    <3>3. Clear(m) /\ ~Doomed(m)
      BY <2>1, <3>1 DEF DoomInv
    <3>4. Clear(m)'
      BY <3>2, <3>3, ClearStays, Tasks DEF U, W
    <3>5. cur'[U] = cur[U] /\ ~Doomed(cur[U])'
      BY <1>2, <2>1, <2>2, <3>2, <3>3, Tasks
    <3> QED
      BY <2>1, <3>4, <3>5 DEF Clear
  <2>3. CASE t = U /\ pc'[U] = "unheld_dec"
    <3>1. mntput_unheld /\ Unheld(Count(U))
      BY <2>3 DEF Acts, DoomStep
    <3>2. pc[U] = "unheld_test" /\ cur' = cur /\ mnt_flags' = mnt_flags
      BY <3>1 DEF mntput_unheld, At, callVars, mountVars
    <3>3. Clear(m) /\ refs[U][m] >= 1
      BY <2>1, <3>1, <3>2, UnheldCloses
    <3>4. ~Doomed(m)
      BY <3>3 DEF DoomInv
    <3>5. lock_owner = U
      BY <1>1, <3>2, Tasks DEF LockProtocol, LockedLabels
    <3>6. Clear(m)'
      BY <3>3, <3>5, ClearStays, Tasks DEF U, W
    <3> QED
      BY <2>1, <3>2, <3>4, <3>6 DEF Clear, Doomed
  <2>4. CASE t = U /\ pc'[U] = "unheld_final"
    <3>1. UnheldDec
      BY <2>4 DEF Acts, DoomStep
    <3>2. pc[U] = "unheld_dec" /\ cur' = cur /\ mnt_flags' = mnt_flags
      BY <3>1 DEF UnheldDec, At, callVars, mountVars
    <3>3. Clear(m) /\ ~Doomed(m)
      BY <2>1, <3>2 DEF DoomInv
    <3>4. lock_owner = U
      BY <1>1, <3>2, Tasks DEF LockProtocol, LockedLabels
    <3>5. Clear(m)'
      BY <3>3, <3>4, ClearStays, Tasks DEF U, W
    <3> QED
      BY <2>1, <3>2, <3>3, <3>5 DEF Clear, Doomed
  <2> QED
    BY <1>4, <2>2, <2>3, <2>4
<1>5. ASSUME SHAPE = "sync", pc'[U] = "tree_ns"
      PROVE  Clear(0)'
  <2>1. CASE t # U
    <3>1. pc[U] = "tree_ns"
      BY <1>5, <2>1, Tasks DEF Acts, Frame
    <3>2. lock_owner = U /\ Clear(0)
      BY <1>1, <1>5, <3>1, Tasks DEF LockProtocol, LockedLabels, DoomInv
    <3> QED
      BY <3>2, ClearStays, Tasks, Zero DEF U, W
  <2>2. CASE t = U
    <3>1. propagate_mount_busy /\ ~do_refcount_check(Count(U))
      <4>1. \/ propagate_mount_busy /\ ~do_refcount_check(Count(U))
            \/ umount_mnt /\ k + 1 # BATCH
        BY <1>5, <2>2 DEF Acts, DoomStep
      <4>2. umount_mnt => k + 1 = BATCH
        <5>1. umount_mnt => k \in Mounts
          BY DEF umount_mnt, At, Base, TypeInv, LoopInv
        <5> QED
          BY <1>5, <5>1, ConfigAssumption, MountRange
      <4> QED
        BY <4>1, <4>2
    <3>2. pc[U] = "busy_test"
      BY <3>1 DEF propagate_mount_busy, At
    <3>3. lock_owner = U /\ Clear(0)
      BY <1>1, <3>1, <3>2, BusyCloses, Tasks DEF LockProtocol, LockedLabels
    <3> QED
      BY <3>3, ClearStays, Tasks, Zero DEF U, W
  <2> QED
    BY <2>1, <2>2
<1> QED
  BY <1>3, <1>4, <1>5

(* What is known of doomed mounts is inductive.                            *)
LEMMA DoomInductive ==
  ASSUME Base, Base', CountInv, DoomInv, [Next]_vars
  PROVE  DoomInv'
<1>1. CASE UNCHANGED vars
  BY <1>1 DEF DoomInv, vars, callVars, countVars, localVars, lockVars, counterVars, mountVars,
              umountVars, historyVars, Attached, Early, OnWayTo, Counting, Sync, Doomed,
              Closed, Clear
<1>2. CASE \E t \in Threads : Acts(t)
  <2>1. PICK t \in Threads : Acts(t)
    BY <1>2
  <2>2. \A m \in Mounts :
          /\ hashed'[m] => Attached(m)'
          /\ Sync(m)' \/ Doomed(m)' => Closed(m)'
          /\ Doomed(m)' => refs'[U][m] = 0
          /\ Sync(m)' => SHAPE = "sync"
          /\ fast_final'[m] => Doomed(m)'
    BY <2>1, DoomMounts
  <2>3. /\ \A s \in Threads : OnWayTo(s, "put_test")' => ~Doomed(cur[s])'
        /\ pc'[U] \in {"unheld_dec", "unheld_final"} => Clear(cur[U])' /\ ~Doomed(cur[U])'
        /\ SHAPE = "sync" /\ pc'[U] = "tree_ns" => Clear(0)'
    BY <2>1, DoomTasks
  <2> QED
    BY <2>2, <2>3 DEF DoomInv
<1> QED
  BY <1>1, <1>2, SomeTask

(* No mount is doomed at the start.                                        *)
LEMMA DoomInit == Init => DoomInv
<1> SUFFICES ASSUME Init PROVE DoomInv
  OBVIOUS
<1>1. /\ \A m \in Mounts : ~Sync(m) /\ ~Doomed(m) /\ ~fast_final[m]
      /\ \A t \in Threads : pc[t] \notin {"count_puts", "count_gets", "put_test",
                                          "unheld_dec", "unheld_final", "tree_ns"}
  BY DEF Init, init_mount, InitTasks, PerTask, Sync, Doomed, U, H, W
<1>2. ASSUME NEW m \in Mounts, hashed[m]
      PROVE  Attached(m)
  BY <1>2 DEF Init, init_mount, InitTasks, PerTask, Attached, Early, Threads, U
<1> QED
  BY <1>1, <1>2, Tasks DEF DoomInv, OnWayTo, Counting

(* The invariant so far.                                                   *)
Doom == Base /\ CountInv /\ DoomInv

(* The base, the sums and the doomed mounts, in every reachable state.     *)
LEMMA DoomAlways == Spec => []Doom
<1>1. Init => Doom
  BY BaseInit, CountInit, DoomInit DEF Doom
<1>2. Doom /\ [Next]_vars => Doom'
  BY BaseInductive, CountInductive, DoomInductive DEF Doom
<1> QED
  BY <1>1, <1>2, PTL DEF Spec

(* DoomedIsLast: for every number of CPUs and every shape, a mount is      *)
(* doomed only when nobody but a transient walker has a reference, and     *)
(* nobody gets one later.                                                  *)
THEOREM DoomCorrect == Spec => []DoomedIsLast
<1>1. Doom => DoomedIsLast
  <2> SUFFICES ASSUME Doom, NEW m \in Mounts, Doomed(m) PROVE RealRefs(m) = 0
    BY DEF DoomedIsLast
  <2>1. Clear(m) /\ refs[U][m] = 0
    BY DEF Doom, DoomInv, Closed
  <2> QED
    BY <2>1, ClearRefs DEF Doom
<1> QED
  BY <1>1, DoomAlways, PTL

(* NoNewRefsAfterSync: from the moment umount(2) marks a mount             *)
(* MNT_SYNC_UMOUNT no step adds a reference that counts.                   *)
THEOREM SyncClosesCorrect == Spec => NoNewRefsAfterSync
<1> DEFINE Step == \A m \in Mounts : "MNT_SYNC_UMOUNT" \in mnt_flags[m]
                                        => RealRefs(m)' <= RealRefs(m)
<1>1. Doom /\ Doom' /\ [Next]_vars => [Step]_vars
  <2> SUFFICES ASSUME Doom, Doom', [Next]_vars, ~UNCHANGED vars, NEW m \in Mounts,
                      "MNT_SYNC_UMOUNT" \in mnt_flags[m]
               PROVE  RealRefs(m)' <= RealRefs(m)
    OBVIOUS
  <2>1. PICK t \in Threads : Acts(t)
    BY SomeTask DEF Doom
  <2>2. Clear(m) /\ Clear(m)'
    BY <2>1, ClosedStays DEF Doom, DoomInv, Sync, Closed
  <2>3. RealRefs(m) = refs[U][m]
    BY <2>2, ClearRefs DEF Doom
  <2>4. RealRefs(m)' = refs'[U][m]
    <3>1. refs'[W][m] = 0 \/ transient'
      BY <2>2 DEF Doom, Base, Ledger, WalkerLedger, WalkerHas, Tentative, Bit, Clear
    <3>2. refs'[U][m] \in Int
      BY Tasks DEF Doom, Base, TypeInv, TypeOK
    <3> QED
      BY <2>2, <3>1, <3>2 DEF RealRefs, Clear
  <2>5. refs'[U][m] <= refs[U][m]
    BY UmountDown DEF Doom, Base, TypeInv
  <2> QED
    BY <2>3, <2>4, <2>5
<1> QED
  BY <1>1, DoomAlways, PTL DEF Spec, NoNewRefsAfterSync

-----------------------------------------------------------------------------
(* Who cleans up                                                           *)

(* t has doomed m, or taken it out of its list, and deals with it next.    *)
AtHand(t, m) ==
    /\ cur[t] = m
    /\ pc[t] \in {"queue", "cleanup"} \/ (pc[t] \in {"slow_rcu", "slow_unlock"} /\ last[t])

(* m is on the list of mounts U has doomed itself.                         *)
InHead(t, m) == t = U /\ m \in head /\ fast_final[m]

(* The task that has to clean up m.                                        *)
Owes(t, m) == AtHand(t, m) \/ m \in task_work[t] \/ InHead(t, m)

(* It has m in one place.                                                  *)
OwesOnce(t, m) ==
    /\ ~(AtHand(t, m) /\ m \in task_work[t])
    /\ ~(AtHand(t, m) /\ InHead(t, m))
    /\ ~(m \in task_work[t] /\ InHead(t, m))

Debts(m) ==
    /\ cleaned[m] \in {0, 1}
    /\ Doomed(m) <=> cleaned[m] = 1 \/ \E t \in Threads : Owes(t, m)
    /\ \A t \in Threads :
         /\ OwesOnce(t, m)
         /\ Owes(t, m) => cleaned[m] = 0 /\ \A s \in Threads : Owes(s, m) => s = t
    /\ fast_final[m] => cleaned[m] = 1 \/ Owes(U, m)

CleanupInv ==
    /\ \A m \in Mounts : Debts(m)
    /\ \A t \in Threads : pc[t] \in {"cleanup_gp", "free"} => cleaned[cur[t]] = 1
    /\ pc[U] \in {"u_return", "done"} => task_work[U] = {}
    /\ gps = 0 \/ (gps = 1 /\ (Holding \/ Ending))

(* What a step of t may do to the debt for m: nothing, incur it, move it   *)
(* on, or settle it.                                                       *)
DebtKept(m) == cleaned'[m] = cleaned[m] /\ (Doomed(m)' <=> Doomed(m))

DebtStep(t, m) ==
    \/ /\ DebtKept(m)
       /\ AtHand(t, m)' <=> AtHand(t, m)
       /\ m \in task_work'[t] <=> m \in task_work[t]
       /\ InHead(t, m)' <=> InHead(t, m)
    \/ /\ ~Doomed(m) /\ Doomed(m)' /\ cleaned'[m] = cleaned[m]
       /\ AtHand(t, m)'
       /\ m \in task_work'[t] <=> m \in task_work[t]
       /\ InHead(t, m)' <=> InHead(t, m)
    \/ /\ ~Doomed(m) /\ Doomed(m)' /\ cleaned'[m] = cleaned[m]
       /\ AtHand(t, m)' <=> AtHand(t, m)
       /\ m \in task_work'[t] <=> m \in task_work[t]
       /\ InHead(t, m)'
    \/ /\ DebtKept(m)
       /\ AtHand(t, m) /\ ~AtHand(t, m)' /\ m \in task_work'[t]
       /\ InHead(t, m)' <=> InHead(t, m)
    \/ /\ DebtKept(m)
       /\ m \in task_work[t] /\ m \notin task_work'[t] /\ AtHand(t, m)'
       /\ InHead(t, m)' <=> InHead(t, m)
    \/ /\ DebtKept(m)
       /\ InHead(t, m) /\ ~InHead(t, m)' /\ AtHand(t, m)'
       /\ m \in task_work'[t] <=> m \in task_work[t]
    \/ /\ cleaned'[m] = cleaned[m] + 1 /\ (Doomed(m)' <=> Doomed(m))
       /\ AtHand(t, m) /\ ~AtHand(t, m)'
       /\ m \in task_work'[t] <=> m \in task_work[t]
       /\ InHead(t, m)' <=> InHead(t, m)

(* mntput() and the work it queues.                                        *)
LEMMA MntputDebt ==
  ASSUME TypeOK, NEW t \in Threads, NEW m \in Mounts, Mntput(t)
  PROVE  DebtStep(t, m)
<1> USE DEF TypeOK, At, Goto, DebtStep, DebtKept, AtHand, InHead, Doomed,
            Returns, WorkReturns, CountReturns
<1>1. CASE MntputBegin(t)
  BY <1>1
     DEF MntputBegin, callVars, countVars, localVars, mountVars, umountVars,
         historyVars
<1>2. CASE mntput_no_expire(t)
  BY <1>2
     DEF mntput_no_expire, callVars, countVars, localVars, mountVars,
         umountVars, historyVars
<1>3. CASE MntputFast(t)
  BY <1>3
     DEF MntputFast, callVars, countVars, localVars, mountVars, umountVars,
         historyVars
<1>4. CASE MntputFastEnd(t)
  BY <1>4
     DEF MntputFastEnd, callVars, countVars, localVars, mountVars, umountVars,
         historyVars
<1>5. CASE SlowpathLock(t)
  BY <1>5
     DEF SlowpathLock, callVars, countVars, localVars, mountVars, umountVars,
         historyVars
<1>6. CASE SlowpathDec(t)
  BY <1>6
     DEF SlowpathDec, StartCount, localVars, mountVars, umountVars,
         historyVars
<1>7. CASE CountPuts(t)
  BY <1>7
     DEF CountPuts, NextCpu, callVars, localVars, mountVars, umountVars,
         historyVars
<1>8. CASE CountGets(t)
  BY <1>8
     DEF CountGets, NextCpu, callVars, localVars, mountVars, umountVars,
         historyVars
<1>9. CASE mntput_no_expire_slowpath(t)
  <2>1. /\ pc[t] = "put_test" /\ pc'[t] = "slow_rcu" /\ cur' = cur /\ task_work' = task_work
        /\ head' = head /\ fast_final' = fast_final /\ cleaned' = cleaned
        /\ last'[t] = IsLastPut(cur[t], Count(t))
    BY <1>9 DEF mntput_no_expire_slowpath, callVars, umountVars, historyVars
  <2>2. CASE IsLastPut(cur[t], Count(t))
    <3>1. mnt_flags' = [mnt_flags EXCEPT ![cur[t]] = @ \cup {"MNT_DOOMED"}]
      BY <1>9, <2>2 DEF mntput_no_expire_slowpath, mntput_final_locked
    <3>2. CASE m = cur[t]
      <4>1. ~Doomed(m) /\ Doomed(m)'
        BY <2>2, <3>1, <3>2 DEF IsLastPut
      <4> QED
        BY <2>1, <2>2, <3>2, <4>1
    <3>3. CASE m # cur[t]
      <4>1. mnt_flags'[m] = mnt_flags[m]
        BY <3>1, <3>3
      <4> QED
        BY <2>1, <3>3, <4>1
    <3> QED
      BY <3>2, <3>3
  <2>3. CASE ~IsLastPut(cur[t], Count(t))
    <3>1. mnt_flags' = mnt_flags
      BY <1>9, <2>3 DEF mntput_no_expire_slowpath, mountVars
    <3> QED
      BY <2>1, <2>3, <3>1
  <2> QED
    BY <2>2, <2>3
<1>10. CASE SlowpathRcuUnlock(t)
  BY <1>10
     DEF SlowpathRcuUnlock, callVars, countVars, localVars, mountVars,
         umountVars, historyVars
<1>11. CASE SlowpathUnlock(t)
  BY <1>11
     DEF SlowpathUnlock, callVars, countVars, localVars, mountVars,
         umountVars, historyVars
<1>12. CASE mntput_queue_cleanup(t)
  <2>1. /\ pc[t] = "queue" /\ cur' = cur /\ cleaned' = cleaned /\ mnt_flags' = mnt_flags
        /\ head' = head /\ fast_final' = fast_final
    BY <1>12 DEF mntput_queue_cleanup, callVars, mountVars, umountVars, historyVars
  <2>2. CASE "MNT_INTERNAL" \in mnt_flags[cur[t]]
    <3>1. pc'[t] = "cleanup" /\ task_work' = task_work
      BY <1>12, <2>2 DEF mntput_queue_cleanup
    <3> QED
      BY <2>1, <3>1
  <2>3. CASE "MNT_INTERNAL" \notin mnt_flags[cur[t]]
    <3>1. /\ pc'[t] \in Returns
          /\ task_work'[t] = task_work[t] \cup {cur[t]}
      BY <1>12, <2>3 DEF mntput_queue_cleanup
    <3>2. ~AtHand(t, m)' /\ (AtHand(t, m) <=> m = cur[t])
      BY <2>1, <3>1
    <3>3. m \in task_work'[t] <=> m \in task_work[t] \/ m = cur[t]
      BY <3>1
    <3>4. DebtKept(m) /\ (InHead(t, m)' <=> InHead(t, m))
      BY <2>1
    <3> HIDE DEF AtHand, InHead, DebtKept
    <3> QED
      BY <3>2, <3>3, <3>4
  <2> QED
    BY <2>2, <2>3
<1>13. CASE cleanup_mnt(t)
  BY <1>13 DEF cleanup_mnt, callVars, countVars, mountVars, umountVars
<1>14. CASE CleanupGp(t)
  BY <1>14
     DEF CleanupGp, synchronize_rcu, callVars, countVars, mountVars,
         umountVars, historyVars
<1>15. CASE free_vfsmnt(t)
  BY <1>15
     DEF free_vfsmnt, callVars, countVars, localVars, mountVars, umountVars
<1>16. CASE run_task_work(t)
  BY <1>16
     DEF run_task_work, countVars, localVars, mountVars, umountVars,
         historyVars
<1>17. CASE NoTaskWork(t)
  BY <1>17
     DEF NoTaskWork, callVars, countVars, localVars, mountVars, umountVars,
         historyVars
<1> QED
  BY <1>1, <1>2, <1>3, <1>4, <1>5, <1>6, <1>7, <1>8, <1>9, <1>10, <1>11,
     <1>12, <1>13, <1>14, <1>15, <1>16, <1>17
     DEF Mntput

(* The holder.                                                             *)
LEMMA HolderDebt ==
  ASSUME TypeOK, NEW m \in Mounts, holder
  PROVE  DebtStep(H, m)
<1> USE DEF TypeOK, At, Goto, DebtStep, DebtKept, AtHand, InHead, Doomed,
            Returns, WorkReturns, CountReturns
<1>1. CASE HolderGet
  BY <1>1, Tasks DEF HolderGet, countVars, mountVars, umountVars, historyVars
<1>2. CASE HolderLastPut
  BY <1>2, Tasks
     DEF HolderLastPut, countVars, localVars, mountVars, umountVars,
         historyVars
<1>3. CASE Mntput(H)
  BY <1>3, MntputDebt, Tasks
<1> QED
  BY <1>1, <1>2, <1>3 DEF holder

(* The walker.                                                             *)
LEMMA WalkerDebt ==
  ASSUME TypeOK, NEW m \in Mounts, walker
  PROVE  DebtStep(W, m)
<1> USE DEF TypeOK, At, Goto, DebtStep, DebtKept, AtHand, InHead, Doomed,
            Returns, WorkReturns, CountReturns
<1>1. CASE WalkerBegin
  BY <1>1, Tasks
     DEF WalkerBegin, callVars, countVars, localVars, mountVars, umountVars,
         historyVars
<1>2. CASE read_seqbegin
  BY <1>2, Tasks
     DEF read_seqbegin, callVars, countVars, mountVars, umountVars,
         historyVars
<1>3. CASE WalkerFind
  BY <1>3, Tasks DEF WalkerFind, countVars, mountVars, umountVars, historyVars
<1>4. CASE LegitimizeBegin
  BY <1>4, Tasks
     DEF LegitimizeBegin, callVars, countVars, localVars, mountVars,
         umountVars, historyVars
<1>5. CASE LegitimizeInc
  BY <1>5, Tasks
     DEF LegitimizeInc, callVars, countVars, localVars, mountVars, umountVars,
         historyVars
<1>6. CASE LegitimizeRetry
  BY <1>6, Tasks
     DEF LegitimizeRetry, callVars, countVars, localVars, mountVars,
         umountVars, historyVars
<1>7. CASE LegitimizeLock
  BY <1>7, Tasks
     DEF LegitimizeLock, callVars, countVars, localVars, mountVars,
         umountVars, historyVars
<1>8. CASE LegitimizeFlags
  BY <1>8, Tasks
     DEF LegitimizeFlags, callVars, countVars, localVars, mountVars,
         umountVars, historyVars
<1>9. CASE LegitimizeUnlock
  BY <1>9, Tasks
     DEF LegitimizeUnlock, callVars, countVars, localVars, mountVars,
         umountVars, historyVars
<1>10. CASE legitimize_mnt
  BY <1>10, Tasks
     DEF legitimize_mnt, CallMntput, countVars, localVars, mountVars,
         umountVars, historyVars
<1>11. CASE LegitimizeRelock
  BY <1>11, Tasks
     DEF LegitimizeRelock, callVars, countVars, localVars, mountVars,
         umountVars, historyVars
<1>12. CASE WalkerFail
  BY <1>12, Tasks
     DEF WalkerFail, WalkerLeaves, callVars, countVars, mountVars, umountVars,
         historyVars
<1>13. CASE WalkerLegit
  BY <1>13, Tasks
     DEF WalkerLegit, WalkerLeaves, callVars, countVars, mountVars,
         umountVars, historyVars
<1>14. CASE WalkerUse
  BY <1>14, Tasks
     DEF WalkerUse, CallMntput, countVars, localVars, mountVars, umountVars,
         historyVars
<1>15. CASE Mntput(W)
  BY <1>15, MntputDebt, Tasks
<1> QED
  BY <1>1, <1>2, <1>3, <1>4, <1>5, <1>6, <1>7, <1>8, <1>9, <1>10, <1>11,
     <1>12, <1>13, <1>14, <1>15
     DEF walker

(* The unmounting task.                                                    *)
LEMMA MainDebt ==
  ASSUME Doom, NEW m \in Mounts, main
  PROVE  DebtStep(U, m)
<1>0. TypeOK /\ LoopInv /\ Lists
  BY DEF Doom, Base, TypeInv, Ledger, UmountInv
<1> USE DEF TypeOK, At, Goto, DebtStep, DebtKept, AtHand, InHead, Doomed,
            Returns, WorkReturns, CountReturns
<1>1. CASE UmountRefused
  BY <1>1, <1>0, Tasks
     DEF UmountRefused, DROP_REF, countVars, localVars, mountVars,
         historyVars, CallMntput
<1>2. CASE UmountAllowed
  BY <1>2, <1>0, Tasks
     DEF UmountAllowed, callVars, countVars, localVars, mountVars, umountVars,
         historyVars
<1>3. CASE UmountLock
  BY <1>3, <1>0, Tasks
     DEF UmountLock, callVars, countVars, localVars, mountVars, umountVars,
         historyVars
<1>4. CASE do_umount
  BY <1>4, <1>0, Tasks
     DEF do_umount, UmountFails, UmountTreeBegin, StartCount, localVars,
         historyVars, callVars, countVars
<1>5. CASE propagate_mount_busy
  BY <1>5, <1>0, Tasks
     DEF propagate_mount_busy, UmountFails, UmountTreeBegin, localVars,
         historyVars, callVars, countVars
<1>6. CASE umount_tree
  BY <1>6, <1>0, Tasks
     DEF umount_tree, callVars, countVars, localVars, umountVars
<1>7. CASE umount_mnt
  <2>1. ~fast_final[k]
    <3>1. ~Peek /\ ~Queueing /\ ~Holding /\ ~Ending
      BY <1>7 DEF umount_mnt, Peek, Queueing, Holding, Ending, InPut, OnWayTo, Counting,
                PutLabels, BeforeDec, AfterDec
    <3> QED
      BY <1>7, <1>0, <3>1, InsertedType DEF Lists, LoopInv, umount_mnt
  <2> QED
    BY <1>7, <1>0, <2>1, Tasks
       DEF umount_mnt, callVars, localVars, historyVars
<1>8. CASE UmountDropsCaller
  BY <1>8, <1>0, Tasks
     DEF UmountDropsCaller, callVars, countVars, localVars, mountVars,
         historyVars
<1>9. CASE namespace_unlock
  BY <1>9, <1>0, Tasks
     DEF namespace_unlock, callVars, countVars, localVars, mountVars,
         umountVars, historyVars
<1>10. CASE UmountEnd
  BY <1>10, <1>0, Tasks
     DEF UmountEnd, DROP_REF, callVars, countVars, localVars, mountVars,
         historyVars, CallMntput
<1>11. CASE kern_unmount_array
  <2>1. ~fast_final[INSERTED(k)]
    <3>1. ~Peek /\ ~Queueing /\ ~Holding /\ ~Ending
      BY <1>11 DEF kern_unmount_array, Peek, Queueing, Holding, Ending, InPut, OnWayTo, Counting,
                PutLabels, BeforeDec, AfterDec
    <3> QED
      BY <1>11, <1>0, <3>1, InsertedType DEF Lists, LoopInv, kern_unmount_array
  <2> QED
    BY <1>11, <1>0, <2>1, Tasks
       DEF kern_unmount_array, callVars, localVars, historyVars
<1>12. CASE UnmountedLock
  BY <1>12, <1>0, Tasks
     DEF UnmountedLock, callVars, countVars, localVars, mountVars, historyVars
<1>13. CASE UnheldNext
  BY <1>13, <1>0, Tasks
     DEF UnheldNext, StartCount, callVars, countVars, localVars, mountVars,
         historyVars
<1>14. CASE mntput_unheld
  <2>1. ~fast_final[cur[U]]
    <3>1. pc[U] = "unheld_test" /\ Peek /\ OnWayTo(U, "unheld_test")
      BY <1>14 DEF mntput_unheld, Peek, OnWayTo
    <3>2. k \in Mounts /\ cur[U] = INSERTED(k) /\ k \in Int
      BY <1>0, <3>1 DEF Lists, Mounts
    <3> QED
      BY <1>0, <3>1, <3>2 DEF Lists
  <2> QED
    BY <1>14, <1>0, <2>1, Tasks
       DEF mntput_unheld, callVars, localVars, mountVars, historyVars
<1>15. CASE UnheldDec
  BY <1>15, <1>0, Tasks
     DEF UnheldDec, callVars, countVars, localVars, mountVars, umountVars,
         historyVars
<1>16. CASE UnheldFinal
  <2>1. /\ pc[U] = "unheld_final" /\ pc'[U] = "unheld_next" /\ cur' = cur /\ task_work' = task_work
        /\ head' = head /\ cleaned' = cleaned
        /\ fast_final' = [fast_final EXCEPT ![cur[U]] = TRUE]
        /\ mnt_flags' = [mnt_flags EXCEPT ![cur[U]] = @ \cup {"MNT_DOOMED"}]
    BY <1>16, <1>0, Tasks DEF UnheldFinal, mntput_final_locked, callVars
  <2>2. CASE m = cur[U]
    <3>1. ~Doomed(m)
      BY <2>1, <2>2 DEF Doom, DoomInv
    <3>2. Peek /\ k \in Mounts /\ m = INSERTED(k) /\ k \in Int
      BY <1>0, <2>1, <2>2 DEF Lists, Peek, Mounts
    <3>3. m \in head
      BY <1>0, <3>2 DEF Lists
    <3>4. fast_final'[m] /\ Doomed(m)'
      BY <1>0, <2>1, <2>2
    <3>5. ~AtHand(U, m) /\ ~AtHand(U, m)'
      BY <2>1
    <3>6. InHead(U, m)'
      BY <2>1, <3>3, <3>4
    <3> QED
      BY <2>1, <3>1, <3>4, <3>5, <3>6
  <2>3. CASE m # cur[U]
    <3>1. fast_final'[m] = fast_final[m] /\ mnt_flags'[m] = mnt_flags[m]
      BY <1>0, <2>1, <2>3
    <3> QED
      BY <2>1, <3>1
  <2> QED
    BY <2>2, <2>3
<1>17. CASE UnmountedUnlock
  BY <1>17, <1>0, Tasks
     DEF UnmountedUnlock, callVars, countVars, localVars, mountVars,
         historyVars
<1>18. CASE QueueNext
  <2>1. k \in Int /\ pc[U] = "queue_next" /\ Queueing
    BY <1>18, <1>0 DEF QueueNext, Queueing
  <2>2. INSERTED(k) \in head => fast_final[INSERTED(k)]
    <3>1. INSERTED(k) \in head => k \in Mounts
      BY <1>0, <2>1, ConfigAssumption DEF INSERTED, Mounts
    <3> QED
      BY <1>0, <2>1, <3>1 DEF Lists
  <2> QED
    BY <1>18, <1>0, <2>1, <2>2, Tasks
       DEF QueueNext, localVars, mountVars, historyVars
<1>19. CASE mntput_unmounted
  BY <1>19, <1>0, Tasks
     DEF mntput_unmounted, callVars, countVars, mountVars, historyVars
<1>20. CASE HeldGp
  BY <1>20, <1>0, Tasks
     DEF HeldGp, synchronize_rcu, callVars, countVars, mountVars, umountVars,
         historyVars
<1>21. CASE HeldNext
  BY <1>21, <1>0, Tasks
     DEF HeldNext, CallMntput, callVars, countVars, localVars, mountVars,
         historyVars
<1>22. CASE HeldEnd
  BY <1>22, <1>0, Tasks
     DEF HeldEnd, callVars, countVars, localVars, mountVars, umountVars,
         historyVars
<1>23. CASE Join
  BY <1>23, <1>0, Tasks
     DEF Join, callVars, countVars, localVars, mountVars, umountVars,
         historyVars
<1>24. CASE Mntput(U)
  BY <1>24, <1>0, MntputDebt, Tasks
<1> QED
  BY <1>1, <1>2, <1>3, <1>4, <1>5, <1>6, <1>7, <1>8, <1>9, <1>10, <1>11,
     <1>12, <1>13, <1>14, <1>15, <1>16, <1>17, <1>18, <1>19, <1>20, <1>21,
     <1>22, <1>23, <1>24
     DEF main

(* The end of a cleanup: the grace period, the free, the way out.          *)
EndStep(t) ==
    /\ pc'[t] = "cleanup_gp" => cleanup_mnt(t) \/ CleanupGp(t)
    /\ pc'[t] = "free" => CleanupGp(t) /\ ~in_rcu[LastOther(t)]
    /\ freed' = freed \/ free_vfsmnt(t)
    /\ pc'[t] \in {"u_return", "done"} => NoTaskWork(t) \/ Join

(* mntput() and the work it queues.                                        *)
LEMMA MntputEnd ==
  ASSUME TypeOK, NEW t \in Threads, Mntput(t)
  PROVE  EndStep(t)
<1> USE DEF TypeOK, At, Goto, EndStep, Returns, WorkReturns, CountReturns
<1>1. CASE MntputBegin(t)
  BY <1>1 DEF MntputBegin, historyVars
<1>2. CASE mntput_no_expire(t)
  BY <1>2 DEF mntput_no_expire, historyVars
<1>3. CASE MntputFast(t)
  BY <1>3 DEF MntputFast, historyVars
<1>4. CASE MntputFastEnd(t)
  BY <1>4 DEF MntputFastEnd, historyVars
<1>5. CASE SlowpathLock(t)
  BY <1>5 DEF SlowpathLock, historyVars
<1>6. CASE SlowpathDec(t)
  BY <1>6 DEF SlowpathDec, StartCount, historyVars
<1>7. CASE CountPuts(t)
  BY <1>7 DEF CountPuts, NextCpu, historyVars
<1>8. CASE CountGets(t)
  BY <1>8 DEF CountGets, NextCpu, historyVars
<1>9. CASE mntput_no_expire_slowpath(t)
  BY <1>9 DEF mntput_no_expire_slowpath, historyVars
<1>10. CASE SlowpathRcuUnlock(t)
  BY <1>10 DEF SlowpathRcuUnlock, historyVars
<1>11. CASE SlowpathUnlock(t)
  BY <1>11 DEF SlowpathUnlock, historyVars
<1>12. CASE mntput_queue_cleanup(t)
  BY <1>12 DEF mntput_queue_cleanup, historyVars
<1>13. CASE cleanup_mnt(t)
  <2>1. pc'[t] = "cleanup_gp" /\ freed' = freed
    BY <1>13 DEF cleanup_mnt
  <2> QED
    BY <1>13, <2>1
<1>14. CASE CleanupGp(t)
  <2>1. freed' = freed /\ pc'[t] \in {"cleanup_gp", "free"}
    BY <1>14 DEF CleanupGp, synchronize_rcu, historyVars
  <2>2. pc'[t] = "free" => ~in_rcu[LastOther(t)]
    BY <1>14 DEF CleanupGp, synchronize_rcu
  <2> QED
    BY <1>14, <2>1, <2>2
<1>15. CASE free_vfsmnt(t)
  <2>1. pc'[t] \in Returns
    BY <1>15 DEF free_vfsmnt
  <2> QED
    BY <1>15, <2>1
<1>16. CASE run_task_work(t)
  BY <1>16 DEF run_task_work, historyVars
<1>17. CASE NoTaskWork(t)
  <2>1. pc'[t] \in WorkReturns /\ freed' = freed
    BY <1>17 DEF NoTaskWork, historyVars
  <2> QED
    BY <1>17, <2>1
<1> QED
  BY <1>1, <1>2, <1>3, <1>4, <1>5, <1>6, <1>7, <1>8, <1>9, <1>10, <1>11,
     <1>12, <1>13, <1>14, <1>15, <1>16, <1>17
     DEF Mntput

(* The holder.                                                             *)
LEMMA HolderEnd ==
  ASSUME TypeOK, holder
  PROVE  EndStep(H)
<1> USE DEF TypeOK, At, Goto, EndStep, Returns, WorkReturns, CountReturns
<1>1. CASE HolderGet
  BY <1>1, Tasks DEF HolderGet, historyVars
<1>2. CASE HolderLastPut
  BY <1>2, Tasks DEF HolderLastPut, historyVars
<1>3. CASE Mntput(H)
  BY <1>3, MntputEnd, Tasks
<1> QED
  BY <1>1, <1>2, <1>3 DEF holder

(* The walker.                                                             *)
LEMMA WalkerEnd ==
  ASSUME TypeOK, walker
  PROVE  EndStep(W)
<1> USE DEF TypeOK, At, Goto, EndStep, Returns, WorkReturns, CountReturns
<1>1. CASE WalkerBegin
  BY <1>1, Tasks DEF WalkerBegin, historyVars
<1>2. CASE read_seqbegin
  BY <1>2, Tasks DEF read_seqbegin, historyVars
<1>3. CASE WalkerFind
  BY <1>3, Tasks DEF WalkerFind, historyVars
<1>4. CASE LegitimizeBegin
  BY <1>4, Tasks DEF LegitimizeBegin, historyVars
<1>5. CASE LegitimizeInc
  BY <1>5, Tasks DEF LegitimizeInc, historyVars
<1>6. CASE LegitimizeRetry
  BY <1>6, Tasks DEF LegitimizeRetry, historyVars
<1>7. CASE LegitimizeLock
  BY <1>7, Tasks DEF LegitimizeLock, historyVars
<1>8. CASE LegitimizeFlags
  BY <1>8, Tasks DEF LegitimizeFlags, historyVars
<1>9. CASE LegitimizeUnlock
  BY <1>9, Tasks DEF LegitimizeUnlock, historyVars
<1>10. CASE legitimize_mnt
  BY <1>10, Tasks DEF legitimize_mnt, CallMntput, historyVars
<1>11. CASE LegitimizeRelock
  BY <1>11, Tasks DEF LegitimizeRelock, historyVars
<1>12. CASE WalkerFail
  BY <1>12, Tasks DEF WalkerFail, WalkerLeaves, historyVars
<1>13. CASE WalkerLegit
  BY <1>13, Tasks DEF WalkerLegit, WalkerLeaves, historyVars
<1>14. CASE WalkerUse
  BY <1>14, Tasks DEF WalkerUse, CallMntput, historyVars
<1>15. CASE Mntput(W)
  BY <1>15, MntputEnd, Tasks
<1> QED
  BY <1>1, <1>2, <1>3, <1>4, <1>5, <1>6, <1>7, <1>8, <1>9, <1>10, <1>11,
     <1>12, <1>13, <1>14, <1>15
     DEF walker

(* The unmounting task.                                                    *)
LEMMA MainEnd ==
  ASSUME TypeOK, main
  PROVE  EndStep(U)
<1> USE DEF TypeOK, At, Goto, EndStep, Returns, WorkReturns, CountReturns
<1>1. CASE UmountRefused
  BY <1>1, Tasks DEF UmountRefused, DROP_REF, historyVars, CallMntput
<1>2. CASE UmountAllowed
  BY <1>2, Tasks DEF UmountAllowed, historyVars
<1>3. CASE UmountLock
  BY <1>3, Tasks DEF UmountLock, historyVars
<1>4. CASE do_umount
  BY <1>4, Tasks
     DEF do_umount, UmountFails, UmountTreeBegin, StartCount, historyVars
<1>5. CASE propagate_mount_busy
  BY <1>5, Tasks
     DEF propagate_mount_busy, UmountFails, UmountTreeBegin, historyVars
<1>6. CASE umount_tree
  BY <1>6, Tasks DEF umount_tree
<1>7. CASE umount_mnt
  BY <1>7, Tasks DEF umount_mnt, historyVars
<1>8. CASE UmountDropsCaller
  BY <1>8, Tasks DEF UmountDropsCaller, historyVars
<1>9. CASE namespace_unlock
  BY <1>9, Tasks DEF namespace_unlock, historyVars
<1>10. CASE UmountEnd
  BY <1>10, Tasks DEF UmountEnd, DROP_REF, historyVars, CallMntput
<1>11. CASE kern_unmount_array
  BY <1>11, Tasks DEF kern_unmount_array, mnt_make_shortterm, historyVars
<1>12. CASE UnmountedLock
  BY <1>12, Tasks DEF UnmountedLock, historyVars
<1>13. CASE UnheldNext
  BY <1>13, Tasks DEF UnheldNext, StartCount, historyVars
<1>14. CASE mntput_unheld
  BY <1>14, Tasks DEF mntput_unheld, historyVars
<1>15. CASE UnheldDec
  BY <1>15, Tasks DEF UnheldDec, historyVars
<1>16. CASE UnheldFinal
  BY <1>16, Tasks DEF UnheldFinal
<1>17. CASE UnmountedUnlock
  BY <1>17, Tasks DEF UnmountedUnlock, historyVars
<1>18. CASE QueueNext
  BY <1>18, Tasks DEF QueueNext, historyVars
<1>19. CASE mntput_unmounted
  BY <1>19, Tasks DEF mntput_unmounted, historyVars
<1>20. CASE HeldGp
  BY <1>20, Tasks DEF HeldGp, synchronize_rcu, historyVars
<1>21. CASE HeldNext
  BY <1>21, Tasks DEF HeldNext, CallMntput, historyVars
<1>22. CASE HeldEnd
  BY <1>22, Tasks DEF HeldEnd, historyVars
<1>23. CASE Join
  <2>1. pc'[U] = "done" /\ freed' = freed
    BY <1>23, Tasks DEF Join, historyVars
  <2> QED
    BY <1>23, <2>1
<1>24. CASE Mntput(U)
  BY <1>24, MntputEnd, Tasks
<1> QED
  BY <1>1, <1>2, <1>3, <1>4, <1>5, <1>6, <1>7, <1>8, <1>9, <1>10, <1>11,
     <1>12, <1>13, <1>14, <1>15, <1>16, <1>17, <1>18, <1>19, <1>20, <1>21,
     <1>22, <1>23, <1>24
     DEF main

(* U does not go back to its lists.                                        *)
LEMMA LatePut ==
  ASSUME TypeOK, Phases, Mntput(U), Holding \/ Ending
  PROVE  (Holding \/ Ending)'
<1> USE Tasks DEF TypeOK, At, Goto, Holding, Ending, InPut, OnWayTo, Counting,
            PutLabels, BeforeDec, AfterDec, CountReturns
<1>0. wret[U] = "u_return"
  BY DEF Phases
<1>1. CASE MntputBegin(U)
  BY <1>1, <1>0 DEF MntputBegin, callVars, countVars
<1>2. CASE mntput_no_expire(U)
  BY <1>2, <1>0 DEF mntput_no_expire, callVars, countVars
<1>3. CASE MntputFast(U)
  BY <1>3, <1>0 DEF MntputFast, callVars, countVars
<1>4. CASE MntputFastEnd(U)
  BY <1>4, <1>0 DEF MntputFastEnd, callVars, countVars
<1>5. CASE SlowpathLock(U)
  BY <1>5, <1>0 DEF SlowpathLock, callVars, countVars
<1>6. CASE SlowpathDec(U)
  BY <1>6, <1>0 DEF SlowpathDec, StartCount
<1>7. CASE CountPuts(U)
  BY <1>7, <1>0 DEF CountPuts, NextCpu, callVars
<1>8. CASE CountGets(U)
  BY <1>8, <1>0 DEF CountGets, NextCpu, callVars
<1>9. CASE mntput_no_expire_slowpath(U)
  BY <1>9, <1>0 DEF mntput_no_expire_slowpath, callVars, countVars
<1>10. CASE SlowpathRcuUnlock(U)
  BY <1>10, <1>0 DEF SlowpathRcuUnlock, callVars, countVars
<1>11. CASE SlowpathUnlock(U)
  BY <1>11, <1>0 DEF SlowpathUnlock, callVars, countVars
<1>12. CASE mntput_queue_cleanup(U)
  BY <1>12, <1>0 DEF mntput_queue_cleanup, callVars, countVars
<1>13. CASE cleanup_mnt(U)
  BY <1>13, <1>0 DEF cleanup_mnt, callVars, countVars
<1>14. CASE CleanupGp(U)
  BY <1>14, <1>0 DEF CleanupGp, synchronize_rcu, callVars, countVars
<1>15. CASE free_vfsmnt(U)
  BY <1>15, <1>0 DEF free_vfsmnt, callVars, countVars
<1>16. CASE run_task_work(U)
  BY <1>16, <1>0 DEF run_task_work, countVars
<1>17. CASE NoTaskWork(U)
  BY <1>17, <1>0 DEF NoTaskWork, callVars, countVars
<1> QED
  BY <1>1, <1>2, <1>3, <1>4, <1>5, <1>6, <1>7, <1>8, <1>9, <1>10, <1>11,
     <1>12, <1>13, <1>14, <1>15, <1>16, <1>17
     DEF Mntput

(* One grace period.                                                       *)
LEMMA GpsStep ==
  ASSUME Base, main, gps = 0 \/ (gps = 1 /\ (Holding \/ Ending))
  PROVE  gps' = 0 \/ (gps' = 1 /\ (Holding \/ Ending)')
<1>0. TypeOK /\ Phases
  BY DEF Base, TypeInv, Ledger, UmountInv
<1> USE Tasks DEF TypeOK, At, Goto, Holding, Ending, InPut, OnWayTo, Counting,
            PutLabels, BeforeDec, AfterDec, CountReturns
<1>1. CASE UmountRefused
  BY <1>1, <1>0 DEF UmountRefused, DROP_REF, countVars, CallMntput
<1>2. CASE UmountAllowed
  BY <1>2, <1>0 DEF UmountAllowed, callVars, countVars, umountVars
<1>3. CASE UmountLock
  BY <1>3, <1>0 DEF UmountLock, callVars, countVars, umountVars
<1>4. CASE do_umount
  BY <1>4, <1>0
     DEF do_umount, UmountFails, UmountTreeBegin, StartCount, callVars,
         countVars
<1>5. CASE propagate_mount_busy
  BY <1>5, <1>0
     DEF propagate_mount_busy, UmountFails, UmountTreeBegin, callVars,
         countVars
<1>6. CASE umount_tree
  BY <1>6, <1>0 DEF umount_tree, callVars, countVars, umountVars
<1>7. CASE umount_mnt
  BY <1>7, <1>0 DEF umount_mnt, callVars, countVars
<1>8. CASE UmountDropsCaller
  BY <1>8, <1>0 DEF UmountDropsCaller, callVars, countVars
<1>9. CASE namespace_unlock
  BY <1>9, <1>0 DEF namespace_unlock, callVars, countVars, umountVars
<1>10. CASE UmountEnd
  BY <1>10, <1>0 DEF UmountEnd, DROP_REF, callVars, countVars, CallMntput
<1>11. CASE kern_unmount_array
  BY <1>11, <1>0
     DEF kern_unmount_array, mnt_make_shortterm, callVars, countVars
<1>12. CASE UnmountedLock
  BY <1>12, <1>0 DEF UnmountedLock, callVars, countVars
<1>13. CASE UnheldNext
  BY <1>13, <1>0 DEF UnheldNext, StartCount, callVars, countVars
<1>14. CASE mntput_unheld
  BY <1>14, <1>0 DEF mntput_unheld, callVars, countVars
<1>15. CASE UnheldDec
  BY <1>15, <1>0 DEF UnheldDec, callVars, countVars, umountVars
<1>16. CASE UnheldFinal
  BY <1>16, <1>0 DEF UnheldFinal, callVars, countVars
<1>17. CASE UnmountedUnlock
  BY <1>17, <1>0 DEF UnmountedUnlock, callVars, countVars
<1>18. CASE QueueNext
  BY <1>18, <1>0 DEF QueueNext, countVars
<1>19. CASE mntput_unmounted
  BY <1>19, <1>0 DEF mntput_unmounted, callVars, countVars
<1>20. CASE HeldGp
  BY <1>20, <1>0 DEF HeldGp, synchronize_rcu, callVars, countVars, umountVars
<1>21. CASE HeldNext
  BY <1>21, <1>0 DEF HeldNext, CallMntput, callVars, countVars
<1>22. CASE HeldEnd
  BY <1>22, <1>0 DEF HeldEnd, callVars, countVars, umountVars
<1>23. CASE Join
  BY <1>23, <1>0 DEF Join, callVars, countVars, umountVars
<1>24. CASE Mntput(U)
  <2>1. gps' = gps
    BY <1>24, <1>0, MntputFrame DEF umountOnly
  <2>2. Holding \/ Ending => (Holding \/ Ending)'
    BY <1>24, <1>0, LatePut
  <2> HIDE DEF Holding, Ending
  <2> QED
    BY <2>1, <2>2
<1> QED
  BY <1>1, <1>2, <1>3, <1>4, <1>5, <1>6, <1>7, <1>8, <1>9, <1>10, <1>11,
     <1>12, <1>13, <1>14, <1>15, <1>16, <1>17, <1>18, <1>19, <1>20, <1>21,
     <1>22, <1>23, <1>24
     DEF main

(* The debts for a mount.                                                  *)
LEMMA DebtsStep ==
  ASSUME Doom, Doom', NEW t \in Threads, Acts(t), NEW m \in Mounts, Debts(m)
  PROVE  Debts(m)'
<1>1. TypeOK /\ TypeOK' /\ Base
  BY DEF Doom, Base, TypeInv
<1>2. DebtStep(t, m)
  BY <1>1, HolderDebt, WalkerDebt, MainDebt DEF Acts, Threads
<1>3. ASSUME NEW s \in Threads \ {t}
      PROVE  /\ AtHand(s, m)' <=> AtHand(s, m)
             /\ m \in task_work'[s] <=> m \in task_work[s]
             /\ InHead(s, m)' <=> InHead(s, m)
  BY DEF Acts, Frame, umountOnly, AtHand, InHead
<1>4. fast_final'[m] => fast_final[m] \/ InHead(U, m)'
  <2>1. CASE fast_final' = fast_final
    BY <2>1
  <2>2. CASE t = U /\ UnheldFinal
    <3>1. /\ pc[U] = "unheld_final" /\ head' = head
          /\ fast_final' = [fast_final EXCEPT ![cur[U]] = TRUE]
      BY <2>2 DEF UnheldFinal, At
    <3>2. Lists /\ Peek
      BY <3>1 DEF Doom, Base, Ledger, UmountInv, Peek
    <3>3. k \in Mounts /\ cur[U] = INSERTED(k) /\ k \in Int
      BY <3>1, <3>2 DEF Lists, Mounts
    <3>4. cur[U] \in head
      BY <3>2, <3>3 DEF Lists
    <3> QED
      BY <1>1, <3>1, <3>4 DEF InHead, TypeOK
  <2> QED
    BY <2>1, <2>2 DEF Acts, DoomStep
<1>5. cleaned[m] \in Nat
  BY <1>1 DEF TypeOK
<1>6. \A s \in Threads \ {t} : (Owes(s, m)' <=> Owes(s, m)) /\ (OwesOnce(s, m)' <=> OwesOnce(s, m))
  BY <1>3 DEF Owes, OwesOnce
<1>7. OwesOnce(t, m) /\ (Owes(t, m) => cleaned[m] = 0 /\ Doomed(m))
  BY DEF Debts
<1>8. ASSUME Doomed(m)' <=> Doomed(m), cleaned'[m] = cleaned[m],
             Owes(t, m)' <=> Owes(t, m), OwesOnce(t, m)'
      PROVE  Debts(m)'
  <2>1. \A s \in Threads : (Owes(s, m)' <=> Owes(s, m)) /\ OwesOnce(s, m)'
    BY <1>6, <1>8 DEF Debts
  <2>2. fast_final'[m] => fast_final[m] \/ Owes(U, m)'
    BY <1>4 DEF Owes
  <2>3. fast_final'[m] => cleaned'[m] = 1 \/ Owes(U, m)'
    BY <1>8, <2>1, <2>2, Tasks DEF Debts
  <2> HIDE DEF Owes, OwesOnce
  <2> QED
    BY <1>8, <2>1, <2>3 DEF Debts
<1>9. ASSUME ~Doomed(m), Doomed(m)', cleaned'[m] = cleaned[m], Owes(t, m)', OwesOnce(t, m)'
      PROVE  Debts(m)'
  <2>1. cleaned[m] = 0 /\ \A s \in Threads : ~Owes(s, m)
    BY <1>9 DEF Debts
  <2>2. \A s \in Threads : (Owes(s, m)' <=> s = t) /\ OwesOnce(s, m)'
    BY <1>6, <1>9, <2>1 DEF Debts
  <2>3. fast_final'[m] => Owes(U, m)'
    <3>1. ~fast_final[m]
      BY <1>9 DEF Doom, DoomInv
    <3> QED
      BY <1>4, <3>1 DEF Owes
  <2> QED
    BY <1>9, <2>1, <2>2, <2>3 DEF Debts
<1>10. ASSUME Doomed(m)' <=> Doomed(m), cleaned'[m] = cleaned[m] + 1, Owes(t, m), ~Owes(t, m)',
              OwesOnce(t, m)'
       PROVE  Debts(m)'
  <2>1. cleaned[m] = 0 /\ \A s \in Threads : Owes(s, m) => s = t
    BY <1>10 DEF Debts
  <2>2. \A s \in Threads : ~Owes(s, m)' /\ OwesOnce(s, m)'
    BY <1>6, <1>10, <2>1 DEF Debts
  <2>3. Doomed(m)' /\ cleaned'[m] = 1
    BY <1>7, <1>10, <2>1
  <2> QED
    BY <2>2, <2>3 DEF Debts
<1>11. \/ (Doomed(m)' <=> Doomed(m)) /\ cleaned'[m] = cleaned[m]
          /\ (Owes(t, m)' <=> Owes(t, m)) /\ OwesOnce(t, m)'
       \/ ~Doomed(m) /\ Doomed(m)' /\ cleaned'[m] = cleaned[m] /\ Owes(t, m)' /\ OwesOnce(t, m)'
       \/ (Doomed(m)' <=> Doomed(m)) /\ cleaned'[m] = cleaned[m] + 1 /\ Owes(t, m) /\ ~Owes(t, m)'
          /\ OwesOnce(t, m)'
  BY <1>2, <1>7 DEF DebtStep, DebtKept, Owes, OwesOnce
<1> QED
  BY <1>8, <1>9, <1>10, <1>11

(* cleanup_mnt() is behind those who wait for its grace period.            *)
LEMMA CleanedStep ==
  ASSUME Doom, Doom', NEW t \in Threads, Acts(t), EndStep(t), CleanupInv,
         NEW s \in Threads, pc'[s] \in {"cleanup_gp", "free"}
  PROVE  cleaned'[cur'[s]] = 1
<1>1. TypeOK /\ \A m \in Mounts : cleaned[m] \in Nat
  BY DEF Doom, Base, TypeInv, TypeOK
<1>2. ASSUME NEW m \in Mounts, cleaned[m] = 1
      PROVE  cleaned'[m] = 1
  <2>1. Debts(m) /\ Debts(m)'
    BY DebtsStep DEF CleanupInv
  <2>2. DebtStep(t, m)
    BY <1>1, HolderDebt, WalkerDebt, MainDebt DEF Acts, Threads
  <2>3. cleaned'[m] \in {1, 2} /\ cleaned'[m] \in {0, 1}
    BY <1>2, <2>1, <2>2 DEF Debts, DebtStep, DebtKept
  <2> QED
    BY <2>3
<1>3. PICK m \in Mounts : m = cur[s]
  BY <1>1 DEF TypeOK
<1>4. CASE s # t
  <2>1. pc[s] \in {"cleanup_gp", "free"} /\ cur'[s] = m
    BY <1>3, <1>4 DEF Acts, Frame
  <2>2. cleaned[cur[s]] = 1
    BY <2>1 DEF CleanupInv
  <2> QED
    BY <1>2, <1>3, <2>1, <2>2
<1>5. CASE s = t /\ cleanup_mnt(t)
  <2>1. pc[t] = "cleanup" /\ cur'[t] = m /\ cleaned'[m] = cleaned[m] + 1
    BY <1>1, <1>3, <1>5 DEF cleanup_mnt, At, callVars, TypeOK
  <2>2. Owes(t, m)
    BY <1>3, <1>5, <2>1 DEF Owes, AtHand
  <2>3. cleaned[m] = 0
    BY <2>2 DEF CleanupInv, Debts
  <2> QED
    BY <1>5, <2>1, <2>3
<1>6. CASE s = t /\ CleanupGp(t)
  <2>1. pc[t] = "cleanup_gp" /\ cur'[t] = m
    BY <1>3, <1>6 DEF CleanupGp, synchronize_rcu, At, callVars
  <2>2. cleaned[m] = 1
    BY <1>3, <1>6, <2>1 DEF CleanupInv
  <2> QED
    BY <1>2, <1>6, <2>1, <2>2
<1> QED
  BY <1>4, <1>5, <1>6 DEF EndStep

(* The debts are inductive.                                                *)
LEMMA CleanupInductive ==
  ASSUME Doom, Doom', CleanupInv, [Next]_vars
  PROVE  CleanupInv'
<1>1. CASE UNCHANGED vars
  BY <1>1 DEF CleanupInv, Debts, Owes, OwesOnce, AtHand, InHead, Doomed, vars, callVars, countVars,
              localVars, mountVars, umountVars, historyVars, Holding, Ending, InPut, OnWayTo, Counting
<1>2. CASE \E t \in Threads : Acts(t)
  <2>1. PICK t \in Threads : Acts(t)
    BY <1>2
  <2>2. Base /\ TypeOK
    BY DEF Doom, Base, TypeInv
  <2>3. EndStep(t)
    BY <2>1, <2>2, HolderEnd, WalkerEnd, MainEnd DEF Acts, Threads
  <2>4. \A m \in Mounts : Debts(m)'
    BY <2>1, DebtsStep DEF CleanupInv
  <2>5. \A s \in Threads : pc'[s] \in {"cleanup_gp", "free"} => cleaned'[cur'[s]] = 1
    BY <2>1, <2>3, CleanedStep
  <2>6. ASSUME pc'[U] \in {"u_return", "done"}
        PROVE  task_work'[U] = {}
    <3>1. CASE t # U
      BY <2>1, <2>6, <3>1, Tasks DEF Acts, Frame, CleanupInv
    <3>2. CASE t = U /\ NoTaskWork(U)
      BY <3>2 DEF NoTaskWork
    <3>3. CASE t = U /\ Join
      BY <3>3 DEF Join, At, CleanupInv
    <3> QED
      BY <2>3, <2>6, <3>1, <3>2, <3>3 DEF EndStep
  <2>7. gps' = 0 \/ (gps' = 1 /\ (Holding \/ Ending)')
    <3>1. CASE t = U
      BY <2>1, <2>2, <3>1, GpsStep DEF Acts, CleanupInv
    <3>2. CASE t # U
      BY <2>1, <3>2, Tasks DEF Acts, Frame, umountOnly, CleanupInv, Holding, Ending, InPut, OnWayTo,
                               Counting
    <3> QED
      BY <3>1, <3>2
  <2> QED
    BY <2>4, <2>5, <2>6, <2>7 DEF CleanupInv
<1> QED
  BY <1>1, <1>2, SomeTask DEF Doom

(* Nothing is owed at the start.                                           *)
LEMMA CleanupInit == Init => CleanupInv
<1> SUFFICES ASSUME Init PROVE CleanupInv
  OBVIOUS
<1>1. /\ \A m \in Mounts : ~Doomed(m) /\ ~fast_final[m] /\ cleaned[m] = 0
      /\ \A t \in Threads : /\ task_work[t] = {}
                            /\ pc[t] \in {"shortterm", "umount", "h_loop", "walker", "done"}
      /\ head = {} /\ gps = 0
  BY DEF Init, init_mount, InitTasks, PerTask, Doomed, U, H, W
<1>2. \A m \in Mounts : Debts(m)
  BY <1>1 DEF Debts, Owes, OwesOnce, AtHand, InHead
<1> QED
  BY <1>1, <1>2, Tasks DEF CleanupInv

(* The invariant with the debts.                                           *)
Settlement == Doom /\ CleanupInv

(* The settlement holds in every reachable state.                          *)
LEMMA SettlementAlways == Spec => []Settlement
<1>1. Init => Settlement
  BY BaseInit, CountInit, DoomInit, CleanupInit DEF Doom, Settlement
<1>2. Settlement /\ [Next]_vars => Settlement'
  BY BaseInductive, CountInductive, DoomInductive, CleanupInductive DEF Doom, Settlement
<1> QED
  BY <1>1, <1>2, PTL DEF Spec

(* CleanupOnce: cleanup_mnt() runs at most once for a mount, whichever of  *)
(* the three tasks dooms it and however late the queued work runs.         *)
THEOREM CleanupCorrect == Spec => []CleanupOnce
<1>1. Settlement => CleanupOnce
  <2> SUFFICES ASSUME Settlement, NEW m \in Mounts
               PROVE  /\ cleaned[m] <= 1
                      /\ cleaned[m] = 1 => Doomed(m)
                      /\ Cardinality({t \in Threads : m \in task_work[t]}) + cleaned[m] <= 1
    BY DEF CleanupOnce
  <2>1. Debts(m)
    BY DEF Settlement, CleanupInv
  <2> DEFINE Q == {t \in Threads : m \in task_work[t]}
  <2>2. cleaned[m] \in {0, 1} /\ (cleaned[m] = 1 => Doomed(m))
    BY <2>1 DEF Debts
  <2>3. CASE Q = {}
    BY <2>2, <2>3, FS_EmptySet
  <2>4. CASE Q # {}
    <3>1. PICK t \in Threads : t \in Q
      BY <2>4
    <3>2. \A s \in Q : s = t
      BY <2>1, <3>1 DEF Debts, Owes
    <3>3. Q = {t} /\ cleaned[m] = 0
      BY <2>1, <3>1, <3>2 DEF Debts, Owes
    <3>4. Cardinality(Q) = 1
      BY <3>3, FS_Singleton
    <3> QED
      BY <2>2, <3>3, <3>4
  <2> QED
    BY <2>3, <2>4
<1> QED
  BY <1>1, SettlementAlways, PTL

(* OnlyHeldWait: one grace period for the batch, and only for the mounts   *)
(* somebody holds.                                                         *)
THEOREM HeldWaitCorrect == Spec => []OnlyHeldWait
<1>1. Settlement => OnlyHeldWait
  <2> SUFFICES ASSUME Settlement PROVE OnlyHeldWait
    OBVIOUS
  <2>1. gps <= 1
    BY DEF Settlement, CleanupInv
  <2>2. ASSUME pc[U] = "held_gp", NEW m \in Mounts, m \notin held
        PROVE  fast_final[m] /\ (m \in task_work[U] \/ cleaned[m] > 0)
    <3>1. Lists /\ Holding
      BY <2>2 DEF Settlement, Doom, Base, Ledger, UmountInv, Holding
    <3>2. fast_final[m] /\ head = {}
      BY <2>2, <3>1 DEF Lists
    <3>3. cleaned[m] = 1 \/ Owes(U, m)
      BY <3>2 DEF Settlement, CleanupInv, Debts
    <3>4. ~AtHand(U, m) /\ ~InHead(U, m)
      BY <2>2, <3>2 DEF AtHand, InHead
    <3> QED
      BY <3>2, <3>3, <3>4 DEF Owes
  <2> QED
    BY <2>1, <2>2 DEF OnlyHeldWait, At
<1> QED
  BY <1>1, SettlementAlways, PTL

-----------------------------------------------------------------------------
(* struct mount and its readers                                            *)

(* A mount is freed after its cleanup, and after every walker that found   *)
(* it has left its read section.                                           *)
Gone(m) == freed[m] \/ \E t \in Threads : pc[t] = "free" /\ cur[t] = m

FreeInv == \A m \in Mounts :
    Gone(m) => cleaned[m] = 1 /\ (m = WALK => pc[W] \notin Tentative)

(* A walker finds a mount in the hash or at the holder.                    *)
LEMMA TentativeEntry ==
  ASSUME TypeOK, WalkerLedger, walker, pc'[W] \in Tentative
  PROVE  pc[W] \in Tentative \/ Found(WALK)
<1> USE Tasks DEF TypeOK, At, Goto, WalkerLedger, Tentative
<1>1. CASE WalkerBegin
  BY <1>1 DEF WalkerBegin
<1>2. CASE read_seqbegin
  BY <1>2 DEF read_seqbegin
<1>3. CASE WalkerFind
  BY <1>3 DEF WalkerFind
<1>4. CASE LegitimizeBegin
  BY <1>4 DEF LegitimizeBegin
<1>5. CASE LegitimizeInc
  BY <1>5 DEF LegitimizeInc
<1>6. CASE LegitimizeRetry
  BY <1>6 DEF LegitimizeRetry
<1>7. CASE LegitimizeLock
  BY <1>7 DEF LegitimizeLock
<1>8. CASE LegitimizeFlags
  BY <1>8 DEF LegitimizeFlags
<1>9. CASE LegitimizeUnlock
  BY <1>9 DEF LegitimizeUnlock
<1>10. CASE legitimize_mnt
  BY <1>10 DEF legitimize_mnt, CallMntput
<1>11. CASE LegitimizeRelock
  BY <1>11 DEF LegitimizeRelock
<1>12. CASE WalkerFail
  BY <1>12 DEF WalkerFail, WalkerLeaves
<1>13. CASE WalkerLegit
  BY <1>13 DEF WalkerLegit, WalkerLeaves
<1>14. CASE WalkerUse
  BY <1>14 DEF WalkerUse, CallMntput
<1>15. CASE Mntput(W)
  <2>1. pc'[W] \in PutLabels \cup {ret[W], wret[W]}
    BY <1>15, MntputLabels
  <2> QED
    BY <2>1 DEF PutLabels, BeforeDec, AfterDec
<1> QED
  BY <1>1, <1>2, <1>3, <1>4, <1>5, <1>6, <1>7, <1>8, <1>9, <1>10, <1>11,
     <1>12, <1>13, <1>14, <1>15
     DEF walker

(* A mount is freed after its grace period only.                           *)
LEMMA FreeStep ==
  ASSUME Settlement, Settlement', FreeInv, NEW t \in Threads, Acts(t), EndStep(t),
         NEW m \in Mounts, Gone(m)'
  PROVE  cleaned'[m] = 1 /\ (m = WALK => pc'[W] \notin Tentative)
<1>1. TypeOK /\ Base /\ Doom /\ DoomInv /\ WalkerLedger /\ RcuProtocol
  BY DEF Settlement, Doom, Base, TypeInv, Ledger
<1>2. ASSUME Gone(m)
      PROVE  cleaned'[m] = 1 /\ (m = WALK => pc'[W] \notin Tentative)
  <2>1. cleaned[m] = 1 /\ (m = WALK => pc[W] \notin Tentative)
    BY <1>2 DEF FreeInv
  <2>2. cleaned'[m] = 1
    <3>1. Debts(m) /\ Debts(m)'
      BY DEF Settlement, CleanupInv
    <3>2. DebtStep(t, m)
      BY <1>1, HolderDebt, WalkerDebt, MainDebt DEF Acts, Threads
    <3> QED
      BY <2>1, <3>1, <3>2 DEF Debts, DebtStep, DebtKept
  <2>3. Doomed(m)
    BY <2>1 DEF Settlement, CleanupInv, Debts
  <2>4. ~Found(m)
    <3>1. ~hashed[m] /\ Clear(m)
      BY <1>1, <2>3, DoomedIsUnhashed
    <3> QED
      BY <3>1 DEF Found, Clear
  <2>5. m = WALK => pc'[W] \notin Tentative
    <3>1. CASE t = W
      BY <1>1, <2>1, <2>4, <3>1, TentativeEntry DEF Acts
    <3>2. CASE t # W
      BY <2>1, <3>2, Tasks DEF Acts, Frame
    <3> QED
      BY <3>1, <3>2
  <2> QED
    BY <2>2, <2>5
<1>3. ASSUME ~Gone(m)
      PROVE  cleaned'[m] = 1 /\ (m = WALK => pc'[W] \notin Tentative)
  <2>1. ~freed'[m]
    <3>1. CASE freed' = freed
      BY <1>3, <3>1 DEF Gone
    <3>2. CASE free_vfsmnt(t)
      BY <1>1, <1>3, <3>2 DEF free_vfsmnt, At, Gone, TypeOK
    <3> QED
      BY <3>1, <3>2 DEF EndStep
  <2>2. PICK s \in Threads : pc'[s] = "free" /\ cur'[s] = m
    BY <2>1 DEF Gone
  <2>3. s = t
    BY <1>3, <2>2 DEF Gone, Acts, Frame
  <2>4. CleanupGp(t) /\ ~in_rcu[LastOther(t)]
    BY <2>2, <2>3 DEF EndStep
  <2>5. cleaned'[m] = 1
    BY <2>2 DEF Settlement, CleanupInv
  <2>6. pc'[W] \notin Tentative
    <3>1. CASE t = W
      BY <2>2, <2>3, <3>1 DEF Tentative
    <3>2. CASE t # W
      <4>1. ~in_rcu[W] /\ pc'[W] = pc[W]
        BY <2>4, <3>2, Tasks DEF LastOther, Acts, Frame
      <4>2. pc[W] \notin Tentative
        BY <1>1, <4>1, Tasks DEF RcuProtocol, InReadSection, RcuLabels, Tentative
      <4> QED
        BY <4>1, <4>2
    <3> QED
      BY <3>1, <3>2
  <2> QED
    BY <2>5, <2>6
<1> QED
  BY <1>2, <1>3

(* What is known of freed mounts is inductive.                             *)
LEMMA FreeInductive ==
  ASSUME Settlement, Settlement', FreeInv, [Next]_vars
  PROVE  FreeInv'
<1>1. CASE UNCHANGED vars
  BY <1>1 DEF FreeInv, Gone, vars, callVars, historyVars
<1>2. CASE \E t \in Threads : Acts(t)
  <2>1. PICK t \in Threads : Acts(t)
    BY <1>2
  <2>2. TypeOK
    BY DEF Settlement, Doom, Base, TypeInv
  <2>3. EndStep(t)
    BY <2>1, <2>2, HolderEnd, WalkerEnd, MainEnd DEF Acts, Threads
  <2>4. \A m \in Mounts : Gone(m)' => cleaned'[m] = 1 /\ (m = WALK => pc'[W] \notin Tentative)
    BY <2>1, <2>3, FreeStep
  <2> QED
    BY <2>4 DEF FreeInv
<1> QED
  BY <1>1, <1>2, SomeTask DEF Settlement, Doom

(* A mount that was shut down is touched by nobody.                        *)
LEMMA CleanedUntouched ==
  ASSUME Settlement, NEW t \in Threads, NEW m \in Mounts, cur[t] = m, cleaned[m] = 1,
         pc[t] \in TouchLabels
  PROVE  pc[t] \in {"legit_inc", "legit_flags"} /\ t = W
<1>1. /\ Base /\ DoomInv /\ TypeOK /\ HolderLedger /\ WalkerLedger /\ Phases /\ Lists
      /\ UmountLedger /\ Debts(m)
  BY DEF Settlement, Doom, Base, TypeInv, Ledger, UmountInv, CleanupInv
<1>2. Doomed(m) /\ ~Owes(t, m)
  BY <1>1 DEF Debts
<1>3. Clear(m) /\ refs[U][m] = 0
  BY <1>1, <1>2, DoomedIsUnhashed
<1>4. pc[t] \notin BeforeDec
  BY <1>1, <1>3, PutterHas
<1>5. pc[t] \notin {"queue", "cleanup"}
  BY <1>2 DEF Owes, AtHand
<1>6. ~OnWayTo(t, "put_test")
  BY <1>1, <1>2 DEF DoomInv
<1>7. pc[t] = "walker_use" => t # W
  BY <1>1, <1>3 DEF WalkerLedger, Firm, Clear
<1>8. pc[t] \in {"unheld_dec", "unheld_final"} => t # U
  BY <1>1, <1>2 DEF DoomInv
<1>9. ~OnWayTo(t, "unheld_test") \/ t # U
  <2> SUFFICES ASSUME OnWayTo(U, "unheld_test"), t = U PROVE FALSE
    OBVIOUS
  <2>1. Peek /\ pc[U] # "unheld_final"
    BY DEF Peek, OnWayTo, Counting
  <2>2. k \in Mounts /\ cur[U] = INSERTED(k) /\ k \in Int
    BY <1>1 DEF Lists, Mounts
  <2>3. m \in head /\ ~fast_final[m]
    BY <1>1, <2>1, <2>2 DEF Lists
  <2>4. OwnRef(m)
    BY <2>1, <2>3 DEF OwnRef
  <2> QED
    BY <1>1, <1>3, <2>4 DEF UmountLedger, Bit
<1>10. ~OnWayTo(t, "busy_test") \/ t # U
  <2> SUFFICES ASSUME OnWayTo(U, "busy_test"), t = U PROVE FALSE
    OBVIOUS
  <2>1. Early /\ head = {}
    BY <1>1 DEF Early, Lists
  <2>2. OwnRef(m)
    BY <2>1 DEF OwnRef
  <2> QED
    BY <1>1, <1>3, <2>2 DEF UmountLedger, Bit
<1>11. cret[t] \in CountReturns
  BY <1>1 DEF TypeOK
<1>12. CASE t = H
  BY <1>1, <1>4, <1>5, <1>6, <1>12 DEF HolderLedger, PutLabels, AfterDec, TouchLabels, OnWayTo, Counting
<1>13. CASE t = W
  BY <1>1, <1>4, <1>5, <1>6, <1>7, <1>13
     DEF WalkerLedger, PutLabels, AfterDec, TouchLabels, OnWayTo, Counting, Tentative, Firm
<1>14. CASE t = U
  <2>1. pc[U] \notin {"walker_use", "legit_inc", "legit_flags"}
    BY <1>1 DEF Phases, Early, Peek, Queueing, Holding, Ending, InPut, OnWayTo, Counting, PutLabels,
                BeforeDec, AfterDec
  <2> QED
    BY <1>4, <1>5, <1>6, <1>8, <1>9, <1>10, <1>11, <1>14, <2>1
       DEF TouchLabels, BeforeDec, OnWayTo, Counting, CountReturns
<1> QED
  BY <1>12, <1>13, <1>14 DEF Threads

(* NoUAF: no task reads or writes struct mount once it is freed, and a     *)
(* walker that legitimized a mount never finds it shut down.               *)
THEOREM FreeCorrect == Spec => []NoUAF
<1>1. Init => Settlement /\ FreeInv
  <2>1. Init => FreeInv
    BY DEF Init, InitTasks, PerTask, FreeInv, Gone, U, H, W
  <2> QED
    BY <2>1, BaseInit, CountInit, DoomInit, CleanupInit DEF Doom, Settlement
<1>2. Settlement /\ FreeInv /\ [Next]_vars => (Settlement /\ FreeInv)'
  BY BaseInductive, CountInductive, DoomInductive, CleanupInductive, FreeInductive DEF Doom, Settlement
<1>3. Settlement /\ FreeInv => NoUAF
  <2> SUFFICES ASSUME Settlement, FreeInv PROVE NoUAF
    OBVIOUS
  <2>1. TypeOK /\ WalkerLedger
    BY DEF Settlement, Doom, Base, TypeInv, Ledger
  <2>2. ASSUME NEW t \in Threads, pc[t] \in TouchLabels
        PROVE  ~freed[cur[t]]
    <3>1. PICK m \in Mounts : m = cur[t]
      BY <2>1 DEF TypeOK
    <3>2. freed[m] => cleaned[m] = 1 /\ (m = WALK => pc[W] \notin Tentative)
      BY DEF FreeInv, Gone
    <3>3. cleaned[m] = 1 => pc[t] \in {"legit_inc", "legit_flags"} /\ t = W
      BY <2>2, <3>1, CleanedUntouched
    <3>4. t = W => m = WALK
      BY <2>1, <3>1 DEF WalkerLedger
    <3> QED
      BY <3>1, <3>2, <3>3, <3>4 DEF Tentative
  <2>3. ASSUME At(W, "walker_use")
        PROVE  cleaned[cur[W]] = 0
    <3>1. PICK m \in Mounts : m = cur[W]
      BY <2>1, Tasks DEF TypeOK
    <3>2. cleaned[m] \in {0, 1}
      BY DEF Settlement, CleanupInv, Debts
    <3>3. cleaned[m] # 1
      BY <2>3, <3>1, CleanedUntouched, Tasks DEF At, TouchLabels
    <3> QED
      BY <3>1, <3>2, <3>3
  <2> QED
    BY <2>2, <2>3 DEF NoUAF
<1> QED
  BY <1>1, <1>2, <1>3, PTL DEF Spec

-----------------------------------------------------------------------------
(* umount(2) without MNT_DETACH: when it returns 0, the file system is     *)
(* shut down, by the caller itself.  The last put of U comes after a grace *)
(* period, no walker is left with a transient reference, and so the count  *)
(* it sums up is not only no smaller than the references there are: it is  *)
(* exact.                                                                  *)

(* The slow path of mntput() and what may come after it.                   *)
SlowLabels ==
    {"slow_lock", "slow_dec", "count_puts", "count_gets", "put_test", "slow_rcu",
     "slow_unlock", "queue", "cleanup", "cleanup_gp", "free"}

(* U is done with the grace period and puts the mount somebody held.       *)
Settled == pc[U] = "held_next" \/ InPut("held_next")

(* The last put of U, up to its decision.                                  *)
Deciding ==
    ret[U] = "held_next" /\ (pc[U] \in BeforeDec \/ OnWayTo(U, "put_test"))

(* The mount has left its namespace.                                       *)
Detached == retval = 0 /\ (~Early \/ pc[U] = "tree_unhash")

SyncInv ==
    /\ (mnt_ns[0] = NULL) <=> Sync(0)
    /\ (mnt_ns[0] = NULL) <=> Detached
    /\ \A t \in {H, W} : pc[t] \notin SlowLabels /\ task_work[t] = {}
    /\ Settled => pc[W] \notin Tentative /\ pc[U] \notin {"put_dec", "put_rcu"}
    /\ cleaned[0] = 1 => cleaner[0] = U
    /\ retval = 0 /\ (Queueing \/ Holding \/ Ending) => Doomed(0) \/ 0 \in held \/ Deciding
    /\ Deciding => 0 \notin held

(* The sums the last put of U has seen are those of the counters.          *)
Exact(G, P) ==
    ret[U] = "held_next" /\ OnWayTo(U, "put_test") =>
      /\ pc[U] = "count_puts" => puts[U] = P[0][cpu[U]]
      /\ pc[U] \in {"count_gets", "put_test"} => Outlook(U, G) = 0

SyncCount == \E G, P : Summed(G, P) /\ Exact(G, P)

-----------------------------------------------------------------------------
(* What a step may do                                                      *)

(* Into the slow path one gets from a mount without a namespace.           *)
FastStep(t) ==
    /\ pc'[t] \in SlowLabels =>
         \/ pc[t] \in SlowLabels
         \/ pc[t] = "put_ns" /\ mnt_ns[cur[t]] = NULL
         \/ pc[t] = "work" /\ task_work[t] # {}
    /\ task_work'[t] = task_work[t] \/ pc[t] \in SlowLabels \/ task_work[t] # {}
    /\ (cleaned' = cleaned /\ cleaner' = cleaner) \/ cleanup_mnt(t)

(* mntput() and the work it queues.                                        *)
LEMMA MntputFastStep ==
  ASSUME TypeOK, NEW t \in Threads, Mntput(t)
  PROVE  FastStep(t)
<1> USE DEF TypeOK, At, Goto, FastStep, SlowLabels, Returns, WorkReturns, CountReturns
<1>1. CASE MntputBegin(t)
  BY <1>1 DEF MntputBegin, historyVars
<1>2. CASE mntput_no_expire(t)
  BY <1>2 DEF mntput_no_expire, historyVars
<1>3. CASE MntputFast(t)
  BY <1>3 DEF MntputFast, historyVars
<1>4. CASE MntputFastEnd(t)
  BY <1>4 DEF MntputFastEnd, historyVars
<1>5. CASE SlowpathLock(t)
  BY <1>5 DEF SlowpathLock, historyVars
<1>6. CASE SlowpathDec(t)
  BY <1>6 DEF SlowpathDec, StartCount, historyVars
<1>7. CASE CountPuts(t)
  BY <1>7 DEF CountPuts, NextCpu, historyVars
<1>8. CASE CountGets(t)
  BY <1>8 DEF CountGets, NextCpu, historyVars
<1>9. CASE mntput_no_expire_slowpath(t)
  BY <1>9 DEF mntput_no_expire_slowpath, historyVars
<1>10. CASE SlowpathRcuUnlock(t)
  BY <1>10 DEF SlowpathRcuUnlock, historyVars
<1>11. CASE SlowpathUnlock(t)
  BY <1>11 DEF SlowpathUnlock, historyVars
<1>12. CASE mntput_queue_cleanup(t)
  BY <1>12 DEF mntput_queue_cleanup, historyVars
<1>13. CASE cleanup_mnt(t)
  <2>1. pc[t] = "cleanup"
    BY <1>13 DEF cleanup_mnt
  <2> QED
    BY <1>13, <2>1
<1>14. CASE CleanupGp(t)
  BY <1>14 DEF CleanupGp, synchronize_rcu, historyVars
<1>15. CASE free_vfsmnt(t)
  BY <1>15 DEF free_vfsmnt
<1>16. CASE run_task_work(t)
  BY <1>16 DEF run_task_work, historyVars
<1>17. CASE NoTaskWork(t)
  BY <1>17 DEF NoTaskWork, historyVars
<1> QED
  BY <1>1, <1>2, <1>3, <1>4, <1>5, <1>6, <1>7, <1>8, <1>9, <1>10, <1>11,
     <1>12, <1>13, <1>14, <1>15, <1>16, <1>17
     DEF Mntput

(* The holder.                                                             *)
LEMMA HolderFastStep ==
  ASSUME TypeOK, holder
  PROVE  FastStep(H)
<1> USE DEF TypeOK, At, Goto, FastStep, SlowLabels, Returns, WorkReturns, CountReturns
<1>1. CASE HolderGet
  BY <1>1, Tasks DEF HolderGet, historyVars
<1>2. CASE HolderLastPut
  BY <1>2, Tasks DEF HolderLastPut, historyVars
<1>3. CASE Mntput(H)
  BY <1>3, MntputFastStep, Tasks
<1> QED
  BY <1>1, <1>2, <1>3 DEF holder

(* The walker.                                                             *)
LEMMA WalkerFastStep ==
  ASSUME TypeOK, walker
  PROVE  FastStep(W)
<1> USE DEF TypeOK, At, Goto, FastStep, SlowLabels, Returns, WorkReturns, CountReturns
<1>1. CASE WalkerBegin
  BY <1>1, Tasks DEF WalkerBegin, historyVars
<1>2. CASE read_seqbegin
  BY <1>2, Tasks DEF read_seqbegin, historyVars
<1>3. CASE WalkerFind
  BY <1>3, Tasks DEF WalkerFind, historyVars
<1>4. CASE LegitimizeBegin
  BY <1>4, Tasks DEF LegitimizeBegin, historyVars
<1>5. CASE LegitimizeInc
  BY <1>5, Tasks DEF LegitimizeInc, historyVars
<1>6. CASE LegitimizeRetry
  BY <1>6, Tasks DEF LegitimizeRetry, historyVars
<1>7. CASE LegitimizeLock
  BY <1>7, Tasks DEF LegitimizeLock, historyVars
<1>8. CASE LegitimizeFlags
  BY <1>8, Tasks DEF LegitimizeFlags, historyVars
<1>9. CASE LegitimizeUnlock
  BY <1>9, Tasks DEF LegitimizeUnlock, historyVars
<1>10. CASE legitimize_mnt
  BY <1>10, Tasks DEF legitimize_mnt, CallMntput, historyVars
<1>11. CASE LegitimizeRelock
  BY <1>11, Tasks DEF LegitimizeRelock, historyVars
<1>12. CASE WalkerFail
  BY <1>12, Tasks DEF WalkerFail, WalkerLeaves, historyVars
<1>13. CASE WalkerLegit
  BY <1>13, Tasks DEF WalkerLegit, WalkerLeaves, historyVars
<1>14. CASE WalkerUse
  BY <1>14, Tasks DEF WalkerUse, CallMntput, historyVars
<1>15. CASE Mntput(W)
  BY <1>15, MntputFastStep, Tasks
<1> QED
  BY <1>1, <1>2, <1>3, <1>4, <1>5, <1>6, <1>7, <1>8, <1>9, <1>10, <1>11,
     <1>12, <1>13, <1>14, <1>15
     DEF walker

(* The unmounting task.                                                    *)
LEMMA MainCleaner ==
  ASSUME TypeOK, main
  PROVE  (cleaned' = cleaned /\ cleaner' = cleaner) \/ cleanup_mnt(U)
<1> USE DEF TypeOK, At, Goto
<1>1. CASE UmountRefused
  BY <1>1 DEF UmountRefused, DROP_REF, historyVars, CallMntput
<1>2. CASE UmountAllowed
  BY <1>2 DEF UmountAllowed, historyVars
<1>3. CASE UmountLock
  BY <1>3 DEF UmountLock, historyVars
<1>4. CASE do_umount
  BY <1>4 DEF do_umount, UmountFails, UmountTreeBegin, StartCount, historyVars
<1>5. CASE propagate_mount_busy
  BY <1>5 DEF propagate_mount_busy, UmountFails, UmountTreeBegin, historyVars
<1>6. CASE umount_tree
  BY <1>6 DEF umount_tree
<1>7. CASE umount_mnt
  BY <1>7 DEF umount_mnt, historyVars
<1>8. CASE UmountDropsCaller
  BY <1>8 DEF UmountDropsCaller, historyVars
<1>9. CASE namespace_unlock
  BY <1>9 DEF namespace_unlock, historyVars
<1>10. CASE UmountEnd
  BY <1>10 DEF UmountEnd, DROP_REF, historyVars, CallMntput
<1>11. CASE kern_unmount_array
  BY <1>11 DEF kern_unmount_array, mnt_make_shortterm, historyVars
<1>12. CASE UnmountedLock
  BY <1>12 DEF UnmountedLock, historyVars
<1>13. CASE UnheldNext
  BY <1>13 DEF UnheldNext, StartCount, historyVars
<1>14. CASE mntput_unheld
  BY <1>14 DEF mntput_unheld, historyVars
<1>15. CASE UnheldDec
  BY <1>15 DEF UnheldDec, historyVars
<1>16. CASE UnheldFinal
  BY <1>16 DEF UnheldFinal
<1>17. CASE UnmountedUnlock
  BY <1>17 DEF UnmountedUnlock, historyVars
<1>18. CASE QueueNext
  BY <1>18 DEF QueueNext, historyVars
<1>19. CASE mntput_unmounted
  BY <1>19 DEF mntput_unmounted, historyVars
<1>20. CASE HeldGp
  BY <1>20 DEF HeldGp, synchronize_rcu, historyVars
<1>21. CASE HeldNext
  BY <1>21 DEF HeldNext, CallMntput, historyVars
<1>22. CASE HeldEnd
  BY <1>22 DEF HeldEnd, historyVars
<1>23. CASE Join
  BY <1>23 DEF Join, historyVars
<1>24. CASE Mntput(U)
  BY <1>24, MntputFastStep, Tasks DEF FastStep
<1> QED
  BY <1>1, <1>2, <1>3, <1>4, <1>5, <1>6, <1>7, <1>8, <1>9, <1>10, <1>11,
     <1>12, <1>13, <1>14, <1>15, <1>16, <1>17, <1>18, <1>19, <1>20, <1>21,
     <1>22, <1>23, <1>24
     DEF main

(* mntput() is not part of do_umount()'s checks.                           *)
LEMMA EarlyMntput ==
  ASSUME TypeOK, Mntput(U)
  PROVE  (Early' <=> Early) /\ pc[U] # "tree_unhash" /\ pc'[U] # "tree_unhash"
<1> USE Tasks DEF TypeOK, At, Goto, OnWayTo, Counting, Early, Returns, WorkReturns,
            CountReturns
<1>1. CASE MntputBegin(U)
  BY <1>1 DEF MntputBegin, callVars, countVars
<1>2. CASE mntput_no_expire(U)
  BY <1>2 DEF mntput_no_expire, callVars, countVars
<1>3. CASE MntputFast(U)
  BY <1>3 DEF MntputFast, callVars, countVars
<1>4. CASE MntputFastEnd(U)
  BY <1>4 DEF MntputFastEnd, callVars, countVars
<1>5. CASE SlowpathLock(U)
  BY <1>5 DEF SlowpathLock, callVars, countVars
<1>6. CASE SlowpathDec(U)
  BY <1>6 DEF SlowpathDec, StartCount
<1>7. CASE CountPuts(U)
  BY <1>7 DEF CountPuts, NextCpu, callVars
<1>8. CASE CountGets(U)
  BY <1>8 DEF CountGets, NextCpu, callVars
<1>9. CASE mntput_no_expire_slowpath(U)
  BY <1>9 DEF mntput_no_expire_slowpath, callVars, countVars
<1>10. CASE SlowpathRcuUnlock(U)
  BY <1>10 DEF SlowpathRcuUnlock, callVars, countVars
<1>11. CASE SlowpathUnlock(U)
  BY <1>11 DEF SlowpathUnlock, callVars, countVars
<1>12. CASE mntput_queue_cleanup(U)
  BY <1>12 DEF mntput_queue_cleanup, callVars, countVars
<1>13. CASE cleanup_mnt(U)
  BY <1>13 DEF cleanup_mnt, callVars, countVars
<1>14. CASE CleanupGp(U)
  BY <1>14 DEF CleanupGp, synchronize_rcu, callVars, countVars
<1>15. CASE free_vfsmnt(U)
  BY <1>15 DEF free_vfsmnt, callVars, countVars
<1>16. CASE run_task_work(U)
  BY <1>16 DEF run_task_work, countVars
<1>17. CASE NoTaskWork(U)
  BY <1>17 DEF NoTaskWork, callVars, countVars
<1> QED
  BY <1>1, <1>2, <1>3, <1>4, <1>5, <1>6, <1>7, <1>8, <1>9, <1>10, <1>11,
     <1>12, <1>13, <1>14, <1>15, <1>16, <1>17
     DEF Mntput

(* The namespace pointer goes when the umount is sure to succeed.          *)
LEMMA DetachedStep ==
  ASSUME Base, SHAPE = "sync", main, (mnt_ns[0] = NULL) <=> Detached
  PROVE  (mnt_ns'[0] = NULL) <=> Detached'
<1>0. TypeOK /\ Phases /\ LoopInv /\ 0 \in Mounts
  BY Zero DEF Base, TypeInv, Ledger, UmountInv
<1> USE Tasks DEF TypeOK, At, Goto, OnWayTo, Counting, Early, Returns, WorkReturns,
            CountReturns
<1> USE <1>0 DEF Detached
<1>1. CASE UmountRefused
  <2>1. retval' = -EPERM /\ mnt_ns' = mnt_ns /\ pc[U] = "umount"
    BY <1>1 DEF UmountRefused, mountVars
  <2>2. Early /\ ~Detached /\ ~Detached'
    BY <2>1 DEF EPERM
  <2> QED
    BY <2>1, <2>2
<1>2. CASE UmountAllowed
  BY <1>2 DEF UmountAllowed, callVars, countVars, mountVars, umountVars
<1>3. CASE UmountLock
  BY <1>3 DEF UmountLock, callVars, countVars, mountVars, umountVars
<1>4. CASE do_umount
  <2>1. pc[U] = "u_check" /\ mnt_ns' = mnt_ns
    BY <1>4 DEF do_umount
  <2>2. CASE ~check_mnt(0) \/ ~hashed[0]
    <3>1. retval' = -EINVAL
      BY <1>4, <2>2 DEF do_umount, UmountFails
    <3> QED
      BY <2>1, <3>1 DEF EINVAL
  <2>3. CASE ~(~check_mnt(0) \/ ~hashed[0])
    <3>1. retval' = retval /\ pc'[U] = "count_puts" /\ cret'[U] = "busy_test"
      BY <1>4, <2>3 DEF do_umount, StartCount
    <3> QED
      BY <2>1, <3>1
  <2> QED
    BY <2>2, <2>3
<1>5. CASE propagate_mount_busy
  <2>1. pc[U] = "busy_test" /\ mnt_ns' = mnt_ns
    BY <1>5 DEF propagate_mount_busy
  <2>2. CASE do_refcount_check(Count(U))
    <3>1. retval' = -EBUSY
      BY <1>5, <2>2 DEF propagate_mount_busy, UmountFails
    <3> QED
      BY <2>1, <3>1 DEF EBUSY
  <2>3. CASE ~do_refcount_check(Count(U))
    <3>1. retval' = retval /\ pc'[U] = "tree_ns"
      BY <1>5, <2>3 DEF propagate_mount_busy, UmountTreeBegin
    <3> QED
      BY <2>1, <3>1
  <2> QED
    BY <2>2, <2>3
<1>6. CASE umount_tree
  <2>1. pc[U] = "tree_ns" /\ pc'[U] = "tree_unhash" /\ retval' = retval
        /\ mnt_ns' = [mnt_ns EXCEPT ![k] = NULL] /\ k = 0
    BY <1>6, ConfigAssumption, MountRange DEF umount_tree, LoopInv, umountVars
  <2>2. retval = 0
    BY <2>1 DEF Base, Ledger, UmountInv, Lists
  <2> QED
    BY <2>1, <2>2
<1>7. CASE umount_mnt
  <2>1. pc[U] = "tree_unhash" /\ pc'[U] = "u_dec" /\ retval' = retval /\ mnt_ns' = mnt_ns
    BY <1>7, ConfigAssumption, MountRange DEF umount_mnt, LoopInv
  <2> QED
    BY <2>1
<1>8. CASE UmountDropsCaller
  BY <1>8 DEF UmountDropsCaller, callVars, countVars, mountVars
<1>9. CASE namespace_unlock
  BY <1>9 DEF namespace_unlock, callVars, countVars, mountVars, umountVars
<1>10. CASE UmountEnd
  BY <1>10 DEF UmountEnd, DROP_REF, callVars, countVars, mountVars, CallMntput
<1>11. CASE kern_unmount_array
  BY <1>11 DEF kern_unmount_array, Phases
<1>12. CASE UnmountedLock
  BY <1>12 DEF UnmountedLock, callVars, countVars, mountVars
<1>13. CASE UnheldNext
  BY <1>13 DEF UnheldNext, StartCount, callVars, countVars, mountVars
<1>14. CASE mntput_unheld
  BY <1>14 DEF mntput_unheld, callVars, countVars, mountVars
<1>15. CASE UnheldDec
  BY <1>15 DEF UnheldDec, callVars, countVars, mountVars, umountVars
<1>16. CASE UnheldFinal
  BY <1>16 DEF UnheldFinal, mntput_final_locked, callVars, countVars
<1>17. CASE UnmountedUnlock
  BY <1>17 DEF UnmountedUnlock, callVars, countVars, mountVars
<1>18. CASE QueueNext
  BY <1>18 DEF QueueNext, countVars, mountVars
<1>19. CASE mntput_unmounted
  BY <1>19 DEF mntput_unmounted, callVars, countVars, mountVars
<1>20. CASE HeldGp
  BY <1>20
     DEF HeldGp, synchronize_rcu, callVars, countVars, mountVars, umountVars
<1>21. CASE HeldNext
  BY <1>21 DEF HeldNext, CallMntput, callVars, countVars, mountVars
<1>22. CASE HeldEnd
  BY <1>22 DEF HeldEnd, callVars, countVars, mountVars, umountVars
<1>23. CASE Join
  BY <1>23 DEF Join, callVars, countVars, mountVars, umountVars
<1>24. CASE Mntput(U)
  <2>1. UNCHANGED umountOnly
    BY <1>24, MntputFrame
  <2>2. (Early' <=> Early) /\ pc[U] # "tree_unhash" /\ pc'[U] # "tree_unhash"
    BY <1>24, EarlyMntput
  <2> HIDE DEF Early
  <2> QED
    BY <2>1, <2>2 DEF umountOnly
<1> QED
  BY <1>1, <1>2, <1>3, <1>4, <1>5, <1>6, <1>7, <1>8, <1>9, <1>10, <1>11,
     <1>12, <1>13, <1>14, <1>15, <1>16, <1>17, <1>18, <1>19, <1>20, <1>21,
     <1>22, <1>23, <1>24
     DEF main
(* The last put of U stays one, on the slow path if there is no namespace. *)
LEMMA SettledPut ==
  ASSUME TypeOK, wret[U] = "u_return", Mntput(U), Settled'
  PROVE  /\ Settled
         /\ pc'[U] \in {"put_dec", "put_rcu"} =>
              pc[U] = "put_dec" \/ (pc[U] = "put_ns" /\ mnt_ns[cur[U]] # NULL)
<1> USE Tasks DEF TypeOK, At, Goto, Settled, InPut, OnWayTo, Counting, PutLabels, BeforeDec,
            AfterDec, Returns, WorkReturns, CountReturns
<1>1. CASE MntputBegin(U)
  BY <1>1 DEF MntputBegin, callVars, countVars
<1>2. CASE mntput_no_expire(U)
  BY <1>2 DEF mntput_no_expire, callVars, countVars
<1>3. CASE MntputFast(U)
  BY <1>3 DEF MntputFast, callVars, countVars
<1>4. CASE MntputFastEnd(U)
  BY <1>4 DEF MntputFastEnd, callVars, countVars
<1>5. CASE SlowpathLock(U)
  BY <1>5 DEF SlowpathLock, callVars, countVars
<1>6. CASE SlowpathDec(U)
  BY <1>6 DEF SlowpathDec, StartCount
<1>7. CASE CountPuts(U)
  BY <1>7 DEF CountPuts, NextCpu, callVars
<1>8. CASE CountGets(U)
  BY <1>8 DEF CountGets, NextCpu, callVars
<1>9. CASE mntput_no_expire_slowpath(U)
  BY <1>9 DEF mntput_no_expire_slowpath, callVars, countVars
<1>10. CASE SlowpathRcuUnlock(U)
  BY <1>10 DEF SlowpathRcuUnlock, callVars, countVars
<1>11. CASE SlowpathUnlock(U)
  BY <1>11 DEF SlowpathUnlock, callVars, countVars
<1>12. CASE mntput_queue_cleanup(U)
  BY <1>12 DEF mntput_queue_cleanup, callVars, countVars
<1>13. CASE cleanup_mnt(U)
  BY <1>13 DEF cleanup_mnt, callVars, countVars
<1>14. CASE CleanupGp(U)
  BY <1>14 DEF CleanupGp, synchronize_rcu, callVars, countVars
<1>15. CASE free_vfsmnt(U)
  BY <1>15 DEF free_vfsmnt, callVars, countVars
<1>16. CASE run_task_work(U)
  BY <1>16 DEF run_task_work, countVars
<1>17. CASE NoTaskWork(U)
  BY <1>17 DEF NoTaskWork, callVars, countVars
<1> QED
  BY <1>1, <1>2, <1>3, <1>4, <1>5, <1>6, <1>7, <1>8, <1>9, <1>10, <1>11,
     <1>12, <1>13, <1>14, <1>15, <1>16, <1>17
     DEF Mntput

(* U comes to its last puts through the grace period.                      *)
LEMMA SettledEntry ==
  ASSUME Base, main, Settled'
  PROVE  /\ Settled \/ (HeldGp /\ ~in_rcu[W])
         /\ pc'[U] \in {"put_dec", "put_rcu"} =>
              Settled /\ (pc[U] = "put_dec" \/ (pc[U] = "put_ns" /\ mnt_ns[cur[U]] # NULL))
<1>0. TypeOK /\ wret[U] = "u_return"
  BY DEF Base, TypeInv, Ledger, UmountInv, Phases
<1> USE Tasks DEF TypeOK, At, Goto, Settled, InPut, OnWayTo, Counting, PutLabels, BeforeDec,
            AfterDec, Returns, WorkReturns, CountReturns
<1> USE <1>0
<1>1. CASE UmountRefused
  BY <1>1 DEF UmountRefused, DROP_REF, countVars, CallMntput
<1>2. CASE UmountAllowed
  BY <1>2 DEF UmountAllowed, callVars, countVars
<1>3. CASE UmountLock
  BY <1>3 DEF UmountLock, callVars, countVars
<1>4. CASE do_umount
  BY <1>4
     DEF do_umount, UmountFails, UmountTreeBegin, StartCount, callVars,
         countVars
<1>5. CASE propagate_mount_busy
  BY <1>5
     DEF propagate_mount_busy, UmountFails, UmountTreeBegin, callVars,
         countVars
<1>6. CASE umount_tree
  BY <1>6 DEF umount_tree, callVars, countVars
<1>7. CASE umount_mnt
  BY <1>7 DEF umount_mnt, callVars, countVars
<1>8. CASE UmountDropsCaller
  BY <1>8 DEF UmountDropsCaller, callVars, countVars
<1>9. CASE namespace_unlock
  BY <1>9 DEF namespace_unlock, callVars, countVars
<1>10. CASE UmountEnd
  BY <1>10 DEF UmountEnd, DROP_REF, callVars, countVars, CallMntput
<1>11. CASE kern_unmount_array
  BY <1>11 DEF kern_unmount_array, mnt_make_shortterm, callVars, countVars
<1>12. CASE UnmountedLock
  BY <1>12 DEF UnmountedLock, callVars, countVars
<1>13. CASE UnheldNext
  BY <1>13 DEF UnheldNext, StartCount, callVars, countVars
<1>14. CASE mntput_unheld
  BY <1>14 DEF mntput_unheld, callVars, countVars
<1>15. CASE UnheldDec
  BY <1>15 DEF UnheldDec, callVars, countVars
<1>16. CASE UnheldFinal
  BY <1>16 DEF UnheldFinal, callVars, countVars
<1>17. CASE UnmountedUnlock
  BY <1>17 DEF UnmountedUnlock, callVars, countVars
<1>18. CASE QueueNext
  BY <1>18 DEF QueueNext, countVars
<1>19. CASE mntput_unmounted
  BY <1>19 DEF mntput_unmounted, callVars, countVars
<1>20. CASE HeldGp
  BY <1>20 DEF HeldGp, synchronize_rcu, LastOther, U, W
<1>21. CASE HeldNext
  BY <1>21 DEF HeldNext, CallMntput
<1>22. CASE HeldEnd
  BY <1>22 DEF HeldEnd, callVars, countVars
<1>23. CASE Join
  BY <1>23 DEF Join, callVars, countVars
<1>24. CASE Mntput(U)
  BY <1>24, SettledPut
<1> QED
  BY <1>1, <1>2, <1>3, <1>4, <1>5, <1>6, <1>7, <1>8, <1>9, <1>10, <1>11,
     <1>12, <1>13, <1>14, <1>15, <1>16, <1>17, <1>18, <1>19, <1>20, <1>21,
     <1>22, <1>23, <1>24
     DEF main

(* The last put of U goes on to its decision.                              *)
LEMMA DecidingPut ==
  ASSUME TypeOK, Phases, Mntput(U)
  PROVE  /\ Deciding /\ pc[U] # "put_dec" => Deciding' \/ mntput_no_expire_slowpath(U)
         /\ (Queueing \/ Holding \/ Ending)' => Queueing \/ Holding \/ Ending
<1>0. /\ wret[U] = "u_return"
      /\ pc[U] \in {"put_rcu", "put_test", "slow_rcu", "slow_unlock"} =>
           ret[U] \in {"held_next", "work"}
  BY DEF Phases, Early, Peek, Queueing, Holding, Ending, InPut, OnWayTo, Counting
<1> USE Tasks DEF TypeOK, At, Goto, Deciding, Queueing, Holding, Ending,
            InPut, OnWayTo, Counting, PutLabels, BeforeDec,
            AfterDec, Returns, WorkReturns, CountReturns
<1> USE <1>0
<1>1. CASE MntputBegin(U)
  BY <1>1 DEF MntputBegin, callVars, countVars
<1>2. CASE mntput_no_expire(U)
  BY <1>2 DEF mntput_no_expire, callVars, countVars
<1>3. CASE MntputFast(U)
  BY <1>3 DEF MntputFast, callVars, countVars
<1>4. CASE MntputFastEnd(U)
  BY <1>4 DEF MntputFastEnd, callVars, countVars
<1>5. CASE SlowpathLock(U)
  BY <1>5 DEF SlowpathLock, callVars, countVars
<1>6. CASE SlowpathDec(U)
  BY <1>6 DEF SlowpathDec, StartCount
<1>7. CASE CountPuts(U)
  BY <1>7 DEF CountPuts, NextCpu, callVars
<1>8. CASE CountGets(U)
  BY <1>8 DEF CountGets, NextCpu, callVars
<1>9. CASE mntput_no_expire_slowpath(U)
  <2>1. pc[U] = "put_test" /\ ret[U] \in {"held_next", "work"}
    BY <1>9 DEF mntput_no_expire_slowpath
  <2>2. Queueing \/ Holding \/ Ending
    BY <2>1
  <2> QED
    BY <1>9, <2>2
<1>10. CASE SlowpathRcuUnlock(U)
  BY <1>10 DEF SlowpathRcuUnlock, callVars, countVars
<1>11. CASE SlowpathUnlock(U)
  BY <1>11 DEF SlowpathUnlock, callVars, countVars
<1>12. CASE mntput_queue_cleanup(U)
  BY <1>12 DEF mntput_queue_cleanup, callVars, countVars
<1>13. CASE cleanup_mnt(U)
  BY <1>13 DEF cleanup_mnt, callVars, countVars
<1>14. CASE CleanupGp(U)
  BY <1>14 DEF CleanupGp, synchronize_rcu, callVars, countVars
<1>15. CASE free_vfsmnt(U)
  BY <1>15 DEF free_vfsmnt, callVars, countVars
<1>16. CASE run_task_work(U)
  BY <1>16 DEF run_task_work, countVars
<1>17. CASE NoTaskWork(U)
  BY <1>17 DEF NoTaskWork, callVars, countVars
<1> QED
  BY <1>1, <1>2, <1>3, <1>4, <1>5, <1>6, <1>7, <1>8, <1>9, <1>10, <1>11,
     <1>12, <1>13, <1>14, <1>15, <1>16, <1>17
     DEF Mntput

-----------------------------------------------------------------------------
(* The invariant                                                           *)

(* With umount(2) there is one mount.                                      *)
LEMMA OneMount == SHAPE = "sync" => BATCH = 1 /\ Mounts = {0}
  BY ConfigAssumption DEF Mounts

(* A doomed mount stays doomed.                                            *)
LEMMA DoomedStays ==
  ASSUME Doom, NEW t \in Threads, Acts(t), NEW m \in Mounts, Doomed(m)
  PROVE  Doomed(m)'
<1>1. TypeOK
  BY DEF Doom, Base, TypeInv
<1>2. DebtStep(t, m)
  BY <1>1, HolderDebt, WalkerDebt, MainDebt DEF Acts, Threads
<1> QED
  BY <1>2 DEF DebtStep, DebtKept

(* U decides that the mount is nobody's.                                   *)
LEMMA LastPutDooms ==
  ASSUME Settlement, SHAPE = "sync", SyncCount, Deciding, mntput_no_expire_slowpath(U)
  PROVE  Doomed(0)'
<1>1. TypeOK /\ DoomInv
  BY DEF Settlement, Doom, Base, TypeInv
<1>2. pc[U] = "put_test" /\ ret[U] = "held_next" /\ cur[U] = 0
  <2>1. cur[U] \in Mounts
    BY <1>1, Tasks DEF TypeOK
  <2> QED
    BY <2>1, OneMount DEF mntput_no_expire_slowpath, At, Deciding
<1>3. Count(U) = 0
  BY <1>2 DEF SyncCount, Exact, Outlook, OnWayTo
<1>4. ~Doomed(0)
  BY <1>1, <1>2, Tasks DEF DoomInv, OnWayTo
<1>5. IsLastPut(cur[U], Count(U))
  BY <1>2, <1>3, <1>4 DEF IsLastPut, Doomed
<1>6. mnt_flags' = [mnt_flags EXCEPT ![0] = @ \cup {"MNT_DOOMED"}]
  BY <1>2, <1>5 DEF mntput_no_expire_slowpath, mntput_final_locked
<1> QED
  BY <1>1, <1>6, Zero DEF Doomed, TypeOK

(* The mount gets doomed on every path on which umount(2) succeeds.        *)
LEMMA OutcomeStep ==
  ASSUME Settlement, SHAPE = "sync", SyncInv, SyncCount, main, Acts(U),
         retval' = 0, (Queueing \/ Holding \/ Ending)'
  PROVE  Doomed(0)' \/ 0 \in held' \/ Deciding'
<1>0. TypeOK /\ Phases /\ Lists /\ BATCH = 1 /\ Mounts = {0} /\ INSERTED(0) = 0 /\ 0 \in Mounts
  BY OneMount, Zero, InsertedPlain DEF Settlement, Doom, Base, TypeInv, Ledger, UmountInv
<1>a. Doomed(0) => Doomed(0)'
  BY DoomedStays, Tasks, Zero DEF Settlement
<1>b. retval = 0 /\ (Queueing \/ Holding \/ Ending) => Doomed(0) \/ 0 \in held \/ Deciding
  BY DEF SyncInv
<1> USE Tasks DEF TypeOK, At, Goto, Deciding, Queueing, Holding, Ending, InPut, OnWayTo,
            Counting, PutLabels, BeforeDec, AfterDec
<1> USE <1>0, <1>a, <1>b
<1>1. CASE UmountRefused
  BY <1>1 DEF UmountRefused, EPERM
<1>2. CASE UmountAllowed
  BY <1>2 DEF UmountAllowed, callVars, umountVars
<1>3. CASE UmountLock
  BY <1>3 DEF UmountLock, callVars, umountVars
<1>4. CASE do_umount
  BY <1>4 DEF do_umount, UmountFails, UmountTreeBegin, StartCount, callVars
<1>5. CASE propagate_mount_busy
  BY <1>5 DEF propagate_mount_busy, UmountFails, UmountTreeBegin, callVars
<1>6. CASE umount_tree
  BY <1>6 DEF umount_tree, callVars, umountVars
<1>7. CASE umount_mnt
  BY <1>7 DEF umount_mnt, callVars
<1>8. CASE UmountDropsCaller
  BY <1>8 DEF UmountDropsCaller, callVars
<1>9. CASE namespace_unlock
  <2>1. pc[U] = "u_unlock" /\ retval' = retval /\ (head # {} => pc'[U] = "unmounted_lock")
    BY <1>9 DEF namespace_unlock, umountVars
  <2>2. retval = 0 => head # {}
    BY <2>1 DEF Lists
  <2> QED
    BY <2>1, <2>2
<1>10. CASE UmountEnd
  <2>1. pc[U] = "u_drop" /\ held' = held /\ retval' = retval
    BY <1>10 DEF UmountEnd
  <2> QED
    BY <2>1 DEF Lists
<1>11. CASE kern_unmount_array
  BY <1>11 DEF kern_unmount_array, mnt_make_shortterm, callVars
<1>12. CASE UnmountedLock
  BY <1>12 DEF UnmountedLock, callVars
<1>13. CASE UnheldNext
  BY <1>13 DEF UnheldNext, StartCount, callVars
<1>14. CASE mntput_unheld
  BY <1>14 DEF mntput_unheld, callVars
<1>15. CASE UnheldDec
  BY <1>15 DEF UnheldDec, callVars, umountVars
<1>16. CASE UnheldFinal
  BY <1>16 DEF UnheldFinal, callVars
<1>17. CASE UnmountedUnlock
  <2>1. pc[U] = "unheld_next" /\ k < 0 /\ Peek /\ held' = held
    BY <1>17 DEF UnmountedUnlock, Peek
  <2>2. ~(0 <= k)
    BY <2>1
  <2>3. fast_final[0] \/ 0 \in held
    BY <2>1, <2>2 DEF Lists
  <2>4. fast_final[0] => Doomed(0)
    BY DEF Settlement, Doom, DoomInv
  <2> QED
    BY <2>1, <2>3, <2>4
<1>18. CASE QueueNext
  <2>1. pc[U] = "queue_next" /\ held' = held /\ retval' = retval
    BY <1>18 DEF QueueNext
  <2> QED
    BY <2>1
<1>19. CASE mntput_unmounted
  <2>1. pc[U] = "queue_next" /\ held' = held /\ retval' = retval
    BY <1>19 DEF mntput_unmounted
  <2> QED
    BY <2>1
<1>20. CASE HeldGp
  <2>1. pc[U] = "held_gp" /\ held' = held /\ retval' = retval
    BY <1>20 DEF HeldGp, synchronize_rcu, umountVars
  <2> QED
    BY <2>1
<1>21. CASE HeldNext
  <2>1. pc[U] = "held_next" /\ held' = held \ {INSERTED(k)} /\ retval' = retval
    BY <1>21 DEF HeldNext
  <2>2. INSERTED(k) \in held => pc'[U] = "put" /\ ret'[U] = "held_next"
    BY <1>21 DEF HeldNext, CallMntput
  <2> QED
    BY <2>1, <2>2
<1>22. CASE HeldEnd
  <2>1. pc[U] = "held_next" /\ k = 1 /\ held' = held /\ retval' = retval
    BY <1>22 DEF HeldEnd, umountVars
  <2>2. 0 \notin held
    BY <2>1 DEF Lists
  <2> QED
    BY <2>1, <2>2
<1>23. CASE Join
  <2>1. pc[U] = "u_return" /\ held' = held /\ retval' = retval
    BY <1>23 DEF Join, umountVars
  <2> QED
    BY <2>1
<1>24. CASE Mntput(U)
  <2> HIDE DEF Deciding, Queueing, Holding, Ending
  <2>1. held' = held /\ retval' = retval
    BY <1>24, MntputFrame DEF umountOnly
  <2>2. Queueing \/ Holding \/ Ending
    BY <1>24, DecidingPut
  <2>3. Deciding => pc[U] # "put_dec"
    BY DEF SyncInv, Settled, Deciding
  <2>4. Deciding => Deciding' \/ mntput_no_expire_slowpath(U)
    BY <1>24, <2>3, DecidingPut
  <2>5. Deciding /\ mntput_no_expire_slowpath(U) => Doomed(0)'
    BY LastPutDooms
  <2> QED
    BY <2>1, <2>2, <2>4, <2>5
<1> QED
  BY <1>1, <1>2, <1>3, <1>4, <1>5, <1>6, <1>7, <1>8, <1>9, <1>10, <1>11,
     <1>12, <1>13, <1>14, <1>15, <1>16, <1>17, <1>18, <1>19, <1>20, <1>21,
     <1>22, <1>23, <1>24
     DEF main


(* Without a namespace nobody but U is about to put.                       *)
LEMMA DetachedClear ==
  ASSUME Settlement, SHAPE = "sync", SyncInv, mnt_ns[0] = NULL
  PROVE  /\ Clear(0) /\ (hashed[0] => pc[U] = "tree_unhash")
         /\ \A t \in {H, W} : pc[t] \notin BeforeDec
         /\ refs[H][0] = 0
<1>1. Sync(0) /\ 0 \in Mounts /\ Base /\ DoomInv
  BY Zero DEF SyncInv, Settlement, Doom
<1>2. Closed(0)
  BY <1>1 DEF DoomInv
<1>3. cur[H] = 0 /\ cur[W] = 0 /\ HELD = 0 /\ WALK = 0
  BY <1>1, OneMount, ConfigAssumption, Tasks DEF Base, TypeInv, TypeOK
<1>4. pc[H] \notin BeforeDec
  BY <1>1, <1>2, <1>3 DEF Base, Ledger, HolderLedger, Bit, Closed, Clear
<1>5. pc[W] \notin BeforeDec
  BY <1>2, <1>3 DEF Closed, Clear, Firm
<1> QED
  BY <1>2, <1>4, <1>5 DEF Closed, Clear

(* The last puts of U come after the umount has succeeded.                 *)
LEMMA SettledDetached ==
  ASSUME Settlement, SHAPE = "sync", SyncInv, Settled
  PROVE  mnt_ns[0] = NULL /\ ~hashed[0] /\ Clear(0) /\ pc[W] \notin Tentative
<1>1. Lists /\ Phases
  BY DEF Settlement, Doom, Base, Ledger, UmountInv
<1>2. ~Early /\ pc[U] # "u_unlock" /\ ~Ending /\ pc[U] # "tree_unhash"
  BY DEF Settled, Early, Ending, InPut, OnWayTo, Counting, PutLabels, BeforeDec, AfterDec
<1>3. retval = 0
  BY <1>1, <1>2 DEF Lists
<1>4. mnt_ns[0] = NULL
  BY <1>2, <1>3 DEF SyncInv, Detached
<1> QED
  BY <1>2, <1>4, DetachedClear DEF SyncInv

(* A put of U that decides was one before.                                 *)
LEMMA DecidingMntput ==
  ASSUME TypeOK, Mntput(U), Deciding'
  PROVE  Deciding
<1> USE Tasks DEF TypeOK, At, Goto, Deciding, OnWayTo, Counting, BeforeDec, Returns,
            WorkReturns, CountReturns
<1>1. CASE MntputBegin(U)
  BY <1>1 DEF MntputBegin, callVars, countVars
<1>2. CASE mntput_no_expire(U)
  BY <1>2 DEF mntput_no_expire, callVars, countVars
<1>3. CASE MntputFast(U)
  BY <1>3 DEF MntputFast, callVars, countVars
<1>4. CASE MntputFastEnd(U)
  BY <1>4 DEF MntputFastEnd, callVars, countVars
<1>5. CASE SlowpathLock(U)
  BY <1>5 DEF SlowpathLock, callVars, countVars
<1>6. CASE SlowpathDec(U)
  BY <1>6 DEF SlowpathDec, StartCount
<1>7. CASE CountPuts(U)
  BY <1>7 DEF CountPuts, NextCpu, callVars
<1>8. CASE CountGets(U)
  BY <1>8 DEF CountGets, NextCpu, callVars
<1>9. CASE mntput_no_expire_slowpath(U)
  BY <1>9 DEF mntput_no_expire_slowpath, callVars, countVars
<1>10. CASE SlowpathRcuUnlock(U)
  BY <1>10 DEF SlowpathRcuUnlock, callVars, countVars
<1>11. CASE SlowpathUnlock(U)
  BY <1>11 DEF SlowpathUnlock, callVars, countVars
<1>12. CASE mntput_queue_cleanup(U)
  BY <1>12 DEF mntput_queue_cleanup, callVars, countVars
<1>13. CASE cleanup_mnt(U)
  BY <1>13 DEF cleanup_mnt, callVars, countVars
<1>14. CASE CleanupGp(U)
  BY <1>14 DEF CleanupGp, synchronize_rcu, callVars, countVars
<1>15. CASE free_vfsmnt(U)
  BY <1>15 DEF free_vfsmnt, callVars, countVars
<1>16. CASE run_task_work(U)
  BY <1>16 DEF run_task_work, countVars
<1>17. CASE NoTaskWork(U)
  BY <1>17 DEF NoTaskWork, callVars, countVars
<1> QED
  BY <1>1, <1>2, <1>3, <1>4, <1>5, <1>6, <1>7, <1>8, <1>9, <1>10, <1>11,
     <1>12, <1>13, <1>14, <1>15, <1>16, <1>17
     DEF Mntput

(* The last put is that of a held mount.                                   *)
LEMMA DecidingEntry ==
  ASSUME Base, SHAPE = "sync", main, Deciding'
  PROVE  (Deciding /\ held' = held) \/ 0 \notin held'
<1>0. TypeOK /\ Mounts = {0}
  BY OneMount DEF Base, TypeInv
<1> USE Tasks DEF TypeOK, At, Goto, Deciding, OnWayTo, Counting, BeforeDec, Returns,
            WorkReturns, CountReturns
<1> USE <1>0
<1>1. CASE UmountRefused
  BY <1>1 DEF UmountRefused, DROP_REF, countVars, CallMntput
<1>2. CASE UmountAllowed
  BY <1>2 DEF UmountAllowed, callVars, countVars, umountVars
<1>3. CASE UmountLock
  BY <1>3 DEF UmountLock, callVars, countVars, umountVars
<1>4. CASE do_umount
  BY <1>4
     DEF do_umount, UmountFails, UmountTreeBegin, StartCount, callVars,
         countVars
<1>5. CASE propagate_mount_busy
  BY <1>5
     DEF propagate_mount_busy, UmountFails, UmountTreeBegin, callVars,
         countVars
<1>6. CASE umount_tree
  BY <1>6 DEF umount_tree, callVars, countVars, umountVars
<1>7. CASE umount_mnt
  BY <1>7 DEF umount_mnt, callVars, countVars
<1>8. CASE UmountDropsCaller
  BY <1>8 DEF UmountDropsCaller, callVars, countVars
<1>9. CASE namespace_unlock
  BY <1>9 DEF namespace_unlock, callVars, countVars, umountVars
<1>10. CASE UmountEnd
  BY <1>10 DEF UmountEnd, DROP_REF, callVars, countVars, CallMntput
<1>11. CASE kern_unmount_array
  BY <1>11 DEF kern_unmount_array, mnt_make_shortterm, callVars, countVars
<1>12. CASE UnmountedLock
  BY <1>12 DEF UnmountedLock, callVars, countVars
<1>13. CASE UnheldNext
  BY <1>13 DEF UnheldNext, StartCount, callVars, countVars
<1>14. CASE mntput_unheld
  BY <1>14 DEF mntput_unheld, callVars, countVars
<1>15. CASE UnheldDec
  BY <1>15 DEF UnheldDec, callVars, countVars, umountVars
<1>16. CASE UnheldFinal
  BY <1>16 DEF UnheldFinal, callVars, countVars
<1>17. CASE UnmountedUnlock
  BY <1>17 DEF UnmountedUnlock, callVars, countVars
<1>18. CASE QueueNext
  BY <1>18 DEF QueueNext, countVars
<1>19. CASE mntput_unmounted
  BY <1>19 DEF mntput_unmounted, callVars, countVars
<1>20. CASE HeldGp
  BY <1>20 DEF HeldGp, synchronize_rcu, callVars, countVars, umountVars
<1>21. CASE HeldNext
  BY <1>21 DEF HeldNext, CallMntput, callVars, countVars
<1>22. CASE HeldEnd
  BY <1>22 DEF HeldEnd, callVars, countVars, umountVars
<1>23. CASE Join
  BY <1>23 DEF Join, callVars, countVars, umountVars
<1>24. CASE Mntput(U)
  <2>1. held' = held
    BY <1>24, MntputFrame DEF umountOnly
  <2>2. Deciding
    BY <1>24, DecidingMntput
  <2> QED
    BY <2>1, <2>2
<1> QED
  BY <1>1, <1>2, <1>3, <1>4, <1>5, <1>6, <1>7, <1>8, <1>9, <1>10, <1>11,
     <1>12, <1>13, <1>14, <1>15, <1>16, <1>17, <1>18, <1>19, <1>20, <1>21,
     <1>22, <1>23, <1>24
     DEF main

(* do_umount() clears the namespace pointer in one place.                  *)
LEMMA NsStep ==
  ASSUME SHAPE = "sync", Base, main
  PROVE  mnt_ns' = mnt_ns \/ umount_tree
<1>0. TypeOK /\ Phases
  BY DEF Base, TypeInv, Ledger, UmountInv
<1> USE <1>0 DEF At
<1>1. CASE UmountRefused
  BY <1>1 DEF UmountRefused, DROP_REF, mountVars, CallMntput
<1>2. CASE UmountAllowed
  BY <1>2 DEF UmountAllowed, mountVars
<1>3. CASE UmountLock
  BY <1>3 DEF UmountLock, mountVars
<1>4. CASE do_umount
  BY <1>4 DEF do_umount, UmountFails, UmountTreeBegin, StartCount
<1>5. CASE propagate_mount_busy
  BY <1>5 DEF propagate_mount_busy, UmountFails, UmountTreeBegin
<1>6. CASE umount_tree
  BY <1>6
<1>7. CASE umount_mnt
  BY <1>7 DEF umount_mnt
<1>8. CASE UmountDropsCaller
  BY <1>8 DEF UmountDropsCaller, mountVars
<1>9. CASE namespace_unlock
  BY <1>9 DEF namespace_unlock, mountVars
<1>10. CASE UmountEnd
  BY <1>10 DEF UmountEnd, DROP_REF, mountVars, CallMntput
<1>11. CASE kern_unmount_array
  BY <1>11 DEF kern_unmount_array, Phases
<1>12. CASE UnmountedLock
  BY <1>12 DEF UnmountedLock, mountVars
<1>13. CASE UnheldNext
  BY <1>13 DEF UnheldNext, StartCount, mountVars
<1>14. CASE mntput_unheld
  BY <1>14 DEF mntput_unheld, mountVars
<1>15. CASE UnheldDec
  BY <1>15 DEF UnheldDec, mountVars
<1>16. CASE UnheldFinal
  BY <1>16 DEF UnheldFinal, mntput_final_locked
<1>17. CASE UnmountedUnlock
  BY <1>17 DEF UnmountedUnlock, mountVars
<1>18. CASE QueueNext
  BY <1>18 DEF QueueNext, mountVars
<1>19. CASE mntput_unmounted
  BY <1>19 DEF mntput_unmounted, mountVars
<1>20. CASE HeldGp
  BY <1>20 DEF HeldGp, synchronize_rcu, mountVars
<1>21. CASE HeldNext
  BY <1>21 DEF HeldNext, CallMntput, mountVars
<1>22. CASE HeldEnd
  BY <1>22 DEF HeldEnd, mountVars
<1>23. CASE Join
  BY <1>23 DEF Join, mountVars
<1>24. CASE Mntput(U)
  BY <1>24, Tasks, MntputFrame DEF umountOnly
<1> QED
  BY <1>1, <1>2, <1>3, <1>4, <1>5, <1>6, <1>7, <1>8, <1>9, <1>10, <1>11,
     <1>12, <1>13, <1>14, <1>15, <1>16, <1>17, <1>18, <1>19, <1>20, <1>21,
     <1>22, <1>23, <1>24
     DEF main

(* H and W stay off the slow path.                                         *)
LEMMA FastOnly ==
  ASSUME Settlement, SHAPE = "sync", SyncInv, NEW t \in Threads, Acts(t), NEW s \in {H, W}
  PROVE  pc'[s] \notin SlowLabels /\ task_work'[s] = {}
<1>1. TypeOK /\ pc[s] \notin SlowLabels /\ task_work[s] = {} /\ s \in Threads
  BY Tasks DEF Settlement, Doom, Base, TypeInv, SyncInv
<1>2. CASE s # t
  BY <1>1, <1>2 DEF Acts, Frame
<1>3. CASE s = t
  <2>1. FastStep(s)
    BY <1>1, <1>3, HolderFastStep, WalkerFastStep DEF Acts
  <2>2. cur[s] = 0
    BY <1>1, OneMount DEF TypeOK
  <2>3. ~(pc[s] = "put_ns" /\ mnt_ns[cur[s]] = NULL)
    BY <2>2, DetachedClear DEF BeforeDec
  <2> QED
    BY <1>1, <2>1, <2>3 DEF FastStep
<1> QED
  BY <1>2, <1>3

(* What is known of umount(2) without MNT_DETACH is inductive.             *)
LEMMA SyncInductive ==
  ASSUME Settlement, Settlement', SHAPE = "sync", SyncInv, SyncCount, [Next]_vars
  PROVE  SyncInv'
<1>1. CASE UNCHANGED vars
  BY <1>1 DEF SyncInv, Sync, Detached, Early, OnWayTo, Counting, Settled, InPut, Deciding, Doomed,
              Queueing, Holding, Ending, vars, callVars, countVars, mountVars, umountVars, historyVars
<1>2. CASE \E t \in Threads : Acts(t)
  <2>1. PICK t \in Threads : Acts(t)
    BY <1>2
  <2>2. TypeOK /\ Base /\ Doom /\ DoomInv /\ 0 \in Mounts /\ WalkerLedger /\ RcuProtocol
    BY Zero DEF Settlement, Doom, Base, TypeInv, Ledger
  <2>3. (mnt_ns'[0] = NULL) <=> Detached'
    <3>1. CASE t = U
      BY <2>1, <2>2, <3>1, DetachedStep DEF Acts, SyncInv
    <3>2. CASE t # U
      BY <2>1, <3>2, Tasks DEF Acts, Frame, umountOnly, SyncInv, Detached, Early, OnWayTo, Counting
    <3> QED
      BY <3>1, <3>2
  <2>4. (mnt_ns'[0] = NULL) <=> Sync(0)'
    <3>1. CASE t = U /\ umount_tree
      <4>1. k = 0
        <5>1. k \in Mounts
          BY <3>1 DEF umount_tree, At, Settlement, Doom, Base, TypeInv, LoopInv
        <5> QED
          BY <5>1, OneMount
      <4>2. mnt_ns'[0] = NULL /\ mnt_flags'[0] = mnt_flags[0] \cup {"MNT_SYNC_UMOUNT"}
        BY <2>2, <3>1, <4>1 DEF umount_tree, TypeOK
      <4> QED
        BY <4>2 DEF Sync
    <3>2. CASE ~(t = U /\ umount_tree)
      <4>1. Sync(0)' <=> Sync(0)
        BY <2>1, <2>2, <3>2 DEF Acts, DoomStep
      <4>2. (mnt_ns'[0] = NULL) <=> (mnt_ns[0] = NULL)
        <5>1. CASE t = U
          BY <2>1, <2>2, <3>2, <5>1, NsStep DEF Acts
        <5>2. CASE t # U
          BY <2>1, <5>2 DEF Acts, umountOnly
        <5> QED
          BY <5>1, <5>2
      <4> QED
        BY <4>1, <4>2 DEF SyncInv
    <3> QED
      BY <3>1, <3>2
  <2>5. \A s \in {H, W} : pc'[s] \notin SlowLabels /\ task_work'[s] = {}
    BY <2>1, FastOnly
  <2>6. ASSUME Settled'
        PROVE  pc'[W] \notin Tentative /\ pc'[U] \notin {"put_dec", "put_rcu"}
    <3>1. CASE t = U
      <4>1. /\ Settled \/ (HeldGp /\ ~in_rcu[W])
            /\ pc'[U] \in {"put_dec", "put_rcu"} =>
                 Settled /\ (pc[U] = "put_dec" \/ (pc[U] = "put_ns" /\ mnt_ns[cur[U]] # NULL))
        BY <2>1, <2>2, <2>6, <3>1, SettledEntry DEF Acts
      <4>2. pc'[W] = pc[W]
        BY <2>1, <3>1, Tasks DEF Acts, Frame, U, W
      <4>3. ~in_rcu[W] => pc[W] \notin Tentative
        BY <2>2, Tasks DEF RcuProtocol, InReadSection, RcuLabels, Tentative
      <4>4. cur[U] = 0
        BY <2>2, OneMount, Tasks DEF TypeOK
      <4>5. Settled => mnt_ns[0] = NULL /\ pc[U] # "put_dec" /\ pc[W] \notin Tentative
        BY SettledDetached DEF SyncInv
      <4> QED
        BY <4>1, <4>2, <4>3, <4>4, <4>5
    <3>2. CASE t # U
      <4>1. Settled /\ pc'[U] = pc[U]
        BY <2>1, <2>6, <3>2, Tasks DEF Acts, Frame, Settled, InPut, OnWayTo, Counting
      <4>2. ~hashed[0] /\ Clear(0) /\ pc[W] \notin Tentative
        BY <4>1, SettledDetached
      <4>3. ~Found(WALK)
        BY <4>2, OneMount, ConfigAssumption DEF Found, Clear
      <4>4. pc'[W] \notin Tentative
        <5>1. CASE t = W
          BY <2>1, <2>2, <4>2, <4>3, <5>1, TentativeEntry DEF Acts
        <5>2. CASE t # W
          BY <2>1, <4>2, <5>2, Tasks DEF Acts, Frame
        <5> QED
          BY <5>1, <5>2
      <4> QED
        BY <4>1, <4>4 DEF SyncInv
    <3> QED
      BY <3>1, <3>2
  <2>7. cleaned'[0] = 1 => cleaner'[0] = U
    <3>1. (cleaned' = cleaned /\ cleaner' = cleaner) \/ cleanup_mnt(t)
      BY <2>1, <2>2, MainCleaner, HolderFastStep, WalkerFastStep DEF Acts, FastStep, Threads
    <3>2. CASE cleanup_mnt(t)
      <4>1. pc[t] = "cleanup" /\ cur[t] = 0 /\ cleaner' = [cleaner EXCEPT ![cur[t]] = t]
        BY <2>2, <3>2, OneMount DEF cleanup_mnt, At, TypeOK
      <4>2. t = U
        BY <4>1 DEF SyncInv, SlowLabels, Threads
      <4> QED
        BY <2>2, <4>1, <4>2 DEF TypeOK
    <3>3. CASE cleaned' = cleaned /\ cleaner' = cleaner
      BY <3>3 DEF SyncInv
    <3> QED
      BY <3>1, <3>2, <3>3
  <2>8. ASSUME retval' = 0, (Queueing \/ Holding \/ Ending)'
        PROVE  Doomed(0)' \/ 0 \in held' \/ Deciding'
    <3>1. CASE t = U
      BY <2>1, <2>8, <3>1, OutcomeStep DEF Acts
    <3>2. CASE t # U
      <4>1. /\ retval = 0 /\ (Queueing \/ Holding \/ Ending) /\ held' = held
            /\ Deciding => Deciding'
        BY <2>1, <2>8, <3>2, Tasks DEF Acts, Frame, umountOnly, Queueing, Holding, Ending, InPut,
                                       Deciding, OnWayTo, Counting
      <4>2. Doomed(0) => Doomed(0)'
        BY <2>1, <2>2, DoomedStays
      <4> QED
        BY <4>1, <4>2 DEF SyncInv
    <3> QED
      BY <3>1, <3>2
  <2>9. Deciding' => 0 \notin held'
    <3>1. CASE t = U
      BY <2>1, <2>2, <3>1, DecidingEntry DEF Acts, SyncInv
    <3>2. CASE t # U
      BY <2>1, <3>2, Tasks DEF Acts, Frame, umountOnly, Deciding, OnWayTo, Counting, SyncInv
    <3> QED
      BY <3>1, <3>2
  <2> QED
    BY <2>3, <2>4, <2>5, <2>6, <2>7, <2>8, <2>9 DEF SyncInv
<1> QED
  BY <1>1, <1>2, SomeTask DEF Settlement, Doom

-----------------------------------------------------------------------------
(* The count of the last put                                               *)

(* The same after a step.                                                  *)
LEMMA SettledDetachedNext ==
  ASSUME Settlement', SHAPE = "sync", SyncInv', Settled'
  PROVE  Clear(0)' /\ pc'[W] \notin Tentative
<1>1. Lists' /\ DoomInv' /\ 0 \in Mounts
  BY Zero DEF Settlement, Doom, Base, Ledger, UmountInv
<1>2. ~Early' /\ pc'[U] # "u_unlock" /\ ~Ending'
  BY DEF Settled, Early, Ending, InPut, OnWayTo, Counting, PutLabels, BeforeDec, AfterDec
<1>3. retval' = 0
  BY <1>1, <1>2 DEF Lists
<1>4. Sync(0)'
  BY <1>2, <1>3 DEF SyncInv, Detached
<1> QED
  BY <1>1, <1>4 DEF SyncInv, DoomInv, Closed

(* While U is at it, the counters stand still for H and W.                 *)
LEMMA OthersStill ==
  ASSUME Settlement, Settlement', SHAPE = "sync", SyncInv, SyncInv', Settled, Settled',
         NEW t \in {H, W}, Acts(t)
  PROVE  UNCHANGED counterVars
<1>1. TypeOK /\ Mounts = {0} /\ 0 \in Mounts /\ t \in Threads
  BY OneMount, Zero, Tasks DEF Settlement, Doom, Base, TypeInv
<1>2. CounterStep(t)
  BY <1>1, HolderSum, WalkerSum DEF Acts
<1>3. refs[t][0] = 0 /\ refs'[t][0] = 0
  <2>1. Clear(0) /\ pc[W] \notin Tentative
    BY SettledDetached
  <2>2. Clear(0)' /\ pc'[W] \notin Tentative
    BY SettledDetachedNext
  <2>3. CASE t = H
    BY <2>1, <2>2, <2>3 DEF Clear
  <2>4. CASE t = W
    <3>1. WALK = 0 /\ WalkerLedger /\ WalkerLedger'
      BY <1>1, ConfigAssumption DEF Settlement, Doom, Base, Ledger
    <3>2. pc[W] \notin WalkerHas /\ pc'[W] \notin WalkerHas
      BY <2>1, <2>2, <3>1 DEF Clear, WalkerHas, Tentative
    <3> QED
      BY <1>1, <2>4, <3>1, <3>2 DEF WalkerLedger, Bit
  <2> QED
    BY <2>3, <2>4
<1>4. ASSUME NEW m \in Mounts, mnt_dec_count(t, m) PROVE FALSE
  BY <1>1, <1>3, <1>4, DecRefs
<1>5. ASSUME NEW m \in Mounts, mnt_inc_count(t, m) PROVE FALSE
  BY <1>1, <1>3, <1>5, IncRefs
<1> QED
  BY <1>2, <1>4, <1>5 DEF CounterStep

(* The sums stay exact.                                                    *)
LEMMA ExactStep ==
  ASSUME Settlement, Settlement', SHAPE = "sync", SyncInv, SyncInv',
         NEW t \in Threads, Acts(t), NEW G, NEW P, Summed(G, P), Exact(G, P),
         NEW G2, NEW P2, Summed(G2, P2)', Follows(G, P, G2, P2)
  PROVE  Exact(G2, P2)'
<1> SUFFICES ASSUME ret'[U] = "held_next", OnWayTo(U, "put_test")'
             PROVE  /\ pc'[U] = "count_puts" => puts'[U] = P2[0][cpu'[U]]
                    /\ pc'[U] \in {"count_gets", "put_test"} => Outlook(U, G2)' = 0
  BY DEF Exact
<1>1. /\ TypeOK /\ TypeOK' /\ Base /\ Base' /\ 0 \in Mounts /\ Balanced(G, P) /\ Balanced(G2, P2)'
      /\ Phases /\ Phases' /\ Lists'
  BY Zero DEF Settlement, Doom, Base, TypeInv, Summed, Ledger, UmountInv
<1>2. Settled' /\ OnWayTo(U, "put_test")'
  BY DEF Settled, InPut
<1>3. CASE t # U
  <2>1. /\ pc'[U] = pc[U] /\ cur'[U] = cur[U] /\ ret'[U] = ret[U] /\ cret'[U] = cret[U]
        /\ cpu'[U] = cpu[U] /\ puts'[U] = puts[U] /\ gets'[U] = gets[U]
    BY <1>3, Tasks DEF Acts, Frame
  <2>2. Settled
    BY <1>2, <2>1 DEF Settled, InPut, OnWayTo, Counting
  <2>3. G2 = G /\ P2 = P
    BY <1>2, <1>3, <2>2, OthersStill DEF Follows, Threads
  <2> QED
    BY <2>1, <2>3 DEF Exact, Outlook, Count, OnWayTo, Counting
<1>4. CASE t = U
  <2>1. CASE pc'[U] = "count_puts" /\ cpu'[U] = 0 /\ puts'[U] = 0
    <3>1. P2[0][0] = 0
      BY <1>1 DEF Balanced, IsPrefixSum
    <3> QED
      BY <2>1, <3>1
  <2>2. CASE CountPuts(U)
    <3>1. G2 = G /\ P2 = P
      BY <2>2 DEF CountPuts, Follows
    <3>2. PICK c : c = cpu[U]
      OBVIOUS
    <3>3. /\ cur[U] = 0 /\ c \in CPUs /\ puts[U] \in Nat /\ mnt_puts[0][c] \in Nat
      BY <1>1, <3>2, OneMount, Tasks DEF TypeOK
    <3>4. /\ pc[U] = "count_puts" /\ ret[U] = "held_next" /\ cret'[U] = cret[U]
          /\ puts'[U] = puts[U] + mnt_puts[0][c] /\ gets'[U] = gets[U] /\ cur'[U] = 0 /\ refs' = refs
          /\ cpu'[U] = IF c = NCPU - 1 THEN 0 ELSE c + 1
          /\ pc'[U] = IF c = NCPU - 1 THEN "count_gets" ELSE "count_puts"
      BY <1>1, <2>2, <3>2, <3>3, Tasks DEF CountPuts, At, NextCpu, Goto, TypeOK, callVars, counterVars
    <3>4a. OnWayTo(U, "put_test")
      BY <3>4 DEF OnWayTo, Counting
    <3>5. /\ c \in Steps /\ c + 1 \in Steps /\ NCPU \in Steps /\ 0 \in Steps /\ c \in Int
          /\ NCPU \in Int
      BY <3>3, StepsRange
    <3>6. /\ P[0][c] \in Nat /\ P[0][c + 1] \in Nat /\ P[0][NCPU] \in Nat
          /\ G[0][0] = 0 /\ G[0][NCPU] \in Nat
          /\ P[0][c + 1] = P[0][c] + mnt_puts[0][c]
          /\ G[0][NCPU] - P[0][NCPU] = refs[U][0] + refs[H][0] + refs[W][0]
      BY <1>1, <3>3, <3>5 DEF Balanced, IsPrefixSum
    <3>7. puts[U] = P[0][c] /\ gets[U] = 0
      <4>1. CountRight(U, G, P)
        BY Tasks DEF Summed
      <4> QED
        BY <3>2, <3>4, <3>4a, <4>1 DEF Exact, CountRight
    <3>8. puts'[U] = P[0][c + 1]
      BY <3>3, <3>4, <3>6, <3>7
    <3>9. CASE c # NCPU - 1
      BY <3>1, <3>4, <3>8, <3>9
    <3>10. CASE c = NCPU - 1
      <4>1. pc'[U] = "count_gets" /\ cpu'[U] = 0 /\ c + 1 = NCPU
        BY <3>4, <3>5, <3>10
      <4>2. refs'[U][0] = 0 /\ refs'[H][0] = 0 /\ refs'[W][0] = 0
        <5>1. Clear(0)' /\ pc'[W] \notin Tentative
          BY <1>2, SettledDetachedNext
        <5>2. WALK = 0 /\ WalkerLedger'
          BY <1>1, OneMount, ConfigAssumption DEF Base, Ledger
        <5>3. refs'[W][0] = 0
          BY <1>1, <5>1, <5>2 DEF Clear, WalkerLedger, WalkerHas, Tentative, Bit
        <5>4. ~OwnRef(0)' /\ ~CallerRef(0)'
          <6>1. ~Early' /\ retval' = 0 /\ head' = {}
            <7>1. Holding'
              BY <1>2 DEF Settled, Holding
            <7>2. ~Early' /\ ~Ending' /\ pc'[U] # "u_unlock"
              BY <1>2, <4>1 DEF Settled, Early, Ending, InPut, OnWayTo, Counting, PutLabels
            <7> QED
              BY <1>1, <7>1, <7>2 DEF Lists
          <6>2. 0 \notin held'
            <7>1. held' = held
              BY <2>2 DEF CountPuts, umountVars
            <7>2. Deciding
              BY <3>4, <3>4a DEF Deciding
            <7> QED
              BY <7>1, <7>2 DEF SyncInv
          <6> QED
            BY <4>1, <6>1, <6>2 DEF OwnRef, CallerRef, CallerHas, BeforeDec
        <5> QED
          BY <1>1, <5>1, <5>3, <5>4 DEF Clear, Base, Ledger, UmountInv, UmountLedger, Bit
      <4>3. Outlook(U, G)' = gets'[U] - puts'[U] + G[0][NCPU] - G[0][0]
        BY <3>4, <4>1 DEF Outlook, Count
      <4>4. G[0][NCPU] = P[0][NCPU]
        BY <3>4, <3>6, <4>2
      <4> QED
        BY <3>1, <3>4, <3>6, <3>7, <3>8, <4>1, <4>3, <4>4
    <3> QED
      BY <3>9, <3>10
  <2>3. CASE CountGets(U)
    <3>1. G2 = G /\ P2 = P
      BY <2>3 DEF CountGets, Follows
    <3>2. pc[U] = "count_gets" /\ ret[U] = "held_next" /\ pc'[U] # "count_puts" /\ cret[U] = "put_test"
      BY <1>1, <2>3, Tasks DEF CountGets, At, NextCpu, Goto, TypeOK, callVars, CountReturns, OnWayTo,
                               Counting
    <3>3. CountRight(U, G, P)
      BY Tasks DEF Summed
    <3>4. Outlook(U, G)' = Outlook(U, G)
      BY <1>1, <2>3, <3>3, CountGetsRight, Tasks
    <3> QED
      BY <3>1, <3>2, <3>4 DEF Exact, OnWayTo, Counting
  <2>4. CountStep(U)
    BY <1>1, <1>4, MainSum DEF Acts
  <2> QED
    BY <2>1, <2>2, <2>3, <2>4 DEF CountStep, CountPlaces, CountReturns, OnWayTo, Counting
<1> QED
  BY <1>3, <1>4

(* The count of the last put stays exact.                                  *)
LEMMA SyncCountInductive ==
  ASSUME Settlement, Settlement', SHAPE = "sync", SyncInv, SyncInv', SyncCount, [Next]_vars
  PROVE  SyncCount'
<1>1. PICK G, P : Summed(G, P) /\ Exact(G, P)
  BY DEF SyncCount
<1>2. Base /\ Base'
  BY DEF Settlement, Doom
<1>3. PICK G2, P2 : Summed(G2, P2)' /\ Follows(G, P, G2, P2)
  BY <1>1, <1>2, SumsStep
<1>4. Exact(G2, P2)'
  <2>1. CASE UNCHANGED vars
    <3>1. G2 = G /\ P2 = P
      BY <1>3, <2>1 DEF Follows, vars
    <3> QED
      BY <1>1, <2>1, <3>1 DEF Exact, Outlook, Count, OnWayTo, Counting, vars, callVars, countVars
  <2>2. CASE \E t \in Threads : Acts(t)
    BY <1>1, <1>3, <2>2, ExactStep
  <2> QED
    BY <1>2, <2>1, <2>2, SomeTask
<1> QED
  BY <1>3, <1>4 DEF SyncCount

(* It holds at the start.                                                  *)
LEMMA SyncInit ==
  ASSUME Init, SHAPE = "sync"
  PROVE  SyncInv /\ SyncCount
<1>1. /\ mnt_ns[0] # NULL /\ ~Sync(0) /\ cleaned[0] = 0 /\ retval = 0
      /\ pc[U] = "umount" /\ pc[H] = "h_loop" /\ pc[W] \in {"walker", "done"}
      /\ \A t \in Threads : task_work[t] = {}
      /\ ret[U] = "work"
  BY Zero DEF Init, init_mount, InitTasks, PerTask, Threads, U, H, W, NULL, NS_INIT, Sync
<1>2. Early
  BY <1>1 DEF Early
<1>3. ~Settled /\ ~Deciding /\ ~Queueing /\ ~Holding /\ ~Ending
  BY <1>1 DEF Settled, Deciding, Queueing, Holding, Ending, InPut, OnWayTo, Counting, PutLabels,
              BeforeDec, AfterDec
<1>4. SyncInv
  BY <1>1, <1>2, <1>3, Tasks DEF SyncInv, Detached, SlowLabels
<1>5. SyncCount
  BY <1>1, CountInit DEF CountInv, SyncCount, Exact
<1> QED
  BY <1>4, <1>5

(* SyncClean: when umount(2) returns 0 the caller has shut the file system *)
(* down itself, whoever held the mount and whatever a walker did meanwhile,*)
(* and nobody has a reference.                                             *)
THEOREM SyncCorrect == Spec => []SyncClean
<1> DEFINE Inv == Settlement /\ (SHAPE = "sync" => SyncInv /\ SyncCount)
<1>1. Init => Inv
  BY BaseInit, CountInit, DoomInit, CleanupInit, SyncInit DEF Doom, Settlement
<1>2. Inv /\ [Next]_vars => Inv'
  <2>1. Settlement /\ [Next]_vars => Settlement'
    BY BaseInductive, CountInductive, DoomInductive, CleanupInductive DEF Doom, Settlement
  <2> QED
    BY <2>1, SyncInductive, SyncCountInductive
<1>3. Inv => SyncClean
  <2> SUFFICES ASSUME Inv, SHAPE = "sync", Returned, retval = 0
               PROVE  cleaned[0] = 1 /\ cleaner[0] = U /\ RealRefs(0) = 0
    BY DEF SyncClean
  <2>1. /\ Base /\ DoomInv /\ CleanupInv /\ SyncInv /\ Lists /\ 0 \in Mounts
        /\ pc[U] \in {"u_return", "done"}
    BY Zero DEF Settlement, Doom, Base, Ledger, UmountInv, Returned
  <2>2. Ending /\ head = {} /\ held = {} /\ task_work[U] = {}
    BY <2>1 DEF Ending, Lists, CleanupInv
  <2>3. Doomed(0)
    BY <2>1, <2>2 DEF SyncInv, Deciding, BeforeDec, OnWayTo, Counting
  <2>4. \A t \in Threads : ~Owes(t, 0)
    BY <2>1, <2>2 DEF SyncInv, Owes, AtHand, InHead, SlowLabels, Threads, U, H, W
  <2>5. cleaned[0] = 1
    BY <2>1, <2>3, <2>4 DEF CleanupInv, Debts
  <2>6. Clear(0) /\ refs[U][0] = 0
    BY <2>1, <2>3, DoomedIsUnhashed
  <2> QED
    BY <2>1, <2>5, <2>6, ClearRefs DEF SyncInv
<1> HIDE DEF Inv
<1> QED
  BY <1>1, <1>2, <1>3, PTL DEF Spec

-----------------------------------------------------------------------------
(* What else is known of a mount that is used without mount_lock           *)

(* m has not left its namespace.                                           *)
InNs(m) ==
    retval # 0 \/ (Early /\ m \notin head /\ ~(pc[U] = "tree_unhash" /\ m = k))

NsInv == \A m \in Mounts : (mnt_ns[m] # NULL) <=> InNs(m)

(* U puts the caller's reference only after it has given up, and a mount   *)
(* without a namespace never on the fast path.                             *)
PutInv == pc[U] = "put_dec" \/ (pc[U] \in BeforeDec /\ ret[U] = "work") => retval # 0

(* A fast put of H is not of the last reference: U has the mount's own,    *)
(* and keeps it until H has left its read section.                         *)
FastInv ==
    pc[H] = "put_dec" =>
      refs[U][HELD] > 0 /\ ~Settled /\ ~(pc[U] = "held_gp" /\ gp[U] # H)

(* W has found a mount, and nobody has taken mount_lock since.             *)
Seen == pc[W] \in {"legit_begin", "legit_inc", "legit_retry"} /\ seq = sequence

(* Then somebody has a reference to it.                                    *)
SeenInv == Seen => refs[U][WALK] + refs[H][WALK] > 0

LifeInv == NsInv /\ PutInv /\ FastInv /\ SeenInv

-----------------------------------------------------------------------------
(* Namespaces                                                              *)

(* U clears mnt_ns of one mount at a time, and never sets it.              *)
LEMMA NsKept ==
  ASSUME Base, Base', main, NsInv
  PROVE  NsInv'
<1>0. TypeOK /\ Phases /\ Lists /\ Lists' /\ k \in Int
  BY DEF Base, TypeInv, TypeOK, Ledger, UmountInv
<1> USE Tasks DEF At, Goto
<1> SUFFICES ASSUME NEW m \in Mounts
             PROVE  (mnt_ns'[m] # NULL) <=> InNs(m)'
  BY DEF NsInv
<1>30. (mnt_ns[m] # NULL) <=> InNs(m)
  BY DEF NsInv
<1> USE <1>0, <1>30 DEF TypeOK, OnWayTo, Counting, Early, InNs, CountReturns
<1>1. CASE UmountRefused
  <2>1. mnt_ns' = mnt_ns /\ retval' # 0 /\ head = {} /\ pc[U] = "umount"
    BY <1>1 DEF UmountRefused, Lists, mountVars, EPERM
  <2> QED
    BY <2>1
<1>2. CASE UmountAllowed
  BY <1>2
     DEF UmountAllowed, callVars, countVars, mountVars, umountVars
<1>3. CASE UmountLock
  BY <1>3
     DEF UmountLock, callVars, countVars, mountVars, umountVars
<1>4. CASE do_umount
  <2>1. /\ mnt_ns' = mnt_ns /\ head' = head /\ head = {} /\ Early /\ pc[U] # "tree_unhash"
        /\ retval' # 0 \/ (retval' = retval /\ Early' /\ pc'[U] # "tree_unhash")
    BY <1>4 DEF do_umount, UmountFails, UmountTreeBegin, StartCount, Lists, callVars, countVars,
                EINVAL
  <2> HIDE DEF Early
  <2> QED
    BY <2>1
<1>5. CASE propagate_mount_busy
  <2>1. /\ mnt_ns' = mnt_ns /\ head' = head /\ head = {} /\ Early /\ pc[U] # "tree_unhash"
        /\ retval' # 0 \/ (retval' = retval /\ Early' /\ pc'[U] # "tree_unhash")
    BY <1>5 DEF propagate_mount_busy, UmountFails, UmountTreeBegin, StartCount, Lists, callVars, countVars,
                EBUSY
  <2> HIDE DEF Early
  <2> QED
    BY <2>1
<1>6. CASE umount_tree
  <2>1. /\ mnt_ns' = [mnt_ns EXCEPT ![k] = NULL] /\ head' = head /\ retval' = retval /\ k' = k
        /\ pc[U] = "tree_ns" /\ pc'[U] = "tree_unhash" /\ retval = 0
    BY <1>6 DEF umount_tree, umountVars, Lists
  <2> QED
    BY <2>1
<1>7. CASE umount_mnt
  <2>1. /\ mnt_ns' = mnt_ns /\ head' = head \cup {k} /\ retval' = retval /\ retval = 0
        /\ pc[U] = "tree_unhash" /\ pc'[U] \in {"tree_ns", "u_dec"}
    BY <1>7 DEF umount_mnt, Lists
  <2>2. pc'[U] = "u_dec" => head' = Mounts
    BY DEF Lists
  <2> QED
    BY <2>1, <2>2
<1>8. CASE UmountDropsCaller
  BY <1>8
     DEF UmountDropsCaller, callVars, countVars, mountVars, umountVars
<1>9. CASE namespace_unlock
  BY <1>9
     DEF namespace_unlock, callVars, countVars, mountVars, umountVars
<1>10. CASE UmountEnd
  BY <1>10
     DEF UmountEnd, DROP_REF, CallMntput, callVars, countVars, mountVars, umountVars
<1>11. CASE kern_unmount_array
  <2>1. /\ mnt_ns' = [mnt_ns EXCEPT ![INSERTED(k)] = NULL] /\ head' = head \cup {INSERTED(k)}
        /\ retval' = retval /\ retval = 0
        /\ pc[U] = "shortterm" /\ pc'[U] \in {"shortterm", "unmounted_lock"}
    BY <1>11 DEF kern_unmount_array, mnt_make_shortterm, Lists
  <2>2. pc'[U] = "unmounted_lock" => head' = Mounts
    BY DEF Lists
  <2> HIDE DEF INSERTED
  <2> QED
    BY <2>1, <2>2
<1>12. CASE UnmountedLock
  BY <1>12
     DEF UnmountedLock, callVars, countVars, mountVars, umountVars
<1>13. CASE UnheldNext
  BY <1>13
     DEF UnheldNext, StartCount, callVars, countVars, mountVars, umountVars
<1>14. CASE mntput_unheld
  BY <1>14
     DEF mntput_unheld, callVars, countVars, mountVars, umountVars
<1>15. CASE UnheldDec
  BY <1>15
     DEF UnheldDec, callVars, countVars, mountVars, umountVars
<1>16. CASE UnheldFinal
  BY <1>16
     DEF UnheldFinal, mntput_final_locked, callVars, countVars, mountVars, umountVars
<1>17. CASE UnmountedUnlock
  BY <1>17
     DEF UnmountedUnlock, callVars, countVars, mountVars, umountVars
<1>18. CASE QueueNext
  BY <1>18
     DEF QueueNext, callVars, countVars, mountVars, umountVars
<1>19. CASE mntput_unmounted
  BY <1>19
     DEF mntput_unmounted, callVars, countVars, mountVars, umountVars
<1>20. CASE HeldGp
  BY <1>20
     DEF HeldGp, synchronize_rcu, callVars, countVars, mountVars, umountVars
<1>21. CASE HeldNext
  BY <1>21
     DEF HeldNext, CallMntput, callVars, countVars, mountVars, umountVars
<1>22. CASE HeldEnd
  BY <1>22
     DEF HeldEnd, callVars, countVars, mountVars, umountVars
<1>23. CASE Join
  BY <1>23
     DEF Join, callVars, countVars, mountVars, umountVars
<1>24. CASE Mntput(U)
  <2>1. UNCHANGED umountOnly
    BY <1>24, MntputFrame
  <2>2. (Early <=> Early') /\ pc[U] # "tree_unhash" /\ pc'[U] # "tree_unhash"
    BY <1>24, EarlyMntput
  <2> HIDE DEF Early
  <2> QED
    BY <2>1, <2>2 DEF umountOnly
<1> QED
  BY <1>1, <1>2, <1>3, <1>4, <1>5, <1>6, <1>7, <1>8, <1>9, <1>10, <1>11, <1>12, <1>13,
     <1>14, <1>15, <1>16, <1>17, <1>18, <1>19, <1>20, <1>21, <1>22, <1>23, <1>24
     DEF main

-----------------------------------------------------------------------------
(* What a step may do to the life of a mount                               *)

(* The variables LifeOf() and LifeRefs() look at stay.                     *)
Quiet ==
    /\ UNCHANGED <<refs, freed, cleaned, mnt_ns, transient>>
    /\ \A m \in Mounts : Doomed(m)' <=> Doomed(m)
    /\ pc'[W] = "walker_legit" <=> pc[W] = "walker_legit"

(* mntput() drops a reference, dooms, cleans up or frees the mount.        *)
LEMMA MntputLife ==
  ASSUME TypeOK, NEW t \in Threads, Mntput(t)
  PROVE  \/ Quiet \/ MntputFast(t) \/ SlowpathDec(t) \/ mntput_no_expire_slowpath(t)
         \/ cleanup_mnt(t) \/ free_vfsmnt(t)
<1> USE Tasks DEF TypeOK, At, Goto, Quiet, Doomed, Returns, WorkReturns, CountReturns
<1>1. CASE MntputBegin(t)
  BY <1>1
     DEF MntputBegin, rcu_read_lock, counterVars, mountVars, historyVars, localVars
<1>2. CASE mntput_no_expire(t)
  BY <1>2
     DEF mntput_no_expire, counterVars, mountVars, historyVars, localVars
<1>3. CASE MntputFast(t)
  BY <1>3
<1>4. CASE MntputFastEnd(t)
  BY <1>4
     DEF MntputFastEnd, rcu_read_unlock, counterVars, mountVars, historyVars, localVars
<1>5. CASE SlowpathLock(t)
  BY <1>5
     DEF SlowpathLock, counterVars, mountVars, historyVars, localVars
<1>6. CASE SlowpathDec(t)
  BY <1>6
<1>7. CASE CountPuts(t)
  BY <1>7
     DEF CountPuts, NextCpu, counterVars, mountVars, historyVars, localVars
<1>8. CASE CountGets(t)
  BY <1>8
     DEF CountGets, NextCpu, counterVars, mountVars, historyVars, localVars
<1>9. CASE mntput_no_expire_slowpath(t)
  BY <1>9
<1>10. CASE SlowpathRcuUnlock(t)
  BY <1>10
     DEF SlowpathRcuUnlock, rcu_read_unlock, counterVars, mountVars, historyVars,
         localVars
<1>11. CASE SlowpathUnlock(t)
  BY <1>11
     DEF SlowpathUnlock, counterVars, mountVars, historyVars, localVars
<1>12. CASE mntput_queue_cleanup(t)
  BY <1>12
     DEF mntput_queue_cleanup, counterVars, mountVars, historyVars, localVars
<1>13. CASE cleanup_mnt(t)
  BY <1>13
<1>14. CASE CleanupGp(t)
  BY <1>14
     DEF CleanupGp, synchronize_rcu, counterVars, mountVars, historyVars, localVars
<1>15. CASE free_vfsmnt(t)
  BY <1>15
<1>16. CASE run_task_work(t)
  BY <1>16
     DEF run_task_work, counterVars, mountVars, historyVars, localVars
<1>17. CASE NoTaskWork(t)
  BY <1>17
     DEF NoTaskWork, counterVars, mountVars, historyVars, localVars
<1> QED
  BY <1>1, <1>2, <1>3, <1>4, <1>5, <1>6, <1>7, <1>8, <1>9, <1>10, <1>11, <1>12, <1>13,
     <1>14, <1>15, <1>16, <1>17
     DEF Mntput

(* H gets a reference.                                                     *)
LEMMA HolderLife ==
  ASSUME TypeOK, holder
  PROVE  Quiet \/ HolderGet \/ Mntput(H)
<1> USE Tasks DEF TypeOK, At, Goto, Quiet, Doomed
<1>1. CASE HolderGet
  BY <1>1
<1>2. CASE HolderLastPut
  BY <1>2
     DEF HolderLastPut, counterVars, mountVars, historyVars, localVars
<1>3. CASE Mntput(H)
  BY <1>3
<1> QED
  BY <1>1, <1>2, <1>3
     DEF holder

(* W tries to get one.                                                     *)
LEMMA WalkerLife ==
  ASSUME TypeOK, walker
  PROVE  \/ Quiet \/ WalkerFind \/ LegitimizeInc \/ LegitimizeRetry \/ LegitimizeFlags
         \/ WalkerFail \/ WalkerLegit \/ Mntput(W)
<1> USE Tasks DEF TypeOK, At, Goto, Quiet, Doomed
<1>1. CASE WalkerBegin
  BY <1>1
     DEF WalkerBegin, rcu_read_lock, counterVars, mountVars, historyVars, localVars
<1>2. CASE read_seqbegin
  BY <1>2
     DEF read_seqbegin, counterVars, mountVars, historyVars, localVars
<1>3. CASE WalkerFind
  BY <1>3
<1>4. CASE LegitimizeBegin
  BY <1>4
     DEF LegitimizeBegin, counterVars, mountVars, historyVars, localVars
<1>5. CASE LegitimizeInc
  BY <1>5
<1>6. CASE LegitimizeRetry
  BY <1>6
<1>7. CASE LegitimizeLock
  BY <1>7
     DEF LegitimizeLock, counterVars, mountVars, historyVars, localVars
<1>8. CASE LegitimizeFlags
  BY <1>8
<1>9. CASE LegitimizeUnlock
  BY <1>9
     DEF LegitimizeUnlock, counterVars, mountVars, historyVars, localVars
<1>10. CASE legitimize_mnt
  BY <1>10
     DEF legitimize_mnt, CallMntput, rcu_read_unlock, counterVars, mountVars,
         historyVars, localVars
<1>11. CASE LegitimizeRelock
  BY <1>11
     DEF LegitimizeRelock, rcu_read_lock, counterVars, mountVars, historyVars, localVars
<1>12. CASE WalkerFail
  BY <1>12
<1>13. CASE WalkerLegit
  BY <1>13
<1>14. CASE WalkerUse
  BY <1>14
     DEF WalkerUse, CallMntput, counterVars, mountVars, historyVars, localVars
<1>15. CASE Mntput(W)
  BY <1>15
<1> QED
  BY <1>1, <1>2, <1>3, <1>4, <1>5, <1>6, <1>7, <1>8, <1>9, <1>10, <1>11, <1>12, <1>13,
     <1>14, <1>15
     DEF walker

(* U takes mounts out of their namespaces, drops references and dooms.     *)
LEMMA MainLife ==
  ASSUME TypeOK, main
  PROVE  \/ Quiet \/ umount_tree \/ UmountDropsCaller \/ kern_unmount_array
         \/ UnheldDec \/ UnheldFinal \/ Mntput(U)
<1> USE Tasks DEF TypeOK, At, Goto, Quiet, Doomed
<1>1. CASE UmountRefused
  BY <1>1
     DEF UmountRefused, DROP_REF, CallMntput, counterVars, mountVars, historyVars,
         localVars, callVars
<1>2. CASE UmountAllowed
  BY <1>2
     DEF UmountAllowed, counterVars, mountVars, historyVars, localVars, callVars
<1>3. CASE UmountLock
  BY <1>3
     DEF UmountLock, counterVars, mountVars, historyVars, localVars, callVars
<1>4. CASE do_umount
  BY <1>4
     DEF do_umount, UmountFails, UmountTreeBegin, StartCount, counterVars, mountVars,
         historyVars, localVars, callVars
<1>5. CASE propagate_mount_busy
  BY <1>5
     DEF propagate_mount_busy, UmountFails, UmountTreeBegin, counterVars, mountVars,
         historyVars, localVars, callVars
<1>6. CASE umount_tree
  BY <1>6
<1>7. CASE umount_mnt
  BY <1>7
     DEF umount_mnt, counterVars, mountVars, historyVars, localVars, callVars
<1>8. CASE UmountDropsCaller
  BY <1>8
<1>9. CASE namespace_unlock
  BY <1>9
     DEF namespace_unlock, counterVars, mountVars, historyVars, localVars, callVars
<1>10. CASE UmountEnd
  BY <1>10
     DEF UmountEnd, DROP_REF, CallMntput, counterVars, mountVars, historyVars,
         localVars, callVars
<1>11. CASE kern_unmount_array
  BY <1>11
<1>12. CASE UnmountedLock
  BY <1>12
     DEF UnmountedLock, counterVars, mountVars, historyVars, localVars, callVars
<1>13. CASE UnheldNext
  BY <1>13
     DEF UnheldNext, StartCount, counterVars, mountVars, historyVars, localVars,
         callVars
<1>14. CASE mntput_unheld
  BY <1>14
     DEF mntput_unheld, counterVars, mountVars, historyVars, localVars, callVars
<1>15. CASE UnheldDec
  BY <1>15
<1>16. CASE UnheldFinal
  BY <1>16
<1>17. CASE UnmountedUnlock
  BY <1>17
     DEF UnmountedUnlock, counterVars, mountVars, historyVars, localVars, callVars
<1>18. CASE QueueNext
  BY <1>18
     DEF QueueNext, counterVars, mountVars, historyVars, localVars, callVars
<1>19. CASE mntput_unmounted
  BY <1>19
     DEF mntput_unmounted, counterVars, mountVars, historyVars, localVars, callVars
<1>20. CASE HeldGp
  BY <1>20
     DEF HeldGp, synchronize_rcu, counterVars, mountVars, historyVars, localVars,
         callVars
<1>21. CASE HeldNext
  BY <1>21
     DEF HeldNext, CallMntput, counterVars, mountVars, historyVars, localVars, callVars
<1>22. CASE HeldEnd
  BY <1>22
     DEF HeldEnd, counterVars, mountVars, historyVars, localVars, callVars
<1>23. CASE Join
  BY <1>23
     DEF Join, counterVars, mountVars, historyVars, localVars, callVars
<1>24. CASE Mntput(U)
  BY <1>24
<1> QED
  BY <1>1, <1>2, <1>3, <1>4, <1>5, <1>6, <1>7, <1>8, <1>9, <1>10, <1>11, <1>12, <1>13,
     <1>14, <1>15, <1>16, <1>17, <1>18, <1>19, <1>20, <1>21, <1>22, <1>23, <1>24
     DEF main

-----------------------------------------------------------------------------
(* Fast puts, and the grace period that waits for them                     *)

(* A mount in a namespace has its own reference, and U is far from putting *)
(* it.                                                                     *)
LEMMA NsOwned ==
  ASSUME Base, NsInv, NEW m \in Mounts, mnt_ns[m] # NULL
  PROVE  /\ OwnRef(m) /\ refs[U][m] = 1 + Bit(CallerRef(m))
         /\ retval # 0 \/ Early
         /\ ~Holding /\ ~Settled
<1>1. retval # 0 \/ (Early /\ m \notin head)
  BY DEF NsInv, InNs
<1>2. OwnRef(m)
  BY <1>1 DEF OwnRef
<1>3. refs[U][m] = 1 + Bit(CallerRef(m))
  BY <1>2 DEF Base, Ledger, UmountInv, UmountLedger, Bit
<1>4. Lists
  BY DEF Base, Ledger, UmountInv
<1>5. ~Holding
  <2>1. CASE Early
    BY <2>1 DEF Early, Holding, InPut, PutLabels, BeforeDec, AfterDec, OnWayTo, Counting
  <2>2. CASE retval # 0
    <3>1. pc[U] = "u_unlock" \/ Ending
      BY <1>4, <2>2 DEF Lists
    <3> QED
      BY <3>1 DEF Ending, Holding, InPut, PutLabels, BeforeDec, AfterDec, OnWayTo, Counting
  <2> QED
    BY <1>1, <2>1, <2>2
<1>6. Settled => Holding
  BY DEF Settled, Holding
<1> QED
  BY <1>1, <1>2, <1>3, <1>5, <1>6

(* Within mntput() a task gets to the fast path only by a look at mnt_ns,  *)
(* and it disturbs no grace period of another.                             *)
LEMMA MntputWay ==
  ASSUME TypeOK, NEW t \in Threads, Mntput(t)
  PROVE  /\ pc'[t] \in BeforeDec =>
              /\ pc[t] \in BeforeDec /\ ret'[t] = ret[t]
              /\ pc'[t] = "put_dec" => pc[t] = "put_ns" /\ mnt_ns[cur[t]] # NULL
         /\ pc'[t] # "held_gp"
         /\ \A s \in Threads \ {t} : gp'[s] = gp[s]
<1> USE Tasks DEF TypeOK, At, Goto, BeforeDec, Returns, WorkReturns, CountReturns
<1>1. CASE MntputBegin(t)
  BY <1>1
     DEF MntputBegin, rcu_read_lock, callVars, localVars
<1>2. CASE mntput_no_expire(t)
  BY <1>2
     DEF mntput_no_expire, callVars, localVars
<1>3. CASE MntputFast(t)
  BY <1>3
     DEF MntputFast, callVars, localVars
<1>4. CASE MntputFastEnd(t)
  BY <1>4
     DEF MntputFastEnd, rcu_read_unlock, callVars, localVars
<1>5. CASE SlowpathLock(t)
  BY <1>5
     DEF SlowpathLock, callVars, localVars
<1>6. CASE SlowpathDec(t)
  BY <1>6
     DEF SlowpathDec, StartCount, callVars, localVars
<1>7. CASE CountPuts(t)
  BY <1>7
     DEF CountPuts, NextCpu, callVars, localVars
<1>8. CASE CountGets(t)
  BY <1>8
     DEF CountGets, NextCpu, callVars, localVars
<1>9. CASE mntput_no_expire_slowpath(t)
  BY <1>9
     DEF mntput_no_expire_slowpath, callVars, localVars
<1>10. CASE SlowpathRcuUnlock(t)
  BY <1>10
     DEF SlowpathRcuUnlock, rcu_read_unlock, callVars, localVars
<1>11. CASE SlowpathUnlock(t)
  BY <1>11
     DEF SlowpathUnlock, callVars, localVars
<1>12. CASE mntput_queue_cleanup(t)
  BY <1>12
     DEF mntput_queue_cleanup, callVars, localVars
<1>13. CASE cleanup_mnt(t)
  BY <1>13
     DEF cleanup_mnt, callVars, localVars
<1>14. CASE CleanupGp(t)
  BY <1>14
     DEF CleanupGp, synchronize_rcu, callVars, localVars
<1>15. CASE free_vfsmnt(t)
  BY <1>15
     DEF free_vfsmnt, callVars, localVars
<1>16. CASE run_task_work(t)
  BY <1>16
     DEF run_task_work, callVars, localVars
<1>17. CASE NoTaskWork(t)
  BY <1>17
     DEF NoTaskWork, callVars, localVars
<1> QED
  BY <1>1, <1>2, <1>3, <1>4, <1>5, <1>6, <1>7, <1>8, <1>9, <1>10, <1>11, <1>12, <1>13,
     <1>14, <1>15, <1>16, <1>17
     DEF Mntput

(* U puts the caller's reference when it has given up.                     *)
LEMMA PutKept ==
  ASSUME Base, NsInv, PutInv, main
  PROVE  PutInv'
<1>0. TypeOK /\ Caller
  BY DEF Base, TypeInv, Ledger, UmountInv
<1> USE <1>0, Tasks DEF TypeOK, At, Goto, PutInv, BeforeDec
<1>1. CASE UmountRefused
  BY <1>1 DEF UmountRefused, DROP_REF, CallMntput, EPERM
<1>2. CASE UmountAllowed
  BY <1>2
     DEF UmountAllowed, umountVars, callVars
<1>3. CASE UmountLock
  BY <1>3
     DEF UmountLock, umountVars, callVars
<1>4. CASE do_umount
  BY <1>4
     DEF do_umount, UmountFails, UmountTreeBegin, StartCount, umountVars, callVars
<1>5. CASE propagate_mount_busy
  BY <1>5
     DEF propagate_mount_busy, UmountFails, UmountTreeBegin, umountVars, callVars
<1>6. CASE umount_tree
  BY <1>6
     DEF umount_tree, umountVars, callVars
<1>7. CASE umount_mnt
  BY <1>7
     DEF umount_mnt, umountVars, callVars
<1>8. CASE UmountDropsCaller
  BY <1>8
     DEF UmountDropsCaller, umountVars, callVars
<1>9. CASE namespace_unlock
  BY <1>9
     DEF namespace_unlock, umountVars, callVars
<1>10. CASE UmountEnd
  <2>1. CASE ref
    <3>1. retval # 0
      BY <1>10, <2>1 DEF UmountEnd, Caller, CallerHas, Bit, Early, OnWayTo, Counting
    <3> QED
      BY <1>10, <3>1 DEF UmountEnd
  <2>2. CASE ~ref
    BY <1>10, <2>2 DEF UmountEnd
  <2> QED
    BY <2>1, <2>2
<1>11. CASE kern_unmount_array
  BY <1>11
     DEF kern_unmount_array, mnt_make_shortterm, umountVars, callVars
<1>12. CASE UnmountedLock
  BY <1>12
     DEF UnmountedLock, umountVars, callVars
<1>13. CASE UnheldNext
  BY <1>13
     DEF UnheldNext, StartCount, umountVars, callVars
<1>14. CASE mntput_unheld
  BY <1>14
     DEF mntput_unheld, umountVars, callVars
<1>15. CASE UnheldDec
  BY <1>15
     DEF UnheldDec, umountVars, callVars
<1>16. CASE UnheldFinal
  BY <1>16
     DEF UnheldFinal, mntput_final_locked, umountVars, callVars
<1>17. CASE UnmountedUnlock
  BY <1>17
     DEF UnmountedUnlock, umountVars, callVars
<1>18. CASE QueueNext
  BY <1>18
     DEF QueueNext, umountVars, callVars
<1>19. CASE mntput_unmounted
  BY <1>19
     DEF mntput_unmounted, umountVars, callVars
<1>20. CASE HeldGp
  BY <1>20
     DEF HeldGp, synchronize_rcu, umountVars, callVars
<1>21. CASE HeldNext
  BY <1>21
     DEF HeldNext, CallMntput, umountVars, callVars
<1>22. CASE HeldEnd
  BY <1>22
     DEF HeldEnd, umountVars, callVars
<1>23. CASE Join
  BY <1>23
     DEF Join, umountVars, callVars
<1>24. CASE Mntput(U)
  <2>1. retval' = retval
    BY <1>24, MntputFrame DEF umountOnly
  <2>2. CASE pc'[U] = "put_dec"
    <3>1. pc[U] = "put_ns" /\ mnt_ns[cur[U]] # NULL /\ cur[U] \in Mounts
      BY <1>24, <2>2, MntputWay
    <3>2. retval # 0 \/ Early
      BY <3>1, NsOwned
    <3> QED
      BY <2>1, <3>1, <3>2 DEF Early, OnWayTo, Counting
  <2>3. CASE pc'[U] # "put_dec"
    BY <1>24, <2>1, <2>3, MntputWay
  <2> QED
    BY <2>2, <2>3
<1> QED
  BY <1>1, <1>2, <1>3, <1>4, <1>5, <1>6, <1>7, <1>8, <1>9, <1>10, <1>11, <1>12, <1>13,
     <1>14, <1>15, <1>16, <1>17, <1>18, <1>19, <1>20, <1>21, <1>22, <1>23, <1>24
     DEF main

(* U waits for H first.                                                    *)
LEMMA GpFirst ==
  ASSUME TypeOK, main, pc'[U] = "held_gp"
  PROVE  gp'[U] = H \/ HeldGp
<1> USE Tasks DEF TypeOK, At, Goto
<1>1. CASE UmountRefused
  BY <1>1
     DEF UmountRefused, DROP_REF, CallMntput, callVars
<1>2. CASE UmountAllowed
  BY <1>2
     DEF UmountAllowed, callVars
<1>3. CASE UmountLock
  BY <1>3
     DEF UmountLock, callVars
<1>4. CASE do_umount
  BY <1>4
     DEF do_umount, UmountFails, UmountTreeBegin, StartCount, callVars
<1>5. CASE propagate_mount_busy
  BY <1>5
     DEF propagate_mount_busy, UmountFails, UmountTreeBegin, callVars
<1>6. CASE umount_tree
  BY <1>6
     DEF umount_tree, callVars
<1>7. CASE umount_mnt
  BY <1>7
     DEF umount_mnt, callVars
<1>8. CASE UmountDropsCaller
  BY <1>8
     DEF UmountDropsCaller, callVars
<1>9. CASE namespace_unlock
  BY <1>9
     DEF namespace_unlock, callVars
<1>10. CASE UmountEnd
  BY <1>10
     DEF UmountEnd, DROP_REF, CallMntput, callVars
<1>11. CASE kern_unmount_array
  BY <1>11
     DEF kern_unmount_array, mnt_make_shortterm, callVars
<1>12. CASE UnmountedLock
  BY <1>12
     DEF UnmountedLock, callVars
<1>13. CASE UnheldNext
  BY <1>13
     DEF UnheldNext, StartCount, callVars
<1>14. CASE mntput_unheld
  BY <1>14
     DEF mntput_unheld, callVars
<1>15. CASE UnheldDec
  BY <1>15
     DEF UnheldDec, callVars
<1>16. CASE UnheldFinal
  BY <1>16
     DEF UnheldFinal, mntput_final_locked, callVars
<1>17. CASE UnmountedUnlock
  BY <1>17
     DEF UnmountedUnlock, callVars
<1>18. CASE QueueNext
  BY <1>18
     DEF QueueNext, callVars
<1>19. CASE mntput_unmounted
  BY <1>19 DEF mntput_unmounted, FirstOther
<1>20. CASE HeldGp
  BY <1>20
<1>21. CASE HeldNext
  BY <1>21
     DEF HeldNext, CallMntput, callVars
<1>22. CASE HeldEnd
  BY <1>22
     DEF HeldEnd, callVars
<1>23. CASE Join
  BY <1>23
     DEF Join, callVars
<1>24. CASE Mntput(U)
  BY <1>24, MntputWay
<1> QED
  BY <1>1, <1>2, <1>3, <1>4, <1>5, <1>6, <1>7, <1>8, <1>9, <1>10, <1>11, <1>12, <1>13,
     <1>14, <1>15, <1>16, <1>17, <1>18, <1>19, <1>20, <1>21, <1>22, <1>23, <1>24
     DEF main

(* H and W leave the grace period of U alone.                              *)
LEMMA OthersGp ==
  ASSUME TypeOK, holder \/ walker
  PROVE  gp'[U] = gp[U]
<1> USE Tasks DEF TypeOK
<1>1. CASE HolderGet
  BY <1>1 DEF HolderGet
<1>2. CASE HolderLastPut
  BY <1>2 DEF HolderLastPut, localVars
<1>3. CASE Mntput(H) \/ Mntput(W)
  BY <1>3, MntputWay DEF Threads, U, H, W
<1>4. CASE walker
  <2>1. CASE Mntput(W)
    BY <1>3, <2>1
  <2>2. CASE ~Mntput(W)
    BY <1>4, <2>2
       DEF walker, WalkerBegin, read_seqbegin, WalkerFind, LegitimizeBegin, LegitimizeInc,
           LegitimizeRetry, LegitimizeLock, LegitimizeFlags, LegitimizeUnlock, legitimize_mnt,
           LegitimizeRelock, WalkerFail, WalkerLegit, WalkerLeaves, WalkerUse, localVars
  <2> QED
    BY <2>1, <2>2
<1> QED
  BY <1>1, <1>2, <1>3, <1>4 DEF holder

(* U keeps the own reference of a mount that H is about to put on the fast *)
(* path.                                                                   *)
LEMMA UmountKeepsHeld ==
  ASSUME Doom, Doom', PutInv, FastInv, main, pc[H] = "put_dec"
  PROVE  refs'[U][HELD] > 0
<1>0. /\ TypeOK /\ HELD \in Mounts /\ refs[U][HELD] > 0 /\ ~Settled
      /\ UmountLedger' /\ Lists /\ Lists' /\ Phases
  BY ConfigAssumption DEF Doom, Base, TypeInv, Ledger, UmountInv, FastInv
<1> USE <1>0, Tasks
<1>1. SUFFICES ASSUME refs'[U] # refs[U]
               PROVE  refs'[U][HELD] > 0
  OBVIOUS
<1>2. OwnRef(HELD)' => refs'[U][HELD] > 0
  BY DEF UmountLedger, Bit
<1>3. CASE UmountDropsCaller
  <2>1. pc[U] = "u_dec" /\ pc'[U] = "u_unlock" /\ head' = head /\ retval' = retval
    BY <1>3 DEF UmountDropsCaller, At, Goto, TypeOK
  <2>2. head = Mounts /\ retval = 0
    BY <2>1 DEF Lists
  <2>3. \A m \in Mounts : ~fast_final'[m]
    BY <2>1 DEF Lists, Peek, Queueing, Holding, Ending, InPut, PutLabels, BeforeDec, AfterDec,
                OnWayTo, Counting
  <2> QED
    BY <1>2, <2>1, <2>2, <2>3 DEF OwnRef
<1>4. CASE UnheldDec
  <2>1. pc[U] = "unheld_dec" /\ mnt_dec_count(U, cur[U]) /\ cur[U] \in Mounts
    BY <1>4 DEF UnheldDec, At, TypeOK
  <2>2. Clear(cur[U])
    BY <2>1 DEF Doom, DoomInv
  <2>3. refs[H][HELD] > 0
    BY DEF Doom, Base, Ledger, HolderLedger, BeforeDec, Bit
  <2>4. cur[U] # HELD
    BY <2>2, <2>3 DEF Clear
  <2> QED
    BY <2>1, <2>4, DecRefs
<1>5. CASE Mntput(U)
  <2>1. retval' = retval
    BY <1>5, MntputFrame DEF umountOnly
  <2>2. CASE MntputFast(U) \/ SlowpathDec(U)
    <3>1. pc[U] \in {"put_dec", "slow_dec"}
      BY <2>2 DEF MntputFast, SlowpathDec, At
    <3>2. retval # 0
      <4>1. pc[U] = "slow_dec" => ret[U] \in {"work", "held_next"}
        BY DEF Phases, Early, Peek, Queueing, Holding, Ending, InPut, OnWayTo, Counting
      <4>2. pc[U] = "slow_dec" => ret[U] # "held_next"
        BY DEF Settled, InPut, PutLabels, BeforeDec
      <4> QED
        BY <3>1, <4>1, <4>2 DEF PutInv, BeforeDec
    <3> QED
      BY <1>2, <2>1, <3>2 DEF OwnRef
  <2>3. CASE ~(MntputFast(U) \/ SlowpathDec(U))
    BY <1>1, <1>5, <2>3, MntputLife
       DEF Quiet, mntput_no_expire_slowpath, cleanup_mnt, free_vfsmnt, counterVars
  <2> QED
    BY <2>2, <2>3
<1> QED
  BY <1>1, <1>3, <1>4, <1>5, MainLife
     DEF Quiet, umount_tree, kern_unmount_array, UnheldFinal, counterVars

(* While H is about to put on the fast path, U cannot end its grace        *)
(* period.                                                                 *)
LEMMA FastKept ==
  ASSUME Doom, Doom', NsInv, PutInv, FastInv, NEW t \in Threads, Acts(t)
  PROVE  FastInv'
<1>0. Base /\ Base' /\ TypeOK /\ HELD \in Mounts /\ Frame(t)
  BY ConfigAssumption DEF Doom, Base, TypeInv, Acts
<1> USE <1>0, Tasks
<1> SUFFICES ASSUME pc'[H] = "put_dec"
             PROVE  /\ refs'[U][HELD] > 0 /\ ~Settled'
                    /\ ~(pc'[U] = "held_gp" /\ gp'[U] # H)
  BY DEF FastInv
<1>1. t # U => /\ pc'[U] = pc[U] /\ refs'[U] = refs[U] /\ (Settled' <=> Settled)
               /\ gp'[U] = gp[U]
  <2>1. ASSUME t # U
        PROVE  pc'[U] = pc[U] /\ ret'[U] = ret[U] /\ cret'[U] = cret[U] /\ refs'[U] = refs[U]
    BY <2>1 DEF Frame
  <2>2. t # U => gp'[U] = gp[U]
    BY OthersGp DEF Acts, Threads
  <2> QED
    BY <2>1, <2>2 DEF Settled, InPut, OnWayTo, Counting
<1>2. CASE t = H
  <2>1. holder /\ cur[H] = HELD
    BY <1>2 DEF Acts, Base, Ledger, HolderLedger
  <2>2. Mntput(H)
    BY <2>1 DEF holder, HolderGet, HolderLastPut, Goto, TypeOK
  <2>3. mnt_ns[HELD] # NULL
    BY <2>1, <2>2, MntputWay DEF BeforeDec
  <2>4. refs[U][HELD] = 1 + Bit(CallerRef(HELD)) /\ ~Holding /\ ~Settled
    BY <2>3, NsOwned
  <2>5. refs[U][HELD] > 0 /\ pc[U] # "held_gp"
    BY <2>4 DEF Bit, Holding
  <2> QED
    BY <1>1, <1>2, <2>4, <2>5 DEF U, H
<1>3. CASE t = W
  <2>1. pc[H] = "put_dec"
    BY <1>3 DEF Frame, H, W
  <2> QED
    BY <1>1, <1>3, <2>1 DEF FastInv, U, W
<1>4. CASE t = U
  <2>1. pc[H] = "put_dec" /\ main
    BY <1>4 DEF Frame, Acts, H, U
  <2>2. refs'[U][HELD] > 0
    BY <2>1, UmountKeepsHeld
  <2>3. in_rcu[H]
    BY <2>1 DEF Base, RcuProtocol, InReadSection, RcuLabels
  <2>4. ~Settled /\ (pc[U] = "held_gp" => gp[U] = H)
    BY <2>1 DEF FastInv
  <2>5. ~HeldGp
    BY <2>3, <2>4 DEF HeldGp, synchronize_rcu, At
  <2>6. ~Settled'
    BY <2>1, <2>4, <2>5, SettledEntry
  <2>7. pc'[U] = "held_gp" => gp'[U] = H
    BY <2>1, <2>5, GpFirst
  <2> QED
    BY <2>2, <2>6, <2>7
<1> QED
  BY <1>2, <1>3, <1>4 DEF Threads

(* Who found the mount in the hash or at its holder, and whom nobody has   *)
(* kept from it since, finds a reference there.                            *)
LEMMA SeenKept ==
  ASSUME Doom, Doom', PutInv, FastInv, SeenInv, NEW t \in Threads, Acts(t)
  PROVE  SeenInv'
<1>0. /\ Base /\ Base' /\ TypeOK /\ WALK \in Mounts /\ HELD \in Mounts /\ Frame(t) /\ LockProtocol
      /\ WalkerLedger /\ HolderLedger /\ UmountLedger' /\ LockStep(t) /\ seq <= sequence
      /\ seq \in Int /\ sequence \in Int
  <2>1. WALK \in Mounts /\ HELD \in Mounts
    BY ConfigAssumption
  <2>2. Base /\ Base' /\ Frame(t) /\ LockStep(t)
    BY DEF Doom, Acts
  <2>3. TypeOK /\ LockProtocol /\ WalkerLedger /\ HolderLedger /\ UmountLedger'
    BY <2>2 DEF Base, TypeInv, Ledger, UmountInv
  <2>4. seq \in Int /\ sequence \in Int
    BY <2>3 DEF TypeOK
  <2>5. seq <= sequence
    BY <2>3 DEF WalkerLedger
  <2> QED
    BY <2>1, <2>2, <2>3, <2>4, <2>5
<1> USE <1>0, Tasks
<1>1. \A s \in Threads : refs[s][WALK] \in Nat /\ refs'[s][WALK] \in Nat
  <2>1. Ledger /\ Ledger'
    BY DEF Base
  <2>2. \A s \in Threads : refs[s][WALK] \in Nat
    BY <2>1, LedgerBounds
  <2>3. \A s \in Threads, m \in Mounts : refs'[s][m] \in Nat
    <3>1. \A m \in Mounts : refs'[H][m] \in Nat /\ refs'[W][m] \in Nat
      BY <2>1 DEF Ledger, HolderLedger, WalkerLedger, Bit
    <3>2. \A m \in Mounts : refs'[U][m] \in Nat
      BY DEF UmountLedger, Bit
    <3> QED
      BY <3>1, <3>2 DEF Threads
  <2> QED
    BY <2>2, <2>3
<1> SUFFICES ASSUME Seen'
             PROVE  refs'[U][WALK] + refs'[H][WALK] > 0
  BY DEF SeenInv
<1>2. sequence' \in Int /\ sequence' >= sequence
  BY SequenceGrows
<1>3. CASE t = W
  <2>1. walker
    BY <1>3 DEF Acts
  <2>2. \/ pc[W] = "walker_find" /\ Found(WALK) /\ seq' = seq
        \/ pc[W] \in {"legit_begin", "legit_inc", "legit_retry"} /\ seq' = seq
    BY <2>1, WalkerEntry DEF Seen
  <2>3. refs'[U] = refs[U] /\ refs'[H] = refs[H]
    BY <1>3 DEF Frame, U, H, W
  <2>4. CASE pc[W] = "walker_find" /\ Found(WALK)
    <3>1. hashed[WALK] => Attached(WALK)
      BY DEF Doom, DoomInv
    <3>2. refs[U][WALK] >= 1 \/ refs[H][WALK] > 0
      BY <2>4, <3>1, AttachedOwned DEF Found
    <3> QED
      BY <1>1, <2>3, <3>2
  <2>5. CASE pc[W] # "walker_find"
    <3>1. Seen
      BY <1>2, <2>2, <2>5 DEF Seen
    <3> QED
      BY <2>3, <3>1 DEF SeenInv
  <2> QED
    BY <2>2, <2>4, <2>5
<1>4. CASE t # W
  <2>1. Seen /\ sequence = seq
    <3>1. pc'[W] = pc[W] /\ seq' = seq
      BY <1>4 DEF Frame, Acts, walkOnly
    <3> QED
      BY <1>2, <3>1 DEF Seen
  <2>2. lock_owner # t
    BY <2>1, LockedRetries
  <2>3. pc[t] \notin LockedLabels
    BY <2>2 DEF LockProtocol
  <2>4. refs[U][WALK] + refs[H][WALK] > 0
    BY <2>1 DEF SeenInv
  <2>5. CASE t = H
    <3>1. refs'[U] = refs[U] /\ holder
      BY <2>5 DEF Frame, Acts, U, H
    <3>2. CASE HolderGet
      <4>1. mnt_inc_count(H, HELD)
        BY <3>2 DEF HolderGet
      <4>2. refs'[H][WALK] >= refs[H][WALK]
        BY <1>1, <4>1, IncRefs
      <4> QED
        BY <1>1, <2>4, <3>1, <4>2
    <3>3. CASE MntputFast(H)
      <4>1. pc[H] = "put_dec" /\ cur[H] = HELD /\ mnt_dec_count(H, HELD)
        BY <3>3 DEF MntputFast, At, HolderLedger
      <4>2. refs[U][HELD] > 0
        BY <4>1 DEF FastInv
      <4>3. WALK # HELD => refs'[H][WALK] = refs[H][WALK]
        BY <4>1, DecRefs
      <4> QED
        BY <1>1, <2>4, <3>1, <4>2, <4>3
    <3>4. CASE SlowpathDec(H)
      BY <2>3, <2>5, <3>4 DEF SlowpathDec, At, LockedLabels
    <3>5. CASE ~(HolderGet \/ MntputFast(H) \/ SlowpathDec(H))
      <4>1. refs' = refs
        BY <3>1, <3>5, HolderLife, MntputLife
           DEF Quiet, mntput_no_expire_slowpath, cleanup_mnt, free_vfsmnt, counterVars
      <4> QED
        BY <2>4, <4>1
    <3> QED
      BY <3>2, <3>3, <3>4, <3>5
  <2>6. CASE t = U
    <3>1. refs'[H] = refs[H] /\ main
      BY <2>6 DEF Frame, Acts, U, H
    <3>2. CASE MntputFast(U)
      <4>1. pc[U] = "put_dec" /\ retval' = retval
        BY <3>2 DEF MntputFast, At, umountVars
      <4>2. OwnRef(WALK)'
        BY <4>1 DEF PutInv, OwnRef
      <4>3. refs'[U][WALK] > 0
        BY <4>2 DEF UmountLedger, Bit
      <4> QED
        BY <1>1, <4>3
    <3>3. CASE SlowpathDec(U) \/ UmountDropsCaller \/ UnheldDec
      BY <2>3, <2>6, <3>3 DEF SlowpathDec, UmountDropsCaller, UnheldDec, At, LockedLabels
    <3>4. CASE ~(MntputFast(U) \/ SlowpathDec(U) \/ UmountDropsCaller \/ UnheldDec)
      <4>1. refs' = refs
        BY <3>1, <3>4, MainLife, MntputLife
           DEF Quiet, umount_tree, kern_unmount_array, UnheldFinal, mntput_no_expire_slowpath,
               cleanup_mnt, free_vfsmnt, counterVars
      <4> QED
        BY <2>4, <4>1
    <3> QED
      BY <3>2, <3>3, <3>4
  <2> QED
    BY <1>4, <2>5, <2>6 DEF Threads
<1> QED
  BY <1>3, <1>4

(* Initially all mounts are in a namespace and nobody is putting.          *)
LEMMA LifeInit == Init => LifeInv
<1> SUFFICES ASSUME Init
             PROVE  LifeInv
  OBVIOUS
<1> USE Tasks, ConfigAssumption DEF Init, InitTasks, PerTask, Threads, U, H, W
<1>1. NsInv
  BY DEF NsInv, InNs, init_mount, Early, NULL, NS_INIT, MNT_NS_INTERNAL
<1>2. PutInv /\ FastInv /\ SeenInv
  BY DEF PutInv, FastInv, SeenInv, Seen, BeforeDec
<1> QED
  BY <1>1, <1>2 DEF LifeInv

(* Every step keeps the four invariants.                                   *)
LEMMA LifeInductive ==
  ASSUME Doom, Doom', LifeInv, [Next]_vars
  PROVE  LifeInv'
<1>0. Base /\ Base' /\ NsInv /\ PutInv /\ FastInv /\ SeenInv
  BY DEF Doom, LifeInv
<1>1. CASE UNCHANGED vars
  BY <1>0, <1>1
     DEF LifeInv, NsInv, InNs, PutInv, FastInv, SeenInv, Seen, Settled, InPut, Early, OnWayTo,
         Counting, vars, callVars, countVars, localVars, lockVars, counterVars, mountVars,
         umountVars
<1>2. ASSUME NEW t \in Threads, Acts(t)
      PROVE  LifeInv'
  <2>1. FastInv' /\ SeenInv'
    BY <1>0, <1>2, FastKept, SeenKept
  <2>2. NsInv' /\ PutInv'
    <3>1. CASE t = U
      BY <1>0, <1>2, <3>1, NsKept, PutKept DEF Acts
    <3>2. CASE t # U
      <4>1. UNCHANGED umountOnly /\ pc'[U] = pc[U] /\ ret'[U] = ret[U] /\ cret'[U] = cret[U]
        BY <1>2, <3>2, Tasks DEF Acts, Frame
      <4> QED
        BY <1>0, <4>1 DEF NsInv, InNs, PutInv, Early, OnWayTo, Counting, umountOnly
    <3> QED
      BY <3>1, <3>2
  <2> QED
    BY <2>1, <2>2 DEF LifeInv
<1> QED
  BY <1>0, <1>1, <1>2, SomeTask

-----------------------------------------------------------------------------
(* Steps of MountLife                                                      *)

(* Without fairness: the initial states and the steps.                     *)
LifeSteps == Life!Init /\ [][Life!Next]_(Life!lifeVars)

LifeStep == Life!Next \/ UNCHANGED Life!lifeVars

(* A mount goes on to the next stage of its life.                          *)
LEMMA LifeMoves ==
  ASSUME NEW m \in Mounts, NEW from, NEW to,
         \A n \in Mounts : LifeRefs(n)' = LifeRefs(n),
         \A n \in Mounts \ {m} : LifeOf(n)' = LifeOf(n),
         LifeOf(m) = from, LifeOf(m)' = to,
         \/ from = to
         \/ from = "mounted" /\ to = "unmounted"
         \/ from = "unmounted" /\ to = "doomed" /\ LifeRefs(m) = 0
         \/ from = "doomed" /\ to = "cleaned"
         \/ from = "cleaned" /\ to = "freed"
  PROVE  LifeStep
<1> DEFINE life == [n \in Mounts |-> LifeOf(n)]
<1> DEFINE lrefs == [n \in Mounts |-> LifeRefs(n)]
<1>1. lrefs' = lrefs
  OBVIOUS
<1>2. life' = [life EXCEPT ![m] = to] /\ life[m] = from /\ lrefs[m] = LifeRefs(m)
  OBVIOUS
<1>3. CASE from = to
  BY <1>1, <1>2, <1>3 DEF Life!lifeVars, LifeStep
<1>4. CASE from = "mounted" /\ to = "unmounted"
  <2>1. Life!Unmount(m)
    BY <1>1, <1>2, <1>4 DEF Life!Unmount, Life!Become
  <2> QED
    BY <2>1 DEF Life!Next, LifeStep
<1>5. CASE from = "unmounted" /\ to = "doomed" /\ LifeRefs(m) = 0
  <2>1. Life!Doom(m)
    BY <1>1, <1>2, <1>5 DEF Life!Doom, Life!Become
  <2> QED
    BY <2>1 DEF Life!Next, LifeStep
<1>6. CASE from = "doomed" /\ to = "cleaned"
  <2>1. Life!Cleanup(m)
    BY <1>1, <1>2, <1>6 DEF Life!Cleanup, Life!Become
  <2> QED
    BY <2>1 DEF Life!Next, LifeStep
<1>7. CASE from = "cleaned" /\ to = "freed"
  <2>1. Life!Free(m)
    BY <1>1, <1>2, <1>7 DEF Life!Free, Life!Become
  <2> QED
    BY <2>1 DEF Life!Next, LifeStep
<1> QED
  BY <1>3, <1>4, <1>5, <1>6, <1>7

(* A reference comes or goes.                                              *)
LEMMA RefsMoves ==
  ASSUME NEW m \in Mounts, NEW d \in {-1, 1},
         \A n \in Mounts : LifeOf(n)' = LifeOf(n),
         \A n \in Mounts \ {m} : LifeRefs(n)' = LifeRefs(n),
         LifeRefs(m)' = LifeRefs(m) + d, LifeRefs(m) \in Int,
         d = 1 => LifeOf(m) \in {"mounted", "unmounted"} /\ LifeRefs(m) > 0,
         d = -1 => LifeRefs(m) > IF LifeOf(m) = "mounted" THEN 1 ELSE 0
  PROVE  LifeStep
<1> DEFINE life == [n \in Mounts |-> LifeOf(n)]
<1> DEFINE lrefs == [n \in Mounts |-> LifeRefs(n)]
<1>1. life' = life /\ life[m] = LifeOf(m) /\ lrefs[m] = LifeRefs(m)
  OBVIOUS
<1>2. lrefs' = [lrefs EXCEPT ![m] = LifeRefs(m) + d]
  OBVIOUS
<1>3. CASE d = 1
  <2>1. Life!Get(m)
    BY <1>1, <1>2, <1>3 DEF Life!Get
  <2> QED
    BY <2>1 DEF Life!Next, LifeStep
<1>4. CASE d = -1
  <2>1. lrefs' = [lrefs EXCEPT ![m] = lrefs[m] - 1]
    BY <1>1, <1>2, <1>4
  <2>2. lrefs[m] > IF life[m] = "mounted" THEN 1 ELSE 0
    BY <1>1, <1>4
  <2>3. Life!Put(m)
    BY <1>1, <2>1, <2>2 DEF Life!Put
  <2> QED
    BY <2>3 DEF Life!Next, LifeStep
<1> QED
  BY <1>3, <1>4

(* No mount's life changes.                                                *)
LEMMA LifeStays ==
  ASSUME \A n \in Mounts : LifeOf(n)' = LifeOf(n),
         \A n \in Mounts : LifeRefs(n)' = LifeRefs(n)
  PROVE  LifeStep
<1> DEFINE life == [n \in Mounts |-> LifeOf(n)]
<1> DEFINE lrefs == [n \in Mounts |-> LifeRefs(n)]
<1>1. life' = life /\ lrefs' = lrefs
  OBVIOUS
<1> QED
  BY <1>1 DEF LifeStep, Life!lifeVars

-----------------------------------------------------------------------------
(* The protocol, action by action                                          *)

Living == Settlement /\ FreeInv /\ LifeInv

(* The stage of a mount's life.                                            *)
LEMMA Stages ==
  ASSUME Living, NEW m \in Mounts
  PROVE  /\ LifeOf(m) = "mounted" <=> mnt_ns[m] # NULL
         /\ mnt_ns[m] # NULL => ~Doomed(m)
         /\ ~Doomed(m) => cleaned[m] = 0 /\ ~freed[m] /\ LifeOf(m) \in {"mounted", "unmounted"}
         /\ ~Doomed(m) /\ mnt_ns[m] = NULL => LifeOf(m) = "unmounted"
         /\ Doomed(m) /\ cleaned[m] = 0 => LifeOf(m) = "doomed" /\ ~freed[m]
         /\ cleaned[m] = 1 => Doomed(m) /\ LifeOf(m) = IF freed[m] THEN "freed" ELSE "cleaned"
<1>1. Base /\ NsInv /\ DoomInv /\ Debts(m)
  BY DEF Living, Settlement, Doom, CleanupInv, LifeInv
<1>2. cleaned[m] \in {0, 1} /\ (cleaned[m] = 1 => Doomed(m))
  BY <1>1 DEF Debts
<1>3. freed[m] => cleaned[m] = 1
  BY DEF Living, FreeInv, Gone
<1>4. mnt_ns[m] # NULL => ~Doomed(m)
  <2>1. mnt_ns[m] # NULL => refs[U][m] >= 1
    BY <1>1, NsOwned DEF Bit
  <2>2. Doomed(m) => refs[U][m] = 0
    BY <1>1 DEF DoomInv
  <2> QED
    BY <2>1, <2>2
<1> HIDE DEF Doomed
<1> QED
  BY <1>2, <1>3, <1>4 DEF LifeOf

(* The references the three tasks have.                                    *)
LEMMA Shares ==
  ASSUME Base, NEW m \in Mounts
  PROVE  /\ refs[U][m] \in Nat /\ refs[H][m] \in Nat /\ refs[W][m] \in Nat
         /\ LifeRefs(m) = refs[U][m] + refs[H][m]
                          + IF transient /\ pc[W] # "walker_legit" THEN 0 ELSE refs[W][m]
<1>1. refs[U][m] \in Nat /\ refs[H][m] \in Nat /\ refs[W][m] \in Nat
  BY LedgerBounds, Tasks DEF Base
<1>2. transient \in BOOLEAN
  BY DEF Base, TypeInv, TypeOK
<1> QED
  BY <1>1, <1>2 DEF LifeRefs, RealRefs, At

(* What the stage of a mount is made of stays.                             *)
LEMMA StageSame ==
  ASSUME NEW m \in Mounts, freed'[m] = freed[m], cleaned'[m] = cleaned[m],
         mnt_ns'[m] = mnt_ns[m], Doomed(m)' <=> Doomed(m)
  PROVE  LifeOf(m)' = LifeOf(m)
<1> HIDE DEF Doomed
<1> QED
  BY DEF LifeOf

(* What the references are made of stays.                                  *)
LEMMA RefsSame ==
  ASSUME UNCHANGED <<refs, transient>>, pc'[W] = "walker_legit" <=> pc[W] = "walker_legit",
         NEW m \in Mounts
  PROVE  LifeRefs(m)' = LifeRefs(m)
  BY DEF LifeRefs, RealRefs, At

(* Who is about to put a reference has one, besides the mount's own if the *)
(* mount is in a namespace.                                                *)
LEMMA PutterShares ==
  ASSUME Base, NsInv, NEW t \in Threads, pc[t] \in BeforeDec
  PROVE  /\ cur[t] \in Mounts /\ refs[t][cur[t]] >= 1
         /\ mnt_ns[cur[t]] # NULL => refs[U][cur[t]] >= IF t = U THEN 2 ELSE 1
<1>1. cur[t] \in Mounts
  BY DEF Base, TypeInv, TypeOK
<1>2. mnt_ns[cur[t]] # NULL => refs[U][cur[t]] = 1 + Bit(CallerRef(cur[t])) /\ ~Holding
  BY <1>1, NsOwned
<1>3. CASE t = H
  <2>1. refs[H][cur[H]] >= 1
    BY <1>1, <1>3 DEF Base, Ledger, HolderLedger, Bit
  <2> QED
    BY <1>1, <1>2, <1>3, <2>1 DEF Bit, U, H
<1>4. CASE t = W
  <2>1. refs[W][cur[W]] >= 1
    BY <1>1, <1>4 DEF Base, Ledger, WalkerLedger, WalkerHas, Firm, Bit
  <2> QED
    BY <1>1, <1>2, <1>4, <2>1 DEF Bit, U, W
<1>5. CASE t = U
  <2>1. ret[U] \in {"work", "held_next"}
    <3>1. Phases
      BY DEF Base, Ledger, UmountInv
    <3> QED
      BY <1>5, <3>1 DEF Phases, Early, Peek, Queueing, Holding, Ending, InPut, OnWayTo,
                        Counting, BeforeDec
  <2>2. refs[U][cur[U]] = Bit(OwnRef(cur[U])) + Bit(CallerRef(cur[U]))
    BY <1>1, <1>5 DEF Base, Ledger, UmountInv, UmountLedger
  <2>3. CASE ret[U] = "work"
    <3>1. CallerRef(cur[U])
      BY <1>5, <2>3 DEF CallerRef, Base, Ledger, UmountInv, Phases
    <3> QED
      BY <1>1, <1>2, <1>5, <2>2, <3>1 DEF Bit
  <2>4. CASE ret[U] = "held_next"
    <3>1. OwnRef(cur[U])
      BY <1>5, <2>4 DEF OwnRef
    <3>2. Holding
      BY <1>5, <2>4 DEF Holding, InPut, PutLabels, BeforeDec
    <3> QED
      BY <1>1, <1>2, <1>5, <2>2, <3>1, <3>2 DEF Bit
  <2> QED
    BY <2>1, <2>3, <2>4
<1> QED
  BY <1>3, <1>4, <1>5 DEF Threads

(* A put is a put of MountLife, unless nobody has seen the walker get it.  *)
LEMMA PutLife ==
  ASSUME Living, NEW t \in Threads, NEW m \in Mounts, mnt_dec_count(t, m),
         UNCHANGED <<mountVars, historyVars, transient>>,
         pc'[W] = "walker_legit" <=> pc[W] = "walker_legit",
         t = W => pc[W] # "walker_legit",
         refs[t][m] >= 1,
         ~(t = W /\ transient) /\ mnt_ns[m] # NULL => refs[U][m] >= IF t = U THEN 2 ELSE 1
  PROVE  LifeStep
<1>0. Base /\ TypeOK /\ transient \in BOOLEAN
  BY DEF Living, Settlement, Doom, Base, TypeInv, TypeOK
<1>1. \A n \in Mounts : LifeOf(n)' = LifeOf(n)
  BY StageSame DEF mountVars, historyVars, Doomed
<1>2. /\ \A s \in Threads \ {t} : refs'[s] = refs[s]
      /\ \A n \in Mounts : refs'[t][n] = IF n = m THEN refs[t][n] - 1 ELSE refs[t][n]
  BY <1>0, DecRefs
<1>3. \A n \in Mounts :
        /\ refs[U][n] \in Nat /\ refs[H][n] \in Nat /\ refs[W][n] \in Nat
        /\ LifeRefs(n) = refs[U][n] + refs[H][n]
                         + IF transient /\ pc[W] # "walker_legit" THEN 0 ELSE refs[W][n]
  BY <1>0, Shares
<1>4. \A n \in Mounts, s \in Threads : refs'[s][n] \in Int
  BY <1>2, <1>3 DEF Threads
<1>5. \A n \in Mounts :
        LifeRefs(n)' = refs'[U][n] + refs'[H][n]
                       + IF transient /\ pc[W] # "walker_legit" THEN 0 ELSE refs'[W][n]
  BY <1>0, <1>4, Tasks DEF LifeRefs, RealRefs, At
<1>6. \A n \in Mounts \ {m} : LifeRefs(n)' = LifeRefs(n)
  BY <1>2, <1>3, <1>5, Tasks DEF Threads
<1>7. CASE t = W /\ transient
  <2>1. LifeRefs(m)' = LifeRefs(m)
    BY <1>2, <1>3, <1>5, <1>7 DEF Threads, U, H, W
  <2> QED
    BY <1>1, <1>6, <2>1, LifeStays
<1>8. CASE ~(t = W /\ transient)
  <2>1. LifeRefs(m)' = LifeRefs(m) - 1
    BY <1>2, <1>3, <1>5, <1>8 DEF Threads, U, H, W
  <2>2. LifeRefs(m) > 0 /\ LifeRefs(m) \in Int
    <3>1. /\ refs[U][m] \in Nat /\ refs[H][m] \in Nat /\ refs[W][m] \in Nat
          /\ LifeRefs(m) = refs[U][m] + refs[H][m]
                           + IF transient /\ pc[W] # "walker_legit" THEN 0 ELSE refs[W][m]
      BY <1>3
    <3>2. CASE t = W
      BY <1>0, <1>8, <3>1, <3>2
    <3>3. CASE t \in {U, H}
      BY <3>1, <3>3
    <3> QED
      BY <3>2, <3>3 DEF Threads
  <2>3. mnt_ns[m] # NULL => LifeRefs(m) > 1
    BY <1>3, <1>8 DEF Threads, U, H, W
  <2>4. LifeOf(m) = "mounted" <=> mnt_ns[m] # NULL
    BY Stages
  <2> QED
    BY <1>1, <1>6, <2>1, <2>2, <2>3, <2>4, RefsMoves
<1> QED
  BY <1>7, <1>8

(* mntput() puts its reference.                                            *)
LEMMA MntputDecLife ==
  ASSUME Living, NEW t \in Threads, MntputFast(t) \/ SlowpathDec(t)
  PROVE  LifeStep
<1>0. Base /\ TypeOK /\ NsInv
  BY DEF Living, Settlement, Doom, Base, TypeInv, LifeInv
<1>1. pc[t] \in BeforeDec /\ pc[t] # "walker_legit" /\ mnt_dec_count(t, cur[t])
  BY DEF MntputFast, SlowpathDec, At, BeforeDec
<1>2. UNCHANGED <<mountVars, historyVars, transient>>
  BY DEF MntputFast, SlowpathDec, localVars
<1>3. pc'[W] = "walker_legit" <=> pc[W] = "walker_legit"
  BY <1>0, <1>1, Tasks DEF MntputFast, SlowpathDec, StartCount, Goto, TypeOK
<1>4. /\ cur[t] \in Mounts /\ refs[t][cur[t]] >= 1
      /\ mnt_ns[cur[t]] # NULL => refs[U][cur[t]] >= IF t = U THEN 2 ELSE 1
  BY <1>0, <1>1, PutterShares
<1> QED
  BY <1>1, <1>2, <1>3, <1>4, PutLife

(* U drops the caller's reference, or the own one of a mount nobody holds. *)
LEMMA UmountDecLife ==
  ASSUME Living, UmountDropsCaller \/ UnheldDec
  PROVE  LifeStep
<1>0. Base /\ TypeOK /\ NsInv /\ Lists /\ UmountLedger
  BY DEF Living, Settlement, Doom, Base, TypeInv, LifeInv, Ledger, UmountInv
<1>1. UNCHANGED <<mountVars, historyVars, transient>>
  BY DEF UmountDropsCaller, UnheldDec, localVars
<1>2. pc'[W] = "walker_legit" <=> pc[W] = "walker_legit"
  BY <1>0, Tasks DEF UmountDropsCaller, UnheldDec, Goto, TypeOK, U, W
<1>3. U # W
  BY DEF U, W
<1>4. CASE UmountDropsCaller
  <2>1. pc[U] = "u_dec" /\ mnt_dec_count(U, 0) /\ 0 \in Mounts
    BY <1>4, Zero DEF UmountDropsCaller, At
  <2>2. SHAPE # "kern"
    <3>1. Phases
      BY <1>0 DEF Base, Ledger, UmountInv
    <3> QED
      BY <2>1, <3>1 DEF Phases
  <2>3. CallerRef(0) /\ retval = 0 /\ ~Early
    BY <1>0, <2>1, <2>2 DEF CallerRef, CallerHas, Lists, Early, OnWayTo, Counting
  <2>4. refs[U][0] >= 1
    BY <1>0, <2>1, <2>3 DEF UmountLedger, Bit
  <2>5. mnt_ns[0] = NULL
    BY <1>0, <2>1, <2>3, NsOwned
  <2> QED
    BY <1>1, <1>2, <1>3, <2>1, <2>4, <2>5, Tasks, PutLife
<1>5. CASE UnheldDec
  <2>1. pc[U] = "unheld_dec" /\ mnt_dec_count(U, cur[U]) /\ cur[U] \in Mounts
    BY <1>0, <1>5, Tasks DEF UnheldDec, At, TypeOK
  <2>2. ~Early /\ Peek /\ ~Ending
    BY <2>1 DEF Early, OnWayTo, Counting, Peek, Ending, InPut, PutLabels, BeforeDec, AfterDec
  <2>3. retval = 0
    BY <1>0, <2>1, <2>2 DEF Lists
  <2>4. OwnRef(cur[U])
    <3>1. k \in Mounts /\ cur[U] = INSERTED(k) /\ k <= k
      BY <1>0, <2>1, MountRange DEF Lists
    <3>2. INSERTED(k) \in head /\ ~fast_final[INSERTED(k)]
      BY <1>0, <2>2, <3>1 DEF Lists
    <3> QED
      BY <2>1, <3>1, <3>2 DEF OwnRef
  <2>5. refs[U][cur[U]] >= 1
    BY <1>0, <2>1, <2>4 DEF UmountLedger, Bit
  <2>6. mnt_ns[cur[U]] = NULL
    BY <1>0, <2>1, <2>2, <2>3, NsOwned
  <2> QED
    BY <1>1, <1>2, <1>3, <2>1, <2>5, <2>6, Tasks, PutLife
<1> QED
  BY <1>4, <1>5

(* A task that has a reference that counts may get another one.            *)
LEMMA GetLife ==
  ASSUME Living, HolderGet
  PROVE  LifeStep
<1>0. /\ Base /\ TypeOK /\ DoomInv /\ HELD \in Mounts /\ HolderLedger
      /\ transient' = transient /\ transient \in BOOLEAN
  BY ConfigAssumption
     DEF Living, Settlement, Doom, Base, TypeInv, TypeOK, Ledger, HolderGet
<1>1. pc[H] = "h_loop" /\ mnt_inc_count(H, HELD)
  BY DEF HolderGet, At
<1>2. UNCHANGED <<mountVars, historyVars>>
  BY DEF HolderGet
<1>3. pc'[W] = pc[W]
  BY <1>0, Tasks DEF HolderGet, Goto, TypeOK, H, W
<1>4. \A n \in Mounts : LifeOf(n)' = LifeOf(n)
  BY <1>2, StageSame DEF mountVars, historyVars, Doomed
<1>5. /\ refs'[U] = refs[U] /\ refs'[W] = refs[W]
      /\ \A n \in Mounts : refs'[H][n] = IF n = HELD THEN refs[H][n] + 1 ELSE refs[H][n]
  BY <1>0, <1>1, IncRefs, Tasks DEF U, H, W
<1>6. \A n \in Mounts :
        /\ refs[U][n] \in Nat /\ refs[H][n] \in Nat /\ refs[W][n] \in Nat
        /\ LifeRefs(n) = refs[U][n] + refs[H][n]
                         + IF transient /\ pc[W] # "walker_legit" THEN 0 ELSE refs[W][n]
  BY <1>0, Shares
<1>7. \A n \in Mounts :
        LifeRefs(n)' = refs'[U][n] + refs'[H][n]
                       + IF transient /\ pc[W] # "walker_legit" THEN 0 ELSE refs'[W][n]
  BY <1>0, <1>3, <1>5, <1>6 DEF LifeRefs, RealRefs, At
<1>8. /\ \A n \in Mounts \ {HELD} : LifeRefs(n)' = LifeRefs(n)
      /\ LifeRefs(HELD)' = LifeRefs(HELD) + 1 /\ LifeRefs(HELD) \in Int
  BY <1>0, <1>5, <1>6, <1>7
<1>9. refs[H][HELD] >= 1
  BY <1>0, <1>1 DEF HolderLedger, Bit, BeforeDec
<1>10. LifeRefs(HELD) > 0
  BY <1>0, <1>6, <1>9
<1>11. ~Doomed(HELD)
  BY <1>0, <1>9 DEF DoomInv, Closed, Clear
<1>12. LifeOf(HELD) \in {"mounted", "unmounted"}
  BY <1>0, <1>11, Stages
<1> QED
  BY <1>0, <1>4, <1>8, <1>10, <1>12, RefsMoves

(* W gets a reference that counts when it has seen that nothing happened.  *)
LEMMA RetryLife ==
  ASSUME Living, LegitimizeRetry
  PROVE  LifeStep
<1>0. /\ Base /\ TypeOK /\ DoomInv /\ SeenInv /\ WALK \in Mounts /\ WalkerLedger
      /\ pc[W] = "legit_retry" /\ refs' = refs /\ transient' = transient
  BY ConfigAssumption
     DEF Living, Settlement, Doom, LifeInv, Base, TypeInv, TypeOK, Ledger, LegitimizeRetry, At,
         counterVars, localVars
<1>1. transient = TRUE
  BY <1>0 DEF WalkerLedger, Tentative, TypeOK
<1>2. \A n \in Mounts : LifeOf(n)' = LifeOf(n)
  BY StageSame DEF LegitimizeRetry, mountVars, historyVars, Doomed
<1>3. \A n \in Mounts :
        /\ refs[U][n] \in Nat /\ refs[H][n] \in Nat /\ refs[W][n] \in Nat
        /\ LifeRefs(n) = refs[U][n] + refs[H][n]
  BY <1>0, <1>1, Shares
<1>4. CASE sequence # seq
  <2>1. pc'[W] = "legit_lock"
    BY <1>0, <1>4, Tasks DEF LegitimizeRetry, Goto, TypeOK, read_seqretry
  <2>2. \A n \in Mounts : LifeRefs(n)' = LifeRefs(n)
    BY <1>0, <2>1, RefsSame
  <2> QED
    BY <1>2, <2>2, LifeStays
<1>5. CASE sequence = seq
  <2>1. pc'[W] = "walker_legit"
    BY <1>0, <1>5, Tasks DEF LegitimizeRetry, Goto, TypeOK, read_seqretry
  <2>2. \A n \in Mounts : refs[W][n] = IF n = WALK THEN 1 ELSE 0
    BY <1>0 DEF WalkerLedger, WalkerHas, Bit
  <2>3. \A n \in Mounts : LifeRefs(n)' = refs[U][n] + refs[H][n] + refs[W][n]
    BY <1>0, <1>1, <1>3, <2>1 DEF LifeRefs, RealRefs, At
  <2>4. /\ \A n \in Mounts \ {WALK} : LifeRefs(n)' = LifeRefs(n)
        /\ LifeRefs(WALK)' = LifeRefs(WALK) + 1
    BY <1>0, <1>3, <2>2, <2>3
  <2>5. LifeRefs(WALK) > 0 /\ LifeRefs(WALK) \in Int
    BY <1>0, <1>3, <1>5 DEF SeenInv, Seen
  <2>6. ~Doomed(WALK)
    <3>1. Doomed(WALK) => Closed(WALK)
      BY <1>0 DEF DoomInv
    <3>2. Closed(WALK) => seq < sequence
      BY <1>0 DEF Closed
    <3> QED
      BY <1>0, <1>5, <3>1, <3>2 DEF TypeOK
  <2>7. LifeOf(WALK) \in {"mounted", "unmounted"}
    BY <1>0, <2>6, Stages
  <2> QED
    BY <1>0, <1>2, <2>4, <2>5, <2>7, RefsMoves
<1> QED
  BY <1>4, <1>5

(* Its other steps make no difference.                                     *)
LEMMA WalkerStays ==
  ASSUME Living, WalkerFind \/ LegitimizeInc \/ WalkerFail \/ WalkerLegit
  PROVE  LifeStep
<1>0. /\ Base /\ TypeOK /\ WALK \in Mounts /\ WalkerLedger /\ transient \in BOOLEAN
  BY ConfigAssumption DEF Living, Settlement, Doom, Base, TypeInv, TypeOK, Ledger
<1>1. \A n \in Mounts : LifeOf(n)' = LifeOf(n)
  BY StageSame
     DEF WalkerFind, LegitimizeInc, WalkerFail, WalkerLegit, WalkerLeaves, mountVars,
         historyVars, Doomed
<1>2. \A n \in Mounts :
        /\ refs[U][n] \in Nat /\ refs[H][n] \in Nat /\ refs[W][n] \in Nat
        /\ LifeRefs(n) = refs[U][n] + refs[H][n]
                         + IF transient /\ pc[W] # "walker_legit" THEN 0 ELSE refs[W][n]
  BY <1>0, Shares
<1>3. CASE LegitimizeInc
  <2>1. pc[W] = "legit_inc" /\ pc'[W] = "legit_retry" /\ transient' = transient
    BY <1>0, <1>3, Tasks DEF LegitimizeInc, At, Goto, TypeOK, localVars
  <2>2. transient = TRUE
    BY <1>0, <2>1 DEF WalkerLedger, Tentative
  <2>3. refs'[U] = refs[U] /\ refs'[H] = refs[H]
    <3>1. cur[W] = WALK /\ mnt_inc_count(W, WALK)
      BY <1>0, <1>3 DEF WalkerLedger, LegitimizeInc
    <3> QED
      BY <1>0, <3>1, IncRefs, Tasks DEF U, H, W
  <2>4. \A n \in Mounts : LifeRefs(n)' = LifeRefs(n)
    BY <1>2, <2>1, <2>2, <2>3 DEF LifeRefs, RealRefs, At
  <2> QED
    BY <1>1, <2>4, LifeStays
<1>4. CASE WalkerLegit
  <2>1. /\ pc[W] = "walker_legit" /\ pc'[W] = "walker_use"
        /\ transient' = FALSE /\ refs' = refs
    BY <1>0, <1>4, Tasks DEF WalkerLegit, WalkerLeaves, At, Goto, TypeOK, counterVars
  <2>2. \A n \in Mounts : LifeRefs(n)' = LifeRefs(n)
    BY <1>2, <2>1 DEF LifeRefs, RealRefs, At
  <2> QED
    BY <1>1, <2>2, LifeStays
<1>5. CASE WalkerFind \/ WalkerFail
  <2>1. /\ pc[W] \in {"walker_find", "walker_fail"} /\ pc'[W] # "walker_legit" /\ refs' = refs
        /\ transient' \in BOOLEAN
    BY <1>0, <1>5, Tasks
       DEF WalkerFind, WalkerFail, WalkerLeaves, At, Goto, TypeOK, counterVars, Found
  <2>2. \A n \in Mounts : refs[W][n] = 0
    BY <1>0, <2>1 DEF WalkerLedger, WalkerHas, Firm, BeforeDec, Bit
  <2>3. \A n \in Mounts : LifeRefs(n)' = LifeRefs(n)
    BY <1>2, <2>1, <2>2 DEF LifeRefs, RealRefs, At
  <2> QED
    BY <1>1, <2>3, LifeStays
<1> QED
  BY <1>3, <1>4, <1>5

(* It takes back what it got for nothing.                                  *)
LEMMA FlagsLife ==
  ASSUME Living, LegitimizeFlags
  PROVE  LifeStep
<1>0. /\ Base /\ TypeOK /\ WALK \in Mounts /\ WalkerLedger
  BY ConfigAssumption DEF Living, Settlement, Doom, Base, TypeInv, TypeOK, Ledger
<1>1. /\ pc[W] = "legit_flags" /\ cur[W] = WALK /\ UNCHANGED <<mountVars, historyVars, transient>>
      /\ pc'[W] \in {"legit_refuse", "legit_drop"}
      /\ mnt_dec_count(W, WALK) \/ UNCHANGED counterVars
  BY <1>0, Tasks DEF LegitimizeFlags, At, Goto, TypeOK, WalkerLedger, localVars
<1>2. transient /\ refs[W][WALK] >= 1
  BY <1>0, <1>1 DEF WalkerLedger, Tentative, WalkerHas, Bit
<1>3. CASE mnt_dec_count(W, WALK)
  BY <1>0, <1>1, <1>2, <1>3, Tasks, PutLife
<1>4. CASE UNCHANGED counterVars
  <2>1. \A n \in Mounts : LifeOf(n)' = LifeOf(n)
    BY <1>1, StageSame DEF mountVars, historyVars, Doomed
  <2>2. \A n \in Mounts : LifeRefs(n)' = LifeRefs(n)
    BY <1>1, <1>4, RefsSame DEF counterVars
  <2> QED
    BY <2>1, <2>2, LifeStays
<1> QED
  BY <1>1, <1>3, <1>4

(* A mount leaves its namespace.                                           *)
LEMMA UnmountLife ==
  ASSUME Living, umount_tree \/ kern_unmount_array
  PROVE  LifeStep
<1>0. Base /\ TypeOK /\ NsInv /\ Lists /\ TypeInv
  BY DEF Living, Settlement, Doom, Base, TypeInv, LifeInv, Ledger, UmountInv
<1> DEFINE n1 == IF pc[U] = "tree_ns" THEN k ELSE INSERTED(k)
<1>1. /\ pc[U] \in {"tree_ns", "shortterm"} /\ mnt_ns' = [mnt_ns EXCEPT ![n1] = NULL]
      /\ refs' = refs /\ transient' = transient /\ freed' = freed /\ cleaned' = cleaned
      /\ \A n \in Mounts : Doomed(n)' <=> Doomed(n)
  <2>1. CASE umount_tree
    <3>1. pc[U] = "tree_ns" /\ k \in Mounts
      BY <1>0, <2>1 DEF umount_tree, At, TypeInv, LoopInv
    <3> QED
      BY <1>0, <2>1, <3>1 DEF umount_tree, TypeOK, counterVars, localVars, Doomed
  <2>2. CASE kern_unmount_array
    BY <2>2 DEF kern_unmount_array, mnt_make_shortterm, At, counterVars, localVars, historyVars,
                Doomed
  <2> QED
    BY <2>1, <2>2
<1>2. k \in Mounts
  BY <1>0, <1>1 DEF TypeInv, LoopInv
<1>3. n1 \in Mounts /\ n1 = INSERTED(k)
  <2>1. pc[U] = "tree_ns" => SHAPE # "kern"
    <3>1. Phases
      BY <1>0 DEF Base, Ledger, UmountInv
    <3> QED
      BY <3>1 DEF Phases
  <2> QED
    BY <1>2, <2>1, InsertedType, InsertedPlain
<1>10. PICK m \in Mounts : m = INSERTED(k) /\ mnt_ns' = [mnt_ns EXCEPT ![m] = NULL]
  BY <1>1, <1>3
<1> HIDE DEF n1
<1>4. pc'[W] = "walker_legit" <=> pc[W] = "walker_legit"
  BY <1>0, Tasks DEF umount_tree, kern_unmount_array, Goto, TypeOK, U, W
<1>5. \A n \in Mounts : LifeRefs(n)' = LifeRefs(n)
  BY <1>1, <1>4, RefsSame
<1>6. \A n \in Mounts \ {m} : LifeOf(n)' = LifeOf(n)
  <2>1. \A n \in Mounts \ {m} : mnt_ns'[n] = mnt_ns[n]
    BY <1>0, <1>10 DEF TypeOK
  <2> QED
    BY <1>1, <2>1, StageSame
<1>7. mnt_ns[m] # NULL
  <2>1. m \notin head
    <3>1. \A i \in Mounts : INSERTED(i) \in head <=> i < k
      BY <1>0, <1>1 DEF Lists
    <3> QED
      BY <1>2, <1>10, <3>1 DEF Mounts
  <2>2. Early
    BY <1>1 DEF Early
  <2> QED
    BY <1>0, <1>1, <1>10, <2>1, <2>2 DEF NsInv, InNs
<1>8. LifeOf(m) = "mounted" /\ ~Doomed(m) /\ cleaned[m] = 0 /\ ~freed[m]
  BY <1>7, Stages
<1>9. LifeOf(m)' = "unmounted"
  <2>1. mnt_ns'[m] = NULL
    BY <1>0, <1>10 DEF TypeOK
  <2> QED
    BY <1>1, <1>8, <2>1 DEF LifeOf
<1> QED
  BY <1>5, <1>6, <1>8, <1>9, LifeMoves

(* It is doomed when the last reference is gone.                           *)
LEMMA DoomLife ==
  ASSUME Living, NEW t \in Threads,
         mntput_no_expire_slowpath(t) \/ (t = U /\ UnheldFinal)
  PROVE  LifeStep
<1>0. Base /\ TypeOK /\ NsInv /\ CountInv /\ DoomInv
  BY DEF Living, Settlement, Doom, Base, TypeInv, LifeInv
<1>1. UNCHANGED <<refs, transient, mnt_ns, freed, cleaned>>
  BY DEF mntput_no_expire_slowpath, UnheldFinal, mntput_final_locked, counterVars, localVars,
         historyVars, mountVars
<1>2. \A n \in Mounts : LifeRefs(n)' = LifeRefs(n)
  <2>1. pc'[W] = "walker_legit" <=> pc[W] = "walker_legit"
    BY <1>0, Tasks DEF mntput_no_expire_slowpath, UnheldFinal, At, Goto, TypeOK, U, W
  <2> QED
    BY <1>1, <2>1, RefsSame
<1>3. CASE \A n \in Mounts : Doomed(n)' <=> Doomed(n)
  BY <1>1, <1>2, <1>3, StageSame, LifeStays
<1>4. CASE ~(\A n \in Mounts : Doomed(n)' <=> Doomed(n))
  <2>1. PICK m \in Mounts : m = cur[t]
    BY <1>0 DEF TypeOK
  <2>2. mntput_final_locked(m)
    BY <1>4, <2>1 DEF mntput_no_expire_slowpath, UnheldFinal, mountVars, Doomed
  <2>3. mnt_flags' = [mnt_flags EXCEPT ![m] = @ \cup {"MNT_DOOMED"}]
    BY <2>2 DEF mntput_final_locked
  <2>4. Doomed(m)' /\ \A n \in Mounts \ {m} : Doomed(n)' <=> Doomed(n)
    BY <1>0, <2>1, <2>3 DEF Doomed, TypeOK
  <2>5. Clear(m) /\ refs[U][m] = 0 /\ mnt_ns[m] = NULL
    <3>1. CASE mntput_no_expire_slowpath(t)
      <4>1. pc[t] = "put_test" /\ IsLastPut(m, Count(t))
        BY <1>4, <2>1, <3>1 DEF mntput_no_expire_slowpath, At, mountVars, Doomed
      <4>2. Clear(m) /\ refs[U][m] = 0
        BY <1>0, <2>1, <4>1, LastPutCloses
      <4>3. mnt_ns[m] # NULL => refs[U][m] >= 1
        BY <1>0, <2>1, NsOwned DEF Bit
      <4> QED
        BY <4>2, <4>3
    <3>2. CASE t = U /\ UnheldFinal
      <4>1. pc[U] = "unheld_final"
        BY <3>2 DEF UnheldFinal, At
      <4>2. refs[U][m] = 0 /\ retval = 0 /\ ~Early
        BY <1>0, <2>1, <3>2, <4>1, UnheldFinalDropped
      <4>3. Clear(m)
        BY <1>0, <2>1, <3>2, <4>1 DEF DoomInv
      <4>4. mnt_ns[m] = NULL
        BY <1>0, <2>1, <4>2, NsOwned
      <4> QED
        BY <4>2, <4>3, <4>4
    <3> QED
      BY <3>1, <3>2
  <2>6. ~Doomed(m)
    BY <1>4, <2>1, <2>4
  <2>7. LifeOf(m) = "unmounted" /\ cleaned[m] = 0 /\ ~freed[m]
    BY <2>1, <2>5, <2>6, Stages
  <2>8. LifeOf(m)' = "doomed"
    BY <1>1, <2>4, <2>7 DEF LifeOf
  <2>9. \A n \in Mounts \ {m} : LifeOf(n)' = LifeOf(n)
    BY <1>1, <2>4, StageSame
  <2>10. LifeRefs(m) = 0
    <3>1. /\ refs[U][m] \in Nat /\ refs[H][m] \in Nat /\ refs[W][m] \in Nat
          /\ LifeRefs(m) = refs[U][m] + refs[H][m]
                           + IF transient /\ pc[W] # "walker_legit" THEN 0 ELSE refs[W][m]
      BY <1>0, <2>1, Shares
    <3>2. refs[H][m] = 0
      BY <2>5 DEF Clear
    <3>3. (transient /\ pc[W] # "walker_legit") \/ refs[W][m] = 0
      <4>1. WalkerLedger
        BY <1>0 DEF Base, Ledger
      <4>2. refs[W][m] = 0 \/ (m = WALK /\ pc[W] \in WalkerHas)
        BY <2>1, <4>1 DEF WalkerLedger, Bit
      <4>3. m = WALK => pc[W] \notin Firm
        BY <2>5 DEF Clear
      <4> QED
        BY <4>1, <4>2, <4>3 DEF WalkerLedger, WalkerHas, Tentative, Firm
    <3> QED
      BY <2>5, <3>1, <3>2, <3>3
  <2> QED
    BY <1>2, <2>1, <2>7, <2>8, <2>9, <2>10, LifeMoves
<1> QED
  BY <1>3, <1>4

(* It is cleaned up.                                                       *)
LEMMA CleanupLife ==
  ASSUME Living, NEW t \in Threads, cleanup_mnt(t)
  PROVE  LifeStep
<1>0. Base /\ TypeOK
  BY DEF Living, Settlement, Doom, Base, TypeInv
<1>7. PICK m \in Mounts : m = cur[t]
  BY <1>0 DEF TypeOK
<1>8. Debts(m)
  BY DEF Living, Settlement, CleanupInv
<1>1. /\ pc[t] = "cleanup" /\ cleaned' = [cleaned EXCEPT ![m] = @ + 1]
      /\ UNCHANGED <<refs, transient, mnt_ns, mnt_flags, freed>>
  BY <1>7 DEF cleanup_mnt, At, counterVars, mountVars
<1>2. \A n \in Mounts : LifeRefs(n)' = LifeRefs(n)
  <2>1. pc'[W] = "walker_legit" <=> pc[W] = "walker_legit"
    BY <1>0, <1>1, Tasks DEF cleanup_mnt, Goto, TypeOK
  <2> QED
    BY <1>1, <2>1, RefsSame
<1>3. Doomed(m) /\ cleaned[m] = 0
  BY <1>1, <1>7, <1>8 DEF Debts, Owes, AtHand
<1>4. LifeOf(m) = "doomed" /\ ~freed[m]
  BY <1>0, <1>3, Stages
<1>5. LifeOf(m)' = "cleaned"
  <2>1. cleaned'[m] = 1
    BY <1>0, <1>1, <1>3 DEF TypeOK
  <2> QED
    BY <1>1, <1>4, <2>1 DEF LifeOf
<1>6. \A n \in Mounts \ {m} : LifeOf(n)' = LifeOf(n)
  BY <1>0, <1>1, StageSame DEF TypeOK, Doomed
<1> QED
  BY <1>0, <1>2, <1>4, <1>5, <1>6, LifeMoves

(* It is freed.                                                            *)
LEMMA FreeLife ==
  ASSUME Living, NEW t \in Threads, free_vfsmnt(t)
  PROVE  LifeStep
<1>0. Base /\ TypeOK
  BY DEF Living, Settlement, Doom, Base, TypeInv
<1>7. PICK m \in Mounts : m = cur[t]
  BY <1>0 DEF TypeOK
<1>1. /\ pc[t] = "free" /\ freed' = [freed EXCEPT ![m] = TRUE]
      /\ UNCHANGED <<refs, transient, mnt_ns, mnt_flags, cleaned>>
  BY <1>7 DEF free_vfsmnt, At, counterVars, mountVars, localVars
<1>2. \A n \in Mounts : LifeRefs(n)' = LifeRefs(n)
  <2>1. pc'[W] = "walker_legit" <=> pc[W] = "walker_legit"
    BY <1>0, <1>1, Tasks DEF free_vfsmnt, Goto, TypeOK, Returns
  <2> QED
    BY <1>1, <2>1, RefsSame
<1>3. cleaned[m] = 1
  BY <1>1, <1>7 DEF Living, Settlement, CleanupInv
<1>4. LifeOf(m) = IF freed[m] THEN "freed" ELSE "cleaned"
  BY <1>0, <1>3, Stages
<1>5. LifeOf(m)' = "freed"
  BY <1>0, <1>1 DEF LifeOf, TypeOK
<1>6. \A n \in Mounts \ {m} : LifeOf(n)' = LifeOf(n)
  BY <1>0, <1>1, StageSame DEF TypeOK, Doomed
<1> QED
  BY <1>0, <1>2, <1>4, <1>5, <1>6, LifeMoves

(* A quiet step changes nothing.                                           *)
LEMMA QuietLife ==
  ASSUME Quiet
  PROVE  LifeStep
<1>1. \A n \in Mounts : LifeOf(n)' = LifeOf(n) /\ LifeRefs(n)' = LifeRefs(n)
  BY StageSame, RefsSame DEF Quiet
<1> QED
  BY <1>1, LifeStays

-----------------------------------------------------------------------------
(* The refinement                                                          *)

(* Every step is a step of MountLife or none.                              *)
LEMMA StepLife ==
  ASSUME Living, [Next]_vars
  PROVE  LifeStep
<1>0. Base /\ TypeOK
  BY DEF Living, Settlement, Doom, Base, TypeInv
<1>1. CASE UNCHANGED vars
  <2>1. Quiet
    BY <1>1 DEF Quiet, vars, counterVars, historyVars, mountVars, localVars, Doomed
  <2> QED
    BY <2>1, QuietLife
<1>2. ASSUME NEW t \in Threads, Mntput(t)
      PROVE  LifeStep
  BY <1>0, <1>2, MntputLife, QuietLife, MntputDecLife, DoomLife, CleanupLife, FreeLife
<1>3. CASE holder
  BY <1>0, <1>2, <1>3, HolderLife, QuietLife, GetLife, Tasks
<1>4. CASE walker
  BY <1>0, <1>2, <1>4, WalkerLife, QuietLife, WalkerStays, RetryLife, FlagsLife, Tasks
<1>5. CASE main
  BY <1>0, <1>2, <1>5, MainLife, QuietLife, UnmountLife, UmountDecLife, DoomLife, Tasks
<1> QED
  BY <1>1, <1>3, <1>4, <1>5 DEF Next, Finished

(* The mounts begin mounted, with a reference or up to three.              *)
LEMMA InitLife ==
  ASSUME Init
  PROVE  Life!Init
<1>0. HELD \in Mounts /\ Mounts # {}
  BY ConfigAssumption
<1> USE DEF Init, init_mount, InitTasks, PerTask, Threads, U, H, W
<1>1. \A m \in Mounts : LifeOf(m) = "mounted"
  BY DEF LifeOf, Doomed, NULL, NS_INIT, MNT_NS_INTERNAL
<1>2. \A m \in Mounts : LifeRefs(m) \in 1 .. 3
  BY DEF LifeRefs, RealRefs, At
<1> QED
  BY <1>1, <1>2 DEF Life!Init

(* LifeCorrect: every mount lives as MountLife says, whatever the three    *)
(* tasks do in which order: references are only had from who has one, a    *)
(* mount in a namespace keeps its own, and doom, cleanup and free follow   *)
(* the last put, each once and in this order.                              *)
THEOREM LifeCorrect == Spec => LifeSteps
<1>1. Init => Living
  <2>1. Init => FreeInv
    BY DEF Init, InitTasks, PerTask, FreeInv, Gone, U, H, W
  <2> QED
    BY <2>1, BaseInit, CountInit, DoomInit, CleanupInit, LifeInit DEF Doom, Settlement, Living
<1>2. Living /\ [Next]_vars => Living'
  BY BaseInductive, CountInductive, DoomInductive, CleanupInductive, FreeInductive, LifeInductive
     DEF Doom, Settlement, Living
<1>3. Living /\ [Next]_vars => [Life!Next]_(Life!lifeVars)
  BY StepLife DEF LifeStep
<1> QED
  BY <1>1, <1>2, <1>3, InitLife, PTL DEF Spec, LifeSteps

=============================================================================
