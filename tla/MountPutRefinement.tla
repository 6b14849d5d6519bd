------------------------- MODULE MountPutRefinement -------------------------
(***************************************************************************)
(* The protocol of MountPut implements the life of a mount of MountLife.   *)
(***************************************************************************)
EXTENDS MountPut

LifeOf(m) ==
    IF freed[m] THEN "freed"
    ELSE IF cleaned[m] > 0 THEN "cleaned"
    ELSE IF Doomed(m) THEN "doomed"
    ELSE IF mnt_ns[m] = NULL THEN "unmounted"
    ELSE "mounted"

(* A walker has its reference as soon as it has seen that the sequence     *)
(* count did not change, while it is still in its read section.            *)
LifeRefs(m) ==
    RealRefs(m) + IF transient /\ At(W, "walker_legit") THEN refs[W][m] ELSE 0

Life == INSTANCE MountLife WITH
          life <- [m \in Mounts |-> LifeOf(m)],
          refs <- [m \in Mounts |-> LifeRefs(m)]

(* do_umount() and kern_unmount_array() with concurrent holders and        *)
(* walkers give every mount the life MountLife describes: no reference out *)
(* of nothing, none to a doomed mount, and doom, cleanup and free follow   *)
(* the last put.                                                           *)
ImplementsMountLife == Life!Spec

=============================================================================
