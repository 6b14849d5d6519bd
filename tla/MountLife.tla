----------------------------- MODULE MountLife -----------------------------
(***************************************************************************)
(* What the mntput() protocol promises its callers: the life of a mount,   *)
(* without CPUs, locks, read sections or who does what.  References are    *)
(* only had from somebody who has one; a mount in a namespace keeps its    *)
(* own; an unmounted mount is doomed when the last reference is gone, then *)
(* its file system is shut down, then it is freed, each exactly once.      *)
(***************************************************************************)
EXTENDS Naturals

CONSTANT Mounts

VARIABLES
    life,    \* "mounted", "unmounted", "doomed", "cleaned" or "freed"
    refs     \* how many references to the mount there are

lifeVars == <<life, refs>>

Init ==
    /\ life = [m \in Mounts |-> "mounted"]
    /\ refs \in [Mounts -> 1 .. 3]

Become(m, from, to) ==
    /\ life[m] = from
    /\ life' = [life EXCEPT ![m] = to]
    /\ UNCHANGED refs

Get(m) ==
    /\ life[m] \in {"mounted", "unmounted"}
    /\ refs[m] > 0
    /\ refs' = [refs EXCEPT ![m] = @ + 1]
    /\ UNCHANGED life

Put(m) ==
    /\ refs[m] > IF life[m] = "mounted" THEN 1 ELSE 0
    /\ refs' = [refs EXCEPT ![m] = @ - 1]
    /\ UNCHANGED life

Unmount(m) == Become(m, "mounted", "unmounted")
Doom(m)    == refs[m] = 0 /\ Become(m, "unmounted", "doomed")
Cleanup(m) == Become(m, "doomed", "cleaned")
Free(m)    == Become(m, "cleaned", "freed")

Next == \E m \in Mounts :
    Get(m) \/ Put(m) \/ Unmount(m) \/ Doom(m) \/ Cleanup(m) \/ Free(m)

Fairness == \A m \in Mounts :
    WF_lifeVars(Doom(m)) /\ WF_lifeVars(Cleanup(m)) /\ WF_lifeVars(Free(m))

Spec == Init /\ [][Next]_lifeVars /\ Fairness

=============================================================================
