---------------------------- MODULE VerityConfigs ----------------------------
(***************************************************************************)
(* The table in gen-cfgs.py of the model of systemd-mountfsd's shared      *)
(* verity devices.  Names are the sequences of their words.                *)
(***************************************************************************)
EXTENDS Naturals, Sequences, FiniteSets, TLC, PyDict

SAFETY == {"TypeOK", "OpenCountExact", "MountedIsActive", "NoOpenWhileDeleting"}
LIVENESS == {"EveryWorkerFinishes", "NoOrphanDevice"}

DEFAULTS ==
    [Workers |-> {"w1", "w2"}, Attempts |-> 2, WorkerMayDie |-> FALSE, UDEV_SYNC |-> TRUE,
     FIX_CANCEL_DEFERRED |-> TRUE, FIX_RESTORE_DEFERRED |-> TRUE]

Entry(name, over, props, expect) ==
    [name |-> name, over |-> over, invs |-> SAFETY, props |-> props, expect |-> expect]

CONFIGS == <<
    Entry(<<"verity", "fixed">>, <<>>, LIVENESS, "pass"),
    Entry(<<"verity", "3workers">>, <<[Workers |-> {"w1", "w2", "w3"}]>>, LIVENESS, "pass"),
    Entry(<<"verity", "no", "cancel">>, <<[FIX_CANCEL_DEFERRED |-> FALSE]>>, LIVENESS, "pass"),
    Entry(<<"verity", "no", "udev", "sync">>, <<[UDEV_SYNC |-> FALSE]>>, {"NoOrphanDevice"}, "violation"),
    Entry(<<"verity", "no", "restore">>, <<[FIX_RESTORE_DEFERRED |-> FALSE]>>, {"NoOrphanDevice"}, "violation"),
    Entry(<<"verity", "worker", "dies">>, <<[WorkerMayDie |-> TRUE]>>, {"NoOrphanDevice"}, "violation") >>

CfgKeys ==
    {"Workers", "Attempts", "WorkerMayDie", "UDEV_SYNC", "FIX_CANCEL_DEFERRED", "FIX_RESTORE_DEFERRED"}

Constants(e) ==
    LET c == Update(DEFAULTS, Joined(e.over)) IN [k \in CfgKeys |-> c[k]]

-----------------------------------------------------------------------------
(* What VeritySharing.tla declares and assumes                             *)

VerityConstants ==
    {"Workers", "Attempts", "WorkerMayDie", "UDEV_SYNC", "FIX_CANCEL_DEFERRED", "FIX_RESTORE_DEFERRED"}

VerityAssumes(c) == c.Attempts \in Nat \ {0}

Accepted(e) ==
    /\ NoKeyTwice(e.over)
    /\ DOMAIN Constants(e) = VerityConstants
    /\ VerityAssumes(Constants(e))
    /\ e.props \subseteq LIVENESS

NothingDropped(e) ==
    \A i \in DOMAIN e.over : \A k \in DOMAIN e.over[i] :
        k \in CfgKeys /\ Constants(e)[k] = e.over[i][k]

(* "no": one of the three is off.  What passes is checked for every        *)
(* property.                                                               *)
AsNamed(e) ==
    LET c == Constants(e)
        Says(w) == \E i \in DOMAIN e.name : e.name[i] = w
    IN  /\ Cardinality({f \in {"UDEV_SYNC", "FIX_CANCEL_DEFERRED", "FIX_RESTORE_DEFERRED"} : ~c[f]}) =
              IF Says("no") THEN 1 ELSE 0
        /\ c.WorkerMayDie = Says("dies")
        /\ Cardinality(c.Workers) = IF Says("3workers") THEN 3 ELSE 2
        /\ e.expect = "pass" <=> e.props = LIVENESS

=============================================================================
