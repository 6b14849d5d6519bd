--------------------------- MODULE RegistryConfigs ---------------------------
(***************************************************************************)
(* The table in gen-cfgs.py of the model of systemd-nsresourced's registry *)
(* of user namespaces.  Names are the sequences of their words.            *)
(***************************************************************************)
EXTENDS Naturals, Sequences, FiniteSets, TLC, PyDict

SAFETY == {"TypeOK", "LiveRangesDisjoint", "ManagedCoversLive", "ResourcesOfLiveKept",
           "RegistryConsistent", "NoStarvationByDead"}
LIVENESS == {"UnusedNamespaceDies", "RangeReclaimed"}

DEFAULTS ==
    [Clients |-> {"c1", "c2"}, Role |-> "RoleDef", Inodes |-> {1, 2}, Ranges |-> {"r1", "r2"},
     IdMax |-> 4, RingCap |-> 4, RestartBudget |-> 1, FDSTORE_PINS |-> FALSE,
     FIX_NSID_VERIFY |-> TRUE, FIX_REAP_ON_ALLOC |-> TRUE, FIX_STARTUP_SWEEP |-> TRUE,
     FIX_RINGBUF_LOCK |-> TRUE]

Inodes3 == [Inodes |-> {1, 2, 3}]
Drop    == [RingCap |-> 1, RestartBudget |-> 0]

Entry(name, over, invs, props, expect) ==
    [name |-> name, over |-> over, invs |-> invs, props |-> props, expect |-> expect]

CONFIGS == <<
    Entry(<<"registry", "fixed">>, <<>>, SAFETY, LIVENESS, "pass"),
    Entry(<<"registry", "fdstore", "pins">>, <<[FDSTORE_PINS |-> TRUE]>>, SAFETY, {"UnusedNamespaceDies"},
          "violation"),
    Entry(<<"registry", "no", "nsid">>, <<[FIX_NSID_VERIFY |-> FALSE]>>,
          {"LiveRangesDisjoint", "ManagedCoversLive"}, {}, "violation"),
    Entry(<<"registry", "no", "reap">>, <<[FIX_REAP_ON_ALLOC |-> FALSE], Drop, Inodes3>>,
          {"NoStarvationByDead"}, {}, "violation"),
    Entry(<<"registry", "fixed", "3inodes">>, <<Inodes3>>, SAFETY, LIVENESS, "pass"),
    Entry(<<"registry", "ringbuf", "drop">>, <<Drop>>, {"TypeOK"}, {"RangeReclaimed"}, "violation"),
    Entry(<<"registry", "no", "ringbuf", "lock">>, <<[FIX_RINGBUF_LOCK |-> FALSE]>>, SAFETY, LIVENESS, "pass") >>

CfgKeys ==
    {"Clients", "Role", "Inodes", "Ranges", "IdMax", "RingCap", "RestartBudget", "FDSTORE_PINS",
     "FIX_NSID_VERIFY", "FIX_REAP_ON_ALLOC", "FIX_STARTUP_SWEEP", "FIX_RINGBUF_LOCK"}

Constants(e) ==
    LET c == Update(DEFAULTS, Joined(e.over)) IN [k \in CfgKeys |-> c[k]]

-----------------------------------------------------------------------------
(* What UsernsRegistry.tla declares, defines and assumes.  Role is given   *)
(* as the name of its definition, which is about two clients.              *)

RegistryConstants ==
    {"Clients", "Role", "Inodes", "Ranges", "IdMax", "RingCap", "RestartBudget", "FDSTORE_PINS",
     "FIX_NSID_VERIFY", "FIX_REAP_ON_ALLOC", "FIX_STARTUP_SWEEP", "FIX_RINGBUF_LOCK"}

RoleDef == [c1 |-> "nspawn", c2 |-> "executor"]

RegistryAssumes(c) ==
    /\ c.Role = "RoleDef" /\ RoleDef \in [c.Clients -> {"nspawn", "executor"}]
    /\ c.IdMax \in Nat /\ c.RingCap \in Nat /\ c.RestartBudget \in Nat

Accepted(e) ==
    /\ NoKeyTwice(e.over)
    /\ DOMAIN Constants(e) = RegistryConstants
    /\ RegistryAssumes(Constants(e))
    /\ e.invs \subseteq SAFETY /\ e.props \subseteq LIVENESS

NothingDropped(e) ==
    \A i \in DOMAIN e.over : \A k \in DOMAIN e.over[i] :
        k \in CfgKeys /\ Constants(e)[k] = e.over[i][k]

Fixes == {"FIX_NSID_VERIFY", "FIX_REAP_ON_ALLOC", "FIX_STARTUP_SWEEP", "FIX_RINGBUF_LOCK"}

(* "no": without one fix.  An event can be dropped if there are more ids   *)
(* than the ring buffer has room for.  What passes is checked for every    *)
(* property.                                                               *)
AsNamed(e) ==
    LET c == Constants(e)
        Says(w) == \E i \in DOMAIN e.name : e.name[i] = w
    IN  /\ Cardinality({f \in Fixes : ~c[f]}) = IF Says("no") THEN 1 ELSE 0
        /\ c.FDSTORE_PINS = Says("pins")
        /\ Says("fixed") => c.RingCap >= c.IdMax
        /\ Says("drop") => c.RingCap < c.IdMax
        /\ Says("3inodes") => Cardinality(c.Inodes) = 3
        /\ e.expect = "pass" <=> e.invs = SAFETY /\ e.props = LIVENESS

=============================================================================
