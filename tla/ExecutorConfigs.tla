--------------------------- MODULE ExecutorConfigs ---------------------------
(***************************************************************************)
(* The table in the executor model's gen-cfgs.py.  Names are the sequences *)
(* of their words, the first of which is the service type; descriptions    *)
(* are left out.                                                           *)
(***************************************************************************)
EXTENDS Integers, Sequences, FiniteSets, TLC, PyDict

SAFETY == {"TypeOK", "NoLostMessage", "HandoffRecorded", "NoLateUserLookup", "ActiveImpliesExeced",
           "JobDoneImpliesExeced", "JobFailedImpliesNotExeced", "ExecutorSignaledOnlyOnRequest",
           "MainPidIsTracked", "StopReachesMain", "InactiveImpliesNoProcess",
           "SessionNotClosedWhilePayloadAlive"}
LIVENESS == {"JobCompletes", "SessionEventuallyClosed"}

DEFAULTS ==
    [Type |-> "exec", PAM |-> FALSE, PIDNS |-> FALSE, User |-> TRUE, RemainAfterExit |-> FALSE,
     KillMode |-> "control-group", Prio |-> "PrioDefault", StopBudget |-> 1, TimeoutBudget |-> 1,
     PayloadStatuses |-> {0, 1}, PamDropMayFail |-> FALSE,
     FIX_COLD_MARK |-> TRUE, FIX_PAM_CLOSES_EXEC_FD |-> TRUE, FIX_PPID_CHECK |-> TRUE,
     BARRIER |-> TRUE, PAM_WAITS_FOR_PARENT |-> FALSE, FIX_PIDNS_PARENT_CLOSES_EXEC_FD |-> FALSE]

(* Nothing but the payload ends the service.                               *)
QUIET == [StopBudget |-> 0, TimeoutBudget |-> 0]

Type(t)  == [Type |-> t]
Remain   == [RemainAfterExit |-> TRUE]
Late(p)  == [Prio |-> p]
PAM      == [PAM |-> TRUE]
PIDNS    == [PIDNS |-> TRUE]
MIXED    == [KillMode |-> "mixed"]
NoBarrier == [BARRIER |-> FALSE]
NoPpid   == [FIX_PPID_CHECK |-> FALSE]
PidnsFix == [FIX_PIDNS_PARENT_CLOSES_EXEC_FD |-> TRUE]

Entry(name, over, invs, props, expect) ==
    [name |-> name, over |-> over, invs |-> invs, props |-> props, expect |-> expect]

Passes(name, over) == Entry(name, over, SAFETY, LIVENESS, "pass")
Violates(name, over, inv) == Entry(name, over, {inv}, {}, "violation")

(* An entry of four: no invariants are given, only TypeOK is one.          *)
NotLive(name, over, prop) == Entry(name, over, {"TypeOK"}, {prop}, "violation")

CONFIGS == <<
    Passes(<<"simple", "fixed">>, <<Type("simple")>>),
    Passes(<<"simple", "remain">>, <<Type("simple"), Remain>>),
    Passes(<<"exec", "fixed">>, <<>>),
    Passes(<<"exec", "remain">>, <<Remain>>),
    Passes(<<"oneshot", "fixed">>, <<Type("oneshot"), Remain>>),
    Passes(<<"oneshot", "noremain">>, <<Type("oneshot")>>),
    Violates(<<"exec", "no", "cold">>, <<[FIX_COLD_MARK |-> FALSE]>>, "ActiveImpliesExeced"),
    Violates(<<"exec", "execfd", "late">>, <<Late("PrioExecFdLate")>>, "JobFailedImpliesNotExeced"),
    Violates(<<"exec", "execfd", "late", "lost">>, <<Late("PrioExecFdLate")>>, "NoLostMessage"),
    Violates(<<"exec", "handoff", "late">>, <<Late("PrioHandoffLate")>>, "HandoffRecorded"),
    Violates(<<"exec", "ul", "late">>, <<Late("PrioUserLookupLate")>>, "NoLateUserLookup"),
    Passes(<<"simple", "pidns">>, <<Type("simple"), PIDNS, QUIET>>),
    Violates(<<"exec", "pidns">>, <<PIDNS, QUIET>>, "JobFailedImpliesNotExeced"),
    Passes(<<"exec", "pidns", "fix">>, <<PIDNS, PidnsFix, QUIET>>),
    Violates(<<"simple", "pidns", "late">>, <<Type("simple"), PIDNS, Late("PrioPidrefLate"), QUIET>>,
             "ExecutorSignaledOnlyOnRequest"),
    Violates(<<"exec", "pidns", "stop">>, <<PIDNS, MIXED>>, "StopReachesMain"),
    Passes(<<"exec", "pidns", "stop", "cg">>, <<PIDNS, PidnsFix>>),
    Passes(<<"exec", "pam", "cg">>, <<PAM, QUIET>>),
    Passes(<<"simple", "pam", "cg">>, <<Type("simple"), PAM, QUIET>>),
    Passes(<<"oneshot", "pam", "cg">>, <<Type("oneshot"), PAM, Remain, QUIET>>),
    NotLive(<<"exec", "pam", "cg", "stop">>, <<PAM, [TimeoutBudget |-> 0]>>, "SessionEventuallyClosed"),
    NotLive(<<"exec", "pam", "cg", "timeout">>, <<PAM, [StopBudget |-> 0]>>, "SessionEventuallyClosed"),
    Passes(<<"exec", "pam", "cg", "wait">>, <<PAM, [PAM_WAITS_FOR_PARENT |-> TRUE]>>),
    NotLive(<<"exec", "pam", "mixed">>, <<PAM, MIXED, QUIET>>, "SessionEventuallyClosed"),
    Passes(<<"exec", "pam", "dropfail", "cg">>, <<PAM, [PamDropMayFail |-> TRUE], QUIET>>),
    Passes(<<"exec", "pam", "noppid">>, <<PAM, NoPpid, QUIET>>),
    Violates(<<"exec", "pam", "nobarrier">>, <<PAM, NoBarrier, QUIET>>, "JobFailedImpliesNotExeced"),
    Passes(<<"simple", "pam", "nobarrier">>, <<Type("simple"), PAM, NoBarrier, QUIET>>),
    Passes(<<"simple", "pam", "nobarrier", "noppid">>, <<Type("simple"), PAM, NoBarrier, NoPpid, QUIET>>),
    Entry(<<"exec", "pam", "noclosefd">>, <<PAM, [FIX_PAM_CLOSES_EXEC_FD |-> FALSE], QUIET>>,
          {"TypeOK"}, {"JobCompletes"}, "violation"),
    Violates(<<"exec", "pam", "pidns">>, <<PAM, PIDNS, QUIET>>, "SessionNotClosedWhilePayloadAlive") >>

-----------------------------------------------------------------------------
(* The configuration of an entry.  Prio is given as the name of a          *)
(* definition of the model.                                                *)

CfgKeys ==
    {"Type", "KillMode", "PAM", "PIDNS", "User", "RemainAfterExit", "StopBudget", "TimeoutBudget",
     "PamDropMayFail", "FIX_COLD_MARK", "FIX_PAM_CLOSES_EXEC_FD", "FIX_PPID_CHECK", "BARRIER",
     "PAM_WAITS_FOR_PARENT", "FIX_PIDNS_PARENT_CLOSES_EXEC_FD", "PayloadStatuses", "Prio"}

Constants(e) ==
    LET c == Update(DEFAULTS, Joined(e.over)) IN [k \in CfgKeys |-> c[k]]

-----------------------------------------------------------------------------
(* What Executor.tla declares, defines and assumes                         *)

ExecutorConstants ==
    {"Type", "PAM", "PIDNS", "User", "RemainAfterExit", "KillMode", "Prio", "StopBudget", "TimeoutBudget",
     "PayloadStatuses", "PamDropMayFail", "FIX_COLD_MARK", "FIX_PAM_CLOSES_EXEC_FD", "FIX_PPID_CHECK",
     "BARRIER", "PAM_WAITS_FOR_PARENT", "FIX_PIDNS_PARENT_CLOSES_EXEC_FD"}

PrioDefault ==
    [user_lookup |-> -12, cg_inotify |-> -10, pidref |-> -8, handoff |-> -7, exec_fd |-> -6,
     sigchld |-> -4, signals |-> -3, cg_empty |-> -2, timer |-> 0]
Prios ==
    [PrioDefault        |-> PrioDefault,
     PrioExecFdLate     |-> [PrioDefault EXCEPT !.exec_fd = -1],
     PrioPidrefLate     |-> [PrioDefault EXCEPT !.pidref = -1],
     PrioHandoffLate    |-> [PrioDefault EXCEPT !.handoff = -1],
     PrioUserLookupLate |-> [PrioDefault EXCEPT !.user_lookup = -1]]

ExecutorAssumes(c) ==
    /\ c.Type \in {"simple", "exec", "oneshot"} /\ c.KillMode \in {"control-group", "mixed"}
    /\ c.PayloadStatuses \subseteq {0, 1}
    /\ c.StopBudget \in Nat /\ c.TimeoutBudget \in Nat
    /\ c.Prio \in DOMAIN Prios /\ \A ev \in DOMAIN PrioDefault : Prios[c.Prio][ev] \in Int

Accepted(e) ==
    /\ NoKeyTwice(e.over)
    /\ DOMAIN Constants(e) = ExecutorConstants
    /\ ExecutorAssumes(Constants(e))
    /\ e.invs \subseteq SAFETY /\ e.props \subseteq LIVENESS /\ e.invs \cup e.props # {}

NothingDropped(e) ==
    \A i \in DOMAIN e.over : \A k \in DOMAIN e.over[i] :
        k \in CfgKeys /\ Constants(e)[k] = e.over[i][k]

(* The words of a name are the settings that it has; an event is late if   *)
(* its source comes after the one that reaps.  What passes is checked for  *)
(* every property.                                                         *)
AsNamed(e) ==
    LET c == Constants(e)
        Says(w) == \E i \in DOMAIN e.name : e.name[i] = w
        late == {ev \in DOMAIN PrioDefault : Prios[c.Prio][ev] > Prios[c.Prio].sigchld}
                    \ {"signals", "cg_empty", "timer"}
    IN  /\ c.Type = e.name[1]
        /\ Says("pam") = c.PAM /\ Says("pidns") = c.PIDNS
        /\ Says("nobarrier") = ~c.BARRIER /\ Says("noppid") = ~c.FIX_PPID_CHECK
        /\ Says("cold") = ~c.FIX_COLD_MARK /\ Says("noclosefd") = ~c.FIX_PAM_CLOSES_EXEC_FD
        /\ Says("dropfail") = c.PamDropMayFail /\ Says("wait") = c.PAM_WAITS_FOR_PARENT
        /\ Says("remain") => c.RemainAfterExit
        /\ Says("noremain") => ~c.RemainAfterExit
        /\ Says("cg") => c.KillMode = "control-group"
        /\ Says("mixed") => c.KillMode = "mixed"
        /\ Says("stop") => c.StopBudget > 0
        /\ Says("timeout") => c.TimeoutBudget > 0 /\ c.StopBudget = 0
        /\ IF Says("late") THEN Cardinality(late) = 1 ELSE late = {}
        /\ e.expect = "pass" <=> e.invs = SAFETY /\ e.props = LIVENESS

=============================================================================
