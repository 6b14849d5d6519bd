---------------------------- MODULE FiberConfigs ----------------------------
(***************************************************************************)
(* The table in the fiber model's gen-cfgs.py, from which its              *)
(* configurations are generated.  The descriptions are left out.           *)
(***************************************************************************)
EXTENDS Naturals, Sequences, FiniteSets, TLC, PyDict

SAFETY == {"NoCrash", "NoSpuriousWakeup", "YieldReturnsZeroOrCanceled", "NoLostCancel",
           "NoVoidDeadline", "FinishedImpliesUnwound"}

ALL_OPS == {"yield", "ext", "spawn", "spawnfl", "awaitf", "cancel", "exit",
            "tobegin", "toend", "bare"}

FixNames == {"FixFreePending", "FixCwuLoop", "FixExitArmed", "FixRecancel",
             "FixStickyError", "FixNoChildTrampoline", "FixAwaitLoop"}
FIXES == [f \in FixNames |-> TRUE]
NOFIX == [f \in FixNames |-> FALSE]

DEFAULTS ==
    [FiberOrder |-> <<"f1", "f2", "f3">>, TopLevel |-> {"f1", "f2"}, FloatingTop |-> {},
     ExtOrder |-> <<"x1", "x2">>, WaitOrder |-> <<"w1", "w2", "w3">>,
     FiberPrioSeq |-> <<0, 0, 0>>, Budget |-> 2, Ops |-> ALL_OPS, MainMayExit |-> TRUE,
     MainMayCancel |-> FALSE, MainCancelMax |-> 0, ExitOnIdle |-> FALSE,
     AllowIgnoreErrors |-> FALSE, ChildMayFail |-> FALSE] @@ NOFIX

ops(names) == [Ops |-> names]

without(fix) == (fix :> FALSE) @@ FIXES

CANCELLERS == [MainMayCancel |-> TRUE, ChildMayFail |-> TRUE]

Budget(n) == [Budget |-> n]
TopLevel1 == [TopLevel |-> {"f1"}]
MainCancels == [MainMayCancel |-> TRUE]

(* An entry: its name in two parts, the dictionaries of its overrides, its *)
(* invariants and properties and what is expected of the run.              *)
Entry(kind, what, over, invs, props, expect) ==
    [name |-> <<kind, what>>, over |-> over, invs |-> invs, props |-> props, expect |-> expect]

AsIs(what, over, invs) == Entry("asis", what, over, invs, {}, "violation")
Fixed(what, over) == Entry("fixed", what, over \o <<FIXES>>, SAFETY, {}, "pass")
FixedLive(what, over, props) == Entry("fixed", what, over \o <<FIXES>>, SAFETY, props, "pass")
Ablation(what, fix, over, expect) ==
    Entry("abl", what, over \o <<without(fix)>>, SAFETY, {}, expect)

AsIsConfigs == <<
    Entry("asis", "smoke", <<ops({"yield", "ext"})>>, {"NoCrash", "FinishedImpliesUnwound"}, {}, "pass"),
    AsIs("cwu_exit_race", <<ops({"spawn", "yield"})>>, {"NoCrash"}),
    AsIs("cwu_cancel_race", <<MainCancels, ops({"spawn", "yield"})>>, {"NoCrash"}),
    AsIs("cwu_sibling_race", <<ops({"spawn", "yield", "cancel"})>>, {"NoCrash"}),
    AsIs("spurious_child", <<ops({"spawn", "ext"})>>, {"NoCrash", "NoSpuriousWakeup"}),
    AsIs("spurious_child_fails", <<[ChildMayFail |-> TRUE], ops({"spawn", "ext"})>>,
         {"NoCrash", "NoSpuriousWakeup"}),
    AsIs("uaf_floating_child", <<TopLevel1, [FloatingTop |-> {"f1"}], ops({"spawnfl", "yield"})>>, {"NoCrash"}),
    AsIs("stranded_floating_child", <<TopLevel1, ops({"spawnfl", "ext"})>>,
         {"NoCrash", "FinishedImpliesUnwound"}),
    AsIs("void_deadline", <<TopLevel1, Budget(4), ops({"tobegin", "yield", "bare"})>>,
         {"NoCrash", "NoVoidDeadline"}),
    Entry("asis", "void_deadline_live",
          <<TopLevel1, Budget(4), [MainMayExit |-> FALSE], ops({"tobegin", "yield", "bare"})>>,
          {"NoCrash"}, {"DeadlineLeavesScope"}, "violation"),
    AsIs("void_deadline_io", <<TopLevel1, Budget(4), [ExtOrder |-> <<"x1", "x2", "x3">>],
         ops({"tobegin", "ext", "yield", "bare"})>>, {"NoCrash", "NoVoidDeadline"}),
    AsIs("lost_cancel", <<MainCancels, Budget(4), ops({"tobegin", "spawn", "toend", "yield"})>>, {"NoLostCancel"}),
    AsIs("lost_cancel_exit", <<Budget(5), ops({"tobegin", "spawn", "toend", "yield", "bare"})>>,
         {"FinishedImpliesUnwound"}),
    AsIs("stale_yield", <<TopLevel1, MainCancels, [AllowIgnoreErrors |-> TRUE], Budget(3),
         ops({"tobegin", "bare", "yield"})>>, {"NoCrash", "YieldReturnsZeroOrCanceled"}),
    AsIs("all", <<Budget(3), CANCELLERS>>, SAFETY) >>

FixedConfigs == <<
    Fixed("all", <<Budget(2), CANCELLERS>>),
    FixedLive("all_live", <<Budget(2)>>, {"EventuallyFinished", "ExitFinishes"}),
    Fixed("prio", <<Budget(3), [FiberPrioSeq |-> <<0, 1, 0>>], CANCELLERS>>),
    Fixed("prio_child_low", <<Budget(3), [FiberPrioSeq |-> <<0, 0, 1>>], CANCELLERS>>),
    FixedLive("idle", <<Budget(2), [ExitOnIdle |-> TRUE, MainMayExit |-> FALSE, MainCancelMax |-> 2],
              CANCELLERS>>, {"EventuallyFinished"}),
    FixedLive("floating", <<Budget(2), [FloatingTop |-> {"f1"}, MainCancelMax |-> 2], CANCELLERS>>,
              {"EventuallyFinished"}),
    Fixed("ignore_errors", <<[AllowIgnoreErrors |-> TRUE], Budget(2), CANCELLERS,
          ops(ALL_OPS \ {"bare", "awaitf"})>>),
    Fixed("four_fibers", <<[FiberOrder |-> <<"f1", "f2", "f3", "f4">>, FiberPrioSeq |-> <<0, 0, 0, 0>>,
                            WaitOrder |-> <<"w1", "w2", "w3", "w4">>], Budget(2), MainCancels,
          ops({"spawn", "yield", "ext", "awaitf", "cancel"})>>),
    Fixed("deadline", <<[FiberOrder |-> <<"f1", "f2">>, FiberPrioSeq |-> <<0, 0>>,
                         ExtOrder |-> <<"x1", "x2", "x3">>], TopLevel1, Budget(4),
          ops({"tobegin", "ext", "yield", "bare", "toend", "spawn"})>>),
    FixedLive("deadline_live", <<TopLevel1, Budget(3), [ExtOrder |-> <<"x1", "x2">>],
              ops({"tobegin", "ext", "yield", "bare", "toend"})>>, {"DeadlineLeavesScope", "EventuallyFinished"}),
    Fixed("cancel", <<Budget(3), MainCancels,
          ops({"spawn", "yield", "cancel", "awaitf", "tobegin", "toend", "bare"})>>),
    FixedLive("cancel_live", <<Budget(3), MainCancels, [MainCancelMax |-> 2],
              ops({"spawn", "yield", "cancel", "awaitf"})>>, {"CancelledCompletes", "EventuallyFinished"}),
    Fixed("children", <<Budget(3), [ChildMayFail |-> TRUE], ops({"spawn", "spawnfl", "awaitf", "ext", "yield"})>>),
    Fixed("exit", <<Budget(3), ops({"spawn", "yield", "ext", "exit", "bare"})>>) >>

Ablations == <<
    Ablation("no_freepending", "FixFreePending", <<Budget(2), CANCELLERS>>, "pass"),
    Ablation("no_cwuloop", "FixCwuLoop", <<Budget(3), MainCancels, ops({"spawn", "yield", "cancel"})>>, "violation"),
    Ablation("no_exitarmed", "FixExitArmed", <<Budget(3), ops({"spawnfl", "spawn", "ext", "yield"})>>, "violation"),
    Ablation("no_exitarmed_cancel", "FixExitArmed", <<Budget(3), MainCancels, ops({"spawn", "yield", "awaitf"})>>,
             "violation"),
    Ablation("no_recancel", "FixRecancel", <<Budget(4), MainCancels, ops({"tobegin", "spawn", "toend", "yield"})>>,
             "violation"),
    Ablation("no_recancel_exit", "FixRecancel", <<Budget(5), ops({"tobegin", "spawn", "toend", "yield", "bare"})>>,
             "violation"),
    Ablation("no_sticky", "FixStickyError", <<TopLevel1, Budget(4), ops({"tobegin", "yield", "bare"})>>, "violation"),
    Ablation("no_childtramp", "FixNoChildTrampoline", <<Budget(2), ops({"spawn", "ext", "awaitf"})>>, "pass"),
    Ablation("no_childtramp_floating", "FixNoChildTrampoline",
             <<TopLevel1, [FloatingTop |-> {"f1"}], ops({"spawnfl", "yield"})>>, "violation"),
    Ablation("no_awaitloop", "FixAwaitLoop", <<Budget(2), CANCELLERS>>, "pass") >>

CONFIGS == AsIsConfigs \o FixedConfigs \o Ablations

-----------------------------------------------------------------------------
(* The two files of an entry: the module with the sequences and sets, and  *)
(* the configuration, which refers to the module for these and assigns the *)
(* rest.                                                                   *)

(* Mutant: a constant that was forgotten in the writer.                    *)
McKeys_NoPrio == {"FiberOrder", "ExtOrder", "WaitOrder", "TopLevel", "FloatingTop", "Ops"}

McKeys == {"FiberOrder", "FiberPrioSeq", "ExtOrder", "WaitOrder", "TopLevel", "FloatingTop", "Ops"}

CfgKeys == {"Budget", "MainMayExit", "MainMayCancel", "MainCancelMax", "ExitOnIdle",
            "AllowIgnoreErrors", "ChildMayFail"} \cup DOMAIN FIXES

(* The constants that TLC gets from both.                                  *)
Constants(e) ==
    LET c == Update(DEFAULTS, Joined(e.over)) IN [k \in McKeys \cup CfgKeys |-> c[k]]

-----------------------------------------------------------------------------
(* What Fiber.tla declares and assumes                                     *)

FiberConstants ==
    {"FiberOrder", "TopLevel", "FloatingTop", "ExtOrder", "WaitOrder", "FiberPrioSeq", "Budget", "Ops",
     "MainMayExit", "MainMayCancel", "MainCancelMax", "ExitOnIdle", "AllowIgnoreErrors", "ChildMayFail",
     "FixFreePending", "FixCwuLoop", "FixExitArmed", "FixRecancel", "FixStickyError",
     "FixNoChildTrampoline", "FixAwaitLoop"}

Elems(s) == {s[i] : i \in DOMAIN s}

FiberAssumes(c) ==
    /\ c.TopLevel \subseteq Elems(c.FiberOrder) /\ c.FloatingTop \subseteq c.TopLevel
    /\ Elems(c.ExtOrder) \cap Elems(c.WaitOrder) = {}
    /\ Elems(c.ExtOrder) \cap Elems(c.FiberOrder) = {}
    /\ Elems(c.WaitOrder) \cap Elems(c.FiberOrder) = {}
    /\ c.Ops \subseteq ALL_OPS
    /\ Len(c.FiberPrioSeq) = Len(c.FiberOrder)

Accepted(e) ==
    /\ NoKeyTwice(e.over)
    /\ DOMAIN Constants(e) = FiberConstants
    /\ FiberAssumes(Constants(e))

(* Every override of the entry reaches the files: a key that the writer    *)
(* does not know would be dropped without a word.                          *)
NothingDropped(e) ==
    \A i \in DOMAIN e.over : \A k \in DOMAIN e.over[i] :
        k \in McKeys \cup CfgKeys /\ Constants(e)[k] = e.over[i][k]

(* The fixes that are on, by what the name says.                           *)
AsNamed(e) ==
    LET off == {f \in FixNames : ~Constants(e)[f]} IN
    CASE e.name[1] = "asis"  -> off = FixNames
      [] e.name[1] = "fixed" -> off = {} /\ e.expect = "pass"
      [] e.name[1] = "abl"   -> Cardinality(off) = 1

=============================================================================
