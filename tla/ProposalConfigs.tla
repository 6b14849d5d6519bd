--------------------------- MODULE ProposalConfigs ---------------------------
(***************************************************************************)
(* The table in gen-cfgs.py of the mntput() model of the proposal.  A      *)
(* configuration is named <layout>_<what>, here as the sequence of its     *)
(* words; a module is generated for every layout, and check.sh takes the   *)
(* one of the configuration's first word.  A task is what it does and the  *)
(* mount that it does it to.                                               *)
(***************************************************************************)
EXTENDS Naturals, Sequences, FiniteSets, TLC, PyDict

HA == <<"H", "A">>
HB == <<"H", "B">>
WA == <<"W", "A">>
WB == <<"W", "B">>
U  == <<"U", "A">>

(* Holders and walkers                                                     *)
LAYOUTS == [hw |-> <<{HA}, {WB}>>, wh |-> <<{HB}, {WA}>>, hh |-> <<{HA, HB}, {}>>,
            ww |-> <<{}, {WA, WB}>>, h |-> <<{HA}, {}>>, w |-> <<{}, {WA}>>,
            hwa |-> <<{HA}, {WA}>>, full |-> <<{HA, HB}, {WA, WB}>>]
LayoutOrder == <<"hw", "wh", "hh", "ww", "h", "w", "hwa", "full">>

FIXES == {"FIX_MB_LEGIT", "FIX_MB_UMOUNT", "FIX_MB_PUT", "FIX_MB_PEEK", "FIX_RCU_DELAY",
          "FIX_PUT_RCU", "FIX_SYNC_FLAG", "FIX_DOOMED_FLAG"}
MUTS == {"PEEK_LOOSE", "PREV_SHAPE", "QUEUE_LATE", "FIX_PUT_RECHECK"}
SAFETY == {"TypeOK", "Ledger", "NoUAF", "DoomedIsLast", "NoNegative", "SyncClean"}
LIVE == {"Freed", "AllDone"}

(* The options of an entry, and what they are if not given.                *)
Defaults == [mode |-> "umount", lazy |-> TRUE, order |-> "AB", migrate |-> FALSE, weak |-> FALSE,
             split |-> TRUE, off |-> {}, muts |-> {}, invs |-> SAFETY, props |-> LIVE,
             expect |-> "pass", getbudget |-> 1]

add(name, layout, options) == Update(options @@ Defaults, [name |-> name, layout |-> layout])

(* The assertions of add().                                                *)
Asserted(e) ==
    /\ e.name[1] = e.layout
    /\ e.mode # "kern" \/ LAYOUTS[e.layout][2] = {}

None == [order |-> "AB"]
BA == [order |-> "BA"]
Sync == [lazy |-> FALSE]
Migrate == [migrate |-> TRUE]
Weak == [weak |-> TRUE]
Mode(m) == [mode |-> m]
Off(fix) == [off |-> {fix}]
Mut(mut) == [muts |-> {mut}]
NoLive == [props |-> {}]
Witness(prop) == [invs |-> {}, props |-> {prop}]
Violated == [expect |-> "violation"]

Series == <<
    add(<<"hw", "lazy">>, "hw", None), add(<<"hw", "lazy", "ba">>, "hw", BA), add(<<"wh", "lazy">>, "wh", None),
    add(<<"wh", "lazy", "ba">>, "wh", BA), add(<<"hh", "lazy">>, "hh", None), add(<<"ww", "lazy">>, "ww", None),
    add(<<"h", "lazy">>, "h", None), add(<<"h", "lazy", "ba">>, "h", BA), add(<<"w", "lazy">>, "w", None),
    add(<<"hwa", "lazy">>, "hwa", None), add(<<"hwa", "lazy", "ba">>, "hwa", BA),
    add(<<"full", "lazy">>, "full", None), add(<<"full", "lazy", "g0">>, "full", [getbudget |-> 0]),
    add(<<"hw", "sync">>, "hw", Sync), add(<<"wh", "sync">>, "wh", Sync),
    add(<<"wh", "sync", "ba">>, "wh", Sync @@ BA), add(<<"ww", "sync">>, "ww", Sync), add(<<"h", "sync">>, "h", Sync),
    add(<<"hwa", "sync">>, "hwa", Sync), add(<<"hh", "lazy", "migrate">>, "hh", Migrate),
    add(<<"hw", "lazy", "weak">>, "hw", Migrate @@ Weak),
    add(<<"wh", "sync", "weak">>, "wh", Sync @@ Migrate @@ Weak),
    add(<<"hh", "lazy", "weak">>, "hh", Migrate @@ Weak) >>

Witnesses == <<
    add(<<"h", "witness", "fast">>, "h", Witness("NoFastFinal") @@ Violated),
    add(<<"h", "witness", "after", "held">>, "h", Witness("NoFinishAfterHeld") @@ Violated),
    add(<<"wh", "witness", "after", "held", "ba">>, "wh", BA @@ Witness("NoFinishAfterHeld") @@ Violated),
    add(<<"h", "prev", "witness", "after", "held">>, "h", Mut("PREV_SHAPE") @@ Witness("NoFinishAfterHeld")) >>

Mutations == <<
    add(<<"hh", "no", "rcu", "delay">>, "hh", Off("FIX_RCU_DELAY") @@ Violated),
    add(<<"ww", "sync", "no", "rcu", "delay">>, "ww", Sync @@ Off("FIX_RCU_DELAY") @@ Violated),
    add(<<"hw", "prev">>, "hw", Mut("PREV_SHAPE")), add(<<"hw", "prev", "ba">>, "hw", BA @@ Mut("PREV_SHAPE")),
    add(<<"wh", "sync", "prev">>, "wh", Sync @@ Mut("PREV_SHAPE")),
    add(<<"hw", "queue", "late">>, "hw", Mut("QUEUE_LATE")), add(<<"h", "queue", "late">>, "h", Mut("QUEUE_LATE")),
    add(<<"hh", "loose">>, "hh", Mut("PEEK_LOOSE") @@ NoLive @@ Violated),
    add(<<"ww", "sync", "loose">>, "ww", Sync @@ Mut("PEEK_LOOSE")),
    add(<<"hwa", "lazy", "no", "mb", "peek">>, "hwa", Off("FIX_MB_PEEK") @@ NoLive),
    add(<<"ww", "sync", "no", "mb", "peek">>, "ww", Sync @@ Off("FIX_MB_PEEK") @@ NoLive),
    add(<<"hwa", "lazy", "no", "mb", "put">>, "hwa", Off("FIX_MB_PUT") @@ NoLive @@ Violated),
    add(<<"hwa", "lazy", "no", "mb", "legit">>, "hwa", Off("FIX_MB_LEGIT") @@ NoLive @@ Violated),
    add(<<"w", "lazy", "no", "doomed", "flag">>, "w", Off("FIX_DOOMED_FLAG") @@ NoLive @@ Violated),
    add(<<"w", "sync", "no", "mb", "legit">>, "w", Sync @@ Off("FIX_MB_LEGIT") @@ NoLive @@ Violated),
    add(<<"h", "sync", "torn", "sum">>, "h", Sync @@ Migrate @@ [split |-> FALSE] @@ NoLive @@ Violated) >>

NsDeath == <<
    add(<<"hw", "nsdeath">>, "hw", Mode("nsdeath")), add(<<"hw", "nsdeath", "ba">>, "hw", Mode("nsdeath") @@ BA),
    add(<<"hh", "nsdeath">>, "hh", Mode("nsdeath")),
    add(<<"h", "nsdeath", "witness", "after", "held">>, "h", Mode("nsdeath") @@ Witness("NoFinishAfterHeld") @@ Violated) >>

Kern == <<
    add(<<"hh", "kern">>, "hh", Mode("kern")), add(<<"hh", "kern", "ba">>, "hh", Mode("kern") @@ BA),
    add(<<"h", "kern">>, "h", Mode("kern")), add(<<"hh", "kern", "weak">>, "hh", Mode("kern") @@ Migrate @@ Weak),
    add(<<"hh", "kern", "no", "mb", "peek">>, "hh", Mode("kern") @@ Off("FIX_MB_PEEK")),
    add(<<"hh", "kern", "no", "rcu", "delay">>, "hh", Mode("kern") @@ Off("FIX_RCU_DELAY") @@ Violated),
    add(<<"h", "kern", "witness", "fast">>, "h", Mode("kern") @@ Witness("NoFastFinal") @@ Violated),
    add(<<"hh", "kern", "prev">>, "hh", Mode("kern") @@ Mut("PREV_SHAPE")) >>

Exploratory == <<
    add(<<"hh", "recheck">>, "hh", Off("FIX_RCU_DELAY") @@ Mut("FIX_PUT_RECHECK")),
    add(<<"hw", "recheck">>, "hw", Off("FIX_RCU_DELAY") @@ Mut("FIX_PUT_RECHECK")),
    add(<<"hwa", "recheck">>, "hwa", Off("FIX_RCU_DELAY") @@ Mut("FIX_PUT_RECHECK")),
    add(<<"ww", "sync", "recheck">>, "ww", Sync @@ Off("FIX_RCU_DELAY") @@ Mut("FIX_PUT_RECHECK") @@ Violated),
    add(<<"hh", "recheck", "weak">>, "hh", Migrate @@ Weak @@ Off("FIX_RCU_DELAY") @@ Mut("FIX_PUT_RECHECK")),
    add(<<"hh", "kern", "recheck">>, "hh", Mode("kern") @@ Off("FIX_RCU_DELAY") @@ Mut("FIX_PUT_RECHECK")),
    add(<<"hh", "kern", "recheck", "weak">>, "hh", Mode("kern") @@ Migrate @@ Weak @@ Off("FIX_RCU_DELAY") @@ Mut("FIX_PUT_RECHECK")) >>

CONFIGS == Series \o Witnesses \o Mutations \o NsDeath \o Kern \o Exploratory

-----------------------------------------------------------------------------
(* The module of a layout, and the configuration of an entry.              *)

Module(layout) ==
    [TaskList |-> {U} \cup LAYOUTS[layout][1] \cup LAYOUTS[layout][2],
     TaskMount |-> [t \in LAYOUTS[layout][1] \cup LAYOUTS[layout][2] |-> t[2]]]

(* Mutant: the switches are written for the fixes that are off.            *)
Switches_Inverted(e) == [f \in FIXES |-> f \in e.off]

Switches(e) == [f \in FIXES |-> f \notin e.off]

Config(e) ==
    [BatchOrder |-> IF e.order = "AB" THEN <<"A", "B">> ELSE <<"B", "A">>,
     Holders |-> LAYOUTS[e.layout][1], Walkers |-> LAYOUTS[e.layout][2],
     NCPU |-> 2, GetBudget |-> e.getbudget,
     MIGRATE |-> e.migrate, MigBudget |-> IF e.migrate THEN 2 ELSE 1,
     MODE |-> e.mode, LAZY |-> e.lazy,
     FIX_SPLIT_COUNT |-> e.split, SPLIT_GETS_FIRST |-> FALSE,
     WEAK_STORES |-> e.weak, FIX_PUT_WMB |-> e.split]
    @@ Switches(e) @@ [m \in MUTS |-> m \in e.muts]

(* check.sh                                                                *)
ModuleOf(name) == name[1]

(* The constants that TLC gets.                                            *)
Constants(e) == Config(e) @@ Module(ModuleOf(e.name))

-----------------------------------------------------------------------------
(* What MntPut.tla declares and assumes                                    *)

MntPutConstants ==
    {"TaskList", "Walkers", "Holders", "TaskMount", "BatchOrder", "NCPU", "GetBudget", "MIGRATE",
     "MigBudget", "MODE", "LAZY", "FIX_MB_LEGIT", "FIX_MB_UMOUNT", "FIX_MB_PUT", "FIX_MB_PEEK",
     "FIX_RCU_DELAY", "FIX_PUT_RCU", "FIX_SYNC_FLAG", "FIX_DOOMED_FLAG", "FIX_SPLIT_COUNT",
     "SPLIT_GETS_FIRST", "WEAK_STORES", "FIX_PUT_WMB", "PEEK_LOOSE", "PREV_SHAPE", "QUEUE_LATE",
     "FIX_PUT_RECHECK"}

MntPutAssumes(c) ==
    LET Others == c.TaskList \ {U} IN
    /\ U \in c.TaskList
    /\ c.Walkers \cap c.Holders = {} /\ c.Walkers \cup c.Holders = Others
    /\ c.MODE \in {"umount", "nsdeath", "kern"}
    /\ c.MODE = "kern" => c.Walkers = {}
    /\ {c.BatchOrder[i] : i \in DOMAIN c.BatchOrder} = {"A", "B"} /\ Len(c.BatchOrder) = 2

Accepted(e) ==
    /\ Asserted(e)
    /\ DOMAIN Constants(e) = MntPutConstants
    /\ MntPutAssumes(Constants(e))

(* The switches that an entry names are switched in the configuration: one *)
(* that the writer does not know would be left out without a word.         *)
NothingDropped(e) ==
    LET c == Constants(e) IN
    /\ \A f \in e.off : f \in DOMAIN c /\ ~c[f]
    /\ \A m \in e.muts : m \in DOMAIN c /\ c[m]

(* What the words of the name say.                                         *)
AsNamed(e) ==
    LET c == Constants(e)
        Has(word) == \E i \in DOMAIN e.name : e.name[i] = word
    IN  /\ Has("sync") <=> ~c.LAZY
        /\ Has("ba") <=> c.BatchOrder[1] = "B"
        /\ Has("weak") <=> c.WEAK_STORES
        /\ Has("kern") <=> c.MODE = "kern"
        /\ Has("nsdeath") <=> c.MODE = "nsdeath"
        /\ Has("prev") <=> c.PREV_SHAPE
        /\ Has("recheck") <=> c.FIX_PUT_RECHECK
        /\ Has("witness") <=> e.invs = {}
        /\ (\E f \in FIXES : ~c[f]) <=> Has("no") \/ Has("recheck")

=============================================================================
