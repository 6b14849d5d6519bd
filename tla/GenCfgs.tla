------------------------------ MODULE GenCfgs ------------------------------
(***************************************************************************)
(* From the table in a gen-cfgs.py to the table of results in README.md.   *)
(* The generator writes the configurations and modules of a directory, TLC *)
(* runs on them, summarize.sh lists the results and fill-results.py, which *)
(* runs the generator again, puts them into the README.  All of them are   *)
(* started by hand: they overlap, and are interrupted.  The directories:   *)
(* the fiber model's, with a module for every configuration; the mntput()  *)
(* model's, with a module for every layout and no fill-results.py; and the *)
(* executor's, the registry's and the verity devices', with configurations *)
(* only.                                                                   *)
(*                                                                         *)
(* A file is the version of the table that it was written from.  In the    *)
(* second version an entry is gone and one is new.                         *)
(***************************************************************************)
EXTENDS Integers, Sequences, FiniteSets, SequencesExt

CONSTANTS
    Rows,           \* bound: entries in the table, unless the whole table is taken
    MaxGens,        \* bound: times that the generator is started by hand,
    MaxFills,       \*        fill-results.py,
    MaxRuns,        \*        and TLC
    MaxCrashes      \* bound: interruptions

F == INSTANCE FiberConfigs
P == INSTANCE ProposalConfigs
E == INSTANCE ExecutorConfigs
R == INSTANCE RegistryConfigs
V == INSTANCE VerityConfigs

VARIABLES
    dir,        \* which directory, whether with the whole table, and the names in it
    ver,        \* the version of the table in gen-cfgs.py
    file,       \* the files
    gen,        \* the generator started by hand, and the one in fill-results.py
    run,        \* TLC
    log,        \* logs/<cfg>.log
    summary,    \* logs/summary.txt
    fill,       \* fill-results.py
    readme,     \* the lines of README.md
    count       \* what has been started, for the bounds

vars == <<dir, ver, file, gen, run, log, summary, fill, readme, count>>

Dirs == {"fiber", "proposal", "executor", "nsresourced", "mountfsd"}

Fiber    == dir.of = "fiber"
Proposal == dir.of = "proposal"

-----------------------------------------------------------------------------
(* The table and its files *)

Table(of) ==
    CASE of = "fiber"       -> F!CONFIGS
      [] of = "proposal"    -> P!CONFIGS
      [] of = "executor"    -> E!CONFIGS
      [] of = "nsresourced" -> R!CONFIGS
      [] of = "mountfsd"    -> V!CONFIGS

ASSUME GenCfgsAssumption ==
    /\ Rows \in Nat \ {0} /\ \A of \in Dirs : Rows <= Len(Table(of))
    /\ {MaxGens, MaxFills, MaxRuns, MaxCrashes} \subseteq Nat

(* The table is a dictionary: a name that was given twice would replace    *)
(* the first entry.  The name of the entry that is gone is not in it.      *)
ASSUME NamesAssumption ==
    \A of \in Dirs : LET t == Table(of) IN
        \A i, j \in DOMAIN t :
            /\ t[i].name = t[j].name => i = j
            /\ t[i].name # <<t[1].name[1], "gone">>

(* The names in the table, as long as it is to be.                         *)
NamesOf(of, whole) ==
    LET t == Table(of) IN [i \in 1 .. (IF whole THEN Len(t) ELSE Rows) |-> t[i].name]

Newest == dir.names
Gone   == <<Newest[1][1], "gone">>

Names(v) == IF v = 2 THEN Newest ELSE SubSeq(Newest, 1, Len(Newest) - 1) \o <<Gone>>
AllNames == ToSet(Newest) \cup {Gone}

cfg(name) == <<"cfg", name>>
Layout(l) == <<"MC", <<l>>>>
MC(name)  == IF Proposal THEN Layout(P!ModuleOf(name)) ELSE <<"MC", name>>
HasMC     == Fiber \/ Proposal

(* The files in the order in which they are written: a module for every    *)
(* layout, whether an entry has it or not.                                 *)
Writes(v) ==
    LET ns == Names(v) IN
    IF Fiber THEN
         [i \in 1 .. 2 * Len(ns) |->
            IF i % 2 = 1 THEN MC(ns[(i + 1) \div 2]) ELSE cfg(ns[i \div 2])]
    ELSE IF Proposal THEN
         [i \in DOMAIN P!LayoutOrder |-> Layout(P!LayoutOrder[i])] \o [i \in DOMAIN ns |-> cfg(ns[i])]
    ELSE [i \in DOMAIN ns |-> cfg(ns[i])]

Modules ==
    IF Proposal THEN {Layout(l) : l \in ToSet(P!LayoutOrder)}
    ELSE IF Fiber THEN {MC(n) : n \in AllNames} ELSE {}

Files == {cfg(n) : n \in AllNames} \cup Modules

Absent == 0
Empty  == -1

(* Mutant: nothing is removed.                                             *)
Stale_None(v) == {}

(* The files of entries that are not in the table any more are removed,    *)
(* but stay in the mntput() directory.                                     *)
Stale(v) ==
    IF Proposal THEN {} ELSE {f \in Files : file[f] # Absent /\ f[2] \notin ToSet(Names(v))}

-----------------------------------------------------------------------------
(* gen-cfgs.py *)

Gens == {"hand", "fill"}
Idle == [pc |-> "idle", ver |-> 0, stale |-> {}, todo |-> <<>>]

Started(what, max) ==
    /\ count[what] < max
    /\ count' = [count EXCEPT ![what] = @ + 1]

(* "done" and "failed" are kept of the last time, until the next.          *)
Generating(g) ==
    gen' = [h \in Gens |->
              IF h = g THEN [pc |-> "work", ver |-> ver, stale |-> Stale(ver), todo |-> Writes(ver)]
              ELSE IF gen[h].pc \in {"done", "failed"} THEN Idle ELSE gen[h]]

Active(g) == gen[g].pc \in {"work", "open"}

Generate ==
    /\ ~Active("hand")
    /\ Started("gens", MaxGens)
    /\ Generating("hand")
    /\ run' = [run EXCEPT !.quiet = FALSE]
    /\ UNCHANGED <<dir, ver, file, log, summary, fill, readme>>

outside == <<dir, ver, run, log, summary, fill, readme, count>>

(* First the configurations, then the modules.  A file that is not there   *)
(* any more raises.                                                        *)
Unlink(g) ==
    /\ gen[g].pc = "work"
    /\ \E f \in gen[g].stale :
         /\ f[1] = "MC" => \A h \in gen[g].stale : h[1] = "MC"
         /\ gen' = [gen EXCEPT ![g].stale = @ \ {f},
                               ![g].pc = IF file[f] = Absent THEN "failed" ELSE @]
         /\ file' = [file EXCEPT ![f] = Absent]
    /\ UNCHANGED outside

(* write_text() empties the file, then writes the text in one piece.       *)
Truncate(g) ==
    /\ gen[g].pc = "work" /\ gen[g].stale = {}
    /\ file' = [file EXCEPT ![Head(gen[g].todo)] = Empty]
    /\ gen' = [gen EXCEPT ![g].pc = "open"]
    /\ UNCHANGED outside

(* Mutant: modules are taken to be the same in every version.              *)
Write_OldModule(g) ==
    LET f == Head(gen[g].todo) IN
    /\ gen[g].pc = "open"
    /\ file' = [file EXCEPT ![f] = IF f[1] = "MC" THEN 1 ELSE gen[g].ver]
    /\ gen' = [gen EXCEPT ![g].pc = IF Len(gen[g].todo) = 1 THEN "done" ELSE "work", ![g].todo = Tail(@)]
    /\ UNCHANGED outside

(* A file that another generator has removed in between is not made again. *)
Write(g) ==
    /\ gen[g].pc = "open"
    /\ file' = [file EXCEPT ![Head(gen[g].todo)] = IF @ = Absent THEN Absent ELSE gen[g].ver]
    /\ gen' = [gen EXCEPT ![g].pc = IF Len(gen[g].todo) = 1 THEN "done" ELSE "work", ![g].todo = Tail(@)]
    /\ UNCHANGED outside

Interrupted ==
    /\ Active("hand")
    /\ Started("crashes", MaxCrashes)
    /\ gen' = [gen EXCEPT !["hand"].pc = "failed"]
    /\ UNCHANGED <<dir, ver, file, run, log, summary, fill, readme>>

(* The table is edited.                                                    *)
Edit ==
    /\ ver = 1
    /\ ver' = 2
    /\ gen' = [g \in Gens |-> IF gen[g].pc = "done" THEN Idle ELSE gen[g]]
    /\ UNCHANGED <<dir, file, run, log, summary, fill, readme, count>>

-----------------------------------------------------------------------------
(* check.sh and TLC: the configuration is read, then the module.           *)

NoLog == [result |-> "none", cfg |-> 0, mc |-> 0, quiet |-> FALSE]
NoRun == [name |-> <<>>, cfg |-> 0, quiet |-> FALSE]

(* The generator has run to its end, and none has since that was not of    *)
(* this table or did not end.                                              *)
Settled ==
    /\ \A g \in Gens : gen[g].pc = "idle" \/ (gen[g].pc = "done" /\ gen[g].ver = ver)
    /\ \E g \in Gens : gen[g].pc = "done"

(* The fiber directory's run-parallel.sh skips what has a verdict,         *)
(* whatever table it is of.  The log begins anew.                          *)
RunCfg ==
    /\ run = NoRun /\ ~dir.whole
    /\ Started("runs", MaxRuns)
    /\ \E n \in AllNames :
         /\ file[cfg(n)] # Absent /\ (Fiber => log[n].result # "verdict")
         /\ run' = [name |-> n, cfg |-> file[cfg(n)], quiet |-> Settled]
         /\ log' = [log EXCEPT ![n] = [NoLog EXCEPT !.result = "running"]]
    /\ UNCHANGED <<dir, ver, file, gen, summary, fill, readme>>

(* Neither an empty configuration nor an empty or absent module is checked.*)
(* A directory without generated modules has one that stays.               *)
RunMC ==
    LET mc == IF HasMC THEN file[MC(run.name)] ELSE run.cfg IN
    /\ run # NoRun
    /\ log' = [log EXCEPT ![run.name] =
                 IF run.cfg > 0 /\ mc > 0
                 THEN [result |-> "verdict", cfg |-> run.cfg, mc |-> mc, quiet |-> run.quiet]
                 ELSE [NoLog EXCEPT !.result = "ERROR"]]
    /\ run' = NoRun
    /\ UNCHANGED <<dir, ver, file, gen, summary, fill, readme, count>>

-----------------------------------------------------------------------------
(* summarize.sh *)

(* Mutant: no "-" for the number of states of a run that has none.         *)
fields_NoDash(n) ==
    4 + (IF file[cfg(n)] = Empty THEN 0 ELSE 1) + (IF log[n].result = "verdict" THEN 1 ELSE 0)

(* The words of a row: the name, what is expected (nothing, if the         *)
(* configuration is empty), the result, the states and the time or "-",    *)
(* and ok or MISMATCH.  Only the fiber directory has the "-" for states.   *)
fields(n) ==
    4 + (IF file[cfg(n)] = Empty THEN 0 ELSE 1)
      + (IF Fiber \/ log[n].result = "verdict" THEN 1 ELSE 0)

summarize ==
    /\ ~dir.whole /\ ~Proposal
    /\ summary' = [exists |-> TRUE,
                   rows |-> {[name |-> n, expect |-> file[cfg(n)], result |-> log[n].result,
                              fields |-> fields(n)] :
                             n \in {m \in AllNames : log[m].result # "none" /\ file[cfg(m)] # Absent}}]
    /\ summary' # summary
    /\ UNCHANGED <<dir, ver, file, gen, run, log, fill, readme, count>>

-----------------------------------------------------------------------------
(* fill-results.py --readme *)

Line(kind, name, expect, result) ==
    [kind |-> kind, name |-> name, expect |-> expect, result |-> result]
Text(t) == Line("text", <<t>>, 0, "")
Marker  == Line("marker", <<>>, 0, "")
Header  == Line("header", <<>>, 0, "")

IsTable(l) == l.kind \in {"header", "row"}

(* Rows with less than six words are passed over.                          *)
rows(rs) == {r \in rs : r.fields >= 6}

(* The elements of s that are in T.                                        *)
Within(s, T) ==
    LET f[i \in 0 .. Len(s)] ==
          IF i = 0 THEN <<>> ELSE IF s[i] \in T THEN Append(f[i - 1], s[i]) ELSE f[i - 1]
    IN f[Len(s)]

(* The rows are in the order of the table, without what is not in it.      *)
table(rs, v) ==
    LET has == Within(Names(v), {r.name : r \in rows(rs)})
        row(n) == CHOOSE r \in rows(rs) : r.name = n
    IN  <<Header>> \o [i \in DOMAIN has |-> Line("row", has[i], row(has[i]).expect, row(has[i]).result)]

(* Mutant: the header is replaced, and the rows of the old table stay.     *)
Replaced_Header(s, t) ==
    IF \E i \in DOMAIN s : s[i] = Marker
    THEN FlattenSeq([i \in DOMAIN s |-> IF s[i] = Marker THEN t ELSE <<s[i]>>])
    ELSE FlattenSeq([i \in DOMAIN s |-> IF s[i] = Header THEN t ELSE <<s[i]>>])

(* The marker, or the lines of the table that is there, are replaced.      *)
Replaced(s, t) ==
    IF \E i \in DOMAIN s : s[i] = Marker
    THEN FlattenSeq([i \in DOMAIN s |-> IF s[i] = Marker THEN t ELSE <<s[i]>>])
    ELSE LET start == CHOOSE i \in DOMAIN s : s[i] = Header /\ \A j \in 1 .. i - 1 : s[j] # Header
             end   == CHOOSE i \in start .. Len(s) + 1 :
                        /\ \A j \in start .. i - 1 : IsTable(s[j])
                        /\ i = Len(s) + 1 \/ ~IsTable(s[i])
         IN  SubSeq(s, 1, start - 1) \o t \o SubSeq(s, end, Len(s))

NoFill == [pc |-> "idle", ver |-> 0, rows |-> {}, text |-> <<>>]

FillActive == fill.pc \in {"import", "open"}

Fill ==
    /\ ~Proposal /\ ~dir.whole /\ ~FillActive
    /\ Started("fills", MaxFills)
    /\ Generating("fill")
    /\ fill' = [NoFill EXCEPT !.pc = "import", !.ver = ver]
    /\ run' = [run EXCEPT !.quiet = FALSE]
    /\ UNCHANGED <<dir, ver, file, log, summary, readme>>

(* The import ends, or raises.  The summary is read, then the README: if   *)
(* there is no summary, or neither marker nor table, that raises.  Then    *)
(* the README is emptied.                                                  *)
FillOpen ==
    /\ fill.pc = "import" /\ gen["fill"].pc \in {"done", "failed"}
    /\ IF /\ gen["fill"].pc = "done" /\ summary.exists
          /\ \E i \in DOMAIN readme : readme[i] \in {Marker, Header}
       THEN /\ fill' = [fill EXCEPT !.pc = "open", !.rows = summary.rows,
                                    !.text = Replaced(readme, table(summary.rows, fill.ver))]
            /\ readme' = <<>>
       ELSE /\ fill' = [NoFill EXCEPT !.pc = "raised"]
            /\ UNCHANGED readme
    /\ UNCHANGED <<dir, ver, file, gen, run, log, summary, count>>

FillWrite ==
    /\ fill.pc = "open"
    /\ readme' = fill.text
    /\ fill' = [fill EXCEPT !.pc = "done", !.text = <<>>]
    /\ UNCHANGED <<dir, ver, file, gen, run, log, summary, count>>

FillInterrupted ==
    /\ FillActive
    /\ Started("crashes", MaxCrashes)
    /\ fill' = [NoFill EXCEPT !.pc = "raised"]
    /\ gen' = [gen EXCEPT !["fill"].pc = IF Active("fill") THEN "failed" ELSE @]
    /\ UNCHANGED <<dir, ver, file, run, log, summary, readme>>

-----------------------------------------------------------------------------
(* The specification *)

Init ==
    /\ \E of \in Dirs, whole \in BOOLEAN :
         /\ whole \/ of \in {"fiber", "proposal", "executor"}
         /\ dir = [of |-> of, whole |-> whole, names |-> NamesOf(of, whole)]
    /\ ver = IF dir.whole THEN 2 ELSE 1
    /\ file = [f \in Files |-> IF f \in ToSet(Writes(1)) THEN 1 ELSE Absent]
    /\ gen = [g \in Gens |-> Idle]
    /\ run = NoRun
    /\ log = [n \in AllNames |-> NoLog]
    /\ summary = [exists |-> FALSE, rows |-> {}]
    /\ fill = NoFill
    /\ \E there \in {<<Marker>>, <<Header, Line("row", Gone, 1, "verdict")>>} :
         /\ there = <<Marker>> \/ (Fiber /\ ~dir.whole)
         /\ readme = <<Text("before")>> \o there \o <<Text("after")>>
    /\ count = [gens |-> 0, fills |-> 0, runs |-> 0, crashes |-> 0]

Next ==
    \/ Generate \/ Interrupted
    \/ \E g \in Gens : Unlink(g) \/ Truncate(g) \/ Write(g)
    \/ Edit
    \/ RunCfg \/ RunMC
    \/ summarize
    \/ Fill \/ FillOpen \/ FillWrite \/ FillInterrupted

Spec == Init /\ [][Next]_vars

-----------------------------------------------------------------------------
(* Properties *)

(* Once a generator has run to its end, the directory is the table:        *)
(* whatever an earlier table, an interrupted generator or one that ran at  *)
(* the same time has left, every entry has its files, and there is no file *)
(* of another (in the mntput() directory those may be left).               *)
DirIsTable ==
    Settled =>
        /\ \A f \in ToSet(Writes(ver)) : file[f] = ver
        /\ ~Proposal => \A f \in Files \ ToSet(Writes(ver)) : file[f] = Absent

(* A verdict is about a configuration and a module of the same table: as   *)
(* long as the table is not edited, also if the files are written again    *)
(* while TLC reads them ("that is idempotent"); after an edit, if TLC runs *)
(* on an entry of the table when the generator is through.                 *)
VerdictOfOneTable ==
    \A n \in AllNames :
        /\ log[n].result = "verdict"
        /\ ver = 1 \/ (log[n].quiet /\ n \in ToSet(Names(ver)))
        => log[n].cfg = log[n].mc /\ log[n].cfg \in {1, 2}

(* What is generated is a model that TLC takes: every constant of the      *)
(* module has a value, the module's assumptions hold, also when the values *)
(* come from two files, and no switch of an entry was dropped on the way.  *)
(* And it is what its name says: as it is, fixed or without one fix; lazy  *)
(* or synchronous, in which order, on which memory, with what mutation; of *)
(* which service type, with which settings.                                *)
ConfigsAreRight ==
    Settled /\ dir.whole =>
        CASE dir.of = "fiber"       -> \A e \in ToSet(F!CONFIGS) : F!Accepted(e) /\ F!NothingDropped(e) /\ F!AsNamed(e)
          [] dir.of = "proposal"    -> \A e \in ToSet(P!CONFIGS) : P!Accepted(e) /\ P!NothingDropped(e) /\ P!AsNamed(e)
          [] dir.of = "executor"    -> \A e \in ToSet(E!CONFIGS) : E!Accepted(e) /\ E!NothingDropped(e) /\ E!AsNamed(e)
          [] dir.of = "nsresourced" -> \A e \in ToSet(R!CONFIGS) : R!Accepted(e) /\ R!NothingDropped(e) /\ R!AsNamed(e)
          [] dir.of = "mountfsd"    -> \A e \in ToSet(V!CONFIGS) : V!Accepted(e) /\ V!NothingDropped(e) /\ V!AsNamed(e)

(* However often the table of results is filled in, the README keeps its   *)
(* text and has one table, with no line of an earlier one; but a fill that *)
(* is interrupted when it writes leaves nothing.                           *)
ReadmeKept ==
    \/ readme = <<>> /\ (fill.pc = "open" \/ count["crashes"] > 0)
    \/ /\ Head(readme) = Text("before") /\ Last(readme) = Text("after")
       /\ Cardinality({i \in DOMAIN readme : readme[i].kind = "text"}) = 2
       /\ Cardinality({i \in DOMAIN readme : readme[i] \in {Marker, Header}}) = 1
       /\ \A i, j \in DOMAIN readme :
            readme[i].kind = "row" /\ readme[j].kind = "row" /\ i # j => readme[i].name # readme[j].name

(* After a fill the table has, in the order of gen-cfgs.py, a row for each *)
(* entry that the summary has a result for, with that result, unless its   *)
(* configuration was empty when the summary was made or, other than in the *)
(* fiber directory, the run had no states; and no others.                  *)
TableIsSummary ==
    fill.pc = "done" =>
        LET with == {r \in fill.rows : r.expect # Empty /\ (Fiber \/ r.result = "verdict")}
            got  == SubSeq(readme, 3, Len(readme) - 1)
        IN  /\ readme[2] = Header
            /\ [i \in DOMAIN got |-> got[i].name] = Within(Names(fill.ver), {r.name : r \in with})
            /\ \A i \in DOMAIN got : \E r \in fill.rows :
                 r.name = got[i].name /\ r.result = got[i].result /\ r.expect = got[i].expect

=============================================================================
