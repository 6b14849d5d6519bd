--------------------------- MODULE GenCfgsProofs ---------------------------
(***************************************************************************)
(* What a generated directory is and what a verdict of TLC is about, for   *)
(* tables of any number of entries and any number of starts, edits and     *)
(* interruptions: two generators at a time and TLC among them.  Then what   *)
(* the README beside the directory shows: its text around one table of the *)
(* verdicts that the filler read, each of its entry.                       *)
(***************************************************************************)
EXTENDS GenCfgs, FiniteSetTheorems, SequenceTheorems, TLAPS

-----------------------------------------------------------------------------
(* The tables *)

IsTableSeq(t) == t \in Seq(ToSet(t))

LEMMA TableConcat ==
  ASSUME NEW s, NEW t, IsTableSeq(s), IsTableSeq(t)
  PROVE  IsTableSeq(s \o t) /\ ToSet(s \o t) = ToSet(s) \cup ToSet(t)
<1> DEFINE S == ToSet(s) \cup ToSet(t)
<1>1. s \in Seq(S) /\ t \in Seq(S)
  BY SeqMonotonic DEF IsTableSeq
<1>2. Range(s \o t) = Range(s) \cup Range(t) /\ s \o t \in Seq(S)
  BY <1>1, RangeConcatenation, ConcatProperties
<1>3. s \o t \in Seq(Range(s \o t))
  BY <1>2, SeqOfRange
<1> QED BY <1>2, <1>3 DEF IsTableSeq, ToSet, Range

(* The layouts of the mntput() model, and the modules that its entries     *)
(* take.                                                                   *)
Layouts == {"hw", "wh", "hh", "ww", "h", "w", "hwa", "full"}

LEMMA LayoutsInOrder ==
  /\ P!LayoutOrder \in Seq(Layouts) /\ Len(P!LayoutOrder) = 8
  /\ ToSet(P!LayoutOrder) = Layouts
  BY DEF P!LayoutOrder, ToSet, Layouts

(* An entry added with a name has it, whatever its options.                *)
LEMMA AddedName == ASSUME NEW n, NEW l, NEW o PROVE P!add(n, l, o).name = n
  BY DEF P!add, P!Update

HaveLayouts(t) == \A e \in ToSet(t) : e.name[1] \in Layouts

LEMMA ProposalTable == IsTableSeq(P!CONFIGS) /\ HaveLayouts(P!CONFIGS)
<1>1. IsTableSeq(P!Series) /\ HaveLayouts(P!Series)
  BY AddedName DEF P!Series, IsTableSeq, HaveLayouts, ToSet, Layouts
<1>2. IsTableSeq(P!Witnesses) /\ HaveLayouts(P!Witnesses)
  BY AddedName DEF P!Witnesses, IsTableSeq, HaveLayouts, ToSet, Layouts
<1>3. IsTableSeq(P!Mutations) /\ HaveLayouts(P!Mutations)
  BY AddedName DEF P!Mutations, IsTableSeq, HaveLayouts, ToSet, Layouts
<1>4. IsTableSeq(P!NsDeath) /\ HaveLayouts(P!NsDeath)
  BY AddedName DEF P!NsDeath, IsTableSeq, HaveLayouts, ToSet, Layouts
<1>5. IsTableSeq(P!Kern) /\ HaveLayouts(P!Kern)
  BY AddedName DEF P!Kern, IsTableSeq, HaveLayouts, ToSet, Layouts
<1>6. IsTableSeq(P!Exploratory) /\ HaveLayouts(P!Exploratory)
  BY AddedName DEF P!Exploratory, IsTableSeq, HaveLayouts, ToSet, Layouts
<1> QED BY <1>1, <1>2, <1>3, <1>4, <1>5, <1>6, TableConcat DEF P!CONFIGS, HaveLayouts

LEMMA AllTables == \A of \in Dirs : IsTableSeq(Table(of))
<1>1. IsTableSeq(F!CONFIGS)
  <2>1. IsTableSeq(F!AsIsConfigs)
    <3> DEFINE t == F!AsIsConfigs
    <3>1. t \in [1 .. 15 -> {t[i] : i \in 1 .. 15}]
      BY SMTT(60) DEF F!AsIsConfigs
    <3> HIDE DEF t
    <3>2. DOMAIN t = 1 .. 15 /\ t \in Seq({t[i] : i \in 1 .. 15})
      BY <3>1, SeqDef
    <3> QED BY <3>2 DEF t, IsTableSeq, ToSet
  <2>2. IsTableSeq(F!FixedConfigs)
    BY DEF F!FixedConfigs, IsTableSeq, ToSet
  <2>3. IsTableSeq(F!Ablations)
    <3> DEFINE t == F!Ablations
    <3>1. t \in [1 .. 10 -> {t[i] : i \in 1 .. 10}]
      BY SMTT(60) DEF F!Ablations
    <3> HIDE DEF t
    <3>2. DOMAIN t = 1 .. 10 /\ t \in Seq({t[i] : i \in 1 .. 10})
      BY <3>1, SeqDef
    <3> QED BY <3>2 DEF t, IsTableSeq, ToSet
  <2> QED BY <2>1, <2>2, <2>3, TableConcat DEF F!CONFIGS
<1>2. IsTableSeq(E!CONFIGS)
  BY DEF E!CONFIGS, IsTableSeq, ToSet
<1>3. IsTableSeq(R!CONFIGS)
  BY DEF R!CONFIGS, IsTableSeq, ToSet
<1>4. IsTableSeq(V!CONFIGS)
  BY DEF V!CONFIGS, IsTableSeq, ToSet
<1> QED BY <1>1, <1>2, <1>3, <1>4, ProposalTable DEF Dirs, Table

-----------------------------------------------------------------------------
(* The names of a directory, and its files *)

(* The names are those of the directory's table.                           *)
DirInv ==
    /\ dir.of \in Dirs /\ dir.whole \in BOOLEAN
    /\ dir.names = NamesOf(dir.of, dir.whole)

LEMMA NewestNames ==
  ASSUME DirInv
  PROVE  /\ Newest \in Seq(AllNames) /\ Newest # <<>>
         /\ Gone \in AllNames
         /\ Proposal => \A n \in AllNames : n[1] \in Layouts
<1> DEFINE t == Table(dir.of)
           k == IF dir.whole THEN Len(t) ELSE Rows
<1>1. t \in Seq(ToSet(t)) /\ Len(t) \in Nat /\ DOMAIN t = 1 .. Len(t)
  BY AllTables, LenProperties DEF DirInv, IsTableSeq
<1>2. k \in Nat \ {0} /\ k <= Len(t)
  BY <1>1, GenCfgsAssumption DEF DirInv
<1>3. Newest = [i \in 1 .. k |-> t[i].name]
  BY DEF DirInv, NamesOf, Newest
<1>4. Gone \in AllNames
  BY DEF AllNames
<1>5. Newest \in [1 .. k -> AllNames] /\ DOMAIN Newest = 1 .. k
  <2> HIDE DEF t, k
  <2> QED BY <1>3 DEF AllNames, ToSet
<1>6. Newest \in Seq(AllNames)
  BY <1>2, <1>5, SeqDef
<1>7. Newest # <<>>
  BY <1>2, <1>5
<1>8. ASSUME Proposal, NEW n \in AllNames
      PROVE  n[1] \in Layouts
  <2>1. t = P!CONFIGS
    BY <1>8 DEF Proposal, Table
  <2>2. \A i \in 1 .. k : Newest[i][1] \in Layouts
    <3>1. \A i \in 1 .. k : t[i] \in ToSet(P!CONFIGS)
      BY <1>1, <1>2, <2>1 DEF ToSet
    <3> QED BY <1>3, <3>1, ProposalTable DEF HaveLayouts
  <2>3. n = Gone \/ \E i \in 1 .. k : n = Newest[i]
    BY <1>5, <1>8 DEF AllNames, ToSet
  <2>4. Gone[1] = Newest[1][1] /\ 1 \in 1 .. k
    BY <1>2 DEF Gone
  <2> QED BY <2>2, <2>3, <2>4
<1> QED BY <1>4, <1>6, <1>7, <1>8

LEMMA NamesSeq ==
  ASSUME DirInv, NEW v
  PROVE  /\ Names(v) \in Seq(AllNames) /\ Names(v) # <<>>
         /\ Len(Names(v)) \in Nat \ {0} /\ DOMAIN Names(v) = 1 .. Len(Names(v))
         /\ ToSet(Names(v)) \subseteq AllNames
<1>1. Names(v) \in Seq(AllNames) /\ Names(v) # <<>>
  <2>1. CASE v = 2
    BY <2>1, NewestNames DEF Names
  <2>2. CASE v # 2
    <3> DEFINE s == SubSeq(Newest, 1, Len(Newest) - 1)
    <3>1. Len(Newest) \in Nat \ {0} /\ \A i \in 1 .. Len(Newest) - 1 : Newest[i] \in AllNames
      BY NewestNames, LenProperties, EmptySeq, ElementOfSeq
    <3>2. s \in Seq(AllNames)
      BY <3>1, SubSeqProperties
    <3>3. <<Gone>> \in Seq(AllNames) /\ Len(<<Gone>>) = 1
      BY NewestNames
    <3>4. s \o <<Gone>> \in Seq(AllNames) /\ Len(s \o <<Gone>>) = Len(s) + 1
      BY <3>2, <3>3, ConcatProperties
    <3>5. s \o <<Gone>> # <<>>
      BY <3>2, <3>4, EmptySeq, LenProperties
    <3> QED BY <2>2, <3>4, <3>5 DEF Names
  <2> QED BY <2>1, <2>2
<1>2. Len(Names(v)) \in Nat \ {0} /\ DOMAIN Names(v) = 1 .. Len(Names(v))
  BY <1>1, EmptySeq, LenProperties
<1>3. ToSet(Names(v)) \subseteq AllNames
  BY <1>1, <1>2, ElementOfSeq DEF ToSet
<1> QED BY <1>1, <1>2, <1>3

(* What is written, of a table of any version: the files of its entries    *)
(* and, but for the layouts' modules, no others.                           *)
WritesInv(v) ==
    /\ Writes(v) \in Seq(Files) /\ Writes(v) # <<>>
    /\ \A n \in ToSet(Names(v)) :
         cfg(n) \in ToSet(Writes(v)) /\ (HasMC => MC(n) \in ToSet(Writes(v)))
    /\ \A n \in AllNames : cfg(n) \in ToSet(Writes(v)) => n \in ToSet(Names(v))
    /\ ~Proposal => \A f \in Files : f \in ToSet(Writes(v)) <=> f[2] \in ToSet(Names(v))

LEMMA NamedFiles ==
  ASSUME DirInv
  PROVE  /\ \A n \in AllNames : cfg(n) \in Files
         /\ HasMC => \A n \in AllNames : MC(n) \in Files
<1>1. ASSUME Proposal, NEW n \in AllNames PROVE MC(n) \in Modules
  BY <1>1, NewestNames, LayoutsInOrder DEF MC, Modules, P!ModuleOf
<1>2. ASSUME Fiber, NEW n \in AllNames PROVE MC(n) \in Modules
  BY <1>2 DEF Modules, Fiber, Proposal
<1> QED BY <1>1, <1>2 DEF Files, HasMC

LEMMA FiberWrites == ASSUME DirInv, NEW v, Fiber PROVE WritesInv(v)
<1> DEFINE ns == Names(v)
           L == Len(ns)
<1>0. /\ L \in Nat \ {0} /\ DOMAIN ns = 1 .. L
      /\ \A i \in 1 .. L : ns[i] \in AllNames
  BY NamesSeq DEF ToSet
<1> HIDE DEF ns, L
<1>1. ~Proposal /\ HasMC
  BY DEF Fiber, Proposal, HasMC
<1>2. Writes(v) = [i \in 1 .. 2 * L |->
                     IF i % 2 = 1 THEN MC(ns[(i + 1) \div 2]) ELSE cfg(ns[i \div 2])]
  BY DEF Writes, ns, L
<1>3. ASSUME NEW i \in 1 .. 2 * L
      PROVE  \/ i % 2 = 1 /\ (i + 1) \div 2 \in 1 .. L
             \/ i % 2 = 0 /\ i \div 2 \in 1 .. L
  BY <1>0
<1>4. ASSUME NEW j \in 1 .. L
      PROVE  /\ 2 * j \in 1 .. 2 * L /\ (2 * j) % 2 = 0 /\ (2 * j) \div 2 = j
             /\ 2 * j - 1 \in 1 .. 2 * L /\ (2 * j - 1) % 2 = 1 /\ (2 * j - 1 + 1) \div 2 = j
  BY <1>0
<1>5. \A i \in 1 .. 2 * L : \E j \in 1 .. L : Writes(v)[i] \in {MC(ns[j]), cfg(ns[j])}
  BY <1>2, <1>3
<1>6. \A j \in 1 .. L : Writes(v)[2 * j - 1] = MC(ns[j]) /\ Writes(v)[2 * j] = cfg(ns[j])
  BY <1>2, <1>4
<1>7. \A j \in 1 .. L : MC(ns[j]) \in Files /\ cfg(ns[j]) \in Files
  BY <1>0, <1>1, NamedFiles
<1>8. Writes(v) \in Seq(Files) /\ DOMAIN Writes(v) = 1 .. 2 * L /\ Writes(v) # <<>>
  <2>1. Writes(v) \in [1 .. 2 * L -> Files] /\ DOMAIN Writes(v) = 1 .. 2 * L
    BY <1>2, <1>5, <1>7
  <2>2. 2 * L \in Nat /\ 1 \in 1 .. 2 * L
    BY <1>0
  <2> QED BY <2>1, <2>2, SeqDef
<1>9. \A f : f \in ToSet(Writes(v)) <=> \E j \in 1 .. L : f \in {MC(ns[j]), cfg(ns[j])}
  <2> HIDE DEF L
  <2>1. \A f : f \in ToSet(Writes(v)) => \E j \in 1 .. L : f \in {MC(ns[j]), cfg(ns[j])}
    BY <1>5, <1>8 DEF ToSet
  <2>2. \A j \in 1 .. L : MC(ns[j]) \in ToSet(Writes(v)) /\ cfg(ns[j]) \in ToSet(Writes(v))
    <3> SUFFICES ASSUME NEW j \in 1 .. L
                 PROVE  MC(ns[j]) \in ToSet(Writes(v)) /\ cfg(ns[j]) \in ToSet(Writes(v))
      OBVIOUS
    <3>1. 2 * j \in DOMAIN Writes(v) /\ 2 * j - 1 \in DOMAIN Writes(v)
      BY <1>4, <1>8
    <3> QED BY <1>6, <3>1 DEF ToSet
  <2> QED BY <2>1, <2>2
<1>10. \A n : n \in ToSet(ns) <=> \E j \in 1 .. L : n = ns[j]
  BY <1>0 DEF ToSet
<1>11. \A n : cfg(n)[2] = n /\ MC(n)[2] = n /\ cfg(n)[1] = "cfg" /\ MC(n)[1] = "MC"
  BY <1>1 DEF cfg, MC
<1>12. \A f \in Files : \E n \in AllNames : f \in {cfg(n), MC(n)}
  BY <1>1 DEF Files, Modules
<1> QED
  <2>1. \A n : n \in ToSet(ns) => cfg(n) \in ToSet(Writes(v)) /\ MC(n) \in ToSet(Writes(v))
    BY <1>9, <1>10
  <2>2. \A f : f \in ToSet(Writes(v)) => f[2] \in ToSet(ns)
    BY <1>9, <1>10, <1>11
  <2>3. \A f \in Files : f[2] \in ToSet(ns) => f \in ToSet(Writes(v))
    BY <1>11, <1>12, <2>1
  <2> QED BY <1>8, <1>11, <2>1, <2>2, <2>3 DEF WritesInv, ns

LEMMA PlainWrites == ASSUME DirInv, NEW v, ~Fiber, ~Proposal PROVE WritesInv(v)
<1> DEFINE ns == Names(v)
           L == Len(ns)
<1>0. /\ L \in Nat \ {0} /\ DOMAIN ns = 1 .. L
      /\ \A i \in 1 .. L : ns[i] \in AllNames
  BY NamesSeq DEF ToSet
<1>1. Writes(v) = [i \in 1 .. L |-> cfg(ns[i])]
  BY <1>0 DEF Writes
<1> HIDE DEF ns, L
<1>2. Writes(v) \in [1 .. L -> Files] /\ DOMAIN Writes(v) = 1 .. L
  BY <1>0, <1>1, NamedFiles
<1>3. Writes(v) \in Seq(Files) /\ Writes(v) # <<>>
  <2>1. 1 \in 1 .. L
    BY <1>0
  <2> QED BY <1>0, <1>2, <2>1, SeqDef
<1>4. \A f : f \in ToSet(Writes(v)) <=> \E n \in ToSet(ns) : f = cfg(n)
  BY <1>0, <1>1, <1>2 DEF ToSet
<1>5. \A n : cfg(n)[2] = n
  BY DEF cfg
<1>6. \A f \in Files : \E n \in AllNames : f = cfg(n)
  BY DEF Files, Modules
<1> QED BY <1>3, <1>4, <1>5, <1>6 DEF WritesInv, HasMC, ns

LEMMA ProposalWrites == ASSUME DirInv, NEW v, Proposal PROVE WritesInv(v)
<1> DEFINE ns == Names(v)
           L == Len(ns)
           ms == [i \in DOMAIN P!LayoutOrder |-> Layout(P!LayoutOrder[i])]
           cs == [i \in DOMAIN ns |-> cfg(ns[i])]
<1>0. /\ L \in Nat \ {0} /\ DOMAIN ns = 1 .. L
      /\ \A i \in 1 .. L : ns[i] \in AllNames
  BY NamesSeq DEF ToSet
<1>1. Writes(v) = ms \o cs
  BY DEF Writes, Fiber, Proposal
<1>2. DOMAIN P!LayoutOrder = 1 .. 8
  BY LayoutsInOrder, LenProperties
<1>3. ms \in [1 .. 8 -> Files] /\ ms \in Seq(Files) /\ DOMAIN ms = 1 .. 8
  <2>1. \A i \in 1 .. 8 : Layout(P!LayoutOrder[i]) \in Files
    BY <1>2 DEF Files, Modules, ToSet
  <2>2. ms \in [1 .. 8 -> Files] /\ DOMAIN ms = 1 .. 8
    BY <1>2, <2>1
  <2> HIDE DEF ms
  <2> QED BY <2>2, SeqDef
<1>4. cs \in [1 .. L -> Files] /\ cs \in Seq(Files) /\ DOMAIN cs = 1 .. L
  <2>1. cs \in [1 .. L -> Files] /\ DOMAIN cs = 1 .. L
    BY <1>0, NamedFiles
  <2> HIDE DEF cs
  <2> QED BY <1>0, <2>1, SeqDef
<1>5. /\ Writes(v) \in Seq(Files)
      /\ Len(Writes(v)) = Len(ms) + Len(cs)
      /\ Range(Writes(v)) = Range(ms) \cup Range(cs)
  <2> HIDE DEF ms, cs
  <2>1. ms \in Seq(Files) /\ cs \in Seq(Files)
    BY <1>3, <1>4
  <2>2. /\ ms \o cs \in Seq(Files) /\ Len(ms \o cs) = Len(ms) + Len(cs)
        /\ Range(ms \o cs) = Range(ms) \cup Range(cs)
    BY <2>1, ConcatProperties, RangeConcatenation
  <2> QED BY <1>1, <2>2
<1>6. Writes(v) # <<>>
  <2>1. Len(ms) = 8 /\ Len(cs) = L
    BY <1>0, <1>3, <1>4, LenProperties
  <2> QED BY <1>0, <1>5, <2>1, EmptySeq
<1>7. \A n : n \in ToSet(ns) => cfg(n) \in Range(cs)
  BY <1>0 DEF ToSet, Range
<1>8. \A n : cfg(n) \in Range(cs) => n \in ToSet(ns)
  BY <1>0 DEF ToSet, Range, cfg
<1>9. \A n : cfg(n) \notin Range(ms)
  BY <1>2 DEF Range, cfg, Layout
<1>10. \A n \in AllNames : MC(n) \in Range(ms)
  <2>1. \A l \in Layouts : Layout(l) \in Range(ms)
    BY <1>2, LayoutsInOrder DEF Range, ToSet
  <2> QED BY <2>1, NewestNames DEF MC, P!ModuleOf
<1>11. ToSet(Writes(v)) = Range(Writes(v)) /\ ToSet(ns) \subseteq AllNames
  BY NamesSeq DEF ToSet, Range
<1> HIDE DEF ns, ms, cs, L
<1> QED
  <2>1. \A n \in ToSet(ns) : cfg(n) \in ToSet(Writes(v)) /\ MC(n) \in ToSet(Writes(v))
    BY <1>5, <1>7, <1>10, <1>11
  <2>2. \A n : cfg(n) \in ToSet(Writes(v)) => n \in ToSet(ns)
    BY <1>5, <1>8, <1>9, <1>11
  <2> QED BY <1>5, <1>6, <2>1, <2>2 DEF WritesInv, ns

LEMMA WritesAll == ASSUME DirInv PROVE \A v : WritesInv(v)
  BY FiberWrites, PlainWrites, ProposalWrites

-----------------------------------------------------------------------------
(* The invariants *)

GenType == [pc : {"idle", "work", "open", "done", "failed"}, ver : {0, 1, 2},
            stale : SUBSET Files, todo : Seq(Files)]

(* A generator writes what its version of the table says, at a version     *)
(* that there has been, and once it opens a file it has nothing to remove. *)
GenOk(r, v) ==
    /\ r.ver = 2 => v = 2
    /\ r.pc = "idle" => r = Idle
    /\ r.pc \in {"open", "done"} => r.stale = {}
    /\ r.pc \in {"work", "open"} =>
         /\ r.ver \in {1, 2} /\ r.todo # <<>>
         /\ ToSet(r.todo) \subseteq ToSet(Writes(r.ver))

GenInv ==
    /\ ver \in {1, 2}
    /\ gen \in [Gens -> GenType]
    /\ \A g \in Gens : GenOk(gen[g], ver)

(* A file is absent, empty or of a version that there has been.  Before    *)
(* the table is edited there is no file of another, and none to remove.    *)
FileInv ==
    /\ file \in [Files -> {Absent, Empty, 1, 2}]
    /\ ver = 1 =>
         /\ \A f \in Files : file[f] # 2 /\ (f \notin ToSet(Writes(1)) => file[f] = Absent)
         /\ \A g \in Gens : gen[g].stale = {}

(* No generator removes a file of the table; one that is open is there.    *)
StaleInv ==
    \A g \in Gens :
        /\ gen[g].stale \cap ToSet(Writes(ver)) = {}
        /\ gen[g].pc = "open" /\ gen[g].ver = ver => file[Head(gen[g].todo)] # Absent

(* Generators of the table are under way or through, and no other.         *)
Fresh ==
    /\ \A g \in Gens :
         gen[g].pc = "idle" \/ (gen[g].pc \in {"work", "open", "done"} /\ gen[g].ver = ver)
    /\ \E g \in Gens : gen[g].pc # "idle"

(* Then whatever is not yet as the table says, one of them will still      *)
(* write or remove.                                                        *)
ProgressInv ==
    Fresh =>
        /\ \A f \in ToSet(Writes(ver)) :
             file[f] = ver \/ \E g \in Gens : Active(g) /\ f \in ToSet(gen[g].todo)
        /\ ~Proposal => \A f \in Files \ ToSet(Writes(ver)) :
                          file[f] = Absent \/ \E g \in Gens : f \in gen[g].stale

(* While TLC runs quietly no generator does, and the configuration that it *)
(* has read is of the version that the module is of.                       *)
RunInv ==
    /\ run \in [name : AllNames \cup {<<>>}, cfg : {Empty, 0, 1, 2}, quiet : BOOLEAN]
    /\ run # NoRun =>
        /\ run.name \in AllNames /\ run.cfg # 0
        /\ ver = 1 => run.cfg # 2
        /\ run.quiet =>
             /\ \A g \in Gens : ~Active(g)
             /\ ver = 1 \/ run.name \in ToSet(Names(ver)) =>
                  run.cfg > 0 /\ (HasMC => file[MC(run.name)] = run.cfg)

LogInv ==
    /\ log \in [AllNames -> [result : {"none", "running", "verdict", "ERROR"}, cfg : {0, 1, 2},
                             mc : {0, 1, 2}, quiet : BOOLEAN]]
    /\ VerdictOfOneTable

GenCfgsInv == DirInv /\ GenInv /\ FileInv /\ StaleInv /\ ProgressInv /\ RunInv /\ LogInv

-----------------------------------------------------------------------------
(* What a step leaves alone *)

(* The directory stays what it is, and with it its names and files.        *)
LEMMA SameDir ==
  ASSUME dir' = dir
  PROVE  /\ Files' = Files /\ AllNames' = AllNames
         /\ Proposal' = Proposal /\ HasMC' = HasMC
         /\ \A n : MC(n)' = MC(n)
         /\ \A v : Names(v)' = Names(v) /\ Writes(v)' = Writes(v)
         /\ GenType' = GenType /\ \A r, v : GenOk(r, v)' = GenOk(r, v)
<1>1. Proposal' = Proposal /\ Fiber' = Fiber /\ Newest' = Newest
  BY DEF Proposal, Fiber, Newest
<1>2. Gone' = Gone
  BY <1>1 DEF Gone
<1>3. AllNames' = AllNames /\ \A v : Names(v)' = Names(v)
  BY <1>1, <1>2 DEF AllNames, Names
<1>4. HasMC' = HasMC /\ \A n : MC(n)' = MC(n)
  BY <1>1 DEF HasMC, MC
<1>5. Files' = Files
  BY <1>1, <1>3, <1>4 DEF Files, Modules
<1>6. \A v : Writes(v)' = Writes(v)
  BY <1>1, <1>3, <1>4 DEF Writes
<1>7. GenType' = GenType
  BY <1>5 DEF GenType
<1>8. \A r, v : GenOk(r, v)' = GenOk(r, v)
  BY <1>6 DEF GenOk
<1> QED BY <1>1, <1>3, <1>4, <1>5, <1>6, <1>7, <1>8

(* What is removed at a start: nothing of the table, and of a directory    *)
(* that keeps no modules whatever is not of the table.                     *)
LEMMA StaleFiles ==
  ASSUME GenCfgsInv
  PROVE  /\ Stale(ver) \subseteq Files
         /\ Stale(ver) \cap ToSet(Writes(ver)) = {}
         /\ ver = 1 => Stale(ver) = {}
         /\ ~Proposal => \A f \in Files \ ToSet(Writes(ver)) : file[f] = Absent \/ f \in Stale(ver)
<1>1. WritesInv(ver)
  BY WritesAll DEF GenCfgsInv
<1>2. ver = 1 => \A f \in Files : f \notin ToSet(Writes(ver)) => file[f] = Absent
  BY DEF GenCfgsInv, FileInv
<1>3. CASE Proposal
  BY <1>3 DEF Stale
<1>4. CASE ~Proposal
  <2>1. \A f : f \in Stale(ver) <=> f \in Files /\ file[f] # Absent /\ f[2] \notin ToSet(Names(ver))
    BY <1>4 DEF Stale
  <2>2. \A f \in Files : f \in ToSet(Writes(ver)) <=> f[2] \in ToSet(Names(ver))
    BY <1>1, <1>4 DEF WritesInv
  <2> QED BY <1>2, <2>1, <2>2
<1> QED BY <1>3, <1>4

(* The first file to be written and those after it.                        *)
LEMMA HeadTodo ==
  ASSUME NEW S, NEW s \in Seq(S), s # <<>>
  PROVE  /\ Head(s) \in ToSet(s) /\ Head(s) \in S
         /\ Tail(s) \in Seq(S) /\ ToSet(Tail(s)) \subseteq ToSet(s)
         /\ \A f \in ToSet(s) : f = Head(s) \/ f \in ToSet(Tail(s))
         /\ (Len(s) = 1) <=> (Tail(s) = <<>>)
<1>1. /\ Len(s) \in Nat \ {0} /\ DOMAIN s = 1 .. Len(s)
      /\ Head(s) = s[1]
      /\ Tail(s) \in Seq(S) /\ Len(Tail(s)) = Len(s) - 1
      /\ \A i \in 1 .. Len(s) - 1 : Tail(s)[i] = s[i + 1]
  BY EmptySeq, LenProperties, HeadTailProperties
<1>2. DOMAIN Tail(s) = 1 .. Len(s) - 1
  BY <1>1, LenProperties
<1>3. Head(s) \in ToSet(s) /\ Head(s) \in S
  BY <1>1, ElementOfSeq DEF ToSet
<1>4. ToSet(Tail(s)) \subseteq ToSet(s)
  BY <1>1, <1>2 DEF ToSet
<1>5. ASSUME NEW i \in 1 .. Len(s)
      PROVE  s[i] = Head(s) \/ s[i] \in ToSet(Tail(s))
  <2>1. CASE i = 1
    BY <1>1, <2>1
  <2>2. CASE i # 1
    <3>1. i - 1 \in 1 .. Len(s) - 1 /\ Tail(s)[i - 1] = s[i]
      BY <1>1, <2>2
    <3> QED BY <1>2, <3>1 DEF ToSet
  <2> QED BY <2>1, <2>2
<1>6. (Len(s) = 1) <=> (Tail(s) = <<>>)
  <2>1. Tail(s) = <<>> <=> Len(Tail(s)) = 0
    BY <1>1, EmptySeq
  <2> QED BY <1>1, <2>1
<1> QED BY <1>1, <1>3, <1>4, <1>5, <1>6 DEF ToSet

(* The file that a generator at work is about to write.                    *)
LEMMA NextFile ==
  ASSUME GenInv, NEW g \in Gens, Active(g)
  PROVE  /\ gen[g].todo \in Seq(Files) /\ gen[g].todo # <<>>
         /\ Head(gen[g].todo) \in Files
         /\ Head(gen[g].todo) \in ToSet(gen[g].todo)
         /\ Head(gen[g].todo) \in ToSet(Writes(gen[g].ver))
<1>1. gen[g].todo \in Seq(Files)
  BY DEF GenInv, GenType
<1>2. gen[g].todo # <<>> /\ ToSet(gen[g].todo) \subseteq ToSet(Writes(gen[g].ver))
  BY DEF GenInv, GenOk, Active
<1> QED BY <1>1, <1>2, HeadTodo

-----------------------------------------------------------------------------
(* Every step keeps the invariants *)

LEMMA CoreKept ==
  ASSUME GenCfgsInv, UNCHANGED <<dir, ver, file, gen, run, log>>
  PROVE  GenCfgsInv'
<1> USE SameDir DEF GenCfgsInv
<1>1. DirInv'
  BY DEF DirInv, NamesOf, Table
<1>2. GenInv'
  BY DEF GenInv
<1>3. FileInv'
  BY DEF FileInv
<1>4. StaleInv'
  BY DEF StaleInv
<1>5. ProgressInv'
  BY DEF ProgressInv, Fresh, Active
<1>6. RunInv'
  BY DEF RunInv, Active
<1>7. LogInv'
  BY DEF LogInv, VerdictOfOneTable
<1> QED BY <1>1, <1>2, <1>3, <1>4, <1>5, <1>6, <1>7

LEMMA StartKept ==
  ASSUME GenCfgsInv, NEW g \in Gens, Generating(g),
         run' = [run EXCEPT !.quiet = FALSE], UNCHANGED <<dir, ver, file, log>>
  PROVE  GenCfgsInv'
<1> USE SameDir DEF GenCfgsInv
<1>1. DirInv'
  BY DEF DirInv, NamesOf, Table
<1>2. /\ gen' \in [Gens -> GenType]
      /\ gen'[g] = [pc |-> "work", ver |-> ver, stale |-> Stale(ver), todo |-> Writes(ver)]
      /\ \A h \in Gens \ {g} : gen'[h] = Idle \/ (gen'[h] = gen[h] /\ gen[h].pc \notin {"done", "failed"})
  <2>1. Stale(ver) \subseteq Files /\ Writes(ver) \in Seq(Files) /\ ver \in {1, 2}
    BY StaleFiles, WritesAll DEF WritesInv, GenInv
  <2>2. Idle \in GenType
    BY EmptySeq DEF Idle, GenType
  <2> QED BY <2>1, <2>2 DEF Generating, GenInv, GenType
<1>3. GenInv'
  <2>1. Writes(ver) # <<>> /\ ver \in {1, 2}
    BY WritesAll DEF WritesInv, GenInv
  <2> SUFFICES ASSUME NEW h \in Gens
               PROVE  GenOk(gen'[h], ver)
    BY <1>2, <2>1 DEF GenInv
  <2>2. CASE h = g
    BY <1>2, <2>1, <2>2 DEF GenOk
  <2>3. CASE gen'[h] = Idle
    BY <2>3 DEF Idle, GenOk
  <2>4. CASE gen'[h] = gen[h]
    BY <2>4 DEF GenInv
  <2> QED BY <1>2, <2>2, <2>3, <2>4
<1>4. FileInv'
  <2>1. ver = 1 => \A h \in Gens : gen'[h].stale = {}
    <3>1. Idle.stale = {}
      BY DEF Idle
    <3>2. ver = 1 => Stale(ver) = {} /\ \A h \in Gens : gen[h].stale = {}
      BY StaleFiles DEF FileInv
    <3> QED BY <1>2, <3>1, <3>2
  <2> QED BY <2>1 DEF FileInv
<1>5. StaleInv'
  BY <1>2, StaleFiles DEF StaleInv, Idle
<1>6. ProgressInv'
  BY <1>2, StaleFiles DEF ProgressInv, Active
<1>7. RunInv'
  <2>1. /\ run' \in [name : AllNames \cup {<<>>}, cfg : {Empty, 0, 1, 2}, quiet : BOOLEAN]
        /\ run'.quiet = FALSE /\ run'.name = run.name /\ run'.cfg = run.cfg
    <3>1. run \in [name : AllNames \cup {<<>>}, cfg : {Empty, 0, 1, 2}, quiet : BOOLEAN]
      BY DEF RunInv
    <3> QED BY <3>1
  <2>2. ASSUME run = NoRun PROVE run' = NoRun
    <3>1. run'.name = <<>> /\ run'.cfg = 0 /\ run'.quiet = FALSE
      BY <2>1, <2>2 DEF NoRun
    <3> QED BY <2>1, <3>1 DEF NoRun
  <2> QED BY <2>1, <2>2 DEF RunInv
<1>8. LogInv'
  BY DEF LogInv, VerdictOfOneTable
<1> QED BY <1>1, <1>3, <1>4, <1>5, <1>6, <1>7, <1>8

LEMMA StopKept ==
  ASSUME GenCfgsInv, NEW g \in Gens,
         gen' = [gen EXCEPT ![g].pc = IF Active(g) THEN "failed" ELSE @],
         UNCHANGED <<dir, ver, file, run, log>>
  PROVE  GenCfgsInv'
<1> USE SameDir DEF GenCfgsInv
<1>1. CASE ~Active(g)
  <2>1. gen' = gen
    BY <1>1 DEF GenInv, GenType
  <2> QED BY <2>1, CoreKept
<1>2. CASE Active(g)
  <2>1. /\ gen' \in [Gens -> GenType]
        /\ gen'[g].pc = "failed" /\ gen'[g].ver = gen[g].ver /\ gen'[g].stale = gen[g].stale
        /\ \A h \in Gens \ {g} : gen'[h] = gen[h]
    BY <1>2 DEF GenInv, GenType
  <2>2. DirInv'
    BY DEF DirInv, NamesOf, Table
  <2>3. GenInv'
    <3> SUFFICES ASSUME NEW h \in Gens
                 PROVE  GenOk(gen'[h], ver)
      BY <2>1 DEF GenInv
    <3> QED BY <2>1 DEF GenInv, GenOk
  <2>4. FileInv'
    BY <2>1 DEF FileInv
  <2>5. StaleInv'
    BY <2>1 DEF StaleInv
  <2>6. ProgressInv'
    BY <2>1 DEF ProgressInv, Fresh
  <2>7. RunInv'
    BY <1>2 DEF RunInv
  <2>8. LogInv'
    BY DEF LogInv, VerdictOfOneTable
  <2> QED BY <2>2, <2>3, <2>4, <2>5, <2>6, <2>7, <2>8
<1> QED BY <1>1, <1>2

(* While a generator works TLC does not run quietly.                       *)
LEMMA WorkKeptRest ==
  ASSUME GenCfgsInv, NEW g \in Gens, Active(g), UNCHANGED <<dir, ver, run, log>>
  PROVE  DirInv' /\ RunInv' /\ LogInv'
<1> USE SameDir DEF GenCfgsInv
<1>1. DirInv'
  BY DEF DirInv, NamesOf, Table
<1>2. RunInv'
  BY DEF RunInv
<1>3. LogInv'
  BY DEF LogInv, VerdictOfOneTable
<1> QED BY <1>1, <1>2, <1>3

LEMMA UnlinkKept ==
  ASSUME GenCfgsInv, NEW g \in Gens, Unlink(g)
  PROVE  GenCfgsInv'
<1> USE SameDir DEF GenCfgsInv
<1>1. PICK f \in gen[g].stale :
        /\ gen' = [gen EXCEPT ![g].stale = @ \ {f},
                              ![g].pc = IF file[f] = Absent THEN "failed" ELSE @]
        /\ file' = [file EXCEPT ![f] = Absent]
  BY DEF Unlink
<1>2. gen[g].pc = "work" /\ UNCHANGED <<dir, ver, run, log>>
  BY DEF Unlink, outside
<1>3. f \in Files /\ f \notin ToSet(Writes(ver)) /\ ver = 2
  BY DEF GenInv, GenType, GenOk, StaleInv, FileInv
<1>4. /\ gen' \in [Gens -> GenType]
      /\ gen'[g].pc \in {"work", "failed"} /\ gen'[g].ver = gen[g].ver
      /\ gen'[g].stale = gen[g].stale \ {f} /\ gen'[g].todo = gen[g].todo
      /\ \A h \in Gens \ {g} : gen'[h] = gen[h]
  BY <1>1, <1>2 DEF GenInv, GenType
<1>5. /\ file' \in [Files -> {Absent, Empty, 1, 2}] /\ file'[f] = Absent
      /\ \A e \in Files \ {f} : file'[e] = file[e]
  BY <1>1, <1>3 DEF FileInv
<1>6. GenInv'
  <2> SUFFICES ASSUME NEW h \in Gens
               PROVE  GenOk(gen'[h], ver)
    BY <1>2, <1>3, <1>4 DEF GenInv
  <2>1. CASE h = g
    BY <1>2, <1>4, <2>1 DEF GenInv, GenOk
  <2>2. CASE h # g
    BY <1>2, <1>4, <2>2 DEF GenInv
  <2> QED BY <2>1, <2>2
<1>7. FileInv'
  BY <1>2, <1>3, <1>5 DEF FileInv
<1>8. StaleInv'
  <2> SUFFICES ASSUME NEW h \in Gens
               PROVE  /\ gen'[h].stale \cap ToSet(Writes(ver)) = {}
                      /\ gen'[h].pc = "open" /\ gen'[h].ver = ver => file'[Head(gen'[h].todo)] # Absent
    BY <1>2 DEF StaleInv
  <2>1. CASE h = g
    BY <1>4, <2>1 DEF StaleInv
  <2>2. CASE h # g
    <3>1. gen[h].pc = "open" /\ gen[h].ver = ver =>
            Head(gen[h].todo) \in ToSet(Writes(ver)) /\ Head(gen[h].todo) \in Files
      BY NextFile DEF Active
    <3> QED BY <1>3, <1>4, <1>5, <2>2, <3>1 DEF StaleInv
  <2> QED BY <2>1, <2>2
<1>9. ProgressInv'
  <2> SUFFICES ASSUME Fresh'
               PROVE  /\ \A e \in ToSet(Writes(ver)) :
                           file'[e] = ver \/ \E h \in Gens : Active(h)' /\ e \in ToSet(gen'[h].todo)
                      /\ ~Proposal => \A e \in Files \ ToSet(Writes(ver)) :
                           file'[e] = Absent \/ \E h \in Gens : e \in gen'[h].stale
    BY <1>2 DEF ProgressInv
  <2>1. gen'[g].pc = "work"
    BY <1>4 DEF Fresh
  <2>2. Fresh
    BY <1>2, <1>4, <2>1 DEF Fresh
  <2>3. \A h \in Gens : Active(h) => Active(h)' /\ gen'[h].todo = gen[h].todo
    BY <1>2, <1>4, <2>1 DEF Active
  <2>4. \A h \in Gens : gen[h].stale \ {f} \subseteq gen'[h].stale
    BY <1>4
  <2>5. ToSet(Writes(ver)) \subseteq Files
    BY WritesAll, ElementOfSeq, LenProperties DEF WritesInv, ToSet
  <2> QED BY <1>3, <1>5, <2>2, <2>3, <2>4, <2>5 DEF ProgressInv
<1> QED BY <1>2, <1>6, <1>7, <1>8, <1>9, WorkKeptRest DEF Active

LEMMA TruncateKept ==
  ASSUME GenCfgsInv, NEW g \in Gens, Truncate(g)
  PROVE  GenCfgsInv'
<1> USE SameDir DEF GenCfgsInv
<1> DEFINE f == Head(gen[g].todo)
<1>1. /\ gen[g].pc = "work" /\ gen[g].stale = {}
      /\ file' = [file EXCEPT ![f] = Empty]
      /\ gen' = [gen EXCEPT ![g].pc = "open"]
      /\ UNCHANGED <<dir, ver, run, log>>
  BY DEF Truncate, outside
<1>2. /\ f \in Files /\ f \in ToSet(gen[g].todo) /\ f \in ToSet(Writes(gen[g].ver))
      /\ ver = 1 => f \in ToSet(Writes(1))
  BY <1>1, NextFile DEF GenInv, GenOk, Active
<1> HIDE DEF f
<1>3. /\ gen' \in [Gens -> GenType]
      /\ gen'[g].pc = "open" /\ gen'[g].ver = gen[g].ver
      /\ gen'[g].stale = gen[g].stale /\ gen'[g].todo = gen[g].todo
      /\ \A h \in Gens \ {g} : gen'[h] = gen[h]
  BY <1>1 DEF GenInv, GenType
<1>4. /\ file' \in [Files -> {Absent, Empty, 1, 2}] /\ file'[f] = Empty
      /\ \A e \in Files \ {f} : file'[e] = file[e]
      /\ Empty # Absent /\ Empty # 2
  BY <1>1, <1>2 DEF FileInv, Empty, Absent
<1>5. GenInv'
  <2> SUFFICES ASSUME NEW h \in Gens
               PROVE  GenOk(gen'[h], ver)
    BY <1>1, <1>3 DEF GenInv
  <2>1. CASE h = g
    BY <1>1, <1>3, <2>1 DEF GenInv, GenOk
  <2>2. CASE h # g
    BY <1>3, <2>2 DEF GenInv
  <2> QED BY <2>1, <2>2
<1>6. FileInv'
  BY <1>1, <1>2, <1>3, <1>4 DEF FileInv
<1>7. StaleInv'
  <2> SUFFICES ASSUME NEW h \in Gens
               PROVE  /\ gen'[h].stale \cap ToSet(Writes(ver)) = {}
                      /\ gen'[h].pc = "open" /\ gen'[h].ver = ver => file'[Head(gen'[h].todo)] # Absent
    BY <1>1 DEF StaleInv
  <2>1. CASE h = g
    BY <1>3, <1>4, <2>1 DEF StaleInv, f
  <2>2. CASE h # g
    <3>1. gen[h].pc = "open" => Head(gen[h].todo) \in Files
      BY NextFile DEF Active
    <3> QED BY <1>3, <1>4, <2>2, <3>1 DEF StaleInv
  <2> QED BY <2>1, <2>2
<1>8. ProgressInv'
  <2> SUFFICES ASSUME Fresh'
               PROVE  /\ \A e \in ToSet(Writes(ver)) :
                           file'[e] = ver \/ \E h \in Gens : Active(h)' /\ e \in ToSet(gen'[h].todo)
                      /\ ~Proposal => \A e \in Files \ ToSet(Writes(ver)) :
                           file'[e] = Absent \/ \E h \in Gens : e \in gen'[h].stale
    BY <1>1 DEF ProgressInv
  <2>1. Fresh /\ gen[g].ver = ver
    BY <1>1, <1>3 DEF Fresh
  <2>2. \A h \in Gens : Active(h) => Active(h)' /\ gen'[h].todo = gen[h].todo
    BY <1>3 DEF Active
  <2>3. \A h \in Gens : gen[h].stale = gen'[h].stale
    BY <1>3
  <2>4. ToSet(Writes(ver)) \subseteq Files
    BY WritesAll, ElementOfSeq, LenProperties DEF WritesInv, ToSet
  <2>5. Active(g)' /\ f \in ToSet(gen'[g].todo) /\ f \in ToSet(Writes(ver))
    BY <1>2, <1>3, <2>1 DEF Active
  <2> QED BY <1>4, <2>1, <2>2, <2>3, <2>4, <2>5 DEF ProgressInv
<1> QED BY <1>1, <1>5, <1>6, <1>7, <1>8, WorkKeptRest DEF Active

LEMMA WriteKept ==
  ASSUME GenCfgsInv, NEW g \in Gens, Write(g)
  PROVE  GenCfgsInv'
<1> USE SameDir DEF GenCfgsInv
<1> DEFINE f == Head(gen[g].todo)
           rest == Tail(gen[g].todo)
<1>1. /\ gen[g].pc = "open" /\ gen[g].stale = {}
      /\ file' = [file EXCEPT ![f] = IF @ = Absent THEN Absent ELSE gen[g].ver]
      /\ gen' = [gen EXCEPT ![g].pc = IF Len(gen[g].todo) = 1 THEN "done" ELSE "work", ![g].todo = Tail(@)]
      /\ UNCHANGED <<dir, ver, run, log>>
  BY DEF Write, outside, GenInv, GenType, GenOk
<1> HIDE DEF f
<1>0. UNCHANGED <<dir, ver, run, log>>
  BY <1>1
<1>2. /\ f \in Files /\ f \in ToSet(Writes(gen[g].ver))
      /\ ver = 1 => gen[g].ver = 1 /\ f \in ToSet(Writes(1))
      /\ gen[g].ver \in {1, 2}
      /\ rest \in Seq(Files) /\ ToSet(rest) \subseteq ToSet(Writes(gen[g].ver))
      /\ \A e \in ToSet(gen[g].todo) : e = f \/ e \in ToSet(rest)
      /\ Len(gen[g].todo) = 1 <=> rest = <<>>
  BY <1>1, HeadTodo DEF GenInv, GenType, GenOk, Active, f
<1>3. /\ gen' \in [Gens -> GenType]
      /\ gen'[g].pc = IF rest = <<>> THEN "done" ELSE "work"
      /\ gen'[g].ver = gen[g].ver /\ gen'[g].stale = gen[g].stale /\ gen'[g].todo = rest
      /\ \A h \in Gens \ {g} : gen'[h] = gen[h]
  BY <1>1, <1>2 DEF GenInv, GenType
<1> HIDE DEF rest
<1>4. /\ file' \in [Files -> {Absent, Empty, 1, 2}]
      /\ file'[f] = IF file[f] = Absent THEN Absent ELSE gen[g].ver
      /\ \A e \in Files \ {f} : file'[e] = file[e]
  BY <1>1, <1>2 DEF FileInv
<1>5. GenInv'
  <2> SUFFICES ASSUME NEW h \in Gens
               PROVE  GenOk(gen'[h], ver)
    BY <1>1, <1>3 DEF GenInv
  <2>1. CASE h = g
    BY <1>1, <1>2, <1>3, <2>1 DEF GenInv, GenType, GenOk
  <2>2. CASE h # g
    BY <1>3, <2>2 DEF GenInv
  <2> QED BY <2>1, <2>2
<1>6. FileInv'
  BY <1>1, <1>2, <1>3, <1>4 DEF FileInv
<1>7. StaleInv'
  <2> SUFFICES ASSUME NEW h \in Gens
               PROVE  /\ gen'[h].stale \cap ToSet(Writes(ver)) = {}
                      /\ gen'[h].pc = "open" /\ gen'[h].ver = ver => file'[Head(gen'[h].todo)] # Absent
    BY <1>1 DEF StaleInv
  <2>1. CASE h = g
    BY <1>3, <2>1 DEF StaleInv
  <2>2. CASE h # g
    <3>1. gen[h].pc = "open" => Head(gen[h].todo) \in Files
      BY NextFile DEF Active
    <3>2. \A e \in Files : file[e] # Absent => file'[e] # Absent
      BY <1>2, <1>4 DEF Absent
    <3> QED BY <1>3, <2>2, <3>1, <3>2 DEF StaleInv
  <2> QED BY <2>1, <2>2
<1>8. ProgressInv'
  <2> SUFFICES ASSUME Fresh'
               PROVE  /\ \A e \in ToSet(Writes(ver)) :
                           file'[e] = ver \/ \E h \in Gens : Active(h)' /\ e \in ToSet(gen'[h].todo)
                      /\ ~Proposal => \A e \in Files \ ToSet(Writes(ver)) :
                           file'[e] = Absent \/ \E h \in Gens : e \in gen'[h].stale
    BY <1>0 DEF ProgressInv
  <2>1. Fresh /\ gen[g].ver = ver
    BY <1>1, <1>3 DEF Fresh
  <2>2. file'[f] = ver /\ f \in ToSet(Writes(ver))
    BY <1>1, <1>2, <1>4, <2>1 DEF StaleInv, f
  <2>3. \A h \in Gens \ {g} : Active(h) => Active(h)' /\ gen'[h].todo = gen[h].todo
    BY <1>3 DEF Active
  <2>4. \A h \in Gens : gen[h].stale = gen'[h].stale
    BY <1>3
  <2>5. ToSet(Writes(ver)) \subseteq Files
    BY WritesAll, ElementOfSeq, LenProperties DEF WritesInv, ToSet
  <2>6. \A e \in ToSet(rest) : Active(g)' /\ e \in ToSet(gen'[g].todo)
    BY <1>3 DEF Active, ToSet
  <2>7. ASSUME NEW e \in ToSet(Writes(ver)), e # f
        PROVE  file'[e] = ver \/ \E h \in Gens : Active(h)' /\ e \in ToSet(gen'[h].todo)
    <3>1. file[e] = ver \/ \E h \in Gens : Active(h) /\ e \in ToSet(gen[h].todo)
      BY <2>1, <2>7 DEF ProgressInv
    <3>2. file'[e] = file[e]
      BY <1>4, <2>5, <2>7
    <3>3. e \in ToSet(gen[g].todo) => e \in ToSet(rest)
      BY <1>2, <2>7
    <3> QED BY <2>3, <2>6, <3>1, <3>2, <3>3
  <2>8. ASSUME ~Proposal, NEW e \in Files \ ToSet(Writes(ver))
        PROVE  file'[e] = Absent \/ \E h \in Gens : e \in gen'[h].stale
    BY <1>4, <2>1, <2>2, <2>4, <2>8 DEF ProgressInv
  <2> QED BY <2>2, <2>7, <2>8
<1> QED BY <1>1, <1>5, <1>6, <1>7, <1>8, WorkKeptRest DEF Active

LEMMA EditKept ==
  ASSUME GenCfgsInv, Edit
  PROVE  GenCfgsInv'
<1> USE SameDir DEF GenCfgsInv
<1>1. /\ ver = 1 /\ ver' = 2 /\ UNCHANGED <<dir, file, run, log>>
      /\ gen' = [g \in Gens |-> IF gen[g].pc = "done" THEN Idle ELSE gen[g]]
  BY DEF Edit
<1>2. /\ gen' \in [Gens -> GenType]
      /\ \A g \in Gens : gen'[g] = Idle \/ (gen'[g] = gen[g] /\ gen[g].pc # "done")
  <2>1. Idle \in GenType
    BY EmptySeq DEF Idle, GenType
  <2> QED BY <1>1, <2>1 DEF GenInv
<1>3. Idle.pc = "idle" /\ Idle.ver = 0 /\ Idle.stale = {}
  BY DEF Idle
<1>4. \A g \in Gens : gen'[g].ver # 2 /\ gen'[g].stale = {}
  BY <1>1, <1>2, <1>3 DEF GenInv, GenType, GenOk, FileInv
<1>5. DirInv'
  BY <1>1 DEF DirInv, NamesOf, Table
<1>6. GenInv'
  <2> SUFFICES ASSUME NEW h \in Gens
               PROVE  GenOk(gen'[h], ver')
    <3>1. ver' \in {1, 2}
      BY <1>1
    <3>2. gen' \in [Gens -> GenType']
      BY <1>1, <1>2
    <3>3. \A r, v : GenOk(r, v)' = GenOk(r, v)
      BY <1>1
    <3> QED BY <3>1, <3>2, <3>3 DEF GenInv
  <2> QED BY <1>2, <1>3, <1>4 DEF GenInv, GenOk
<1>7. FileInv'
  BY <1>1 DEF FileInv
<1>8. StaleInv'
  BY <1>1, <1>4 DEF StaleInv
<1>9. ProgressInv'
  <2>1. ~Fresh'
    BY <1>1, <1>4 DEF Fresh
  <2> QED BY <2>1 DEF ProgressInv
<1>10. RunInv'
  <2>1. \A g \in Gens : ~Active(g) => ~Active(g)'
    BY <1>2, <1>3 DEF Active
  <2> QED BY <1>1, <2>1 DEF RunInv
<1>11. LogInv'
  BY <1>1 DEF LogInv, VerdictOfOneTable
<1> QED BY <1>5, <1>6, <1>7, <1>8, <1>9, <1>10, <1>11

-----------------------------------------------------------------------------
(* TLC runs *)

(* When the generators have settled, the directory is that of the table.   *)
LEMMA SettledDir ==
  ASSUME GenCfgsInv, Settled
  PROVE  DirIsTable /\ \A g \in Gens : ~Active(g)
<1>1. \A g \in Gens : ~Active(g) /\ gen[g].stale = {}
  BY DEF GenCfgsInv, GenInv, GenType, GenOk, Settled, Active, Idle
<1>2. Fresh
  BY DEF Settled, Fresh
<1> QED BY <1>1, <1>2 DEF GenCfgsInv, ProgressInv, DirIsTable

LEMMA RunCfgKept ==
  ASSUME GenCfgsInv, RunCfg
  PROVE  GenCfgsInv'
<1> USE SameDir DEF GenCfgsInv
<1>1. UNCHANGED <<dir, ver, file, gen>>
  BY DEF RunCfg
<1>2. PICK n \in AllNames :
        /\ file[cfg(n)] # Absent
        /\ run' = [name |-> n, cfg |-> file[cfg(n)], quiet |-> Settled]
        /\ log' = [log EXCEPT ![n] = [NoLog EXCEPT !.result = "running"]]
  BY DEF RunCfg
<1>3. cfg(n) \in Files /\ (HasMC => MC(n) \in Files)
  BY NamedFiles
<1>4. DirInv' /\ GenInv' /\ FileInv' /\ StaleInv' /\ ProgressInv'
  <2>1. DirInv'
    BY <1>1 DEF DirInv, NamesOf, Table
  <2>2. GenInv'
    BY <1>1 DEF GenInv
  <2>3. FileInv' /\ StaleInv'
    BY <1>1 DEF FileInv, StaleInv
  <2>4. ProgressInv'
    BY <1>1 DEF ProgressInv, Fresh, Active
  <2> QED BY <2>1, <2>2, <2>3, <2>4
<1>5. RunInv'
  <2>1. file[cfg(n)] \in {Empty, 1, 2}
    BY <1>2, <1>3 DEF FileInv
  <2>2. run' \in [name : AllNames \cup {<<>>}, cfg : {Empty, 0, 1, 2}, quiet : BOOLEAN]
    BY <1>2, <2>1 DEF Settled
  <2>3. run'.name = n /\ run'.cfg = file[cfg(n)] /\ run'.cfg # 0 /\ (ver = 1 => run'.cfg # 2)
    BY <1>2, <1>3, <2>1 DEF FileInv, Empty
  <2>4. ASSUME run'.quiet
        PROVE  /\ \A g \in Gens : ~Active(g)
               /\ ver = 1 \/ n \in ToSet(Names(ver)) =>
                    file[cfg(n)] > 0 /\ (HasMC => file[MC(n)] = file[cfg(n)])
    <3>1. Settled
      BY <1>2, <2>4
    <3>2. WritesInv(ver) /\ ver \in {1, 2}
      BY WritesAll DEF GenInv
    <3>3. ver = 1 => n \in ToSet(Names(ver))
      BY <1>2, <1>3, <3>2 DEF WritesInv, FileInv
    <3>4. n \in ToSet(Names(ver)) => file[cfg(n)] = ver /\ (HasMC => file[MC(n)] = ver)
      BY <3>1, <3>2, SettledDir DEF DirIsTable, WritesInv
    <3> QED BY <3>1, <3>2, <3>3, <3>4, SettledDir
  <2> QED BY <1>1, <2>2, <2>3, <2>4 DEF RunInv, Active
<1>6. LogInv'
  <2>1. /\ log' \in [AllNames -> [result : {"none", "running", "verdict", "ERROR"}, cfg : {0, 1, 2},
                                  mc : {0, 1, 2}, quiet : BOOLEAN]]
        /\ log'[n].result = "running"
        /\ \A m \in AllNames \ {n} : log'[m] = log[m]
    BY <1>2 DEF LogInv, NoLog
  <2> QED BY <1>1, <2>1 DEF LogInv, VerdictOfOneTable
<1> QED BY <1>4, <1>5, <1>6

LEMMA RunMCKept ==
  ASSUME GenCfgsInv, RunMC
  PROVE  GenCfgsInv'
<1> USE SameDir DEF GenCfgsInv
<1> DEFINE mc == IF HasMC THEN file[MC(run.name)] ELSE run.cfg
           n == run.name
<1>1. /\ UNCHANGED <<dir, ver, file, gen>> /\ run # NoRun /\ run' = NoRun
      /\ log' = [log EXCEPT ![n] =
                    IF run.cfg > 0 /\ mc > 0
                    THEN [result |-> "verdict", cfg |-> run.cfg, mc |-> mc, quiet |-> run.quiet]
                    ELSE [NoLog EXCEPT !.result = "ERROR"]]
  BY DEF RunMC
<1>2. DirInv' /\ GenInv' /\ FileInv' /\ StaleInv' /\ ProgressInv'
  <2>1. DirInv'
    BY <1>1 DEF DirInv, NamesOf, Table
  <2>2. GenInv'
    BY <1>1 DEF GenInv
  <2>3. FileInv' /\ StaleInv'
    BY <1>1 DEF FileInv, StaleInv
  <2>4. ProgressInv'
    BY <1>1 DEF ProgressInv, Fresh, Active
  <2> QED BY <2>1, <2>2, <2>3, <2>4
<1>3. RunInv'
  BY <1>1 DEF RunInv, NoRun
<1>4. LogInv'
  <2>1. n \in AllNames /\ run.cfg \in {-1, 1, 2} /\ mc \in {-1, 0, 1, 2} /\ run.quiet \in BOOLEAN
    BY <1>1, NamedFiles DEF RunInv, FileInv, Empty, Absent
  <2>2. ver = 1 /\ run.cfg > 0 /\ mc > 0 => run.cfg = 1 /\ mc = 1
    BY <1>1, <2>1, NamedFiles DEF RunInv, FileInv
  <2>3. run.quiet /\ n \in ToSet(Names(ver)) => mc = run.cfg
    BY <1>1 DEF RunInv
  <2> HIDE DEF n, mc
  <2>4. /\ log' \in [AllNames -> [result : {"none", "running", "verdict", "ERROR"}, cfg : {0, 1, 2},
                                  mc : {0, 1, 2}, quiet : BOOLEAN]]
        /\ \A m \in AllNames \ {n} : log'[m] = log[m]
    <3> DEFINE rec == IF run.cfg > 0 /\ mc > 0
                      THEN [result |-> "verdict", cfg |-> run.cfg, mc |-> mc, quiet |-> run.quiet]
                      ELSE [NoLog EXCEPT !.result = "ERROR"]
    <3>1. rec \in [result : {"none", "running", "verdict", "ERROR"}, cfg : {0, 1, 2},
                   mc : {0, 1, 2}, quiet : BOOLEAN]
      <4>1. CASE run.cfg > 0 /\ mc > 0
        <5>1. run.cfg \in {1, 2} /\ mc \in {1, 2}
          BY <2>1, <4>1
        <5> QED BY <2>1, <4>1, <5>1
      <4>2. CASE ~(run.cfg > 0 /\ mc > 0)
        <5>1. rec = [NoLog EXCEPT !.result = "ERROR"]
          BY <4>2
        <5> QED BY <5>1 DEF NoLog
      <4> QED BY <4>1, <4>2
    <3> HIDE DEF rec
    <3>2. log' = [log EXCEPT ![n] = rec]
      BY <1>1 DEF rec, n, mc
    <3> QED BY <2>1, <3>1, <3>2 DEF LogInv
  <2>5. log'[n].result = "verdict" =>
          /\ run.cfg > 0 /\ mc > 0
          /\ log'[n].cfg = run.cfg /\ log'[n].mc = mc /\ log'[n].quiet = run.quiet
    BY <1>1, <2>1 DEF LogInv, NoLog
  <2>6. /\ log'[n].result = "verdict"
        /\ ver = 1 \/ (log'[n].quiet /\ n \in ToSet(Names(ver)))
        => log'[n].cfg = log'[n].mc /\ log'[n].cfg \in {1, 2}
    BY <2>1, <2>2, <2>3, <2>5
  <2> QED BY <1>1, <2>4, <2>6 DEF LogInv, VerdictOfOneTable
<1> QED BY <1>2, <1>3, <1>4

-----------------------------------------------------------------------------
(* The theorems *)

LEMMA InitHolds == Init => GenCfgsInv
<1> SUFFICES ASSUME Init PROVE GenCfgsInv
  OBVIOUS
<1>1. DirInv
  BY DEF Init, DirInv
<1>2. /\ ver = IF dir.whole THEN 2 ELSE 1
      /\ file = [f \in Files |-> IF f \in ToSet(Writes(1)) THEN 1 ELSE Absent]
      /\ gen = [g \in Gens |-> Idle]
      /\ run = NoRun
      /\ log = [n \in AllNames |-> NoLog]
  BY DEF Init
<1>3. /\ Idle \in GenType
      /\ Idle.pc = "idle" /\ Idle.ver = 0 /\ Idle.stale = {}
  BY EmptySeq DEF Idle, GenType
<1>4. GenInv
  BY <1>2, <1>3 DEF GenInv, GenType, GenOk, Active
<1>5. FileInv
  BY <1>2, <1>3 DEF FileInv, Absent
<1>6. StaleInv
  BY <1>2, <1>3 DEF StaleInv
<1>7. ProgressInv
  <2>1. ~Fresh
    BY <1>2, <1>3 DEF Fresh
  <2> QED BY <2>1 DEF ProgressInv
<1>8. RunInv
  BY <1>2 DEF RunInv, NoRun
<1>9. LogInv
  BY <1>2 DEF LogInv, NoLog, VerdictOfOneTable
<1> QED BY <1>1, <1>4, <1>5, <1>6, <1>7, <1>8, <1>9 DEF GenCfgsInv

LEMMA NextKeeps == GenCfgsInv /\ [Next]_vars => GenCfgsInv'
<1> SUFFICES ASSUME GenCfgsInv, [Next]_vars PROVE GenCfgsInv'
  OBVIOUS
<1>1. CASE Generate
  BY <1>1, StartKept DEF Generate, Gens
<1>2. CASE Interrupted
  BY <1>2, StopKept DEF Interrupted, Gens
<1>3. ASSUME NEW g \in Gens, Unlink(g) \/ Truncate(g) \/ Write(g) PROVE GenCfgsInv'
  BY <1>3, UnlinkKept, TruncateKept, WriteKept
<1>4. CASE Edit
  BY <1>4, EditKept
<1>5. CASE RunCfg
  BY <1>5, RunCfgKept
<1>6. CASE RunMC
  BY <1>6, RunMCKept
<1>7. CASE summarize \/ FillOpen \/ FillWrite \/ UNCHANGED vars
  BY <1>7, CoreKept DEF summarize, FillOpen, FillWrite, vars
<1>8. CASE Fill
  BY <1>8, StartKept DEF Fill, Gens
<1>9. CASE FillInterrupted
  BY <1>9, StopKept DEF FillInterrupted, Gens
<1> QED BY <1>1, <1>2, <1>3, <1>4, <1>5, <1>6, <1>7, <1>8, <1>9 DEF Next

LEMMA GenCfgsCorrect == Spec => []GenCfgsInv
  BY InitHolds, NextKeeps, PTL DEF Spec

(* gen-cfgs.py: once a generator of the table is through and none of       *)
(* another table or that did not end has run since, the directory is the   *)
(* table: every entry has its files and, but for the mntput() directory,   *)
(* nothing else is left, in whatever order two generators wrote and        *)
(* removed, were interrupted and started again.                            *)
THEOREM DirCorrect == Spec => []DirIsTable
<1>1. GenCfgsInv => DirIsTable
  BY SettledDir DEF DirIsTable
<1> QED BY <1>1, GenCfgsCorrect, PTL

(* check.sh: no verdict of TLC is about a configuration of one table and   *)
(* a module of another, as long as the table is not edited, even if the    *)
(* files are written again in between; and after an edit, if the           *)
(* generators were through and TLC ran on an entry of the table.           *)
THEOREM OneTableCorrect == Spec => []VerdictOfOneTable
<1>1. GenCfgsInv => VerdictOfOneTable
  BY DEF GenCfgsInv, LogInv
<1> QED BY <1>1, GenCfgsCorrect, PTL

-----------------------------------------------------------------------------
(* Selecting from a sequence                                               *)

(* Every set of naturals that has an element has a least one.              *)
LEMMA LeastNumber ==
  ASSUME NEW T, T \subseteq Nat, T # {}
  PROVE  \E n \in T : \A m \in T : n <= m
<1>1. PICK n \in T : \A m \in T : ~(<<m, n>> \in OpToRel(<, Nat))
  BY NatLessThanWellFounded, WFMin
<1>2. \A m \in T : ~(m < n)
  BY <1>1 DEF OpToRel
<1>3. \A m \in T : n <= m
  <2> SUFFICES ASSUME NEW m \in T PROVE n <= m
    OBVIOUS
  <2>1. m \in Nat /\ n \in Nat
    OBVIOUS
  <2> QED BY <1>2, <2>1
<1> QED BY <1>3

(* A set with zero that has the next number of each of its numbers up to N *)
(* has all numbers up to N.                                                *)
LEMMA Inductive ==
  ASSUME NEW N \in Nat, NEW T, 0 \in T, \A n \in 0 .. N : n # N /\ n \in T => n + 1 \in T
  PROVE  0 .. N \subseteq T
<1>1. SUFFICES ASSUME 0 .. N \ T # {} PROVE FALSE
  OBVIOUS
<1>2. PICK n \in 0 .. N \ T : \A m \in 0 .. N \ T : n <= m
  <2>1. 0 .. N \ T \subseteq Nat
    OBVIOUS
  <2> QED BY <1>1, <2>1, LeastNumber
<1>3. n \in Nat /\ n # 0 /\ n - 1 \in 0 .. N /\ n - 1 # N /\ n - 1 \in T
  BY <1>2
<1> QED BY <1>2, <1>3

(* What has been selected of the first i elements.                         *)
Selected(f, s, T) ==
    /\ f[0] = <<>>
    /\ \A i \in 1 .. Len(s) : f[i] = IF s[i] \in T THEN Append(f[i - 1], s[i]) ELSE f[i - 1]

LEMMA WithinDef ==
  ASSUME NEW s, Len(s) \in Nat, NEW T
  PROVE  \E f : Selected(f, s, T) /\ Within(s, T) = f[Len(s)]
<1> DEFINE G(f, n) == [i \in 0 .. n |-> IF i = 0 THEN <<>>
                                        ELSE IF s[i] \in T THEN Append(f[i - 1], s[i]) ELSE f[i - 1]]
           N == Len(s)
           Q == {n \in 0 .. N : \E f : f = G(f, n)}
<1>1. 0 \in Q
  <2>1. [i \in 0 .. 0 |-> <<>>] = G([i \in 0 .. 0 |-> <<>>], 0)
    OBVIOUS
  <2>2. 0 \in 0 .. N /\ \E f : f = G(f, 0)
    <3> HIDE DEF G
    <3> QED BY <2>1
  <2> QED BY <2>2
<1>2. ASSUME NEW n \in 0 .. N, n # N, n \in Q PROVE n + 1 \in Q
  <2>1. PICK f : f = G(f, n)
    BY <1>2
  <2> DEFINE g == [i \in 0 .. n + 1 |-> IF i <= n THEN f[i] ELSE IF s[i] \in T THEN Append(f[n], s[i]) ELSE f[n]]
  <2>2. ASSUME NEW i \in 0 .. n + 1 PROVE g[i] = G(g, n + 1)[i]
    <3>1. CASE i = 0
      BY <3>1, <2>1
    <3>2. CASE i \in 1 .. n
      <4>1. i \in 0 .. n /\ i - 1 \in 0 .. n /\ i # 0 /\ i - 1 \in 0 .. n + 1
        BY <3>2
      <4>2. g[i] = f[i] /\ g[i - 1] = f[i - 1]
        BY <4>1
      <4>3. f[i] = G(f, n)[i]
        BY <2>1
      <4> QED BY <4>1, <4>2, <4>3
    <3>3. CASE i = n + 1
      <4>1. i - 1 = n /\ i # 0 /\ ~(i <= n) /\ n <= n /\ n \in 0 .. n + 1
        BY <3>3
      <4> QED BY <4>1
    <3> QED BY <3>1, <3>2, <3>3
  <2>3. g = G(g, n + 1)
    BY <2>2
  <2>4. n + 1 \in 0 .. N /\ \E f_ : f_ = G(f_, n + 1)
    <3>1. n + 1 \in 0 .. N
      BY <1>2
    <3> HIDE DEF g, G
    <3> QED BY <2>3, <3>1
  <2> QED BY <2>4
<1>3. N \in Q
  <2> HIDE DEF Q
  <2>1. 0 .. N \subseteq Q
    BY <1>1, <1>2, Inductive
  <2> QED BY <2>1
<1>4. \E f : f = G(f, N)
  BY <1>3
<1> DEFINE h == CHOOSE f : f = G(f, N)
<1>5. h = G(h, N)
  BY <1>4
<1>6. Within(s, T) = h[Len(s)]
  BY Zenon DEF Within
<1>7. Selected(h, s, T)
  <2>1. ASSUME NEW i \in 0 .. N
        PROVE  h[i] = IF i = 0 THEN <<>> ELSE IF s[i] \in T THEN Append(h[i - 1], s[i]) ELSE h[i - 1]
    <3>1. h[i] = G(h, N)[i]
      BY <1>5
    <3> HIDE DEF h
    <3> QED BY <3>1
  <2>2. h[0] = <<>>
    <3> HIDE DEF h
    <3> QED BY <2>1
  <2>3. ASSUME NEW i \in 1 .. N
        PROVE  h[i] = IF s[i] \in T THEN Append(h[i - 1], s[i]) ELSE h[i - 1]
    <3>1. i \in 0 .. N /\ i # 0
      OBVIOUS
    <3> HIDE DEF h
    <3> QED BY <2>1, <3>1
  <2> HIDE DEF h
  <2> QED BY <2>2, <2>3 DEF Selected
<1> QED BY <1>6, <1>7

(* The elements of s in T, each as often as in s: if s has an element only *)
(* once, so has the selection.                                             *)
Distinct(s) == \A i, j \in 1 .. Len(s) : s[i] = s[j] => i = j

LEMMA WithinIs ==
  ASSUME NEW S, NEW s \in Seq(S), NEW T
  PROVE  /\ Within(s, T) \in Seq(S \cap T)
         /\ Distinct(s) => Distinct(Within(s, T))
<1> DEFINE N == Len(s)
           From(g, i) == \A k \in 1 .. Len(g) : \E j \in 1 .. i : g[k] = s[j]
           Good(g, i) == g \in Seq(S \cap T) /\ From(g, i) /\ (Distinct(s) => Distinct(g))
<1>1. N \in Nat /\ \A i \in 1 .. N : s[i] \in S
  BY LenProperties, ElementOfSeq
<1>2. PICK f : Selected(f, s, T) /\ Within(s, T) = f[N]
  BY <1>1, WithinDef
<1> HIDE DEF N
<1> DEFINE Q == {i \in 0 .. N : Good(f[i], i)}
<1>3. 0 \in Q
  <2>1. f[0] = <<>> /\ <<>> \in Seq(S \cap T) /\ Len(<<>>) = 0
    BY <1>2 DEF Selected
  <2> DEFINE g == f[0]
  <2>2. Good(g, 0)
    <3>1. g \in Seq(S \cap T) /\ 1 .. Len(g) = {}
      BY <2>1
    <3> HIDE DEF g
    <3> QED BY <3>1 DEF Distinct
  <2>3. 0 \in 0 .. N
    BY <1>1
  <2> HIDE DEF Good
  <2> QED BY <2>2, <2>3
<1>4. ASSUME NEW n \in 0 .. N, n # N, n \in Q PROVE n + 1 \in Q
  <2> DEFINE g == f[n]
             e == s[n + 1]
  <2>1. n + 1 \in 1 .. N /\ (n + 1) - 1 = n /\ n \in Nat /\ e \in S
    BY <1>1, <1>4
  <2>2. f[n + 1] = IF e \in T THEN Append(g, e) ELSE g
    BY <1>2, <2>1 DEF Selected, N
  <2>3. Good(g, n)
    BY <1>4
  <2> HIDE DEF g, e
  <2>4. CASE e \notin T
    <3>1. From(g, n + 1)
      BY <2>1, <2>3
    <3>2. Good(g, n + 1)
      <4> HIDE DEF From
      <4> QED BY <2>3, <3>1
    <3>3. f[n + 1] = g /\ n + 1 \in 0 .. N
      BY <2>1, <2>2, <2>4
    <3> HIDE DEF Good
    <3> QED BY <3>2, <3>3
  <2>5. CASE e \in T
    <3>1. /\ Append(g, e) \in Seq(S \cap T) /\ Len(g) \in Nat
          /\ Len(Append(g, e)) = Len(g) + 1
          /\ \A k \in 1 .. Len(g) : Append(g, e)[k] = g[k]
          /\ Append(g, e)[Len(g) + 1] = e
      BY <2>1, <2>3, <2>5, AppendProperties, LenProperties
    <3>2. From(Append(g, e), n + 1)
      <4> SUFFICES ASSUME NEW k \in 1 .. Len(g) + 1 PROVE \E j \in 1 .. n + 1 : Append(g, e)[k] = s[j]
        BY <3>1
      <4>1. CASE k = Len(g) + 1
        BY <2>1, <3>1, <4>1 DEF e
      <4>2. CASE k # Len(g) + 1
        <5>1. k \in 1 .. Len(g)
          BY <3>1, <4>2
        <5> QED BY <2>1, <2>3, <3>1, <5>1
      <4> QED BY <4>1, <4>2
    <3>3. ASSUME Distinct(s) PROVE Distinct(Append(g, e))
      <4>1. \A k \in 1 .. Len(g) : g[k] # e
        <5> SUFFICES ASSUME NEW k \in 1 .. Len(g), g[k] = e PROVE FALSE
          OBVIOUS
        <5>1. PICK j \in 1 .. n : g[k] = s[j]
          BY <2>3
        <5>2. j \in 1 .. N /\ s[j] = s[n + 1] /\ j # n + 1
          BY <2>1, <5>1, <1>1 DEF e
        <5> QED BY <2>1, <3>3, <5>2 DEF Distinct, N
      <4>2. Distinct(g)
        BY <2>3, <3>3
      <4> SUFFICES ASSUME NEW k \in 1 .. Len(g) + 1, NEW l \in 1 .. Len(g) + 1, Append(g, e)[k] = Append(g, e)[l]
                   PROVE  k = l
        BY <3>1 DEF Distinct
      <4>3. (k = Len(g) + 1 \/ k \in 1 .. Len(g)) /\ (l = Len(g) + 1 \/ l \in 1 .. Len(g))
        BY <3>1
      <4> QED BY <3>1, <4>1, <4>2, <4>3 DEF Distinct
    <3>4. Good(Append(g, e), n + 1)
      <4> HIDE DEF From
      <4> QED BY <3>1, <3>2, <3>3
    <3>5. f[n + 1] = Append(g, e) /\ n + 1 \in 0 .. N
      BY <2>1, <2>2, <2>5
    <3> HIDE DEF Good
    <3> QED BY <3>4, <3>5
  <2> QED BY <2>4, <2>5
<1>5. N \in Q
  <2> HIDE DEF Q
  <2>1. 0 .. N \subseteq Q
    BY <1>1, <1>3, <1>4, Inductive
  <2> QED BY <1>1, <2>1
<1> QED BY <1>2, <1>5

-----------------------------------------------------------------------------
(* The table of results                                                    *)

LEMMA NamesDistinct == ASSUME DirInv, NEW v PROVE Distinct(Names(v))
<1> DEFINE t == Table(dir.of)
           k == IF dir.whole THEN Len(t) ELSE Rows
<1>1. Len(t) \in Nat /\ DOMAIN t = 1 .. Len(t)
  BY AllTables, LenProperties DEF DirInv, IsTableSeq
<1>2. k \in Nat \ {0} /\ k <= Len(t)
  <2>1. dir.of \in Dirs
    BY DEF DirInv
  <2>2. Rows \in Nat \ {0} /\ Rows <= Len(t)
    BY <2>1, GenCfgsAssumption
  <2> HIDE DEF t
  <2> QED BY <1>1, <2>2
<1>3. \A i, j \in DOMAIN t : /\ t[i].name = t[j].name => i = j
                             /\ t[i].name # <<t[1].name[1], "gone">>
  BY NamesAssumption DEF DirInv
<1>4. Newest = [i \in 1 .. k |-> t[i].name]
  BY DEF DirInv, NamesOf, Newest
<1> HIDE DEF t, k
<1>5. Newest \in Seq(AllNames) /\ Len(Newest) = k /\ \A i \in 1 .. k : Newest[i] = t[i].name
  BY <1>2, <1>4, NewestNames, LenProperties
<1>6. \A i, j \in 1 .. k : Newest[i] = Newest[j] => i = j
  BY <1>1, <1>2, <1>3, <1>5
<1>7. \A i \in 1 .. k : Newest[i] # Gone
  BY <1>1, <1>2, <1>3, <1>5 DEF Gone
<1>8. CASE v = 2
  BY <1>5, <1>6, <1>8 DEF Names, Distinct
<1>9. CASE v # 2
  <2> DEFINE s == SubSeq(Newest, 1, k - 1)
  <2>1. /\ s \in Seq(AllNames) /\ Len(s) = k - 1
        /\ \A i \in 1 .. k - 1 : s[i] = Newest[i]
    BY <1>2, <1>5, SubSeqProperties
  <2>2. <<Gone>> \in Seq(AllNames) /\ Len(<<Gone>>) = 1 /\ <<Gone>>[1] = Gone
    BY NewestNames
  <2> DEFINE n == s \o <<Gone>>
  <2> HIDE DEF s
  <2>3. Len(n) = k /\ (\A i \in 1 .. k - 1 : n[i] = Newest[i]) /\ n[k] = Gone
    <3>1. \A i \in 1 .. Len(s) + Len(<<Gone>>) : n[i] = IF i <= Len(s) THEN s[i] ELSE <<Gone>>[i - Len(s)]
      BY <2>1, <2>2, ConcatProperties
    <3>2. Len(n) = Len(s) + Len(<<Gone>>)
      BY <2>1, <2>2, ConcatProperties
    <3> HIDE DEF n
    <3> QED BY <1>2, <2>1, <2>2, <3>1, <3>2
  <2>4. Names(v) = n
    BY <1>5, <1>9 DEF Names, s
  <2> HIDE DEF n
  <2>5. ASSUME NEW i \in 1 .. k, NEW j \in 1 .. k, n[i] = n[j] PROVE i = j
    <3>1. (i = k \/ i \in 1 .. k - 1) /\ (j = k \/ j \in 1 .. k - 1)
      BY <1>2
    <3> QED BY <1>2, <1>6, <1>7, <2>3, <2>5, <3>1
  <2> QED BY <2>3, <2>4, <2>5 DEF Distinct
<1> QED BY <1>8, <1>9

(* The table that fill-results.py makes: the header, and the rows of the   *)
(* summary in the order of the table's names, each name once.              *)
WithRow(rs, v) == Within(Names(v), {r.name : r \in rows(rs)})

TableOf(t, rs, v) ==
    LET has == WithRow(rs, v) IN
    /\ t \in Seq(ToSet(t)) /\ Len(has) \in Nat /\ Len(t) = Len(has) + 1
    /\ t[1] = Header
    /\ \A i \in 1 .. Len(has) :
         /\ t[i + 1].kind = "row" /\ t[i + 1].name = has[i]
         /\ \E r \in rows(rs) : r.name = has[i] /\ t[i + 1].result = r.result /\ t[i + 1].expect = r.expect
    /\ Distinct(has)

LEMMA TableIs == ASSUME DirInv, NEW v, NEW rs PROVE TableOf(table(rs, v), rs, v)
<1> DEFINE has == WithRow(rs, v)
           row(n) == CHOOSE r \in rows(rs) : r.name = n
           body == [i \in DOMAIN has |-> Line("row", has[i], row(has[i]).expect, row(has[i]).result)]
           t == <<Header>> \o body
           N == Len(has)
<1>1. has \in Seq(AllNames \cap {r.name : r \in rows(rs)}) /\ Distinct(has)
  BY NamesSeq, NamesDistinct, WithinIs DEF WithRow
<1>2. N \in Nat /\ DOMAIN has = 1 .. N /\ \A i \in 1 .. N : has[i] \in {r.name : r \in rows(rs)}
  <2> HIDE DEF has
  <2> QED BY <1>1, LenProperties, ElementOfSeq
<1>3. table(rs, v) = t
  BY DEF table, WithRow
<1> DEFINE L == {Header} \cup {body[i] : i \in DOMAIN has}
<1>4. body \in Seq(L) /\ Len(body) = N /\ DOMAIN body = 1 .. N
  <2>1. body \in [1 .. N -> L]
    <3> HIDE DEF has, row
    <3> QED BY <1>2
  <2> HIDE DEF body, L
  <2>2. body \in Seq(L)
    BY <1>2, <2>1, SeqDef
  <2> QED BY <1>2, <2>1, <2>2, LenProperties
<1>5. <<Header>> \in Seq(L) /\ Len(<<Header>>) = 1 /\ <<Header>>[1] = Header
  <2>1. Header \in L
    OBVIOUS
  <2> HIDE DEF L
  <2> QED BY <2>1
<1>6. /\ t \in Seq(L) /\ Len(t) = N + 1
      /\ t[1] = Header
      /\ \A i \in 1 .. N : t[i + 1] = body[i]
  <2> HIDE DEF body, L
  <2>1. /\ t \in Seq(L) /\ Len(t) = Len(<<Header>>) + Len(body)
        /\ \A i \in 1 .. Len(<<Header>>) + Len(body) :
             t[i] = IF i <= Len(<<Header>>) THEN <<Header>>[i] ELSE body[i - Len(<<Header>>)]
    BY <1>4, <1>5, ConcatProperties
  <2>2. \A i \in 1 .. N : i + 1 \in 1 .. 1 + N /\ ~(i + 1 <= 1) /\ (i + 1) - 1 = i
    BY <1>2
  <2>3. 1 \in 1 .. 1 + N
    BY <1>2
  <2> HIDE DEF t
  <2>4. t[1] = Header
    BY <1>4, <1>5, <2>1, <2>3
  <2>5. \A i \in 1 .. N : t[i + 1] = body[i]
    BY <1>4, <1>5, <2>1, <2>2
  <2> QED BY <1>2, <1>4, <1>5, <2>1, <2>4, <2>5
<1>7. t \in Seq(ToSet(t))
  <2> HIDE DEF t, L
  <2>1. DOMAIN t = 1 .. Len(t) /\ Len(t) \in Nat /\ t = [i \in 1 .. Len(t) |-> t[i]]
    BY <1>6, LenProperties
  <2> QED BY <2>1 DEF ToSet
<1>8. ASSUME NEW i \in 1 .. N
      PROVE  /\ t[i + 1].kind = "row" /\ t[i + 1].name = has[i]
             /\ \E r \in rows(rs) : r.name = has[i] /\ t[i + 1].result = r.result /\ t[i + 1].expect = r.expect
  <2>1. row(has[i]) \in rows(rs) /\ row(has[i]).name = has[i]
    <3>1. \E r \in rows(rs) : r.name = has[i]
      BY <1>2
    <3> QED BY <3>1
  <2>2. t[i + 1] = Line("row", has[i], row(has[i]).expect, row(has[i]).result)
    <3> HIDE DEF has, t, row
    <3> QED BY <1>2, <1>6
  <2> HIDE DEF row, t, has
  <2> QED BY <2>1, <2>2 DEF Line
<1> HIDE DEF body, L, t, row
<1> QED BY <1>1, <1>2, <1>3, <1>6, <1>7, <1>8 DEF TableOf

-----------------------------------------------------------------------------
(* The README                                                              *)

(* It is whole: the text around the marker, or around a table whose rows   *)
(* have a name each.                                                       *)
Whole(s) ==
    /\ s \in Seq(ToSet(s)) /\ Len(s) \in Nat /\ Len(s) >= 3
    /\ s[1] = Text("before") /\ s[Len(s)] = Text("after")
    /\ \/ Len(s) = 3 /\ s[2] = Marker
       \/ /\ s[2] = Header
          /\ \A i \in 3 .. Len(s) - 1 : s[i].kind = "row"
          /\ \A i, j \in 3 .. Len(s) - 1 : s[i].name = s[j].name => i = j

Filled(t) == <<Text("before")>> \o t \o <<Text("after")>>

(* The lines are told apart by their kind.                                 *)
LEMMA LinesApart ==
  /\ \A w : Text(w).kind = "text" /\ Text(w) # Marker /\ Text(w) # Header
  /\ Marker.kind = "marker" /\ Header.kind = "header" /\ Marker # Header
  /\ \A l : l.kind = "row" => l # Marker /\ l # Header /\ IsTable(l)
  /\ IsTable(Header) /\ \A w : ~IsTable(Text(w))
<1>1. \A w : Text(w).kind = "text"
  BY DEF Text, Line
<1>2. Marker.kind = "marker" /\ Header.kind = "header"
  BY DEF Marker, Header, Line
<1> QED BY <1>1, <1>2 DEF IsTable

LEMMA FilledIs ==
  ASSUME NEW S, NEW t \in Seq(S), Len(t) \in Nat
  PROVE  /\ Filled(t) \in Seq(ToSet(Filled(t))) /\ Len(Filled(t)) = Len(t) + 2
         /\ Filled(t)[1] = Text("before") /\ Filled(t)[Len(t) + 2] = Text("after")
         /\ \A i \in 1 .. Len(t) : Filled(t)[i + 1] = t[i]
<1> DEFINE L == S \cup {Text("before"), Text("after")}
           a == <<Text("before")>>
           z == <<Text("after")>>
           N == Len(t)
           b == a \o t
           f == b \o z
<1>1. a \in Seq(L) /\ z \in Seq(L) /\ Len(a) = 1 /\ Len(z) = 1 /\ a[1] = Text("before") /\ z[1] = Text("after")
  OBVIOUS
<1>2. t \in Seq(L)
  <2>1. S \subseteq L
    OBVIOUS
  <2> HIDE DEF L
  <2> QED BY <2>1, SeqMonotonic
<1> HIDE DEF a, z, L
<1>3. b \in Seq(L) /\ Len(b) = 1 + N /\ \A i \in 1 .. 1 + N : b[i] = IF i <= 1 THEN a[i] ELSE t[i - 1]
  <2>1. /\ b \in Seq(L) /\ Len(b) = Len(a) + Len(t)
        /\ \A i \in 1 .. Len(a) + Len(t) : b[i] = IF i <= Len(a) THEN a[i] ELSE t[i - Len(a)]
    BY <1>1, <1>2, ConcatProperties
  <2> HIDE DEF b
  <2> QED BY <1>1, <2>1
<1> HIDE DEF b
<1>4. f \in Seq(L) /\ Len(f) = 1 + N + 1 /\ \A i \in 1 .. 1 + N + 1 : f[i] = IF i <= 1 + N THEN b[i] ELSE z[i - (1 + N)]
  <2>1. /\ f \in Seq(L) /\ Len(f) = Len(b) + Len(z)
        /\ \A i \in 1 .. Len(b) + Len(z) : f[i] = IF i <= Len(b) THEN b[i] ELSE z[i - Len(b)]
    BY <1>1, <1>3, ConcatProperties
  <2> HIDE DEF f
  <2> QED BY <1>1, <1>3, <2>1
<1> HIDE DEF f
<1>5. f[1] = Text("before")
  <2>1. 1 \in 1 .. 1 + N + 1 /\ 1 \in 1 .. 1 + N /\ 1 <= 1 + N
    OBVIOUS
  <2>2. f[1] = b[1]
    BY <1>4, <2>1
  <2>3. b[1] = a[1]
    BY <1>3, <2>1
  <2> QED BY <1>1, <2>2, <2>3
<1>6. f[N + 2] = Text("after")
  <2>1. N + 2 \in 1 .. 1 + N + 1 /\ ~(N + 2 <= 1 + N) /\ N + 2 - (1 + N) = 1
    OBVIOUS
  <2>2. f[N + 2] = z[N + 2 - (1 + N)]
    BY <1>4, <2>1
  <2>3. f[N + 2] = z[1]
    BY <2>1, <2>2
  <2> QED BY <1>1, <2>3
<1>7. ASSUME NEW i \in 1 .. N PROVE f[i + 1] = t[i]
  <2>1. i + 1 \in 1 .. 1 + N + 1 /\ i + 1 \in 1 .. 1 + N /\ ~(i + 1 <= 1) /\ (i + 1) - 1 = i
    OBVIOUS
  <2> QED BY <1>3, <1>4, <2>1
<1>8. f \in Seq(ToSet(f))
  <2>1. DOMAIN f = 1 .. Len(f) /\ Len(f) \in Nat /\ f = [i \in 1 .. Len(f) |-> f[i]]
    BY <1>4, LenProperties
  <2> QED BY <2>1 DEF ToSet
<1>9. Filled(t) = f
  BY DEF Filled, a, z, b, f
<1> QED BY <1>4, <1>5, <1>6, <1>7, <1>8, <1>9

(* A table between the text makes a whole README.                          *)
LEMMA FilledWhole ==
  ASSUME NEW t, NEW rs, NEW v, TableOf(t, rs, v)
  PROVE  Whole(Filled(t))
<1> DEFINE has == WithRow(rs, v)
           N == Len(has)
           f == Filled(t)
<1>1. /\ t \in Seq(ToSet(t)) /\ N \in Nat /\ Len(t) = N + 1 /\ t[1] = Header
      /\ \A i \in 1 .. N : t[i + 1].kind = "row" /\ t[i + 1].name = has[i]
      /\ \A i, j \in 1 .. N : has[i] = has[j] => i = j
  BY DEF TableOf, Distinct
<1>2. /\ f \in Seq(ToSet(f)) /\ Len(f) = N + 3 /\ f[1] = Text("before") /\ f[N + 3] = Text("after")
      /\ \A i \in 1 .. N + 1 : f[i + 1] = t[i]
  <2>1. Len(t) \in Nat /\ Len(t) + 2 = N + 3
    BY <1>1
  <2> HIDE DEF f
  <2> QED BY <1>1, <2>1, FilledIs DEF f
<1> HIDE DEF has, f
<1>3. f[2] = Header
  <2>1. 1 \in 1 .. N + 1 /\ 1 + 1 = 2
    BY <1>1
  <2> QED BY <1>1, <1>2, <2>1
<1>4. ASSUME NEW i \in 3 .. N + 2 PROVE i - 2 \in 1 .. N /\ f[i].kind = "row" /\ f[i].name = has[i - 2]
  <2>1. i - 2 \in 1 .. N /\ i - 1 \in 1 .. N + 1 /\ (i - 1) + 1 = i /\ (i - 2) + 1 = i - 1
    BY <1>1
  <2>2. f[i] = t[i - 1]
    BY <1>2, <2>1
  <2>3. t[i - 1].kind = "row" /\ t[i - 1].name = has[i - 2]
    BY <1>1, <2>1
  <2> QED BY <2>1, <2>2, <2>3
<1>5. ASSUME NEW i \in 3 .. N + 2, NEW j \in 3 .. N + 2, f[i].name = f[j].name PROVE i = j
  <2>1. i - 2 = j - 2
    BY <1>1, <1>4, <1>5
  <2> QED BY <1>1, <2>1
<1>6. Len(f) - 1 = N + 2 /\ Len(f) >= 3
  BY <1>1, <1>2
<1> QED BY <1>1, <1>2, <1>3, <1>4, <1>5, <1>6 DEF Whole, f

LEMMA ThreeFlat ==
  ASSUME NEW s, Len(s) = 3
  PROVE  FlattenSeq(s) = s[1] \o s[2] \o s[3]
<1> DEFINE G(f) == [i \in 1 .. Len(s) |-> IF i = 1 THEN s[i] ELSE f[i - 1] \o s[i]]
           g == [i \in 1 .. 3 |-> IF i = 1 THEN s[1] ELSE IF i = 2 THEN s[1] \o s[2] ELSE s[1] \o s[2] \o s[3]]
           h == CHOOSE f : f = G(f)
<1>1. \A i \in 1 .. 3 : G(g)[i] = g[i]
  <2>1. g[1] = s[1] /\ g[2] = s[1] \o s[2] /\ g[3] = s[1] \o s[2] \o s[3]
    OBVIOUS
  <2> HIDE DEF g
  <2>2. G(g)[1] = s[1] /\ G(g)[2] = g[1] \o s[2] /\ G(g)[3] = g[2] \o s[3]
    OBVIOUS
  <2>3. \A i \in 1 .. 3 : i = 1 \/ i = 2 \/ i = 3
    OBVIOUS
  <2> HIDE DEF G
  <2> QED BY <2>1, <2>2, <2>3
<1>2. g = G(g)
  BY <1>1
<1>3. h = G(h)
  <2> HIDE DEF g, G
  <2> QED BY <1>2
<1>4. h[1] = s[1] /\ h[2] = h[1] \o s[2] /\ h[3] = h[2] \o s[3]
  <2>1. \A i \in 1 .. 3 : h[i] = G(h)[i]
    BY <1>3
  <2> HIDE DEF h
  <2> QED BY <2>1
<1>5. FlattenSeq(s) = h[Len(s)]
  <2>1. Len(s) # 0
    OBVIOUS
  <2> QED BY <2>1, Zenon DEF FlattenSeq
<1> HIDE DEF h
<1> QED BY <1>4, <1>5

(* Whatever was there, marker or table, the new table is between the text. *)
LEMMA ReplacedIs ==
  ASSUME NEW s, Whole(s), NEW t
  PROVE  Replaced(s, t) = Filled(t)
<1> DEFINE N == Len(s)
<1>1. /\ s \in Seq(ToSet(s)) /\ N \in Nat /\ N >= 3 /\ DOMAIN s = 1 .. N
      /\ s[1] = Text("before") /\ s[N] = Text("after")
  BY LenProperties DEF Whole
<1>2. CASE s[2] = Marker
  <2>1. N = 3 /\ \E i \in DOMAIN s : s[i] = Marker
    <3>1. Marker # Header
      BY LinesApart
    <3>2. N = 3
      BY <1>2, <3>1 DEF Whole
    <3>3. 2 \in DOMAIN s
      BY <1>1
    <3> QED BY <1>2, <3>2, <3>3
  <2> DEFINE q == [i \in DOMAIN s |-> IF s[i] = Marker THEN t ELSE <<s[i]>>]
  <2>2. q[1] = <<Text("before")>> /\ q[2] = t /\ q[3] = <<Text("after")>>
    BY <1>1, <1>2, <2>1, LinesApart
  <2>3. Len(q) = 3
    BY <1>1, <2>1
  <2>4. Replaced(s, t) = FlattenSeq(q)
    BY <2>1 DEF Replaced
  <2> HIDE DEF q
  <2> QED BY <2>2, <2>3, <2>4, ThreeFlat DEF Filled
<1>3. CASE s[2] # Marker
  <2>1. s[2] = Header /\ \A i \in 3 .. N - 1 : s[i].kind = "row"
    BY <1>3 DEF Whole
  <2>2. \A i \in 1 .. N : i = 1 \/ i = 2 \/ i = N \/ i \in 3 .. N - 1
    <3>1. N \in Nat /\ N >= 3
      BY <1>1
    <3> HIDE DEF N
    <3> QED BY <3>1
  <2>3. \A i \in DOMAIN s : s[i] # Marker /\ (s[i] = Header <=> i = 2) /\ (IsTable(s[i]) <=> i # 1 /\ i # N)
    <3> SUFFICES ASSUME NEW i \in 1 .. N
                 PROVE  s[i] # Marker /\ (s[i] = Header <=> i = 2) /\ (IsTable(s[i]) <=> i # 1 /\ i # N)
      BY <1>1
    <3>1. CASE i = 1 \/ i = N
      <4>1. \E w : s[i] = Text(w)
        BY <1>1, <3>1
      <4>2. i # 2
        <5>1. N \in Nat /\ N >= 3
          BY <1>1
        <5> HIDE DEF N
        <5> QED BY <3>1, <5>1
      <4> HIDE DEF N
      <4> QED BY <3>1, <4>1, <4>2, LinesApart
    <3>2. CASE i = 2
      BY <1>1, <2>1, <3>2, LinesApart
    <3>3. CASE i \in 3 .. N - 1
      BY <1>1, <2>1, <3>3, LinesApart
    <3> QED BY <2>2, <3>1, <3>2, <3>3
  <2> DEFINE First(i) == s[i] = Header /\ \A j \in 1 .. i - 1 : s[j] # Header
             start == CHOOSE i \in DOMAIN s : First(i)
             After(i) == (\A j \in start .. i - 1 : IsTable(s[j])) /\ (i = N + 1 \/ ~IsTable(s[i]))
             end == CHOOSE i \in start .. N + 1 : After(i)
  <2> HIDE DEF N
  <2>4. start = 2
    <3>1. \A i \in DOMAIN s : First(i) <=> i = 2
      BY <1>1, <2>3
    <3>2. 2 \in DOMAIN s
      BY <1>1
    <3> HIDE DEF First
    <3> QED BY <3>1, <3>2
  <2>5. end = N
    <3> HIDE DEF start
    <3>0. \A i \in start .. N + 1 : i \in Nat /\ 2 <= i /\ i <= N + 1
      BY <1>1, <2>4
    <3>1. ASSUME NEW i \in start .. N + 1 PROVE After(i) <=> i = N
      <4>1. CASE i = N
        <5>1. \A j \in 2 .. N - 1 : j \in 1 .. N /\ j # 1 /\ j # N
          BY <1>1
        <5>2. ~IsTable(s[i])
          BY <1>1, <2>3, <4>1
        <5> QED BY <1>1, <2>3, <2>4, <4>1, <5>1, <5>2
      <4>2. CASE i = N + 1
        <5>1. N \in start .. i - 1 /\ i # N
          BY <1>1, <2>4, <4>2
        <5>2. ~IsTable(s[N])
          BY <1>1, <2>3
        <5> QED BY <5>1, <5>2
      <4>3. CASE i # N /\ i # N + 1
        <5>1. i \in 1 .. N /\ i # 1 /\ i # N /\ i # N + 1
          BY <1>1, <3>0, <4>3
        <5> QED BY <1>1, <2>3, <5>1
      <4> QED BY <4>1, <4>2, <4>3
    <3>2. N \in start .. N + 1
      BY <1>1, <2>4
    <3> HIDE DEF After
    <3> QED BY <3>1, <3>2
  <2>6. Replaced(s, t) = SubSeq(s, 1, start - 1) \o t \o SubSeq(s, end, N)
    <3>1. ~\E i \in DOMAIN s : s[i] = Marker
      BY <2>3
    <3> QED BY <3>1, Zenon DEF Replaced, N, start, end, First, After
  <2> HIDE DEF start, end
  <2>7. SubSeq(s, 1, 1) = <<Text("before")>> /\ SubSeq(s, N, N) = <<Text("after")>>
    <3>1. ASSUME NEW k \in 1 .. N PROVE SubSeq(s, k, k) = <<s[k]>>
      <4>1. /\ SubSeq(s, k, k) \in Seq(ToSet(s)) /\ Len(SubSeq(s, k, k)) = 1
            /\ SubSeq(s, k, k)[1] = s[k]
        <5>1. \A i \in k .. k : s[i] \in ToSet(s)
          BY <1>1 DEF ToSet
        <5>2. k \in Int /\ k - k + 1 = 1 /\ k + 1 - 1 = k
          BY <1>1
        <5> QED BY <5>1, <5>2, SubSeqProperties
      <4>2. <<s[k]>> \in Seq(ToSet(s)) /\ Len(<<s[k]>>) = 1 /\ <<s[k]>>[1] = s[k]
        BY <1>1 DEF ToSet
      <4>3. \A i \in 1 .. 1 : SubSeq(s, k, k)[i] = <<s[k]>>[i]
        BY <4>1, <4>2
      <4> QED BY <4>1, <4>2, <4>3, SeqEqual
    <3> QED BY <1>1, <3>1
  <2>8. start - 1 = 1
    BY <2>4
  <2> QED BY <2>5, <2>6, <2>7, <2>8 DEF Filled
<1> QED BY <1>2, <1>3

-----------------------------------------------------------------------------
(* From the summary to the README                                          *)

(* A row has the words that its configuration and its result make.         *)
RowOk(r) ==
    r.fields = 4 + (IF r.expect = Empty THEN 0 ELSE 1) + (IF Fiber \/ r.result = "verdict" THEN 1 ELSE 0)

CountInv == count \in [{"gens", "fills", "runs", "crashes"} -> Nat]

(* What a fill has read of the summary is what it writes.                  *)
FillInv ==
    /\ fill = [pc |-> fill.pc, ver |-> fill.ver, rows |-> fill.rows, text |-> fill.text]
    /\ \A r \in fill.rows \cup summary.rows : RowOk(r)
    /\ fill.pc = "open" => fill.text = Filled(table(fill.rows, fill.ver))
    /\ fill.pc = "done" => readme = Filled(table(fill.rows, fill.ver))

(* The README is whole, but while a fill writes, and if that was cut off.  *)
ReadmeInv ==
    \/ readme = <<>> /\ (fill.pc = "open" \/ count["crashes"] > 0)
    \/ Whole(readme)

ReadmeAll == CountInv /\ FillInv /\ ReadmeInv

(* The same summary makes the same table.                                  *)
LEMMA TableStays ==
  ASSUME dir' = dir
  PROVE  Fiber' = Fiber /\ \A rs, v : table(rs, v)' = table(rs, v)
<1>1. Fiber' = Fiber /\ Newest' = Newest
  BY DEF Fiber, Newest
<1>2. ASSUME NEW rs, NEW v PROVE table(rs, v)' = table(rs, v)
  <2>1. Names(v)' = Names(v)
    BY <1>1 DEF Names, Gone
  <2> DEFINE T == {r.name : r \in rows(rs)}
             row(n) == CHOOSE r \in rows(rs) : r.name = n
             Made(has) == <<Header>> \o [i \in DOMAIN has |-> Line("row", has[i], row(has[i]).expect, row(has[i]).result)]
  <2>2. table(rs, v) = Made(Within(Names(v), T))
    BY DEF table
  <2>3. table(rs, v)' = Made(Within(Names(v)', T))
    BY Zenon DEF table
  <2> HIDE DEF Made, T
  <2> QED BY <2>1, <2>2, <2>3
<1> QED BY <1>1, <1>2

(* The steps of the generators, of TLC and of summarize.sh leave it.       *)
LEMMA ElsewhereKept ==
  ASSUME ReadmeAll, UNCHANGED <<dir, fill, readme>>, CountInv', count'["crashes"] >= count["crashes"],
         \A r \in summary'.rows : RowOk(r)'
  PROVE  ReadmeAll'
<1>1. Fiber' = Fiber /\ \A rs, v : table(rs, v)' = table(rs, v)
  BY TableStays
<1>2. FillInv'
  <2>1. table(fill.rows, fill.ver)' = table(fill.rows, fill.ver)
    BY <1>1
  <2>2. \A r \in fill.rows : RowOk(r)'
    BY <1>1 DEF RowOk, ReadmeAll, FillInv
  <2> QED BY <2>1, <2>2 DEF FillInv, ReadmeAll, Filled
<1>3. ReadmeInv'
  <2>1. CASE Whole(readme)
    BY <2>1 DEF ReadmeInv
  <2>2. CASE readme = <<>> /\ fill.pc = "open"
    BY <2>2 DEF ReadmeInv
  <2>3. CASE readme = <<>> /\ count["crashes"] > 0
    <3>1. count["crashes"] \in Nat /\ count'["crashes"] \in Nat
      BY DEF ReadmeAll, CountInv
    <3> QED BY <2>3, <3>1 DEF ReadmeInv
  <2> QED BY <2>1, <2>2, <2>3 DEF ReadmeAll, ReadmeInv
<1> QED BY <1>2, <1>3 DEF ReadmeAll

(* Nothing is started less often than before.                              *)
LEMMA StartedCounts ==
  ASSUME CountInv, NEW what \in {"gens", "fills", "runs", "crashes"}, NEW max, Started(what, max)
  PROVE  /\ CountInv'
         /\ count'["crashes"] >= count["crashes"]
         /\ what = "crashes" => count'["crashes"] > 0
<1>1. count' = [count EXCEPT ![what] = @ + 1]
  BY DEF Started
<1>2. \A w \in {"gens", "fills", "runs", "crashes"} : count[w] \in Nat
  BY DEF CountInv
<1>3. CountInv'
  BY <1>1, <1>2 DEF CountInv
<1>4. count'["crashes"] = IF what = "crashes" THEN count["crashes"] + 1 ELSE count["crashes"]
  BY <1>1 DEF CountInv
<1> QED BY <1>2, <1>3, <1>4

LEMMA CountsStay ==
  ASSUME CountInv, count' = count
  PROVE  CountInv' /\ count'["crashes"] >= count["crashes"]
<1>1. count["crashes"] \in Nat
  BY DEF CountInv
<1> QED BY <1>1 DEF CountInv

LEMMA SummarizeKept ==
  ASSUME ReadmeAll, summarize
  PROVE  ReadmeAll'
<1>1. UNCHANGED <<dir, fill, readme, count>>
  BY DEF summarize
<1>2. \A r \in summary'.rows : RowOk(r)'
  <2> SUFFICES ASSUME NEW r \in summary'.rows PROVE RowOk(r)'
    OBVIOUS
  <2>1. PICK n \in AllNames :
          r = [name |-> n, expect |-> file[cfg(n)], result |-> log[n].result, fields |-> fields(n)]
    BY DEF summarize
  <2>2. r.fields = fields(n) /\ r.expect = file[cfg(n)] /\ r.result = log[n].result
    BY <2>1
  <2>3. Fiber' = Fiber
    BY <1>1 DEF Fiber
  <2> QED BY <2>2, <2>3 DEF RowOk, fields
<1>3. CountInv' /\ count'["crashes"] >= count["crashes"]
  BY <1>1, CountsStay DEF ReadmeAll
<1> QED BY <1>1, <1>2, <1>3, ElsewhereKept

LEMMA FillKept ==
  ASSUME ReadmeAll, Fill
  PROVE  ReadmeAll'
<1>1. /\ UNCHANGED <<dir, summary, readme>> /\ ~FillActive
      /\ fill' = [NoFill EXCEPT !.pc = "import", !.ver = ver]
      /\ Started("fills", MaxFills)
  BY DEF Fill
<1>2. CountInv' /\ count'["crashes"] >= count["crashes"]
  BY <1>1, StartedCounts DEF ReadmeAll
<1>3. fill'.pc = "import" /\ fill'.rows = {} /\ fill' = [pc |-> "import", ver |-> ver, rows |-> {}, text |-> <<>>]
  BY <1>1 DEF NoFill
<1>4. FillInv'
  <2>1. \A r \in summary'.rows : RowOk(r)'
    BY <1>1 DEF ReadmeAll, FillInv, RowOk, Fiber
  <2> QED BY <1>3, <2>1 DEF FillInv
<1>5. ReadmeInv'
  <2>1. CASE Whole(readme)
    BY <1>1, <2>1 DEF ReadmeInv
  <2>2. CASE readme = <<>> /\ fill.pc = "open"
    BY <1>1, <2>2 DEF FillActive
  <2>3. CASE readme = <<>> /\ count["crashes"] > 0
    <3>1. count["crashes"] \in Nat /\ count'["crashes"] \in Nat
      BY <1>2 DEF ReadmeAll, CountInv
    <3> QED BY <1>1, <1>2, <2>3, <3>1 DEF ReadmeInv
  <2> QED BY <2>1, <2>2, <2>3 DEF ReadmeAll, ReadmeInv
<1> QED BY <1>2, <1>4, <1>5 DEF ReadmeAll

LEMMA FillOpenKept ==
  ASSUME DirInv, ReadmeAll, FillOpen
  PROVE  ReadmeAll'
<1>1. UNCHANGED <<dir, summary, count>> /\ fill.pc = "import"
  BY DEF FillOpen
<1>2. CountInv' /\ count'["crashes"] >= count["crashes"]
  BY <1>1, CountsStay DEF ReadmeAll
<1>3. Fiber' = Fiber /\ \A rs, v : table(rs, v)' = table(rs, v)
  BY <1>1, TableStays
<1>4. \A r \in fill.rows \cup summary.rows : RowOk(r)'
  BY <1>3 DEF ReadmeAll, FillInv, RowOk
<1>5. CASE /\ \E i \in DOMAIN readme : readme[i] \in {Marker, Header}
           /\ fill' = [fill EXCEPT !.pc = "open", !.rows = summary.rows,
                                   !.text = Replaced(readme, table(summary.rows, fill.ver))]
           /\ readme' = <<>>
  <2>1. Whole(readme)
    BY <1>5 DEF ReadmeAll, ReadmeInv
  <2> DEFINE t == table(summary.rows, fill.ver)
  <2>2. Replaced(readme, t) = Filled(t)
    BY <2>1, ReplacedIs
  <2>3. fill' = [pc |-> "open", ver |-> fill.ver, rows |-> summary.rows, text |-> Filled(t)]
    <3> HIDE DEF t
    <3> QED BY <1>5, <2>2 DEF ReadmeAll, FillInv, t
  <2>4. fill'.pc = "open" /\ fill'.rows = summary.rows /\ fill'.ver = fill.ver /\ fill'.text = Filled(t)
    BY <2>3
  <2>5. t = table(fill.rows, fill.ver)'
    BY <1>3, <2>4
  <2> HIDE DEF t
  <2>6. FillInv'
    BY <1>1, <1>4, <2>3, <2>4, <2>5 DEF FillInv, Filled
  <2> QED BY <1>2, <1>5, <2>4, <2>6 DEF ReadmeAll, ReadmeInv
<1>6. CASE fill' = [NoFill EXCEPT !.pc = "raised"] /\ readme' = readme
  <2>1. fill' = [pc |-> "raised", ver |-> 0, rows |-> {}, text |-> <<>>]
    BY <1>6 DEF NoFill
  <2>2. FillInv'
    BY <1>1, <1>4, <2>1 DEF FillInv
  <2>3. ReadmeInv'
    BY <1>1, <1>6 DEF ReadmeAll, ReadmeInv
  <2> QED BY <1>2, <2>2, <2>3 DEF ReadmeAll
<1> QED BY <1>5, <1>6 DEF FillOpen

LEMMA FillWriteKept ==
  ASSUME DirInv, ReadmeAll, FillWrite
  PROVE  ReadmeAll'
<1>1. /\ UNCHANGED <<dir, summary, count>> /\ fill.pc = "open" /\ readme' = fill.text
      /\ fill' = [fill EXCEPT !.pc = "done", !.text = <<>>]
  BY DEF FillWrite
<1>2. CountInv'
  BY <1>1, CountsStay DEF ReadmeAll
<1>3. Fiber' = Fiber /\ \A rs, v : table(rs, v)' = table(rs, v)
  BY <1>1, TableStays
<1>4. fill' = [pc |-> "done", ver |-> fill.ver, rows |-> fill.rows, text |-> <<>>]
  BY <1>1 DEF ReadmeAll, FillInv
<1> DEFINE t == table(fill.rows, fill.ver)
<1>5. readme' = Filled(t)
  BY <1>1 DEF ReadmeAll, FillInv
<1>6. FillInv'
  <2>1. \A r \in fill.rows \cup summary.rows : RowOk(r)'
    BY <1>3 DEF ReadmeAll, FillInv, RowOk
  <2>2. fill'.pc = "done" /\ fill'.rows = fill.rows /\ fill'.ver = fill.ver
    BY <1>4
  <2>3. t = table(fill.rows, fill.ver)'
    BY <1>3, <2>2
  <2> HIDE DEF t
  <2> QED BY <1>1, <1>4, <1>5, <2>1, <2>2, <2>3 DEF FillInv, Filled
<1>7. Whole(readme')
  <2>1. TableOf(t, fill.rows, fill.ver)
    BY TableIs
  <2> HIDE DEF t
  <2> QED BY <1>5, <2>1, FilledWhole
<1> QED BY <1>2, <1>6, <1>7 DEF ReadmeAll, ReadmeInv

LEMMA FillCutKept ==
  ASSUME ReadmeAll, FillInterrupted
  PROVE  ReadmeAll'
<1>1. /\ UNCHANGED <<dir, summary, readme>> /\ Started("crashes", MaxCrashes)
      /\ fill' = [NoFill EXCEPT !.pc = "raised"]
  BY DEF FillInterrupted
<1>2. CountInv' /\ count'["crashes"] > 0
  BY <1>1, StartedCounts DEF ReadmeAll
<1>3. fill' = [pc |-> "raised", ver |-> 0, rows |-> {}, text |-> <<>>]
  BY <1>1 DEF NoFill
<1>4. FillInv'
  <2>1. \A r \in summary'.rows : RowOk(r)'
    BY <1>1 DEF ReadmeAll, FillInv, RowOk, Fiber
  <2> QED BY <1>3, <2>1 DEF FillInv
<1>5. ReadmeInv'
  BY <1>1, <1>2 DEF ReadmeAll, ReadmeInv
<1> QED BY <1>2, <1>4, <1>5 DEF ReadmeAll

LEMMA ReadmeInit == Init => ReadmeAll
<1> SUFFICES ASSUME Init PROVE ReadmeAll
  OBVIOUS
<1>1. /\ summary = [exists |-> FALSE, rows |-> {}] /\ fill = NoFill
      /\ count = [gens |-> 0, fills |-> 0, runs |-> 0, crashes |-> 0]
      /\ \E there \in {<<Marker>>, <<Header, Line("row", Gone, 1, "verdict")>>} : readme = Filled(there)
  BY DEF Init, Filled
<1>2. CountInv
  BY <1>1 DEF CountInv
<1>3. FillInv
  BY <1>1 DEF FillInv, NoFill
<1>4. Whole(readme)
  <2>1. CASE readme = Filled(<<Marker>>)
    <3> DEFINE t == <<Marker>>
               K == {Marker}
    <3>1. t \in Seq(K) /\ Len(t) = 1 /\ Len(t) \in Nat /\ t[1] = Marker
      OBVIOUS
    <3> HIDE DEF t, K
    <3>2. /\ Filled(t) \in Seq(ToSet(Filled(t))) /\ Len(Filled(t)) = 3
          /\ Filled(t)[1] = Text("before") /\ Filled(t)[3] = Text("after") /\ Filled(t)[2] = Marker
      <4>1. /\ Filled(t) \in Seq(ToSet(Filled(t))) /\ Len(Filled(t)) = Len(t) + 2
            /\ Filled(t)[1] = Text("before") /\ Filled(t)[Len(t) + 2] = Text("after")
            /\ \A i \in 1 .. Len(t) : Filled(t)[i + 1] = t[i]
        BY <3>1, FilledIs
      <4> QED BY <3>1, <4>1
    <3> QED BY <2>1, <3>2 DEF Whole, t
  <2>2. CASE readme = Filled(<<Header, Line("row", Gone, 1, "verdict")>>)
    <3> DEFINE l == Line("row", Gone, 1, "verdict")
               t == <<Header, l>>
               K == {Header, l}
    <3>1. t \in Seq(K) /\ Len(t) = 2 /\ Len(t) \in Nat /\ t[1] = Header /\ t[2] = l /\ l.kind = "row"
      BY DEF Line
    <3> HIDE DEF t, l, K
    <3>2. /\ Filled(t) \in Seq(ToSet(Filled(t))) /\ Len(Filled(t)) = 4
          /\ Filled(t)[1] = Text("before") /\ Filled(t)[4] = Text("after")
          /\ Filled(t)[2] = Header /\ Filled(t)[3] = l
      <4>1. /\ Filled(t) \in Seq(ToSet(Filled(t))) /\ Len(Filled(t)) = Len(t) + 2
            /\ Filled(t)[1] = Text("before") /\ Filled(t)[Len(t) + 2] = Text("after")
            /\ \A i \in 1 .. Len(t) : Filled(t)[i + 1] = t[i]
        BY <3>1, FilledIs
      <4> QED BY <3>1, <4>1
    <3>3. \A i \in 3 .. 3 : i = 3
      OBVIOUS
    <3>4. readme = Filled(t)
      BY <2>2 DEF t, l
    <3>5. Len(readme) \in Nat /\ Len(readme) >= 3 /\ Len(readme) - 1 = 3
      BY <3>2, <3>4
    <3>6. \A i \in 3 .. Len(readme) - 1 : readme[i].kind = "row"
      BY <3>1, <3>2, <3>4, <3>5, <3>3
    <3>7. \A i, j \in 3 .. Len(readme) - 1 : i = j
      <4>1. 3 .. Len(readme) - 1 = 3 .. 3
        BY <3>5
      <4>2. \A i, j \in 3 .. 3 : i = j
        OBVIOUS
      <4> QED BY <4>1, <4>2, Zenon
    <3> QED BY <3>2, <3>4, <3>5, <3>6, <3>7 DEF Whole
  <2> QED BY <1>1, <2>1, <2>2
<1> QED BY <1>2, <1>3, <1>4 DEF ReadmeAll, ReadmeInv

LEMMA ReadmeNext == DirInv /\ ReadmeAll /\ [Next]_vars => ReadmeAll'
<1> SUFFICES ASSUME DirInv, ReadmeAll, [Next]_vars PROVE ReadmeAll'
  OBVIOUS
<1>0. CountInv /\ \A r \in summary.rows : RowOk(r)
  BY DEF ReadmeAll, FillInv
<1>1. ASSUME UNCHANGED <<dir, summary, fill, readme>>,
             count' = count \/ \E what \in {"gens", "runs", "crashes"} : \E max : Started(what, max)
      PROVE  ReadmeAll'
  <2>1. CountInv' /\ count'["crashes"] >= count["crashes"]
    BY <1>0, <1>1, CountsStay, StartedCounts
  <2>2. \A r \in summary'.rows : RowOk(r)'
    BY <1>0, <1>1 DEF RowOk, Fiber
  <2> QED BY <1>1, <2>1, <2>2, ElsewhereKept
<1>2. CASE Generate \/ Interrupted
  BY <1>1, <1>2 DEF Generate, Interrupted
<1>3. ASSUME NEW g \in Gens, Unlink(g) \/ Truncate(g) \/ Write(g) PROVE ReadmeAll'
  BY <1>1, <1>3 DEF Unlink, Truncate, Write, outside
<1>4. CASE Edit \/ RunCfg \/ RunMC
  BY <1>1, <1>4 DEF Edit, RunCfg, RunMC
<1>5. CASE UNCHANGED vars
  BY <1>1, <1>5 DEF vars
<1> QED BY <1>2, <1>3, <1>4, <1>5, SummarizeKept, FillKept, FillOpenKept, FillWriteKept, FillCutKept DEF Next

LEMMA ReadmeAlways == Spec => []ReadmeAll
<1>1. GenCfgsInv => DirInv
  BY DEF GenCfgsInv
<1> QED BY <1>1, GenCfgsCorrect, ReadmeInit, ReadmeNext, PTL DEF Spec

LEMMA WholeLines ==
  ASSUME Whole(readme)
  PROVE  /\ Head(readme) = Text("before") /\ Last(readme) = Text("after")
         /\ Cardinality({i \in DOMAIN readme : readme[i].kind = "text"}) = 2
         /\ Cardinality({i \in DOMAIN readme : readme[i] \in {Marker, Header}}) = 1
         /\ \A i, j \in DOMAIN readme :
              readme[i].kind = "row" /\ readme[j].kind = "row" /\ i # j => readme[i].name # readme[j].name
<1> DEFINE s == readme
           N == Len(s)
<1>1. /\ s \in Seq(ToSet(s)) /\ DOMAIN s = 1 .. N /\ s[1] = Text("before") /\ s[N] = Text("after")
  BY LenProperties DEF Whole
<1>2. N \in Nat /\ N >= 3
  BY DEF Whole
<1>3. s[2] \in {Marker, Header}
  BY DEF Whole
<1>4. N = 3 \/ \A i \in 3 .. N - 1 : s[i].kind = "row"
  BY DEF Whole
<1>5. N = 3 \/ \A i, j \in 3 .. N - 1 : s[i].name = s[j].name => i = j
  BY DEF Whole
<1>6. Head(s) = s[1] /\ Last(s) = s[N]
  BY DEF Last
<1> HIDE DEF N
<1>7. \A i \in 1 .. N : i = 1 \/ i = 2 \/ i = N \/ (N # 3 /\ i \in 3 .. N - 1)
  BY <1>2
<1>8. 1 # N /\ 2 # N /\ 1 \in 1 .. N /\ 2 \in 1 .. N /\ N \in 1 .. N
  BY <1>2
<1>9. \A i \in 1 .. N : /\ s[i].kind = "text" <=> i = 1 \/ i = N
                        /\ s[i] \in {Marker, Header} <=> i = 2
                        /\ s[i].kind = "row" => N # 3 /\ i \in 3 .. N - 1
  <2> SUFFICES ASSUME NEW i \in 1 .. N
               PROVE  /\ s[i].kind = "text" <=> i = 1 \/ i = N
                      /\ s[i] \in {Marker, Header} <=> i = 2
                      /\ s[i].kind = "row" => N # 3 /\ i \in 3 .. N - 1
    OBVIOUS
  <2>1. CASE i = 1 \/ i = N
    <3>1. \E w : s[i] = Text(w)
      BY <1>1, <2>1
    <3> QED BY <1>8, <2>1, <3>1, LinesApart
  <2>2. CASE i = 2
    BY <1>3, <1>8, <2>2, LinesApart
  <2>3. CASE N # 3 /\ i \in 3 .. N - 1
    <3>1. s[i].kind = "row" /\ i # 1 /\ i # 2 /\ i # N
      BY <1>2, <1>4, <2>3
    <3> QED BY <2>3, <3>1, LinesApart
  <2> QED BY <1>7, <2>1, <2>2, <2>3
<1> HIDE DEF s
<1>10. {i \in DOMAIN s : s[i].kind = "text"} = {1} \cup {N}
  BY <1>1, <1>8, <1>9
<1>11. {i \in DOMAIN s : s[i] \in {Marker, Header}} = {2}
  BY <1>1, <1>8, <1>9
<1>12. Cardinality({1} \cup {N}) = 2
  <2>1. IsFiniteSet({1}) /\ Cardinality({1}) = 1 /\ N \notin {1}
    BY <1>8, FS_Singleton
  <2> QED BY <2>1, FS_AddElement
<1>13. Cardinality({2}) = 1
  BY FS_Singleton
<1>14. \A i, j \in DOMAIN s : s[i].kind = "row" /\ s[j].kind = "row" /\ i # j => s[i].name # s[j].name
  BY <1>1, <1>5, <1>9
<1> QED BY <1>1, <1>6, <1>10, <1>11, <1>12, <1>13, <1>14 DEF s

(* fill-results.py: however often the table is filled in, from whatever    *)
(* summaries and after whatever edits and interruptions, the README keeps  *)
(* its text and has one table, with one row for a name; it is empty only   *)
(* while a fill writes it, or after an interruption.                       *)
THEOREM ReadmeCorrect == Spec => []ReadmeKept
<1>1. ReadmeAll => ReadmeKept
  BY WholeLines DEF ReadmeAll, ReadmeInv, ReadmeKept
<1> QED BY <1>1, ReadmeAlways, PTL

LEMMA TableShown == DirInv /\ ReadmeAll => TableIsSummary
<1> SUFFICES ASSUME DirInv, ReadmeAll, fill.pc = "done" PROVE TableIsSummary
  BY DEF TableIsSummary
<1> DEFINE rs == fill.rows
           v == fill.ver
           with == {r \in rs : r.expect # Empty /\ (Fiber \/ r.result = "verdict")}
           has == WithRow(rs, v)
           t == table(rs, v)
           N == Len(has)
           got == SubSeq(readme, 3, Len(readme) - 1)
<1>1. rows(rs) = with
  <2>1. ASSUME NEW r \in rs PROVE r.fields >= 6 <=> r.expect # Empty /\ (Fiber \/ r.result = "verdict")
    <3>1. RowOk(r)
      BY DEF ReadmeAll, FillInv
    <3>2. CASE r.expect # Empty /\ (Fiber \/ r.result = "verdict")
      <4>1. r.fields = 6
        BY <3>1, <3>2 DEF RowOk
      <4> QED BY <3>2, <4>1
    <3>3. CASE ~(r.expect # Empty /\ (Fiber \/ r.result = "verdict"))
      <4>1. r.fields \in {4, 5}
        BY <3>1, <3>3 DEF RowOk
      <4> QED BY <3>3, <4>1
    <3> QED BY <3>2, <3>3
  <2> QED BY <2>1 DEF rows
<1>2. readme = Filled(t)
  BY DEF ReadmeAll, FillInv
<1>3. TableOf(t, rs, v)
  BY TableIs
<1> HIDE DEF t
<1>4. /\ t \in Seq(ToSet(t)) /\ N \in Nat /\ Len(t) = N + 1 /\ t[1] = Header
      /\ \A i \in 1 .. N :
           /\ t[i + 1].name = has[i]
           /\ \E r \in rows(rs) : r.name = has[i] /\ t[i + 1].result = r.result /\ t[i + 1].expect = r.expect
  BY <1>3 DEF TableOf
<1>5. /\ readme \in Seq(ToSet(readme)) /\ Len(readme) = N + 3
      /\ \A i \in 1 .. N + 1 : readme[i + 1] = t[i]
  <2>1. Len(t) \in Nat /\ Len(t) + 2 = N + 3
    BY <1>4
  <2>2. /\ Filled(t) \in Seq(ToSet(Filled(t))) /\ Len(Filled(t)) = Len(t) + 2
        /\ \A i \in 1 .. Len(t) : Filled(t)[i + 1] = t[i]
    BY <1>4, <2>1, FilledIs
  <2> QED BY <1>2, <1>4, <2>1, <2>2
<1>6. has \in Seq(AllNames \cap {r.name : r \in rows(rs)})
  BY NamesSeq, WithinIs DEF WithRow
<1>7. DOMAIN has = 1 .. N /\ has = [i \in 1 .. N |-> has[i]]
  <2> HIDE DEF has
  <2> QED BY <1>6, LenProperties
<1> HIDE DEF has
<1>8. readme[2] = Header
  <2>1. 1 \in 1 .. N + 1 /\ 1 + 1 = 2
    BY <1>4
  <2> QED BY <1>4, <1>5, <2>1
<1>9. DOMAIN got = 1 .. N /\ \A i \in 1 .. N : got[i] = t[i + 1]
  <2>1. DOMAIN readme = 1 .. N + 3 /\ \A i \in 3 .. N + 2 : readme[i] \in ToSet(readme)
    <3>1. DOMAIN readme = 1 .. N + 3
      BY <1>4, <1>5, LenProperties
    <3>2. \A i \in 3 .. N + 2 : i \in 1 .. N + 3
      BY <1>4
    <3> QED BY <3>1, <3>2 DEF ToSet
  <2>2. (N + 3) - 1 = N + 2 /\ N + 2 \in Int /\ 3 \in Int /\ N + 2 - 3 + 1 = N /\ (3 <= N + 2 <=> 1 <= N)
    BY <1>4
  <2>3. /\ got \in Seq(ToSet(readme)) /\ Len(got) = IF 3 <= N + 2 THEN N + 2 - 3 + 1 ELSE 0
        /\ \A i \in 1 .. N + 2 - 3 + 1 : got[i] = readme[3 + i - 1]
    BY <1>5, <2>1, <2>2, SubSeqProperties
  <2> HIDE DEF got
  <2>4. Len(got) = N
    BY <1>4, <2>2, <2>3
  <2>5. ASSUME NEW i \in 1 .. N PROVE got[i] = t[i + 1]
    <3>1. 3 + i - 1 = (i + 1) + 1 /\ i + 1 \in 1 .. N + 1
      BY <1>4
    <3> QED BY <1>5, <2>2, <2>3, <3>1
  <2>6. DOMAIN got = 1 .. N
    BY <2>3, <2>4, LenProperties
  <2> QED BY <2>5, <2>6
<1> HIDE DEF got
<1>10. [i \in DOMAIN got |-> got[i].name] = Within(Names(v), {r.name : r \in with})
  <2>1. [i \in DOMAIN got |-> got[i].name] = has
    BY <1>4, <1>7, <1>9
  <2>2. has = Within(Names(v), {r.name : r \in with})
    <3> HIDE DEF with, rs, v
    <3> QED BY <1>1 DEF has, WithRow
  <2> QED BY <2>1, <2>2
<1>11. \A i \in DOMAIN got : \E r \in fill.rows :
         r.name = got[i].name /\ r.result = got[i].result /\ r.expect = got[i].expect
  BY <1>4, <1>9 DEF rows
<1> QED BY <1>8, <1>10, <1>11 DEF TableIsSummary, got

(* fill-results.py: after a fill the table has a row for each entry of     *)
(* gen-cfgs.py that the summary it read has a full row for, in the order   *)
(* of the table and with the result of the summary, and no others.         *)
THEOREM TableCorrect == Spec => []TableIsSummary
<1>1. GenCfgsInv => DirInv
  BY DEF GenCfgsInv
<1> QED BY <1>1, GenCfgsCorrect, ReadmeAlways, TableShown, PTL

=============================================================================
