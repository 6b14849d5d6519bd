----------------------------- MODULE LitmusAsm -----------------------------
(***************************************************************************)
(* litmus/gen-asm.py: the litmus tests of the mntput() protocol as         *)
(* programs of abstract operations, their translation for AArch64 and PPC, *)
(* and what the translated programs may do.                                *)
(*                                                                         *)
(* The machine is external: herd7's models, simplified to two threads that *)
(* perform their accesses out of order on one memory.  An access waits for *)
(* an earlier one of its thread when a fence, an acquire, a release, a     *)
(* branch followed by isync or their common address orders the two; a      *)
(* store also waits for the branches before it, while a load may be        *)
(* speculated and reads an earlier store of its thread before that is in   *)
(* memory.  A swap is a read and a write of their own, as in herd7, and so *)
(* are lwarx and stwcx.: the write is performed only if nothing else has   *)
(* been written since what the read found.  Executions that the tests'     *)
(* filter clause drops are not followed any further: those in which a lock *)
(* is found held, or a reservation is lost.                                *)
(*                                                                         *)
(* Registers and addresses keep their logical names.                       *)
(***************************************************************************)
EXTENDS Integers, SequencesExt

CONSTANTS
    Archs,      \* the architectures
    Names       \* the tests that are run

VARIABLES
    arch, name,     \* the test, and for what
    test,           \* its file
    mem,            \* per variable, the last write to it
    done,           \* per thread, the accesses that it performed
    from            \* per thread, the write that each of its loads reads

vars == <<arch, name, test, mem, done, from>>

Threads == 1 .. 2       \* P0 and P1

-----------------------------------------------------------------------------
(* The abstract programs *)

st(v, x)  == <<"st", v, x>>
ld(r, v)  == <<"ld", r, v>>
wmb       == <<"wmb">>
rmb       == <<"rmb">>
mb        == <<"mb">>
Opt(c, ops) == IF c THEN ops ELSE <<>>

lock(q)   == <<"lock", "mlock", q>>
unlock    == <<"unlock", "mlock">>
label(l)  == <<"label", l>>
brz(r, l)         == <<"brz", r, l>>
brnz(r, l)        == <<"brnz", r, l>>
brne(r, n, l)     == <<"brne", r, n, l>>
brne_reg(r, q, l) == <<"brne_reg", r, q, l>>

(* mnt_get_count(): one pass, its barrier, the other pass.                 *)
count(puts_pass, inner_mb, gets_pass) == puts_pass \o Opt(inner_mb, <<mb>>) \o gets_pass

Finish == <<st("flags", 3), st("freed", 1)>>

(* The unmounter: the section that takes the mount out of the tree, or for *)
(* kern_unmount() an unlocked store, and the section that looks at the     *)
(* count and, if it is to decide, finishes the mount off.                  *)
Default == [first_locked |-> TRUE, flags_sync |-> FALSE, outer_mb |-> TRUE, gets_first |-> FALSE,
            inner_mb |-> TRUE, decide |-> FALSE, gets |-> "gets_h", puts |-> "puts_h"]

unmounter_sections(o) ==
    LET puts_pass == <<ld("r1", o.puts), ld("r2", "puts_u")>>
        gets_pass == <<ld("r3", o.gets), ld("r4", "gets_u")>>
    IN (IF o.first_locked
        THEN <<lock("q1"), st("seq", 1), wmb, st("mnt_ns", 0)>> \o Opt(o.flags_sync, <<st("flags", 1)>>)
               \o <<wmb, st("seq", 2), unlock, lock("q2"), st("seq", 3), wmb>>
        ELSE <<st("mnt_ns", 0), lock("q2"), st("seq", 1), wmb>>)
       \o Opt(o.outer_mb, <<mb>>)
       \o (IF o.gets_first THEN count(gets_pass, o.inner_mb, puts_pass) ELSE count(puts_pass, o.inner_mb, gets_pass))
       \o Opt(o.decide, <<brnz("r3", "L1")>> \o Finish \o <<label("L1"), brne("r3", 1, "L2"), brne("r1", 1, "L2")>>
                          \o Finish \o <<label("L2")>>)
       \o <<wmb, st("seq", IF o.first_locked THEN 4 ELSE 2), unlock>>

(* The holder takes a reference and drops one on the fast path.            *)
holder_a1(with_wmb) ==
    <<st("gets_h", 2), ld("r0", "mnt_ns"), brz("r0", "L0")>> \o Opt(with_wmb, <<wmb>>)
    \o <<st("puts_h", 1), label("L0")>>

(* Here it looks again whether the mount is still in a namespace.          *)
holder_d1(full) ==
    <<ld("r0", "mnt_ns"), brz("r0", "L0"), wmb, st("puts_h", 1), IF full THEN mb ELSE wmb, ld("r1", "mnt_ns"),
      label("L0")>>

(* __legitimize_mnt().                                                     *)
walker(with_mb, locked) ==
    <<ld("r0", "seq"), rmb, rmb, ld("r1", "seq"), brnz("r1", "Lend"), st("gets_w", 1)>>
    \o Opt(with_mb, <<mb>>) \o <<rmb, ld("r2", "seq"), brz("r2", "Lend")>>
    \o Opt(locked, <<lock("q0")>>)
    \o <<ld("r3", "flags"), brz("r3", "Lskip"), st("puts_w", 1), label("Lskip")>>
    \o Opt(locked, <<unlock>>) \o <<label("Lend")>>

(* mntput_no_expire_slowpath() without its own barrier.                    *)
e1_slowpath ==
    <<lock("q1"), st("seq", 1), wmb, st("mnt_ns", 0), st("flags", 1), wmb, st("seq", 2), unlock,
      lock("q2"), st("seq", 3), wmb, st("puts_u", 1)>>
    \o count(<<ld("r1", "puts_w"), ld("r2", "puts_u")>>, TRUE, <<ld("r3", "gets_w"), ld("r4", "gets_u")>>)
    \o <<brne_reg("r3", "r1", "L1")>> \o Finish \o <<label("L1"), wmb, st("seq", 4), unlock>>

(* The busy check of do_umount() without its own barrier.                  *)
e2_busycheck ==
    <<lock("q1"), st("seq", 1), wmb>>
    \o count(<<ld("r1", "puts_w"), ld("r2", "puts_u")>>, TRUE, <<ld("r3", "gets_w"), ld("r4", "gets_u")>>)
    \o <<brne_reg("r3", "r1", "L1"), st("mnt_ns", 0), st("flags", 1), st("freed", 1), label("L1"), wmb, st("seq", 2), unlock>>

(* Only the section that peeks.                                            *)
unmounter_b2_reduced ==
    <<lock("q2"), st("seq", 1), wmb>> \o count(<<ld("r1", "puts_w")>>, TRUE, <<ld("r3", "gets_w")>>)
    \o <<brne_reg("r3", "r1", "L1"), st("flags", 3), label("L1"), wmb, st("seq", 2), unlock>>

-----------------------------------------------------------------------------
(* The tests *)

Variables == {"mlock", "seq", "mnt_ns", "flags", "freed", "gets_h", "puts_h", "gets_w", "puts_w", "gets_u", "puts_u"}

A1_INIT == {"mnt_ns", "gets_h", "gets_u"}       \* what is 1 at first
B_INIT  == {"mnt_ns", "gets_u"}

(* Init, the two threads, and what the test looks for: "never" it or       *)
(* "sometimes" it.                                                         *)
TESTS ==
    LET entry(init, p0, p1, exists, expect) == [init |-> init, ops |-> <<p0, p1>>, exists |-> exists, expect |-> expect]
        um    == unmounter_sections(Default)
        B     == [Default EXCEPT !.decide = TRUE, !.gets = "gets_w", !.puts = "puts_w"]
        peek  == unmounter_sections([B EXCEPT !.flags_sync = TRUE])
        lazy  == unmounter_sections(B)
        h     == holder_a1(TRUE)
        w     == walker(TRUE, TRUE)
    IN [A1        |-> entry(A1_INIT, h, um, "lost get", "never"),
        A1m_nowmb |-> entry(A1_INIT, holder_a1(FALSE), um, "lost get", "sometimes"),
        A1m_nomb  |-> entry(A1_INIT, h, unmounter_sections([Default EXCEPT !.inner_mb = FALSE]), "lost get", "sometimes"),
        A1m_gets  |-> entry(A1_INIT, h, unmounter_sections([Default EXCEPT !.gets_first = TRUE]), "lost get", "sometimes"),
        C1        |-> entry(A1_INIT, h, unmounter_sections([Default EXCEPT !.first_locked = FALSE]), "lost get", "never"),
        D1        |-> entry(A1_INIT, holder_d1(TRUE), um, "missed put", "never"),
        D1m       |-> entry(A1_INIT, holder_d1(FALSE), um, "missed put", "sometimes"),
        B1        |-> entry(B_INIT, w, peek, "valid", "never"),
        B1m_nomb  |-> entry(B_INIT, walker(FALSE, TRUE), peek, "valid", "sometimes"),
        B1m_peek  |-> entry(B_INIT, w, unmounter_sections([B EXCEPT !.flags_sync = TRUE, !.outer_mb = FALSE]),
                           "valid", "never"),
        B2        |-> entry(B_INIT, w, lazy, "no flag", "never"),
        E1        |-> entry(B_INIT, w, e1_slowpath, "valid", "never"),
        E2        |-> entry(B_INIT, w, e2_busycheck, "valid", "never"),
        B2r       |-> entry({}, w, unmounter_b2_reduced, "no flag, reduced", "never"),
        B2m       |-> entry(B_INIT, walker(TRUE, FALSE), lazy, "no flag", "sometimes")]

WALKER_TESTS == {"B1", "B1m_nomb", "B1m_peek", "B2", "E1", "E2", "B2r", "B2m"}

ASSUME LitmusAsmAssumption == Archs \subseteq {"AArch64", "PPC"} /\ Names \subseteq DOMAIN TESTS

-----------------------------------------------------------------------------
(* Translation *)

(* Instructions.  A fence orders accesses of two kinds, a taken branch     *)
(* skips what comes before its label; one on no register is on whether the *)
(* conditional store before it succeeded.                                  *)
All   == {"R", "W"} \X {"R", "W"}
Fence(pairs)    == [k |-> "fence", pairs |-> pairs]
ISync           == [k |-> "isync"]
Load(r, x)      == [k |-> "load", reg |-> r, at |-> x, acquire |-> FALSE]
Store(x, v)     == [k |-> "store", at |-> x, v |-> v, release |-> FALSE]
Linked(r, x)    == [k |-> "linked", reg |-> r, at |-> x, acquire |-> FALSE]
Conditional(x)  == [k |-> "conditional", at |-> x, v |-> 1, release |-> FALSE]
Branch(taken, rs, n, l) == [k |-> "branch", taken |-> taken, regs |-> rs, n |-> n, label |-> l]
Label(l)        == [k |-> "label", label |-> l]

(* Mutant: the first version, which branches on stwcx.'s result only.      *)
PPC_lock_First(r, x) ==
    LET fail == <<"Lfail", r>>
    IN <<Linked(r, x), Conditional(x), Branch("ne", <<>>, 0, fail), Label(fail), ISync>>

(* lwarx; cmpwi; bne; stwcx.; bne; isync.  A lock of a program has a       *)
(* register of its own.                                                    *)
PPC_lock(r, x) ==
    LET fail == <<"Lfail", r>>
    IN <<Linked(r, x), Branch("ne", <<r>>, 0, fail), Conditional(x), Branch("ne", <<>>, 0, fail), ISync, Label(fail)>>

(* Mutant: the lock is released by a plain store.                          *)
PPC_unlock_Plain(x) == <<Store(x, 0)>>

(* lwsync; stw                                                             *)
PPC_unlock(x) == <<Fence(All \ {<<"W", "R">>}), Store(x, 0)>>

(* SWPA and STLR                                                           *)
AArch64_lock(r, x) == <<[Linked(r, x) EXCEPT !.acquire = TRUE], Conditional(x)>>
AArch64_unlock(x)  == <<[Store(x, 0) EXCEPT !.release = TRUE]>>

(* The barriers: DMB ISHST, DMB ISHLD and DMB ISH, or lwsync and sync.     *)
AArch64(k) == CASE k = "wmb" -> {<<"W", "W">>} [] k = "rmb" -> {<<"R", "R">>, <<"R", "W">>} [] k = "mb" -> All
PPC(k)     == IF k = "mb" THEN All ELSE All \ {<<"W", "R">>}

lines(a, ops) ==
    LET instr(op) ==
          CASE op[1] = "st"       -> <<Store(op[2], op[3])>>
            [] op[1] = "ld"       -> <<Load(op[2], op[3])>>
            [] op[1] \in {"wmb", "rmb", "mb"} -> <<Fence(IF a = "AArch64" THEN AArch64(op[1]) ELSE PPC(op[1]))>>
            [] op[1] = "lock"     -> IF a = "AArch64" THEN AArch64_lock(op[3], op[2]) ELSE PPC_lock(op[3], op[2])
            [] op[1] = "unlock"   -> IF a = "AArch64" THEN AArch64_unlock(op[2]) ELSE PPC_unlock(op[2])
            [] op[1] = "brz"      -> <<Branch("eq", <<op[2]>>, 0, op[3])>>
            [] op[1] = "brnz"     -> <<Branch("ne", <<op[2]>>, 0, op[3])>>
            [] op[1] = "brne"     -> <<Branch("ne", <<op[2]>>, op[3], op[4])>>
            [] op[1] = "brne_reg" -> <<Branch("ne", <<op[2], op[3]>>, 0, op[4])>>
            [] op[1] = "label"    -> <<Label(op[2])>>
    IN FlattenSeq([i \in DOMAIN ops |-> instr(ops[i])])

(* A test as written.                                                      *)
emit(a, n) ==
    [init   |-> TESTS[n].init,
     code   |-> [t \in Threads |-> lines(a, TESTS[n].ops[t])],
     filter |-> n \in WALKER_TESTS,
     exists |-> TESTS[n].exists,
     expect |-> TESTS[n].expect]

-----------------------------------------------------------------------------
(* The machine *)

Code(t)     == test.code[t]
Is(t, i, k) == Code(t)[i].k \in k
IsRead(t, i)  == Is(t, i, {"load", "linked"})
IsWrite(t, i) == Is(t, i, {"store", "conditional"})
Accesses(t)   == {i \in DOMAIN Code(t) : IsRead(t, i) \/ IsWrite(t, i)}
Kind(t, i)    == IF IsRead(t, i) THEN "R" ELSE "W"
Location(t, i) == Code(t)[i].at

(* A write is known by its place, the initial one of a variable by its     *)
(* name.                                                                   *)
Initial(v)  == <<0, v>>
Written(w)  == IF w[1] = 0 THEN IF w[2] \in test.init THEN 1 ELSE 0 ELSE Code(w[1])[w[2]].v
Performed(w) == w[1] # 0 => w[2] \in done[w[1]]
Value(t, i) == Written(from[t][i])

(* The access that a register has its value from; the programs load each   *)
(* register once.                                                          *)
Source(t, r) == CHOOSE i \in Accesses(t) : IsRead(t, i) /\ Code(t)[i].reg = r

(* The reservation of a conditional store.                                 *)
Reservation(t, i) == Max({j \in 1 .. i - 1 : Is(t, j, {"linked"})})

Resolved(t, b) == \A k \in DOMAIN Code(t)[b].regs : Source(t, Code(t)[b].regs[k]) \in done[t]

(* The branches on a conditional store are not taken where it is followed. *)
Taken(t, b) ==
    LET rs == Code(t)[b].regs
        x  == Value(t, Source(t, rs[1]))
        y  == IF Len(rs) = 2 THEN Value(t, Source(t, rs[2])) ELSE Code(t)[b].n
    IN rs # <<>> /\ Code(t)[b].taken = IF x = y THEN "eq" ELSE "ne"
Target(t, b) == CHOOSE i \in DOMAIN Code(t) : Is(t, i, {"label"}) /\ Code(t)[i].label = Code(t)[b].label

(* An earlier branch is known to skip i; the branches nest.                *)
Skipped(t, i) ==
    \E b \in 1 .. i - 1 : Is(t, b, {"branch"}) /\ Resolved(t, b) /\ Taken(t, b) /\ i < Target(t, b)

(* Does a branch on what j read, and an isync after it, come before i?     *)
ControlISync(t, j, i) ==
    \E b, f \in j + 1 .. i - 1 :
       /\ Is(t, b, {"branch"}) /\ b < f /\ Is(t, f, {"isync"})
       /\ \E k \in DOMAIN Code(t)[b].regs : Source(t, Code(t)[b].regs[k]) = j

(* Must j be performed before the later access i?                          *)
Before(t, j, i) ==
    \/ Location(t, j) = Location(t, i) /\ ~(Is(t, j, {"store"}) /\ IsRead(t, i))
    \/ IsRead(t, j) /\ Code(t)[j].acquire
    \/ IsWrite(t, i) /\ Code(t)[i].release
    \/ ControlISync(t, j, i)
    \/ \E f \in j + 1 .. i - 1 :
          Is(t, f, {"fence"}) /\ ~Skipped(t, f) /\ <<Kind(t, j), Kind(t, i)>> \in Code(t)[f].pairs

Ready(t, i) ==
    /\ i \notin done[t] /\ ~Skipped(t, i)
    /\ IsWrite(t, i) => \A b \in 1 .. i - 1 : Is(t, b, {"branch"}) /\ ~Skipped(t, b) => Resolved(t, b)
    /\ \A j \in Accesses(t) : j < i /\ j \notin done[t] /\ ~Skipped(t, j) => ~Before(t, j, i)

(* A load reads the thread's latest store before it, if memory has not.    *)
Reads(t, i) ==
    LET own == {j \in Accesses(t) : j < i /\ Is(t, j, {"store"}) /\ j \notin done[t] /\ ~Skipped(t, j)
                                      /\ Location(t, j) = Location(t, i)}
    IN IF own = {} THEN mem[Location(t, i)] ELSE <<t, Max(own)>>

Read(t, i) ==
    /\ IsRead(t, i) /\ Ready(t, i)
    /\ Is(t, i, {"linked"}) => Written(Reads(t, i)) = 0
    /\ from' = [from EXCEPT ![t] = (i :> Reads(t, i)) @@ @]
    /\ done' = [done EXCEPT ![t] = @ \cup {i}]
    /\ UNCHANGED <<arch, name, test, mem>>

Write(t, i) ==
    /\ IsWrite(t, i) /\ Ready(t, i)
    /\ Is(t, i, {"conditional"}) => mem[Location(t, i)] = from[t][Reservation(t, i)]
    /\ mem' = [mem EXCEPT ![Location(t, i)] = <<t, i>>]
    /\ done' = [done EXCEPT ![t] = @ \cup {i}]
    /\ UNCHANGED <<arch, name, test, from>>

Finished == \A t \in Threads : \A i \in Accesses(t) : i \in done[t] \/ Skipped(t, i)

(* Somebody else wrote between a reservation and its conditional store.    *)
Lost ==
    \E t \in Threads : \E i \in Accesses(t) \ done[t] :
       LET l == Reservation(t, i)
       IN Is(t, i, {"conditional"}) /\ l \in done[t] /\ Performed(from[t][l]) /\ mem[Location(t, i)] # from[t][l]

Init ==
    /\ arch \in Archs /\ name \in Names
    /\ test = emit(arch, name)
    /\ mem = [v \in Variables |-> Initial(v)]
    /\ done = [t \in Threads |-> {}]
    /\ from = [t \in Threads |-> <<>>]

Next ==
    \/ ~Lost /\ \E t \in Threads : \E i \in Accesses(t) : Read(t, i) \/ Write(t, i)
    \/ (Finished \/ Lost) /\ UNCHANGED vars

Spec == Init /\ [][Next]_vars

-----------------------------------------------------------------------------
(* Outcomes *)

(* A register of P0 or P1 in the end: 0 if its load was skipped.           *)
Register(t, r) ==
    LET i == Source(t + 1, r)
    IN IF Skipped(t + 1, i) THEN 0 ELSE Value(t + 1, i)

(* The filter clause; its other part is that locks are found free.         *)
filter == test.filter => Register(0, "r0") = 0

(* What the test looks for.                                                *)
exists ==
    LET r(t, x) == Register(t, x) IN
    CASE test.exists = "lost get"   -> r(0, "r0") = 1 /\ r(1, "r1") = 1 /\ r(1, "r3") = 1
      [] test.exists = "missed put" -> r(0, "r0") = 1 /\ r(0, "r1") = 1 /\ r(1, "r1") = 0
      [] test.exists = "valid"      -> r(0, "r1") = 0 /\ r(0, "r2") = 0 /\ Written(mem["freed"]) = 1
      [] test.exists = "no flag"    -> r(0, "r1") = 0 /\ r(0, "r2") # 0 /\ r(0, "r3") = 0 /\ Written(mem["freed"]) = 1
      [] test.exists = "no flag, reduced" ->
                                              r(0, "r1") = 0 /\ r(0, "r2") # 0 /\ r(0, "r3") = 0 /\ Written(mem["flags"]) = 3

-----------------------------------------------------------------------------
(* Properties *)

(* The expectation "Never" of the tests: a holder's put is not counted     *)
(* without its get, a put or its second look at the namespace is seen, a   *)
(* walker whose check succeeded or who found no flag has no freed mount.   *)
NeverHolds == Finished /\ filter /\ test.expect = "never" => ~exists

(* The instructions emitted for spin_lock() and spin_unlock() keep the     *)
(* accesses of a critical section inside it, on both architectures: none   *)
(* is performed before the lock was read free, and the lock is not free    *)
(* again before it is taken and they all are performed.                    *)
SectionsHold ==
    \A t \in Threads : \A l, u \in Accesses(t) :
       /\ Is(t, l, {"linked"}) /\ l < u /\ Is(t, u, {"store"}) /\ Location(t, u) = "mlock"
       /\ \A i \in l + 1 .. u - 1 : Is(t, i, {"store"}) => Location(t, i) # "mlock"
       => \A i \in Accesses(t) : l < i /\ i < u =>
            /\ i \in done[t] /\ ~Skipped(t, i) => l \in done[t]
            /\ u \in done[t] => i \in done[t] \/ Skipped(t, i)

=============================================================================
