------------------------- MODULE MountBarriersProofs -------------------------
(***************************************************************************)
(* The assertions of main() in dat3m/mnt_gp.c hold in every scenario,      *)
(* whatever order the stores of the two threads become visible in.  One    *)
(* inductive invariant says what is in memory or still in a buffer, who    *)
(* holds mount_lock, and what the unmounter's count has come to so far.    *)
(***************************************************************************)
EXTENDS MountBarriers, FiniteSetTheorems, SequenceTheorems, TLAPS

-----------------------------------------------------------------------------
(* The places that change, and who stores what in them                     *)

(* The slots in which the holder or the walker (H) and the unmounter (U)   *)
(* count; all others stay zero.                                            *)
GH == <<"gets", HCPU>>
GU == <<"gets", UCPU>>
PU == <<"puts", UCPU>>
PH(s) == <<"puts", IF s = "A1MIG" THEN 2 ELSE HCPU>>

Taking(s)   == s \in {"A1", "A1MIG", "C1"}
Dropping(s) == s \in {"A2", "C2"}

(* The slot GH before and after T0 gets a reference.                       *)
First(s) == IF IsWalk(s) THEN 0 ELSE 1

AllSlots == Slots("puts") \cup Slots("gets")
Counting == {"count", "counted"}

(* The stores of a thread that are not in memory.                          *)
Pending(t) == {buf[t][i].loc : i \in DOMAIN buf[t]} \ {WMB.loc}

Owned(s, t) ==
    {flags, freed, mount_seq, mount_lock} \cup IF t = T0 THEN {GH, PH(s)} ELSE {PU, mnt_ns}

Stored(s, l, v) ==
    /\ l \in {mnt_ns, mount_lock} => v = 0
    /\ l \in {PU, PH(s)} => v = 1
    /\ l = GH => v = First(s) + 1
    /\ l = mount_seq => v >= 1
    /\ l = flags => v \in 1 .. 3
    /\ l = freed => v >= 1 /\ (Dropping(s) => v = 1)

Entries == [loc : Locations \cup {WMB.loc}, val : Nat]

BufOk ==
    /\ buf \in [Threads -> Seq(Entries)]
    /\ \A t \in Threads : \A i \in DOMAIN buf[t] :
         \/ buf[t][i] = WMB
         \/ buf[t][i].loc \in Owned(scen, t) /\ Stored(scen, buf[t][i].loc, buf[t][i].val)

MemOk ==
    /\ mem \in [Locations -> Nat]
    /\ mem[GU] = 1 /\ mem[GH] \in {First(scen), First(scen) + 1}
    /\ mem[PH(scen)] \in {0, 1} /\ mem[PU] \in {0, 1}
    /\ \A l \in AllSlots \ {GU, GH, PU, PH(scen)} : mem[l] = 0
    /\ mem[mnt_ns] \in {0, 1} /\ mem[flags] \in 0 .. 3 /\ mem[mount_lock] \in {0, 1}
    /\ Dropping(scen) => mem[freed] \in {0, 1}

-----------------------------------------------------------------------------
(* The lock *)

InLock(t) == pc[t] \in {"slow_dec", "legit_flags", "tree", "peek"} \cup Counting

(* Until the store that releases it is in memory.                          *)
Holds(t) == InLock(t) \/ mount_lock \in Pending(t)

LockOk ==
    /\ \A t \in Threads : Holds(t) => mem[mount_lock] = 1
    /\ ~(Holds(T0) /\ Holds(T1))
    /\ \A t \in Threads : mount_lock \in Pending(t) => pc[t] \in {"done", "walker_end", "peek_lock", "gp"}
    /\ \A t \in Threads : \A l \in {mount_seq, flags, freed, PU} : l \in Pending(t) => Holds(t)
    /\ PH(scen) \in Pending(T0) => Holds(T0) \/ saw.path[T0] = "fast"

(* The release is the last store, and not before the others.               *)
UnlockLast ==
    \A t \in Threads : \A i \in DOMAIN buf[t] :
        buf[t][i].loc = mount_lock => i = Len(buf[t]) /\ i > 1 /\ buf[t][i - 1] = WMB

(* The put is not before the get.                                          *)
GetFirst ==
    \A i, j \in DOMAIN buf[T0] :
        buf[T0][i].loc = PH(scen) /\ buf[T0][j].loc = GH => \E k \in j + 1 .. i - 1 : buf[T0][k] = WMB

-----------------------------------------------------------------------------
(* How far the threads are *)

Late == {"gp", "put", "put_ns", "slow_lock", "slow_dec", "done"} \cup Counting

Final0 == saw.path[T0] = "slow_final"
Final1 == saw.path[T1] = "slow_final" \/ (scen # "D1" /\ saw.peek = 1)

(* U's reference was put, and T0's.                                        *)
Put1 == (pc[T1] = "done" /\ scen # "D1") \/ (pc[T1] \in Counting /\ saw.fallback)
Put0 == IF IsWalk(scen) THEN saw.flags # 0
                        ELSE pc[T0] \in {"recheck", "put_end", "done"} \cup Counting

Slow == {"slow_held", "slow_doomed", "slow_final"}

T1Ok ==
    /\ pc[T1] \in {"unmount", "tree", "peek_lock", "peek"} \cup Late
    /\ pc[T1] \in {"gp", "put", "put_ns", "slow_lock", "slow_dec"} => saw.fallback
    /\ pc[T1] \in {"unmount", "tree", "peek_lock", "peek"} => ~saw.fallback
    /\ pc[T1] # "done" => saw.path[T1] = "none" /\ (~saw.fallback => saw.peek = 0)
    /\ scen = "D1" => ~saw.fallback
    /\ saw.fallback => saw.peek # 1
    /\ saw.path[T1] \in Slow \cup {"none"}
    /\ pc[T1] = "done" /\ scen # "D1" => IF saw.fallback THEN saw.path[T1] \in Slow ELSE saw.peek = 1
    /\ saw.path[T1] = "slow_final" => saw.slow[T1] = 0
    /\ IF Put1 THEN mem[PU] = 1 \/ PU \in Pending(T1) ELSE mem[PU] = 0 /\ PU \notin Pending(T1)
    /\ pc[T1] \in {"peek_lock", "peek"} => mem[mnt_ns] = 0 \/ mnt_ns \in Pending(T1)
    /\ pc[T1] \in {"tree", "peek"} => mem[mount_seq] >= 1 \/ mount_seq \in Pending(T1)
    /\ pc[T1] \in Late => mem[mnt_ns] = 0 /\ mem[mount_seq] >= 1

HolderPcs == {"holder", "put", "put_ns", "recheck", "put_end", "slow_lock", "slow_dec", "done"} \cup Counting
WalkerPcs == {"walker", "seqbegin", "legit", "legit_retry", "legit_lock", "legit_flags", "walker_end", "done"}

T0Ok ==
    /\ pc[T0] \in IF IsWalk(scen) THEN WalkerPcs ELSE HolderPcs
    /\ IF Put0 THEN mem[PH(scen)] = 1 \/ PH(scen) \in Pending(T0)
               ELSE mem[PH(scen)] = 0 /\ PH(scen) \notin Pending(T0)

HolderOk ==
    ~IsWalk(scen) =>
    /\ IF Taking(scen) /\ pc[T0] # "holder" THEN mem[GH] = 2 \/ GH \in Pending(T0)
                                            ELSE mem[GH] = 1 /\ GH \notin Pending(T0)
    /\ pc[T0] \in {"recheck", "put_end"} => saw.path[T0] = "fast"
    /\ pc[T0] = "done" => saw.path[T0] \in Slow \cup {"fast"}
    /\ pc[T0] \notin {"recheck", "put_end", "done"} => saw.path[T0] = "none"
    /\ pc[T0] \in {"put_ns", "recheck", "put_end", "slow_lock", "slow_dec"} \cup Counting => in_rcu[T0]
    /\ pc[T0] \in Counting /\ GU \notin todo[T0] => mem[PH(scen)] = 1
    /\ saw.path[T0] \in Slow => mem[PH(scen)] = 1
    /\ pc[T0] = "recheck" => scen = "D1"
    /\ saw.res = 1

Ended == pc[T0] \in {"walker_end", "done"}
Kept  == saw.res = 0 \/ (Ended /\ saw.r2 /\ saw.flags = 0)

WalkerOk ==
    IsWalk(scen) =>
    /\ saw.path[T0] = "none"
    /\ pc[T0] \in {"walker", "seqbegin", "legit"} => mem[GH] = 0 /\ GH \notin Pending(T0)
    /\ pc[T0] = "legit_retry" => mem[GH] = 1 \/ GH \in Pending(T0)
    /\ pc[T0] \in {"legit_lock", "legit_flags"} \/ Kept => mem[GH] = 1
    /\ ~Ended => saw.flags = 0 /\ saw.res = 1
    /\ saw.res = 0 => saw.flags = 0
    /\ pc[T0] \in {"walker", "seqbegin", "legit", "legit_retry"} => ~saw.r2

(* Who finished the mount left its marks.                                  *)
FreeOk ==
    /\ \A l \in {freed, flags} : l \in Pending(T0) => Final0
    /\ freed \in Pending(T1) => Final1
    /\ mem[freed] # 0 => Final0 \/ Final1
    /\ \A l \in {freed, flags} : (Final0 => mem[l] # 0 \/ l \in Pending(T0)) /\ (Final1 => mem[l] # 0 \/ l \in Pending(T1))
    /\ Dropping(scen) => (flags \in Pending(T1) => Final1) /\ (mem[flags] # 0 => Final0 \/ Final1)

-----------------------------------------------------------------------------
(* Counting *)

If(c, v) == IF c THEN v ELSE 0

(* The sums so far, with what is still to be read as it is now.            *)
Sum0 == sum[T0] + If(GH \in todo[T0], IF Taking(scen) THEN 2 ELSE 1) + If(GU \in todo[T0], 1)
          - If(PH(scen) \in todo[T0], 1) - If(PU \in todo[T0], mem[PU])
Own1 == If(saw.fallback, 1)
Sum1 == sum[T1] + If(GH \in todo[T1], mem[GH]) + If(GU \in todo[T1], 1)
          - If(PH(scen) \in todo[T1], mem[PH(scen)]) - If(PU \in todo[T1], Own1)

CountOk ==
    \A t \in Threads :
       /\ sum[t] \in Int
       /\ pc[t] \in Counting => todo[t] \subseteq AllSlots
       /\ pc[t] = "counted" => todo[t] = {}

Count0Ok == pc[T0] \in Counting => Sum0 = (IF Taking(scen) THEN 2 ELSE 1) - mem[PU]

(* Until U has read T0's put, it has read nothing but puts of its own.     *)
Count1Ok == pc[T1] \in Counting /\ PH(scen) \in todo[T1] => Sum1 = mem[GH] + 1 - mem[PH(scen)] - Own1
Gets1Ok  == pc[T1] \in Counting /\ todo[T1] \cap Slots("puts") # {} => {GH, GU} \subseteq todo[T1]

TakingOk ==
    Taking(scen) =>
    /\ GetFirst
    /\ mem[PH(scen)] = 1 => mem[GH] = 2
    /\ ~Final0 /\ ~Final1
    /\ pc[T1] \in Counting => Sum1 >= 2 - Own1

AfterGp == saw.fallback /\ pc[T1] # "gp"

DroppingOk ==
    Dropping(scen) =>
    /\ pc[T1] \in Counting => 2 - Own1 - mem[PH(scen)] <= Sum1 /\ Sum1 <= 2 - Own1
    /\ AfterGp => pc[T0] \notin {"recheck", "put_end"} /\ (saw.path[T0] = "fast" => mem[PH(scen)] = 1)
    /\ pc[T1] \in Counting /\ saw.fallback => Sum1 = 1 - mem[PH(scen)]
    /\ Final1 => pc[T0] \in {"put_end", "done"} /\ ~Final0
    /\ Final0 => pc[T1] = "done"
    /\ pc[T1] = "done" /\ ~Final1 => Final0 \/ ~Put0 \/ pc[T0] \in Counting

KeptOk ==
    IsWalk(scen) /\ Kept => ~Final1 /\ (pc[T1] \in Counting => Sum1 = 2 - Own1)

SeenOk ==
    scen = "D1" /\ saw.ns2 = 1 =>
       /\ mem[PH(scen)] = 1
       /\ saw.peek # 2 /\ (pc[T1] \in Counting => Sum1 = 1)

Sights == [path : [Threads -> Slow \cup {"fast", "none"}], slow : [Threads -> Int], ns2 : Nat, peek : Int,
           fallback : BOOLEAN, res : Int, r1 : BOOLEAN, r2 : BOOLEAN, flags : Nat]

ShapeOk ==
    /\ scen \in Scenarios /\ pc = [t \in Threads |-> pc[t]] /\ in_rcu \in [Threads -> BOOLEAN]
    /\ todo \in [Threads -> SUBSET AllSlots] /\ sum \in [Threads -> Int]
    /\ saw \in Sights

Inv ==
    /\ ShapeOk /\ BufOk /\ MemOk /\ LockOk /\ UnlockLast
    /\ T1Ok /\ T0Ok /\ HolderOk /\ WalkerOk /\ FreeOk
    /\ CountOk /\ Count0Ok /\ Count1Ok /\ Gets1Ok
    /\ TakingOk /\ DroppingOk /\ KeptOk /\ SeenOk

-----------------------------------------------------------------------------
(* The places are different                                                *)

(* Who counts where: no two count in one slot.                             *)
LEMMA SlotsApart ==
  /\ GH \in Slots("gets") /\ GU \in Slots("gets") /\ PU \in Slots("puts") /\ GH # GU
  /\ Slots("gets") \cap Slots("puts") = {}
  /\ \A s : PH(s) # PU
  /\ \A s \in Scenarios : PH(s) \in Slots("puts")
<1> USE ScenarioAssumption
<1>1. GH \in Slots("gets") /\ GU \in Slots("gets") /\ PU \in Slots("puts") /\ GH # GU
  BY DEF GH, GU, PU, Slots, HCPU, UCPU
<1>2. Slots("gets") \cap Slots("puts") = {}
  BY DEF Slots
<1>3. \A s : PH(s) # PU
  BY DEF PH, PU, HCPU, UCPU
<1>4. \A s \in Scenarios : PH(s) \in Slots("puts")
  BY DEF PH, Slots, HCPU
<1> QED BY <1>1, <1>2, <1>3, <1>4

(* The variables are no slots, and no barrier is a store.                  *)
LEMMA VarsApart ==
  /\ mnt_ns # flags /\ mnt_ns # freed /\ mnt_ns # mount_lock /\ mnt_ns # mount_seq
  /\ flags # freed /\ flags # mount_lock /\ flags # mount_seq
  /\ freed # mount_lock /\ freed # mount_seq /\ mount_lock # mount_seq
  /\ {mnt_ns, flags, freed, mount_lock, mount_seq} \cap AllSlots = {}
  /\ WMB.loc \notin Locations /\ WMB \in Entries /\ \A l, v : Store(l, v).loc = l /\ Store(l, v).val = v
<1>1. /\ mnt_ns # flags /\ mnt_ns # freed /\ mnt_ns # mount_lock /\ mnt_ns # mount_seq
      /\ flags # freed /\ flags # mount_lock /\ flags # mount_seq
      /\ freed # mount_lock /\ freed # mount_seq /\ mount_lock # mount_seq
  BY DEF mnt_ns, flags, freed, mount_lock, mount_seq
<1>2. {mnt_ns, flags, freed, mount_lock, mount_seq} \cap AllSlots = {}
  BY DEF mnt_ns, flags, freed, mount_lock, mount_seq, AllSlots, Slots
<1>3. WMB.loc \notin Locations
  BY DEF WMB, Store, Locations, mnt_ns, flags, freed, mount_lock, mount_seq, Slots
<1>4. WMB \in Entries
  BY DEF WMB, Store, Entries
<1>5. \A l, v : Store(l, v).loc = l /\ Store(l, v).val = v
  BY DEF Store
<1> QED BY <1>1, <1>2, <1>3, <1>4, <1>5

(* The places are the slots and the variables.                             *)
LEMMA AllLocations ==
  /\ Locations = AllSlots \cup {mnt_ns, flags, freed, mount_lock, mount_seq}
  /\ AllSlots = Slots("gets") \cup Slots("puts")
  BY DEF Locations, AllSlots

(* Each thread stores only to places of the memory.                        *)
LEMMA OwnedLocations ==
  ASSUME NEW s \in Scenarios, NEW t PROVE Owned(s, t) \subseteq Locations
  BY SlotsApart, AllLocations DEF Owned

-----------------------------------------------------------------------------
(* What a thread reads *)

(* Every set of naturals that has an element has a least one, and a set of *)
(* indexes has a greatest.                                                 *)
LEMMA LeastNumber ==
  ASSUME NEW T, T \subseteq Nat, T # {}
  PROVE  \E n \in T : \A m \in T : n <= m
<1>1. PICK n \in T : \A m \in T : ~(<<m, n>> \in OpToRel(<, Nat))
  BY NatLessThanWellFounded, WFMin
<1>2. \A m \in T : ~(m < n)
  BY <1>1 DEF OpToRel
<1>3. \A m \in T : n <= m
  <2> SUFFICES ASSUME NEW m \in T PROVE n <= m
    OBVIOUS
  <2>1. m \in Nat /\ n \in Nat
    OBVIOUS
  <2> QED BY <1>2, <2>1
<1> QED BY <1>3

(* The latest of some indexes is one of them.                              *)
LEMMA MaxIs ==
  ASSUME NEW n \in Nat, NEW S, S \subseteq 1 .. n, S # {}
  PROVE  Max(S) \in S
<1> DEFINE T == {n - m : m \in S}
<1>1. T \subseteq Nat /\ T # {}
  <2>1. \A m \in S : n - m \in Nat
    OBVIOUS
  <2> QED BY <2>1
<1>2. PICK k \in T : \A m \in T : k <= m
  <2> HIDE DEF T
  <2> QED BY <1>1, LeastNumber
<1>3. PICK x \in S : k = n - x
  BY <1>2
<1>4. \A y \in S : x >= y
  <2> TAKE y \in S
  <2>1. n - x <= n - y
    BY <1>2, <1>3
  <2>2. x \in Nat /\ y \in Nat
    OBVIOUS
  <2> QED BY <2>1, <2>2
<1> QED BY <1>4 DEF Max

(* A place with a store that is pending, or without.                       *)
LEMMA Reads ==
  ASSUME BufOk, NEW t \in Threads, NEW l \in Locations
  PROVE  /\ l \notin Pending(t) => READ_ONCE(t, l) = mem[l]
         /\ l \in Pending(t) => /\ l \in Owned(scen, t) /\ READ_ONCE(t, l) \in Nat
                                /\ Stored(scen, l, READ_ONCE(t, l))
<1> DEFINE own == {i \in DOMAIN buf[t] : buf[t][i].loc = l}
<1>1. l # WMB.loc
  BY VarsApart
<1>2. buf[t] \in Seq(Entries) /\ DOMAIN buf[t] = 1 .. Len(buf[t]) /\ Len(buf[t]) \in Nat
  BY LenProperties DEF BufOk
<1>3. own = {} <=> l \notin Pending(t)
  BY <1>1 DEF Pending
<1>4. READ_ONCE(t, l) = IF own = {} THEN mem[l] ELSE buf[t][Max(own)].val
  BY DEF READ_ONCE
<1>5. ASSUME own # {} PROVE Max(own) \in own
  <2>1. own \subseteq 1 .. Len(buf[t])
    BY <1>2
  <2> HIDE DEF own
  <2> QED BY <1>2, <1>5, <2>1, MaxIs
<1>6. \A i \in own : buf[t][i] \in Entries /\ buf[t][i].loc \in Owned(scen, t) /\ Stored(scen, l, buf[t][i].val)
  BY <1>1, <1>2 DEF BufOk
<1>7. \A e \in Entries : e.val \in Nat
  BY DEF Entries
<1> QED BY <1>3, <1>4, <1>5, <1>6, <1>7

(* After smp_mb(), nothing is pending.                                     *)
LEMMA Barrier ==
  ASSUME NEW t \in Threads, smp_mb(t) PROVE Pending(t) = {}
  BY DEF smp_mb, Pending

(* What is pending of a thread is its own.                                 *)
LEMMA OwnedPending ==
  ASSUME BufOk, NEW t \in Threads PROVE Pending(t) \subseteq Owned(scen, t)
<1>1. buf[t] \in Seq(Entries)
  BY DEF BufOk
<1> QED BY <1>1 DEF BufOk, Pending

-----------------------------------------------------------------------------
(* What a thread stores *)

Locs(seq) == {seq[i].loc : i \in DOMAIN seq} \ {WMB.loc}

(* Stores that a thread may make.                                          *)
Proper(t, seq) ==
    /\ seq \in Seq(Entries)
    /\ \A i \in DOMAIN seq :
         \/ seq[i] = WMB
         \/ seq[i].loc \in Owned(scen, t) /\ Stored(scen, seq[i].loc, seq[i].val)

(* If they release the lock, then at the end.                              *)
Releasing(seq) ==
    \A i \in DOMAIN seq : seq[i].loc = mount_lock => i = Len(seq) /\ i > 1 /\ seq[i - 1] = WMB

(* The entries of two buffers, one after the other.                        *)
LEMMA Appended ==
  ASSUME NEW s \in Seq(Entries), NEW e \in Seq(Entries)
  PROVE  /\ s \o e \in Seq(Entries) /\ DOMAIN (s \o e) = 1 .. Len(s) + Len(e) /\ Len(s \o e) = Len(s) + Len(e)
         /\ \A i \in DOMAIN s : i \in DOMAIN (s \o e) /\ (s \o e)[i] = s[i]
         /\ \A i \in DOMAIN e : Len(s) + i \in DOMAIN (s \o e) /\ (s \o e)[Len(s) + i] = e[i]
         /\ \A i \in DOMAIN (s \o e) :
              i \in DOMAIN s \/ (i > Len(s) /\ i - Len(s) \in DOMAIN e /\ (s \o e)[i] = e[i - Len(s)])
<1>1. /\ s \o e \in Seq(Entries) /\ Len(s \o e) = Len(s) + Len(e)
      /\ \A i \in 1 .. Len(s) + Len(e) : (s \o e)[i] = IF i <= Len(s) THEN s[i] ELSE e[i - Len(s)]
  BY ConcatProperties
<1>2. /\ DOMAIN s = 1 .. Len(s) /\ DOMAIN e = 1 .. Len(e) /\ DOMAIN (s \o e) = 1 .. Len(s \o e)
      /\ Len(s) \in Nat /\ Len(e) \in Nat
  BY <1>1, LenProperties
<1> DEFINE r == s \o e
           S == Len(s)
           M == Len(e)
<1> HIDE DEF r, S, M
<1>3. /\ DOMAIN s = 1 .. S /\ DOMAIN e = 1 .. M /\ DOMAIN r = 1 .. S + M /\ S \in Nat /\ M \in Nat
      /\ \A i \in 1 .. S + M : r[i] = IF i <= S THEN s[i] ELSE e[i - S]
  BY <1>1, <1>2 DEF r, S, M
<1>4. \A i \in 1 .. S : i \in 1 .. S + M /\ i <= S
  BY <1>3
<1>5. \A i \in 1 .. M : S + i \in 1 .. S + M /\ ~(S + i <= S) /\ (S + i) - S = i
  BY <1>3
<1>6. \A i \in 1 .. S + M : i \in 1 .. S \/ (i > S /\ ~(i <= S) /\ i - S \in 1 .. M)
  BY <1>3
<1>7. /\ \A i \in DOMAIN s : i \in DOMAIN r /\ r[i] = s[i]
      /\ \A i \in DOMAIN e : S + i \in DOMAIN r /\ r[S + i] = e[i]
  BY <1>3, <1>4, <1>5
<1>8. \A i \in DOMAIN r : i \in DOMAIN s \/ (i > S /\ i - S \in DOMAIN e /\ r[i] = e[i - S])
  BY <1>3, <1>6
<1> QED BY <1>1, <1>2, <1>7, <1>8 DEF r, S, M

(* What is stored is pending.                                              *)
LEMMA Writes ==
  ASSUME BufOk, NEW t \in Threads, NEW seq, Proper(t, seq), WRITE_ONCE(t, seq), scen' = scen
  PROVE  /\ BufOk' /\ Pending(t)' = Pending(t) \cup Locs(seq)
         /\ \A o \in Threads \ {t} : Pending(o)' = Pending(o)
         /\ UnlockLast /\ mount_lock \notin Pending(t) /\ Releasing(seq) => UnlockLast'
<1> DEFINE s == buf[t]
           r == s \o seq
<1>1. s \in Seq(Entries) /\ seq \in Seq(Entries)
  BY DEF BufOk, Proper
<1>2. buf' = [buf EXCEPT ![t] = r] /\ buf'[t] = r /\ \A o \in Threads \ {t} : buf'[o] = buf[o]
  BY DEF WRITE_ONCE, BufOk
<1>3. /\ r \in Seq(Entries) /\ DOMAIN r = 1 .. Len(s) + Len(seq) /\ Len(r) = Len(s) + Len(seq)
      /\ \A i \in DOMAIN s : i \in DOMAIN r /\ r[i] = s[i]
      /\ \A i \in DOMAIN seq : Len(s) + i \in DOMAIN r /\ r[Len(s) + i] = seq[i]
      /\ \A i \in DOMAIN r : i \in DOMAIN s \/ (i > Len(s) /\ i - Len(s) \in DOMAIN seq /\ r[i] = seq[i - Len(s)])
  BY <1>1, Appended
<1>4. /\ DOMAIN s = 1 .. Len(s) /\ DOMAIN seq = 1 .. Len(seq) /\ Len(s) \in Nat /\ Len(seq) \in Nat
  BY <1>1, LenProperties
<1> HIDE DEF r
<1>5. BufOk'
  <2>1. buf' \in [Threads -> Seq(Entries)]
    BY <1>2, <1>3 DEF BufOk
  <2>2. ASSUME NEW i \in DOMAIN r
        PROVE  r[i] = WMB \/ (r[i].loc \in Owned(scen, t) /\ Stored(scen, r[i].loc, r[i].val))
    BY <1>3 DEF BufOk, Proper
  <2> QED BY <1>2, <2>1, <2>2 DEF BufOk
<1>6. Pending(t)' = Pending(t) \cup Locs(seq)
  <2>1. {r[i].loc : i \in DOMAIN r} = {s[i].loc : i \in DOMAIN s} \cup {seq[i].loc : i \in DOMAIN seq}
    BY <1>3
  <2>2. Pending(t)' = {r[i].loc : i \in DOMAIN r} \ {WMB.loc}
    BY <1>2 DEF Pending
  <2> QED BY <2>1, <2>2 DEF Pending, Locs
<1>7. ASSUME UnlockLast, mount_lock \notin Pending(t), Releasing(seq) PROVE UnlockLast'
  <2>1. \A i \in DOMAIN s : s[i].loc # mount_lock
    <3>1. mount_lock # WMB.loc
      BY VarsApart, AllLocations
    <3> QED BY <1>7, <3>1 DEF Pending
  <2>2. ASSUME NEW i \in DOMAIN r, r[i].loc = mount_lock
        PROVE  i = Len(r) /\ i > 1 /\ r[i - 1] = WMB
    <3>1. i \notin DOMAIN s
      BY <1>3, <2>1, <2>2
    <3> DEFINE j == i - Len(s)
    <3>2. i > Len(s) /\ j \in DOMAIN seq /\ r[i] = seq[j] /\ i \in Nat
      BY <1>3, <1>4, <3>1
    <3>3. j = Len(seq) /\ j > 1 /\ seq[j - 1] = WMB
      BY <1>7, <2>2, <3>2 DEF Releasing
    <3>4. j - 1 \in DOMAIN seq /\ Len(s) + (j - 1) = i - 1 /\ i = Len(s) + Len(seq) /\ i > 1
      BY <1>4, <3>2, <3>3
    <3>5. r[Len(s) + (j - 1)] = seq[j - 1]
      BY <1>3, <3>4
    <3> QED BY <1>3, <3>3, <3>4, <3>5
  <2> QED BY <1>2, <1>7, <2>2 DEF UnlockLast
<1> QED BY <1>2, <1>5, <1>6, <1>7 DEF Pending

(* What becomes visible *)

(* The entries that are left when one is taken out.                        *)
LEMMA Removed ==
  ASSUME NEW s \in Seq(Entries), NEW d \in DOMAIN s
  PROVE  /\ RemoveAt(s, d) \in Seq(Entries) /\ Len(RemoveAt(s, d)) = Len(s) - 1
         /\ DOMAIN RemoveAt(s, d) = 1 .. Len(s) - 1
         /\ \A i \in 1 .. Len(s) - 1 : RemoveAt(s, d)[i] = IF i < d THEN s[i] ELSE s[i + 1]
<1> DEFINE N == Len(s)
           a == SubSeq(s, 1, d - 1)
           z == SubSeq(s, d + 1, N)
<1>1. N \in Nat /\ d \in 1 .. N /\ d \in Int /\ \A i \in 1 .. N : s[i] \in Entries
  BY LenProperties, ElementOfSeq
<1>2. /\ a \in Seq(Entries) /\ Len(a) = IF 1 <= d - 1 THEN (d - 1) - 1 + 1 ELSE 0
      /\ \A i \in 1 .. (d - 1) - 1 + 1 : a[i] = s[1 + i - 1]
  <2>1. \A i \in 1 .. d - 1 : s[i] \in Entries
    BY <1>1
  <2>2. d - 1 \in Int /\ 1 \in Int
    BY <1>1
  <2> QED BY <2>1, <2>2, SubSeqProperties
<1>3. /\ z \in Seq(Entries) /\ Len(z) = IF d + 1 <= N THEN N - (d + 1) + 1 ELSE 0
      /\ \A i \in 1 .. N - (d + 1) + 1 : z[i] = s[(d + 1) + i - 1]
  <2>1. \A i \in d + 1 .. N : s[i] \in Entries
    BY <1>1
  <2>2. d + 1 \in Int /\ N \in Int
    BY <1>1
  <2> HIDE DEF N
  <2> QED BY <2>1, <2>2, SubSeqProperties
<1> HIDE DEF a, z, N
<1>4. Len(a) = d - 1 /\ \A i \in 1 .. d - 1 : a[i] = s[i]
  BY <1>1, <1>2
<1>5. Len(z) = N - d /\ \A i \in 1 .. N - d : z[i] = s[d + i]
  BY <1>1, <1>3
<1>6. /\ a \o z \in Seq(Entries) /\ Len(a \o z) = Len(a) + Len(z)
      /\ \A i \in 1 .. Len(a) + Len(z) : (a \o z)[i] = IF i <= Len(a) THEN a[i] ELSE z[i - Len(a)]
  BY <1>2, <1>3, ConcatProperties
<1>7. RemoveAt(s, d) = a \o z
  BY DEF RemoveAt, a, z, N
<1>8. Len(a) + Len(z) = N - 1
  BY <1>1, <1>4, <1>5
<1>9. ASSUME NEW i \in 1 .. N - 1 PROVE (a \o z)[i] = IF i < d THEN s[i] ELSE s[i + 1]
  <2>1. CASE i < d
    <3>1. i <= Len(a) /\ i \in 1 .. d - 1
      BY <1>1, <1>4, <2>1
    <3> QED BY <1>4, <1>6, <1>8, <2>1, <3>1
  <2>2. CASE ~(i < d)
    <3>1. ~(i <= Len(a)) /\ i - Len(a) \in 1 .. N - d /\ d + (i - Len(a)) = i + 1
      BY <1>1, <1>4, <2>2
    <3> QED BY <1>5, <1>6, <1>8, <2>2, <3>1
  <2> QED BY <2>1, <2>2
<1>10. DOMAIN (a \o z) = 1 .. N - 1
  BY <1>6, <1>8, LenProperties
<1> QED BY <1>6, <1>7, <1>8, <1>9, <1>10 DEF N

(* The store at d of a thread becomes visible.                             *)
DrainsAt(t, d) ==
    /\ buf[t][d] # WMB
    /\ \A j \in 1 .. d - 1 :
         IF buf[t][j] = WMB THEN \A n \in 1 .. j : buf[t][n] = WMB
                            ELSE buf[t][j].loc # buf[t][d].loc
    /\ mem' = [mem EXCEPT ![buf[t][d].loc] = buf[t][d].val]
    /\ buf' = [buf EXCEPT ![t] = RemoveAt(@, d)]

(* A store of v to l by t becomes visible.                                 *)
Drained1(t, l, v) ==
    /\ l \in Owned(scen, t) /\ v \in Nat /\ Stored(scen, l, v)
    /\ mem' = [mem EXCEPT ![l] = v]
    /\ l \in Pending(t) /\ Pending(t)' \subseteq Pending(t) /\ Pending(t) \ {l} \subseteq Pending(t)'
    /\ \A o \in Threads \ {t} : Pending(o)' = Pending(o)
    /\ BufOk'
    /\ UnlockLast => UnlockLast' /\ (l = mount_lock => Pending(t)' = {})
    /\ GetFirst => GetFirst' /\ (t = T0 /\ l = PH(scen) => GH \notin Pending(T0))

(* The buffer before and after one of its stores becomes visible.          *)
LEMMA DrainsBuffer ==
  ASSUME BufOk, scen \in Scenarios, NEW t \in Threads, NEW d \in DOMAIN buf[t], DrainsAt(t, d), scen' = scen
  PROVE  /\ buf[t] \in Seq(Entries) /\ Len(buf[t]) \in Nat /\ DOMAIN buf[t] = 1 .. Len(buf[t]) /\ d \in Nat
         /\ buf'[t] \in Seq(Entries) /\ Len(buf'[t]) = Len(buf[t]) - 1 /\ DOMAIN buf'[t] = 1 .. Len(buf[t]) - 1
         /\ buf' \in [Threads -> Seq(Entries)]
         /\ \A i \in DOMAIN buf'[t] :
              /\ i < d => i \in DOMAIN buf[t] /\ buf'[t][i] = buf[t][i]
              /\ ~(i < d) => i + 1 \in DOMAIN buf[t] /\ buf'[t][i] = buf[t][i + 1]
         /\ \A i \in DOMAIN buf[t] :
              /\ i < d => i \in DOMAIN buf'[t] /\ buf'[t][i] = buf[t][i]
              /\ i > d => i - 1 \in DOMAIN buf'[t] /\ buf'[t][i - 1] = buf[t][i]
         /\ \A o \in Threads \ {t} : buf'[o] = buf[o]
<1> DEFINE s == buf[t]
           r == RemoveAt(s, d)
           N == Len(s)
<1>1. s \in Seq(Entries) /\ N \in Nat /\ DOMAIN s = 1 .. N /\ d \in 1 .. N /\ d \in Nat
  BY LenProperties DEF BufOk
<1>2. /\ r \in Seq(Entries) /\ Len(r) = N - 1 /\ DOMAIN r = 1 .. N - 1
      /\ \A i \in 1 .. N - 1 : r[i] = IF i < d THEN s[i] ELSE s[i + 1]
  BY <1>1, Removed
<1>3. buf' = [buf EXCEPT ![t] = r] /\ buf'[t] = r /\ \A o \in Threads \ {t} : buf'[o] = buf[o]
  BY DEF DrainsAt, BufOk
<1>4. buf' \in [Threads -> Seq(Entries)]
  <2> HIDE DEF r
  <2> QED BY <1>2, <1>3 DEF BufOk
<1> HIDE DEF r, N
<1>5. \A i \in 1 .. N - 1 : i \in 1 .. N /\ i + 1 \in 1 .. N
  BY <1>1
<1>6. \A i \in 1 .. N : (i < d => i \in 1 .. N - 1) /\ (i > d => i - 1 \in 1 .. N - 1 /\ ~(i - 1 < d) /\ (i - 1) + 1 = i)
  BY <1>1
<1>7. /\ \A i \in DOMAIN r : /\ i < d => i \in DOMAIN s /\ r[i] = s[i]
                             /\ ~(i < d) => i + 1 \in DOMAIN s /\ r[i] = s[i + 1]
      /\ \A i \in DOMAIN s : /\ i < d => i \in DOMAIN r /\ r[i] = s[i]
                             /\ i > d => i - 1 \in DOMAIN r /\ r[i - 1] = s[i]
  <2> HIDE DEF s
  <2> QED BY <1>1, <1>2, <1>5, <1>6
<1> QED BY <1>1, <1>2, <1>3, <1>4, <1>7 DEF N

(* A store that becomes visible is its thread's, of a value it may store;  *)
(* the order of the rest is kept.                                          *)
LEMMA Drains ==
  ASSUME BufOk, scen \in Scenarios, NEW t \in Threads, NEW d \in DOMAIN buf[t], DrainsAt(t, d), scen' = scen
  PROVE  Drained1(t, buf[t][d].loc, buf[t][d].val)
<1> DEFINE s == buf[t]
           r == buf'[t]
           N == Len(s)
           l == s[d].loc
<1>1. /\ s \in Seq(Entries) /\ N \in Nat /\ DOMAIN s = 1 .. N /\ d \in Nat
      /\ r \in Seq(Entries) /\ Len(r) = N - 1 /\ DOMAIN r = 1 .. N - 1
      /\ buf' \in [Threads -> Seq(Entries)]
      /\ \A i \in DOMAIN r : /\ i < d => i \in DOMAIN s /\ r[i] = s[i]
                             /\ ~(i < d) => i + 1 \in DOMAIN s /\ r[i] = s[i + 1]
      /\ \A i \in DOMAIN s : /\ i < d => i \in DOMAIN r /\ r[i] = s[i]
                             /\ i > d => i - 1 \in DOMAIN r /\ r[i - 1] = s[i]
      /\ \A o \in Threads \ {t} : buf'[o] = buf[o]
  BY DrainsBuffer
<1>2. l \in Owned(scen, t) /\ s[d].val \in Nat /\ Stored(scen, l, s[d].val) /\ l # WMB.loc
  <2>1. s[d] # WMB /\ s[d] \in Entries
    BY <1>1, ElementOfSeq DEF DrainsAt
  <2>2. l \in Owned(scen, t) /\ Stored(scen, l, s[d].val)
    BY <2>1 DEF BufOk
  <2> QED BY <2>1, <2>2, OwnedLocations, VarsApart DEF Entries
<1>3. l \in Pending(t) /\ Pending(t)' \subseteq Pending(t) /\ Pending(t) \ {l} \subseteq Pending(t)'
  <2>1. Pending(t)' = {r[i].loc : i \in DOMAIN r} \ {WMB.loc}
    BY DEF Pending
  <2>2. Pending(t) = {s[i].loc : i \in DOMAIN s} \ {WMB.loc}
    BY DEF Pending
  <2>0. d \in DOMAIN s
    OBVIOUS
  <2> HIDE DEF r, s
  <2>3. \A i \in DOMAIN r : \E j \in DOMAIN s : r[i] = s[j]
    BY <1>1
  <2>4. \A i \in DOMAIN s : i = d \/ \E j \in DOMAIN r : r[j] = s[i]
    <3>1. \A i \in DOMAIN s : i = d \/ i < d \/ i > d
      BY <1>1
    <3> QED BY <1>1, <3>1
  <2>5. l \in {s[i].loc : i \in DOMAIN s}
    BY <2>0
  <2> HIDE DEF l
  <2>6. \A x : x \in {s[i].loc : i \in DOMAIN s} => x = l \/ x \in {r[i].loc : i \in DOMAIN r}
    BY <2>4 DEF l
  <2>7. {r[i].loc : i \in DOMAIN r} \subseteq {s[i].loc : i \in DOMAIN s}
    BY <2>3
  <2> QED BY <1>2, <2>1, <2>2, <2>5, <2>6, <2>7
<1>4. \A o \in Threads \ {t} : Pending(o)' = Pending(o)
  BY <1>1 DEF Pending
<1>5. BufOk'
  <2>1. ASSUME NEW i \in DOMAIN r
        PROVE  r[i] = WMB \/ (r[i].loc \in Owned(scen, t) /\ Stored(scen, r[i].loc, r[i].val))
    <3>1. \E j \in DOMAIN s : r[i] = s[j]
      BY <1>1
    <3> QED BY <3>1 DEF BufOk
  <2> QED BY <1>1, <2>1 DEF BufOk
<1> DEFINE Last1(o) == \A i \in DOMAIN buf'[o] :
                         buf'[o][i].loc = mount_lock => i = Len(buf'[o]) /\ i > 1 /\ buf'[o][i - 1] = WMB
<1>9. ASSUME UnlockLast, Last1(t) PROVE UnlockLast'
  <2>1. \A o \in Threads \ {t} : Last1(o)
    BY <1>1, <1>9 DEF UnlockLast
  <2>2. \A o \in Threads : Last1(o)
    BY <1>9, <2>1
  <2> QED BY <2>2 DEF UnlockLast
<1>6. ASSUME UnlockLast PROVE UnlockLast' /\ (l = mount_lock => Pending(t)' = {})
  <2>1. CASE l = mount_lock
    <3>1. d = N /\ d > 1 /\ s[d - 1] = WMB
      BY <1>6, <2>1 DEF UnlockLast
    <3>2. \A n \in 1 .. d - 1 : s[n] = WMB
      <4>1. d - 1 \in 1 .. d - 1
        BY <1>1, <3>1
      <4> QED BY <3>1, <4>1 DEF DrainsAt
    <3>3. \A i \in DOMAIN r : r[i] = WMB
      <4>1. \A i \in DOMAIN r : i < d /\ i \in 1 .. d - 1
        BY <1>1, <3>1
      <4> QED BY <1>1, <3>2, <4>1
    <3>4. Pending(t)' = {}
      BY <3>3 DEF Pending
    <3>5. \A i \in DOMAIN r : r[i].loc # mount_lock
      BY <3>3, VarsApart, AllLocations
    <3> QED BY <1>6, <1>9, <3>4, <3>5
  <2>2. CASE l # mount_lock
    <3>1. ASSUME NEW i \in DOMAIN r, r[i].loc = mount_lock
          PROVE  i = Len(r) /\ i > 1 /\ r[i - 1] = WMB
      <4>1. ~(i < d)
        <5>1. CASE i < d
          <6>1. i \in DOMAIN s /\ s[i].loc = mount_lock
            BY <1>1, <3>1, <5>1
          <6>2. i = N
            BY <1>6, <6>1 DEF UnlockLast
          <6> QED BY <1>1, <5>1, <6>2
        <5> QED BY <5>1
      <4>2. i + 1 \in DOMAIN s /\ s[i + 1].loc = mount_lock
        BY <1>1, <3>1, <4>1
      <4>3. i + 1 = N /\ i + 1 > 1 /\ s[(i + 1) - 1] = WMB
        BY <1>6, <4>2 DEF UnlockLast
      <4>4. s[d] # WMB
        BY DEF DrainsAt
      <4>5. i \in Nat /\ i # d /\ i > d /\ (i + 1) - 1 = i /\ i \in DOMAIN s
        BY <1>1, <4>1, <4>3, <4>4
      <4>6. i - 1 \in DOMAIN r /\ r[i - 1] = s[i] /\ i > 1
        BY <1>1, <4>5
      <4> QED BY <1>1, <4>3, <4>5, <4>6
    <3> QED BY <1>6, <1>9, <2>2, <3>1
  <2> QED BY <2>1, <2>2
<1>7. ASSUME GetFirst PROVE GetFirst' /\ (t = T0 /\ l = PH(scen) => GH \notin Pending(T0))
  <2>1. CASE t # T0
    <3>1. buf'[T0] = buf[T0]
      BY <1>1, <2>1 DEF Threads
    <3> QED BY <1>7, <2>1, <3>1 DEF GetFirst
  <2>2. CASE t = T0
    <3>1. ASSUME NEW i \in DOMAIN r, NEW j \in DOMAIN r, r[i].loc = PH(scen), r[j].loc = GH
          PROVE  \E k \in j + 1 .. i - 1 : r[k] = WMB
      <4> DEFINE a(m) == IF m < d THEN m ELSE m + 1
      <4>1. \A m \in DOMAIN r : a(m) \in DOMAIN s /\ r[m] = s[a(m)]
        BY <1>1
      <4>2. PICK k \in a(j) + 1 .. a(i) - 1 : s[k] = WMB
        BY <1>7, <2>2, <3>1, <4>1 DEF GetFirst
      <4>3. k # d
        BY <4>2 DEF DrainsAt
      <4>4. i \in Nat /\ j \in Nat /\ k \in Nat /\ k \in DOMAIN s
        <5>1. a(i) \in 1 .. N /\ a(j) \in 1 .. N /\ i \in Nat /\ j \in Nat
          BY <1>1, <4>1
        <5> QED BY <1>1, <5>1
      <4>5. CASE k < d
        <5>1. k \in j + 1 .. i - 1
          BY <1>1, <4>2, <4>4, <4>5
        <5> QED BY <1>1, <4>2, <4>4, <4>5, <5>1
      <4>6. CASE k > d
        <5>1. k - 1 \in j + 1 .. i - 1
          BY <1>1, <4>2, <4>4, <4>6
        <5> QED BY <1>1, <4>2, <4>4, <4>6, <5>1
      <4> QED BY <1>1, <4>3, <4>4, <4>5, <4>6
    <3>2. ASSUME l = PH(scen), GH \in Pending(T0) PROVE FALSE
      <4>1. PICK j \in DOMAIN s : s[j].loc = GH
        BY <2>2, <3>2 DEF Pending
      <4>2. PICK k \in j + 1 .. d - 1 : s[k] = WMB
        BY <1>7, <2>2, <3>2, <4>1 DEF GetFirst
      <4>3. k \in 1 .. d - 1 /\ j \in 1 .. k
        BY <1>1, <4>2
      <4>4. s[j] = WMB
        BY <4>2, <4>3 DEF DrainsAt
      <4> QED BY <4>1, <4>4, VarsApart, SlotsApart, AllLocations
    <3>3. GetFirst'
      BY <2>2, <3>1 DEF GetFirst
    <3> QED BY <2>2, <3>2, <3>3
  <2> QED BY <2>1, <2>2
<1>8. mem' = [mem EXCEPT ![l] = s[d].val]
  BY DEF DrainsAt
<1> QED BY <1>2, <1>3, <1>4, <1>5, <1>6, <1>7, <1>8 DEF Drained1

-----------------------------------------------------------------------------
(* Steps of one thread only *)

SameMem == scen' = scen /\ \A l \in Locations \ {mount_lock} : mem'[l] = mem[l]

(* Nothing of U, or of T0, but for the lock, changes.                      *)
T1Rests ==
    /\ pc'[T1] = pc[T1] /\ todo'[T1] = todo[T1] /\ sum'[T1] = sum[T1] /\ Pending(T1)' = Pending(T1)
    /\ saw'.fallback = saw.fallback /\ saw'.path[T1] = saw.path[T1] /\ saw'.peek = saw.peek
    /\ saw'.slow[T1] = saw.slow[T1]

T0Rests ==
    /\ pc'[T0] = pc[T0] /\ todo'[T0] = todo[T0] /\ sum'[T0] = sum[T0] /\ Pending(T0)' = Pending(T0)
    /\ buf'[T0] = buf[T0] /\ in_rcu'[T0] = in_rcu[T0] /\ saw'.path[T0] = saw.path[T0]
    /\ saw'.res = saw.res /\ saw'.r2 = saw.r2 /\ saw'.flags = saw.flags /\ saw'.ns2 = saw.ns2

(* The places that the invariant speaks of are places, and different.      *)
LEMMA Places ==
  ASSUME NEW s \in Scenarios
  PROVE  /\ {GH, GU, PU, PH(s), mnt_ns, flags, freed, mount_lock, mount_seq} \subseteq Locations
         /\ {GH, GU, PU, PH(s)} \subseteq AllSlots
         /\ GH # GU /\ GH # PU /\ GH # PH(s) /\ GU # PU /\ GU # PH(s) /\ PU # PH(s)
         /\ \A l \in {mnt_ns, flags, freed, mount_lock, mount_seq} : l \notin AllSlots
         /\ mnt_ns # flags /\ mnt_ns # freed /\ mnt_ns # mount_lock /\ mnt_ns # mount_seq
         /\ flags # freed /\ flags # mount_lock /\ flags # mount_seq
         /\ freed # mount_lock /\ freed # mount_seq /\ mount_lock # mount_seq
  BY SlotsApart, VarsApart, AllLocations

(* U's part of the invariant, while U rests and the memory changes in      *)
(* nothing but mount_lock.                                                 *)
LEMMA T1Resting ==
  ASSUME ShapeOk, SameMem, T1Rests
  PROVE  /\ T1Ok => T1Ok'
         /\ Count1Ok => Count1Ok'
         /\ Gets1Ok => Gets1Ok'
         /\ Final1' = Final1 /\ Sum1' = Sum1 /\ Own1' = Own1
<1>1. scen \in Scenarios
  BY DEF ShapeOk
<1>2. /\ scen' = scen /\ mem'[GH] = mem[GH] /\ mem'[PH(scen)] = mem[PH(scen)] /\ mem'[PU] = mem[PU]
      /\ mem'[mnt_ns] = mem[mnt_ns] /\ mem'[mount_seq] = mem[mount_seq]
  BY <1>1, Places DEF SameMem
<1>3. Final1' = Final1
  BY <1>2 DEF T1Rests, Final1
<1>4. Own1' = Own1 /\ Sum1' = Sum1
  BY <1>2 DEF T1Rests, Own1, Sum1, If
<1>5. T1Ok => T1Ok'
  BY <1>2 DEF T1Rests, T1Ok, Put1
<1>6. Count1Ok => Count1Ok'
  BY <1>2, <1>4 DEF T1Rests, Count1Ok
<1>7. Gets1Ok => Gets1Ok'
  BY DEF T1Rests, Gets1Ok, Slots
<1> QED BY <1>3, <1>4, <1>5, <1>6, <1>7

(* The same of T0.                                                         *)
LEMMA T0Resting ==
  ASSUME ShapeOk, SameMem, T0Rests
  PROVE  /\ T0Ok => T0Ok'
         /\ HolderOk => HolderOk'
         /\ WalkerOk => WalkerOk'
         /\ Count0Ok => Count0Ok'
         /\ GetFirst => GetFirst'
         /\ Final0' = Final0 /\ Kept' = Kept /\ Put0' = Put0
<1>1. scen \in Scenarios
  BY DEF ShapeOk
<1>2. /\ scen' = scen /\ mem'[GH] = mem[GH] /\ mem'[PH(scen)] = mem[PH(scen)] /\ mem'[PU] = mem[PU]
  BY <1>1, Places DEF SameMem
<1>3. Final0' = Final0 /\ Kept' = Kept
  BY <1>2 DEF T0Rests, Final0, Kept, Ended
<1>8. Put0' = Put0
  BY <1>2 DEF T0Rests, Put0
<1>4. T0Ok => T0Ok'
  BY <1>2, <1>8 DEF T0Rests, T0Ok
<1>5. HolderOk => HolderOk'
  BY <1>2 DEF T0Rests, HolderOk
<1>6. WalkerOk => WalkerOk'
  BY <1>2, <1>3 DEF T0Rests, WalkerOk, Ended
<1>7. Count0Ok => Count0Ok'
  BY <1>2 DEF T0Rests, Count0Ok, Sum0, If
<1>9. GetFirst => GetFirst'
  BY <1>2 DEF T0Rests, GetFirst
<1> QED BY <1>3, <1>4, <1>5, <1>6, <1>7, <1>8, <1>9

(* The buffers' part, while no store is made and none becomes visible.     *)
LEMMA BufRests ==
  ASSUME buf' = buf, scen' = scen
  PROVE  /\ BufOk => BufOk'
         /\ UnlockLast => UnlockLast'
         /\ GetFirst => GetFirst'
         /\ \A t \in Threads : Pending(t)' = Pending(t)
  BY DEF BufOk, UnlockLast, GetFirst, Pending

(* The memory's part, while it does not change.                            *)
LEMMA MemRests ==
  ASSUME mem' = mem, scen' = scen
  PROVE  SameMem /\ (MemOk => MemOk')
  BY DEF SameMem, MemOk

(* There are two threads.                                                  *)
LEMMA ThreadsAre == Threads = {T0, T1} /\ T0 # T1 /\ T0 \in Threads /\ T1 \in Threads
  BY DEF Threads, T0, T1

(* In a field that is a function of the threads.                           *)
LEMMA PcOf ==
  ASSUME ShapeOk, NEW t \in Threads, NEW label, Goto(t, label)
  PROVE  pc'[t] = label /\ \A o \in Threads \ {t} : pc'[o] = pc[o]
  BY DEF ShapeOk, Goto

-----------------------------------------------------------------------------
(* Steps of T0 that leave its stores alone *)

T0Moves ==
    /\ mem' = mem /\ buf' = buf /\ scen' = scen /\ todo' = todo /\ sum' = sum
    /\ pc'[T1] = pc[T1] /\ ~InLock(T0) /\ ~InLock(T0)' /\ saw'.path = saw.path
    /\ mount_lock \in Pending(T0) => pc'[T0] \in {"done", "walker_end"}
    /\ saw'.fallback = saw.fallback /\ saw'.peek = saw.peek /\ saw'.slow = saw.slow

(* T0 moves on and stores nothing: only what is said of its place is to be *)
(* shown.                                                                  *)
LEMMA T0Moving ==
  ASSUME Inv, T0Moves, ShapeOk', T0Ok', HolderOk', WalkerOk', KeptOk', SeenOk',
         Dropping(scen) => (pc[T0] \in {"put_end", "done"} => pc'[T0] = "done")
                              /\ pc'[T0] \notin {"recheck", "put_end"} /\ Put0' = Put0
  PROVE  Inv'
<1>1. BufOk' /\ UnlockLast' /\ MemOk' /\ SameMem /\ (\A t \in Threads : Pending(t)' = Pending(t)) /\ (GetFirst => GetFirst')
  BY BufRests, MemRests DEF T0Moves, Inv
<1>2. T1Rests
  BY <1>1, ThreadsAre DEF T0Moves, T1Rests
<1>3. T1Ok' /\ Count1Ok' /\ Gets1Ok' /\ Final1' = Final1 /\ Sum1' = Sum1 /\ Own1' = Own1
  BY <1>1, <1>2, T1Resting DEF Inv
<1>4. Final0' = Final0
  BY DEF T0Moves, Final0
<1>5. LockOk'
  BY <1>1, ThreadsAre DEF T0Moves, Inv, LockOk, Holds, InLock
<1>6. FreeOk'
  BY <1>1, <1>3, <1>4, ThreadsAre DEF T0Moves, Inv, FreeOk
<1>7. CountOk' /\ Count0Ok'
  BY ThreadsAre DEF T0Moves, Inv, CountOk, Count0Ok, InLock, Counting
<1>8. TakingOk'
  BY <1>1, <1>3, <1>4 DEF T0Moves, Inv, TakingOk
<1>9. DroppingOk'
  BY <1>1, <1>3, <1>4 DEF T0Moves, Inv, DroppingOk, AfterGp, InLock, Counting
<1> QED BY <1>1, <1>3, <1>5, <1>6, <1>7, <1>8, <1>9 DEF Inv

(* The holder's steps of that kind, up to its put and after it.            *)
LEMMA HolderMoves ==
  ASSUME Inv, \/ HolderGet /\ ~Taking(scen)
              \/ PutBegin(T0)
              \/ mntput_no_expire(T0) /\ READ_ONCE(T0, mnt_ns) = 0
              \/ PutEnd(T0)
  PROVE  Inv'
<1>1. /\ mem' = mem /\ buf' = buf /\ scen' = scen /\ todo' = todo /\ sum' = sum /\ saw' = saw
      /\ \/ pc[T0] = "holder" /\ ~Taking(scen) /\ Goto(T0, "put") /\ in_rcu' = in_rcu
         \/ pc[T0] = "put" /\ Goto(T0, "put_ns") /\ in_rcu' = [in_rcu EXCEPT ![T0] = TRUE]
         \/ pc[T0] = "put_ns" /\ Goto(T0, "slow_lock") /\ in_rcu' = in_rcu
         \/ pc[T0] = "put_end" /\ Goto(T0, "done") /\ in_rcu' = [in_rcu EXCEPT ![T0] = FALSE]
  BY DEF HolderGet, PutBegin, mntput_no_expire, PutEnd, At, Taking
<1>2. ShapeOk
  BY DEF Inv
<1>3. /\ pc'[T1] = pc[T1]
      /\ \/ pc[T0] = "holder" /\ ~Taking(scen) /\ pc'[T0] = "put" /\ in_rcu'[T0] = in_rcu[T0]
         \/ pc[T0] = "put" /\ pc'[T0] = "put_ns" /\ in_rcu'[T0]
         \/ pc[T0] = "put_ns" /\ pc'[T0] = "slow_lock" /\ in_rcu'[T0] = in_rcu[T0]
         \/ pc[T0] = "put_end" /\ pc'[T0] = "done"
  BY <1>1, <1>2, PcOf, ThreadsAre DEF ShapeOk
<1>4. ~IsWalk(scen)
  BY <1>3 DEF Inv, T0Ok, WalkerPcs
<1>5. \A t \in Threads : Pending(t)' = Pending(t)
  BY <1>1, BufRests
<1>6. ShapeOk'
  BY <1>1, <1>2, ThreadsAre DEF ShapeOk, Goto
<1>7. T0Moves
  BY <1>1, <1>3, ThreadsAre DEF T0Moves, InLock, Counting, Inv, LockOk
<1>8. T0Ok' /\ Put0' = Put0
  BY <1>1, <1>3, <1>4, <1>5, ThreadsAre DEF Inv, T0Ok, Put0, HolderPcs, Counting
<1>9. HolderOk'
  BY <1>1, <1>3, <1>4, <1>5, ThreadsAre DEF Inv, HolderOk, Counting
<1>10. WalkerOk' /\ KeptOk'
  BY <1>1, <1>4 DEF WalkerOk, KeptOk
<1>11. SeenOk'
  <2>1. Sum1' = Sum1
    BY <1>1 DEF Sum1, Own1
  <2> QED BY <1>1, <1>3, <2>1 DEF Inv, SeenOk
<1>12. /\ pc[T0] \in {"put_end", "done"} => pc'[T0] = "done"
       /\ pc'[T0] \notin {"recheck", "put_end"}
  BY <1>3
<1> QED BY <1>6, <1>7, <1>8, <1>9, <1>10, <1>11, <1>12, T0Moving

(* In D1, if T0 still saw mnt_ns after its put, then U has not begun to    *)
(* count, and will see the put.                                            *)
LEMMA RecheckMoves ==
  ASSUME Inv, Recheck(T0) PROVE Inv'
<1>1. /\ mem' = mem /\ buf' = buf /\ scen' = scen /\ todo' = todo /\ sum' = sum /\ in_rcu' = in_rcu
      /\ saw' = [saw EXCEPT !.ns2 = READ_ONCE(T0, mnt_ns)]
      /\ pc[T0] = "recheck" /\ Goto(T0, "put_end") /\ smp_mb(T0)
  BY DEF Recheck, At, recheck_barrier
<1>2. ShapeOk /\ scen \in Scenarios /\ BufOk /\ MemOk
  BY DEF Inv, ShapeOk
<1>3. pc'[T1] = pc[T1] /\ pc'[T0] = "put_end"
  BY <1>1, <1>2, PcOf, ThreadsAre
<1>4. scen = "D1" /\ ~IsWalk(scen) /\ ~Dropping(scen)
  BY <1>1 DEF Inv, HolderOk, T0Ok, WalkerPcs, Dropping
<1>5. \A t \in Threads : Pending(t)' = Pending(t)
  BY <1>1, BufRests
<1>6. READ_ONCE(T0, mnt_ns) = mem[mnt_ns] /\ Pending(T0) = {} /\ mem[mnt_ns] \in {0, 1}
  BY <1>1, <1>2, Barrier, Reads, Places, ThreadsAre DEF MemOk
<1>7. /\ saw'.ns2 = mem[mnt_ns] /\ saw'.path = saw.path /\ saw'.res = saw.res /\ saw'.flags = saw.flags
      /\ saw'.fallback = saw.fallback /\ saw'.peek = saw.peek /\ saw'.slow = saw.slow
  BY <1>1, <1>2, <1>6 DEF ShapeOk, Sights
<1>8. ShapeOk'
  <2>1. saw' \in Sights
    <3>1. saw \in Sights /\ READ_ONCE(T0, mnt_ns) \in Nat
      BY <1>2, <1>6 DEF ShapeOk
    <3> QED BY <1>1, <3>1 DEF Sights
  <2> QED BY <1>1, <1>2, <2>1, ThreadsAre DEF ShapeOk, Goto
<1>9. T0Moves
  BY <1>1, <1>3, <1>7, ThreadsAre DEF T0Moves, InLock, Counting, Inv, LockOk
<1>10. T0Ok' /\ Put0' = Put0
  BY <1>1, <1>3, <1>4, <1>5, ThreadsAre DEF Inv, T0Ok, Put0, HolderPcs, Counting
<1>11. HolderOk'
  BY <1>1, <1>3, <1>4, <1>5, <1>7, ThreadsAre DEF Inv, HolderOk, Counting
<1>12. WalkerOk' /\ KeptOk'
  BY <1>1, <1>4 DEF WalkerOk, KeptOk
<1>13. SeenOk'
  <2>1. ASSUME mem[mnt_ns] = 1
        PROVE  mem[PH(scen)] = 1 /\ saw.peek # 2 /\ pc[T1] \notin Counting
    <3>1. pc[T1] \notin Late
      BY <2>1 DEF Inv, T1Ok
    <3>2. saw.peek = 0
      BY <3>1 DEF Inv, T1Ok, Late
    <3>3. mem[PH(scen)] = 1
      BY <1>1, <1>4, <1>6 DEF Inv, T0Ok, Put0
    <3> QED BY <3>1, <3>2, <3>3 DEF Late
  <2> QED BY <1>1, <1>3, <1>6, <1>7, <2>1 DEF SeenOk
<1> QED BY <1>4, <1>8, <1>9, <1>10, <1>11, <1>12, <1>13, T0Moving

(* The walker, when it neither counts nor takes the lock.                  *)
LEMMA WalkerMoves ==
  ASSUME Inv, \/ WalkerBegin \/ read_seqbegin \/ WalkerEnd
              \/ LegitimizeBegin /\ read_seqretry
  PROVE  Inv'
<1>1. /\ mem' = mem /\ buf' = buf /\ scen' = scen /\ todo' = todo /\ sum' = sum
      /\ \/ pc[T0] = "walker" /\ Goto(T0, "seqbegin") /\ in_rcu' = [in_rcu EXCEPT ![T0] = TRUE] /\ saw' = saw
         \/ pc[T0] = "seqbegin" /\ Goto(T0, "legit") /\ in_rcu' = in_rcu /\ saw' = saw
         \/ pc[T0] = "walker_end" /\ Goto(T0, "done") /\ in_rcu' = [in_rcu EXCEPT ![T0] = FALSE] /\ saw' = saw
         \/ /\ pc[T0] = "legit" /\ Goto(T0, "walker_end") /\ in_rcu' = in_rcu
            /\ saw' = [saw EXCEPT !.r1 = TRUE, !.res = 1]
  BY DEF WalkerBegin, read_seqbegin, WalkerEnd, LegitimizeBegin, At
<1>2. ShapeOk /\ saw \in Sights
  BY DEF Inv, ShapeOk
<1>3. /\ pc'[T1] = pc[T1]
      /\ \/ pc[T0] = "walker" /\ pc'[T0] = "seqbegin"
         \/ pc[T0] = "seqbegin" /\ pc'[T0] = "legit"
         \/ pc[T0] = "walker_end" /\ pc'[T0] = "done"
         \/ pc[T0] = "legit" /\ pc'[T0] = "walker_end"
  BY <1>1, <1>2, PcOf, ThreadsAre
<1>4. IsWalk(scen) /\ ~Dropping(scen) /\ ~Taking(scen) /\ scen # "D1"
  BY <1>3 DEF Inv, T0Ok, HolderPcs, Counting, IsWalk, Dropping, Taking
<1>5. \A t \in Threads : Pending(t)' = Pending(t)
  BY <1>1, BufRests
<1>6. /\ saw' \in Sights /\ saw'.path = saw.path /\ saw'.flags = saw.flags /\ saw'.r2 = saw.r2
      /\ saw'.fallback = saw.fallback /\ saw'.peek = saw.peek /\ saw'.slow = saw.slow
      /\ saw'.res = IF pc[T0] = "legit" THEN 1 ELSE saw.res
  <2>1. CASE saw' = saw /\ pc[T0] # "legit"
    BY <1>2, <2>1
  <2>2. CASE saw' = [saw EXCEPT !.r1 = TRUE, !.res = 1] /\ pc[T0] = "legit"
    <3>1. saw' \in Sights
      <4> DEFINE one == [saw EXCEPT !.r1 = TRUE]
      <4>1. one \in Sights
        BY <1>2 DEF Sights
      <4>2. \A s \in Sights : [s EXCEPT !.res = 1] \in Sights
        BY DEF Sights
      <4>3. saw' = [one EXCEPT !.res = 1]
        BY <2>2
      <4> HIDE DEF one
      <4> QED BY <4>1, <4>2, <4>3
    <3>2. /\ saw'.path = saw.path /\ saw'.flags = saw.flags /\ saw'.r2 = saw.r2 /\ saw'.res = 1
          /\ saw'.fallback = saw.fallback /\ saw'.peek = saw.peek /\ saw'.slow = saw.slow
      BY <1>2, <2>2 DEF Sights
    <3> QED BY <2>2, <3>1, <3>2
  <2> QED BY <1>1, <2>1, <2>2
<1>7. ShapeOk'
  BY <1>1, <1>2, <1>6, ThreadsAre DEF ShapeOk, Goto
<1>8. T0Moves
  BY <1>1, <1>3, <1>6, ThreadsAre DEF T0Moves, InLock, Counting, Inv, LockOk
<1>9. T0Ok'
  BY <1>1, <1>3, <1>4, <1>5, <1>6, ThreadsAre DEF Inv, T0Ok, Put0, WalkerPcs
<1>10. Kept' = Kept
  BY <1>3, <1>4, <1>6 DEF Kept, Ended, Inv, WalkerOk
<1>11. WalkerOk'
  BY <1>1, <1>3, <1>4, <1>5, <1>6, <1>10, ThreadsAre DEF Inv, WalkerOk, Ended
<1>12. HolderOk' /\ SeenOk'
  BY <1>1, <1>4 DEF HolderOk, SeenOk
<1>13. KeptOk'
  <2>1. Sum1' = Sum1 /\ Own1' = Own1 /\ Final1' = Final1
    BY <1>1, <1>6 DEF Sum1, Own1, Final1
  <2> QED BY <1>1, <1>3, <1>10, <2>1 DEF Inv, KeptOk
<1> QED BY <1>4, <1>7, <1>8, <1>9, <1>11, <1>12, <1>13, T0Moving

(* The walker's increment is visible when it looks at the sequence count   *)
(* again.  If that has not changed, U has not begun to count.              *)
LEMMA RetryMoves ==
  ASSUME Inv, LegitimizeRetry PROVE Inv'
<1>1. /\ mem' = mem /\ buf' = buf /\ scen' = scen /\ todo' = todo /\ sum' = sum /\ in_rcu' = in_rcu
      /\ pc[T0] = "legit_retry" /\ smp_mb(T0)
      /\ IF READ_ONCE(T0, mount_seq) # 0
         THEN saw' = [saw EXCEPT !.r2 = TRUE] /\ Goto(T0, "legit_lock")
         ELSE saw' = [saw EXCEPT !.res = 0] /\ Goto(T0, "walker_end")
  BY DEF LegitimizeRetry, At, legit_barrier, read_seqretry
<1>2. ShapeOk /\ saw \in Sights /\ scen \in Scenarios /\ BufOk /\ MemOk
  BY DEF Inv, ShapeOk
<1>3. /\ pc'[T1] = pc[T1] /\ pc'[T0] = IF READ_ONCE(T0, mount_seq) # 0 THEN "legit_lock" ELSE "walker_end"
  BY <1>1, <1>2, PcOf, ThreadsAre
<1>4. IsWalk(scen) /\ ~Dropping(scen) /\ ~Taking(scen) /\ scen # "D1"
  BY <1>1 DEF Inv, T0Ok, HolderPcs, Counting, IsWalk, Dropping, Taking
<1>5. \A t \in Threads : Pending(t)' = Pending(t)
  BY <1>1, BufRests
<1>6. READ_ONCE(T0, mount_seq) = mem[mount_seq] /\ Pending(T0) = {}
  BY <1>1, <1>2, Barrier, Reads, Places, ThreadsAre
<1>7. /\ saw' \in Sights /\ saw'.path = saw.path /\ saw'.flags = saw.flags
      /\ saw'.fallback = saw.fallback /\ saw'.peek = saw.peek /\ saw'.slow = saw.slow
      /\ saw'.res = IF mem[mount_seq] # 0 THEN saw.res ELSE 0
  <2>1. CASE saw' = [saw EXCEPT !.r2 = TRUE] /\ mem[mount_seq] # 0
    BY <1>2, <2>1 DEF Sights
  <2>2. CASE saw' = [saw EXCEPT !.res = 0] /\ mem[mount_seq] = 0
    BY <1>2, <2>2 DEF Sights
  <2> QED BY <1>1, <1>6, <2>1, <2>2
<1>8. ShapeOk'
  BY <1>1, <1>2, <1>7, ThreadsAre DEF ShapeOk, Goto
<1>9. T0Moves
  BY <1>1, <1>3, <1>7, ThreadsAre DEF T0Moves, InLock, Counting, Inv, LockOk
<1>10. T0Ok'
  BY <1>1, <1>3, <1>4, <1>5, <1>7, ThreadsAre DEF Inv, T0Ok, Put0, WalkerPcs
<1>11. mem[GH] = 1 /\ saw.flags = 0 /\ saw.res = 1 /\ saw.path[T0] = "none"
  BY <1>1, <1>4, <1>6 DEF Inv, WalkerOk, Ended
<1>12. WalkerOk'
  BY <1>1, <1>3, <1>4, <1>5, <1>6, <1>7, <1>11, ThreadsAre DEF WalkerOk, Ended, Kept
<1>13. HolderOk' /\ SeenOk'
  BY <1>1, <1>4 DEF HolderOk, SeenOk
<1>14. KeptOk'
  <2>1. ASSUME mem[mount_seq] = 0 PROVE ~Final1 /\ pc[T1] \notin Counting
    <3>1. pc[T1] \notin Late
      BY <2>1 DEF Inv, T1Ok
    <3>2. saw.path[T1] = "none" /\ saw.peek = 0
      BY <3>1 DEF Inv, T1Ok, Late
    <3> QED BY <3>1, <3>2 DEF Late, Final1
  <2>2. Final1' = Final1
    BY <1>1, <1>7 DEF Final1
  <2>3. mem[mount_seq] # 0 => ~Kept'
    BY <1>3, <1>6, <1>7, <1>11 DEF Kept, Ended
  <2> QED BY <1>3, <2>1, <2>2, <2>3 DEF KeptOk
<1> QED BY <1>4, <1>8, <1>9, <1>10, <1>12, <1>13, <1>14, T0Moving

-----------------------------------------------------------------------------
(* The stores of the operations                                            *)

(* Short sequences, put together.                                          *)
LEMMA Pair ==
  ASSUME NEW S, NEW a \in S, NEW b \in S PROVE <<a>> \o <<b>> = <<a, b>>
<1> DEFINE s == <<a>>
           e == <<b>>
           r == <<a, b>>
<1>1. s \in Seq(S) /\ e \in Seq(S) /\ r \in Seq(S)
  OBVIOUS
<1>2. Len(s) = 1 /\ Len(e) = 1 /\ Len(r) = 2 /\ s[1] = a /\ e[1] = b /\ r[1] = a /\ r[2] = b
  OBVIOUS
<1> HIDE DEF s, e, r
<1>3. /\ s \o e \in Seq(S) /\ Len(s \o e) = 2 
      /\ \A i \in 1 .. 2 : (s \o e)[i] = IF i <= 1 THEN s[i] ELSE e[i - 1]
  BY <1>1, <1>2, ConcatProperties
<1>4. (s \o e)[1] = a /\ (s \o e)[2] = b
  BY <1>2, <1>3
<1>5. \A i \in 1 .. Len(r) : (s \o e)[i] = r[i]
  BY <1>2, <1>4
<1>6. s \o e = r
  BY <1>1, <1>2, <1>3, <1>5, SeqEqual
<1> QED BY <1>6 DEF s, e, r

(* The same, whatever is in them.                                          *)
LEMMA PairIs ==
  ASSUME NEW a, NEW b PROVE <<a>> \o <<b>> = <<a, b>>
<1> DEFINE S == {a, b}
<1>1. a \in S /\ b \in S
  OBVIOUS
<1> HIDE DEF S
<1> QED BY <1>1, Pair

(* The same of two pairs.                                                  *)
LEMMA Pairs ==
  ASSUME NEW S, NEW a \in S, NEW b \in S, NEW c \in S, NEW d \in S PROVE <<a, b>> \o <<c, d>> = <<a, b, c, d>>
<1> DEFINE s == <<a, b>>
           e == <<c, d>>
           r == <<a, b, c, d>>
<1>1. s \in Seq(S) /\ e \in Seq(S) /\ r \in Seq(S)
  OBVIOUS
<1>2. /\ Len(s) = 2 /\ Len(e) = 2 /\ Len(r) = 4 /\ s[1] = a /\ s[2] = b /\ e[1] = c /\ e[2] = d
      /\ r[1] = a /\ r[2] = b /\ r[3] = c /\ r[4] = d
  OBVIOUS
<1> HIDE DEF s, e, r
<1>3. /\ s \o e \in Seq(S) /\ Len(s \o e) = 4
      /\ \A i \in 1 .. 4 : (s \o e)[i] = IF i <= 2 THEN s[i] ELSE e[i - 2]
  <2>1. /\ s \o e \in Seq(S) /\ Len(s \o e) = Len(s) + Len(e)
        /\ \A i \in 1 .. Len(s) + Len(e) : (s \o e)[i] = IF i <= Len(s) THEN s[i] ELSE e[i - Len(s)]
    BY <1>1, ConcatProperties
  <2>2. Len(s) = 2 /\ Len(e) = 2 /\ Len(s) + Len(e) = 4
    BY <1>2
  <2> QED BY <2>1, <2>2
<1>4. (s \o e)[1] = a /\ (s \o e)[2] = b /\ (s \o e)[3] = c /\ (s \o e)[4] = d
  BY <1>2, <1>3
<1>5. \A i \in 1 .. Len(s \o e) : (s \o e)[i] = r[i]
  <2>1. \A i \in 1 .. 4 : i = 1 \/ i = 2 \/ i = 3 \/ i = 4
    OBVIOUS
  <2> QED BY <1>2, <1>3, <1>4, <2>1
<1>6. s \o e = r
  BY <1>1, <1>2, <1>3, <1>5, SeqEqual
<1> QED BY <1>6 DEF s, e, r

(* No stores at all, a store, a barrier, and two such sequences in turn.   *)
LEMMA NoStores ==
  ASSUME NEW t PROVE Proper(t, <<>>) /\ Locs(<<>>) = {} /\ Releasing(<<>>)
  BY DEF Proper, Locs, Releasing

(* One store, of a value the thread may store there.                       *)
LEMMA OneStore ==
  ASSUME scen \in Scenarios, NEW t, NEW l \in Owned(scen, t), NEW v \in Nat, Stored(scen, l, v)
  PROVE  Proper(t, <<Store(l, v)>>) /\ Locs(<<Store(l, v)>>) = {l}
<1> DEFINE e == Store(l, v)
           seq == <<e>>
<1>1. l \in Locations /\ l # WMB.loc
  BY OwnedLocations, VarsApart
<1>2. e.loc = l /\ e.val = v /\ e \in Entries
  BY <1>1 DEF Store, Entries
<1> HIDE DEF e
<1>3. DOMAIN seq = {1} /\ seq[1] = e /\ seq \in Seq(Entries)
  BY <1>2
<1> HIDE DEF seq
<1>4. Proper(t, seq) /\ Locs(seq) = {l}
  BY <1>1, <1>2, <1>3 DEF Proper, Locs
<1> QED BY <1>4 DEF seq, e

(* One smp_wmb().                                                          *)
LEMMA OneBarrier ==
  ASSUME NEW t PROVE Proper(t, <<WMB>>) /\ Locs(<<WMB>>) = {}
<1> DEFINE seq == <<WMB>>
<1>1. DOMAIN seq = {1} /\ seq[1] = WMB /\ seq \in Seq(Entries)
  BY VarsApart
<1> HIDE DEF seq
<1>2. Proper(t, seq) /\ Locs(seq) = {}
  BY <1>1 DEF Proper, Locs
<1> QED BY <1>2 DEF seq

(* Two sequences in turn.                                                  *)
LEMMA BothStores ==
  ASSUME NEW t, NEW a, NEW b, Proper(t, a), Proper(t, b)
  PROVE  /\ Proper(t, a \o b)
         /\ \A l : l \in Locs(a \o b) <=> l \in Locs(a) \/ l \in Locs(b)
         /\ mount_lock \notin Locs(a) /\ Releasing(b) => Releasing(a \o b)
<1> DEFINE r == a \o b
<1>1. a \in Seq(Entries) /\ b \in Seq(Entries)
  BY DEF Proper
<1>2. /\ r \in Seq(Entries) /\ DOMAIN r = 1 .. Len(a) + Len(b) /\ Len(r) = Len(a) + Len(b)
      /\ \A i \in DOMAIN a : i \in DOMAIN r /\ r[i] = a[i]
      /\ \A i \in DOMAIN b : Len(a) + i \in DOMAIN r /\ r[Len(a) + i] = b[i]
      /\ \A i \in DOMAIN r : i \in DOMAIN a \/ (i > Len(a) /\ i - Len(a) \in DOMAIN b /\ r[i] = b[i - Len(a)])
      /\ \A i \in DOMAIN r : i \in DOMAIN a => r[i] = a[i]
  BY <1>1, Appended
<1>3. DOMAIN a = 1 .. Len(a) /\ DOMAIN b = 1 .. Len(b) /\ Len(a) \in Nat /\ Len(b) \in Nat
  BY <1>1, LenProperties
<1> HIDE DEF r
<1>4. Proper(t, r)
  BY <1>2 DEF Proper
<1>5. Locs(r) = Locs(a) \cup Locs(b)
  <2>1. {r[i].loc : i \in DOMAIN r} = {a[i].loc : i \in DOMAIN a} \cup {b[i].loc : i \in DOMAIN b}
    BY <1>2
  <2> QED BY <2>1 DEF Locs
<1>6. ASSUME mount_lock \notin Locs(a), Releasing(b) PROVE Releasing(r)
  <2>1. \A i \in DOMAIN a : a[i].loc # mount_lock
    <3>1. mount_lock # WMB.loc
      BY VarsApart, AllLocations
    <3> QED BY <1>6, <3>1 DEF Locs
  <2>2. ASSUME NEW i \in DOMAIN r, r[i].loc = mount_lock
        PROVE  i = Len(r) /\ i > 1 /\ r[i - 1] = WMB
    <3>1. i \notin DOMAIN a
      BY <1>2, <2>1, <2>2
    <3> DEFINE j == i - Len(a)
    <3>2. i > Len(a) /\ j \in DOMAIN b /\ r[i] = b[j] /\ i \in Nat
      BY <1>2, <1>3, <3>1
    <3>3. j = Len(b) /\ j > 1 /\ b[j - 1] = WMB
      BY <1>6, <2>2, <3>2 DEF Releasing
    <3>4. j - 1 \in DOMAIN b /\ Len(a) + (j - 1) = i - 1 /\ i = Len(a) + Len(b) /\ i > 1
      BY <1>3, <3>2, <3>3
    <3>5. r[Len(a) + (j - 1)] = b[j - 1]
      BY <1>2, <3>4
    <3> QED BY <1>2, <3>3, <3>4, <3>5
  <2> QED BY <2>2 DEF Releasing
<1> QED BY <1>4, <1>5, <1>6 DEF r

(* The sequence count and the lock may be stored at any time.              *)
LEMMA CountStore ==
  ASSUME BufOk, MemOk, scen \in Scenarios, NEW t \in Threads
  PROVE  Proper(t, <<Inc(t, mount_seq)>>) /\ Locs(<<Inc(t, mount_seq)>>) = {mount_seq}
<1>1. READ_ONCE(t, mount_seq) \in Nat
  BY Reads, Places DEF MemOk
<1> DEFINE v == READ_ONCE(t, mount_seq) + 1
<1>2. v \in Nat /\ v >= 1 /\ mount_seq \in Owned(scen, t)
  BY <1>1 DEF Owned
<1> HIDE DEF v
<1>3. Stored(scen, mount_seq, v)
  BY <1>2, Places DEF Stored
<1>4. Inc(t, mount_seq) = Store(mount_seq, v)
  BY DEF Inc, v
<1> QED BY <1>2, <1>3, <1>4, OneStore

(* lock_mount_hash() writes the sequence count.                            *)
LEMMA LockStores ==
  ASSUME BufOk, MemOk, scen \in Scenarios, NEW t \in Threads
  PROVE  LET seq == <<Inc(t, mount_seq), WMB>>
         IN Proper(t, seq) /\ Locs(seq) = {mount_seq}
<1> DEFINE a == <<Inc(t, mount_seq)>>
           b == <<WMB>>
<1>1. Proper(t, a) /\ Locs(a) = {mount_seq} /\ Proper(t, b) /\ Locs(b) = {}
  BY CountStore, OneBarrier
<1>2. a \o b = <<Inc(t, mount_seq), WMB>>
  BY PairIs
<1> HIDE DEF a, b
<1>3. Proper(t, a \o b) /\ Locs(a \o b) = Locs(a) \cup Locs(b)
  BY <1>1, BothStores DEF a, b
<1> QED BY <1>1, <1>2, <1>3

(* unlock_mount_hash() writes it again and releases the lock, in this      *)
(* order.                                                                  *)
LEMMA UnlockStores ==
  ASSUME BufOk, MemOk, scen \in Scenarios, NEW t \in Threads
  PROVE  /\ Proper(t, unlock_stores(t)) /\ Locs(unlock_stores(t)) = {mount_seq, mount_lock}
         /\ Releasing(unlock_stores(t))
<1>1. PICK w : w = <<WMB>> /\ Proper(t, w) /\ Locs(w) = {}
  BY OneBarrier
<1>2. PICK i : i = <<Inc(t, mount_seq)>> /\ Proper(t, i) /\ Locs(i) = {mount_seq}
  BY CountStore
<1>3. PICK z : z = <<Store(mount_lock, 0)>> /\ Proper(t, z) /\ Locs(z) = {mount_lock}
  <2>1. mount_lock \in Owned(scen, t) /\ Stored(scen, mount_lock, 0)
    BY Places DEF Owned, Stored
  <2> QED BY <2>1, OneStore
<1>4. PICK a : a = w \o i /\ Proper(t, a) /\ Locs(a) = {mount_seq}
  <2>1. Proper(t, w \o i) /\ Locs(w \o i) = Locs(w) \cup Locs(i)
    BY <1>1, <1>2, BothStores
  <2> QED BY <1>1, <1>2, <2>1
<1>5. PICK b : b = w \o z /\ Proper(t, b) /\ Locs(b) = {mount_lock}
  <2>1. Proper(t, w \o z) /\ Locs(w \o z) = Locs(w) \cup Locs(z)
    BY <1>1, <1>3, BothStores
  <2> QED BY <1>1, <1>3, <2>1
<1>6. a = <<WMB, Inc(t, mount_seq)>> /\ b = <<WMB, Store(mount_lock, 0)>>
  BY <1>1, <1>2, <1>3, <1>4, <1>5, PairIs
<1>7. Releasing(b)
  <2>1. DOMAIN b = {1, 2} /\ Len(b) = 2 /\ b[1] = WMB /\ b[2] = Store(mount_lock, 0)
    BY <1>6
  <2>2. WMB.loc # mount_lock
    BY VarsApart, AllLocations
  <2> QED BY <2>1, <2>2 DEF Releasing
<1>8. a \o b = unlock_stores(t)
  <2>1. PICK c : c = Inc(t, mount_seq)
    OBVIOUS
  <2>2. PICK d : d = Store(mount_lock, 0)
    OBVIOUS
  <2>3. PICK S : WMB \in S /\ c \in S /\ d \in S
    <3>1. WMB \in {WMB, c, d} /\ c \in {WMB, c, d} /\ d \in {WMB, c, d}
      OBVIOUS
    <3> QED BY <3>1
  <2>4. <<WMB, c>> \o <<WMB, d>> = <<WMB, c, WMB, d>>
    BY <2>3, Pairs
  <2> QED BY <1>6, <2>1, <2>2, <2>4 DEF unlock_stores
<1>9. mount_lock \notin Locs(a) /\ Proper(t, a) /\ Proper(t, b)
  BY <1>4, <1>5, Places
<1>10. /\ Proper(t, a \o b) /\ Releasing(a \o b)
       /\ \A l : l \in Locs(a \o b) <=> l \in Locs(a) \/ l \in Locs(b)
  <2>1. Proper(t, a \o b)
    BY <1>9, BothStores
  <2>3. \A l : l \in Locs(a \o b) <=> l \in Locs(a) \/ l \in Locs(b)
    BY <1>9, BothStores
  <2>2. Releasing(a \o b)
    BY <1>7, <1>9, BothStores
  <2> QED BY <2>1, <2>2, <2>3
<1>11. Locs(a \o b) = {mount_seq, mount_lock}
  BY <1>4, <1>5, <1>10
<1> QED BY <1>8, <1>10, <1>11

(* mnt_flags gets another bit.                                             *)
LEMMA FlagStore ==
  ASSUME BufOk, MemOk, scen \in Scenarios, NEW t \in Threads, NEW bit \in {1, 2}
  PROVE  Proper(t, <<Set(t, bit)>>) /\ Locs(<<Set(t, bit)>>) = {flags}
<1> DEFINE f == READ_ONCE(t, flags)
           v == IF f \in {bit, 3} THEN f ELSE f + bit
<1>1. f \in 0 .. 3
  BY Reads, Places DEF MemOk, Stored
<1> HIDE DEF f
<1>2. v \in 1 .. 3 /\ v \in Nat /\ flags \in Owned(scen, t)
  BY <1>1 DEF Owned
<1>3. Set(t, bit) = Store(flags, v)
  BY DEF Set, f
<1> HIDE DEF v
<1>4. Stored(scen, flags, v)
  BY <1>2, Places DEF Stored
<1> QED BY <1>2, <1>3, <1>4, OneStore

(* Who finishes the mount is the first to.                                 *)
LEMMA FinalStores ==
  ASSUME BufOk, MemOk, scen \in Scenarios, NEW t \in Threads,
         Dropping(scen) => mem[freed] = 0 /\ freed \notin Pending(t)
  PROVE  Proper(t, mntput_final_stores(t)) /\ Locs(mntput_final_stores(t)) = {flags, freed}
<1> DEFINE v == READ_ONCE(t, freed) + 1
<1>1. v \in Nat /\ v >= 1 /\ (Dropping(scen) => v = 1)
  BY Reads, Places DEF MemOk
<1>2. Inc(t, freed) = Store(freed, v) /\ freed \in Owned(scen, t)
  BY DEF Inc, Owned
<1> HIDE DEF v
<1>3. Stored(scen, freed, v)
  BY <1>1, Places DEF Stored
<1>4. Proper(t, <<Inc(t, freed)>>) /\ Locs(<<Inc(t, freed)>>) = {freed}
  BY <1>1, <1>2, <1>3, OneStore
<1>5. Proper(t, <<Set(t, MNT_DOOMED)>>) /\ Locs(<<Set(t, MNT_DOOMED)>>) = {flags}
  BY FlagStore DEF MNT_DOOMED
<1> DEFINE a == <<Set(t, MNT_DOOMED)>>
           b == <<Inc(t, freed)>>
<1>6. mntput_final_stores(t) = a \o b
  BY PairIs DEF mntput_final_stores
<1> HIDE DEF a, b
<1>7. Proper(t, a \o b) /\ Locs(a \o b) = Locs(a) \cup Locs(b)
  BY <1>4, <1>5, BothStores DEF a, b
<1>8. Locs(a) \cup Locs(b) = {flags, freed}
  BY <1>4, <1>5 DEF a, b
<1> QED BY <1>6, <1>7, <1>8

(* A reference is taken or dropped, in the slot that was as at first.      *)
LEMMA CounterStore ==
  ASSUME BufOk, MemOk, scen \in Scenarios, NEW t \in Threads, NEW l, l \notin Pending(t),
         \/ t = T0 /\ l = GH /\ mem[l] = First(scen)
         \/ t = T0 /\ l = PH(scen) /\ mem[l] = 0
         \/ t = T1 /\ l = PU /\ mem[l] = 0
  PROVE  Proper(t, <<Inc(t, l)>>) /\ Locs(<<Inc(t, l)>>) = {l}
<1>1. l \in Locations /\ l \in Owned(scen, t)
  BY Places, ThreadsAre DEF Owned
<1>2. READ_ONCE(t, l) = mem[l]
  BY <1>1, Reads
<1> DEFINE v == mem[l] + 1
<1>3. v \in Nat /\ (l = GH => v = First(scen) + 1) /\ (l \in {PU, PH(scen)} => v = 1)
  BY <1>1, Places DEF MemOk
<1>4. Inc(t, l) = Store(l, v)
  BY <1>2 DEF Inc
<1> HIDE DEF v
<1>5. l \notin {mnt_ns, mount_lock, mount_seq, flags, freed}
  BY Places, VarsApart
<1>6. Stored(scen, l, v)
  BY <1>3, <1>5 DEF Stored
<1> QED BY <1>1, <1>3, <1>4, <1>6, OneStore

(* The put after the get.                                                  *)
LEMMA GetsStayFirst ==
  ASSUME BufOk, NEW seq, Proper(T0, seq), WRITE_ONCE(T0, seq), scen' = scen, scen \in Scenarios, GetFirst,
         \/ GH \notin Pending(T0)'
         \/ PH(scen) \notin Pending(T0)'
         \/ {GH, PH(scen)} \cap Locs(seq) = {}
         \/ \E v : seq = <<WMB, Store(PH(scen), v)>>
  PROVE  GetFirst'
<1> DEFINE s == buf[T0]
           r == buf'[T0]
<1>1. s \in Seq(Entries) /\ seq \in Seq(Entries) /\ r = s \o seq
  BY ThreadsAre DEF BufOk, Proper, WRITE_ONCE
<1>2. /\ r \in Seq(Entries) /\ DOMAIN r = 1 .. Len(s) + Len(seq) /\ Len(r) = Len(s) + Len(seq)
      /\ \A i \in DOMAIN s : i \in DOMAIN r /\ r[i] = s[i]
      /\ \A i \in DOMAIN seq : Len(s) + i \in DOMAIN r /\ r[Len(s) + i] = seq[i]
      /\ \A i \in DOMAIN r : i \in DOMAIN s \/ (i > Len(s) /\ i - Len(s) \in DOMAIN seq /\ r[i] = seq[i - Len(s)])
  BY <1>1, Appended
<1>3. DOMAIN s = 1 .. Len(s) /\ DOMAIN seq = 1 .. Len(seq) /\ Len(s) \in Nat /\ Len(seq) \in Nat
  BY <1>1, LenProperties
<1>4. GH # WMB.loc /\ PH(scen) # WMB.loc /\ GH # PH(scen)
  BY Places, VarsApart
<1>5. Pending(T0)' = {r[i].loc : i \in DOMAIN r} \ {WMB.loc}
  BY DEF Pending
<1> HIDE DEF r, s
<1> SUFFICES ASSUME NEW i \in DOMAIN r, NEW j \in DOMAIN r, r[i].loc = PH(scen), r[j].loc = GH
             PROVE  \E k \in j + 1 .. i - 1 : r[k] = WMB
  BY DEF GetFirst, r
<1>6. GH \in Pending(T0)' /\ PH(scen) \in Pending(T0)'
  BY <1>4, <1>5
<1>7. CASE i \in DOMAIN s /\ j \in DOMAIN s
  <2>1. PICK k \in j + 1 .. i - 1 : s[k] = WMB
    BY <1>2, <1>7 DEF GetFirst, s
  <2>2. k \in DOMAIN s
    BY <1>3, <1>7, <2>1
  <2> QED BY <1>2, <2>1, <2>2
<1>8. CASE {GH, PH(scen)} \cap Locs(seq) = {}
  <2>1. \A n \in DOMAIN seq : seq[n].loc \notin {GH, PH(scen)}
    BY <1>4, <1>8 DEF Locs
  <2> QED BY <1>2, <1>7, <2>1
<1>9. CASE \E v : seq = <<WMB, Store(PH(scen), v)>>
  <2>1. PICK v : seq = <<WMB, Store(PH(scen), v)>>
    BY <1>9
  <2>2. Len(seq) = 2 /\ seq[1] = WMB /\ seq[2].loc = PH(scen) /\ DOMAIN seq = {1, 2}
    BY <2>1 DEF Store
  <2>3. j \in DOMAIN s
    BY <1>2, <1>3, <1>4, <2>2
  <2>4. CASE i \notin DOMAIN s
    <3>1. i - Len(s) \in {1, 2} /\ seq[i - Len(s)].loc = PH(scen) /\ i \in Nat
      BY <1>2, <1>3, <2>2, <2>4
    <3>2. i - Len(s) = 2
      BY <1>4, <2>2, <3>1
    <3>3. Len(s) + 1 \in j + 1 .. i - 1 /\ r[Len(s) + 1] = WMB
      BY <1>2, <1>3, <2>2, <2>3, <3>1, <3>2
    <3> QED BY <3>3
  <2> QED BY <1>7, <2>3, <2>4
<1> QED BY <1>6, <1>8, <1>9

-----------------------------------------------------------------------------
(* Taking the lock *)

(* Who takes the lock finds none of the other's stores outstanding that    *)
(* were made under it.                                                     *)
LEMMA Locking ==
  ASSUME Inv, NEW t \in Threads, lock_mount_hash(t), scen' = scen, saw' = saw,
         ~InLock(t), InLock(t)', \A o \in Threads \ {t} : pc'[o] = pc[o]
  PROVE  /\ SameMem /\ BufOk' /\ MemOk' /\ UnlockLast' /\ LockOk' /\ FreeOk' /\ (GetFirst => GetFirst')
         /\ \A o \in Threads : ~Holds(o)
         /\ Pending(t)' = Pending(t) \cup {mount_seq}
         /\ \A o \in Threads \ {t} : Pending(o)' = Pending(o)
         /\ \A o \in Threads : \A l \in Locations \ {mount_seq} : l \in Pending(o)' <=> l \in Pending(o)
<1> DEFINE seq == <<Inc(t, mount_seq), WMB>>
<1>1. /\ mem[mount_lock] = 0 /\ mem' = [mem EXCEPT ![mount_lock] = 1]
      /\ WRITE_ONCE(t, seq)
  BY DEF lock_mount_hash, spin_lock
<1>2. ShapeOk /\ scen \in Scenarios /\ BufOk /\ MemOk /\ LockOk /\ UnlockLast /\ FreeOk
  BY DEF Inv, ShapeOk
<1>3. Proper(t, seq) /\ Locs(seq) = {mount_seq}
  BY <1>2, LockStores
<1> HIDE DEF seq
<1>4. \A o \in Threads : ~Holds(o) /\ mount_lock \notin Pending(o) /\ ~InLock(o)
  BY <1>1, <1>2 DEF LockOk, Holds
<1>5. /\ BufOk' /\ Pending(t)' = Pending(t) \cup {mount_seq}
      /\ \A o \in Threads \ {t} : Pending(o)' = Pending(o)
  BY <1>1, <1>2, <1>3, Writes
<1>6. UnlockLast'
  <2>1. Releasing(seq)
    <3>1. \A i \in DOMAIN seq : seq[i].loc # mount_lock
      <4>1. mount_lock # WMB.loc /\ mount_lock # mount_seq
        BY VarsApart, AllLocations
      <4> QED BY <1>3, <4>1 DEF Locs
    <3> QED BY <3>1 DEF Releasing
  <2> QED BY <1>1, <1>2, <1>3, <1>4, <2>1, Writes
<1>7. SameMem
  BY <1>1, <1>2 DEF SameMem, MemOk
<1>8. MemOk'
  <2>1. mem' \in [Locations -> Nat] /\ mem'[mount_lock] = 1
    BY <1>1, <1>2, Places DEF MemOk
  <2>2. \A l \in Locations \ {mount_lock} : mem'[l] = mem[l]
    BY <1>7 DEF SameMem
  <2>3. \A l \in AllSlots : l \in Locations \ {mount_lock}
    BY <1>2, Places, AllLocations
  <2> QED BY <1>2, <2>1, <2>2, <2>3, Places DEF MemOk
<1>9. \A o \in Threads : \A l \in Locations \ {mount_seq} : l \in Pending(o)' <=> l \in Pending(o)
  BY <1>5
<1>10. LockOk'
  <2>1. mem'[mount_lock] = 1
    BY <1>1, <1>2, Places DEF MemOk
  <2>2. \A o \in Threads : mount_lock \notin Pending(o)'
    BY <1>2, <1>4, <1>9, Places
  <2>3. \A o \in Threads \ {t} : ~Holds(o)'
    BY <1>4, <2>2 DEF Holds, InLock
  <2>4. Holds(t)'
    BY DEF Holds
  <2>5. \A o \in Threads : \A l \in {flags, freed, PU} : l \notin Pending(o)'
    BY <1>2, <1>4, <1>9, Places DEF LockOk
  <2>6. \A o \in Threads \ {t} : mount_seq \notin Pending(o)'
    BY <1>2, <1>4, <1>5 DEF LockOk
  <2>7. PH(scen) \in Pending(T0)' => saw.path[T0] = "fast"
    BY <1>2, <1>4, <1>9, Places, ThreadsAre DEF LockOk
  <2> QED BY <2>1, <2>2, <2>3, <2>4, <2>5, <2>6, <2>7, ThreadsAre DEF LockOk
<1>11. FreeOk'
  <2>1. \A l \in {freed, flags} : mem'[l] = mem[l] /\ l \in Locations \ {mount_seq}
    BY <1>2, <1>7, Places DEF SameMem
  <2>2. Final0' = Final0 /\ Final1' = Final1
    BY DEF Final0, Final1
  <2> QED BY <1>2, <1>9, <2>1, <2>2, ThreadsAre DEF FreeOk
<1>12. GetFirst => GetFirst'
  <2> SUFFICES ASSUME GetFirst PROVE GetFirst'
    OBVIOUS
  <2>1. CASE t = T0
    <3>1. {GH, PH(scen)} \cap Locs(seq) = {}
      BY <1>2, <1>3, Places
    <3> QED BY <1>1, <1>2, <1>3, <2>1, <3>1, GetsStayFirst
  <2>2. CASE t # T0
    <3>1. buf'[T0] = buf[T0]
      BY <1>1, <1>2, <2>2, ThreadsAre DEF WRITE_ONCE, BufOk
    <3> QED BY <3>1 DEF GetFirst
  <2> QED BY <2>1, <2>2
<1> QED BY <1>4, <1>5, <1>6, <1>7, <1>8, <1>9, <1>10, <1>11, <1>12

-----------------------------------------------------------------------------
(* What T0 does does not disturb U *)

(* What T0 does without a store to the memory does not disturb U.          *)
LEMMA T0Acting ==
  ASSUME Inv, SameMem, T1Rests, saw'.ns2 = saw.ns2
  PROVE  /\ T1Ok' /\ Count1Ok' /\ Gets1Ok' /\ SeenOk'
         /\ Final1' = Final1 /\ Sum1' = Sum1 /\ Own1' = Own1
         /\ GetFirst' /\ ~Final0' => TakingOk'
         /\ ~Taking(scen) => TakingOk'
<1>1. ShapeOk /\ scen \in Scenarios
  BY DEF Inv, ShapeOk
<1>2. /\ T1Ok' /\ Count1Ok' /\ Gets1Ok' /\ Final1' = Final1 /\ Sum1' = Sum1 /\ Own1' = Own1
  BY <1>1, T1Resting DEF Inv
<1>3. scen' = scen /\ mem'[GH] = mem[GH] /\ mem'[PH(scen)] = mem[PH(scen)] /\ pc'[T1] = pc[T1]
  BY <1>1, Places DEF SameMem, T1Rests
<1>4. SeenOk'
  BY <1>2, <1>3 DEF Inv, SeenOk, T1Rests
<1>5. GetFirst' /\ ~Final0' => TakingOk'
  BY <1>2, <1>3 DEF Inv, TakingOk
<1>6. ~Taking(scen) => TakingOk'
  BY <1>3 DEF TakingOk
<1> QED BY <1>2, <1>4, <1>5, <1>6

(* T0 takes mount_lock, in the slow path or in __legitimize_mnt().         *)
LEMMA T0Locks ==
  ASSUME Inv, SlowLock(T0) \/ LegitimizeLock PROVE Inv'
<1>1. /\ lock_mount_hash(T0) /\ scen' = scen /\ todo' = todo /\ sum' = sum /\ saw' = saw /\ in_rcu' = in_rcu
      /\ \/ pc[T0] = "slow_lock" /\ Goto(T0, "slow_dec")
         \/ pc[T0] = "legit_lock" /\ Goto(T0, "legit_flags")
  BY DEF SlowLock, LegitimizeLock, At
<1>2. ShapeOk /\ scen \in Scenarios
  BY DEF Inv, ShapeOk
<1>3. /\ pc'[T1] = pc[T1]
      /\ \/ pc[T0] = "slow_lock" /\ pc'[T0] = "slow_dec"
         \/ pc[T0] = "legit_lock" /\ pc'[T0] = "legit_flags"
  BY <1>1, <1>2, PcOf, ThreadsAre
<1>4. ~InLock(T0) /\ InLock(T0)' /\ \A o \in Threads \ {T0} : pc'[o] = pc[o]
  BY <1>3, ThreadsAre DEF InLock, Counting
<1>5. /\ SameMem /\ BufOk' /\ MemOk' /\ UnlockLast' /\ LockOk' /\ FreeOk' /\ (GetFirst => GetFirst')
      /\ \A o \in Threads \ {T0} : Pending(o)' = Pending(o)
      /\ \A o \in Threads : \A l \in Locations \ {mount_seq} : l \in Pending(o)' <=> l \in Pending(o)
  BY <1>1, <1>4, Locking, ThreadsAre
<1>6. T1Rests /\ saw'.ns2 = saw.ns2
  BY <1>1, <1>3, <1>5, ThreadsAre DEF T1Rests
<1>7. /\ T1Ok' /\ Count1Ok' /\ Gets1Ok' /\ SeenOk'
      /\ Final1' = Final1 /\ Sum1' = Sum1 /\ Own1' = Own1
      /\ GetFirst' /\ ~Final0' => TakingOk'
      /\ ~Taking(scen) => TakingOk'
  BY <1>5, <1>6, T0Acting
<1>8. /\ mem'[GH] = mem[GH] /\ mem'[PH(scen)] = mem[PH(scen)] /\ mem'[PU] = mem[PU]
      /\ GH \in Pending(T0)' <=> GH \in Pending(T0)
      /\ PH(scen) \in Pending(T0)' <=> PH(scen) \in Pending(T0)
  BY <1>2, <1>5, Places, ThreadsAre DEF SameMem
<1>9. ShapeOk'
  BY <1>1, <1>2, ThreadsAre DEF ShapeOk, Goto
<1>10. Final0' = Final0 /\ Put0' = Put0 /\ Kept' = Kept
  BY <1>1, <1>3 DEF Final0, Put0, Kept, Ended, Counting
<1>11. T0Ok'
  BY <1>1, <1>3, <1>8, <1>10 DEF Inv, T0Ok, WalkerPcs, HolderPcs, Counting
<1>12. HolderOk'
  BY <1>1, <1>3, <1>8 DEF Inv, HolderOk, Counting
<1>13. WalkerOk'
  BY <1>1, <1>3, <1>8, <1>10 DEF Inv, WalkerOk, Ended
<1>14. CountOk' /\ Count0Ok'
  BY <1>1, <1>3, ThreadsAre DEF Inv, CountOk, Count0Ok, Counting
<1>15. TakingOk'
  BY <1>1, <1>5, <1>7, <1>10 DEF Inv, TakingOk
<1>16. DroppingOk'
  BY <1>1, <1>3, <1>7, <1>8, <1>10 DEF Inv, DroppingOk, AfterGp, Counting
<1>17. KeptOk'
  BY <1>1, <1>3, <1>7, <1>10 DEF Inv, KeptOk
<1> QED BY <1>5, <1>7, <1>9, <1>11, <1>12, <1>13, <1>14, <1>15, <1>16, <1>17 DEF Inv

(* The holder takes a reference.                                           *)
LEMMA HolderGets ==
  ASSUME Inv, HolderGet, Taking(scen) PROVE Inv'
<1>1. /\ mem' = mem /\ WRITE_ONCE(T0, <<Inc(T0, GH)>>)
      /\ scen' = scen /\ todo' = todo /\ sum' = sum /\ saw' = saw /\ in_rcu' = in_rcu
      /\ pc[T0] = "holder" /\ Goto(T0, "put")
  BY DEF HolderGet, At, Taking, GH
<1>2. ShapeOk /\ scen \in Scenarios /\ BufOk /\ MemOk
  BY DEF Inv, ShapeOk
<1>3. pc'[T1] = pc[T1] /\ pc'[T0] = "put"
  BY <1>1, <1>2, PcOf, ThreadsAre
<1>4. ~IsWalk(scen) /\ ~Dropping(scen) /\ scen # "D1" /\ First(scen) = 1
  BY DEF IsWalk, Dropping, Taking, First
<1>5. mem[GH] = First(scen) /\ GH \notin Pending(T0) /\ saw.path[T0] = "none"
  BY <1>1, <1>4 DEF Inv, HolderOk, Counting
<1>6. Proper(T0, <<Inc(T0, GH)>>) /\ Locs(<<Inc(T0, GH)>>) = {GH}
  BY <1>2, <1>5, CounterStore, ThreadsAre
<1>7. PICK seq : seq = <<Inc(T0, GH)>> /\ WRITE_ONCE(T0, seq) /\ Proper(T0, seq) /\ Locs(seq) = {GH}
  BY <1>1, <1>6
<1>8. /\ BufOk' /\ Pending(T0)' = Pending(T0) \cup {GH}
      /\ \A o \in Threads \ {T0} : Pending(o)' = Pending(o)
  BY <1>1, <1>2, <1>7, Writes, ThreadsAre
<1>9. mount_lock \notin Pending(T0) /\ PH(scen) \notin Pending(T0)
  BY <1>1, <1>4, ThreadsAre DEF Inv, LockOk, T0Ok, Put0, Counting
<1>10. UnlockLast'
  <2>1. Releasing(seq)
    <3>1. \A i \in DOMAIN seq : seq[i].loc # mount_lock
      BY <1>2, <1>7, Places, VarsApart, AllLocations DEF Locs
    <3> QED BY <3>1 DEF Releasing
  <2> QED BY <1>1, <1>2, <1>7, <1>9, <2>1, Writes, ThreadsAre DEF Inv
<1>11. SameMem /\ MemOk'
  BY <1>1, <1>2, MemRests
<1>12. T1Rests /\ saw'.ns2 = saw.ns2
  BY <1>1, <1>3, <1>8, ThreadsAre DEF T1Rests
<1>13. /\ T1Ok' /\ Count1Ok' /\ Gets1Ok' /\ SeenOk'
       /\ Final1' = Final1 /\ Sum1' = Sum1 /\ Own1' = Own1
       /\ GetFirst' /\ ~Final0' => TakingOk'
  BY <1>11, <1>12, T0Acting
<1>14. ShapeOk'
  BY <1>1, <1>2, ThreadsAre DEF ShapeOk, Goto
<1>15. Final0' = Final0 /\ Put0' = Put0
  BY <1>1, <1>3 DEF Final0, Put0, Counting
<1>16. \A l \in Locations \ {GH} : \A o \in Threads : l \in Pending(o)' <=> l \in Pending(o)
  BY <1>8, ThreadsAre
<1>17. LockOk'
  <2>1. \A o \in Threads : \A l \in {mount_lock, mount_seq, flags, freed, PU, PH(scen)} : l \in Pending(o)' <=> l \in Pending(o)
    BY <1>2, <1>16, Places
  <2>2. \A o \in Threads : Holds(o)' = Holds(o)
    BY <1>1, <1>3, <2>1, ThreadsAre DEF Holds, InLock, Counting
  <2> QED BY <1>1, <1>3, <1>9, <2>1, <2>2, ThreadsAre DEF Inv, LockOk
<1>18. FreeOk'
  <2>1. \A o \in Threads : \A l \in {flags, freed} : l \in Pending(o)' <=> l \in Pending(o)
    BY <1>2, <1>16, Places
  <2> QED BY <1>1, <1>13, <1>15, <2>1, ThreadsAre DEF Inv, FreeOk
<1>19. T0Ok'
  BY <1>1, <1>2, <1>3, <1>4, <1>15, <1>16, Places, ThreadsAre DEF Inv, T0Ok, HolderPcs
<1>20. HolderOk'
  BY <1>1, <1>3, <1>4, <1>8 DEF Inv, HolderOk, Counting
<1>21. CountOk' /\ Count0Ok'
  BY <1>1, <1>3, ThreadsAre DEF Inv, CountOk, Count0Ok, Counting
<1>22. GetFirst'
  <2>1. PH(scen) \notin Pending(T0)'
    BY <1>2, <1>9, <1>16, Places, ThreadsAre
  <2> QED BY <1>1, <1>2, <1>7, <2>1, GetsStayFirst DEF Inv, TakingOk
<1>23. TakingOk'
  BY <1>13, <1>15, <1>22 DEF Inv, TakingOk
<1>24. DroppingOk' /\ KeptOk' /\ WalkerOk'
  BY <1>1, <1>4 DEF DroppingOk, KeptOk, WalkerOk
<1> QED BY <1>8, <1>10, <1>11, <1>13, <1>14, <1>17, <1>18, <1>19, <1>20, <1>21, <1>23, <1>24 DEF Inv

-----------------------------------------------------------------------------
(* T0's other stores *)

(* U is as before, and the stores of seq are pending.                      *)
LEMMA T0Stores ==
  ASSUME Inv, mem' = mem, scen' = scen, NEW seq, Proper(T0, seq), WRITE_ONCE(T0, seq),
         pc'[T1] = pc[T1], todo'[T1] = todo[T1], sum'[T1] = sum[T1],
         saw'.fallback = saw.fallback, saw'.path[T1] = saw.path[T1], saw'.peek = saw.peek,
         saw'.slow[T1] = saw.slow[T1], saw'.ns2 = saw.ns2
  PROVE  /\ BufOk' /\ MemOk' /\ SameMem /\ T1Rests
         /\ Pending(T0)' = Pending(T0) \cup Locs(seq) /\ Pending(T1)' = Pending(T1)
         /\ mount_lock \notin Pending(T0) /\ (mount_lock \notin Locs(seq) \/ Releasing(seq)) => UnlockLast'
         /\ T1Ok' /\ Count1Ok' /\ Gets1Ok' /\ SeenOk'
         /\ Final1' = Final1 /\ Sum1' = Sum1 /\ Own1' = Own1
         /\ GetFirst' /\ ~Final0' => TakingOk'
         /\ ~Taking(scen) => TakingOk'
<1>1. ShapeOk /\ scen \in Scenarios /\ BufOk /\ MemOk
  BY DEF Inv, ShapeOk
<1>2. /\ BufOk' /\ Pending(T0)' = Pending(T0) \cup Locs(seq)
      /\ \A o \in Threads \ {T0} : Pending(o)' = Pending(o)
  BY <1>1, Writes, ThreadsAre
<1>3. Pending(T1)' = Pending(T1)
  BY <1>2, ThreadsAre
<1>4. ASSUME mount_lock \notin Pending(T0), mount_lock \notin Locs(seq) \/ Releasing(seq) PROVE UnlockLast'
  <2>1. CASE mount_lock \notin Locs(seq)
    <3>1. \A i \in DOMAIN seq : seq[i].loc # mount_lock
      BY <2>1, VarsApart, AllLocations DEF Locs
    <3>2. Releasing(seq)
      BY <3>1 DEF Releasing
    <3> QED BY <1>1, <1>4, <3>2, Writes, ThreadsAre DEF Inv
  <2>2. CASE Releasing(seq)
    BY <1>1, <1>4, <2>2, Writes, ThreadsAre DEF Inv
  <2> QED BY <1>4, <2>1, <2>2
<1>5. SameMem /\ MemOk'
  BY <1>1, MemRests
<1>6. T1Rests
  BY <1>3, ThreadsAre DEF T1Rests
<1> QED BY <1>2, <1>3, <1>4, <1>5, <1>6, T0Acting

(* The put of the fast path: U has not begun to count, or the count goes   *)
(* on past it.                                                             *)
LEMMA FastPut0 ==
  ASSUME Inv, mntput_no_expire(T0), READ_ONCE(T0, mnt_ns) # 0 PROVE Inv'
<1> DEFINE next == IF scen = "D1" THEN "recheck" ELSE "put_end"
<1>1. /\ mem' = mem /\ WRITE_ONCE(T0, <<WMB>> \o <<Inc(T0, <<"puts", put_cpu(T0)>>)>>)
      /\ scen' = scen /\ todo' = todo /\ sum' = sum /\ in_rcu' = in_rcu
      /\ saw' = [saw EXCEPT !.path[T0] = "fast"]
      /\ pc[T0] = "put_ns" /\ Goto(T0, next)
  BY DEF mntput_no_expire, At, put_barrier, mnt_dec_count
<1>2. ShapeOk /\ scen \in Scenarios /\ BufOk /\ MemOk /\ saw \in Sights
  BY DEF Inv, ShapeOk
<1>3. pc'[T1] = pc[T1] /\ pc'[T0] = next
  BY <1>1, <1>2, PcOf, ThreadsAre
<1>4. ~IsWalk(scen)
  BY <1>1 DEF Inv, T0Ok, WalkerPcs
<1>5. <<"puts", put_cpu(T0)>> = PH(scen)
  BY ThreadsAre DEF put_cpu, PH
<1>6. saw.path[T0] = "none" /\ mem[PH(scen)] = 0 /\ PH(scen) \notin Pending(T0) /\ in_rcu[T0]
  BY <1>1, <1>4 DEF Inv, HolderOk, T0Ok, Put0, Counting
<1>7. mem[mnt_ns] # 0
  <2>1. mnt_ns \notin Owned(scen, T0)
    BY <1>2, Places, VarsApart, ThreadsAre DEF Owned
  <2>2. mnt_ns \notin Pending(T0)
    BY <1>2, <2>1, OwnedPending, ThreadsAre
  <2> QED BY <1>2, <2>2, Reads, Places, ThreadsAre
<1>8. pc[T1] \notin Late
  BY <1>7 DEF Inv, T1Ok
<1>9. ~saw.fallback /\ saw.peek = 0 /\ saw.path[T1] = "none"
  BY <1>8 DEF Inv, T1Ok, Late
<1>10. /\ saw' \in Sights /\ saw'.path[T0] = "fast" /\ saw'.path[T1] = saw.path[T1]
       /\ saw'.flags = saw.flags /\ saw'.r2 = saw.r2 /\ saw'.res = saw.res /\ saw'.ns2 = saw.ns2
       /\ saw'.fallback = saw.fallback /\ saw'.peek = saw.peek /\ saw'.slow = saw.slow
  BY <1>1, <1>2, ThreadsAre DEF Sights
<1>11. Proper(T0, <<Inc(T0, PH(scen))>>) /\ Locs(<<Inc(T0, PH(scen))>>) = {PH(scen)}
  BY <1>2, <1>6, CounterStore, ThreadsAre
<1>12. PICK seq : /\ seq = <<WMB>> \o <<Inc(T0, PH(scen))>> /\ WRITE_ONCE(T0, seq)
                  /\ Proper(T0, seq) /\ Locs(seq) = {PH(scen)}
  <2>1. PICK w : w = <<WMB>> /\ Proper(T0, w) /\ Locs(w) = {}
    BY OneBarrier
  <2>2. PICK i : i = <<Inc(T0, PH(scen))>> /\ Proper(T0, i) /\ Locs(i) = {PH(scen)}
    BY <1>11
  <2>3. Proper(T0, w \o i)
    BY <2>1, <2>2, BothStores
  <2>4. \A l : l \in Locs(w \o i) <=> l \in Locs(w) \/ l \in Locs(i)
    BY <2>1, <2>2, BothStores
  <2>5. Locs(w \o i) = {PH(scen)}
    BY <2>1, <2>2, <2>4
  <2> QED BY <1>1, <1>5, <2>1, <2>2, <2>3, <2>5
<1>13. mount_lock \notin Pending(T0)
  BY <1>1, ThreadsAre DEF Inv, LockOk
<1>14. mount_lock \notin Locs(seq)
  BY <1>2, <1>12, Places
<1>15. /\ BufOk' /\ MemOk' /\ SameMem /\ T1Rests
       /\ Pending(T0)' = Pending(T0) \cup {PH(scen)} /\ Pending(T1)' = Pending(T1) /\ UnlockLast'
       /\ T1Ok' /\ Count1Ok' /\ Gets1Ok' /\ SeenOk'
       /\ Final1' = Final1 /\ Sum1' = Sum1 /\ Own1' = Own1
       /\ GetFirst' /\ ~Final0' => TakingOk'
       /\ ~Taking(scen) => TakingOk'
  BY <1>1, <1>3, <1>10, <1>12, <1>13, <1>14, T0Stores
<1>16. ShapeOk'
  BY <1>1, <1>2, <1>10, ThreadsAre DEF ShapeOk, Goto
<1>17. ~Final0 /\ ~Final0' /\ ~Final1 /\ Put0'
  BY <1>1, <1>3, <1>4, <1>6, <1>9, <1>10 DEF Final0, Final1, Put0
<1>18. \A l \in Locations \ {PH(scen)} : \A o \in Threads : l \in Pending(o)' <=> l \in Pending(o)
  BY <1>15, ThreadsAre
<1>19. LockOk'
  <2>1. \A o \in Threads : \A l \in {mount_lock, mount_seq, flags, freed, PU} : l \in Pending(o)' <=> l \in Pending(o)
    BY <1>2, <1>18, Places
  <2>2. \A o \in Threads : Holds(o)' = Holds(o)
    BY <1>1, <1>3, <2>1, ThreadsAre DEF Holds, InLock, Counting
  <2> QED BY <1>1, <1>3, <1>10, <1>13, <2>1, <2>2, ThreadsAre DEF Inv, LockOk
<1>20. FreeOk'
  <2>1. \A o \in Threads : \A l \in {flags, freed} : l \in Pending(o)' <=> l \in Pending(o)
    BY <1>2, <1>18, Places
  <2> QED BY <1>1, <1>15, <1>17, <2>1, ThreadsAre DEF Inv, FreeOk
<1>21. T0Ok'
  BY <1>1, <1>3, <1>4, <1>15, <1>17 DEF T0Ok, HolderPcs
<1>22. HolderOk'
  <2>1. GH \in Pending(T0)' <=> GH \in Pending(T0)
    BY <1>2, <1>18, Places, ThreadsAre
  <2> QED BY <1>1, <1>3, <1>4, <1>6, <1>10, <2>1 DEF Inv, HolderOk, Counting, Slow
<1>23. CountOk' /\ Count0Ok'
  BY <1>1, <1>3, ThreadsAre DEF Inv, CountOk, Count0Ok, Counting
<1>24. GetFirst => GetFirst'
  <2>1. \E v : seq = <<WMB, Store(PH(scen), v)>>
    BY <1>12, PairIs DEF Inc
  <2> QED BY <1>1, <1>2, <1>12, <2>1, GetsStayFirst
<1>25. TakingOk'
  BY <1>15, <1>17, <1>24 DEF Inv, TakingOk
<1>26. DroppingOk'
  BY <1>1, <1>3, <1>8, <1>9, <1>10, <1>15, <1>17 DEF Inv, DroppingOk, AfterGp, Counting, Late
<1>27. KeptOk' /\ WalkerOk'
  BY <1>1, <1>4 DEF KeptOk, WalkerOk
<1> QED BY <1>15, <1>16, <1>19, <1>20, <1>21, <1>22, <1>23, <1>25, <1>26, <1>27 DEF Inv

(* The slow path: the put, and the count begins.                           *)
LEMMA SlowDec0 ==
  ASSUME Inv, SlowDec(T0) PROVE Inv'
<1>1. /\ mem' = mem /\ smp_mb(T0) /\ WRITE_ONCE(T0, <<Inc(T0, <<"puts", put_cpu(T0)>>)>>)
      /\ scen' = scen /\ saw' = saw /\ in_rcu' = in_rcu
      /\ todo' = [todo EXCEPT ![T0] = AllSlots] /\ sum' = [sum EXCEPT ![T0] = 0]
      /\ pc[T0] = "slow_dec" /\ Goto(T0, "count")
  BY DEF SlowDec, StartCount, At, mnt_dec_count, AllSlots
<1>2. ShapeOk /\ scen \in Scenarios /\ BufOk /\ MemOk
  BY DEF Inv, ShapeOk
<1>3. /\ pc'[T1] = pc[T1] /\ pc'[T0] = "count" /\ todo'[T1] = todo[T1] /\ sum'[T1] = sum[T1]
      /\ todo'[T0] = AllSlots /\ sum'[T0] = 0
  BY <1>1, <1>2, PcOf, ThreadsAre DEF ShapeOk
<1>4. ~IsWalk(scen)
  BY <1>1 DEF Inv, T0Ok, WalkerPcs
<1>5. <<"puts", put_cpu(T0)>> = PH(scen)
  BY ThreadsAre DEF put_cpu, PH
<1>6. /\ saw.path[T0] = "none" /\ mem[PH(scen)] = 0 /\ in_rcu[T0] /\ Pending(T0) = {}
      /\ mem[GH] = IF Taking(scen) THEN 2 ELSE 1
  <2>1. Pending(T0) = {}
    BY <1>1, Barrier, ThreadsAre
  <2> QED BY <1>1, <1>4, <2>1 DEF Inv, HolderOk, T0Ok, Put0, Counting
<1>7. Proper(T0, <<Inc(T0, PH(scen))>>) /\ Locs(<<Inc(T0, PH(scen))>>) = {PH(scen)}
  BY <1>2, <1>6, CounterStore, ThreadsAre
<1>8. PICK seq : /\ WRITE_ONCE(T0, seq) /\ Proper(T0, seq) /\ Locs(seq) = {PH(scen)}
  BY <1>1, <1>5, <1>7
<1>9. mount_lock \notin Locs(seq)
  BY <1>2, <1>8, Places
<1>10. /\ BufOk' /\ MemOk' /\ SameMem /\ T1Rests
       /\ Pending(T0)' = {PH(scen)} /\ Pending(T1)' = Pending(T1) /\ UnlockLast'
       /\ T1Ok' /\ Count1Ok' /\ Gets1Ok' /\ SeenOk'
       /\ Final1' = Final1 /\ Sum1' = Sum1 /\ Own1' = Own1
       /\ GetFirst' /\ ~Final0' => TakingOk'
       /\ ~Taking(scen) => TakingOk'
  BY <1>1, <1>3, <1>6, <1>8, <1>9, T0Stores
<1>11. ShapeOk'
  <2>1. todo' \in [Threads -> SUBSET AllSlots]
    <3>1. AllSlots \in SUBSET AllSlots /\ todo \in [Threads -> SUBSET AllSlots]
      BY <1>2 DEF ShapeOk
    <3> QED BY <1>1, <3>1
  <2>2. sum' \in [Threads -> Int]
    <3>1. sum \in [Threads -> Int] /\ 0 \in Int
      BY <1>2 DEF ShapeOk
    <3> QED BY <1>1, <3>1
  <2>3. pc' = [t \in Threads |-> pc'[t]]
    BY <1>1, <1>2 DEF ShapeOk, Goto
  <2> QED BY <1>1, <1>2, <2>1, <2>2, <2>3 DEF ShapeOk
<1>12. ~Final0 /\ ~Final0' /\ Put0' /\ Holds(T0) /\ Holds(T0)'
  BY <1>1, <1>3, <1>4, <1>6 DEF Final0, Put0, Holds, InLock, Counting
<1>13. LockOk'
  <2>1. Holds(T1)' = Holds(T1)
    BY <1>3, <1>10 DEF Holds, InLock
  <2>2. mount_lock \notin Pending(T0)'
    BY <1>2, <1>10, Places
  <2> QED BY <1>1, <1>3, <1>10, <1>12, <2>1, <2>2, ThreadsAre DEF Inv, LockOk
<1>14. FreeOk'
  <2>1. flags \notin Pending(T0)' /\ freed \notin Pending(T0)'
    BY <1>2, <1>10, Places
  <2> QED BY <1>1, <1>10, <1>12, <2>1, ThreadsAre DEF Inv, FreeOk
<1>15. T0Ok'
  BY <1>1, <1>3, <1>4, <1>10, <1>12 DEF T0Ok, HolderPcs, Counting
<1>16. HolderOk'
  <2>1. GU \in todo'[T0]
    BY <1>2, <1>3, Places
  <2> QED BY <1>1, <1>3, <1>4, <1>6, <1>10, <2>1, ThreadsAre DEF Inv, HolderOk, Counting, Slow
<1>17. CountOk'
  BY <1>1, <1>3, ThreadsAre DEF Inv, CountOk, Counting
<1>18. Count0Ok'
  <2>1. Sum0' = (IF Taking(scen) THEN 2 ELSE 1) - mem[PU]
    <3>1. mem[PU] \in Nat /\ {GH, GU, PU, PH(scen)} \subseteq AllSlots
      BY <1>2, Places DEF MemOk
    <3> QED BY <1>1, <1>3, <3>1 DEF Sum0, If
  <2> QED BY <1>1, <2>1 DEF Count0Ok
<1>19. TakingOk'
  <2>1. GH \notin Pending(T0)'
    BY <1>2, <1>10, Places
  <2>2. GetFirst => GetFirst'
    BY <1>1, <1>2, <1>8, <2>1, GetsStayFirst
  <2> QED BY <1>10, <1>12, <2>2 DEF Inv, TakingOk
<1>20. DroppingOk'
  BY <1>1, <1>3, <1>6, <1>10, <1>12 DEF Inv, DroppingOk, AfterGp, Counting
<1>21. KeptOk' /\ WalkerOk'
  BY <1>1, <1>4 DEF KeptOk, WalkerOk
<1> QED BY <1>10, <1>11, <1>13, <1>14, <1>15, <1>16, <1>17, <1>18, <1>19, <1>20, <1>21 DEF Inv

-----------------------------------------------------------------------------
(* Counting: what the slots that nobody stores in say                      *)

(* What a thread reads of a slot: its own pending store, or memory; of a   *)
(* slot of nobody, zero.                                                   *)
LEMMA SlotReads ==
  ASSUME BufOk, MemOk, scen \in Scenarios, NEW t \in Threads, NEW s \in AllSlots
  PROVE  /\ s \notin Pending(t) => READ_ONCE(t, s) = mem[s]
         /\ s \notin {GH, GU, PU, PH(scen)} => READ_ONCE(t, s) = 0
         /\ s = GU => READ_ONCE(t, s) = 1
         /\ t = T0 /\ s = PU => READ_ONCE(t, s) = mem[PU]
         /\ t = T1 /\ s \in {GH, PH(scen)} => READ_ONCE(t, s) = mem[s]
         /\ s = PH(scen) /\ s \in Pending(t) => READ_ONCE(t, s) = 1
         /\ s = PU /\ s \in Pending(t) => READ_ONCE(t, s) = 1
         /\ READ_ONCE(t, s) \in Nat
         /\ s[1] = "puts" <=> s \in Slots("puts")
<1>1. s \in Locations
  BY AllLocations
<1>2. s \notin Pending(t) => READ_ONCE(t, s) = mem[s]
  BY <1>1, Reads
<1>3. s \notin Owned(scen, t) => READ_ONCE(t, s) = mem[s]
  BY <1>2, OwnedPending
<1>4. s \notin {mnt_ns, flags, freed, mount_lock, mount_seq}
  BY Places
<1>5. /\ s \in Owned(scen, T0) <=> s \in {GH, PH(scen)}
      /\ s \in Owned(scen, T1) <=> s = PU
  BY <1>4, ThreadsAre DEF Owned
<1>6. s \in Pending(t) => Stored(scen, s, READ_ONCE(t, s)) /\ READ_ONCE(t, s) \in Nat
  BY <1>1, Reads
<1>7. s \notin {GH, GU, PU, PH(scen)} => READ_ONCE(t, s) = 0
  <2>1. s \notin {GH, GU, PU, PH(scen)} => s \notin Owned(scen, t) /\ mem[s] = 0
    BY <1>5, ThreadsAre DEF MemOk
  <2> QED BY <1>3, <2>1
<1>8. s = GU => READ_ONCE(t, s) = 1
  <2>1. GU \notin Owned(scen, t) /\ mem[GU] = 1
    BY Places, ThreadsAre DEF Owned, MemOk
  <2> QED BY <1>3, <2>1
<1>9. t = T0 /\ s = PU => READ_ONCE(t, s) = mem[PU]
  BY <1>3, <1>5, Places
<1>10. t = T1 /\ s \in {GH, PH(scen)} => READ_ONCE(t, s) = mem[s]
  BY <1>3, <1>5, Places
<1>11. s \in {PU, PH(scen)} /\ s \in Pending(t) => READ_ONCE(t, s) = 1
  BY <1>6 DEF Stored
<1>12. READ_ONCE(t, s) \in Nat
  BY <1>1, <1>2, <1>6 DEF MemOk
<1>13. s[1] = "puts" <=> s \in Slots("puts")
  BY DEF AllSlots, Slots
<1> QED BY <1>2, <1>7, <1>8, <1>9, <1>10, <1>11, <1>12, <1>13

(* A slot is read.                                                         *)
LEMMA Summing ==
  ASSUME Inv, NEW t \in Threads, sum_slots(t)
  PROVE  \E s \in todo[t] :
           /\ pc[t] = "count" /\ mem' = mem /\ buf' = buf /\ scen' = scen /\ saw' = saw /\ in_rcu' = in_rcu
           /\ \A o \in Threads \ {t} : pc'[o] = pc[o] /\ todo'[o] = todo[o] /\ sum'[o] = sum[o]
           /\ pc'[t] = IF todo[t] = {s} THEN "counted" ELSE "count"
           /\ todo'[t] = todo[t] \ {s} /\ s \in AllSlots /\ READ_ONCE(t, s) \in Nat
           /\ s \in Slots("puts") => sum'[t] = sum[t] - READ_ONCE(t, s)
           /\ s \notin Slots("puts") => /\ sum'[t] = sum[t] + READ_ONCE(t, s)
                                        /\ Pending(t) = {} /\ todo[t] \cap Slots("puts") = {}
           /\ ShapeOk' /\ CountOk'
<1>1. PICK s \in mnt_get_count(t) :
        /\ todo' = [todo EXCEPT ![t] = @ \ {s}]
        /\ sum' = [sum EXCEPT ![t] = IF s[1] = "puts" THEN @ - READ_ONCE(t, s) ELSE @ + READ_ONCE(t, s)]
        /\ Goto(t, IF todo[t] = {s} THEN "counted" ELSE "count")
  BY DEF sum_slots
<1>2. pc[t] = "count" /\ mem' = mem /\ buf' = buf /\ scen' = scen /\ saw' = saw /\ in_rcu' = in_rcu
  BY DEF sum_slots, At
<1>3. ShapeOk /\ scen \in Scenarios /\ BufOk /\ MemOk /\ CountOk
  BY DEF Inv, ShapeOk
<1>4. s \in todo[t] /\ (s \notin Slots("puts") => smp_mb(t) /\ todo[t] \cap Slots("puts") = {})
  BY <1>1 DEF mnt_get_count
<1>5. todo[t] \subseteq AllSlots
  BY <1>2, <1>3 DEF CountOk, Counting
<1>6. s \in AllSlots
  BY <1>4, <1>5
<1>7. READ_ONCE(t, s) \in Nat /\ (s[1] = "puts" <=> s \in Slots("puts"))
  BY <1>3, <1>6, SlotReads
<1> DEFINE next == IF todo[t] = {s} THEN "counted" ELSE "count"
<1>8. pc'[t] = next /\ \A o \in Threads \ {t} : pc'[o] = pc[o]
  <2> HIDE DEF next
  <2>1. Goto(t, next)
    BY <1>1 DEF next
  <2> QED BY <1>3, <2>1, PcOf
<1>9. /\ todo'[t] = todo[t] \ {s} /\ \A o \in Threads \ {t} : todo'[o] = todo[o] /\ sum'[o] = sum[o]
      /\ sum'[t] = IF s \in Slots("puts") THEN sum[t] - READ_ONCE(t, s) ELSE sum[t] + READ_ONCE(t, s)
  BY <1>1, <1>3, <1>7 DEF ShapeOk
<1>10. ShapeOk'
  <2>1. todo' \in [Threads -> SUBSET AllSlots]
    <3>1. todo[t] \ {s} \in SUBSET AllSlots /\ todo \in [Threads -> SUBSET AllSlots]
      BY <1>3, <1>5 DEF ShapeOk
    <3> QED BY <1>1, <3>1
  <2>2. sum' \in [Threads -> Int]
    <3>1. sum \in [Threads -> Int]
      BY <1>3 DEF ShapeOk
    <3>2. (IF s[1] = "puts" THEN sum[t] - READ_ONCE(t, s) ELSE sum[t] + READ_ONCE(t, s)) \in Int
      BY <1>7, <3>1
    <3> QED BY <1>1, <3>1, <3>2
  <2>3. pc' = [o \in Threads |-> pc'[o]]
    BY <1>1, <1>3 DEF ShapeOk, Goto
  <2> QED BY <1>2, <1>3, <2>1, <2>2, <2>3 DEF ShapeOk
<1>11. CountOk'
  <2>1. \A o \in Threads : sum'[o] \in Int
    BY <1>10 DEF ShapeOk
  <2>2. todo'[t] \subseteq AllSlots /\ (pc'[t] = "counted" => todo'[t] = {})
    BY <1>5, <1>8, <1>9
  <2> QED BY <1>3, <1>8, <1>9, <2>1, <2>2 DEF CountOk
<1>12. s \notin Slots("puts") => Pending(t) = {}
  BY <1>4, Barrier
<1> QED BY <1>2, <1>4, <1>6, <1>7, <1>8, <1>9, <1>10, <1>11, <1>12

(* T0 reads a slot.                                                        *)
LEMMA SumSlots0 ==
  ASSUME Inv, sum_slots(T0) PROVE Inv'
<1>1. ShapeOk /\ scen \in Scenarios /\ BufOk /\ MemOk
  BY DEF Inv, ShapeOk
<1>2. PICK s \in todo[T0] :
           /\ pc[T0] = "count" /\ mem' = mem /\ buf' = buf /\ scen' = scen /\ saw' = saw /\ in_rcu' = in_rcu
           /\ \A o \in Threads \ {T0} : pc'[o] = pc[o] /\ todo'[o] = todo[o] /\ sum'[o] = sum[o]
           /\ pc'[T0] = IF todo[T0] = {s} THEN "counted" ELSE "count"
           /\ todo'[T0] = todo[T0] \ {s} /\ s \in AllSlots /\ READ_ONCE(T0, s) \in Nat
           /\ s \in Slots("puts") => sum'[T0] = sum[T0] - READ_ONCE(T0, s)
           /\ s \notin Slots("puts") => /\ sum'[T0] = sum[T0] + READ_ONCE(T0, s)
                                        /\ Pending(T0) = {} /\ todo[T0] \cap Slots("puts") = {}
           /\ ShapeOk' /\ CountOk'
  BY Summing, ThreadsAre
<1>3. pc'[T1] = pc[T1] /\ todo'[T1] = todo[T1] /\ sum'[T1] = sum[T1] /\ pc'[T0] \in Counting /\ pc[T0] \in Counting
  BY <1>2, ThreadsAre DEF Counting
<1>4. ~IsWalk(scen)
  BY <1>2 DEF Inv, T0Ok, WalkerPcs
<1>5. /\ BufOk' /\ UnlockLast' /\ MemOk' /\ SameMem /\ (GetFirst => GetFirst')
      /\ \A t \in Threads : Pending(t)' = Pending(t)
  BY <1>1, <1>2, BufRests, MemRests DEF Inv
<1>6. T1Rests /\ saw'.ns2 = saw.ns2
  BY <1>2, <1>3, <1>5, ThreadsAre DEF T1Rests
<1>7. /\ T1Ok' /\ Count1Ok' /\ Gets1Ok' /\ SeenOk'
      /\ Final1' = Final1 /\ Sum1' = Sum1 /\ Own1' = Own1
      /\ GetFirst' /\ ~Final0' => TakingOk'
      /\ ~Taking(scen) => TakingOk'
  BY <1>5, <1>6, T0Acting
<1>8. Final0' = Final0 /\ Put0' = Put0 /\ Put0
  BY <1>2, <1>3, <1>4 DEF Final0, Put0
<1>9. LockOk'
  BY <1>2, <1>3, <1>5, ThreadsAre DEF Inv, LockOk, Holds, InLock, Counting
<1>10. FreeOk'
  BY <1>2, <1>5, <1>7, <1>8, ThreadsAre DEF Inv, FreeOk
<1>11. T0Ok'
  BY <1>2, <1>3, <1>4, <1>5, <1>8, ThreadsAre DEF Inv, T0Ok, HolderPcs
<1>12. mem[PH(scen)] = 1 \/ PH(scen) \in Pending(T0)
  BY <1>8 DEF Inv, T0Ok
<1>13. HolderOk'
  <2>1. GU \notin todo'[T0] => mem[PH(scen)] = 1
    <3>1. CASE GU \notin todo[T0]
      BY <1>3, <1>4, <3>1 DEF Inv, HolderOk
    <3>2. CASE s = GU
      BY <1>2, <1>12, <3>2, SlotsApart
    <3> QED BY <1>2, <3>1, <3>2
  <2> QED BY <1>2, <1>3, <1>4, <1>5, <2>1, ThreadsAre DEF Inv, HolderOk, Counting
<1>14. Count0Ok'
  <2>1. mem[GH] = (IF Taking(scen) THEN 2 ELSE 1) \/ GH \in Pending(T0)
    BY <1>2, <1>4 DEF Inv, HolderOk
  <2>2. /\ s \in Slots("puts") <=> s \notin Slots("gets")
        /\ GH \in Slots("gets") /\ GU \in Slots("gets") /\ PU \in Slots("puts") /\ PH(scen) \in Slots("puts")
    BY <1>1, <1>2, SlotsApart DEF AllSlots
  <2>3. /\ s = GH => READ_ONCE(T0, s) = IF Taking(scen) THEN 2 ELSE 1
        /\ s = GU => READ_ONCE(T0, s) = 1
        /\ s = PH(scen) => READ_ONCE(T0, s) = 1
        /\ s = PU => READ_ONCE(T0, s) = mem[PU]
        /\ s \notin {GH, GU, PU, PH(scen)} => READ_ONCE(T0, s) = 0
    <3>1. s = GH => READ_ONCE(T0, s) = IF Taking(scen) THEN 2 ELSE 1
      BY <1>1, <1>2, <2>1, <2>2, SlotReads, ThreadsAre
    <3>2. s = PH(scen) => READ_ONCE(T0, s) = 1
      BY <1>1, <1>2, <1>12, SlotReads, ThreadsAre
    <3> QED BY <1>1, <1>2, <3>1, <3>2, SlotReads, ThreadsAre
  <2>4. Sum0' = Sum0
    <3>1. sum[T0] \in Int /\ mem[PU] \in Nat
      BY <1>1, Places, ThreadsAre DEF ShapeOk, MemOk
    <3>2. GH # GU /\ GH # PU /\ GH # PH(scen) /\ GU # PU /\ GU # PH(scen) /\ PU # PH(scen)
      BY <1>1, Places
    <3>3. \A x : x \in todo'[T0] <=> x \in todo[T0] /\ x # s
      BY <1>2
    <3>4. CASE s = GH
      BY <1>2, <2>2, <2>3, <3>1, <3>2, <3>3, <3>4 DEF Sum0, If
    <3>5. CASE s = GU
      BY <1>2, <2>2, <2>3, <3>1, <3>2, <3>3, <3>5 DEF Sum0, If
    <3>6. CASE s = PH(scen)
      BY <1>2, <2>2, <2>3, <3>1, <3>2, <3>3, <3>6 DEF Sum0, If
    <3>7. CASE s = PU
      BY <1>2, <2>2, <2>3, <3>1, <3>2, <3>3, <3>7 DEF Sum0, If
    <3>8. CASE s \notin {GH, GU, PU, PH(scen)}
      <4>1. sum'[T0] = sum[T0]
        BY <1>2, <2>3, <3>1, <3>8
      <4> QED BY <1>2, <3>3, <3>8, <4>1 DEF Sum0, If
    <3> QED BY <3>4, <3>5, <3>6, <3>7, <3>8
  <2> QED BY <1>2, <1>3, <2>4 DEF Inv, Count0Ok
<1>15. TakingOk'
  BY <1>2, <1>5, <1>7, <1>8 DEF Inv, TakingOk
<1>16. DroppingOk'
  BY <1>2, <1>3, <1>7, <1>8 DEF Inv, DroppingOk, AfterGp, Counting
<1>17. KeptOk' /\ WalkerOk'
  BY <1>2, <1>4 DEF KeptOk, WalkerOk
<1> QED BY <1>2, <1>5, <1>7, <1>9, <1>10, <1>11, <1>13, <1>14, <1>15, <1>16, <1>17 DEF Inv

-----------------------------------------------------------------------------
(* The end of the slow path: T0 finishes the mount if U is done and has    *)
(* not done so.                                                            *)

(* T0 ends its slow path.                                                  *)
LEMMA SlowPath0 ==
  ASSUME Inv, mntput_no_expire_slowpath(T0) PROVE Inv'
<1> DEFINE res == slow_result(T0)
           final == IF res = "slow_final" THEN mntput_final_stores(T0) ELSE <<>>
<1>1. /\ mem' = mem /\ scen' = scen /\ todo' = todo /\ sum' = sum
      /\ WRITE_ONCE(T0, final \o unlock_stores(T0))
      /\ saw' = [saw EXCEPT !.path[T0] = res, !.slow[T0] = sum[T0]]
      /\ in_rcu' = [in_rcu EXCEPT ![T0] = FALSE]
      /\ pc[T0] = "counted" /\ Goto(T0, "done")
  BY DEF mntput_no_expire_slowpath, At
<1>2. ShapeOk /\ scen \in Scenarios /\ BufOk /\ MemOk /\ saw \in Sights
  BY DEF Inv, ShapeOk
<1>3. pc'[T1] = pc[T1] /\ pc'[T0] = "done"
  BY <1>1, <1>2, PcOf, ThreadsAre
<1>4. ~IsWalk(scen)
  BY <1>1 DEF Inv, T0Ok, WalkerPcs
<1>5. /\ saw.path[T0] = "none" /\ mem[PH(scen)] = 1 /\ Put0 /\ ~Final0 /\ Holds(T0) /\ ~Holds(T1)
  <2>1. todo[T0] = {}
    BY <1>1, ThreadsAre DEF Inv, CountOk
  <2> QED BY <1>1, <1>4, <2>1 DEF Inv, HolderOk, Counting, LockOk, Holds, InLock, Put0, Final0
<1>6. sum[T0] = (IF Taking(scen) THEN 2 ELSE 1) - mem[PU] /\ mem[PU] \in {0, 1} /\ sum[T0] \in Int
  <2>1. todo[T0] = {} /\ sum[T0] \in Int
    BY <1>1, ThreadsAre DEF Inv, CountOk
  <2>2. Sum0 = sum[T0]
    BY <2>1 DEF Sum0, If
  <2>3. Sum0 = (IF Taking(scen) THEN 2 ELSE 1) - mem[PU]
    BY <1>1 DEF Inv, Count0Ok, Counting
  <2>4. mem[PU] \in {0, 1}
    BY <1>2 DEF MemOk
  <2> QED BY <2>1, <2>2, <2>3, <2>4
<1>7. /\ flags \notin Pending(T0) /\ freed \notin Pending(T0) /\ mount_lock \notin Pending(T0)
      /\ READ_ONCE(T0, flags) = mem[flags]
  <2>1. flags \notin Pending(T0) /\ freed \notin Pending(T0)
    BY <1>5 DEF Inv, FreeOk
  <2>2. mount_lock \notin Pending(T0)
    BY <1>1, ThreadsAre DEF Inv, LockOk
  <2> QED BY <1>2, <2>1, <2>2, Reads, Places, ThreadsAre
<1>8. /\ res \in Slow /\ (res = "slow_final" => sum[T0] = 0)
      /\ (sum[T0] = 0 /\ mem[flags] = 0 => res = "slow_final")
  BY <1>7 DEF slow_result, Slow, MNT_DOOMED
<1> HIDE DEF res
<1>9. res = "slow_final" => ~Taking(scen) /\ mem[PU] = 1
  BY <1>6, <1>8
<1>10. saw' \in Sights
  <2> DEFINE one == [saw EXCEPT !.path[T0] = res]
  <2>1. one \in Sights
    BY <1>2, <1>8, ThreadsAre DEF Sights
  <2>2. \A s \in Sights : \A v \in Int : [s EXCEPT !.slow[T0] = v] \in Sights
    BY ThreadsAre DEF Sights
  <2>3. saw' = [one EXCEPT !.slow[T0] = sum[T0]]
    BY <1>1
  <2> HIDE DEF one
  <2> QED BY <1>6, <2>1, <2>2, <2>3
<1>11. /\ saw'.path[T0] = res /\ saw'.path[T1] = saw.path[T1]
       /\ saw'.flags = saw.flags /\ saw'.r2 = saw.r2 /\ saw'.res = saw.res /\ saw'.ns2 = saw.ns2
       /\ saw'.fallback = saw.fallback /\ saw'.peek = saw.peek /\ saw'.slow[T1] = saw.slow[T1]
  BY <1>1, <1>2, ThreadsAre DEF Sights
<1>12. Dropping(scen) => (Final1 => FALSE)
  BY <1>1 DEF Inv, DroppingOk
<1>13. Proper(T0, final) /\ Locs(final) = IF res = "slow_final" THEN {flags, freed} ELSE {}
  <2>1. CASE res = "slow_final"
    <3>1. Dropping(scen) => mem[freed] = 0
      BY <1>5, <1>12 DEF Inv, FreeOk
    <3>2. Proper(T0, mntput_final_stores(T0)) /\ Locs(mntput_final_stores(T0)) = {flags, freed}
      BY <1>2, <1>7, <3>1, FinalStores, ThreadsAre
    <3> QED BY <2>1, <3>2
  <2>2. CASE res # "slow_final"
    BY <2>2, NoStores
  <2> QED BY <2>1, <2>2
<1> HIDE DEF final
<1>14. PICK seq : /\ WRITE_ONCE(T0, seq) /\ Proper(T0, seq) /\ Releasing(seq)
                  /\ Locs(seq) = {mount_seq, mount_lock} \cup (IF res = "slow_final" THEN {flags, freed} ELSE {})
  <2>1. PICK f : f = final /\ Proper(T0, f) /\ Locs(f) = IF res = "slow_final" THEN {flags, freed} ELSE {}
    BY <1>13
  <2>2. PICK u : u = unlock_stores(T0) /\ Proper(T0, u) /\ Locs(u) = {mount_seq, mount_lock} /\ Releasing(u)
    BY <1>2, UnlockStores, ThreadsAre
  <2>3. mount_lock \notin Locs(f)
    BY <1>2, <2>1, Places
  <2>4. Proper(T0, f \o u)
    BY <2>1, <2>2, BothStores
  <2>5. \A l : l \in Locs(f \o u) <=> l \in Locs(f) \/ l \in Locs(u)
    BY <2>1, <2>2, BothStores
  <2>6. Releasing(f \o u)
    BY <2>1, <2>2, <2>3, BothStores
  <2>7. Locs(f \o u) = {mount_seq, mount_lock} \cup (IF res = "slow_final" THEN {flags, freed} ELSE {})
    BY <2>1, <2>2, <2>5
  <2> QED BY <1>1, <2>1, <2>2, <2>4, <2>6, <2>7
<1>15. /\ BufOk' /\ MemOk' /\ SameMem /\ T1Rests
       /\ Pending(T0)' = Pending(T0) \cup Locs(seq) /\ Pending(T1)' = Pending(T1) /\ UnlockLast'
       /\ T1Ok' /\ Count1Ok' /\ Gets1Ok' /\ SeenOk'
       /\ Final1' = Final1 /\ Sum1' = Sum1 /\ Own1' = Own1
       /\ GetFirst' /\ ~Final0' => TakingOk'
       /\ ~Taking(scen) => TakingOk'
  BY <1>1, <1>3, <1>7, <1>11, <1>14, T0Stores
<1>16. ShapeOk'
  BY <1>1, <1>2, <1>10, ThreadsAre DEF ShapeOk, Goto
<1>17. (Final0' <=> res = "slow_final") /\ Put0'
  BY <1>1, <1>3, <1>4, <1>11 DEF Final0, Put0
<1>18. /\ mount_lock \in Pending(T0)'
       /\ (PH(scen) \in Pending(T0)' <=> PH(scen) \in Pending(T0)) /\ (GH \in Pending(T0)' <=> GH \in Pending(T0))
       /\ \A l \in {flags, freed} : l \in Pending(T0)' <=> res = "slow_final"
  BY <1>2, <1>7, <1>14, <1>15, Places
<1>19. LockOk'
  <2>1. Holds(T0)' /\ ~Holds(T1)'
    BY <1>3, <1>5, <1>15, <1>18 DEF Holds, InLock
  <2> QED BY <1>1, <1>3, <1>5, <1>15, <1>18, <2>1, ThreadsAre DEF Inv, LockOk
<1>20. FreeOk'
  <2>1. ~Dropping(scen) \/ ~Final1
    BY <1>12
  <2> QED BY <1>1, <1>5, <1>15, <1>17, <1>18, <2>1, ThreadsAre DEF Inv, FreeOk
<1>21. T0Ok'
  BY <1>1, <1>3, <1>4, <1>5, <1>17 DEF T0Ok, HolderPcs
<1>22. HolderOk'
  BY <1>1, <1>3, <1>4, <1>5, <1>8, <1>11, <1>18 DEF Inv, HolderOk, Counting
<1>23. CountOk' /\ Count0Ok'
  BY <1>1, <1>3, ThreadsAre DEF Inv, CountOk, Count0Ok, Counting
<1>24. TakingOk'
  <2>1. Taking(scen) => GetFirst'
    <3>1. {GH, PH(scen)} \cap Locs(seq) = {}
      BY <1>2, <1>14, Places
    <3> QED BY <1>1, <1>2, <1>14, <3>1, GetsStayFirst DEF Inv, TakingOk
  <2> QED BY <1>9, <1>15, <1>17, <2>1
<1>25. DroppingOk'
  <2> SUFFICES ASSUME Dropping(scen) PROVE DroppingOk'
    BY <1>1 DEF DroppingOk
  <2>1. /\ ~Final1 /\ saw'.path[T0] # "fast"
    BY <1>8, <1>11, <1>12 DEF Slow
  <2>2. Final0' => pc[T1] = "done"
    <3>1. ASSUME mem[PU] = 1 PROVE pc[T1] = "done"
      <4>1. Put1
        BY <3>1 DEF Inv, T1Ok
      <4> QED BY <1>5, <4>1 DEF Put1, Holds, InLock
    <3> QED BY <1>9, <1>17, <3>1
  <2>3. pc[T1] = "done" => Final0'
    <3> SUFFICES ASSUME pc[T1] = "done" PROVE Final0'
      OBVIOUS
    <3>1. Put1 /\ PU \notin Pending(T1)
      BY <1>5, ThreadsAre DEF Put1, Dropping, Inv, LockOk
    <3>2. mem[PU] = 1
      BY <3>1 DEF Inv, T1Ok
    <3>3. ~Taking(scen)
      BY DEF Dropping, Taking
    <3>4. mem[flags] = 0
      BY <1>5, <2>1 DEF Inv, FreeOk
    <3>5. sum[T0] = 0
      BY <1>6, <3>2, <3>3
    <3> QED BY <1>8, <1>17, <3>4, <3>5
  <2> QED BY <1>1, <1>3, <1>15, <1>17, <2>1, <2>2, <2>3 DEF Inv, DroppingOk, AfterGp
<1>26. KeptOk' /\ WalkerOk'
  BY <1>1, <1>4 DEF KeptOk, WalkerOk
<1> QED BY <1>15, <1>16, <1>19, <1>20, <1>21, <1>22, <1>23, <1>24, <1>25, <1>26 DEF Inv

-----------------------------------------------------------------------------
(* The walker's stores *)

(* The walker gets its reference.                                          *)
LEMMA LegitimizeIncs ==
  ASSUME Inv, LegitimizeBegin, ~read_seqretry PROVE Inv'
<1>1. /\ mem' = mem /\ WRITE_ONCE(T0, <<Inc(T0, GH)>>)
      /\ scen' = scen /\ todo' = todo /\ sum' = sum /\ saw' = saw /\ in_rcu' = in_rcu
      /\ pc[T0] = "legit" /\ Goto(T0, "legit_retry")
  BY DEF LegitimizeBegin, At, GH, HCPU, WCPU
<1>2. ShapeOk /\ scen \in Scenarios /\ BufOk /\ MemOk
  BY DEF Inv, ShapeOk
<1>3. pc'[T1] = pc[T1] /\ pc'[T0] = "legit_retry"
  BY <1>1, <1>2, PcOf, ThreadsAre
<1>4. IsWalk(scen) /\ ~Dropping(scen) /\ ~Taking(scen) /\ scen # "D1" /\ First(scen) = 0
  BY <1>1 DEF Inv, T0Ok, HolderPcs, Counting, IsWalk, Dropping, Taking, First
<1>5. mem[GH] = First(scen) /\ GH \notin Pending(T0) /\ saw.path[T0] = "none"
  BY <1>1, <1>4 DEF Inv, WalkerOk
<1>6. PICK seq : WRITE_ONCE(T0, seq) /\ Proper(T0, seq) /\ Locs(seq) = {GH}
  <2>1. Proper(T0, <<Inc(T0, GH)>>) /\ Locs(<<Inc(T0, GH)>>) = {GH}
    BY <1>2, <1>5, CounterStore, ThreadsAre
  <2> QED BY <1>1, <2>1
<1>7. mount_lock \notin Pending(T0) /\ mount_lock \notin Locs(seq)
  BY <1>1, <1>2, <1>6, Places, ThreadsAre DEF Inv, LockOk
<1>8. /\ BufOk' /\ MemOk' /\ SameMem /\ T1Rests
      /\ Pending(T0)' = Pending(T0) \cup {GH} /\ Pending(T1)' = Pending(T1) /\ UnlockLast'
      /\ T1Ok' /\ Count1Ok' /\ Gets1Ok' /\ SeenOk' /\ TakingOk'
      /\ Final1' = Final1 /\ Sum1' = Sum1 /\ Own1' = Own1
  BY <1>1, <1>3, <1>4, <1>6, <1>7, T0Stores
<1>9. ShapeOk'
  BY <1>1, <1>2, ThreadsAre DEF ShapeOk, Goto
<1>10. Final0' = Final0 /\ Put0' = Put0 /\ Kept' = Kept
  BY <1>1, <1>3, <1>4 DEF Final0, Put0, Kept, Ended
<1>11. \A l \in Locations \ {GH} : \A o \in Threads : l \in Pending(o)' <=> l \in Pending(o)
  BY <1>8, ThreadsAre
<1>12. LockOk'
  <2>1. \A o \in Threads : \A l \in {mount_lock, mount_seq, flags, freed, PU, PH(scen)} : l \in Pending(o)' <=> l \in Pending(o)
    BY <1>2, <1>11, Places
  <2>2. \A o \in Threads : Holds(o)' = Holds(o)
    BY <1>1, <1>3, <2>1, ThreadsAre DEF Holds, InLock, Counting
  <2> QED BY <1>1, <1>3, <1>7, <2>1, <2>2, ThreadsAre DEF Inv, LockOk
<1>13. FreeOk'
  <2>1. \A o \in Threads : \A l \in {flags, freed} : l \in Pending(o)' <=> l \in Pending(o)
    BY <1>2, <1>11, Places
  <2> QED BY <1>1, <1>8, <1>10, <2>1, ThreadsAre DEF Inv, FreeOk
<1>14. T0Ok'
  <2>1. PH(scen) \in Pending(T0)' <=> PH(scen) \in Pending(T0)
    BY <1>2, <1>11, Places, ThreadsAre
  <2> QED BY <1>1, <1>3, <1>4, <1>10, <2>1 DEF Inv, T0Ok, WalkerPcs
<1>15. WalkerOk'
  BY <1>1, <1>3, <1>4, <1>8, <1>10 DEF Inv, WalkerOk, Ended
<1>16. CountOk' /\ Count0Ok'
  BY <1>1, <1>3, ThreadsAre DEF Inv, CountOk, Count0Ok, Counting
<1>17. HolderOk' /\ DroppingOk'
  BY <1>1, <1>4 DEF HolderOk, DroppingOk
<1>18. KeptOk'
  BY <1>1, <1>3, <1>8, <1>10 DEF Inv, KeptOk
<1> QED BY <1>8, <1>9, <1>12, <1>13, <1>14, <1>15, <1>16, <1>17, <1>18 DEF Inv

(* Under the lock the walker keeps its reference if the mount is not       *)
(* marked, and it is unless nobody finished it.                            *)
LEMMA LegitimizeLooks ==
  ASSUME Inv, LegitimizeFlags PROVE Inv'
<1> DEFINE f == READ_ONCE(T0, flags)
           r == IF f # 0 THEN 1 ELSE -1
           dec == IF f # 0 THEN <<Inc(T0, <<"puts", WCPU>>)>> ELSE <<>>
<1>1. /\ mem' = mem /\ WRITE_ONCE(T0, dec \o unlock_stores(T0))
      /\ scen' = scen /\ todo' = todo /\ sum' = sum /\ in_rcu' = in_rcu
      /\ saw' = [saw EXCEPT !.flags = f, !.res = r]
      /\ pc[T0] = "legit_flags" /\ Goto(T0, "walker_end")
  BY DEF LegitimizeFlags, At, mnt_dec_count
<1>2. ShapeOk /\ scen \in Scenarios /\ BufOk /\ MemOk /\ saw \in Sights
  BY DEF Inv, ShapeOk
<1>3. pc'[T1] = pc[T1] /\ pc'[T0] = "walker_end"
  BY <1>1, <1>2, PcOf, ThreadsAre
<1>4. /\ IsWalk(scen) /\ ~Dropping(scen) /\ ~Taking(scen) /\ scen # "D1"
      /\ <<"puts", WCPU>> = PH(scen)
  BY <1>1 DEF Inv, T0Ok, HolderPcs, Counting, IsWalk, Dropping, Taking, PH, WCPU, HCPU
<1>5. /\ saw.path[T0] = "none" /\ mem[GH] = 1 /\ saw.flags = 0 /\ saw.res = 1
      /\ mem[PH(scen)] = 0 /\ PH(scen) \notin Pending(T0) /\ ~Final0 /\ Holds(T0) /\ ~Holds(T1)
  BY <1>1, <1>4 DEF Inv, WalkerOk, Ended, T0Ok, Put0, LockOk, Holds, InLock, Final0
<1>6. /\ flags \notin Pending(T0) /\ freed \notin Pending(T0) /\ mount_lock \notin Pending(T0)
      /\ f = mem[flags] /\ mem[flags] \in 0 .. 3
  <2>1. flags \notin Pending(T0) /\ freed \notin Pending(T0)
    BY <1>5 DEF Inv, FreeOk
  <2>2. mount_lock \notin Pending(T0)
    BY <1>1, ThreadsAre DEF Inv, LockOk
  <2> QED BY <1>2, <2>1, <2>2, Reads, Places, ThreadsAre DEF MemOk
<1> HIDE DEF f
<1>7. f = 0 => ~Final1 /\ pc[T1] \notin Counting
  <2>1. flags \notin Pending(T1)
    BY <1>5, ThreadsAre DEF Inv, LockOk
  <2> QED BY <1>5, <1>6, <2>1 DEF Inv, FreeOk, Holds, InLock
<1>8. saw' \in Sights
  <2> DEFINE one == [saw EXCEPT !.flags = f]
  <2>1. one \in Sights
    BY <1>2, <1>6 DEF Sights
  <2>2. \A s \in Sights : \A v \in Int : [s EXCEPT !.res = v] \in Sights
    BY DEF Sights
  <2>3. saw' = [one EXCEPT !.res = r]
    BY <1>1
  <2>4. r \in Int
    OBVIOUS
  <2> HIDE DEF one, r
  <2> QED BY <2>1, <2>2, <2>3, <2>4
<1>9. /\ saw'.path = saw.path /\ saw'.flags = f /\ saw'.r2 = saw.r2 /\ saw'.res = r /\ saw'.ns2 = saw.ns2
      /\ saw'.fallback = saw.fallback /\ saw'.peek = saw.peek /\ saw'.slow = saw.slow
  BY <1>1, <1>2 DEF Sights
<1>10. r # 0
  OBVIOUS
<1> HIDE DEF r
<1>11. Proper(T0, dec) /\ Locs(dec) = IF f # 0 THEN {PH(scen)} ELSE {}
  <2>1. CASE f # 0
    <3>1. Proper(T0, <<Inc(T0, PH(scen))>>) /\ Locs(<<Inc(T0, PH(scen))>>) = {PH(scen)}
      BY <1>2, <1>5, CounterStore, ThreadsAre
    <3> QED BY <1>4, <2>1, <3>1
  <2>2. CASE f = 0
    BY <2>2, NoStores
  <2> QED BY <2>1, <2>2
<1> HIDE DEF dec
<1>12. PICK seq : /\ WRITE_ONCE(T0, seq) /\ Proper(T0, seq) /\ Releasing(seq)
                  /\ Locs(seq) = {mount_seq, mount_lock} \cup (IF f # 0 THEN {PH(scen)} ELSE {})
  <2>1. PICK d : d = dec /\ Proper(T0, d) /\ Locs(d) = IF f # 0 THEN {PH(scen)} ELSE {}
    BY <1>11
  <2>2. PICK u : u = unlock_stores(T0) /\ Proper(T0, u) /\ Locs(u) = {mount_seq, mount_lock} /\ Releasing(u)
    BY <1>2, UnlockStores, ThreadsAre
  <2>3. mount_lock \notin Locs(d)
    BY <1>2, <2>1, Places
  <2>4. Proper(T0, d \o u)
    BY <2>1, <2>2, BothStores
  <2>5. \A l : l \in Locs(d \o u) <=> l \in Locs(d) \/ l \in Locs(u)
    BY <2>1, <2>2, BothStores
  <2>6. Releasing(d \o u)
    BY <2>1, <2>2, <2>3, BothStores
  <2>7. Locs(d \o u) = {mount_seq, mount_lock} \cup (IF f # 0 THEN {PH(scen)} ELSE {})
    BY <2>1, <2>2, <2>5
  <2> QED BY <1>1, <2>1, <2>2, <2>4, <2>6, <2>7
<1>13. /\ BufOk' /\ MemOk' /\ SameMem /\ T1Rests
       /\ Pending(T0)' = Pending(T0) \cup Locs(seq) /\ Pending(T1)' = Pending(T1) /\ UnlockLast'
       /\ T1Ok' /\ Count1Ok' /\ Gets1Ok' /\ SeenOk' /\ TakingOk'
       /\ Final1' = Final1 /\ Sum1' = Sum1 /\ Own1' = Own1
  BY <1>1, <1>3, <1>4, <1>6, <1>9, <1>12, T0Stores
<1>14. ShapeOk'
  BY <1>1, <1>2, <1>8, ThreadsAre DEF ShapeOk, Goto
<1>15. ~Final0' /\ (Put0' <=> f # 0) /\ (Kept' => f = 0)
  BY <1>1, <1>4, <1>5, <1>9, <1>10 DEF Final0, Put0, Kept
<1>16. /\ mount_lock \in Pending(T0)' /\ flags \notin Pending(T0)' /\ freed \notin Pending(T0)'
       /\ PH(scen) \in Pending(T0)' <=> f # 0
  BY <1>2, <1>5, <1>6, <1>12, <1>13, Places
<1>17. LockOk'
  <2>1. Holds(T0)' /\ ~Holds(T1)'
    BY <1>3, <1>5, <1>13, <1>16 DEF Holds, InLock
  <2> QED BY <1>1, <1>3, <1>5, <1>13, <1>16, <2>1, ThreadsAre DEF Inv, LockOk
<1>18. FreeOk'
  BY <1>1, <1>4, <1>5, <1>13, <1>15, <1>16, ThreadsAre DEF Inv, FreeOk
<1>19. T0Ok'
  BY <1>1, <1>3, <1>4, <1>5, <1>15, <1>16 DEF T0Ok, WalkerPcs
<1>20. WalkerOk'
  BY <1>1, <1>3, <1>4, <1>5, <1>9, <1>10, <1>15 DEF Inv, WalkerOk, Ended
<1>21. CountOk' /\ Count0Ok'
  BY <1>1, <1>3, ThreadsAre DEF Inv, CountOk, Count0Ok, Counting
<1>22. HolderOk' /\ DroppingOk'
  BY <1>1, <1>4 DEF HolderOk, DroppingOk
<1>23. KeptOk'
  BY <1>1, <1>3, <1>7, <1>13, <1>15 DEF KeptOk
<1> QED BY <1>13, <1>14, <1>17, <1>18, <1>19, <1>20, <1>21, <1>22, <1>23 DEF Inv

(* Every step of the holder and of the walker keeps the invariant.         *)
LEMMA T0Steps ==
  ASSUME Inv, holder \/ walker PROVE Inv'
<1>1. CASE HolderGet
  BY <1>1, HolderGets, HolderMoves
<1>2. CASE Mntput(T0)
  <2>1. CASE mntput_no_expire(T0)
    BY <2>1, FastPut0, HolderMoves
  <2> QED BY <1>2, <2>1, HolderMoves, RecheckMoves, T0Locks, SlowDec0, SumSlots0, SlowPath0 DEF Mntput
<1>3. CASE walker
  <2>1. CASE LegitimizeBegin
    BY <2>1, LegitimizeIncs, WalkerMoves
  <2> QED BY <1>3, <2>1, WalkerMoves, RetryMoves, T0Locks, LegitimizeLooks DEF walker
<1> QED BY <1>1, <1>2, <1>3 DEF holder

-----------------------------------------------------------------------------
(* Steps of U                                                              *)

(* They leave T0 alone.                                                    *)
LEMMA T1Acting ==
  ASSUME Inv, SameMem, T0Rests
  PROVE  /\ T0Ok' /\ HolderOk' /\ WalkerOk' /\ Count0Ok' /\ (Taking(scen) => GetFirst')
         /\ Final0' = Final0 /\ Kept' = Kept /\ Put0' = Put0
         /\ scen' = scen /\ mem'[GH] = mem[GH] /\ mem'[PH(scen)] = mem[PH(scen)] /\ mem'[PU] = mem[PU]
         /\ mem'[mnt_ns] = mem[mnt_ns] /\ mem'[mount_seq] = mem[mount_seq]
         /\ mem'[flags] = mem[flags] /\ mem'[freed] = mem[freed]
<1>1. ShapeOk /\ scen \in Scenarios
  BY DEF Inv, ShapeOk
<1>2. /\ T0Ok' /\ HolderOk' /\ WalkerOk' /\ Count0Ok'
      /\ Final0' = Final0 /\ Kept' = Kept /\ Put0' = Put0
  BY <1>1, T0Resting DEF Inv
<1>3. Taking(scen) => GetFirst'
  BY <1>1, T0Resting DEF Inv, TakingOk
<1>4. /\ scen' = scen /\ mem'[GH] = mem[GH] /\ mem'[PH(scen)] = mem[PH(scen)] /\ mem'[PU] = mem[PU]
      /\ mem'[mnt_ns] = mem[mnt_ns] /\ mem'[mount_seq] = mem[mount_seq]
      /\ mem'[flags] = mem[flags] /\ mem'[freed] = mem[freed]
  BY <1>1, Places DEF SameMem
<1> QED BY <1>2, <1>3, <1>4

(* Those of U before and between the counts.                               *)
LEMMA T1Going ==
  ASSUME Inv, SameMem, T0Rests, saw' = saw, todo' = todo, sum' = sum,
         pc[T1] # "done", pc'[T1] \notin Counting \cup {"done"}, pc[T1] = "gp" \/ AfterGp' = AfterGp,
         pc[T1] = "gp" /\ Dropping(scen) => pc[T0] \notin {"recheck", "put_end"} /\ (saw.path[T0] = "fast" => mem[PH(scen)] = 1)
  PROVE  /\ T0Ok' /\ HolderOk' /\ WalkerOk' /\ CountOk' /\ Count0Ok' /\ Count1Ok' /\ Gets1Ok'
         /\ TakingOk' /\ DroppingOk' /\ KeptOk' /\ SeenOk'
         /\ Final0' = Final0 /\ Final1' = Final1
<1>1. /\ T0Ok' /\ HolderOk' /\ WalkerOk' /\ Count0Ok' /\ (Taking(scen) => GetFirst')
      /\ Final0' = Final0 /\ Kept' = Kept /\ Put0' = Put0
      /\ scen' = scen /\ mem'[GH] = mem[GH] /\ mem'[PH(scen)] = mem[PH(scen)] /\ mem'[PU] = mem[PU]
  BY T1Acting
<1>2. Final1' = Final1
  BY <1>1 DEF Final1
<1>3. pc'[T0] = pc[T0]
  BY DEF T0Rests
<1>4. CountOk' /\ Count1Ok' /\ Gets1Ok'
  BY <1>3, ThreadsAre DEF Inv, CountOk, Count1Ok, Gets1Ok, Counting
<1>5. TakingOk'
  BY <1>1, <1>2 DEF Inv, TakingOk
<1>6. KeptOk' /\ SeenOk'
  BY <1>1, <1>2 DEF Inv, KeptOk, SeenOk
<1>7. DroppingOk'
  BY <1>1, <1>2, <1>3 DEF Inv, DroppingOk, AfterGp
<1> QED BY <1>1, <1>2, <1>4, <1>5, <1>6, <1>7

(* The stores of seq are pending.                                          *)
LEMMA T1Stores ==
  ASSUME Inv, mem' = mem, scen' = scen, NEW seq, Proper(T1, seq), WRITE_ONCE(T1, seq)
  PROVE  /\ BufOk' /\ MemOk' /\ SameMem
         /\ Pending(T1)' = Pending(T1) \cup Locs(seq) /\ Pending(T0)' = Pending(T0) /\ buf'[T0] = buf[T0]
         /\ mount_lock \notin Pending(T1) /\ (mount_lock \notin Locs(seq) \/ Releasing(seq)) => UnlockLast'
<1>1. ShapeOk /\ scen \in Scenarios /\ BufOk /\ MemOk
  BY DEF Inv, ShapeOk
<1>2. /\ BufOk' /\ Pending(T1)' = Pending(T1) \cup Locs(seq)
      /\ \A o \in Threads \ {T1} : Pending(o)' = Pending(o)
  BY <1>1, Writes, ThreadsAre
<1>3. Pending(T0)' = Pending(T0)
  BY <1>2, ThreadsAre
<1>4. ASSUME mount_lock \notin Pending(T1), mount_lock \notin Locs(seq) \/ Releasing(seq) PROVE UnlockLast'
  <2>1. CASE mount_lock \notin Locs(seq)
    <3>1. \A i \in DOMAIN seq : seq[i].loc # mount_lock
      BY <2>1, VarsApart, AllLocations DEF Locs
    <3>2. Releasing(seq)
      BY <3>1 DEF Releasing
    <3> QED BY <1>1, <1>4, <3>2, Writes, ThreadsAre DEF Inv
  <2>2. CASE Releasing(seq)
    BY <1>1, <1>4, <2>2, Writes, ThreadsAre DEF Inv
  <2> QED BY <1>4, <2>1, <2>2
<1>5. SameMem /\ MemOk'
  BY <1>1, MemRests
<1>6. buf'[T0] = buf[T0]
  BY <1>1, ThreadsAre DEF WRITE_ONCE, BufOk
<1> QED BY <1>2, <1>3, <1>4, <1>5, <1>6

(* U takes the lock.                                                       *)
LEMMA T1Locks ==
  ASSUME Inv, UmountLock \/ PeekLock \/ SlowLock(T1) PROVE Inv'
<1>1. /\ lock_mount_hash(T1) /\ scen' = scen /\ todo' = todo /\ sum' = sum /\ saw' = saw /\ in_rcu' = in_rcu
      /\ \/ pc[T1] = "unmount" /\ Goto(T1, "tree")
         \/ pc[T1] = "peek_lock" /\ Goto(T1, "peek")
         \/ pc[T1] = "slow_lock" /\ Goto(T1, "slow_dec")
  BY DEF UmountLock, PeekLock, SlowLock, At
<1>2. ShapeOk /\ scen \in Scenarios
  BY DEF Inv, ShapeOk
<1>3. /\ pc'[T0] = pc[T0]
      /\ \/ pc[T1] = "unmount" /\ pc'[T1] = "tree"
         \/ pc[T1] = "peek_lock" /\ pc'[T1] = "peek"
         \/ pc[T1] = "slow_lock" /\ pc'[T1] = "slow_dec"
  BY <1>1, <1>2, PcOf, ThreadsAre
<1>4. ~InLock(T1) /\ InLock(T1)' /\ \A o \in Threads \ {T1} : pc'[o] = pc[o]
  BY <1>3, ThreadsAre DEF InLock, Counting
<1>5. /\ SameMem /\ BufOk' /\ MemOk' /\ UnlockLast' /\ LockOk' /\ FreeOk'
      /\ Pending(T1)' = Pending(T1) \cup {mount_seq} /\ \A o \in Threads \ {T1} : Pending(o)' = Pending(o)
      /\ \A o \in Threads : \A l \in Locations \ {mount_seq} : l \in Pending(o)' <=> l \in Pending(o)
  BY <1>1, <1>4, Locking, ThreadsAre
<1>6. T0Rests
  <2>1. buf'[T0] = buf[T0]
    BY <1>1, ThreadsAre DEF lock_mount_hash, WRITE_ONCE, Inv, BufOk
  <2> QED BY <1>1, <1>3, <1>5, <2>1, ThreadsAre DEF T0Rests
<1>7. /\ T0Ok' /\ HolderOk' /\ WalkerOk' /\ CountOk' /\ Count0Ok' /\ Count1Ok' /\ Gets1Ok'
      /\ TakingOk' /\ DroppingOk' /\ KeptOk' /\ SeenOk'
  BY <1>1, <1>3, <1>5, <1>6, T1Going DEF AfterGp, Counting
<1>8. ShapeOk'
  BY <1>1, <1>2, ThreadsAre DEF ShapeOk, Goto
<1>9. T1Ok'
  <2>1. /\ mem'[mnt_ns] = mem[mnt_ns] /\ mem'[mount_seq] = mem[mount_seq] /\ mem'[PU] = mem[PU]
        /\ mount_seq \in Pending(T1)' /\ (PU \in Pending(T1)' <=> PU \in Pending(T1))
        /\ (mnt_ns \in Pending(T1)' <=> mnt_ns \in Pending(T1))
    BY <1>2, <1>5, Places, ThreadsAre DEF SameMem
  <2> QED BY <1>1, <1>3, <2>1 DEF Inv, T1Ok, Put1, Late, Counting
<1> QED BY <1>5, <1>7, <1>8, <1>9 DEF Inv

(* The steps that store nothing.                                           *)
LEMMA T1Moves ==
  ASSUME Inv, mntput_unmounted \/ PutBegin(T1) \/ mntput_no_expire(T1) PROVE Inv'
<1>1. ShapeOk /\ scen \in Scenarios /\ BufOk /\ MemOk
  BY DEF Inv, ShapeOk
<1>2. ASSUME mntput_no_expire(T1) PROVE READ_ONCE(T1, mnt_ns) = 0
  <2>1. mem[mnt_ns] = 0
    BY <1>2 DEF mntput_no_expire, At, Inv, T1Ok, Late
  <2>2. mnt_ns \in Pending(T1) => READ_ONCE(T1, mnt_ns) = 0
    BY <1>1, Reads, Places, ThreadsAre DEF Stored
  <2> QED BY <1>1, <2>1, <2>2, Reads, Places, ThreadsAre
<1>3. /\ mem' = mem /\ buf' = buf /\ scen' = scen /\ todo' = todo /\ sum' = sum /\ saw' = saw
      /\ \/ pc[T1] = "gp" /\ Goto(T1, "put") /\ in_rcu' = in_rcu /\ synchronize_rcu(T1)
         \/ pc[T1] = "put" /\ Goto(T1, "put_ns") /\ in_rcu' = [in_rcu EXCEPT ![T1] = TRUE]
         \/ pc[T1] = "put_ns" /\ Goto(T1, "slow_lock") /\ in_rcu' = in_rcu
  BY <1>2 DEF mntput_unmounted, PutBegin, mntput_no_expire, At
<1>4. /\ pc'[T0] = pc[T0] /\ in_rcu'[T0] = in_rcu[T0]
      /\ \/ pc[T1] = "gp" /\ pc'[T1] = "put" /\ synchronize_rcu(T1)
         \/ pc[T1] = "put" /\ pc'[T1] = "put_ns"
         \/ pc[T1] = "put_ns" /\ pc'[T1] = "slow_lock"
  BY <1>1, <1>3, PcOf, ThreadsAre DEF ShapeOk
<1>5. BufOk' /\ UnlockLast' /\ MemOk' /\ SameMem /\ \A t \in Threads : Pending(t)' = Pending(t)
  BY <1>1, <1>3, BufRests, MemRests DEF Inv
<1>6. T0Rests
  BY <1>3, <1>4, <1>5, ThreadsAre DEF T0Rests
<1>7. ASSUME pc[T1] = "gp", Dropping(scen)
      PROVE  pc[T0] \notin {"recheck", "put_end"} /\ (saw.path[T0] = "fast" => mem[PH(scen)] = 1)
  <2>1. ~in_rcu[T0] /\ (pc[T0] = "done" => smp_mb(T0))
    BY <1>4, <1>7, ThreadsAre DEF synchronize_rcu, At
  <2>2. ~IsWalk(scen)
    BY <1>7 DEF IsWalk, Dropping
  <2>3. pc[T0] \notin {"recheck", "put_end"}
    BY <2>1, <2>2 DEF Inv, HolderOk
  <2>4. ASSUME saw.path[T0] = "fast" PROVE mem[PH(scen)] = 1
    <3>1. pc[T0] = "done"
      BY <2>2, <2>3, <2>4 DEF Inv, HolderOk
    <3>2. PH(scen) \notin Pending(T0)
      BY <2>1, <3>1, Barrier, ThreadsAre
    <3> QED BY <2>2, <3>1, <3>2 DEF Inv, T0Ok, Put0
  <2> QED BY <2>3, <2>4
<1>8. /\ T0Ok' /\ HolderOk' /\ WalkerOk' /\ CountOk' /\ Count0Ok' /\ Count1Ok' /\ Gets1Ok'
      /\ TakingOk' /\ DroppingOk' /\ KeptOk' /\ SeenOk'
      /\ Final0' = Final0 /\ Final1' = Final1
  BY <1>3, <1>4, <1>5, <1>6, <1>7, T1Going DEF AfterGp, Counting
<1>9. ShapeOk'
  BY <1>1, <1>3, ThreadsAre DEF ShapeOk, Goto
<1>10. T1Ok'
  BY <1>3, <1>4, <1>5, ThreadsAre DEF Inv, T1Ok, Put1, Late, Counting
<1>11. LockOk'
  <2>1. mount_lock \in Pending(T1) => pc[T1] # "gp"
    BY <1>4, Barrier, ThreadsAre DEF synchronize_rcu
  <2> QED BY <1>3, <1>4, <1>5, <2>1, ThreadsAre DEF Inv, LockOk, Holds, InLock, Counting
<1>12. FreeOk'
  BY <1>3, <1>5, <1>8, ThreadsAre DEF Inv, FreeOk
<1> QED BY <1>5, <1>8, <1>9, <1>10, <1>11, <1>12 DEF Inv

(* U clears mnt_ns, with the lock or without it.                           *)
LEMMA T1Unmounts ==
  ASSUME Inv, mnt_make_shortterm \/ umount_tree PROVE Inv'
<1> DEFINE clear == <<Store(mnt_ns, 0)>>
           sync == IF scen = "B1" THEN <<Set(T1, MNT_SYNC_UMOUNT)>> ELSE <<>>
<1>1. /\ mem' = mem /\ scen' = scen /\ todo' = todo /\ sum' = sum /\ saw' = saw /\ in_rcu' = in_rcu
      /\ Goto(T1, "peek_lock")
      /\ \/ pc[T1] = "unmount" /\ scen \in {"C1", "C2"} /\ WRITE_ONCE(T1, clear)
         \/ pc[T1] = "tree" /\ WRITE_ONCE(T1, (clear \o sync) \o unlock_stores(T1))
  BY DEF mnt_make_shortterm, umount_tree, At
<1>2. ShapeOk /\ scen \in Scenarios /\ BufOk /\ MemOk
  BY DEF Inv, ShapeOk
<1>3. pc'[T0] = pc[T0] /\ pc'[T1] = "peek_lock"
  BY <1>1, <1>2, PcOf, ThreadsAre
<1>4. Proper(T1, clear) /\ Locs(clear) = {mnt_ns}
  <2>1. mnt_ns \in Owned(scen, T1) /\ Stored(scen, mnt_ns, 0)
    BY <1>2, Places, SlotsApart, ThreadsAre DEF Owned, Stored
  <2> QED BY <1>2, <2>1, OneStore
<1>5. Proper(T1, sync) /\ Locs(sync) = IF scen = "B1" THEN {flags} ELSE {}
  <2>1. CASE scen = "B1"
    <3>1. Proper(T1, <<Set(T1, MNT_SYNC_UMOUNT)>>) /\ Locs(<<Set(T1, MNT_SYNC_UMOUNT)>>) = {flags}
      BY <1>2, FlagStore, ThreadsAre DEF MNT_SYNC_UMOUNT
    <3> QED BY <2>1, <3>1
  <2>2. CASE scen # "B1"
    BY <2>2, NoStores
  <2> QED BY <2>1, <2>2
<1> HIDE DEF clear, sync
<1>6. PICK seq : /\ WRITE_ONCE(T1, seq) /\ Proper(T1, seq) /\ mnt_ns \in Locs(seq)
                 /\ mount_lock \in Locs(seq) => Releasing(seq) /\ pc[T1] = "tree"
                 /\ pc[T1] = "tree" => mount_lock \in Locs(seq)
                 /\ mount_seq \in Locs(seq) => pc[T1] = "tree"
                 /\ flags \in Locs(seq) => pc[T1] = "tree" /\ scen = "B1"
                 /\ PU \notin Locs(seq) /\ freed \notin Locs(seq)
  <2>1. CASE pc[T1] = "unmount"
    <3>1. WRITE_ONCE(T1, clear)
      BY <1>1, <2>1
    <3>2. {mount_lock, mount_seq, flags, PU, freed} \cap Locs(clear) = {}
      BY <1>2, <1>4, Places
    <3> QED BY <1>4, <2>1, <3>1, <3>2
  <2>2. CASE pc[T1] = "tree"
    <3>1. PICK c : c = clear /\ Proper(T1, c) /\ Locs(c) = {mnt_ns}
      BY <1>4
    <3>2. PICK d : d = sync /\ Proper(T1, d) /\ Locs(d) = IF scen = "B1" THEN {flags} ELSE {}
      BY <1>5
    <3>3. PICK u : u = unlock_stores(T1) /\ Proper(T1, u) /\ Locs(u) = {mount_seq, mount_lock} /\ Releasing(u)
      BY <1>2, UnlockStores, ThreadsAre
    <3>4. PICK e : e = c \o d /\ Proper(T1, e) /\ \A l : l \in Locs(e) <=> l \in Locs(c) \/ l \in Locs(d)
      <4>1. Proper(T1, c \o d)
        BY <3>1, <3>2, BothStores
      <4>2. \A l : l \in Locs(c \o d) <=> l \in Locs(c) \/ l \in Locs(d)
        BY <3>1, <3>2, BothStores
      <4> QED BY <4>1, <4>2
    <3>5. mount_lock \notin Locs(e)
      BY <1>2, <3>1, <3>2, <3>4, Places
    <3>6. Proper(T1, e \o u)
      BY <3>3, <3>4, BothStores
    <3>7. \A l : l \in Locs(e \o u) <=> l \in Locs(e) \/ l \in Locs(u)
      BY <3>3, <3>4, BothStores
    <3>8. Releasing(e \o u)
      BY <3>3, <3>4, <3>5, BothStores
    <3>9. WRITE_ONCE(T1, e \o u)
      BY <1>1, <2>2, <3>1, <3>2, <3>3, <3>4
    <3>10. /\ mnt_ns \in Locs(e \o u) /\ mount_lock \in Locs(e \o u)
           /\ flags \in Locs(e \o u) => scen = "B1"
           /\ PU \notin Locs(e \o u) /\ freed \notin Locs(e \o u)
      BY <1>2, <3>1, <3>2, <3>3, <3>4, <3>7, Places
    <3> QED BY <2>2, <3>6, <3>8, <3>9, <3>10
  <2> QED BY <1>1, <2>1, <2>2
<1>7. mount_lock \notin Pending(T1)
  BY <1>1, ThreadsAre DEF Inv, LockOk
<1>8. /\ BufOk' /\ MemOk' /\ SameMem
      /\ Pending(T1)' = Pending(T1) \cup Locs(seq) /\ Pending(T0)' = Pending(T0) /\ buf'[T0] = buf[T0]
      /\ UnlockLast'
  BY <1>1, <1>6, <1>7, T1Stores
<1>9. T0Rests
  BY <1>1, <1>3, <1>8, ThreadsAre DEF T0Rests
<1>10. /\ T0Ok' /\ HolderOk' /\ WalkerOk' /\ CountOk' /\ Count0Ok' /\ Count1Ok' /\ Gets1Ok'
       /\ TakingOk' /\ DroppingOk' /\ KeptOk' /\ SeenOk'
       /\ Final0' = Final0 /\ Final1' = Final1
  BY <1>1, <1>3, <1>8, <1>9, T1Going DEF AfterGp, Counting
<1>11. ShapeOk'
  BY <1>1, <1>2, ThreadsAre DEF ShapeOk, Goto
<1>12. T1Ok'
  BY <1>1, <1>3, <1>6, <1>8 DEF Inv, T1Ok, Put1, Late, Counting
<1>13. LockOk'
  <2>1. Holds(T1)' <=> Holds(T1)
    BY <1>1, <1>3, <1>6, <1>7, <1>8 DEF Holds, InLock, Counting
  <2>2. Holds(T0)' <=> Holds(T0)
    BY <1>3, <1>8 DEF Holds, InLock
  <2> QED BY <1>1, <1>3, <1>6, <1>8, <2>1, <2>2, ThreadsAre DEF Inv, LockOk, Holds, InLock
<1>14. FreeOk'
  BY <1>1, <1>6, <1>8, <1>10, ThreadsAre DEF Inv, FreeOk, Dropping
<1> QED BY <1>8, <1>10, <1>11, <1>12, <1>13, <1>14 DEF Inv

-----------------------------------------------------------------------------
(* U counts *)

(* U begins to count, to look or in its slow path.                         *)
LEMMA T1StartsCount ==
  ASSUME Inv, Peek \/ SlowDec(T1) PROVE Inv'
<1>1. /\ mem' = mem /\ smp_mb(T1) /\ scen' = scen /\ saw' = saw /\ in_rcu' = in_rcu
      /\ todo' = [todo EXCEPT ![T1] = AllSlots] /\ sum' = [sum EXCEPT ![T1] = 0]
      /\ Goto(T1, "count")
      /\ \/ pc[T1] = "peek" /\ buf' = buf
         \/ pc[T1] = "slow_dec" /\ WRITE_ONCE(T1, <<Inc(T1, PU)>>)
  <2>1. put_cpu(T1) = UCPU
    BY DEF put_cpu
  <2> QED BY <2>1 DEF Peek, SlowDec, StartCount, At, mnt_dec_count, AllSlots, PU
<1>2. ShapeOk /\ scen \in Scenarios /\ BufOk /\ MemOk
  BY DEF Inv, ShapeOk
<1>3. /\ pc'[T0] = pc[T0] /\ pc'[T1] = "count" /\ todo'[T0] = todo[T0] /\ sum'[T0] = sum[T0]
      /\ todo'[T1] = AllSlots /\ sum'[T1] = 0
  BY <1>1, <1>2, PcOf, ThreadsAre DEF ShapeOk
<1>4. /\ Pending(T1) = {} /\ mem[mnt_ns] = 0 /\ mem[mount_seq] >= 1 /\ mem[PU] = 0
      /\ saw.path[T1] = "none" /\ (pc[T1] = "slow_dec" <=> saw.fallback)
  <2>1. Pending(T1) = {}
    BY <1>1, Barrier, ThreadsAre
  <2> QED BY <1>1, <2>1 DEF Inv, T1Ok, Put1, Late, Counting
<1>5. /\ BufOk' /\ MemOk' /\ SameMem /\ Pending(T0)' = Pending(T0) /\ buf'[T0] = buf[T0] /\ UnlockLast'
      /\ Pending(T1)' = IF pc[T1] = "slow_dec" THEN {PU} ELSE {}
  <2>1. CASE pc[T1] = "peek"
    BY <1>1, <1>2, <1>4, <2>1, BufRests, MemRests, ThreadsAre DEF Inv
  <2>2. CASE pc[T1] = "slow_dec"
    <3>1. Proper(T1, <<Inc(T1, PU)>>) /\ Locs(<<Inc(T1, PU)>>) = {PU}
      BY <1>2, <1>4, CounterStore, ThreadsAre
    <3>2. PICK seq : WRITE_ONCE(T1, seq) /\ Proper(T1, seq) /\ Locs(seq) = {PU}
      BY <1>1, <2>2, <3>1
    <3>3. mount_lock \notin Locs(seq)
      BY <1>2, <3>2, Places
    <3>4. /\ BufOk' /\ MemOk' /\ SameMem
          /\ Pending(T1)' = Pending(T1) \cup Locs(seq) /\ Pending(T0)' = Pending(T0) /\ buf'[T0] = buf[T0]
          /\ UnlockLast'
      BY <1>1, <1>4, <3>2, <3>3, T1Stores
    <3> QED BY <1>4, <2>2, <3>2, <3>4
  <2> QED BY <1>1, <2>1, <2>2
<1>6. T0Rests
  BY <1>1, <1>3, <1>5, ThreadsAre DEF T0Rests
<1>7. /\ T0Ok' /\ HolderOk' /\ WalkerOk' /\ Count0Ok' /\ (Taking(scen) => GetFirst')
      /\ Final0' = Final0 /\ Kept' = Kept /\ Put0' = Put0
  BY <1>5, <1>6, T1Acting
<1>8. Final1' = Final1 /\ Own1' = Own1 /\ ~Final1
  <2>1. ~Final1
    BY <1>1, <1>4 DEF Inv, T1Ok, Final1
  <2> QED BY <1>1, <2>1 DEF Final1, Own1
<1>9. ShapeOk'
  <2>1. todo' \in [Threads -> SUBSET AllSlots]
    <3>1. AllSlots \in SUBSET AllSlots /\ todo \in [Threads -> SUBSET AllSlots]
      BY <1>2 DEF ShapeOk
    <3> QED BY <1>1, <3>1
  <2>2. sum' \in [Threads -> Int]
    <3>1. sum \in [Threads -> Int] /\ 0 \in Int
      BY <1>2 DEF ShapeOk
    <3> QED BY <1>1, <3>1
  <2>3. pc' = [t \in Threads |-> pc'[t]]
    BY <1>1, <1>2 DEF ShapeOk, Goto
  <2> QED BY <1>1, <1>2, <2>1, <2>2, <2>3 DEF ShapeOk
<1>10. /\ Sum1' = mem[GH] + 1 - mem[PH(scen)] - Own1
       /\ mem[GH] \in Nat /\ mem[PH(scen)] \in {0, 1} /\ Own1 \in {0, 1}
  <2>1. Own1 \in {0, 1} /\ mem[GH] \in Nat /\ mem[PH(scen)] \in {0, 1} /\ {GH, GU, PU, PH(scen)} \subseteq AllSlots
    BY <1>2, Places DEF Own1, If, MemOk
  <2> QED BY <1>1, <1>3, <1>8, <2>1 DEF Sum1, If
<1>11. T1Ok'
  BY <1>1, <1>3, <1>4, <1>5 DEF Inv, T1Ok, Put1, Late, Counting
<1>12. LockOk'
  <2>1. Holds(T1) /\ Holds(T1)' /\ (Holds(T0)' <=> Holds(T0)) /\ mount_lock \notin Pending(T1)'
    BY <1>1, <1>2, <1>3, <1>5, Places DEF Holds, InLock, Counting
  <2> QED BY <1>1, <1>3, <1>5, <2>1, ThreadsAre DEF Inv, LockOk
<1>13. FreeOk'
  <2>1. flags \notin Pending(T1)' /\ freed \notin Pending(T1)'
    BY <1>2, <1>5, Places
  <2> QED BY <1>1, <1>5, <1>7, <1>8, <2>1, ThreadsAre DEF Inv, FreeOk
<1>14. CountOk' /\ Count1Ok' /\ Gets1Ok'
  <2>1. {GH, GU} \subseteq AllSlots
    BY <1>2, Places
  <2> QED BY <1>1, <1>3, <1>8, <1>10, <2>1, ThreadsAre DEF Inv, CountOk, Count1Ok, Gets1Ok
<1>15. TakingOk'
  <2>1. Taking(scen) => mem[GH] + 1 - mem[PH(scen)] - Own1 >= 2 - Own1
    <3>1. Taking(scen) => mem[GH] \in {1, 2} /\ (mem[PH(scen)] = 1 => mem[GH] = 2)
      BY <1>2 DEF Inv, TakingOk, MemOk, First, IsWalk, Taking
    <3> QED BY <1>10, <3>1
  <2> QED BY <1>1, <1>7, <1>8, <1>10, <2>1 DEF Inv, TakingOk
<1>16. DroppingOk'
  <2> SUFFICES ASSUME Dropping(scen) PROVE DroppingOk'
    BY <1>1 DEF DroppingOk
  <2>1. mem[GH] = 1
    BY DEF Inv, HolderOk, Dropping, IsWalk, Taking
  <2>2. Sum1' = 2 - mem[PH(scen)] - Own1 /\ (saw.fallback => Own1 = 1)
    BY <1>10, <2>1 DEF Own1, If
  <2>3. AfterGp' => AfterGp
    BY <1>1, <1>3, <1>4 DEF AfterGp
  <2> QED BY <1>1, <1>3, <1>7, <1>8, <1>10, <2>2, <2>3 DEF Inv, DroppingOk
<1>17. KeptOk'
  <2>1. IsWalk(scen) /\ Kept => mem[GH] = 1 /\ mem[PH(scen)] = 0
    BY DEF Inv, WalkerOk, Kept, T0Ok, Put0
  <2> QED BY <1>1, <1>7, <1>8, <1>10, <2>1 DEF KeptOk
<1>18. SeenOk'
  <2>1. scen = "D1" => mem[GH] = 1 /\ ~saw.fallback
    BY DEF Inv, HolderOk, T1Ok, IsWalk, Taking
  <2>2. scen = "D1" /\ saw.ns2 = 1 => mem[PH(scen)] = 1 /\ saw.peek # 2
    BY DEF Inv, SeenOk
  <2> QED BY <1>1, <1>10, <2>1, <2>2 DEF SeenOk, Own1, If
<1> QED BY <1>5, <1>7, <1>9, <1>11, <1>12, <1>13, <1>14, <1>15, <1>16, <1>17, <1>18 DEF Inv

(* U reads a slot: a put that it misses is one that is not yet in memory.  *)
LEMMA SumSlots1 ==
  ASSUME Inv, sum_slots(T1) PROVE Inv'
<1>1. ShapeOk /\ scen \in Scenarios /\ BufOk /\ MemOk
  BY DEF Inv, ShapeOk
<1>2. PICK s \in todo[T1] :
           /\ pc[T1] = "count" /\ mem' = mem /\ buf' = buf /\ scen' = scen /\ saw' = saw /\ in_rcu' = in_rcu
           /\ \A o \in Threads \ {T1} : pc'[o] = pc[o] /\ todo'[o] = todo[o] /\ sum'[o] = sum[o]
           /\ pc'[T1] = IF todo[T1] = {s} THEN "counted" ELSE "count"
           /\ todo'[T1] = todo[T1] \ {s} /\ s \in AllSlots /\ READ_ONCE(T1, s) \in Nat
           /\ s \in Slots("puts") => sum'[T1] = sum[T1] - READ_ONCE(T1, s)
           /\ s \notin Slots("puts") => /\ sum'[T1] = sum[T1] + READ_ONCE(T1, s)
                                        /\ Pending(T1) = {} /\ todo[T1] \cap Slots("puts") = {}
           /\ ShapeOk' /\ CountOk'
  BY Summing, ThreadsAre
<1>3. pc'[T0] = pc[T0] /\ todo'[T0] = todo[T0] /\ sum'[T0] = sum[T0] /\ pc'[T1] \in Counting /\ pc[T1] \in Counting
  BY <1>2, ThreadsAre DEF Counting
<1>4. /\ BufOk' /\ UnlockLast' /\ MemOk' /\ SameMem
      /\ \A t \in Threads : Pending(t)' = Pending(t)
  BY <1>1, <1>2, BufRests, MemRests DEF Inv
<1>5. T0Rests
  BY <1>2, <1>3, <1>4, ThreadsAre DEF T0Rests
<1>6. /\ T0Ok' /\ HolderOk' /\ WalkerOk' /\ Count0Ok' /\ (Taking(scen) => GetFirst')
      /\ Final0' = Final0 /\ Kept' = Kept /\ Put0' = Put0
  BY <1>4, <1>5, T1Acting
<1>7. Final1' = Final1 /\ Own1' = Own1 /\ AfterGp' = AfterGp
  BY <1>2, <1>3 DEF Final1, Own1, AfterGp, Counting
<1>8. T1Ok'
  BY <1>2, <1>3, <1>4, ThreadsAre DEF Inv, T1Ok, Put1, Late, Counting
<1>9. LockOk'
  BY <1>2, <1>3, <1>4, ThreadsAre DEF Inv, LockOk, Holds, InLock, Counting
<1>10. FreeOk'
  BY <1>2, <1>4, <1>6, <1>7, ThreadsAre DEF Inv, FreeOk
<1>11. Sum1' = Sum1
  <2>1. /\ s \in Slots("puts") <=> s \notin Slots("gets")
        /\ GH \in Slots("gets") /\ GU \in Slots("gets") /\ PU \in Slots("puts") /\ PH(scen) \in Slots("puts")
    BY <1>1, <1>2, SlotsApart DEF AllSlots
  <2>2. IF saw.fallback THEN mem[PU] = 1 \/ PU \in Pending(T1) ELSE mem[PU] = 0 /\ PU \notin Pending(T1)
    BY <1>2, <1>3 DEF Inv, T1Ok, Put1, Counting
  <2>3. /\ s = GH => READ_ONCE(T1, s) = mem[GH]
        /\ s = GU => READ_ONCE(T1, s) = 1
        /\ s = PH(scen) => READ_ONCE(T1, s) = mem[PH(scen)]
        /\ s = PU => READ_ONCE(T1, s) = Own1
        /\ s \notin {GH, GU, PU, PH(scen)} => READ_ONCE(T1, s) = 0
    <3>1. s = PU => READ_ONCE(T1, s) = Own1
      BY <1>1, <1>2, <2>2, SlotReads, ThreadsAre DEF Own1, If
    <3> QED BY <1>1, <1>2, <3>1, SlotReads, ThreadsAre
  <2>4. sum[T1] \in Int /\ mem[GH] \in Nat /\ mem[PH(scen)] \in Nat /\ Own1 \in Nat
    BY <1>1, Places, ThreadsAre DEF ShapeOk, MemOk, Own1, If
  <2>5. GH # GU /\ GH # PU /\ GH # PH(scen) /\ GU # PU /\ GU # PH(scen) /\ PU # PH(scen)
    BY <1>1, Places
  <2>6. \A x : x \in todo'[T1] <=> x \in todo[T1] /\ x # s
    BY <1>2
  <2>7. CASE s = GH
    BY <1>2, <1>7, <2>1, <2>3, <2>4, <2>5, <2>6, <2>7 DEF Sum1, If
  <2>8. CASE s = GU
    BY <1>2, <1>7, <2>1, <2>3, <2>4, <2>5, <2>6, <2>8 DEF Sum1, If
  <2>9. CASE s = PH(scen)
    BY <1>2, <1>7, <2>1, <2>3, <2>4, <2>5, <2>6, <2>9 DEF Sum1, If
  <2>10. CASE s = PU
    BY <1>2, <1>7, <2>1, <2>3, <2>4, <2>5, <2>6, <2>10 DEF Sum1, If
  <2>11. CASE s \notin {GH, GU, PU, PH(scen)}
    <3>1. sum'[T1] = sum[T1]
      BY <1>2, <2>3, <2>4, <2>11
    <3> QED BY <1>2, <1>7, <2>6, <2>11, <3>1 DEF Sum1, If
  <2> QED BY <2>7, <2>8, <2>9, <2>10, <2>11
<1>12. Count1Ok'
  BY <1>2, <1>3, <1>7, <1>11 DEF Inv, Count1Ok
<1>13. Gets1Ok'
  <2> SUFFICES ASSUME todo'[T1] \cap Slots("puts") # {} PROVE {GH, GU} \subseteq todo'[T1]
    BY DEF Gets1Ok, Slots
  <2>1. todo[T1] \cap Slots("puts") # {} /\ s \in Slots("puts")
    BY <1>2
  <2> QED BY <1>2, <1>3, <2>1, SlotsApart DEF Inv, Gets1Ok
<1>14. TakingOk'
  BY <1>2, <1>3, <1>6, <1>7, <1>11 DEF Inv, TakingOk
<1>15. DroppingOk'
  BY <1>2, <1>3, <1>6, <1>7, <1>11 DEF Inv, DroppingOk, Counting
<1>16. KeptOk' /\ SeenOk'
  BY <1>2, <1>3, <1>6, <1>7, <1>11 DEF Inv, KeptOk, SeenOk
<1> QED BY <1>2, <1>4, <1>6, <1>8, <1>9, <1>10, <1>12, <1>13, <1>14, <1>15, <1>16 DEF Inv

-----------------------------------------------------------------------------
(* What U makes of its count                                               *)

(* When U has counted, what the sum says of the references is still so.    *)
LEMMA Counted1 ==
  ASSUME Inv, pc[T1] = "counted"
  PROVE  /\ sum[T1] = Sum1 /\ sum[T1] \in Int /\ ~Final1 /\ Holds(T1) /\ ~Holds(T0)
         /\ mount_lock \notin Pending(T1) /\ freed \notin Pending(T1)
         /\ Dropping(scen) => mem[freed] = 0 /\ ~Final0 /\ flags \notin Pending(T1)
         /\ Dropping(scen) => \A i \in {0, 1} : mem[PH(scen)] = i => 2 - Own1 - i <= sum[T1] /\ sum[T1] <= 2 - Own1
         /\ mem[PH(scen)] \in {0, 1}
<1>1. todo[T1] = {} /\ sum[T1] \in Int
  BY ThreadsAre DEF Inv, CountOk
<1>2. sum[T1] = Sum1
  BY <1>1 DEF Sum1, If
<1>3. ~Final1
  BY DEF Inv, T1Ok, Final1
<1>4. Holds(T1) /\ ~Holds(T0)
  BY DEF Inv, LockOk, Holds, InLock, Counting
<1>5. mount_lock \notin Pending(T1) /\ freed \notin Pending(T1)
  BY <1>3, ThreadsAre DEF Inv, LockOk, FreeOk
<1>6. Dropping(scen) => mem[freed] = 0 /\ ~Final0 /\ flags \notin Pending(T1)
  <2>1. Dropping(scen) => ~Final0
    BY DEF Inv, DroppingOk
  <2> QED BY <1>3, <2>1 DEF Inv, FreeOk
<1>7. Dropping(scen) => 2 - Own1 - mem[PH(scen)] <= Sum1 /\ Sum1 <= 2 - Own1
  BY DEF Inv, DroppingOk, Counting
<1>8. mem[PH(scen)] \in {0, 1}
  BY DEF Inv, MemOk
<1> QED BY <1>1, <1>2, <1>3, <1>4, <1>5, <1>6, <1>7, <1>8

(* U releases the lock, and has finished the mount if fin.                 *)
LEMMA T1Ending ==
  ASSUME Inv, pc[T1] = "counted", pc'[T1] \in {"gp", "done"}, pc'[T0] = pc[T0], NEW fin \in BOOLEAN, NEW seq,
         mem' = mem, scen' = scen, todo' = todo, sum' = sum, in_rcu'[T0] = in_rcu[T0],
         saw'.path[T0] = saw.path[T0], saw'.res = saw.res, saw'.r2 = saw.r2, saw'.flags = saw.flags, saw'.ns2 = saw.ns2,
         WRITE_ONCE(T1, seq), Proper(T1, seq), Releasing(seq), mount_lock \in Locs(seq),
         flags \in Locs(seq) <=> fin, freed \in Locs(seq) <=> fin,
         ShapeOk', T1Ok', Final1' <=> fin,
         Taking(scen) => ~fin,
         IsWalk(scen) /\ Kept => ~fin,
         scen = "D1" /\ saw.ns2 = 1 => saw'.peek # 2,
         Dropping(scen) /\ fin => mem[PH(scen)] = 1,
         Dropping(scen) => (AfterGp' => AfterGp),
         Dropping(scen) /\ pc'[T1] = "done" /\ ~fin => Final0 \/ ~Put0 \/ pc[T0] \in Counting
  PROVE  Inv'
<1>1. /\ sum[T1] = Sum1 /\ sum[T1] \in Int /\ ~Final1 /\ Holds(T1) /\ ~Holds(T0)
      /\ mount_lock \notin Pending(T1) /\ freed \notin Pending(T1)
      /\ Dropping(scen) => mem[freed] = 0 /\ ~Final0 /\ flags \notin Pending(T1)
  BY Counted1
<1>2. /\ BufOk' /\ MemOk' /\ SameMem
      /\ Pending(T1)' = Pending(T1) \cup Locs(seq) /\ Pending(T0)' = Pending(T0) /\ buf'[T0] = buf[T0]
      /\ UnlockLast'
  BY <1>1, T1Stores
<1>3. T0Rests
  BY <1>2, ThreadsAre DEF T0Rests
<1>4. /\ T0Ok' /\ HolderOk' /\ WalkerOk' /\ Count0Ok' /\ (Taking(scen) => GetFirst')
      /\ Final0' = Final0 /\ Kept' = Kept /\ Put0' = Put0
  BY <1>2, <1>3, T1Acting
<1>5. LockOk'
  <2>1. Holds(T1)' /\ ~Holds(T0)' /\ mount_lock \notin Pending(T0)
    BY <1>1, <1>2 DEF Holds, InLock
  <2> QED BY <1>1, <1>2, <2>1, ThreadsAre DEF Inv, LockOk
<1>6. FreeOk'
  BY <1>1, <1>2, <1>4, ThreadsAre DEF Inv, FreeOk
<1>7. CountOk' /\ Count1Ok' /\ Gets1Ok'
  BY ThreadsAre DEF Inv, CountOk, Count1Ok, Gets1Ok, Counting
<1>8. TakingOk'
  BY <1>4 DEF Inv, TakingOk, Counting
<1>9. DroppingOk'
  <2> SUFFICES ASSUME Dropping(scen) PROVE DroppingOk'
    BY DEF DroppingOk
  <2>1. fin => pc[T0] \in {"put_end", "done"}
    <3> SUFFICES ASSUME fin PROVE pc[T0] \in {"put_end", "done"}
      OBVIOUS
    <3>1. ~IsWalk(scen) /\ scen # "D1"
      BY DEF IsWalk, Dropping
    <3>2. Put0
      BY DEF Inv, T0Ok
    <3>3. pc[T0] \notin Counting
      BY <1>1 DEF Holds, InLock
    <3> QED BY <3>1, <3>2, <3>3 DEF Put0, Inv, HolderOk
  <2> QED BY <1>1, <1>4, <2>1 DEF Inv, DroppingOk, Counting
<1>10. KeptOk' /\ SeenOk'
  BY <1>4 DEF Inv, KeptOk, SeenOk, Counting
<1> QED BY <1>2, <1>4, <1>5, <1>6, <1>7, <1>8, <1>9, <1>10 DEF Inv

(* The look of D1.                                                         *)
LEMMA DekkerPeek ==
  ASSUME Inv, dekker_peek PROVE Inv'
<1>1. /\ mem' = mem /\ scen' = scen /\ todo' = todo /\ sum' = sum /\ in_rcu' = in_rcu
      /\ saw' = [saw EXCEPT !.peek = sum[T1]] /\ WRITE_ONCE(T1, unlock_stores(T1))
      /\ pc[T1] = "counted" /\ scen = "D1" /\ Goto(T1, "done")
  BY DEF dekker_peek, At
<1>2. ShapeOk /\ scen \in Scenarios /\ BufOk /\ MemOk /\ saw \in Sights
  BY DEF Inv, ShapeOk
<1>3. pc'[T0] = pc[T0] /\ pc'[T1] = "done"
  BY <1>1, <1>2, PcOf, ThreadsAre
<1>4. /\ sum[T1] = Sum1 /\ sum[T1] \in Int /\ ~Final1 /\ Holds(T1) /\ ~Holds(T0)
      /\ mount_lock \notin Pending(T1) /\ freed \notin Pending(T1)
  BY <1>1, Counted1
<1>5. /\ saw' \in Sights /\ saw'.path = saw.path /\ saw'.res = saw.res /\ saw'.r2 = saw.r2 /\ saw'.flags = saw.flags
      /\ saw'.ns2 = saw.ns2 /\ saw'.fallback = saw.fallback /\ saw'.slow = saw.slow /\ saw'.peek = sum[T1]
  BY <1>1, <1>2, <1>4 DEF Sights
<1>6. PICK seq : /\ WRITE_ONCE(T1, seq) /\ Proper(T1, seq) /\ Releasing(seq)
                 /\ Locs(seq) = {mount_seq, mount_lock}
  BY <1>1, <1>2, UnlockStores, ThreadsAre
<1>7. mount_lock \in Locs(seq) /\ flags \notin Locs(seq) /\ freed \notin Locs(seq) /\ PU \notin Locs(seq)
  BY <1>2, <1>6, Places
<1>8. ShapeOk'
  BY <1>1, <1>2, <1>5, ThreadsAre DEF ShapeOk, Goto
<1>9. saw.path[T1] = "none" /\ ~saw.fallback
  BY <1>1 DEF Inv, T1Ok
<1>10. Pending(T1)' = Pending(T1) \cup Locs(seq)
  BY <1>1, <1>6, T1Stores
<1>11. T1Ok'
  BY <1>1, <1>3, <1>5, <1>7, <1>9, <1>10 DEF Inv, T1Ok, Put1, Late, Counting
<1>12. ~Final1'
  BY <1>1, <1>5, <1>9 DEF Final1
<1>13. saw.ns2 = 1 => saw'.peek # 2
  BY <1>1, <1>4, <1>5 DEF Inv, SeenOk, Counting
<1>14. ~Dropping(scen) /\ ~Taking(scen) /\ ~IsWalk(scen)
  BY <1>1 DEF Dropping, Taking, IsWalk
<1> QED BY <1>1, <1>3, <1>5, <1>6, <1>7, <1>8, <1>11, <1>12, <1>13, <1>14, T1Ending

(* The look of mntput_unheld(): U finishes the mount, or leaves it to the  *)
(* slow put.                                                               *)
LEMMA Unheld ==
  ASSUME Inv, mntput_unheld PROVE Inv'
<1> DEFINE unheld == sum[T1] = 1
           pre == IF unheld THEN <<Inc(T1, PU)>> \o mntput_final_stores(T1) ELSE <<>>
           next == IF unheld THEN "done" ELSE "gp"
<1>1. /\ mem' = mem /\ scen' = scen /\ todo' = todo /\ sum' = sum /\ in_rcu' = in_rcu
      /\ saw' = [saw EXCEPT !.peek = sum[T1], !.fallback = ~unheld] /\ WRITE_ONCE(T1, pre \o unlock_stores(T1))
      /\ pc[T1] = "counted" /\ scen # "D1" /\ ~saw.fallback /\ Goto(T1, next)
  BY ThreadsAre DEF mntput_unheld, At, IsSlowPut, mnt_dec_count, PU
<1>2. ShapeOk /\ scen \in Scenarios /\ BufOk /\ MemOk /\ saw \in Sights
  BY DEF Inv, ShapeOk
<1>3. pc'[T0] = pc[T0] /\ pc'[T1] = next
  BY <1>1, <1>2, PcOf, ThreadsAre
<1>4. /\ sum[T1] = Sum1 /\ sum[T1] \in Int /\ ~Final1 /\ Holds(T1) /\ ~Holds(T0)
      /\ mount_lock \notin Pending(T1) /\ freed \notin Pending(T1)
      /\ Dropping(scen) => mem[freed] = 0 /\ ~Final0 /\ flags \notin Pending(T1)
      /\ Dropping(scen) => \A i \in {0, 1} : mem[PH(scen)] = i => 2 - Own1 - i <= sum[T1] /\ sum[T1] <= 2 - Own1
      /\ mem[PH(scen)] \in {0, 1}
  BY <1>1, Counted1
<1>5. saw' \in Sights
  <2> DEFINE one == [saw EXCEPT !.peek = sum[T1]]
  <2>1. one \in Sights
    BY <1>2, <1>4 DEF Sights
  <2>2. \A s \in Sights : \A v \in BOOLEAN : [s EXCEPT !.fallback = v] \in Sights
    BY DEF Sights
  <2>3. saw' = [one EXCEPT !.fallback = ~unheld]
    BY <1>1
  <2>4. (~unheld) \in BOOLEAN
    OBVIOUS
  <2> HIDE DEF one, unheld
  <2> QED BY <2>1, <2>2, <2>3, <2>4
<1>6. /\ saw'.path = saw.path /\ saw'.res = saw.res /\ saw'.r2 = saw.r2 /\ saw'.flags = saw.flags
      /\ saw'.ns2 = saw.ns2 /\ saw'.slow = saw.slow /\ saw'.peek = sum[T1] /\ (saw'.fallback <=> ~unheld)
  BY <1>1, <1>2 DEF Sights
<1>7. saw.path[T1] = "none" /\ Own1 = 0 /\ mem[PU] = 0 /\ PU \notin Pending(T1)
  BY <1>1 DEF Inv, T1Ok, Own1, If, Put1
<1>8. Proper(T1, pre) /\ Locs(pre) = IF unheld THEN {PU, flags, freed} ELSE {}
  <2>1. CASE unheld
    <3>1. PICK i : i = <<Inc(T1, PU)>> /\ Proper(T1, i) /\ Locs(i) = {PU}
      BY <1>2, <1>7, CounterStore, ThreadsAre
    <3>2. PICK f : f = mntput_final_stores(T1) /\ Proper(T1, f) /\ Locs(f) = {flags, freed}
      BY <1>2, <1>4, FinalStores, ThreadsAre
    <3>3. Proper(T1, i \o f)
      BY <3>1, <3>2, BothStores
    <3>4. \A l : l \in Locs(i \o f) <=> l \in Locs(i) \/ l \in Locs(f)
      BY <3>1, <3>2, BothStores
    <3>5. Locs(i \o f) = {PU, flags, freed}
      BY <3>1, <3>2, <3>4
    <3> QED BY <2>1, <3>1, <3>2, <3>3, <3>5
  <2>2. CASE ~unheld
    BY <2>2, NoStores
  <2> QED BY <2>1, <2>2
<1> HIDE DEF pre
<1>9. PICK seq : /\ WRITE_ONCE(T1, seq) /\ Proper(T1, seq) /\ Releasing(seq)
                 /\ Locs(seq) = {mount_seq, mount_lock} \cup (IF unheld THEN {PU, flags, freed} ELSE {})
  <2>1. PICK p : p = pre /\ Proper(T1, p) /\ Locs(p) = IF unheld THEN {PU, flags, freed} ELSE {}
    BY <1>8
  <2>2. PICK u : u = unlock_stores(T1) /\ Proper(T1, u) /\ Locs(u) = {mount_seq, mount_lock} /\ Releasing(u)
    BY <1>2, UnlockStores, ThreadsAre
  <2>3. mount_lock \notin Locs(p)
    BY <1>2, <2>1, Places
  <2>4. Proper(T1, p \o u)
    BY <2>1, <2>2, BothStores
  <2>5. \A l : l \in Locs(p \o u) <=> l \in Locs(p) \/ l \in Locs(u)
    BY <2>1, <2>2, BothStores
  <2>6. Releasing(p \o u)
    BY <2>1, <2>2, <2>3, BothStores
  <2>7. Locs(p \o u) = {mount_seq, mount_lock} \cup (IF unheld THEN {PU, flags, freed} ELSE {})
    BY <2>1, <2>2, <2>5
  <2> QED BY <1>1, <2>1, <2>2, <2>4, <2>6, <2>7
<1>10. /\ mount_lock \in Locs(seq) /\ (flags \in Locs(seq) <=> unheld) /\ (freed \in Locs(seq) <=> unheld)
       /\ PU \in Locs(seq) <=> unheld
  BY <1>2, <1>9, Places
<1>11. ShapeOk'
  BY <1>1, <1>2, <1>5, ThreadsAre DEF ShapeOk, Goto
<1>12. Pending(T1)' = Pending(T1) \cup Locs(seq)
  BY <1>1, <1>9, T1Stores
<1>13. T1Ok'
  BY <1>1, <1>3, <1>6, <1>7, <1>10, <1>12 DEF Inv, T1Ok, Put1, Late, Counting
<1>14. Final1' <=> unheld
  BY <1>1, <1>6, <1>7 DEF Final1
<1>15. /\ Taking(scen) => ~unheld
       /\ IsWalk(scen) /\ Kept => ~unheld
  BY <1>1, <1>4, <1>7 DEF Inv, TakingOk, KeptOk, Counting
<1>16. Dropping(scen) /\ unheld => mem[PH(scen)] = 1
  BY <1>4, <1>7
<1>17. (AfterGp' => AfterGp) /\ (pc'[T1] = "done" => unheld)
  BY <1>3, <1>6 DEF AfterGp
<1>18. pc'[T1] \in {"gp", "done"} /\ unheld \in BOOLEAN /\ saw'.path[T0] = saw.path[T0] /\ in_rcu'[T0] = in_rcu[T0]
  BY <1>1, <1>3, <1>6
<1> HIDE DEF unheld
<1> QED BY <1>1, <1>3, <1>6, <1>9, <1>10, <1>11, <1>13, <1>14, <1>15, <1>16, <1>17, <1>18, T1Ending

(* U ends its slow path: after the grace period it counts every fast put.  *)
LEMMA SlowPath1 ==
  ASSUME Inv, mntput_no_expire_slowpath(T1) PROVE Inv'
<1> DEFINE res == slow_result(T1)
           fin == res = "slow_final"
           final == IF res = "slow_final" THEN mntput_final_stores(T1) ELSE <<>>
<1>1. /\ mem' = mem /\ scen' = scen /\ todo' = todo /\ sum' = sum
      /\ WRITE_ONCE(T1, final \o unlock_stores(T1))
      /\ saw' = [saw EXCEPT !.path[T1] = res, !.slow[T1] = sum[T1]]
      /\ in_rcu' = [in_rcu EXCEPT ![T1] = FALSE]
      /\ pc[T1] = "counted" /\ saw.fallback /\ Goto(T1, "done")
  BY ThreadsAre DEF mntput_no_expire_slowpath, At, IsSlowPut
<1>2. ShapeOk /\ scen \in Scenarios /\ BufOk /\ MemOk /\ saw \in Sights
  BY DEF Inv, ShapeOk
<1>3. pc'[T0] = pc[T0] /\ pc'[T1] = "done" /\ in_rcu'[T0] = in_rcu[T0]
  BY <1>1, <1>2, PcOf, ThreadsAre DEF ShapeOk
<1>4. /\ sum[T1] = Sum1 /\ sum[T1] \in Int /\ ~Final1 /\ Holds(T1) /\ ~Holds(T0)
      /\ mount_lock \notin Pending(T1) /\ freed \notin Pending(T1)
      /\ Dropping(scen) => mem[freed] = 0 /\ ~Final0 /\ flags \notin Pending(T1)
      /\ mem[PH(scen)] \in {0, 1}
  BY <1>1, Counted1
<1>5. /\ saw.path[T1] = "none" /\ Own1 = 1 /\ (mem[PU] = 1 \/ PU \in Pending(T1)) /\ saw.peek # 1 /\ scen # "D1"
  BY <1>1 DEF Inv, T1Ok, Own1, If, Put1, Counting
<1>6. /\ res \in Slow /\ (res = "slow_final" => sum[T1] = 0)
      /\ (sum[T1] = 0 /\ READ_ONCE(T1, flags) = 0 => res = "slow_final")
  BY DEF slow_result, Slow, MNT_DOOMED
<1>7. fin \in BOOLEAN /\ (res = "slow_final" <=> fin)
  OBVIOUS
<1> HIDE DEF res
<1>8. saw' \in Sights
  <2> DEFINE one == [saw EXCEPT !.path[T1] = res]
  <2>1. one \in Sights
    BY <1>2, <1>6, ThreadsAre DEF Sights
  <2>2. \A s \in Sights : \A v \in Int : [s EXCEPT !.slow[T1] = v] \in Sights
    BY ThreadsAre DEF Sights
  <2>3. saw' = [one EXCEPT !.slow[T1] = sum[T1]]
    BY <1>1
  <2> HIDE DEF one
  <2> QED BY <1>4, <2>1, <2>2, <2>3
<1>9. /\ saw'.path[T1] = res /\ saw'.path[T0] = saw.path[T0] /\ saw'.slow[T1] = sum[T1]
      /\ saw'.flags = saw.flags /\ saw'.r2 = saw.r2 /\ saw'.res = saw.res /\ saw'.ns2 = saw.ns2
      /\ saw'.fallback = saw.fallback /\ saw'.peek = saw.peek
  BY <1>1, <1>2, ThreadsAre DEF Sights
<1>10. Proper(T1, final) /\ Locs(final) = IF fin THEN {flags, freed} ELSE {}
  <2>1. CASE res = "slow_final"
    <3>1. Proper(T1, mntput_final_stores(T1)) /\ Locs(mntput_final_stores(T1)) = {flags, freed}
      BY <1>2, <1>4, FinalStores, ThreadsAre
    <3> QED BY <2>1, <3>1
  <2>2. CASE res # "slow_final"
    BY <2>2, NoStores
  <2> QED BY <2>1, <2>2
<1> HIDE DEF final, fin
<1>11. PICK seq : /\ WRITE_ONCE(T1, seq) /\ Proper(T1, seq) /\ Releasing(seq)
                  /\ Locs(seq) = {mount_seq, mount_lock} \cup (IF fin THEN {flags, freed} ELSE {})
  <2>1. PICK f : f = final /\ Proper(T1, f) /\ Locs(f) = IF fin THEN {flags, freed} ELSE {}
    BY <1>10
  <2>2. PICK u : u = unlock_stores(T1) /\ Proper(T1, u) /\ Locs(u) = {mount_seq, mount_lock} /\ Releasing(u)
    BY <1>2, UnlockStores, ThreadsAre
  <2>3. mount_lock \notin Locs(f)
    BY <1>2, <2>1, Places
  <2>4. Proper(T1, f \o u)
    BY <2>1, <2>2, BothStores
  <2>5. \A l : l \in Locs(f \o u) <=> l \in Locs(f) \/ l \in Locs(u)
    BY <2>1, <2>2, BothStores
  <2>6. Releasing(f \o u)
    BY <2>1, <2>2, <2>3, BothStores
  <2>7. Locs(f \o u) = {mount_seq, mount_lock} \cup (IF fin THEN {flags, freed} ELSE {})
    BY <2>1, <2>2, <2>5
  <2> QED BY <1>1, <2>1, <2>2, <2>4, <2>6, <2>7
<1>12. /\ mount_lock \in Locs(seq) /\ (flags \in Locs(seq) <=> fin) /\ (freed \in Locs(seq) <=> fin)
       /\ PU \notin Locs(seq)
  BY <1>2, <1>11, Places
<1>13. ShapeOk'
  BY <1>1, <1>2, <1>8, ThreadsAre DEF ShapeOk, Goto
<1>14. Pending(T1)' = Pending(T1) \cup Locs(seq)
  BY <1>1, <1>11, T1Stores
<1>15. T1Ok'
  BY <1>1, <1>3, <1>5, <1>6, <1>9, <1>12, <1>14 DEF Inv, T1Ok, Put1, Late, Counting
<1>16. Final1' <=> fin
  BY <1>5, <1>7, <1>9 DEF Final1
<1>17. /\ Taking(scen) => ~fin
       /\ IsWalk(scen) /\ Kept => ~fin
  BY <1>1, <1>4, <1>5, <1>6, <1>7 DEF Inv, TakingOk, KeptOk, Counting
<1>18. Dropping(scen) => sum[T1] = 1 - mem[PH(scen)]
  BY <1>1, <1>4 DEF Inv, DroppingOk, Counting
<1>19. Dropping(scen) /\ fin => mem[PH(scen)] = 1
  BY <1>4, <1>6, <1>7, <1>18
<1>20. AfterGp' => AfterGp
  BY <1>1 DEF AfterGp
<1>21. ASSUME Dropping(scen), ~fin, Put0, pc[T0] \notin Counting PROVE FALSE
  <2>1. ~IsWalk(scen) /\ AfterGp
    BY <1>1, <1>21 DEF IsWalk, Dropping, AfterGp
  <2>2. pc[T0] = "done"
    BY <1>21, <2>1 DEF Put0, Inv, DroppingOk
  <2>3. mem[PH(scen)] = 1
    BY <1>21, <2>1, <2>2 DEF Inv, HolderOk, DroppingOk
  <2>4. sum[T1] = 0
    BY <1>18, <1>21, <2>3
  <2>5. mem[flags] = 0 /\ flags \notin Pending(T1)
    BY <1>4, <1>21 DEF Inv, FreeOk
  <2>6. READ_ONCE(T1, flags) = 0
    BY <1>2, <2>5, Reads, Places, ThreadsAre
  <2> QED BY <1>6, <1>7, <1>21, <2>4, <2>6
<1>22. pc'[T1] \in {"gp", "done"}
  BY <1>3
<1>23. /\ scen = "D1" /\ saw.ns2 = 1 => saw'.peek # 2
       /\ Dropping(scen) /\ pc'[T1] = "done" /\ ~fin => Final0 \/ ~Put0 \/ pc[T0] \in Counting
  BY <1>5, <1>21
<1> QED BY <1>1, <1>3, <1>7, <1>9, <1>11, <1>12, <1>13, <1>15, <1>16, <1>17, <1>19, <1>20, <1>22, <1>23, T1Ending

(* Every step of the unmounter keeps the invariant.                        *)
LEMMA T1Steps ==
  ASSUME Inv, unmounter PROVE Inv'
<1>1. ~Recheck(T1) /\ ~PutEnd(T1)
  BY DEF Recheck, PutEnd, At, Inv, T1Ok, Late, Counting
<1> QED BY <1>1, T1Unmounts, T1Locks, T1StartsCount, Unheld, DekkerPeek, T1Moves, SumSlots1, SlowPath1
        DEF unmounter, Mntput

-----------------------------------------------------------------------------
(* A store becomes visible                                                 *)

(* One place changes, to what was pending for it.                          *)
LEMMA DrainedPlaces ==
  ASSUME Inv, NEW t \in Threads, NEW l, NEW v, Drained1(t, l, v), scen' = scen
  PROVE  /\ mem'[GU] = mem[GU]
         /\ mem'[GH] = mem[GH] \/ (t = T0 /\ l = GH /\ GH \in Pending(T0) /\ mem'[GH] = First(scen) + 1)
         /\ mem'[PH(scen)] = mem[PH(scen)] \/ (t = T0 /\ l = PH(scen) /\ PH(scen) \in Pending(T0) /\ mem'[PH(scen)] = 1)
         /\ mem'[PU] = mem[PU] \/ (t = T1 /\ l = PU /\ PU \in Pending(T1) /\ mem'[PU] = 1)
         /\ mem'[mnt_ns] = mem[mnt_ns] \/ (mem'[mnt_ns] = 0 /\ t = T1)
         /\ mem'[mount_seq] = mem[mount_seq] \/ mem'[mount_seq] >= 1
         /\ mem'[mount_lock] = IF l = mount_lock THEN 0 ELSE mem[mount_lock]
         /\ mem'[flags] = mem[flags] \/ (flags \in Pending(t) /\ mem'[flags] \in 1 .. 3)
         /\ mem'[freed] = mem[freed] \/ (freed \in Pending(t) /\ mem'[freed] >= 1 /\ (Dropping(scen) => mem'[freed] = 1))
         /\ \A k \in Locations : \A o \in Threads :
              /\ k \in Pending(o)' => k \in Pending(o)
              /\ k \in Pending(o) => k \in Pending(o)' \/ (k = l /\ o = t)
         /\ mem' \in [Locations -> Nat]
         /\ l \in Locations /\ \A k \in Locations \ {l} : mem'[k] = mem[k]
         /\ l \in Owned(scen, t) /\ l \in Pending(t) /\ mem'[l] = v /\ Stored(scen, l, mem'[l])
<1>1. ShapeOk /\ scen \in Scenarios /\ BufOk /\ MemOk
  BY DEF Inv, ShapeOk
<1>2. /\ l \in Owned(scen, t) /\ v \in Nat /\ Stored(scen, l, v)
      /\ mem' = [mem EXCEPT ![l] = v]
      /\ l \in Pending(t) /\ Pending(t)' \subseteq Pending(t) /\ Pending(t) \ {l} \subseteq Pending(t)'
      /\ \A o \in Threads \ {t} : Pending(o)' = Pending(o)
  BY DEF Drained1
<1>3. l \in Locations
  BY <1>1, <1>2, OwnedLocations
<1>4. mem'[l] = v /\ (\A k \in Locations \ {l} : mem'[k] = mem[k]) /\ mem' \in [Locations -> Nat]
  BY <1>1, <1>2, <1>3 DEF MemOk
<1>5. \A k \in Locations : \A o \in Threads :
         /\ k \in Pending(o)' => k \in Pending(o)
         /\ k \in Pending(o) => k \in Pending(o)' \/ (k = l /\ o = t)
  BY <1>2
<1>6. /\ l # GU /\ (l \in {GH, PH(scen)} => t = T0) /\ (l \in {PU, mnt_ns} => t = T1)
  BY <1>1, <1>2, Places, ThreadsAre DEF Owned
<1>7. /\ l = GH => v = First(scen) + 1
      /\ l = PH(scen) => v = 1
      /\ l = PU => v = 1
      /\ l = mnt_ns => v = 0
      /\ l = mount_seq => v >= 1
      /\ l = mount_lock => v = 0
      /\ l = flags => v \in 1 .. 3
      /\ l = freed => v >= 1 /\ (Dropping(scen) => v = 1)
  BY <1>2 DEF Stored
<1>8. {GH, GU, PU, PH(scen), mnt_ns, flags, freed, mount_lock, mount_seq} \subseteq Locations
  BY <1>1, Places
<1>9. mem'[GH] = mem[GH] \/ (t = T0 /\ l = GH /\ GH \in Pending(T0) /\ mem'[GH] = First(scen) + 1)
  BY <1>2, <1>4, <1>6, <1>7, <1>8
<1>10. mem'[PH(scen)] = mem[PH(scen)] \/ (t = T0 /\ l = PH(scen) /\ PH(scen) \in Pending(T0) /\ mem'[PH(scen)] = 1)
  BY <1>2, <1>4, <1>6, <1>7, <1>8
<1>11. mem'[PU] = mem[PU] \/ (t = T1 /\ l = PU /\ PU \in Pending(T1) /\ mem'[PU] = 1)
  BY <1>2, <1>4, <1>6, <1>7, <1>8
<1>12. /\ mem'[mnt_ns] = mem[mnt_ns] \/ (mem'[mnt_ns] = 0 /\ t = T1)
       /\ mem'[mount_seq] = mem[mount_seq] \/ mem'[mount_seq] >= 1
       /\ mem'[mount_lock] = IF l = mount_lock THEN 0 ELSE mem[mount_lock]
  BY <1>4, <1>6, <1>7, <1>8
<1>13. /\ mem'[flags] = mem[flags] \/ (flags \in Pending(t) /\ mem'[flags] \in 1 .. 3)
       /\ mem'[freed] = mem[freed] \/ (freed \in Pending(t) /\ mem'[freed] >= 1 /\ (Dropping(scen) => mem'[freed] = 1))
  BY <1>2, <1>4, <1>7, <1>8
<1>14. mem'[GU] = mem[GU]
  BY <1>4, <1>6, <1>8
<1> QED BY <1>2, <1>3, <1>4, <1>5, <1>9, <1>10, <1>11, <1>12, <1>13, <1>14

(* A store that becomes visible, whichever and whenever, keeps the         *)
(* invariant.                                                              *)
LEMMA DrainSteps ==
  ASSUME Inv, NEW t \in Threads, Drain(t) PROVE Inv'
<1>1. ShapeOk /\ scen \in Scenarios /\ BufOk /\ MemOk
  BY DEF Inv, ShapeOk
<1>2. /\ scen' = scen /\ pc' = pc /\ in_rcu' = in_rcu /\ todo' = todo /\ sum' = sum /\ saw' = saw
  BY DEF Drain
<1>3. PICK l, v : Drained1(t, l, v)
  <2>1. PICK d \in DOMAIN buf[t] : DrainsAt(t, d)
    BY DEF Drain, DrainsAt
  <2> QED BY <1>1, <1>2, <2>1, Drains
<1>4. /\ mem'[GU] = mem[GU]
      /\ mem'[GH] = mem[GH] \/ (t = T0 /\ l = GH /\ GH \in Pending(T0) /\ mem'[GH] = First(scen) + 1)
      /\ mem'[PH(scen)] = mem[PH(scen)] \/ (t = T0 /\ l = PH(scen) /\ PH(scen) \in Pending(T0) /\ mem'[PH(scen)] = 1)
      /\ mem'[PU] = mem[PU] \/ (t = T1 /\ l = PU /\ PU \in Pending(T1) /\ mem'[PU] = 1)
      /\ mem'[mnt_ns] = mem[mnt_ns] \/ (mem'[mnt_ns] = 0 /\ t = T1)
      /\ mem'[mount_seq] = mem[mount_seq] \/ mem'[mount_seq] >= 1
      /\ mem'[mount_lock] = IF l = mount_lock THEN 0 ELSE mem[mount_lock]
      /\ mem'[flags] = mem[flags] \/ (flags \in Pending(t) /\ mem'[flags] \in 1 .. 3)
      /\ mem'[freed] = mem[freed] \/ (freed \in Pending(t) /\ mem'[freed] >= 1 /\ (Dropping(scen) => mem'[freed] = 1))
      /\ \A k \in Locations : \A o \in Threads :
           /\ k \in Pending(o)' => k \in Pending(o)
           /\ k \in Pending(o) => k \in Pending(o)' \/ (k = l /\ o = t)
      /\ mem' \in [Locations -> Nat]
      /\ l \in Locations /\ \A k \in Locations \ {l} : mem'[k] = mem[k]
      /\ l \in Owned(scen, t) /\ l \in Pending(t) /\ mem'[l] = v /\ Stored(scen, l, mem'[l])
  BY <1>2, <1>3, DrainedPlaces
<1>5. /\ BufOk' /\ UnlockLast' /\ (l = mount_lock => Pending(t)' = {})
      /\ GetFirst => GetFirst' /\ (t = T0 /\ l = PH(scen) => GH \notin Pending(T0))
  BY <1>3 DEF Drained1, Inv
<1>6. /\ {GH, GU, PU, PH(scen), mnt_ns, flags, freed, mount_lock, mount_seq} \subseteq Locations
      /\ GH # PH(scen) /\ GH # PU /\ PU # PH(scen) /\ mount_lock # PU /\ mount_lock # PH(scen)
      /\ mount_lock # flags /\ mount_lock # freed /\ mount_lock # mount_seq
  BY <1>1, Places
<1>7. /\ Final0' = Final0 /\ Final1' = Final1 /\ Kept' = Kept /\ Put0' = Put0 /\ Put1' = Put1
      /\ Own1' = Own1 /\ AfterGp' = AfterGp /\ \A o \in Threads : InLock(o)' = InLock(o)
  BY <1>2 DEF Final0, Final1, Kept, Ended, Put0, Put1, Own1, AfterGp, InLock
<1>8. /\ PH(scen) \in Pending(T0) => Put0
      /\ PU \in Pending(T1) => Put1
      /\ mem[PH(scen)] = 1 => Put0
  BY DEF Inv, T0Ok, T1Ok
<1>9. ShapeOk' /\ CountOk' /\ Gets1Ok'
  BY <1>1, <1>2 DEF ShapeOk, Inv, CountOk, Gets1Ok, Slots
<1>10. MemOk'
  <2>1. \A k \in AllSlots \ {GU, GH, PU, PH(scen)} : mem'[k] = 0
    <3>1. \A k \in AllSlots \ {GU, GH, PU, PH(scen)} : k \in Locations /\ k \notin Owned(scen, t)
      BY <1>1, Places, AllLocations DEF Owned
    <3>2. \A k \in AllSlots \ {GU, GH, PU, PH(scen)} : mem[k] = 0
      BY <1>1 DEF MemOk
    <3> QED BY <1>4, <3>1, <3>2
  <2>2. mem'[GU] = 1 /\ mem'[GH] \in {First(scen), First(scen) + 1}
    BY <1>1, <1>4 DEF MemOk
  <2>3. mem'[PH(scen)] \in {0, 1} /\ mem'[PU] \in {0, 1}
    BY <1>1, <1>4 DEF MemOk
  <2>4. mem'[mnt_ns] \in {0, 1} /\ mem'[flags] \in 0 .. 3 /\ mem'[mount_lock] \in {0, 1}
    BY <1>1, <1>4 DEF MemOk
  <2>5. Dropping(scen) => mem'[freed] \in {0, 1}
    BY <1>1, <1>4 DEF MemOk
  <2> QED BY <1>2, <1>4, <2>1, <2>2, <2>3, <2>4, <2>5 DEF MemOk
<1>11. LockOk'
  <2>1. CASE l = mount_lock
    <3>1. Pending(t)' = {} /\ mount_lock \in Pending(t) /\ Holds(t)
      BY <1>4, <1>5, <2>1 DEF Holds
    <3>2. ~InLock(t)
      BY <3>1 DEF Inv, LockOk, InLock, Counting
    <3>3. \A o \in Threads \ {t} : ~Holds(o)
      BY <3>1, ThreadsAre DEF Inv, LockOk
    <3>4. \A o \in Threads \ {t} : ~Holds(o)' /\ mount_lock \notin Pending(o)'
      BY <1>4, <1>6, <1>7, <3>3 DEF Holds
    <3>5. ~Holds(t)'
      BY <1>7, <3>1, <3>2 DEF Holds
    <3>6. \A o \in Threads : ~Holds(o)' /\ mount_lock \notin Pending(o)'
      BY <3>1, <3>4, <3>5
    <3>7. \A o \in Threads : \A k \in {mount_seq, flags, freed, PU} : k \notin Pending(o)'
      <4>1. \A o \in Threads \ {t} : \A k \in {mount_seq, flags, freed, PU} : k \notin Pending(o)
        BY <3>3 DEF Inv, LockOk
      <4> QED BY <1>4, <1>6, <3>1, <4>1
    <3>8. PH(scen) \in Pending(T0)' => saw.path[T0] = "fast"
      <4>1. CASE t = T0
        BY <3>1, <4>1
      <4>2. CASE t # T0
        BY <1>4, <1>6, <3>3, <4>2, ThreadsAre DEF Inv, LockOk
      <4> QED BY <4>1, <4>2
    <3> QED BY <1>2, <3>6, <3>7, <3>8, ThreadsAre DEF LockOk
  <2>2. CASE l # mount_lock
    <3>1. \A o \in Threads : (mount_lock \in Pending(o)' <=> mount_lock \in Pending(o)) /\ (Holds(o)' <=> Holds(o))
      BY <1>4, <1>6, <1>7, <2>2 DEF Holds
    <3> QED BY <1>2, <1>4, <1>6, <2>2, <3>1, ThreadsAre DEF Inv, LockOk
  <2> QED BY <2>1, <2>2
<1>12. T1Ok'
  <2>1. IF Put1 THEN mem'[PU] = 1 \/ PU \in Pending(T1)' ELSE mem'[PU] = 0 /\ PU \notin Pending(T1)'
    BY <1>4, <1>6, ThreadsAre DEF Inv, T1Ok, Stored
  <2>2. /\ pc[T1] \in {"peek_lock", "peek"} => mem'[mnt_ns] = 0 \/ mnt_ns \in Pending(T1)'
        /\ pc[T1] \in {"tree", "peek"} => mem'[mount_seq] >= 1 \/ mount_seq \in Pending(T1)'
    BY <1>4, <1>6, ThreadsAre DEF Inv, T1Ok, Stored
  <2>3. pc[T1] \in Late => mem'[mnt_ns] = 0 /\ mem'[mount_seq] >= 1
    BY <1>4 DEF Inv, T1Ok
  <2> QED BY <1>2, <1>7, <2>1, <2>2, <2>3 DEF Inv, T1Ok
<1>13. T0Ok'
  <2>1. IF Put0 THEN mem'[PH(scen)] = 1 \/ PH(scen) \in Pending(T0)' ELSE mem'[PH(scen)] = 0 /\ PH(scen) \notin Pending(T0)'
    BY <1>4, <1>6, ThreadsAre DEF Inv, T0Ok, Stored
  <2> QED BY <1>2, <1>7, <2>1 DEF Inv, T0Ok
<1>14. HolderOk'
  <2> SUFFICES ASSUME ~IsWalk(scen) PROVE HolderOk'
    BY <1>2 DEF HolderOk
  <2>1. First(scen) = 1
    BY DEF First
  <2>2. IF Taking(scen) /\ pc[T0] # "holder" THEN mem'[GH] = 2 \/ GH \in Pending(T0)'
                                            ELSE mem'[GH] = 1 /\ GH \notin Pending(T0)'
    BY <1>4, <1>6, <2>1, ThreadsAre DEF Inv, HolderOk, Stored
  <2>3. mem[PH(scen)] = 1 => mem'[PH(scen)] = 1
    BY <1>4
  <2> QED BY <1>2, <2>2, <2>3 DEF Inv, HolderOk
<1>15. WalkerOk'
  <2> SUFFICES ASSUME IsWalk(scen) PROVE WalkerOk'
    BY <1>2 DEF WalkerOk
  <2>1. First(scen) = 0
    BY DEF First
  <2>2. /\ pc[T0] \in {"walker", "seqbegin", "legit"} => mem'[GH] = 0 /\ GH \notin Pending(T0)'
        /\ pc[T0] = "legit_retry" => mem'[GH] = 1 \/ GH \in Pending(T0)'
        /\ pc[T0] \in {"legit_lock", "legit_flags"} \/ Kept => mem'[GH] = 1
    BY <1>4, <1>6, <2>1, ThreadsAre DEF Inv, WalkerOk, Stored
  <2> QED BY <1>2, <1>7, <2>2 DEF Inv, WalkerOk, Ended
<1>16. FreeOk'
  <2>1. \A k \in {freed, flags} : /\ k \in Pending(t) /\ l = k => mem'[k] # 0
                                  /\ mem[k] # 0 => mem'[k] # 0
                                  /\ mem'[k] # 0 => mem[k] # 0 \/ k \in Pending(t)
    BY <1>4, <1>6 DEF Stored
  <2>2. \A k \in {freed, flags} : \A o \in Threads :
           /\ k \in Pending(o)' => k \in Pending(o)
           /\ k \in Pending(o) => k \in Pending(o)' \/ mem'[k] # 0
    BY <1>4, <1>6, <2>1
  <2>3. freed \in Pending(t) => Final0 \/ Final1
    BY ThreadsAre DEF Inv, FreeOk
  <2>4. Dropping(scen) => (flags \in Pending(t) => Final0 \/ Final1)
    BY ThreadsAre DEF Inv, FreeOk
  <2> QED BY <1>2, <1>7, <2>1, <2>2, <2>3, <2>4, ThreadsAre DEF Inv, FreeOk
<1>17. Count0Ok'
  <2>1. pc[T0] \in Counting => mem'[PU] = mem[PU]
    <3>1. PU \in Pending(T1) => Holds(T1)
      BY ThreadsAre DEF Inv, LockOk
    <3>2. pc[T0] \in Counting => Holds(T0)
      BY DEF Holds, InLock
    <3> QED BY <1>4, <3>1, <3>2 DEF Inv, LockOk
  <2> QED BY <1>2, <2>1 DEF Inv, Count0Ok, Sum0, If
<1>18. /\ sum[T1] \in Int /\ Own1 \in {0, 1} /\ mem[GH] \in Nat /\ mem'[GH] \in Nat /\ mem[PH(scen)] \in Nat /\ mem'[PH(scen)] \in Nat
  BY <1>1, <1>4, <1>6, ThreadsAre DEF ShapeOk, Own1, If, MemOk
<1>19. Sum1' = Sum1 + If(GH \in todo[T1], mem'[GH] - mem[GH]) - If(PH(scen) \in todo[T1], mem'[PH(scen)] - mem[PH(scen)])
  BY <1>2, <1>7, <1>18 DEF Sum1, If
<1>20. Sum1 \in Int
  BY <1>18 DEF Sum1, If
<1>21. Count1Ok'
  <2> SUFFICES ASSUME pc[T1] \in Counting, PH(scen) \in todo[T1]
               PROVE  Sum1' = mem'[GH] + 1 - mem'[PH(scen)] - Own1
    BY <1>2, <1>7 DEF Count1Ok
  <2>1. GH \in todo[T1]
    BY <1>1, SlotsApart DEF Inv, Gets1Ok
  <2>2. Sum1 = mem[GH] + 1 - mem[PH(scen)] - Own1
    BY DEF Inv, Count1Ok
  <2> QED BY <1>18, <1>19, <2>1, <2>2 DEF If
<1>22. TakingOk'
  <2> SUFFICES ASSUME Taking(scen) PROVE TakingOk'
    BY <1>2 DEF TakingOk
  <2>1. First(scen) = 1 /\ ~IsWalk(scen)
    BY DEF First, IsWalk, Taking
  <2>2. mem'[PH(scen)] = 1 => mem'[GH] = 2
    <3>1. CASE l = PH(scen) /\ t = T0
      <4>1. GH \notin Pending(T0) /\ mem'[GH] = mem[GH] /\ Put0
        BY <1>4, <1>5, <1>6, <1>8, <3>1 DEF Inv, TakingOk
      <4>2. pc[T0] # "holder"
        BY <2>1, <4>1 DEF Put0, Counting
      <4> QED BY <2>1, <4>1, <4>2 DEF Inv, HolderOk
    <3>2. CASE mem'[PH(scen)] = mem[PH(scen)]
      BY <1>4, <2>1, <3>2 DEF Inv, TakingOk
    <3> QED BY <1>4, <3>1, <3>2
  <2>3. pc[T1] \in Counting => Sum1' >= 2 - Own1
    <3> SUFFICES ASSUME pc[T1] \in Counting PROVE Sum1' >= 2 - Own1
      OBVIOUS
    <3>1. Sum1 >= 2 - Own1
      BY DEF Inv, TakingOk
    <3>2. CASE PH(scen) \in todo[T1]
      <4>1. Sum1' = mem'[GH] + 1 - mem'[PH(scen)] - Own1
        BY <1>2, <1>7, <1>21, <3>2 DEF Count1Ok
      <4>2. mem'[GH] \in {1, 2} /\ mem'[PH(scen)] \in {0, 1}
        BY <1>2, <1>10, <2>1 DEF MemOk
      <4> QED BY <1>18, <2>2, <4>1, <4>2
    <3>3. CASE PH(scen) \notin todo[T1]
      <4>1. mem'[GH] >= mem[GH]
        BY <1>1, <1>4, <2>1 DEF MemOk
      <4> QED BY <1>18, <1>19, <1>20, <3>1, <3>3, <4>1 DEF If
    <3> QED BY <3>2, <3>3
  <2> QED BY <1>2, <1>5, <1>7, <2>2, <2>3 DEF Inv, TakingOk
<1>23. ~Taking(scen) /\ ~IsWalk(scen) => mem'[GH] = mem[GH]
  BY <1>4 DEF Inv, HolderOk
<1>24. DroppingOk'
  <2> SUFFICES ASSUME Dropping(scen) PROVE DroppingOk'
    BY <1>2 DEF DroppingOk
  <2>1. mem[GH] = 1 /\ mem'[GH] = 1
    BY <1>23 DEF Inv, HolderOk, Dropping, Taking, IsWalk
  <2>2. mem[PH(scen)] \in {0, 1} /\ mem'[PH(scen)] \in {0, 1} /\ (mem[PH(scen)] = 1 => mem'[PH(scen)] = 1)
    BY <1>1, <1>4 DEF MemOk
  <2>3. pc[T1] \in Counting => 2 - Own1 - mem'[PH(scen)] <= Sum1' /\ Sum1' <= 2 - Own1
    <3> SUFFICES ASSUME pc[T1] \in Counting PROVE 2 - Own1 - mem'[PH(scen)] <= Sum1' /\ Sum1' <= 2 - Own1
      OBVIOUS
    <3>1. CASE PH(scen) \in todo[T1]
      <4>1. Sum1' = mem'[GH] + 1 - mem'[PH(scen)] - Own1
        BY <1>2, <1>7, <1>21, <3>1 DEF Count1Ok
      <4> QED BY <1>18, <2>1, <2>2, <4>1
    <3>2. CASE PH(scen) \notin todo[T1]
      <4>1. Sum1' = Sum1
        BY <1>18, <1>19, <1>20, <2>1, <3>2 DEF If
      <4>2. 2 - Own1 - mem[PH(scen)] <= Sum1 /\ Sum1 <= 2 - Own1
        BY DEF Inv, DroppingOk
      <4> QED BY <1>18, <1>20, <2>2, <4>1, <4>2
    <3> QED BY <3>1, <3>2
  <2>4. pc[T1] \in Counting /\ saw.fallback => mem'[PH(scen)] = mem[PH(scen)]
    <3> SUFFICES ASSUME pc[T1] \in Counting, saw.fallback PROVE mem'[PH(scen)] = mem[PH(scen)]
      OBVIOUS
    <3>1. ~Holds(T0) /\ AfterGp
      BY DEF Inv, LockOk, Holds, InLock, AfterGp, Counting
    <3>2. PH(scen) \in Pending(T0) => mem[PH(scen)] = 1
      BY <3>1 DEF Inv, LockOk, DroppingOk
    <3> QED BY <1>4, <3>2
  <2>5. pc[T1] \in Counting /\ saw.fallback => Sum1' = 1 - mem'[PH(scen)]
    <3> SUFFICES ASSUME pc[T1] \in Counting, saw.fallback PROVE Sum1' = 1 - mem'[PH(scen)]
      OBVIOUS
    <3>1. Sum1' = Sum1
      BY <1>18, <1>19, <1>20, <2>1, <2>4 DEF If
    <3> QED BY <2>4, <3>1 DEF Inv, DroppingOk
  <2> QED BY <1>2, <1>7, <2>2, <2>3, <2>5 DEF Inv, DroppingOk
<1>25. (mem'[GH] = mem[GH] /\ mem'[PH(scen)] = mem[PH(scen)]) => Sum1' = Sum1
  BY <1>18, <1>19, <1>20 DEF If
<1>26. KeptOk'
  <2> SUFFICES ASSUME IsWalk(scen), Kept PROVE KeptOk'
    BY <1>2, <1>7 DEF KeptOk
  <2>1. mem[GH] = 1 /\ ~Put0
    BY DEF Inv, WalkerOk, Kept, Put0
  <2>2. mem'[GH] = mem[GH] /\ mem'[PH(scen)] = mem[PH(scen)]
    BY <1>4, <1>8, <2>1 DEF First
  <2> QED BY <1>2, <1>7, <1>25, <2>2 DEF Inv, KeptOk
<1>27. SeenOk'
  <2> SUFFICES ASSUME scen = "D1", saw.ns2 = 1 PROVE SeenOk'
    BY <1>2 DEF SeenOk
  <2>1. ~Taking(scen) /\ ~IsWalk(scen) /\ mem[PH(scen)] = 1
    BY DEF Taking, IsWalk, Inv, SeenOk
  <2>2. mem'[GH] = mem[GH] /\ mem'[PH(scen)] = mem[PH(scen)]
    BY <1>4, <1>23, <2>1
  <2> QED BY <1>2, <1>25, <2>2 DEF Inv, SeenOk
<1> QED BY <1>5, <1>9, <1>10, <1>11, <1>12, <1>13, <1>14, <1>15, <1>16, <1>17, <1>21, <1>22, <1>24, <1>26, <1>27 DEF Inv

-----------------------------------------------------------------------------
(* The invariant holds                                                     *)

(* The invariant holds at the start.                                       *)
LEMMA InitInv == ASSUME Init PROVE Inv
<1>1. /\ scen \in Scenarios /\ First(scen) \in {0, 1} /\ First(scen) = IF IsWalk(scen) THEN 0 ELSE 1
      /\ PH(scen) \in Slots("puts") /\ {GH, GU, PU, PH(scen)} \subseteq AllSlots
      /\ GH # GU /\ GH # PH(scen) /\ GU # PH(scen) /\ GH # PU /\ GU # PU
  BY SlotsApart, AllLocations DEF Init, First
<1>2. /\ {GH, GU, PU, PH(scen), mnt_ns, flags, freed, mount_lock, mount_seq} \subseteq Locations
      /\ {mnt_ns, flags, freed, mount_lock, mount_seq} \cap AllSlots = {}
      /\ AllSlots \subseteq Locations
      /\ mnt_ns # flags /\ mnt_ns # freed /\ mnt_ns # mount_lock /\ mnt_ns # mount_seq
  BY <1>1, AllLocations, VarsApart
<1>3. mem = [l \in Locations |-> IF l \in {mnt_ns, GU} THEN 1
                                 ELSE IF l = GH /\ ~IsWalk(scen) THEN 1 ELSE 0]
  BY DEF Init, GU, GH
<1>4. \A l \in Locations : mem[l] \in {0, 1}
  BY <1>3
<1>5. /\ mem[GU] = 1 /\ mem[GH] = First(scen) /\ mem[PH(scen)] = 0 /\ mem[PU] = 0
      /\ \A l \in AllSlots \ {GU, GH} : mem[l] = 0
      /\ mem[mnt_ns] = 1 /\ mem[flags] = 0 /\ mem[freed] = 0 /\ mem[mount_lock] = 0 /\ mem[mount_seq] = 0
  BY <1>1, <1>2, <1>3
<1>6. MemOk
  <2>1. mem \in [Locations -> Nat]
    BY <1>3
  <2> QED BY <1>1, <1>5, <2>1 DEF MemOk
<1>7. buf = [t \in Threads |-> <<>>] /\ \A t \in Threads : buf[t] = <<>> /\ DOMAIN buf[t] = {} /\ Pending(t) = {}
  <2>1. buf = [t \in Threads |-> <<>>]
    BY DEF Init
  <2>2. DOMAIN (<<>>) = {}
    OBVIOUS
  <2> QED BY <2>1, <2>2 DEF Pending
<1>8. BufOk /\ UnlockLast /\ GetFirst
  <2>1. <<>> \in Seq(Entries)
    OBVIOUS
  <2> QED BY <1>7, <2>1, ThreadsAre DEF BufOk, UnlockLast, GetFirst
<1>9. /\ pc = [t \in Threads |-> pc[t]] /\ pc[T1] = "unmount"
      /\ pc[T0] = IF IsWalk(scen) THEN "walker" ELSE "holder"
  BY ThreadsAre DEF Init
<1>10. /\ in_rcu \in [Threads -> BOOLEAN] /\ todo = [t \in Threads |-> {}] /\ sum = [t \in Threads |-> 0]
       /\ saw.path = [t \in Threads |-> "none"] /\ saw.slow = [t \in Threads |-> 0]
       /\ saw.ns2 = 0 /\ saw.peek = 0 /\ saw.fallback = FALSE /\ saw.res = 1 /\ saw.r1 = FALSE /\ saw.r2 = FALSE
       /\ saw.flags = 0
  BY DEF Init
<1>11. saw \in Sights
  BY DEF Init, Sights, Slow
<1>12. ShapeOk
  BY <1>1, <1>9, <1>10, <1>11 DEF ShapeOk
<1>13. saw.path[T0] = "none" /\ saw.path[T1] = "none"
  BY <1>10, ThreadsAre
<1>14. LockOk
  BY <1>5, <1>7, <1>9, ThreadsAre DEF LockOk, Holds, InLock, Counting
<1>15. ~Put0 /\ ~Put1 /\ ~Final0 /\ ~Final1 /\ ~Kept /\ pc[T0] \notin Counting /\ pc[T1] \notin Counting
  BY <1>9, <1>10, <1>13 DEF Put0, Put1, Final0, Final1, Kept, Ended, Counting
<1>16. T1Ok
  BY <1>5, <1>7, <1>9, <1>10, <1>13, <1>15, ThreadsAre DEF T1Ok, Late, Counting
<1>17. T0Ok
  BY <1>5, <1>7, <1>9, <1>15, ThreadsAre DEF T0Ok, WalkerPcs, HolderPcs
<1>18. HolderOk
  BY <1>1, <1>5, <1>7, <1>9, <1>10, <1>13, <1>15, ThreadsAre DEF HolderOk, Slow, Counting
<1>19. WalkerOk
  BY <1>1, <1>5, <1>7, <1>9, <1>10, <1>13, <1>15, ThreadsAre DEF WalkerOk, Ended
<1>20. FreeOk
  BY <1>5, <1>7, <1>15, ThreadsAre DEF FreeOk
<1>21. CountOk /\ Count0Ok /\ Count1Ok /\ Gets1Ok
  <2>1. \A t \in Threads : sum[t] \in Int /\ pc[t] \notin Counting
    BY <1>10, <1>15, ThreadsAre
  <2>2. \A t \in Threads : pc[t] # "counted"
    BY <2>1 DEF Counting
  <2> QED BY <1>15, <2>1, <2>2 DEF CountOk, Count0Ok, Count1Ok, Gets1Ok
<1>22. TakingOk /\ KeptOk
  BY <1>5, <1>8, <1>15 DEF TakingOk, KeptOk
<1>23. DroppingOk
  BY <1>9, <1>10, <1>15 DEF DroppingOk, AfterGp
<1>24. SeenOk
  BY <1>10 DEF SeenOk
<1> QED BY <1>6, <1>8, <1>12, <1>14, <1>16, <1>17, <1>18, <1>19, <1>20, <1>21, <1>22, <1>23, <1>24 DEF Inv

(* It is kept when nothing changes.                                        *)
LEMMA Rests == ASSUME Inv, UNCHANGED vars PROVE Inv'
BY DEF vars, Inv, ShapeOk, BufOk, MemOk, LockOk, UnlockLast, T1Ok, T0Ok, HolderOk, WalkerOk, FreeOk,
       CountOk, Count0Ok, Count1Ok, Gets1Ok, TakingOk, DroppingOk, KeptOk, SeenOk, Holds, InLock, Pending,
       Put0, Put1, Final0, Final1, Kept, Ended, Sum0, Sum1, Own1, AfterGp, GetFirst

(* Every step of the holder, the walker, the unmounter and the buffers     *)
(* keeps the invariant.                                                    *)
LEMMA InvHolds == Spec => []Inv
<1>1. Inv /\ [Next]_vars => Inv'
  <2> SUFFICES ASSUME Inv, [Next]_vars PROVE Inv'
    OBVIOUS
  <2>1. CASE holder \/ walker
    BY <2>1, T0Steps
  <2>2. CASE unmounter
    BY <2>2, T1Steps
  <2>3. CASE \E t \in Threads : Drain(t)
    BY <2>3, DrainSteps
  <2>4. CASE Finished \/ UNCHANGED vars
    BY <2>4, Rests DEF Finished
  <2> QED BY <2>1, <2>2, <2>3, <2>4 DEF Next
<1> QED BY <1>1, InitInv, PTL DEF Spec

-----------------------------------------------------------------------------
(* The assertions                                                          *)

(* MNT-A1, A1MIG, C1: the mount is never finished under a holder that took *)
(* and dropped an extra reference: the slow puts find the count positive,  *)
(* as the put_barrier keeps the put behind the get in memory.              *)
THEOREM HeldCorrect == Spec => []HeldIsNotFreed
<1>1. Inv => HeldIsNotFreed
  BY DEF HeldIsNotFreed, Inv, TakingOk, FreeOk, Taking
<1> QED BY <1>1, InvHolds, PTL

(* After the joins every store is in memory.                               *)
LEMMA JoinedPending ==
  ASSUME Joined PROVE Pending(T0) = {} /\ Pending(T1) = {} /\ pc[T0] = "done" /\ pc[T1] = "done"
BY Barrier, ThreadsAre DEF Joined, Drained, At

(* MNT-A2, C2: the slow put after synchronize_rcu() misses no put of the   *)
(* fast path, so of the two puts exactly one finishes the mount.           *)
THEOREM PutCorrect == Spec => []NoPutIsMissed
<1>1. Inv => NoPutIsMissed
  <2> SUFFICES ASSUME Inv, Dropping(scen), Joined
               PROVE  /\ ~(saw.path[T0] = "fast" /\ saw.fallback /\ saw.slow[T1] # 0)
                      /\ mem[freed] = 1
    BY DEF NoPutIsMissed, Dropping
  <2>1. Put0 /\ ~IsWalk(scen) /\ scen # "D1" /\ pc[T1] = "done" /\ pc[T0] \notin Counting
    BY JoinedPending DEF Put0, IsWalk, Dropping, Counting
  <2>2. Final0 \/ Final1
    BY <2>1 DEF Inv, DroppingOk
  <2>3. mem[freed] = 1
    BY <2>2, JoinedPending DEF Inv, FreeOk, MemOk
  <2>4. saw.path[T0] = "fast" /\ saw.fallback => saw.slow[T1] = 0
    BY <2>1, <2>2 DEF Inv, T1Ok, Final0, Final1
  <2> QED BY <2>3, <2>4
<1> QED BY <1>1, InvHolds, PTL

(* MNT-B1: a walker that got its reference in __legitimize_mnt() was       *)
(* counted by the look of the unmounter, which then did not finish the     *)
(* mount: each has a full barrier between its store and its load.          *)
THEOREM LegitimizedCorrect == Spec => []LegitimizedIsNotFreed
<1>1. Inv => LegitimizedIsNotFreed
  BY DEF LegitimizedIsNotFreed, Inv, KeptOk, FreeOk, WalkerOk, IsWalk, Kept, Final0
<1> QED BY <1>1, InvHolds, PTL

(* MNT-B2: a walker that saw the sequence count change and found no        *)
(* MNT_DOOMED under mount_lock was counted by the unmounter.               *)
THEOREM BailedCorrect == Spec => []BailedSeesDoomed
<1>1. Inv => BailedSeesDoomed
  <2> SUFFICES ASSUME Inv, scen = "B2", Joined, saw.r2, saw.flags = 0 PROVE mem[freed] # 1
    BY DEF BailedSeesDoomed
  <2>1. IsWalk(scen) /\ Kept
    BY JoinedPending DEF IsWalk, Kept, Ended
  <2> QED BY <2>1 DEF Inv, KeptOk, FreeOk, WalkerOk, Final0
<1> QED BY <1>1, InvHolds, PTL

(* MNT-D1: a holder that still sees mnt_ns after its put has its put       *)
(* counted by the unmounter's look: each stores, has a full barrier and    *)
(* then loads.                                                             *)
THEOREM RecheckCorrect == Spec => []RecheckOrSeen
<1>1. Inv => RecheckOrSeen
  BY DEF RecheckOrSeen, Inv, SeenOk
<1> QED BY <1>1, InvHolds, PTL

==============================================================================
