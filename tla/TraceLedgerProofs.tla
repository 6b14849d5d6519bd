------------------------- MODULE TraceLedgerProofs -------------------------
(***************************************************************************)
(* The converted trace, for any pids and a log of any length.  What the    *)
(* kernel does is counted from the log (Balance, SumAt); what the converter *)
(* makes of it follows each pid's ledger from event to event (LInv), and   *)
(* the ledgers are put together and pruned at the end.                     *)
(***************************************************************************)
EXTENDS TraceLedger, FiniteSetTheorems, SequenceTheorems, TLAPS

Dense(ls, lk) == {lk[i] : i \in ls} = 1 .. Cardinality(ls) /\ \A i, j \in ls : i < j => lk[i] < lk[j]

(* The ranks of some events are without gaps and in the events' order.     *)
LEMMA RanksDense ==
  ASSUME NEW out, out \subseteq DOMAIN log, DOMAIN log \subseteq Nat, IsFiniteSet(DOMAIN log),
         NEW lk, lk = Ranks(out),
         NEW ls, ls = {i \in out : locked(log[i])}
  PROVE  Dense(ls, lk)
<1> DEFINE Upto(i) == {j \in ls : j <= i}
<1>1. IsFiniteSet(ls) /\ Cardinality(ls) \in Nat /\ ls \subseteq Nat
  BY FS_Subset, FS_CardinalityType
<1>2. \A i \in ls : lk[i] = Cardinality(Upto(i))
  <2> SUFFICES ASSUME NEW i \in ls PROVE lk[i] = Cardinality(Upto(i))
    OBVIOUS
  <2>1. {j \in out : j <= i /\ locked(log[j])} = Upto(i)
    OBVIOUS
  <2> QED BY <2>1 DEF Ranks
<1>3. \A i \in ls : lk[i] \in 1 .. Cardinality(ls)
  <2> SUFFICES ASSUME NEW i \in ls PROVE lk[i] \in 1 .. Cardinality(ls)
    OBVIOUS
  <2>1. Upto(i) \subseteq ls /\ i \in Upto(i)
    BY <1>1
  <2>2. /\ IsFiniteSet(Upto(i)) /\ Cardinality(Upto(i)) \in Nat
        /\ Cardinality(Upto(i)) <= Cardinality(ls)
        /\ Cardinality(Upto(i)) # 0
    BY <1>1, <2>1, FS_Subset, FS_CardinalityType, FS_EmptySet
  <2> QED BY <1>1, <1>2, <2>2
<1>4. \A i, j \in ls : i < j => lk[i] < lk[j]
  <2> SUFFICES ASSUME NEW i \in ls, NEW j \in ls, i < j PROVE lk[i] < lk[j]
    OBVIOUS
  <2>1. Upto(i) \subseteq Upto(j) /\ j \in Upto(j) /\ j \notin Upto(i) /\ Upto(j) \subseteq ls
    BY <1>1
  <2>2. IsFiniteSet(Upto(j)) /\ Cardinality(Upto(j)) \in Nat
    BY <1>1, <2>1, FS_Subset, FS_CardinalityType
  <2>3. /\ Cardinality(Upto(i)) \in Nat /\ Cardinality(Upto(i)) <= Cardinality(Upto(j))
        /\ Cardinality(Upto(i)) # Cardinality(Upto(j))
    <3> HIDE DEF Upto
    <3> QED BY <2>1, <2>2, FS_Subset, FS_CardinalityType
  <2> QED BY <1>2, <2>2, <2>3
<1>5. {lk[i] : i \in ls} = 1 .. Cardinality(ls)
  <2> DEFINE N == 1 .. Cardinality(ls)
             rank == [i \in ls |-> lk[i]]
  <2>1. rank \in [ls -> N] /\ \A i, j \in ls : i # j => rank[i] # rank[j]
    <3> SUFFICES ASSUME NEW i \in ls, NEW j \in ls, i # j PROVE lk[i] # lk[j]
      BY <1>3
    <3>1. i < j \/ j < i
      BY <1>1
    <3> QED BY <1>3, <1>4, <3>1
  <2>2. rank \in Injection(ls, N)
    <3> HIDE DEF rank, N
    <3> QED BY <2>1 DEF Injection, IsInjective
  <2>3. IsFiniteSet(N) /\ Cardinality(N) = Cardinality(ls)
    BY <1>1, FS_Interval
  <2>4. rank \in Surjection(ls, N)
    <3> HIDE DEF rank, N
    <3> QED BY <2>2, <2>3, FS_Injection
  <2>5. \A n \in N : \E i \in ls : rank[i] = n
    <3> HIDE DEF rank, N
    <3> QED BY <2>4 DEF Surjection
  <2> QED BY <1>3, <2>5
<1> QED BY <1>4, <1>5 DEF Dense

-----------------------------------------------------------------------------
(* Counting                                                                *)

(* Every set of naturals that has an element has a least one.              *)
LEMMA LeastNumber ==
  ASSUME NEW T, T \subseteq Nat, T # {}
  PROVE  \E n \in T : \A m \in T : n <= m
<1>1. PICK n \in T : \A m \in T : ~(<<m, n>> \in OpToRel(<, Nat))
  BY NatLessThanWellFounded, WFMin
<1>2. \A m \in T : ~(m < n)
  BY <1>1 DEF OpToRel
<1>3. \A m \in T : n <= m
  <2> SUFFICES ASSUME NEW m \in T PROVE n <= m
    OBVIOUS
  <2>1. m \in Nat /\ n \in Nat
    OBVIOUS
  <2> QED BY <1>2, <2>1
<1> QED BY <1>3

(* A set with zero that has the next number of each of its numbers up to N *)
(* has all numbers up to N.                                                *)
LEMMA Inductive ==
  ASSUME NEW N \in Nat, NEW T, 0 \in T, \A n \in 0 .. N : n # N /\ n \in T => n + 1 \in T
  PROVE  0 .. N \subseteq T
<1>1. SUFFICES ASSUME 0 .. N \ T # {} PROVE FALSE
  OBVIOUS
<1>2. PICK n \in 0 .. N \ T : \A m \in 0 .. N \ T : n <= m
  <2>1. 0 .. N \ T \subseteq Nat
    OBVIOUS
  <2> QED BY <1>1, <2>1, LeastNumber
<1>3. n \in Nat /\ n # 0 /\ n - 1 \in 0 .. N /\ n - 1 # N /\ n - 1 \in T
  BY <1>2
<1> QED BY <1>2, <1>3

(* A family of subsets of a finite set that has the empty one, and each of *)
(* its sets with one element more, has the whole set.                      *)
LEMMA GrowingSets ==
  ASSUME NEW S, IsFiniteSet(S), NEW F, F \subseteq SUBSET S, {} \in F,
         \A Q \in F : \A x \in S \ Q : Q \cup {x} \in F
  PROVE  S \in F
<1> DEFINE T == {Cardinality(S \ Q) : Q \in F}
<1>1. \A Q \in F : IsFiniteSet(S \ Q) /\ Cardinality(S \ Q) \in Nat
  BY FS_Difference, FS_CardinalityType
<1>2. PICK Q \in F : \A R \in F : Cardinality(S \ Q) <= Cardinality(S \ R)
  <2>1. T \subseteq Nat /\ T # {}
    BY <1>1
  <2>2. PICK n \in T : \A m \in T : n <= m
    <3> HIDE DEF T
    <3> QED BY <2>1, LeastNumber
  <2> QED BY <2>2
<1>3. CASE S \ Q = {}
  <2>1. Q = S
    BY <1>3
  <2> QED BY <2>1
<1>4. CASE S \ Q # {}
  <2>1. PICK x : x \in S \ Q
    BY <1>4
  <2>2. Q \cup {x} \in F /\ S \ (Q \cup {x}) = (S \ Q) \ {x}
    BY <2>1
  <2>3. Cardinality((S \ Q) \ {x}) = Cardinality(S \ Q) - 1
    BY <1>1, <2>1, FS_RemoveElement
  <2> QED BY <1>1, <1>2, <2>2, <2>3
<1> QED BY <1>3, <1>4

(* The number of elements of a union without overlap, and of what is left  *)
(* of a set when a part of it is taken away.                               *)
LEMMA Apart ==
  ASSUME NEW S, NEW T, IsFiniteSet(S), IsFiniteSet(T), S \cap T = {}
  PROVE  /\ IsFiniteSet(S \cup T)
         /\ Cardinality(S \cup T) = Cardinality(S) + Cardinality(T)
         /\ Cardinality(S) \in Nat /\ Cardinality(T) \in Nat
BY FS_Union, FS_EmptySet, FS_CardinalityType

LEMMA PartTaken ==
  ASSUME NEW S, NEW T, IsFiniteSet(S), T \subseteq S
  PROVE  /\ IsFiniteSet(T) /\ IsFiniteSet(S \ T)
         /\ Cardinality(S \ T) = Cardinality(S) - Cardinality(T)
         /\ Cardinality(S) \in Nat /\ Cardinality(T) \in Nat /\ Cardinality(S \ T) \in Nat
<1>1. IsFiniteSet(T) /\ IsFiniteSet(S \ T)
  BY FS_Subset
<1>2. (S \ T) \cup T = S /\ (S \ T) \cap T = {}
  OBVIOUS
<1>3. /\ Cardinality((S \ T) \cup T) = Cardinality(S \ T) + Cardinality(T)
      /\ Cardinality(S \ T) \in Nat /\ Cardinality(T) \in Nat
  <2>1. (S \ T) \cap T = {}
    OBVIOUS
  <2> QED BY <1>1, <2>1, Apart
<1>4. Cardinality(S) \in Nat
  BY FS_CardinalityType
<1>5. Cardinality(S) = Cardinality(S \ T) + Cardinality(T)
  BY <1>2, <1>3, Zenon
<1> QED BY <1>1, <1>3, <1>4, <1>5

-----------------------------------------------------------------------------
(* The events                                                              *)

Events ==
    [ev : {"legitimize", "get", "put_fast", "slowpath", "umount_tree", "caller_drop", "peek", "gp",
           "final", "cleanup", "free"},
     pid : Pids, result : {-1, 0, 1}, count : Int, flag : BOOLEAN]

(* The count after an event.                                               *)
SumAt(i) ==
    1 + Cardinality({p \in Pids : before[p] = 1}) + Cardinality(Acqs(Pids, i)) - Cardinality(Rels(Pids, i))
      - (IF NsPutAt \in 1 .. i THEN 1 ELSE 0)

LEMMA LogFacts ==
  ASSUME log \in Seq(Events)
  PROVE  /\ Len(log) \in Nat /\ DOMAIN log = 1 .. Len(log) /\ IsFiniteSet(DOMAIN log)
         /\ \A i \in DOMAIN log : i \in Nat /\ i # 0 /\ log[i] \in Events
<1>1. Len(log) \in Nat /\ DOMAIN log = 1 .. Len(log)
  BY LenProperties
<1>2. \A i \in DOMAIN log : log[i] \in Events
  BY <1>1, ElementOfSeq
<1>3. IsFiniteSet(DOMAIN log)
  BY <1>1, FS_Interval
<1> QED BY <1>1, <1>2, <1>3

LEMMA Grown ==
  ASSUME log \in Seq(Events), NEW e \in Events, log' = Append(log, e)
  PROVE  /\ log' \in Seq(Events)
         /\ Len(log) \in Nat /\ DOMAIN log = 1 .. Len(log)
         /\ Len(log') = Len(log) + 1 /\ DOMAIN log' = DOMAIN log \cup {Len(log) + 1}
         /\ \A i \in DOMAIN log : log'[i] = log[i]
         /\ log'[Len(log) + 1] = e
         /\ \A i \in DOMAIN log : i \in Nat /\ i # 0 /\ i <= Len(log) /\ log[i] \in Events
<1>1. Len(log) \in Nat /\ DOMAIN log = 1 .. Len(log) /\ \A i \in DOMAIN log : log[i] \in Events
  BY LogFacts
<1>2. /\ log' \in Seq(Events) /\ Len(log') = Len(log) + 1
      /\ \A i \in 1 .. Len(log) : log'[i] = log[i]
      /\ log'[Len(log) + 1] = e
  BY AppendProperties
<1>3. DOMAIN log' = 1 .. Len(log) + 1
  BY <1>2, LenProperties
<1> QED BY <1>1, <1>2, <1>3

(* What one event changes of the counts.                                   *)
LEMMA CountStep ==
  ASSUME log \in Seq(Events), NEW P, NEW i \in DOMAIN log
  PROVE  /\ Cardinality(Acqs(P, i)) = Cardinality(Acqs(P, i - 1))
              + (IF log[i].pid \in P /\ Acquires(log[i]) THEN 1 ELSE 0)
         /\ Cardinality(Rels(P, i)) = Cardinality(Rels(P, i - 1))
              + (IF log[i].pid \in P /\ Releases(log[i]) /\ i # NsPutAt THEN 1 ELSE 0)
<1>1. /\ Len(log) \in Nat /\ DOMAIN log = 1 .. Len(log) /\ IsFiniteSet(DOMAIN log)
  BY LogFacts
<1>2. /\ IsFiniteSet(Acqs(P, i - 1)) /\ Acqs(P, i - 1) \subseteq DOMAIN log /\ i \notin Acqs(P, i - 1)
      /\ IsFiniteSet(Rels(P, i - 1)) /\ Rels(P, i - 1) \subseteq DOMAIN log /\ i \notin Rels(P, i - 1)
  <2>1. Acqs(P, i - 1) \subseteq DOMAIN log /\ Rels(P, i - 1) \subseteq DOMAIN log
    BY DEF Acqs, Rels
  <2>2. i \notin Acqs(P, i - 1) /\ i \notin Rels(P, i - 1)
    BY <1>1 DEF Acqs, Rels
  <2> QED BY <1>1, <2>1, <2>2, FS_Subset
<1>3. /\ Cardinality(Acqs(P, i - 1)) \in Nat /\ Cardinality(Rels(P, i - 1)) \in Nat
      /\ Cardinality(Acqs(P, i - 1) \cup {i}) = Cardinality(Acqs(P, i - 1)) + 1
      /\ Cardinality(Rels(P, i - 1) \cup {i}) = Cardinality(Rels(P, i - 1)) + 1
  BY <1>2, FS_CardinalityType, FS_AddElement
<1>4. Acqs(P, i) = IF log[i].pid \in P /\ Acquires(log[i]) THEN Acqs(P, i - 1) \cup {i} ELSE Acqs(P, i - 1)
  BY <1>1 DEF Acqs
<1>5. Rels(P, i) = IF log[i].pid \in P /\ Releases(log[i]) /\ i # NsPutAt THEN Rels(P, i - 1) \cup {i} ELSE Rels(P, i - 1)
  BY <1>1 DEF Rels
<1> QED BY <1>3, <1>4, <1>5

LEMMA Counts ==
  ASSUME log \in Seq(Events), NEW P, NEW i
  PROVE  /\ IsFiniteSet(Acqs(P, i)) /\ Cardinality(Acqs(P, i)) \in Nat
         /\ IsFiniteSet(Rels(P, i)) /\ Cardinality(Rels(P, i)) \in Nat
         /\ i = 0 => Cardinality(Acqs(P, i)) = 0 /\ Cardinality(Rels(P, i)) = 0
<1>1. IsFiniteSet(DOMAIN log) /\ \A j \in DOMAIN log : j \in Nat /\ j # 0
  BY LogFacts
<1>2. Acqs(P, i) \subseteq DOMAIN log /\ Rels(P, i) \subseteq DOMAIN log
  BY DEF Acqs, Rels
<1>3. i = 0 => Acqs(P, i) = {} /\ Rels(P, i) = {}
  BY <1>1 DEF Acqs, Rels
<1> QED BY <1>1, <1>2, <1>3, FS_Subset, FS_CardinalityType, FS_EmptySet

(* What one event changes of the references and of the count.              *)
LEMMA BalanceStep ==
  ASSUME log \in Seq(Events), before \in [Pids -> 0 .. 1], NEW p \in Pids, NEW i \in DOMAIN log
  PROVE  /\ Balance(p, i) \in Int /\ Balance(p, i - 1) \in Int
         /\ Balance(p, i) = Balance(p, i - 1)
              + (IF log[i].pid # p THEN 0
                 ELSE IF Acquires(log[i]) THEN 1
                 ELSE IF Releases(log[i]) /\ i # NsPutAt THEN -1 ELSE 0)
<1>1. /\ Cardinality(Acqs({p}, i)) \in Nat /\ Cardinality(Acqs({p}, i - 1)) \in Nat
      /\ Cardinality(Rels({p}, i)) \in Nat /\ Cardinality(Rels({p}, i - 1)) \in Nat
  BY Counts
<1>2. /\ Cardinality(Acqs({p}, i)) = Cardinality(Acqs({p}, i - 1))
              + (IF log[i].pid = p /\ Acquires(log[i]) THEN 1 ELSE 0)
      /\ Cardinality(Rels({p}, i)) = Cardinality(Rels({p}, i - 1))
              + (IF log[i].pid = p /\ Releases(log[i]) /\ i # NsPutAt THEN 1 ELSE 0)
  <2>1. log[i].pid \in {p} <=> log[i].pid = p
    OBVIOUS
  <2> QED BY <2>1, CountStep
<1>3. ~(Acquires(log[i]) /\ Releases(log[i]))
  BY DEF Acquires, Releases, is_put
<1> DEFINE a  == Cardinality(Acqs({p}, i))
           b  == Cardinality(Acqs({p}, i - 1))
           r  == Cardinality(Rels({p}, i))
           s  == Cardinality(Rels({p}, i - 1))
           h  == Balance(p, i)
           g  == Balance(p, i - 1)
<1>4. before[p] \in Nat /\ h = before[p] + a - r /\ g = before[p] + b - s
  BY DEF Balance
<1> HIDE DEF a, b, r, s, h, g
<1>5. a \in Nat /\ b \in Nat /\ r \in Nat /\ s \in Nat
  BY <1>1 DEF a, b, r, s
<1>6. h \in Int /\ g \in Int
  BY <1>4, <1>5
<1>7. CASE log[i].pid = p /\ Acquires(log[i])
  <2>1. a = b + 1 /\ r = s
    BY <1>2, <1>3, <1>5, <1>7 DEF a, b, r, s
  <2>2. h = g + 1
    BY <1>4, <1>5, <2>1
  <2> QED BY <1>6, <1>7, <2>2 DEF h, g
<1>8. CASE log[i].pid = p /\ ~Acquires(log[i]) /\ Releases(log[i]) /\ i # NsPutAt
  <2>1. a = b /\ r = s + 1
    BY <1>2, <1>5, <1>8 DEF a, b, r, s
  <2>2. h = g + -1
    BY <1>4, <1>5, <2>1
  <2> QED BY <1>6, <1>8, <2>2 DEF h, g
<1>9. CASE log[i].pid # p \/ (~Acquires(log[i]) /\ ~(Releases(log[i]) /\ i # NsPutAt))
  <2>1. a = b /\ r = s
    BY <1>2, <1>5, <1>9 DEF a, b, r, s
  <2>2. h = g + 0
    BY <1>4, <1>5, <2>1
  <2> QED BY <1>6, <1>9, <2>2 DEF h, g
<1> QED BY <1>7, <1>8, <1>9

LEMMA SumStep ==
  ASSUME log \in Seq(Events), NEW i \in DOMAIN log, i = NsPutAt => Releases(log[i])
  PROVE  /\ SumAt(i) \in Int /\ SumAt(i - 1) \in Int
         /\ SumAt(i) = SumAt(i - 1)
              + (IF Acquires(log[i]) THEN 1
                 ELSE IF Releases(log[i]) \/ i = NsPutAt THEN -1 ELSE 0)
<1>1. /\ Cardinality(Acqs(Pids, i)) \in Nat /\ Cardinality(Acqs(Pids, i - 1)) \in Nat
      /\ Cardinality(Rels(Pids, i)) \in Nat /\ Cardinality(Rels(Pids, i - 1)) \in Nat
  BY Counts
<1>2. log[i].pid \in Pids /\ Len(log) \in Nat /\ i \in 1 .. Len(log)
  BY LogFacts DEF Events
<1>3. /\ Cardinality(Acqs(Pids, i)) = Cardinality(Acqs(Pids, i - 1)) + (IF Acquires(log[i]) THEN 1 ELSE 0)
      /\ Cardinality(Rels(Pids, i)) = Cardinality(Rels(Pids, i - 1))
              + (IF Releases(log[i]) /\ i # NsPutAt THEN 1 ELSE 0)
  BY <1>2, CountStep
<1> DEFINE b == Cardinality({p \in Pids : before[p] = 1})
           n(k) == IF NsPutAt \in 1 .. k THEN 1 ELSE 0
<1>4. b \in Nat
  BY TraceLedgerAssumption, FS_Subset, FS_CardinalityType DEF TraceLedgerAssumption
<1>5. ~(Acquires(log[i]) /\ Releases(log[i]))
  BY DEF Acquires, Releases, is_put
<1>6. NsPutAt \in 1 .. i <=> NsPutAt \in 1 .. (i - 1) \/ i = NsPutAt
  BY <1>2
<1>7. i = NsPutAt => NsPutAt \notin 1 .. (i - 1)
  BY <1>2
<1>8. /\ SumAt(i) = 1 + b + Cardinality(Acqs(Pids, i)) - Cardinality(Rels(Pids, i)) - n(i)
      /\ SumAt(i - 1) = 1 + b + Cardinality(Acqs(Pids, i - 1)) - Cardinality(Rels(Pids, i - 1)) - n(i - 1)
  BY DEF SumAt
<1>9. n(i) = n(i - 1) + (IF i = NsPutAt THEN 1 ELSE 0) /\ n(i - 1) \in Nat
  BY <1>6, <1>7
<1> HIDE DEF b, n
<1>10. SumAt(i) \in Int /\ SumAt(i - 1) \in Int
  BY <1>1, <1>4, <1>8, <1>9
<1>11. CASE Acquires(log[i])
  BY <1>1, <1>3, <1>4, <1>5, <1>8, <1>9, <1>10, <1>11
<1>12. CASE i = NsPutAt /\ ~Acquires(log[i])
  BY <1>1, <1>3, <1>4, <1>8, <1>9, <1>10, <1>12
<1>13. CASE i # NsPutAt /\ ~Acquires(log[i]) /\ Releases(log[i])
  BY <1>1, <1>3, <1>4, <1>8, <1>9, <1>10, <1>13
<1>14. CASE ~Acquires(log[i]) /\ ~(Releases(log[i]) \/ i = NsPutAt)
  BY <1>1, <1>3, <1>4, <1>5, <1>8, <1>9, <1>10, <1>14
<1> QED BY <1>10, <1>11, <1>12, <1>13, <1>14

(* The slow paths of the umounter after its grace period.                  *)
GpOver == \E j \in DOMAIN log : log[j].ev = "gp" /\ log[j].flag
NsPuts ==
    {i \in DOMAIN log : /\ log[i].ev = "slowpath" /\ log[i].pid = U
                        /\ \E j \in DOMAIN log : j < i /\ log[j].ev = "gp" /\ log[j].flag}

(* The mount is unmounted once, by U, before anything that needs it.       *)
Unmounting ==
    /\ um = "mounted" <=> At("umount_tree") = {}
    /\ \A i, j \in At("umount_tree") : i = j /\ log[i].pid = U
    /\ \A i \in DOMAIN log : log[i].ev \in {"slowpath", "peek", "caller_drop", "cleanup"}
         => \E u \in At("umount_tree") : u < i

NsPutFirst ==
    /\ NsPuts = {} => NsPutAt = 0
    /\ NsPuts # {} => NsPutAt \in NsPuts /\ NsPutAt # 0 /\ \A j \in NsPuts : NsPutAt <= j

LEMMA NsPutIs == log \in Seq(Events) /\ Unmounting => NsPutFirst
<1> SUFFICES ASSUME log \in Seq(Events), Unmounting PROVE NsPutFirst
  OBVIOUS
<1> DEFINE after == {i \in At("slowpath") : log[i].pid = log[Ut].pid /\ \E j \in At("gp") : j < i /\ log[j].flag}
<1>1. NsPutAt = IF after = {} THEN 0 ELSE Min(after)
  BY DEF NsPutAt
<1>2. after = NsPuts
  <2>1. ASSUME NEW i \in At("slowpath") PROVE log[Ut].pid = U
    <3>1. PICK u : u \in At("umount_tree")
      BY <2>1 DEF Unmounting, At
    <3>2. Ut \in At("umount_tree")
      BY <3>1 DEF Ut
    <3> QED BY <3>2 DEF Unmounting
  <2> QED BY <2>1 DEF NsPuts, At
<1>3. NsPuts # {} => Min(NsPuts) \in NsPuts /\ \A j \in NsPuts : Min(NsPuts) <= j
  <2> SUFFICES ASSUME NsPuts # {} PROVE Min(NsPuts) \in NsPuts /\ \A j \in NsPuts : Min(NsPuts) <= j
    OBVIOUS
  <2>1. NsPuts \subseteq Nat
    BY LogFacts DEF NsPuts
  <2>2. \E n \in NsPuts : \A m \in NsPuts : n <= m
    BY <2>1, LeastNumber
  <2> QED BY <2>2 DEF Min
<1>4. \A i \in NsPuts : i # 0
  BY LogFacts DEF NsPuts
<1> HIDE DEF after
<1> QED BY <1>1, <1>2, <1>3, <1>4 DEF NsPutFirst

(* How the namespace's put is recognized as the log grows.                 *)
LEMMA NsPutGrown ==
  ASSUME log \in Seq(Events), NEW e \in Events, log' = Append(log, e), Unmounting, Unmounting'
  PROVE  /\ GpOver' <=> GpOver \/ (e.ev = "gp" /\ e.flag)
         /\ NsPuts' = IF e.ev = "slowpath" /\ e.pid = U /\ GpOver THEN NsPuts \cup {Len(log) + 1} ELSE NsPuts
         /\ NsPuts # {} => NsPutAt' = NsPutAt /\ NsPutAt \in DOMAIN log
         /\ NsPuts = {} => NsPutAt = 0 /\ NsPutAt' = IF NsPuts' = {} THEN 0 ELSE Len(log) + 1
<1>1. /\ log' \in Seq(Events)
      /\ Len(log) \in Nat /\ DOMAIN log = 1 .. Len(log) /\ DOMAIN log' = DOMAIN log \cup {Len(log) + 1}
      /\ \A i \in DOMAIN log : log'[i] = log[i]
      /\ log'[Len(log) + 1] = e
  BY Grown
<1>2. GpOver' <=> GpOver \/ (e.ev = "gp" /\ e.flag)
  BY <1>1 DEF GpOver
<1>3. NsPuts' = IF e.ev = "slowpath" /\ e.pid = U /\ GpOver THEN NsPuts \cup {Len(log) + 1} ELSE NsPuts
  BY <1>1 DEF GpOver, NsPuts
<1>4. NsPutFirst
  BY NsPutIs
<1>5. NsPutFirst'
  <2>1. (log \in Seq(Events) /\ Unmounting => NsPutFirst)'
    BY NsPutIs, PTL
  <2> QED BY <1>1, <2>1
<1>6. NsPuts \subseteq DOMAIN log
  BY DEF NsPuts
<1>7. ASSUME NsPuts # {} PROVE NsPutAt' = NsPutAt /\ NsPutAt \in DOMAIN log
  BY <1>1, <1>3, <1>4, <1>5, <1>6, <1>7 DEF NsPutFirst
<1>8. ASSUME NsPuts = {} PROVE NsPutAt = 0 /\ NsPutAt' = IF NsPuts' = {} THEN 0 ELSE Len(log) + 1
  BY <1>1, <1>3, <1>4, <1>5, <1>8 DEF NsPutFirst
<1> QED BY <1>2, <1>3, <1>7, <1>8

(* The counts of the events so far do not change.                          *)
LEMMA CountsStay ==
  ASSUME log \in Seq(Events), NEW e \in Events, log' = Append(log, e), before' = before,
         Unmounting, Unmounting'
  PROVE  /\ \A i \in 0 .. Len(log) : SumAt(i)' = SumAt(i)
         /\ \A p \in Pids : \A i \in 0 .. Len(log) : Balance(p, i)' = Balance(p, i)
<1>1. /\ Len(log) \in Nat /\ DOMAIN log = 1 .. Len(log) /\ DOMAIN log' = DOMAIN log \cup {Len(log) + 1}
      /\ \A i \in DOMAIN log : log'[i] = log[i]
  BY Grown
<1>2. \A j \in 1 .. Len(log) : j = NsPutAt' <=> j = NsPutAt
  BY <1>1, NsPutGrown
<1>3. ASSUME NEW P, NEW i \in 0 .. Len(log)
      PROVE  Acqs(P, i)' = Acqs(P, i) /\ Rels(P, i)' = Rels(P, i)
  <2>1. i < Len(log) + 1 /\ \A j \in DOMAIN log' : j <= i => j \in DOMAIN log
    BY <1>1
  <2>2. \A j \in DOMAIN log : j # NsPutAt' <=> j # NsPutAt
    BY <1>1, <1>2
  <2>3. Acqs(P, i)' = Acqs(P, i)
    BY <1>1, <2>1 DEF Acqs, Acquires
  <2>4. Rels(P, i)' = Rels(P, i)
    BY <1>1, <2>1, <2>2 DEF Rels, Releases, is_put
  <2> QED BY <2>3, <2>4
<1>4. ASSUME NEW i \in 0 .. Len(log) PROVE SumAt(i)' = SumAt(i)
  <2>1. NsPutAt' \in 1 .. i <=> NsPutAt \in 1 .. i
    BY <1>1, NsPutGrown
  <2> QED BY <1>3, <2>1 DEF SumAt
<1>5. ASSUME NEW p \in Pids, NEW i \in 0 .. Len(log) PROVE Balance(p, i)' = Balance(p, i)
  BY <1>3 DEF Balance
<1> QED BY <1>4, <1>5

SumSteps ==
    \A i \in DOMAIN log :
        /\ SumAt(i) \in Int /\ SumAt(i - 1) \in Int
        /\ SumAt(i) = SumAt(i - 1)
             + (IF Acquires(log[i]) THEN 1 ELSE IF Releases(log[i]) \/ i = NsPutAt THEN -1 ELSE 0)

LEMMA StepsOfCounts ==
  log \in Seq(Events) /\ before \in [Pids -> 0 .. 1] /\ Unmounting => SumSteps
<1> SUFFICES ASSUME log \in Seq(Events), before \in [Pids -> 0 .. 1], Unmounting PROVE SumSteps
  OBVIOUS
<1>2. ASSUME NEW i \in DOMAIN log, i = NsPutAt PROVE Releases(log[i])
  <2>1. i # 0
    BY LogFacts
  <2>2. i \in NsPuts
    BY <1>2, <2>1, NsPutIs DEF NsPutFirst
  <2> QED BY <2>2 DEF NsPuts, Releases, is_put
<1>3. SumSteps
  <2> SUFFICES ASSUME NEW i \in DOMAIN log
               PROVE  /\ SumAt(i) \in Int /\ SumAt(i - 1) \in Int
                      /\ SumAt(i) = SumAt(i - 1)
                           + (IF Acquires(log[i]) THEN 1 ELSE IF Releases(log[i]) \/ i = NsPutAt THEN -1 ELSE 0)
    BY DEF SumSteps
  <2>1. i = NsPutAt => Releases(log[i])
    BY <1>2
  <2> QED BY <2>1, SumStep
<1> QED BY <1>3

-----------------------------------------------------------------------------

KType ==
    /\ log \in Seq(Events) /\ refs \in Nat /\ sum \in Int /\ before \in [Pids -> 0 .. 1]
    /\ how.shape \in {"umount", "nsdeath"}
    /\ um \in {"mounted", "detached", "dropped", "gp", "wait", "ended", "put", "doomed", "final", "cleaned", "freed"}

RefsCounted == sum = (IF NsPuts = {} THEN 1 ELSE 0) + refs

CountRecorded ==
    /\ \A i \in 0 .. Len(log) : i = Len(log) => sum = SumAt(i)
    /\ \A i \in DOMAIN log : log[i].ev \in {"umount_tree", "peek", "slowpath"} => log[i].count = SumAt(i)

(* What an event does to the references and to the count.                  *)
Effect(e) ==
    \/ /\ Acquires(e) /\ refs' = refs + 1 /\ sum' = sum + 1
    \/ /\ Releases(e) /\ NsPutAt' # Len(log) + 1
       /\ refs > 0 /\ refs' = refs - 1 /\ sum' = sum - 1
    \/ /\ ~Acquires(e) /\ ~Releases(e) /\ UNCHANGED <<refs, sum>>
    \/ /\ e.ev = "slowpath" /\ NsPutAt' = Len(log) + 1 /\ refs' = refs /\ sum' = sum - 1

LEMMA Balanced ==
  ASSUME KType, Unmounting, Unmounting', RefsCounted, CountRecorded,
         NEW e \in Events, log' = Append(log, e), before' = before, Effect(e),
         e.ev \in {"umount_tree", "peek", "slowpath"} => e.count = sum'
  PROVE  RefsCounted' /\ CountRecorded'
<1>0. PICK n \in Nat : n = Len(log) + 1
  BY LenProperties DEF KType
<1>1. /\ log \in Seq(Events) /\ log' \in Seq(Events) /\ before \in [Pids -> 0 .. 1]
      /\ Len(log) \in Nat /\ Len(log') = n /\ DOMAIN log = 1 .. Len(log) /\ DOMAIN log' = DOMAIN log \cup {n}
      /\ \A i \in DOMAIN log : log'[i] = log[i]
      /\ log'[n] = e /\ e.pid \in Pids
  BY <1>0, Grown DEF KType, Events
<1>2. SumSteps'
  <2>1. (log \in Seq(Events) /\ before \in [Pids -> 0 .. 1] /\ Unmounting => SumSteps)'
    BY StepsOfCounts, PTL
  <2> QED BY <1>1, <2>1
<1>3. \A i \in 0 .. Len(log) : SumAt(i)' = SumAt(i)
  BY <1>1, CountsStay
<1>4. /\ n - 1 = Len(log) /\ n - 1 \in 0 .. Len(log) /\ n \in DOMAIN log'
  BY <1>0, <1>1
<1>5. /\ NsPuts' = IF e.ev = "slowpath" /\ e.pid = U /\ GpOver THEN NsPuts \cup {n} ELSE NsPuts
      /\ NsPuts # {} => NsPutAt' # n
      /\ NsPuts = {} => NsPutAt' = IF NsPuts' = {} THEN 0 ELSE n
  BY <1>0, <1>1, NsPutGrown
<1>6. n # 0 /\ n \in Nat
  BY <1>0, <1>1
<1>7. ~(Acquires(e) /\ Releases(e)) /\ (e.ev = "slowpath" => Releases(e) /\ ~Acquires(e))
  BY DEF Acquires, Releases, is_put
<1>8. Acquires(e) => e.ev # "slowpath"
  BY DEF Acquires
<1>9. SumAt(n)' = SumAt(Len(log)) + (IF Acquires(e) THEN 1 ELSE IF Releases(e) \/ n = NsPutAt' THEN -1 ELSE 0)
  <2>1. SumAt(n - 1)' = SumAt(Len(log))
    BY <1>3, <1>4
  <2>2. (Acquires(log[n]))' = Acquires(e) /\ (Releases(log[n]))' = Releases(e)
    BY <1>1 DEF Acquires, Releases, is_put
  <2>3. SumAt(n)' = SumAt(n - 1)' + (IF Acquires(e) THEN 1 ELSE IF Releases(e) \/ n = NsPutAt' THEN -1 ELSE 0)
    BY <1>1, <1>2, <1>4, <2>2 DEF SumSteps
  <2> QED BY <2>1, <2>3
<1>10. n = NsPutAt' => e.ev = "slowpath"
  BY <1>5, <1>6
<1>11. /\ Len(log) \in 0 .. Len(log) /\ refs \in Nat /\ sum \in Int
       /\ \A i \in DOMAIN log : i \in 0 .. Len(log)
  BY <1>1 DEF KType
<1>12. sum = SumAt(Len(log))
  BY <1>11 DEF CountRecorded
<1>13. RefsCounted'
  <2>1. Acquires(e) => NsPuts' = NsPuts
    BY <1>5, <1>8
  <2>2. Releases(e) /\ NsPutAt' # n => (NsPuts' = {} <=> NsPuts = {})
    BY <1>5
  <2>3. ~Acquires(e) /\ ~Releases(e) => NsPuts' = NsPuts
    BY <1>5, <1>7
  <2>4. NsPutAt' = n => NsPuts = {} /\ NsPuts' # {}
    BY <1>5, <1>6
  <2> QED BY <1>0, <1>11, <2>1, <2>2, <2>3, <2>4 DEF RefsCounted, Effect
<1>15. CountRecorded'
  <2>1. sum = SumAt(Len(log)) /\ sum \in Int
    BY <1>11, <1>12
  <2>2. sum' = SumAt(n)'
    BY <1>0, <1>7, <1>9, <1>10, <2>1 DEF Effect
  <2>3. ASSUME NEW i \in DOMAIN log', log'[i].ev \in {"umount_tree", "peek", "slowpath"}
        PROVE  log'[i].count = SumAt(i)'
    <3>1. CASE i = n
      BY <1>1, <2>2, <2>3, <3>1
    <3>2. CASE i \in DOMAIN log
      <4>1. log[i].count = SumAt(i) /\ i \in 0 .. Len(log)
        BY <1>1, <1>11, <2>3, <3>2 DEF CountRecorded
      <4> QED BY <1>1, <1>3, <3>2, <4>1
    <3> QED BY <1>1, <3>1, <3>2
  <2>4. ASSUME NEW i \in 0 .. n, i = n PROVE sum' = SumAt(i)'
    BY <2>2, <2>4
  <2> QED BY <1>1, <2>3, <2>4 DEF CountRecorded
<1> QED BY <1>13, <1>15

-----------------------------------------------------------------------------
(* The kernel                                                              *)

(* The caller drops its reference once, before U does anything else.       *)
Dropping ==
    /\ \A c \in At("caller_drop") : log[c].pid = U
    /\ At("caller_drop") # {} <=> how.shape = "umount" /\ um \notin {"mounted", "detached"}
    /\ um = "detached" => /\ refs > 0 /\ how.shape = "umount"
                          /\ \A u \in At("umount_tree"), i \in DOMAIN log : u < i => log[i].pid # U
    /\ \A c \in At("caller_drop"), u \in At("umount_tree"), i \in DOMAIN log :
          u < i /\ i < c => log[i].pid # U

(* The umounter's first slow path after its grace period is the put of the *)
(* namespace's reference.                                                  *)
GraceOver ==
    /\ um \in {"mounted", "detached", "dropped", "gp", "wait"} => ~GpOver
    /\ um = "ended" => GpOver /\ NsPuts = {}
    /\ um \in {"doomed", "final", "cleaned", "freed"} /\ GpOver => NsPuts # {}
    /\ um = "put" => NsPuts # {}

(* One event dooms the mount, and nobody has a reference then.             *)
DoomedOnce ==
    /\ Doomed => refs = 0
    /\ (\E i \in DOMAIN log : Dooms(log[i])) <=> Doomed
    /\ \A i, j \in DOMAIN log : Dooms(log[i]) /\ Dooms(log[j]) => i = j
    /\ At("cleanup") # {} => Doomed
    /\ \A i \in At("slowpath") : ~log[i].flag

Kernel == KType /\ Unmounting /\ RefsCounted /\ CountRecorded /\ Dropping /\ GraceOver /\ DoomedOnce

LEMMA AtGrown ==
  ASSUME log \in Seq(Events), NEW e \in Events, log' = Append(log, e)
  PROVE  \A ev : /\ At(ev)' = IF e.ev = ev THEN At(ev) \cup {Len(log) + 1} ELSE At(ev)
                 /\ \A i \in At(ev) : i \in DOMAIN log /\ log'[i] = log[i] /\ i \in Nat /\ i <= Len(log) /\ i < Len(log) + 1
<1>1. /\ Len(log) \in Nat /\ DOMAIN log' = DOMAIN log \cup {Len(log) + 1}
      /\ \A i \in DOMAIN log : log'[i] = log[i] /\ i \in Nat /\ i <= Len(log)
      /\ log'[Len(log) + 1] = e
  BY Grown
<1> SUFFICES ASSUME NEW ev
             PROVE  /\ At(ev)' = IF e.ev = ev THEN At(ev) \cup {Len(log) + 1} ELSE At(ev)
                    /\ \A i \in At(ev) : i \in DOMAIN log /\ log'[i] = log[i] /\ i \in Nat /\ i <= Len(log) /\ i < Len(log) + 1
  OBVIOUS
<1>2. At(ev)' = IF e.ev = ev THEN At(ev) \cup {Len(log) + 1} ELSE At(ev)
  BY <1>1 DEF At
<1>3. \A i \in At(ev) : i \in DOMAIN log
  BY DEF At
<1> QED BY <1>1, <1>2, <1>3

LEMMA UnmountingKept ==
  ASSUME log \in Seq(Events), Unmounting, NEW e \in Events, log' = Append(log, e),
         \/ e.ev = "umount_tree" /\ um = "mounted" /\ um' # "mounted" /\ e.pid = U
         \/ e.ev # "umount_tree" /\ (um' = "mounted" <=> um = "mounted"),
         e.ev \in {"slowpath", "peek", "caller_drop", "cleanup"} => um # "mounted"
  PROVE  Unmounting'
<1>1. /\ At("umount_tree")' = IF e.ev = "umount_tree" THEN At("umount_tree") \cup {Len(log) + 1} ELSE At("umount_tree")
      /\ \A i \in At("umount_tree") : i \in DOMAIN log /\ log'[i] = log[i] /\ i < Len(log) + 1
  BY AtGrown
<1>2. /\ Len(log) \in Nat /\ DOMAIN log' = DOMAIN log \cup {Len(log) + 1}
      /\ \A i \in DOMAIN log : log'[i] = log[i]
      /\ log'[Len(log) + 1] = e
  BY Grown
<1>3. um' = "mounted" <=> At("umount_tree")' = {}
  BY <1>1 DEF Unmounting
<1>4. \A i, j \in At("umount_tree")' : i = j /\ log'[i].pid = U
  BY <1>1, <1>2 DEF Unmounting
<1>5. ASSUME NEW i \in DOMAIN log', log'[i].ev \in {"slowpath", "peek", "caller_drop", "cleanup"}
      PROVE  \E u \in At("umount_tree")' : u < i
  <2>1. CASE i \in DOMAIN log
    <3>1. PICK u \in At("umount_tree") : u < i
      BY <1>2, <1>5, <2>1 DEF Unmounting
    <3> QED BY <1>1, <3>1
  <2>2. CASE i = Len(log) + 1
    <3>1. PICK u : u \in At("umount_tree")
      BY <1>2, <1>5, <2>2 DEF Unmounting
    <3> QED BY <1>1, <2>2, <3>1
  <2> QED BY <1>2, <2>1, <2>2
<1> QED BY <1>3, <1>4, <1>5 DEF Unmounting

LEMMA DoomedKept ==
  ASSUME log \in Seq(Events), DoomedOnce, NEW e \in Events, log' = Append(log, e),
         Doomed => Doomed', Dooms(e) <=> Doomed' /\ ~Doomed,
         e.ev = "cleanup" => Doomed, e.ev = "slowpath" => ~e.flag,
         Doomed' => refs' = 0
  PROVE  DoomedOnce'
<1>1. /\ Len(log) \in Nat /\ DOMAIN log' = DOMAIN log \cup {Len(log) + 1}
      /\ \A i \in DOMAIN log : log'[i] = log[i]
      /\ log'[Len(log) + 1] = e
  BY Grown
<1>2. \A i \in DOMAIN log : Dooms(log[i])' <=> Dooms(log[i])
  BY <1>1 DEF Dooms
<1>3. \A i \in DOMAIN log' : Dooms(log[i])' <=> (IF i \in DOMAIN log THEN Dooms(log[i]) ELSE Dooms(e))
  BY <1>1 DEF Dooms
<1>4. (\E i \in DOMAIN log' : Dooms(log[i])') <=> Doomed'
  BY <1>1, <1>2, <1>3 DEF DoomedOnce
<1>5. \A i, j \in DOMAIN log' : Dooms(log[i])' /\ Dooms(log[j])' => i = j
  BY <1>1, <1>2, <1>3 DEF DoomedOnce
<1>6. At("cleanup")' # {} => Doomed'
  BY AtGrown DEF DoomedOnce
<1>7. \A i \in At("slowpath")' : ~log'[i].flag
  BY <1>1 DEF DoomedOnce, At
<1> QED BY <1>4, <1>5, <1>6, <1>7 DEF DoomedOnce

LEMMA DroppingKept ==
  ASSUME log \in Seq(Events), Dropping, NEW e \in Events, log' = Append(log, e), how' = how,
         e.ev \notin {"caller_drop", "umount_tree"},
         um' = um \/ {um, um'} \cap {"mounted", "detached"} = {},
         um = "detached" => e.pid # U /\ refs' > 0
  PROVE  Dropping'
<1>1. /\ At("caller_drop")' = At("caller_drop") /\ At("umount_tree")' = At("umount_tree")
      /\ \A c \in At("caller_drop") : c \in DOMAIN log /\ log'[c] = log[c] /\ c < Len(log) + 1 /\ c \in Nat
      /\ \A u \in At("umount_tree") : u \in DOMAIN log /\ log'[u] = log[u]
  BY AtGrown
<1>2. /\ Len(log) \in Nat /\ DOMAIN log' = DOMAIN log \cup {Len(log) + 1}
      /\ \A i \in DOMAIN log : log'[i] = log[i]
      /\ log'[Len(log) + 1] = e
  BY Grown
<1>3. \A c \in At("caller_drop")' : log'[c].pid = U
  BY <1>1 DEF Dropping
<1>4. At("caller_drop")' # {} <=> how'.shape = "umount" /\ um' \notin {"mounted", "detached"}
  BY <1>1 DEF Dropping
<1>5. um' = "detached" =>
        /\ refs' > 0 /\ how'.shape = "umount"
        /\ \A u \in At("umount_tree")', i \in DOMAIN log' : u < i => log'[i].pid # U
  BY <1>1, <1>2 DEF Dropping
<1>6. \A c \in At("caller_drop")', u \in At("umount_tree")', i \in DOMAIN log' :
        u < i /\ i < c => log'[i].pid # U
  BY <1>1, <1>2 DEF Dropping
<1> QED BY <1>3, <1>4, <1>5, <1>6 DEF Dropping

(* The events besides those of the unmount.                                *)
LEMMA OtherKept ==
  ASSUME Kernel, NEW e \in Events, Other(e), e.ev \in {"legitimize", "get", "put_fast", "slowpath"},
         refs' \in Nat, sum' \in Int, Effect(e), um = "detached" => refs' > 0,
         e.ev = "slowpath" => /\ e.count = sum' /\ ~e.flag /\ refs > 0 /\ um # "mounted"
                              /\ um' = IF sum' = 0 THEN "doomed" ELSE um,
         e.ev # "slowpath" => um' = um /\ (Doomed => refs' = refs)
  PROVE  Kernel'
<1>1. /\ log \in Seq(Events) /\ log' = Append(log, e) /\ before' = before /\ how' = how
      /\ refs \in Nat /\ sum \in Int /\ e.pid \in Pids /\ U \in Pids
  BY TraceLedgerAssumption DEF Kernel, KType, Other, Records, Events, TraceLedgerAssumption
<1>2. um \in {"detached", "dropped", "gp", "wait", "ended"} => e.pid # U
  BY DEF Other, Busy
<1>3. e.ev = "slowpath" => ~Doomed
  BY <1>1 DEF Kernel, DoomedOnce
<1>4. Unmounting'
  BY <1>1, UnmountingKept DEF Kernel
<1>5. KType'
  BY <1>1, Grown DEF Kernel, KType
<1>6. RefsCounted' /\ CountRecorded'
  BY <1>1, <1>4, Balanced DEF Kernel
<1>7. /\ GpOver' <=> GpOver
      /\ NsPuts' = IF e.ev = "slowpath" /\ e.pid = U /\ GpOver THEN NsPuts \cup {Len(log) + 1} ELSE NsPuts
  BY <1>1, <1>4, NsPutGrown DEF Kernel
<1>8. NsPuts' = {} <=> NsPuts = {}
  <2>1. ASSUME e.ev = "slowpath", e.pid = U, GpOver PROVE NsPuts # {}
    <3>1. um \in {"ended", "put"}
      BY <1>3, <2>1 DEF Kernel, KType, GraceOver, Doomed
    <3> QED BY <1>2, <2>1, <3>1 DEF Kernel, GraceOver
  <2> QED BY <1>7, <2>1
<1>9. e.ev = "slowpath" /\ sum' = 0 => um = "put"
  <2> SUFFICES ASSUME e.ev = "slowpath", sum' = 0 PROVE um = "put"
    OBVIOUS
  <2>1. refs > 0 /\ RefsCounted /\ refs \in Nat
    BY DEF Kernel, KType
  <2>2. sum = 1
    <3>1. sum' = sum - 1
      BY DEF Effect, Acquires, Releases, is_put
    <3> QED BY <1>1, <3>1
  <2>3. NsPuts # {}
    BY <2>1, <2>2 DEF RefsCounted
  <2>4. GpOver
    BY <2>3 DEF NsPuts, GpOver
  <2> QED BY <1>3, <2>3, <2>4 DEF Kernel, KType, GraceOver, Doomed
<1>10. um' = um \/ (e.ev = "slowpath" /\ sum' = 0 /\ um = "put" /\ um' = "doomed")
  BY <1>9
<1>11. Dropping'
  <2>1. um' = um \/ {um, um'} \cap {"mounted", "detached"} = {}
    BY <1>10
  <2> QED BY <1>1, <1>2, <2>1, DroppingKept DEF Kernel
<1>12. GraceOver'
  BY <1>7, <1>8, <1>10 DEF Kernel, GraceOver
<1>13. DoomedOnce'
  <2>1. Dooms(e) <=> Doomed' /\ ~Doomed
    BY <1>3, <1>10 DEF Dooms, Doomed
  <2>2. Doomed => Doomed'
    BY <1>10 DEF Doomed
  <2>3. ASSUME Doomed' PROVE refs' = 0
    <3>1. CASE Doomed
      BY <1>3, <3>1 DEF Kernel, DoomedOnce
    <3>2. CASE ~Doomed
      <4>1. sum' = 0 /\ NsPuts # {}
        BY <1>10, <2>3, <3>2 DEF Kernel, GraceOver, Doomed
      <4>2. sum' = (IF NsPuts' = {} THEN 1 ELSE 0) + refs'
        BY <1>6 DEF RefsCounted
      <4>3. refs' \in Nat
        BY <1>5 DEF KType
      <4>4. PICK x \in Nat : x = refs'
        BY <4>3
      <4>5. 0 = 0 + x
        BY <1>8, <4>1, <4>2, <4>4
      <4>6. x = 0
        BY <4>5
      <4> QED BY <4>4, <4>6
    <3> QED BY <3>1, <3>2
  <2> QED BY <1>1, <2>1, <2>2, <2>3, DoomedKept DEF Kernel
<1> QED BY <1>4, <1>5, <1>6, <1>11, <1>12, <1>13 DEF Kernel

LEMMA LegitimizeKept ==
  ASSUME Kernel, NEW p \in Pids, NEW r \in {-1, 0, 1}, NEW early \in BOOLEAN, Legitimize(p, r, early) PROVE Kernel'
<1> DEFINE e == Event("legitimize", p, r, 0, early)
<1>1. /\ e \in Events /\ e.ev = "legitimize" /\ e.pid = p /\ e.result = r
  BY DEF Event, Events
<1>2. Other(e) /\ um' = um
  BY DEF Legitimize
<1>3. refs \in Nat /\ sum \in Int
  BY DEF Kernel, KType
<1>4. ~Releases(e) /\ (Acquires(e) <=> r # 1)
  BY <1>1 DEF Releases, Acquires, is_put
<1> HIDE DEF e
<1>5. IF r = 1 THEN UNCHANGED <<refs, sum>> ELSE refs' = refs + 1 /\ sum' = sum + 1
  BY DEF Legitimize, Adds
<1>6. refs' \in Nat /\ sum' \in Int /\ (um = "detached" => refs' > 0)
  BY <1>3, <1>5 DEF Kernel, Dropping
<1>7. Effect(e)
  BY <1>1, <1>4, <1>5 DEF Effect
<1>8. Doomed => refs' = refs
  <2>1. Doomed => r = 1
    BY DEF Legitimize, Attached, Doomed
  <2> QED BY <1>5, <2>1
<1> QED BY <1>1, <1>2, <1>6, <1>7, <1>8, OtherKept

LEMMA GetKept == ASSUME Kernel, NEW p \in Pids, Get(p) PROVE Kernel'
<1> DEFINE e == Event("get", p, 0, 0, FALSE)
<1>1. /\ e \in Events /\ e.ev = "get" /\ e.pid = p
  BY DEF Event, Events
<1>2. Other(e) /\ um' = um
  BY DEF Get
<1>3. refs \in Nat /\ sum \in Int
  BY DEF Kernel, KType
<1>4. Acquires(e)
  BY <1>1 DEF Acquires
<1> HIDE DEF e
<1>5. refs' = refs + 1 /\ sum' = sum + 1
  BY DEF Get, Adds
<1>6. refs' \in Nat /\ sum' \in Int /\ refs' > 0
  BY <1>3, <1>5
<1>7. Effect(e)
  BY <1>1, <1>4, <1>5 DEF Effect
<1>8. ~Doomed
  BY DEF Get, Attached, Loose, Doomed, Kernel, DoomedOnce
<1> QED BY <1>1, <1>2, <1>6, <1>7, <1>8, OtherKept

LEMMA PutKept == ASSUME Kernel, NEW p \in Pids, PutFast(p) \/ Slowpath(p) PROVE Kernel'
<1>3. refs \in Nat /\ sum \in Int
  BY DEF Kernel, KType
<1>5. refs' = refs - 1 /\ sum' = sum - 1 /\ Loose > 0
  BY <1>3 DEF PutFast, Slowpath, Adds
<1>6. refs > 0 /\ refs' \in Nat /\ (um = "detached" => refs' > 0) /\ sum' \in Int /\ (sum' = 0 <=> sum = 1)
  BY <1>3, <1>5 DEF Loose
<1>7. ~Doomed
  BY <1>6 DEF Kernel, DoomedOnce
<1>8. CASE PutFast(p)
  <2> DEFINE e == Event("put_fast", p, 0, 0, FALSE)
  <2>1. /\ e \in Events /\ e.ev = "put_fast" /\ e.pid = p /\ Releases(e)
    BY DEF Event, Events, Releases, is_put
  <2>2. Other(e) /\ um' = um
    BY <1>8 DEF PutFast
  <2> HIDE DEF e
  <2>3. NsPutAt' # Len(log) + 1
    <3>1. log' = Append(log, e) /\ log \in Seq(Events) /\ Unmounting
      BY <2>2 DEF Other, Records, Kernel, KType
    <3>2. Unmounting'
      BY <2>1, <2>2, <3>1, UnmountingKept
    <3>3. Len(log) \in Nat /\ DOMAIN log = 1 .. Len(log)
      BY <3>1, LogFacts
    <3> QED BY <2>1, <3>1, <3>2, <3>3, NsPutGrown
  <2>4. Effect(e)
    BY <1>5, <1>6, <2>1, <2>3 DEF Effect
  <2> QED BY <1>6, <1>7, <2>1, <2>2, <2>4, OtherKept
<1>9. CASE Slowpath(p)
  <2> DEFINE e == Event("slowpath", p, 0, sum - 1, FALSE)
  <2>1. /\ e \in Events /\ e.ev = "slowpath" /\ e.pid = p /\ Releases(e) /\ e.count = sum' /\ ~e.flag
    BY <1>3, <1>5 DEF Event, Events, Releases, is_put
  <2>2. Other(e) /\ um # "mounted" /\ um' = IF sum' = 0 THEN "doomed" ELSE um
    BY <1>6, <1>9 DEF Slowpath, Attached
  <2> HIDE DEF e
  <2>3. NsPutAt' # Len(log) + 1
    <3>1. log' = Append(log, e) /\ log \in Seq(Events) /\ Unmounting
      BY <2>2 DEF Other, Records, Kernel, KType
    <3>2. Unmounting'
      BY <2>1, <2>2, <3>1, UnmountingKept
    <3>3. Len(log) \in Nat /\ DOMAIN log = 1 .. Len(log)
      BY <3>1, LogFacts
    <3>4. NsPuts # {} => NsPutAt' # Len(log) + 1
      BY <2>1, <3>1, <3>2, <3>3, NsPutGrown
    <3>5. ASSUME NsPuts = {} PROVE ~(p = U /\ GpOver)
      <4>1. p = U => um \notin {"detached", "dropped", "gp", "wait", "ended"}
        BY <2>1, <2>2 DEF Other, Busy
      <4> QED BY <1>7, <2>2, <3>5, <4>1 DEF Kernel, KType, GraceOver, Doomed
    <3>6. NsPuts = {} => NsPutAt' = 0
      BY <2>1, <3>1, <3>2, <3>5, NsPutGrown
    <3> QED BY <3>3, <3>4, <3>6
  <2>4. Effect(e)
    BY <1>5, <1>6, <2>1, <2>3 DEF Effect
  <2> QED BY <1>5, <1>6, <2>1, <2>2, <2>4, OtherKept
<1> QED BY <1>8, <1>9

DoomingEvents == {i \in DOMAIN log : Dooms(log[i])}

LEMMA DoomedAtIs ==
  ASSUME Kernel
  PROVE  /\ Doomed => DoomedAt \in DOMAIN log /\ Dooms(log[DoomedAt])
         /\ \A i \in DOMAIN log : Dooms(log[i]) => i = DoomedAt
<1> DEFINE I == {i \in 1 .. Len(log) : Dooms(log[i])}
<1>1. DoomedAt = IF I # {} THEN Min(I) ELSE 0
  BY DEF DoomedAt, SelectInSeq
<1>2. DOMAIN log = 1 .. Len(log) /\ \A i \in DOMAIN log : i \in Nat
  BY LogFacts DEF Kernel, KType
<1>3. \A i, j \in I : i = j
  BY <1>2 DEF Kernel, DoomedOnce
<1>4. I # {} => Min(I) \in I
  <2> SUFFICES ASSUME I # {} PROVE Min(I) \in I
    OBVIOUS
  <2>1. \E x \in I : \A y \in I : x <= y
    BY <1>2, <1>3
  <2> HIDE DEF I
  <2> QED BY <2>1 DEF Min
<1>5. Doomed => I # {}
  BY <1>2 DEF Kernel, DoomedOnce
<1> QED BY <1>1, <1>2, <1>3, <1>4, <1>5

(* The steps of the unmount that leave the references alone.               *)
LEMMA StepKept ==
  ASSUME Kernel, NEW e \in Events, Records(e), e.ev \in {"peek", "gp", "final", "cleanup", "free"},
         UNCHANGED <<refs, sum>>,
         e.ev = "peek" => e.count = sum,
         um \notin {"mounted", "detached"} /\ um' \notin {"mounted", "detached"},
         KType', GraceOver',
         Doomed => Doomed', Dooms(e) <=> Doomed' /\ ~Doomed, e.ev = "cleanup" => Doomed,
         ~Doomed /\ Doomed' => refs = 0
  PROVE  Kernel'
<1>1. /\ log \in Seq(Events) /\ log' = Append(log, e) /\ before' = before /\ how' = how
  BY DEF Kernel, KType, Records
<1>2. Unmounting'
  BY <1>1, UnmountingKept DEF Kernel
<1>3. Effect(e)
  BY DEF Effect, Acquires, Releases, is_put
<1>4. RefsCounted' /\ CountRecorded'
  BY <1>1, <1>2, <1>3, Balanced DEF Kernel
<1>5. Dropping'
  BY <1>1, DroppingKept DEF Kernel
<1>6. DoomedOnce'
  BY <1>1, DoomedKept DEF Kernel, DoomedOnce
<1> QED BY <1>2, <1>4, <1>5, <1>6 DEF Kernel

LEMMA TypeGrown ==
  ASSUME KType, NEW e \in Events, Records(e), refs' \in Nat, sum' \in Int,
         um' \in {"mounted", "detached", "dropped", "gp", "wait", "ended", "put", "doomed", "final", "cleaned", "freed"}
  PROVE  KType'
<1>1. log' \in Seq(Events)
  BY Grown DEF KType, Records
<1> QED BY <1>1 DEF KType, Records

LEMMA UmountTreeKept == ASSUME Kernel, UmountTree PROVE Kernel'
<1> DEFINE e == Event("umount_tree", U, 0, sum, FALSE)
           n == Len(log) + 1
<1>1. /\ log \in Seq(Events) /\ refs \in Nat /\ sum \in Int /\ U \in Pids
  BY TraceLedgerAssumption DEF Kernel, KType, TraceLedgerAssumption
<1>2. /\ e \in Events /\ e.ev = "umount_tree" /\ e.pid = U /\ e.count = sum
      /\ ~Acquires(e) /\ ~Releases(e) /\ ~Dooms(e)
  BY <1>1 DEF Event, Events, Acquires, Releases, is_put, Dooms
<1>3. /\ um = "mounted" /\ um' = (IF how.shape = "umount" THEN "detached" ELSE "dropped") /\ Records(e)
      /\ UNCHANGED <<refs, sum>> /\ (how.shape = "umount" => refs > 0)
  BY DEF UmountTree, Step
<1> HIDE DEF e
<1>4. log' = Append(log, e) /\ before' = before /\ how' = how
  BY <1>3 DEF Records
<1>5. KType'
  BY <1>1, <1>2, <1>3, TypeGrown DEF Kernel
<1>6. Unmounting'
  BY <1>1, <1>2, <1>3, <1>4, UnmountingKept DEF Kernel
<1>7. RefsCounted' /\ CountRecorded'
  BY <1>2, <1>3, <1>4, <1>6, Balanced DEF Kernel, Effect
<1>8. /\ At("umount_tree") = {} /\ At("caller_drop") = {}
      /\ At("umount_tree")' = {n} /\ At("caller_drop")' = {}
  <2>1. At("umount_tree") = {} /\ At("caller_drop") = {}
    BY <1>3 DEF Kernel, Unmounting, Dropping
  <2> QED BY <1>1, <1>2, <1>4, <2>1, AtGrown
<1>9. Dropping'
  <2>1. \A i \in DOMAIN log' : ~(n < i)
    BY <1>1, <1>2, <1>4, Grown
  <2> QED BY <1>3, <1>4, <1>8, <2>1 DEF Dropping
<1>10. GraceOver'
  <2>1. GpOver' <=> GpOver
    BY <1>1, <1>2, <1>4, <1>6, NsPutGrown DEF Kernel
  <2> QED BY <1>3, <2>1 DEF Kernel, GraceOver
<1>11. DoomedOnce'
  BY <1>1, <1>2, <1>3, <1>4, DoomedKept DEF Kernel, Doomed
<1> QED BY <1>5, <1>6, <1>7, <1>9, <1>10, <1>11 DEF Kernel

LEMMA CallerDropKept == ASSUME Kernel, CallerDrop PROVE Kernel'
<1> DEFINE e == Event("caller_drop", U, 0, 0, FALSE)
<1>0. PICK n \in Nat : n = Len(log) + 1
  BY LogFacts DEF Kernel, KType
<1>1. /\ log \in Seq(Events) /\ refs \in Nat /\ sum \in Int /\ U \in Pids
  BY TraceLedgerAssumption DEF Kernel, KType, TraceLedgerAssumption
<1>2. /\ e \in Events /\ e.ev = "caller_drop" /\ e.pid = U
      /\ ~Acquires(e) /\ Releases(e) /\ ~Dooms(e)
  BY <1>1 DEF Event, Events, Acquires, Releases, is_put, Dooms
<1>3. /\ um = "detached" /\ um' = "dropped" /\ Records(e)
      /\ refs' = refs - 1 /\ sum' = sum - 1 /\ how.shape = "umount"
  BY DEF CallerDrop, Step, Adds, Kernel, Dropping
<1>4. refs > 0 /\ refs' \in Nat /\ sum' \in Int
  BY <1>1, <1>3 DEF Kernel, Dropping
<1> HIDE DEF e
<1>5. log' = Append(log, e) /\ before' = before /\ how' = how
  BY <1>3 DEF Records
<1>6. KType'
  BY <1>2, <1>3, <1>4, TypeGrown DEF Kernel
<1>7. Unmounting'
  BY <1>1, <1>2, <1>3, <1>5, UnmountingKept DEF Kernel
<1>8. /\ GpOver' <=> GpOver
      /\ NsPutAt' # n
  <2>1. Len(log) \in Nat /\ DOMAIN log = 1 .. Len(log)
    BY <1>1, LogFacts
  <2> QED BY <1>0, <1>1, <1>2, <1>5, <1>7, <2>1, NsPutGrown DEF Kernel
<1>9. RefsCounted' /\ CountRecorded'
  BY <1>0, <1>2, <1>3, <1>4, <1>5, <1>7, <1>8, Balanced DEF Kernel, Effect
<1>10. /\ At("umount_tree")' = At("umount_tree") /\ At("caller_drop")' = {n}
       /\ \A u \in At("umount_tree") : u \in DOMAIN log
  <2>1. At("caller_drop") = {}
    BY <1>3 DEF Kernel, Dropping
  <2> QED BY <1>0, <1>1, <1>2, <1>5, <2>1, AtGrown
<1>11. Dropping'
  <2>1. /\ DOMAIN log' = DOMAIN log \cup {n} /\ log'[n] = e
        /\ \A i \in DOMAIN log : log'[i] = log[i]
    BY <1>0, <1>1, <1>2, <1>5, Grown
  <2>2. ASSUME NEW u \in At("umount_tree"), NEW i \in DOMAIN log', u < i, i < n PROVE log'[i].pid # U
    <3>1. i \in DOMAIN log
      BY <1>0, <2>1, <2>2
    <3> QED BY <1>3, <2>1, <2>2, <3>1 DEF Kernel, Dropping
  <2> QED BY <1>2, <1>3, <1>5, <1>10, <2>1, <2>2 DEF Dropping
<1>12. GraceOver'
  BY <1>3, <1>8 DEF Kernel, GraceOver
<1>13. DoomedOnce'
  BY <1>1, <1>2, <1>3, <1>5, DoomedKept DEF Kernel, Doomed
<1> QED BY <1>6, <1>7, <1>9, <1>11, <1>12, <1>13 DEF Kernel

LEMMA GpOverGrown ==
  ASSUME Kernel, NEW e \in Events, Records(e), e.ev \in {"peek", "gp", "final", "cleanup", "free"},
         um # "mounted", um' # "mounted"
  PROVE  (GpOver' <=> GpOver \/ (e.ev = "gp" /\ e.flag)) /\ NsPuts' = NsPuts
<1>1. log \in Seq(Events) /\ log' = Append(log, e) /\ Unmounting
  BY DEF Records, Kernel, KType
<1>2. Unmounting'
  BY <1>1, UnmountingKept
<1> QED BY <1>1, <1>2, NsPutGrown

LEMMA PeekKept == ASSUME Kernel, Peek PROVE Kernel'
<1> DEFINE e == Event("peek", U, 0, sum, sum = 1)
<1>1. /\ refs \in Nat /\ sum \in Int /\ U \in Pids
  BY TraceLedgerAssumption DEF Kernel, KType, TraceLedgerAssumption
<1>2. /\ e \in Events /\ e.ev = "peek" /\ e.count = sum /\ (Dooms(e) <=> sum = 1)
  BY <1>1 DEF Event, Events, Dooms
<1>3. /\ um = "dropped" /\ um' = (IF sum = 1 THEN "doomed" ELSE "gp") /\ Records(e) /\ UNCHANGED <<refs, sum>>
  BY DEF Peek, Step
<1> HIDE DEF e
<1>4. KType'
  BY <1>1, <1>2, <1>3, TypeGrown DEF Kernel
<1>5. ~GpOver /\ ~GpOver' /\ NsPuts = {}
  BY <1>2, <1>3, GpOverGrown DEF Kernel, GraceOver, NsPuts, GpOver
<1>6. GraceOver'
  BY <1>3, <1>5 DEF GraceOver
<1>7. sum = 1 => refs = 0
  BY <1>1, <1>5 DEF Kernel, RefsCounted
<1>8. Doomed' <=> sum = 1
  BY <1>3 DEF Doomed
<1> QED BY <1>2, <1>3, <1>4, <1>6, <1>7, <1>8, StepKept DEF Doomed

LEMMA GpKept == ASSUME Kernel, Gp PROVE Kernel'
<1>1. /\ refs \in Nat /\ sum \in Int /\ U \in Pids
  BY TraceLedgerAssumption DEF Kernel, KType, TraceLedgerAssumption
<1>2. PICK f \in BOOLEAN : /\ Records(Event("gp", U, 0, 0, f)) /\ UNCHANGED <<refs, sum>>
                           /\ IF f THEN um = "wait" /\ um' = "ended" ELSE um = "gp" /\ um' = "wait"
  BY DEF Gp, Step
<1> DEFINE e == Event("gp", U, 0, 0, f)
<1>3. e \in Events /\ e.ev = "gp" /\ e.flag = f /\ ~Dooms(e)
  BY <1>1 DEF Event, Events, Dooms
<1>4. Records(e)
  BY <1>2
<1> HIDE DEF e
<1>5. KType'
  BY <1>1, <1>2, <1>3, <1>4, TypeGrown DEF Kernel
<1>6. ~GpOver /\ (GpOver' <=> f) /\ NsPuts' = {}
  BY <1>2, <1>3, <1>4, GpOverGrown DEF Kernel, GraceOver, NsPuts, GpOver
<1>7. GraceOver'
  BY <1>2, <1>6 DEF GraceOver
<1> QED BY <1>2, <1>3, <1>4, <1>5, <1>7, StepKept DEF Doomed

LEMMA NsPutKept == ASSUME Kernel, NsPut PROVE Kernel'
<1> DEFINE e == Event("slowpath", U, 0, sum - 1, FALSE)
<1>0. PICK n \in Nat : n = Len(log) + 1
  BY LogFacts DEF Kernel, KType
<1>1. /\ log \in Seq(Events) /\ refs \in Nat /\ sum \in Int /\ U \in Pids
  BY TraceLedgerAssumption DEF Kernel, KType, TraceLedgerAssumption
<1>2. /\ e \in Events /\ e.ev = "slowpath" /\ e.pid = U /\ e.count = sum - 1 /\ ~e.flag
      /\ (Dooms(e) <=> sum = 1)
  BY <1>1 DEF Event, Events, Dooms
<1>3. /\ um = "ended" /\ um' = (IF sum = 1 THEN "doomed" ELSE "put") /\ Records(e)
      /\ refs' = refs /\ sum' = sum - 1
  BY DEF NsPut, Step
<1> HIDE DEF e
<1>4. log' = Append(log, e) /\ before' = before /\ how' = how /\ GpOver /\ NsPuts = {}
  BY <1>3 DEF Records, Kernel, GraceOver
<1>5. KType'
  BY <1>1, <1>2, <1>3, TypeGrown DEF Kernel
<1>6. Unmounting'
  BY <1>1, <1>2, <1>3, <1>4, UnmountingKept DEF Kernel
<1>7. NsPuts' # {} /\ GpOver' /\ NsPutAt' = n
  BY <1>0, <1>1, <1>2, <1>4, <1>6, NsPutGrown DEF Kernel
<1>8. RefsCounted' /\ CountRecorded'
  BY <1>0, <1>2, <1>3, <1>4, <1>6, <1>7, Balanced DEF Kernel, Effect
<1>9. Dropping'
  BY <1>1, <1>2, <1>3, <1>4, DroppingKept DEF Kernel
<1>10. GraceOver'
  BY <1>3, <1>7 DEF GraceOver
<1>11. sum = 1 => refs = 0
  BY <1>1, <1>4 DEF Kernel, RefsCounted
<1>12. (Doomed' <=> sum = 1) /\ ~Doomed
  BY <1>3 DEF Doomed
<1>13. DoomedOnce'
  BY <1>1, <1>2, <1>3, <1>4, <1>11, <1>12, DoomedKept DEF Kernel
<1> QED BY <1>5, <1>6, <1>8, <1>9, <1>10, <1>13 DEF Kernel

LEMMA FinishKept == ASSUME Kernel, Finish PROVE Kernel'
<1>1. /\ refs \in Nat /\ sum \in Int /\ UNCHANGED <<refs, sum>>
  BY DEF Kernel, KType, Finish
<1>2. Doomed /\ Doomed' /\ um' \in {"final", "cleaned", "freed"}
  BY DEF Finish, Step, Doomed
<1>3. log[DoomedAt].pid \in Pids
  BY <1>2, DoomedAtIs, LogFacts DEF Kernel, KType, Events
<1>4. PICK ev \in {"final", "cleanup", "free"}, p \in Pids : Records(Event(ev, p, 0, 0, FALSE))
  BY <1>3 DEF Finish, Step
<1> DEFINE e == Event(ev, p, 0, 0, FALSE)
<1>5. e \in Events /\ e.ev = ev /\ ~Dooms(e)
  BY DEF Event, Events, Dooms
<1>6. Records(e)
  BY <1>4
<1> HIDE DEF e
<1>7. KType'
  BY <1>1, <1>2, <1>5, <1>6, TypeGrown DEF Kernel
<1>8. um \notin {"mounted", "detached"} /\ um' \notin {"mounted", "detached"}
  BY <1>2 DEF Doomed
<1>9. (GpOver' <=> GpOver) /\ NsPuts' = NsPuts
  BY <1>5, <1>6, <1>8, GpOverGrown
<1>10. GraceOver'
  BY <1>2, <1>9 DEF Kernel, GraceOver, Doomed
<1> QED BY <1>1, <1>2, <1>5, <1>6, <1>7, <1>8, <1>10, StepKept

-----------------------------------------------------------------------------

LEMMA InitKernel == Init => Kernel
<1> SUFFICES ASSUME Init PROVE Kernel
  OBVIOUS
<1>1. /\ log = <<>> /\ log \in Seq(Events) /\ Len(log) = 0 /\ DOMAIN log = {} /\ um = "mounted"
  BY EmptySeq DEF Init
<1> DEFINE B == {p \in Pids : before[p] = 1}
<1>2. /\ before \in [Pids -> 0 .. 1] /\ refs = Cardinality(B) /\ sum = 1 + Cardinality(B) /\ IsFiniteSet(B) /\ Cardinality(B) \in Nat
  BY TraceLedgerAssumption, FS_Subset, FS_CardinalityType DEF Init, TraceLedgerAssumption
<1>3. KType
  <2>1. refs \in Nat
    BY <1>2
  <2>2. sum \in Int
    BY <1>2
  <2>3. how.shape \in {"umount", "nsdeath"}
    BY DEF Init
  <2> QED BY <1>1, <1>2, <2>1, <2>2, <2>3 DEF KType
<1>4. \A ev : At(ev) = {}
  BY <1>1 DEF At
<1>5. Unmounting /\ Dropping
  BY <1>1, <1>4 DEF Unmounting, Dropping
<1>6. ~GpOver /\ NsPuts = {} /\ GraceOver
  BY <1>1 DEF GpOver, NsPuts, GraceOver
<1>7. DoomedOnce
  BY <1>1, <1>4 DEF DoomedOnce, Doomed
<1>8. RefsCounted
  BY <1>2, <1>6 DEF RefsCounted
<1>9. NsPutAt = 0
  BY <1>1, <1>5, <1>6, NsPutIs DEF NsPutFirst
<1>10. \A P : Cardinality(Acqs(P, 0)) = 0 /\ Cardinality(Rels(P, 0)) = 0
  BY <1>1, Counts
<1>12. CountRecorded
  <2>1. SumAt(0) = 1 + Cardinality(B)
    BY <1>2, <1>9, <1>10 DEF SumAt
  <2>2. \A i \in 0 .. Len(log) : i = 0
    BY <1>1
  <2> QED BY <1>1, <1>2, <2>1, <2>2 DEF CountRecorded
<1> QED BY <1>3, <1>5, <1>6, <1>7, <1>8, <1>12 DEF Kernel

LEMMA KernelSame == ASSUME Kernel, UNCHANGED <<log, refs, sum, um, how, before>> PROVE Kernel'
<1>1. \A ev : At(ev)' = At(ev)
  BY DEF At
<1>2. NsPutAt' = NsPutAt
  BY DEF NsPutAt, At, Ut
<1>3. NsPuts' = NsPuts /\ (GpOver' <=> GpOver) /\ (Doomed' <=> Doomed)
  BY DEF NsPuts, GpOver, Doomed
<1>4. \A P, i : Acqs(P, i)' = Acqs(P, i) /\ Rels(P, i)' = Rels(P, i)
  BY <1>2 DEF Acqs, Rels, Acquires, Releases, is_put
<1>5. \A i : SumAt(i)' = SumAt(i)
  BY <1>2, <1>4 DEF SumAt
<1>6. KType' /\ Unmounting' /\ Dropping'
  BY <1>1 DEF Kernel, KType, Unmounting, Dropping
<1>7. RefsCounted' /\ GraceOver'
  BY <1>3 DEF Kernel, RefsCounted, GraceOver
<1>8. CountRecorded'
  BY <1>5 DEF Kernel, CountRecorded
<1>9. DoomedOnce'
  BY <1>1, <1>3 DEF Kernel, DoomedOnce, Dooms
<1> QED BY <1>6, <1>7, <1>8, <1>9 DEF Kernel

LEMMA NextKernel == Kernel /\ [Next]_vars => Kernel'
<1> SUFFICES ASSUME Kernel, [Next]_vars PROVE Kernel'
  OBVIOUS
<1>1. ASSUME NEW p \in Pids, NEW r \in {-1, 0, 1}, NEW early \in BOOLEAN, Legitimize(p, r, early) PROVE Kernel'
  BY <1>1, LegitimizeKept
<1>2. ASSUME NEW p \in Pids, Get(p) PROVE Kernel'
  BY <1>2, GetKept
<1>3. ASSUME NEW p \in Pids, PutFast(p) \/ Slowpath(p) PROVE Kernel'
  BY <1>3, PutKept
<1>4. CASE UmountTree
  BY <1>4, UmountTreeKept
<1>5. CASE CallerDrop
  BY <1>5, CallerDropKept
<1>6. CASE Peek
  BY <1>6, PeekKept
<1>7. CASE Gp
  BY <1>7, GpKept
<1>8. CASE NsPut
  BY <1>8, NsPutKept
<1>9. CASE Finish
  BY <1>9, FinishKept
<1>10. CASE convert
  BY <1>10, KernelSame DEF convert
<1>11. CASE UNCHANGED vars
  BY <1>11, KernelSame DEF vars
<1> QED BY <1>1, <1>2, <1>3, <1>4, <1>5, <1>6, <1>7, <1>8, <1>9, <1>10, <1>11 DEF Next

(* A trace of a mount that was unmounted.                                  *)
Traced == Kernel /\ At("umount_tree") # {}

LEMMA UtIs ==
  ASSUME Traced
  PROVE  /\ Ut \in DOMAIN log /\ log[Ut].pid = U /\ log[Ut].ev = "umount_tree"
         /\ \A i \in DOMAIN log : log[i].ev \in {"slowpath", "peek", "caller_drop", "cleanup"} => i > Ut
         /\ \A i \in At("umount_tree") : i = Ut
<1>1. Ut \in At("umount_tree")
  BY DEF Traced, Ut
<1>2. \A i, j \in At("umount_tree") : i = j /\ log[i].pid = U
  BY DEF Traced, Kernel, Unmounting
<1>3. Ut \in DOMAIN log /\ log[Ut].ev = "umount_tree" /\ \A i \in DOMAIN log : i \in Nat
  BY <1>1, LogFacts DEF At, Traced, Kernel, KType
<1>4. ASSUME NEW i \in DOMAIN log, log[i].ev \in {"slowpath", "peek", "caller_drop", "cleanup"} PROVE i > Ut
  <2>1. PICK u \in At("umount_tree") : u < i
    BY <1>4 DEF Traced, Kernel, Unmounting
  <2>2. u = Ut
    BY <1>1, <1>2
  <2> QED BY <1>3, <2>1, <2>2
<1> QED BY <1>1, <1>2, <1>3, <1>4

-----------------------------------------------------------------------------
(* Names *)

Walker(n) == n[1] = "W"
Holder(n) == n[1] = "H"
Names(p)  == {None, UTask} \cup {W(p, k) : k \in Nat} \cup {H(p, k) : k \in Nat}

LEMMA NameFacts ==
  /\ ~Walker(None) /\ ~Holder(None) /\ ~Walker(UTask) /\ ~Holder(UTask) /\ ~Walker(Rcu) /\ ~Holder(Rcu)
  /\ UTask # None /\ Rcu # None /\ Rcu # UTask
  /\ \A p, k : /\ Walker(W(p, k)) /\ ~Holder(W(p, k)) /\ W(p, k)[2] = p /\ W(p, k) \notin {None, UTask, Rcu}
               /\ Holder(H(p, k)) /\ ~Walker(H(p, k)) /\ H(p, k)[2] = p /\ H(p, k) \notin {None, UTask, Rcu}
  /\ \A p, q, j, k : /\ W(p, j) = W(q, k) => p = q /\ j = k
                     /\ H(p, j) = H(q, k) => p = q /\ j = k
                     /\ W(p, j) # H(q, k)
BY DEF Walker, Holder, None, UTask, Rcu, W, H

LEMMA NameKinds ==
  ASSUME NEW p, NEW n \in Names(p)
  PROVE  /\ Walker(n) => \E k \in Nat : n = W(p, k)
         /\ Holder(n) => \E k \in Nat : n = H(p, k)
         /\ n \notin {None, UTask} => Walker(n) \/ Holder(n)
         /\ ~(Walker(n) /\ Holder(n))
         /\ n # Rcu
         /\ Walker(n) \/ Holder(n) => n[2] = p /\ n \notin {None, UTask}
BY NameFacts DEF Names

-----------------------------------------------------------------------------
(* Events of a pid *)

LEMMA MineIs ==
  ASSUME Traced, NEW i \in DOMAIN log
  PROVE  /\ Protocol(i) \in {None, UTask, Rcu}
         /\ \A p : Mine(p, i) <=> log[i].pid = p /\ log[i].ev \in {"legitimize", "get", "put_fast", "slowpath"} /\ i # NsPutAt
         /\ log[i].ev \in {"legitimize", "get", "put_fast", "caller_drop"} => i # NsPutAt
         /\ Protocol(i) # None \/ log[i].ev = "cleanup" \/ Mine(log[i].pid, i)
         /\ Protocol(i) = Rcu => log[i].ev = "free"
         /\ Protocol(i) = UTask <=>
              log[i].ev \in {"umount_tree", "caller_drop", "peek", "gp", "final"} \/ i = NsPutAt
<1>1. log[i].ev \in {"legitimize", "get", "put_fast", "slowpath", "umount_tree", "caller_drop", "peek", "gp",
                     "final", "cleanup", "free"} /\ i # 0
  BY LogFacts DEF Traced, Kernel, KType, Events
<1>2. i = NsPutAt => log[i].ev = "slowpath"
  BY <1>1, NsPutIs DEF Traced, Kernel, KType, NsPutFirst, NsPuts
<1>3. Protocol(i) = IF log[i].ev \in {"umount_tree", "caller_drop", "peek", "gp", "final"} \/ i = NsPutAt THEN UTask
                    ELSE IF log[i].ev = "free" THEN Rcu ELSE None
  BY <1>2 DEF Protocol
<1> QED BY <1>1, <1>2, <1>3, NameFacts DEF Mine

(* An event of a pid is an acquisition, a failed attempt or a put.         *)
LEMMA MineKinds ==
  ASSUME Traced, NEW p, NEW i \in DOMAIN log, Mine(p, i)
  PROVE  /\ log[i].ev \in {"legitimize", "get"} \/ is_put(log[i])
         /\ Acquires(log[i]) <=> log[i].ev = "get" \/ (log[i].ev = "legitimize" /\ log[i].result \in {0, -1})
         /\ Releases(log[i]) <=> is_put(log[i])
         /\ is_put(log[i]) => ~Acquires(log[i]) /\ log[i].ev \notin {"legitimize", "get"}
         /\ i # NsPutAt /\ log[i].pid = p
<1>1. log[i].result \in {-1, 0, 1}
  BY LogFacts DEF Traced, Kernel, KType, Events
<1> QED BY <1>1, MineIs DEF is_put, Acquires, Releases

(* The caller's drop, up to an event.                                      *)
Dropped(p, i) == IF p = U /\ \E c \in At("caller_drop") : c <= i THEN 1 ELSE 0

LEMMA DroppedFirst ==
  ASSUME Traced
  PROVE  /\ \A i \in DOMAIN log : shape = "umount" /\ i > Ut /\ log[i].pid = U => Dropped(U, i) = 1
         /\ \A i \in DOMAIN log : shape = "umount" /\ i > Ut /\ Mine(U, i) => Dropped(U, i - 1) = 1
         /\ shape = "umount" => Dropped(U, Len(log)) = 1
         /\ shape = "nsdeath" => \A p, i : Dropped(p, i) = 0
         /\ \A c, d \in At("caller_drop") : c = d
         /\ \A i : Dropped(U, i) \in {0, 1} /\ \A p : p # U => Dropped(p, i) = 0
<1>1. Len(log) \in Nat /\ DOMAIN log = 1 .. Len(log) /\ \A i \in DOMAIN log : i \in Nat
  BY LogFacts DEF Traced, Kernel, KType
<1>2. \A c \in At("caller_drop"), i \in DOMAIN log : Ut < i /\ i < c => log[i].pid # U
  BY UtIs DEF Traced, Kernel, Dropping, At
<1>3. \A c \in At("caller_drop") : c \in DOMAIN log /\ log[c].pid = U /\ c > Ut /\ log[c].ev = "caller_drop"
  BY UtIs DEF Traced, Kernel, Dropping, At
<1>4. \A c, d \in At("caller_drop") : c = d
  <2> SUFFICES ASSUME NEW c \in At("caller_drop"), NEW d \in At("caller_drop") PROVE c = d
    OBVIOUS
  <2>1. ~(c < d) /\ ~(d < c) /\ c \in Nat /\ d \in Nat
    BY <1>1, <1>2, <1>3
  <2> QED BY <2>1
<1>5. shape = "umount" <=> At("caller_drop") # {}
  BY DEF shape
<1>6. ASSUME NEW i \in DOMAIN log, shape = "umount", i > Ut, log[i].pid = U
      PROVE  Dropped(U, i) = 1 /\ (Mine(U, i) => Dropped(U, i - 1) = 1)
  <2>1. PICK c : c \in At("caller_drop")
    BY <1>5, <1>6
  <2>2. c <= i
    BY <1>1, <1>2, <1>3, <1>6, <2>1, UtIs
  <2>3. Mine(U, i) => c # i
    BY <1>3, <2>1, MineIs
  <2>4. Mine(U, i) => c <= i - 1
    BY <1>1, <1>3, <2>1, <2>2, <2>3
  <2> QED BY <2>1, <2>2, <2>4 DEF Dropped
<1>7. shape = "umount" => Dropped(U, Len(log)) = 1
  BY <1>1, <1>3, <1>5 DEF Dropped
<1>8. shape = "nsdeath" => \A p, i : Dropped(p, i) = 0
  BY <1>5 DEF Dropped, shape
<1>9. \A i : Dropped(U, i) \in {0, 1} /\ \A p : p # U => Dropped(p, i) = 0
  BY DEF Dropped
<1>10. \A i \in DOMAIN log : Mine(U, i) => log[i].pid = U
  BY MineIs
<1> QED BY <1>4, <1>6, <1>7, <1>8, <1>9, <1>10

(* A ledger is a pass over the log.                                        *)
LEMMA EntriesDef ==
  ASSUME Len(log) \in Nat, NEW p
  PROVE  /\ Entries(p)[0] = Ledger0(p)
         /\ \A i \in 1 .. Len(log) :
              Entries(p)[i] = IF Mine(p, i) THEN Entry(Entries(p)[i - 1], i) ELSE Entries(p)[i - 1]
<1> DEFINE G(f, n) == [i \in 0 .. n |-> IF i = 0 THEN Ledger0(p) ELSE IF Mine(p, i) THEN Entry(f[i - 1], i) ELSE f[i - 1]]
           N == Len(log)
           T == {n \in 0 .. N : \E f : f = G(f, n)}
<1>1. 0 \in T
  <2>1. [i \in 0 .. 0 |-> Ledger0(p)] = G([i \in 0 .. 0 |-> Ledger0(p)], 0)
    OBVIOUS
  <2>2. 0 \in 0 .. N /\ \E f : f = G(f, 0)
    <3> HIDE DEF G
    <3> QED BY <2>1
  <2> QED BY <2>2
<1>2. ASSUME NEW n \in 0 .. N, n # N, n \in T PROVE n + 1 \in T
  <2>1. PICK f : f = G(f, n)
    BY <1>2
  <2> DEFINE g == [i \in 0 .. n + 1 |-> IF i <= n THEN f[i] ELSE IF Mine(p, i) THEN Entry(f[n], i) ELSE f[n]]
  <2>2. ASSUME NEW i \in 0 .. n + 1 PROVE g[i] = G(g, n + 1)[i]
    <3>1. CASE i = 0
      BY <3>1, <2>1
    <3>2. CASE i \in 1 .. n
      <4>1. i \in 0 .. n /\ i - 1 \in 0 .. n /\ i # 0 /\ i - 1 \in 0 .. n + 1
        BY <3>2
      <4>2. g[i] = f[i] /\ g[i - 1] = f[i - 1]
        BY <4>1
      <4>3. f[i] = G(f, n)[i]
        BY <2>1
      <4> QED BY <4>1, <4>2, <4>3
    <3>3. CASE i = n + 1
      <4>1. i - 1 = n /\ i # 0 /\ ~(i <= n) /\ n <= n /\ n \in 0 .. n + 1
        BY <3>3
      <4> QED BY <4>1
    <3> QED BY <3>1, <3>2, <3>3
  <2>3. g = G(g, n + 1)
    BY <2>2
  <2>4. n + 1 \in 0 .. N /\ \E f_ : f_ = G(f_, n + 1)
    <3>1. n + 1 \in 0 .. N
      BY <1>2
    <3> HIDE DEF g, G
    <3> QED BY <2>3, <3>1
  <2> QED BY <2>4
<1>3. N \in T
  <2> HIDE DEF T
  <2>1. 0 .. N \subseteq T
    BY <1>1, <1>2, Inductive
  <2> QED BY <2>1
<1>4. \E f : f = G(f, N)
  BY <1>3
<1>5. Entries(p) = G(Entries(p), N)
  BY <1>4, Zenon DEF Entries
<1> HIDE DEF T
<1> QED BY <1>5

-----------------------------------------------------------------------------

Ledger(p) ==
    [task : [DOMAIN log -> Names(p)], inits : SUBSET DOMAIN log, doomer : Names(p), wk : Nat, hk : Nat,
     open : Seq(DOMAIN log), holder : Names(p), refs : Nat, bare : Nat, own : BOOLEAN, implicit : BOOLEAN]

LEMMA NamesIn == \A p : /\ None \in Names(p) /\ UTask \in Names(p)
                        /\ \A k \in Nat : W(p, k) \in Names(p) /\ H(p, k) \in Names(p)
BY DEF Names

(* What take_own_ref() makes of a ledger.                                  *)
TakenFrom(p, s, t) ==
    /\ t \in Ledger(p) /\ t.own
    /\ t.wk = s.wk /\ t.hk = s.hk /\ t.doomer = s.doomer
    /\ \/ /\ s.open # <<>> /\ t.open = Front(s.open)
          /\ t.task = [s.task EXCEPT ![Last(s.open)] = UTask] /\ t.inits = s.inits \cup {Last(s.open)}
          /\ t.holder = s.holder /\ t.refs = s.refs /\ t.bare = s.bare /\ t.implicit = s.implicit
          /\ Last(s.open) \in DOMAIN log
       \/ /\ s.open = <<>> /\ t.open = s.open /\ s.bare # 0
          /\ t.task = [s.task EXCEPT ![s.bare] = UTask] /\ t.inits = s.inits \cup {s.bare}
          /\ t.holder = None /\ t.refs = 0 /\ t.bare = 0 /\ t.implicit = s.implicit
       \/ /\ s.open = <<>> /\ t.open = s.open /\ s.bare = 0
          /\ t.task = s.task /\ t.inits = s.inits
          /\ t.holder = s.holder /\ t.refs = s.refs /\ t.bare = s.bare /\ t.implicit

LEMMA TakenIs ==
  ASSUME NEW p, NEW s \in Ledger(p), s.bare # 0 => s.bare \in DOMAIN log, NEW t, t = take_own_ref(s)
  PROVE  TakenFrom(p, s, t)
<1>0. None \in Names(p) /\ UTask \in Names(p) /\ 0 \in Nat
  BY NamesIn
<1>1. CASE s.open # <<>>
  <2>1. Last(s.open) \in DOMAIN log /\ Front(s.open) \in Seq(DOMAIN log)
    <3>1. s.open \in Seq(DOMAIN log) /\ Len(s.open) \in Nat /\ Len(s.open) # 0
      BY <1>1, EmptySeq, LenProperties DEF Ledger
    <3>2. s.open[Len(s.open)] \in DOMAIN log
      BY <3>1, ElementOfSeq
    <3>3. SubSeq(s.open, 1, Len(s.open) - 1) \in Seq(DOMAIN log)
      BY <3>1, SubSeqProperties
    <3> QED BY <3>2, <3>3 DEF Last, Front
  <2> DEFINE i == Last(s.open)
             q == Front(s.open)
             f == [s.task EXCEPT ![i] = UTask]
             N == s.inits \cup {i}
  <2>2. t = [s EXCEPT !.own = TRUE, !.task = f, !.inits = N, !.open = q]
    BY <1>1 DEF take_own_ref, Ledger
  <2>3. i \in DOMAIN log /\ q \in Seq(DOMAIN log) /\ f \in [DOMAIN log -> Names(p)] /\ N \in SUBSET DOMAIN log
    BY <1>0, <2>1 DEF Ledger
  <2> HIDE DEF i, q, f, N
  <2>4. t \in Ledger(p) /\ t.own /\ t.task = f /\ t.inits = N /\ t.open = q
        /\ t.wk = s.wk /\ t.hk = s.hk /\ t.doomer = s.doomer /\ t.holder = s.holder /\ t.refs = s.refs
        /\ t.bare = s.bare /\ t.implicit = s.implicit
    BY <2>2, <2>3 DEF Ledger
  <2> QED BY <1>1, <2>3, <2>4 DEF i, q, f, N, TakenFrom
<1>2. CASE s.open = <<>> /\ s.bare # 0
  <2> DEFINE f == [s.task EXCEPT ![s.bare] = UTask]
             N == s.inits \cup {s.bare}
  <2>1. t = [s EXCEPT !.own = TRUE, !.task = f, !.inits = N, !.holder = None, !.refs = 0, !.bare = 0]
    BY <1>2 DEF take_own_ref, Ledger
  <2>3. f \in [DOMAIN log -> Names(p)] /\ N \in SUBSET DOMAIN log
    BY <1>0, <1>2 DEF Ledger
  <2> HIDE DEF f, N
  <2>2. t \in Ledger(p) /\ t.own /\ t.task = f /\ t.inits = N
        /\ t.open = s.open /\ t.wk = s.wk /\ t.hk = s.hk /\ t.doomer = s.doomer /\ t.holder = None /\ t.refs = 0
        /\ t.bare = 0 /\ t.implicit = s.implicit
    <3> DEFINE M == Names(p)
    <3>1. None \in M /\ 0 \in Nat
      BY <1>0
    <3> HIDE DEF M
    <3>2. s \in [task : [DOMAIN log -> M], inits : SUBSET DOMAIN log, doomer : M, wk : Nat, hk : Nat,
                open : Seq(DOMAIN log), holder : M, refs : Nat, bare : Nat, own : BOOLEAN, implicit : BOOLEAN]
      BY DEF M, Ledger
    <3>3. t \in [task : [DOMAIN log -> M], inits : SUBSET DOMAIN log, doomer : M, wk : Nat, hk : Nat,
                open : Seq(DOMAIN log), holder : M, refs : Nat, bare : Nat, own : BOOLEAN, implicit : BOOLEAN]
      BY <2>1, <2>3, <3>1, <3>2 DEF M
    <3> QED BY <2>1, <3>2, <3>3 DEF M, Ledger
  <2> QED BY <1>2, <2>2 DEF f, N, TakenFrom
<1>3. CASE s.open = <<>> /\ s.bare = 0
  <2>1. t = [s EXCEPT !.own = TRUE, !.implicit = TRUE]
    BY <1>3 DEF take_own_ref
  <2>2. t \in Ledger(p) /\ t.own /\ t.task = s.task /\ t.inits = s.inits
        /\ t.open = s.open /\ t.wk = s.wk /\ t.hk = s.hk /\ t.doomer = s.doomer /\ t.holder = s.holder
        /\ t.refs = s.refs /\ t.bare = s.bare /\ t.implicit
    BY <2>1 DEF Ledger
  <2> QED BY <1>3, <2>2 DEF TakenFrom
<1> QED BY <1>1, <1>2, <1>3

(* What a legitimize, a get and a put make of one.                         *)
LegitimizedFrom(p, s, t, i) ==
    /\ t \in Ledger(p)
    /\ t.task = [s.task EXCEPT ![i] = W(p, s.wk + 1)] /\ t.wk = s.wk + 1 /\ W(p, s.wk + 1) \in Names(p)
    /\ t.open = IF log[i].result \in {0, -1} THEN Append(s.open, i) ELSE s.open
    /\ t.inits = s.inits /\ t.doomer = s.doomer /\ t.hk = s.hk /\ t.holder = s.holder /\ t.refs = s.refs
    /\ t.bare = s.bare /\ t.own = s.own /\ t.implicit = s.implicit

LEMMA LegitimizedIs ==
  ASSUME NEW p, NEW s \in Ledger(p), NEW i \in DOMAIN log, log[i].pid = p, NEW t, t = Legitimized(s, i)
  PROVE  LegitimizedFrom(p, s, t, i)
<1> DEFINE f == [s.task EXCEPT ![i] = W(p, s.wk + 1)]
           q == IF log[i].result \in {0, -1} THEN Append(s.open, i) ELSE s.open
           M == Names(p)
<1>1. t = [s EXCEPT !.wk = s.wk + 1, !.task = f, !.open = q]
  BY DEF Legitimized
<1>2. s.wk + 1 \in Nat /\ s.open \in Seq(DOMAIN log)
  BY DEF Ledger
<1>3. q \in Seq(DOMAIN log)
  BY <1>2, AppendProperties
<1>4. W(p, s.wk + 1) \in M
  BY <1>2, NamesIn
<1>5. f \in [DOMAIN log -> M]
  BY <1>4 DEF Ledger
<1> HIDE DEF f, q, M
<1>6. s \in [task : [DOMAIN log -> M], inits : SUBSET DOMAIN log, doomer : M, wk : Nat, hk : Nat,
             open : Seq(DOMAIN log), holder : M, refs : Nat, bare : Nat, own : BOOLEAN, implicit : BOOLEAN]
  BY DEF M, Ledger
<1>7. t \in [task : [DOMAIN log -> M], inits : SUBSET DOMAIN log, doomer : M, wk : Nat, hk : Nat,
             open : Seq(DOMAIN log), holder : M, refs : Nat, bare : Nat, own : BOOLEAN, implicit : BOOLEAN]
  BY <1>1, <1>2, <1>3, <1>5, <1>6
<1>8. /\ t.task = f /\ t.wk = s.wk + 1 /\ t.open = q
      /\ t.inits = s.inits /\ t.doomer = s.doomer /\ t.hk = s.hk /\ t.holder = s.holder /\ t.refs = s.refs
      /\ t.bare = s.bare /\ t.own = s.own /\ t.implicit = s.implicit
  BY <1>1, <1>6
<1> QED BY <1>4, <1>7, <1>8 DEF f, q, M, Ledger, LegitimizedFrom

(* A get.                                                                  *)
GotFrom(p, s, t, i) ==
    /\ t \in Ledger(p)
    /\ t.open = s.open /\ t.doomer = s.doomer /\ t.wk = s.wk /\ t.own = s.own /\ t.implicit = s.implicit
    /\ \/ /\ s.refs = 0 /\ t.refs = 1 /\ t.hk = s.hk + 1 /\ t.holder = H(p, s.hk + 1)
          /\ t.task = [s.task EXCEPT ![i] = H(p, s.hk + 1)] /\ H(p, s.hk + 1) \in Names(p)
          /\ t.inits = s.inits \cup {i} /\ t.bare = i
       \/ /\ s.refs # 0 /\ t.refs = s.refs + 1 /\ t.hk = s.hk /\ t.holder = s.holder
          /\ t.task = [s.task EXCEPT ![i] = s.holder]
          /\ t.inits = s.inits /\ t.bare = 0

LEMMA GotIs ==
  ASSUME NEW p, NEW s \in Ledger(p), NEW i \in DOMAIN log, log[i].pid = p, i \in Nat, NEW t, t = Got(s, i)
  PROVE  GotFrom(p, s, t, i)
<1> DEFINE M == Names(p)
           h == IF s.refs = 0 THEN H(p, s.hk + 1) ELSE s.holder
           k == IF s.refs = 0 THEN s.hk + 1 ELSE s.hk
           f == [s.task EXCEPT ![i] = h]
           N == IF s.refs = 0 THEN s.inits \cup {i} ELSE s.inits
           b == IF s.refs = 0 THEN i ELSE 0
           r == IF s.refs = 0 THEN 1 ELSE s.refs + 1
<1>1. s.hk \in Nat /\ s.refs \in Nat /\ s.holder \in M
  BY DEF Ledger
<1>2. k \in Nat /\ b \in Nat /\ r \in Nat /\ h \in M
  BY <1>1, NamesIn
<1>3. f \in [DOMAIN log -> M] /\ N \in SUBSET DOMAIN log
  BY <1>2 DEF Ledger
<1>4. t = [s EXCEPT !.hk = k, !.holder = h, !.refs = r, !.task = f, !.inits = N, !.bare = b]
  <2> DEFINE FF == {"task", "inits", "doomer", "wk", "hk", "open", "holder", "refs", "bare", "own", "implicit"}
  <2>0. s = [x \in FF |-> s[x]]
    BY DEF Ledger
  <2>1. CASE s.refs = 0
    <3>1. NewHolder(s, i) = [s EXCEPT !.hk = k, !.holder = h, !.refs = 1]
      BY <2>1 DEF NewHolder
    <3>2. NewHolder(s, i).holder = h /\ NewHolder(s, i).task = s.task /\ NewHolder(s, i).inits = s.inits
      BY <2>0, <3>1
    <3>3. t = [NewHolder(s, i) EXCEPT !.task = f, !.inits = N, !.bare = b]
      BY <2>1, <3>2 DEF Got
    <3>4. r = 1
      BY <2>1
    <3> HIDE DEF f, N, b, h, k, r
    <3> QED BY <2>0, <3>1, <3>3, <3>4
  <2>2. CASE s.refs # 0
    <3>1. t = [s EXCEPT !.task = f, !.refs = r, !.bare = 0]
      BY <2>2 DEF Got
    <3>2. N = s.inits /\ k = s.hk /\ h = s.holder /\ b = 0
      BY <2>2
    <3> HIDE DEF f, N, b, h, k, r
    <3> QED BY <2>0, <3>1, <3>2
  <2> QED BY <2>1, <2>2
<1> HIDE DEF M, h, k, f, N, b, r
<1>6. s \in [task : [DOMAIN log -> M], inits : SUBSET DOMAIN log, doomer : M, wk : Nat, hk : Nat,
             open : Seq(DOMAIN log), holder : M, refs : Nat, bare : Nat, own : BOOLEAN, implicit : BOOLEAN]
  BY DEF M, Ledger
<1>7. t \in [task : [DOMAIN log -> M], inits : SUBSET DOMAIN log, doomer : M, wk : Nat, hk : Nat,
             open : Seq(DOMAIN log), holder : M, refs : Nat, bare : Nat, own : BOOLEAN, implicit : BOOLEAN]
  BY <1>2, <1>3, <1>4, <1>6
<1>8. /\ t.hk = k /\ t.holder = h /\ t.refs = r /\ t.task = f /\ t.inits = N /\ t.bare = b
      /\ t.open = s.open /\ t.doomer = s.doomer /\ t.wk = s.wk /\ t.own = s.own /\ t.implicit = s.implicit
  BY <1>4, <1>6
<1> QED BY <1>2, <1>7, <1>8 DEF M, h, k, f, N, b, r, Ledger, GotFrom

(* A put.                                                                  *)
PutFrom(p, s, t, i) ==
    /\ t \in Ledger(p)
    /\ t.inits = s.inits /\ t.wk = s.wk /\ t.own = s.own /\ t.implicit = s.implicit
    /\ \/ /\ s.open # <<>> /\ t.open = Tail(s.open) /\ t.doomer = s.doomer /\ t.hk = s.hk
          /\ t.task = [s.task EXCEPT ![i] = s.task[Head(s.open)]] /\ s.task[Head(s.open)] \in Names(p)
          /\ Head(s.open) \in DOMAIN log
          /\ t.holder = s.holder /\ t.refs = s.refs /\ t.bare = s.bare
       \/ /\ s.open = <<>> /\ t.open = s.open /\ s.refs # 0 /\ t.refs = s.refs - 1
          /\ t.hk = s.hk /\ t.holder = s.holder /\ t.task = [s.task EXCEPT ![i] = s.holder]
          /\ t.bare = 0 /\ t.doomer = IF LastPut(log[i]) THEN s.holder ELSE s.doomer
       \/ /\ s.open = <<>> /\ t.open = s.open /\ s.refs = 0 /\ t.refs = 0
          /\ t.hk = s.hk + 1 /\ t.holder = H(p, s.hk + 1) /\ t.task = [s.task EXCEPT ![i] = H(p, s.hk + 1)]
          /\ H(p, s.hk + 1) \in Names(p)
          /\ t.bare = 0 /\ t.doomer = IF LastPut(log[i]) THEN H(p, s.hk + 1) ELSE s.doomer

LEMMA PutIs ==
  ASSUME NEW p, NEW s \in Ledger(p), NEW i \in DOMAIN log, log[i].pid = p, i \in Nat, NEW t, t = Put(s, i)
  PROVE  PutFrom(p, s, t, i)
<1> DEFINE M == Names(p)
<1>6. s \in [task : [DOMAIN log -> M], inits : SUBSET DOMAIN log, doomer : M, wk : Nat, hk : Nat,
             open : Seq(DOMAIN log), holder : M, refs : Nat, bare : Nat, own : BOOLEAN, implicit : BOOLEAN]
  BY DEF Ledger
<1>1. CASE s.open # <<>>
  <2> DEFINE f == [s.task EXCEPT ![i] = s.task[Head(s.open)]]
             q == Tail(s.open)
  <2>1. Head(s.open) \in DOMAIN log /\ q \in Seq(DOMAIN log)
    <3>1. s.open \in Seq(DOMAIN log)
      BY <1>6
    <3> QED BY <1>1, <3>1, HeadTailProperties
  <2>2. s.task[Head(s.open)] \in M /\ f \in [DOMAIN log -> M]
    BY <2>1, <1>6
  <2>3. t = [s EXCEPT !.task = f, !.open = q]
    BY <1>1 DEF Put
  <2> HIDE DEF M, f, q
  <2>4. t \in [task : [DOMAIN log -> M], inits : SUBSET DOMAIN log, doomer : M, wk : Nat, hk : Nat,
             open : Seq(DOMAIN log), holder : M, refs : Nat, bare : Nat, own : BOOLEAN, implicit : BOOLEAN]
    BY <2>1, <2>2, <2>3, <1>6
  <2>5. /\ t.task = f /\ t.open = q /\ t.hk = s.hk /\ t.holder = s.holder /\ t.refs = s.refs /\ t.inits = s.inits
        /\ t.bare = s.bare /\ t.doomer = s.doomer /\ t.wk = s.wk /\ t.own = s.own /\ t.implicit = s.implicit
    BY <2>3, <1>6
  <2> QED BY <1>1, <2>1, <2>2, <2>4, <2>5 DEF M, f, q, Ledger, PutFrom
<1>2. CASE s.open = <<>>
  <2> DEFINE h == IF s.refs = 0 THEN H(p, s.hk + 1) ELSE s.holder
             k == IF s.refs = 0 THEN s.hk + 1 ELSE s.hk
             f == [s.task EXCEPT ![i] = h]
             d == IF LastPut(log[i]) THEN h ELSE s.doomer
             r == IF s.refs = 0 THEN 0 ELSE s.refs - 1
  <2>1. s.hk \in Nat /\ s.refs \in Nat /\ s.holder \in M /\ s.doomer \in M
    BY <1>6
  <2>2. k \in Nat /\ r \in Nat /\ h \in M /\ d \in M /\ 0 \in Nat
    BY <2>1, NamesIn
  <2>3. f \in [DOMAIN log -> M]
    BY <2>2, <1>6
  <2> DEFINE FF == {"task", "inits", "doomer", "wk", "hk", "open", "holder", "refs", "bare", "own", "implicit"}
  <2>0. s = [x \in FF |-> s[x]]
    BY <1>6
  <2>4. t = [s EXCEPT !.hk = k, !.holder = h, !.refs = r, !.task = f, !.bare = 0, !.doomer = d]
    <3> DEFINE g == IF s.refs = 0 THEN NewHolder(s, i) ELSE s
    <3>1. g = [s EXCEPT !.hk = k, !.holder = h, !.refs = r + 1]
      <4>1. CASE s.refs = 0
        <5>1. k = s.hk + 1 /\ h = H(p, s.hk + 1) /\ r + 1 = 1
          BY <4>1
        <5> HIDE DEF k, h, r
        <5> QED BY <4>1, <5>1 DEF NewHolder
      <4>2. CASE s.refs # 0
        <5>1. k = s.hk /\ h = s.holder /\ r + 1 = s.refs
          BY <4>2, <2>1
        <5> HIDE DEF k, h, r
        <5> QED BY <4>2, <5>1, <2>0
      <4> QED BY <4>1, <4>2
    <3>2. g.holder = h /\ g.task = s.task /\ g.doomer = s.doomer /\ g.refs = r + 1
      <4> HIDE DEF g, h, k, r
      <4> QED BY <2>0, <3>1
    <3>3. t = [g EXCEPT !.task = f, !.refs = g.refs - 1, !.bare = 0, !.doomer = d]
      <4>1. t = [g EXCEPT !.task = [g.task EXCEPT ![i] = g.holder], !.refs = g.refs - 1, !.bare = 0,
                          !.doomer = IF LastPut(log[i]) THEN g.holder ELSE g.doomer]
        BY <1>2 DEF Put
      <4> HIDE DEF g, h, k, r
      <4> QED BY <4>1, <3>2
    <3>4. g.refs - 1 = r
      <4> HIDE DEF g
      <4> QED BY <3>2, <2>2
    <3> HIDE DEF f, h, k, r, d, g
    <3> QED BY <2>0, <3>1, <3>3, <3>4
  <2> HIDE DEF M, h, k, f, d, r
  <2>5. t \in [task : [DOMAIN log -> M], inits : SUBSET DOMAIN log, doomer : M, wk : Nat, hk : Nat,
             open : Seq(DOMAIN log), holder : M, refs : Nat, bare : Nat, own : BOOLEAN, implicit : BOOLEAN]
    BY <2>2, <2>3, <2>4, <1>6
  <2>6. /\ t.hk = k /\ t.holder = h /\ t.refs = r /\ t.task = f /\ t.bare = 0 /\ t.doomer = d
        /\ t.open = s.open /\ t.inits = s.inits /\ t.wk = s.wk /\ t.own = s.own /\ t.implicit = s.implicit
    BY <2>4, <1>6
  <2> QED BY <1>2, <2>2, <2>5, <2>6 DEF M, h, k, f, d, r, Ledger, PutFrom
<1> QED BY <1>1, <1>2

-----------------------------------------------------------------------------
(* What a ledger says after an event *)

Holders(task) == {n \in {task[j] : j \in DOMAIN log} : Holder(n)}
IsOk(j)       == log[j].ev = "legitimize" /\ log[j].result \in {0, -1}

(* Exactly the pid's events so far have tasks, and new names are not used. *)
Assigned(p, s, i) ==
    /\ \A j \in DOMAIN log : s.task[j] # None <=> j <= i /\ Mine(p, j)
    /\ \A j \in DOMAIN log, k \in Nat : (s.task[j] = W(p, k) => k <= s.wk) /\ (s.task[j] = H(p, k) => k <= s.hk)

(* A walker has one legitimize, and at most one put, of its reference.     *)
Walking(s) ==
    /\ \A j \in DOMAIN log : Walker(s.task[j]) => log[j].ev = "legitimize" \/ is_put(log[j])
    /\ \A j \in DOMAIN log : Walker(s.task[j]) /\ is_put(log[j])
         => \E x \in DOMAIN log : x < j /\ IsOk(x) /\ s.task[x] = s.task[j]
    /\ \A x, y \in DOMAIN log : Walker(s.task[x]) /\ s.task[x] = s.task[y]
         => (log[x].ev = "legitimize" /\ log[y].ev = "legitimize" => x = y) /\ (is_put(log[x]) /\ is_put(log[y]) => x = y)

(* An open walker's legitimize is the only event that it has.              *)
Opened(s) ==
    /\ \A a \in 1 .. Len(s.open) :
          /\ IsOk(s.open[a]) /\ Walker(s.task[s.open[a]])
          /\ \A j \in DOMAIN log : s.task[j] = s.task[s.open[a]] => j = s.open[a]
    /\ \A a, b \in 1 .. Len(s.open) : s.open[a] = s.open[b] => a = b

(* A holder that has references has events, and one get if it is bare.     *)
Holding(s) ==
    /\ s.refs # 0 => Holder(s.holder) /\ \E j \in DOMAIN log : s.task[j] = s.holder
    /\ s.bare # 0 => /\ s.bare \in s.inits /\ s.refs = 1 /\ log[s.bare].ev = "get" /\ s.task[s.bare] = s.holder
                     /\ \A j \in DOMAIN log : s.task[j] = s.holder => j = s.bare
    /\ \A j \in DOMAIN log : Holder(s.task[j]) => log[j].ev = "get" \/ is_put(log[j])

(* What became part of the model's Init acquired a reference.              *)
Starting(s) ==
    /\ \A j \in s.inits : Acquires(log[j]) /\ s.task[j] # None /\ ~Walker(s.task[j])
    /\ \A j \in DOMAIN log : s.task[j] = UTask => j \in s.inits

(* U's own reference is taken care of after the caller's drop.             *)
Owned(p, s, i) ==
    /\ p # U => s.own
    /\ s.own /\ p = U /\ shape = "umount" => Dropped(U, i) = 1
    /\ s.implicit => p = U /\ s.own

Dooming(p, s, i) == s.doomer # None => \E j \in DOMAIN log : j <= i /\ Mine(p, j) /\ LastPut(log[j])

(* The model has as many references as the kernel, and starts with as many *)
(* holders as there were references and acquisitions that it starts after. *)
Starters(s)     == Cardinality(Holders(s.task))
Started(s)      == Cardinality(s.inits)
References(s)   == Len(s.open) + s.refs
Undropped(p, i) == Balance(p, i) + Dropped(p, i)
Counted(p, s, i) ==
    /\ Undropped(p, i) + Starters(s) = before[p] + Started(s) + References(s)
    /\ Starters(s) + (IF p = U /\ s.own /\ shape = "umount" /\ ~s.implicit THEN 1 ELSE 0) <= before[p] + Started(s)
    /\ Started(s) <= Starters(s) + (IF p = U /\ s.own THEN 1 ELSE 0)

LInv(p, s, i) ==
    /\ s \in Ledger(p)
    /\ Assigned(p, s, i) /\ Walking(s) /\ Opened(s) /\ Holding(s) /\ Starting(s) /\ Owned(p, s, i) /\ Dooming(p, s, i)
    /\ OwnPuts => Counted(p, s, i)

LEMMA LogIs ==
  ASSUME Traced
  PROVE  /\ log \in Seq(Events) /\ Len(log) \in Nat /\ DOMAIN log = 1 .. Len(log) /\ IsFiniteSet(DOMAIN log)
         /\ \A i \in DOMAIN log : i \in Nat /\ i # 0 /\ i <= Len(log) /\ log[i] \in Events
         /\ before \in [Pids -> 0 .. 1]
BY LogFacts DEF Traced, Kernel, KType

LEMMA LedgerIs ==
  ASSUME NEW p, NEW s \in Ledger(p)
  PROVE  /\ s.task \in [DOMAIN log -> Names(p)] /\ s.inits \subseteq DOMAIN log
         /\ s.open \in Seq(DOMAIN log) /\ Len(s.open) \in Nat /\ DOMAIN s.open = 1 .. Len(s.open)
         /\ \A a \in 1 .. Len(s.open) : s.open[a] \in DOMAIN log
         /\ s.wk \in Nat /\ s.hk \in Nat /\ s.refs \in Nat /\ s.bare \in Nat
         /\ s.holder \in Names(p) /\ s.doomer \in Names(p)
         /\ s.own \in BOOLEAN /\ s.implicit \in BOOLEAN
<1>1. /\ s.task \in [DOMAIN log -> Names(p)] /\ s.inits \subseteq DOMAIN log
      /\ s.open \in Seq(DOMAIN log)
      /\ s.wk \in Nat /\ s.hk \in Nat /\ s.refs \in Nat /\ s.bare \in Nat
      /\ s.holder \in Names(p) /\ s.doomer \in Names(p)
      /\ s.own \in BOOLEAN /\ s.implicit \in BOOLEAN
  BY DEF Ledger
<1>2. Len(s.open) \in Nat /\ DOMAIN s.open = 1 .. Len(s.open) /\ \A a \in 1 .. Len(s.open) : s.open[a] \in DOMAIN log
  BY <1>1, LenProperties, ElementOfSeq
<1> QED BY <1>1, <1>2

LEMMA HoldersChange ==
  ASSUME IsFiniteSet(DOMAIN log), NEW S, NEW task \in [DOMAIN log -> S], NEW i \in DOMAIN log, NEW n,
         NEW f, f = [task EXCEPT ![i] = n]
  PROVE  /\ IsFiniteSet(Holders(task)) /\ Cardinality(Holders(task)) \in Nat
         /\ IsFiniteSet(Holders(f)) /\ Cardinality(Holders(f)) \in Nat
         /\ ~Holder(task[i]) /\ ~Holder(n) => Holders(f) = Holders(task)
         /\ ~Holder(task[i]) /\ Holder(n) => Holders(f) = Holders(task) \cup {n}
         /\ Holder(task[i]) /\ ~Holder(n) /\ (\A j \in DOMAIN log : task[j] = task[i] => j = i)
              => Holders(f) = Holders(task) \ {task[i]} /\ task[i] \in Holders(task)
<1>1. \A g : IsFiniteSet(Holders(g)) /\ Cardinality(Holders(g)) \in Nat
  <2> SUFFICES ASSUME NEW g PROVE IsFiniteSet(Holders(g)) /\ Cardinality(Holders(g)) \in Nat
    OBVIOUS
  <2>1. IsFiniteSet({g[j] : j \in DOMAIN log})
    <3> DEFINE T == {g[j] : j \in DOMAIN log}
               h == [j \in DOMAIN log |-> g[j]]
    <3>1. h \in Surjection(DOMAIN log, T)
      BY DEF Surjection
    <3> HIDE DEF h
    <3> QED BY <3>1, FS_Surjection
  <2>2. Holders(g) \subseteq {g[j] : j \in DOMAIN log}
    BY DEF Holders
  <2> QED BY <2>1, <2>2, FS_Subset, FS_CardinalityType
<1>2. f[i] = n /\ \A j \in DOMAIN log : j # i => f[j] = task[j]
  OBVIOUS
<1>3. \A g : \A h : h \in Holders(g) <=> Holder(h) /\ \E j \in DOMAIN log : h = g[j]
  BY DEF Holders
<1>4. \A h : h \in Holders(f) <=> Holder(h) /\ (h = n \/ \E j \in DOMAIN log : j # i /\ h = task[j])
  <2> SUFFICES ASSUME NEW h
               PROVE  h \in Holders(f) <=> Holder(h) /\ (h = n \/ \E j \in DOMAIN log : j # i /\ h = task[j])
    OBVIOUS
  <2>1. (\E j \in DOMAIN log : h = f[j]) <=> h = n \/ \E j \in DOMAIN log : j # i /\ h = task[j]
    BY <1>2
  <2>2. h \in Holders(f) <=> Holder(h) /\ \E j \in DOMAIN log : h = f[j]
    BY DEF Holders
  <2> QED BY <2>1, <2>2
<1>5. \A h : h \in Holders(task) <=> Holder(h) /\ (h = task[i] \/ \E j \in DOMAIN log : j # i /\ h = task[j])
  BY <1>3
<1> QED BY <1>1, <1>4, <1>5

(* What an event does to a pid's references besides the caller's drop.     *)
LEMMA LedgerStep ==
  ASSUME Traced, NEW p \in Pids, NEW i \in DOMAIN log
  PROVE  /\ Balance(p, i) \in Int /\ Balance(p, i - 1) \in Int
         /\ Dropped(p, i) \in 0 .. 1 /\ Dropped(p, i - 1) \in 0 .. 1 /\ Dropped(p, i - 1) <= Dropped(p, i)
         /\ before[p] \in 0 .. 1
         /\ Undropped(p, i) = Undropped(p, i - 1)
              + (IF ~Mine(p, i) THEN 0 ELSE IF Acquires(log[i]) THEN 1 ELSE IF is_put(log[i]) THEN -1 ELSE 0)
<1>1. /\ Balance(p, i) \in Int /\ Balance(p, i - 1) \in Int
      /\ Balance(p, i) = Balance(p, i - 1)
              + (IF log[i].pid # p THEN 0
                 ELSE IF Acquires(log[i]) THEN 1
                 ELSE IF Releases(log[i]) /\ i # NsPutAt THEN -1 ELSE 0)
  BY LogIs, BalanceStep
<1>3. \A c \in At("caller_drop") : c \in DOMAIN log /\ log[c].pid = U /\ log[c].ev = "caller_drop"
  BY DEF Traced, Kernel, Dropping, At
<1>4. Dropped(p, i) = Dropped(p, i - 1) + (IF log[i].ev = "caller_drop" /\ log[i].pid = p THEN 1 ELSE 0)
  <2>1. i \in Nat /\ \A c \in DOMAIN log : c \in Nat
    BY LogIs
  <2>2. CASE log[i].ev = "caller_drop" /\ log[i].pid = p
    <3>1. i \in At("caller_drop") /\ p = U /\ i <= i
      BY <1>3, <2>1, <2>2 DEF At
    <3>2. \A c \in At("caller_drop") : c = i
      BY <3>1, DroppedFirst
    <3>3. Dropped(p, i) = 1 /\ Dropped(p, i - 1) = 0
      BY <2>1, <3>1, <3>2 DEF Dropped
    <3> QED BY <2>2, <3>3
  <2>3. CASE ~(log[i].ev = "caller_drop" /\ log[i].pid = p)
    <3>1. p = U => i \notin At("caller_drop")
      BY <1>3, <2>3 DEF At
    <3>2. p = U => \A c \in At("caller_drop") : c <= i <=> c <= i - 1
      BY <1>3, <2>1, <3>1
    <3>3. Dropped(p, i) = Dropped(p, i - 1)
      BY <3>2 DEF Dropped
    <3> QED BY <2>3, <3>3 DEF Dropped
  <2> QED BY <2>2, <2>3
<1>5. Dropped(p, i - 1) \in 0 .. 1 /\ Dropped(p, i) \in 0 .. 1
  BY DEF Dropped
<1>6. before[p] \in 0 .. 1
  BY LogIs
<1>7. /\ Mine(p, i) => log[i].pid = p /\ i # NsPutAt /\ log[i].ev # "caller_drop" /\ (Releases(log[i]) <=> is_put(log[i]))
                       /\ (is_put(log[i]) => ~Acquires(log[i]))
      /\ ~Mine(p, i) /\ log[i].pid = p => ~Acquires(log[i]) /\ (Releases(log[i]) /\ i # NsPutAt <=> log[i].ev = "caller_drop")
  <2>1. Mine(p, i) <=> log[i].pid = p /\ log[i].ev \in {"legitimize", "get", "put_fast", "slowpath"} /\ i # NsPutAt
    BY MineIs
  <2>2. log[i].ev \in {"legitimize", "get", "put_fast", "caller_drop"} => i # NsPutAt
    BY MineIs
  <2> QED BY <2>1, <2>2 DEF Acquires, Releases, is_put
<1> QED BY <1>1, <1>4, <1>5, <1>6, <1>7 DEF Undropped

LEMMA Numbers ==
  ASSUME Traced, NEW p \in Pids, NEW s \in Ledger(p), NEW i \in 0 .. Len(log)
  PROVE  /\ Starters(s) \in Nat /\ Started(s) \in Nat /\ References(s) \in Nat
         /\ before[p] \in 0 .. 1 /\ Dropped(p, i) \in 0 .. 1 /\ Balance(p, i) \in Int /\ Undropped(p, i) \in Int
         /\ OwnPuts => Balance(p, i) \in Nat /\ Undropped(p, i) \in Nat
         /\ IsFiniteSet(s.inits) /\ IsFiniteSet(Holders(s.task))
<1>1. IsFiniteSet(s.inits) /\ Started(s) \in Nat
  BY LogIs, LedgerIs, FS_Subset, FS_CardinalityType DEF Started
<1>2. IsFiniteSet(Holders(s.task)) /\ Starters(s) \in Nat
  <2>1. CASE DOMAIN log = {}
    <3>1. Holders(s.task) = {}
      BY <2>1 DEF Holders
    <3> QED BY <3>1, FS_EmptySet DEF Starters
  <2>2. CASE DOMAIN log # {}
    BY <2>2, LogIs, LedgerIs, HoldersChange DEF Starters
  <2> QED BY <2>1, <2>2
<1>3. Balance(p, i) \in Int
  <2>1. before[p] \in Nat /\ Cardinality(Acqs({p}, i)) \in Nat /\ Cardinality(Rels({p}, i)) \in Nat
    BY LogIs, Counts
  <2> QED BY <2>1 DEF Balance
<1>5. OwnPuts => Balance(p, i) >= 0
  BY DEF OwnPuts
<1>4. Len(s.open) \in Nat /\ s.refs \in Nat /\ before[p] \in 0 .. 1 /\ Dropped(p, i) \in 0 .. 1
  BY LedgerIs, LogIs DEF Dropped
<1> QED BY <1>1, <1>2, <1>3, <1>4, <1>5 DEF References, Undropped

LEMMA SkipKept ==
  ASSUME Traced, NEW p \in Pids, NEW i \in DOMAIN log, ~Mine(p, i), NEW s, LInv(p, s, i - 1)
  PROVE  LInv(p, s, i)
<1>1. \A j \in DOMAIN log : j \in Nat /\ (j # i => (j <= i <=> j <= i - 1))
  BY LogIs
<1>2. Assigned(p, s, i)
  BY <1>1 DEF LInv, Assigned
<1>3. Dooming(p, s, i)
  BY <1>1 DEF LInv, Dooming
<1>4. /\ Balance(p, i) \in Int /\ Balance(p, i - 1) \in Int
      /\ Dropped(p, i) \in 0 .. 1 /\ Dropped(p, i - 1) \in 0 .. 1 /\ Dropped(p, i - 1) <= Dropped(p, i)
      /\ Undropped(p, i) = Undropped(p, i - 1) + 0
  BY LedgerStep
<1>5. Owned(p, s, i)
  BY <1>4 DEF LInv, Owned
<1>6. OwnPuts => Counted(p, s, i)
  <2>1. Undropped(p, i) = Undropped(p, i - 1)
    BY <1>4 DEF Undropped
  <2> QED BY <2>1 DEF LInv, Counted
<1> QED BY <1>2, <1>3, <1>5, <1>6 DEF LInv

(* An acquisition that is the only event of its task becomes U's.          *)
Recasted(p, t, i) ==
    /\ Assigned(p, t, i) /\ Walking(t) /\ Starting(t) /\ Dooming(p, t, i)
    /\ \A j \in DOMAIN log : Holder(t.task[j]) => log[j].ev = "get" \/ is_put(log[j])

LEMMA Recast ==
  ASSUME Traced, NEW p \in Pids, NEW i, NEW s, LInv(p, s, i), NEW t \in Ledger(p),
         NEW x \in DOMAIN log, t.task = [s.task EXCEPT ![x] = UTask], t.inits = s.inits \cup {x},
         Acquires(log[x]), Walker(s.task[x]) \/ Holder(s.task[x]),
         \A j \in DOMAIN log : s.task[j] = s.task[x] => j = x,
         t.wk = s.wk, t.hk = s.hk, t.doomer = s.doomer
  PROVE  Recasted(p, t, i)
<1>1. s.task \in [DOMAIN log -> Names(p)]
  BY LedgerIs DEF LInv
<1>2. t.task[x] = UTask /\ \A j \in DOMAIN log : j # x => t.task[j] = s.task[j]
  BY <1>1
<1>3. ~Walker(UTask) /\ ~Holder(UTask) /\ UTask # None /\ (\A k : UTask # W(p, k) /\ UTask # H(p, k)) /\ s.task[x] # None
  BY NameFacts
<1>4. Assigned(p, t, i)
  <2>1. \A j \in DOMAIN log : t.task[j] # None <=> s.task[j] # None
    BY <1>2, <1>3
  <2>2. \A j \in DOMAIN log, k \in Nat : (t.task[j] = W(p, k) => k <= s.wk) /\ (t.task[j] = H(p, k) => k <= s.hk)
    BY <1>2, <1>3 DEF LInv, Assigned
  <2> QED BY <2>1, <2>2 DEF LInv, Assigned
<1>5. Walking(t)
  <2>1. \A j \in DOMAIN log : Walker(t.task[j]) => j # x /\ t.task[j] = s.task[j] /\ Walker(s.task[j]) /\ s.task[j] # s.task[x]
    BY <1>2, <1>3
  <2>2. ASSUME NEW j \in DOMAIN log, Walker(t.task[j]), is_put(log[j])
        PROVE  \E y \in DOMAIN log : y < j /\ IsOk(y) /\ t.task[y] = t.task[j]
    <3>1. PICK y \in DOMAIN log : y < j /\ IsOk(y) /\ s.task[y] = s.task[j]
      BY <2>1, <2>2 DEF LInv, Walking
    <3>2. y # x
      BY <2>1, <2>2, <3>1
    <3> QED BY <1>2, <2>1, <2>2, <3>1, <3>2
  <2>3. \A j \in DOMAIN log : Walker(t.task[j]) => log[j].ev = "legitimize" \/ is_put(log[j])
    BY <2>1 DEF LInv, Walking
  <2>4. \A y, z \in DOMAIN log : Walker(t.task[y]) /\ t.task[y] = t.task[z]
         => (log[y].ev = "legitimize" /\ log[z].ev = "legitimize" => y = z) /\ (is_put(log[y]) /\ is_put(log[z]) => y = z)
    BY <2>1 DEF LInv, Walking
  <2> QED BY <2>2, <2>3, <2>4 DEF Walking
<1>6. Starting(t)
  <2>1. \A j \in t.inits : Acquires(log[j]) /\ t.task[j] # None /\ ~Walker(t.task[j])
    <3> SUFFICES ASSUME NEW j \in t.inits PROVE Acquires(log[j]) /\ t.task[j] # None /\ ~Walker(t.task[j])
      OBVIOUS
    <3>1. CASE j = x
      BY <1>2, <1>3, <3>1
    <3>2. CASE j # x
      <4>1. j \in s.inits /\ j \in DOMAIN log
        BY <3>2, LedgerIs DEF LInv
      <4> QED BY <1>2, <3>2, <4>1 DEF LInv, Starting
    <3> QED BY <3>1, <3>2
  <2>2. \A j \in DOMAIN log : t.task[j] = UTask => j \in t.inits
    BY <1>2 DEF LInv, Starting
  <2> QED BY <2>1, <2>2 DEF Starting
<1>7. Dooming(p, t, i)
  BY DEF LInv, Dooming
<1>8. \A j \in DOMAIN log : Holder(t.task[j]) => log[j].ev = "get" \/ is_put(log[j])
  BY <1>2, <1>3 DEF LInv, Holding
<1> QED BY <1>4, <1>5, <1>6, <1>7, <1>8 DEF Recasted

LEMMA LedgerHolders ==
  ASSUME Traced, NEW p, NEW s \in Ledger(p), NEW i \in DOMAIN log, NEW n, NEW f, f = [s.task EXCEPT ![i] = n]
  PROVE  /\ ~Holder(s.task[i]) /\ ~Holder(n) => Holders(f) = Holders(s.task)
         /\ ~Holder(s.task[i]) /\ Holder(n) => Holders(f) = Holders(s.task) \cup {n}
         /\ Holder(s.task[i]) /\ ~Holder(n) /\ (\A j \in DOMAIN log : s.task[j] = s.task[i] => j = i)
              => Holders(f) = Holders(s.task) \ {s.task[i]} /\ s.task[i] \in Holders(s.task)
<1> DEFINE task == s.task
           S == Names(p)
<1>1. task \in [DOMAIN log -> S]
  BY LedgerIs
<1>2. IsFiniteSet(DOMAIN log)
  BY LogIs
<1>3. f = [task EXCEPT ![i] = n]
  OBVIOUS
<1> HIDE DEF task, S
<1>4. /\ ~Holder(task[i]) /\ ~Holder(n) => Holders(f) = Holders(task)
      /\ ~Holder(task[i]) /\ Holder(n) => Holders(f) = Holders(task) \cup {n}
      /\ Holder(task[i]) /\ ~Holder(n) /\ (\A j \in DOMAIN log : task[j] = task[i] => j = i)
              => Holders(f) = Holders(task) \ {task[i]} /\ task[i] \in Holders(task)
  BY <1>1, <1>2, <1>3, HoldersChange
<1> QED BY <1>4 DEF task

(* A sequence without its last element.                                    *)
LEMMA FrontIs ==
  ASSUME NEW S, NEW q \in Seq(S), q # <<>>
  PROVE  /\ Len(q) \in Nat \ {0} /\ Last(q) = q[Len(q)] /\ Len(q) \in 1 .. Len(q)
         /\ Len(Front(q)) = Len(q) - 1 /\ \A a \in 1 .. Len(Front(q)) : Front(q)[a] = q[a] /\ a \in 1 .. Len(q) /\ a # Len(q)
<1>1. Len(q) \in Nat /\ Len(q) # 0
  BY EmptySeq, LenProperties
<1>2. Len(SubSeq(q, 1, Len(q) - 1)) = Len(q) - 1 /\ \A a \in 1 .. Len(q) - 1 : SubSeq(q, 1, Len(q) - 1)[a] = q[a]
  BY <1>1, SubSeqProperties
<1> QED BY <1>1, <1>2 DEF Front, Last

(* One reference less, because of one acquisition more that the model      *)
(* starts after, or one holder less that it starts with.                   *)
LEMMA CountedTaken ==
  ASSUME NEW p, p = U, NEW i, NEW s, NEW t, before[p] \in 0 .. 1, Undropped(p, i) \in Nat,
         Starters(s) \in Nat, Started(s) \in Nat, References(s) \in Nat,
         Undropped(p, i) + Starters(s) = before[p] + Started(s) + References(s),
         Starters(s) <= before[p] + Started(s), Started(s) <= Starters(s), References(t) = References(s) - 1,
         \/ Started(t) = Started(s) + 1 /\ Starters(t) = Starters(s)
         \/ Started(t) = Started(s) /\ Starters(t) = Starters(s) - 1,
         t.own
  PROVE  Counted(p, t, i)
<1>1. Undropped(p, i) + Starters(t) = before[p] + Started(t) + References(t)
  <2>1. CASE Started(t) = Started(s) + 1 /\ Starters(t) = Starters(s)
    BY <2>1
  <2>2. CASE Started(t) = Started(s) /\ Starters(t) = Starters(s) - 1
    BY <2>2
  <2> QED BY <2>1, <2>2
<1>2. Starters(t) + 1 <= before[p] + Started(t) /\ Started(t) <= Starters(t) + 1 /\ Starters(t) + 0 <= before[p] + Started(t)
  OBVIOUS
<1> QED BY <1>1, <1>2 DEF Counted

LEMMA TakenKept ==
  ASSUME Traced, NEW p \in Pids, NEW i \in 0 .. Len(log), NEW s, LInv(p, s, i), ~s.own,
         shape = "umount" => Dropped(U, i) = 1,
         NEW t, t = take_own_ref(s)
  PROVE  LInv(p, t, i) /\ t.own
<1>0. p = U /\ ~s.implicit /\ s \in Ledger(p)
  BY DEF LInv, Owned
<1>1. s.bare # 0 => s.bare \in DOMAIN log
  BY LedgerIs DEF LInv, Holding
<1>9. TakenFrom(p, s, t)
  BY <1>0, <1>1, TakenIs
<1>2. /\ t \in Ledger(p) /\ t.own
      /\ t.wk = s.wk /\ t.hk = s.hk /\ t.doomer = s.doomer
  BY <1>9 DEF TakenFrom
<1>3. Owned(p, t, i)
  BY <1>0, <1>2 DEF Owned
<1>4. /\ Starters(s) \in Nat /\ Started(s) \in Nat /\ References(s) \in Nat
      /\ before[p] \in 0 .. 1 /\ (OwnPuts => Undropped(p, i) \in Nat)
      /\ IsFiniteSet(s.inits) /\ IsFiniteSet(Holders(s.task))
  BY <1>0, Numbers
<1>5. OwnPuts =>
        /\ Undropped(p, i) + Starters(s) = before[p] + Started(s) + References(s)
        /\ Starters(s) <= before[p] + Started(s)
        /\ Started(s) <= Starters(s)
  BY <1>0, <1>4 DEF LInv, Counted
<1>6. CASE /\ s.open # <<>> /\ t.open = Front(s.open)
           /\ t.task = [s.task EXCEPT ![Last(s.open)] = UTask] /\ t.inits = s.inits \cup {Last(s.open)}
           /\ t.holder = s.holder /\ t.refs = s.refs /\ t.bare = s.bare /\ t.implicit = s.implicit
           /\ Last(s.open) \in DOMAIN log
  <2> DEFINE x == Last(s.open)
             n == Len(s.open)
  <2>1. n \in 1 .. n /\ x = s.open[n] /\ Len(t.open) = n - 1 /\ \A a \in 1 .. Len(t.open) : t.open[a] = s.open[a] /\ a \in 1 .. n /\ a # n
    <3>1. s.open \in Seq(DOMAIN log)
      BY <1>0, LedgerIs
    <3> DEFINE q == s.open
    <3>2. q \in Seq(DOMAIN log) /\ q # <<>>
      BY <1>6, <3>1
    <3> HIDE DEF q
    <3>3. /\ Len(q) \in Nat \ {0} /\ Last(q) = q[Len(q)] /\ Len(q) \in 1 .. Len(q)
          /\ Len(Front(q)) = Len(q) - 1 /\ \A a \in 1 .. Len(Front(q)) : Front(q)[a] = q[a] /\ a \in 1 .. Len(q) /\ a # Len(q)
      BY <3>2, FrontIs
    <3>4. t.open = Front(q) /\ x = Last(q) /\ n = Len(q)
      BY <1>6 DEF q
    <3> HIDE DEF x, n
    <3>5. n \in 1 .. n /\ x = q[n] /\ Len(t.open) = n - 1 /\ \A a \in 1 .. Len(t.open) : t.open[a] = q[a] /\ a \in 1 .. n /\ a # n
      BY <3>3, <3>4
    <3> QED BY <3>5 DEF q
  <2>2. IsOk(x) /\ Walker(s.task[x]) /\ \A j \in DOMAIN log : s.task[j] = s.task[x] => j = x
    BY <2>1 DEF LInv, Opened
  <2>3. Acquires(log[x]) /\ x \in DOMAIN log /\ t.task = [s.task EXCEPT ![x] = UTask] /\ t.inits = s.inits \cup {x}
    BY <1>6, <2>2 DEF Acquires, IsOk
  <2>9. n = Len(s.open) /\ Opened(s)
    BY DEF LInv
  <2> HIDE DEF x, n
  <2>4. Assigned(p, t, i) /\ Walking(t) /\ Starting(t) /\ Dooming(p, t, i)
        /\ \A j \in DOMAIN log : Holder(t.task[j]) => log[j].ev = "get" \/ is_put(log[j])
    <3>1. LInv(p, s, i) /\ t \in Ledger(p) /\ x \in DOMAIN log /\ Acquires(log[x])
      BY <1>2, <2>3
    <3>2. t.task = [s.task EXCEPT ![x] = UTask] /\ t.inits = s.inits \cup {x}
      BY <2>3
    <3>3. /\ Walker(s.task[x]) \/ Holder(s.task[x])
          /\ \A j \in DOMAIN log : s.task[j] = s.task[x] => j = x
      BY <2>2
    <3>4. t.wk = s.wk /\ t.hk = s.hk /\ t.doomer = s.doomer
      BY <1>2
    <3>5. Recasted(p, t, i)
      BY <3>1, <3>2, <3>3, <3>4, Recast
    <3> QED BY <3>5 DEF Recasted
  <2>5. \A j \in DOMAIN log : j # x => t.task[j] = s.task[j]
    BY <1>0, <2>3, LedgerIs
  <2>6. Opened(t)
    <3>1. \A a \in 1 .. Len(t.open) : t.open[a] \in DOMAIN log /\ t.open[a] # x
      <4>1. \A a \in 1 .. n : s.open[a] \in DOMAIN log
        BY <1>0, <2>9, LedgerIs
      <4>2. \A a \in 1 .. n : s.open[a] = s.open[n] => a = n
        BY <2>1, <2>9 DEF Opened
      <4> QED BY <2>1, <4>1, <4>2
    <3>2. t.task[x] = UTask /\ ~Walker(UTask)
      BY <1>0, <2>3, LedgerIs, NameFacts
    <3>3. ASSUME NEW a \in 1 .. Len(t.open)
          PROVE  /\ IsOk(t.open[a]) /\ Walker(t.task[t.open[a]])
                 /\ \A j \in DOMAIN log : t.task[j] = t.task[t.open[a]] => j = t.open[a]
      <4>1. /\ IsOk(t.open[a]) /\ Walker(s.task[t.open[a]]) /\ t.task[t.open[a]] = s.task[t.open[a]]
            /\ \A j \in DOMAIN log : s.task[j] = s.task[t.open[a]] => j = t.open[a]
        <5>1. a \in 1 .. n /\ t.open[a] = s.open[a] /\ t.open[a] \in DOMAIN log /\ t.open[a] # x
          BY <2>1, <3>1
        <5>2. /\ IsOk(s.open[a]) /\ Walker(s.task[s.open[a]])
              /\ \A j \in DOMAIN log : s.task[j] = s.task[s.open[a]] => j = s.open[a]
          BY <2>9, <5>1 DEF Opened
        <5> QED BY <2>5, <5>1, <5>2
      <4> QED BY <2>5, <3>2, <4>1
    <3>4. \A a, b \in 1 .. Len(t.open) : t.open[a] = t.open[b] => a = b
      BY <2>1, <2>9 DEF Opened
    <3> QED BY <3>3, <3>4 DEF Opened
  <2>7. Holding(t)
    <3>1. t.task[x] = UTask /\ ~Holder(UTask) /\ ~Holder(s.task[x])
      BY <1>0, <2>2, <2>3, LedgerIs, NameFacts DEF Walker, Holder
    <3>2. t.refs # 0 => Holder(t.holder) /\ \E j \in DOMAIN log : t.task[j] = t.holder
      BY <1>6, <2>5, <3>1 DEF LInv, Holding
    <3>3. ASSUME t.bare # 0
          PROVE  /\ t.bare \in t.inits /\ t.refs = 1 /\ log[t.bare].ev = "get" /\ t.task[t.bare] = t.holder
                 /\ \A j \in DOMAIN log : t.task[j] = t.holder => j = t.bare
      <4>1. /\ s.bare \in s.inits /\ s.refs = 1 /\ log[s.bare].ev = "get" /\ s.task[s.bare] = s.holder
            /\ \A j \in DOMAIN log : s.task[j] = s.holder => j = s.bare
        BY <1>6, <3>3 DEF LInv, Holding
      <4>2. Holder(s.holder)
        BY <4>1 DEF LInv, Holding
      <4>3. s.bare # x /\ s.bare \in DOMAIN log
        BY <1>1, <1>6, <3>1, <3>3, <4>1, <4>2
      <4> QED BY <1>6, <2>3, <2>5, <3>1, <4>1, <4>2, <4>3
    <3> QED BY <2>4, <3>2, <3>3 DEF Holding
  <2>8. OwnPuts => Counted(p, t, i)
    <3>1. Holders(t.task) = Holders(s.task)
      <4>1. ~Holder(UTask) /\ ~Holder(s.task[x])
        BY <2>2, NameFacts DEF Walker, Holder
      <4> QED BY <1>0, <2>3, <4>1, LedgerHolders
    <3>2. x \notin s.inits
      BY <2>2 DEF LInv, Starting
    <3>3. Started(t) = Started(s) + 1 /\ Starters(t) = Starters(s)
      BY <1>4, <2>3, <3>1, <3>2, FS_AddElement DEF Started, Starters
    <3>4. References(t) = References(s) - 1
      <4>1. s.refs \in Nat /\ Len(s.open) \in Nat
        BY <1>0, LedgerIs
      <4>2. t.refs = s.refs /\ Len(t.open) = Len(s.open) - 1
        BY <1>6, <2>1 DEF n
      <4> QED BY <4>1, <4>2 DEF References
    <3> QED BY <1>0, <1>2, <1>4, <1>5, <3>3, <3>4, CountedTaken
  <2> QED BY <1>2, <1>3, <2>4, <2>6, <2>7, <2>8 DEF LInv
<1>7. CASE /\ s.open = <<>> /\ t.open = s.open /\ s.bare # 0
           /\ t.task = [s.task EXCEPT ![s.bare] = UTask] /\ t.inits = s.inits \cup {s.bare}
           /\ t.holder = None /\ t.refs = 0 /\ t.bare = 0 /\ t.implicit = s.implicit
  <2>1. /\ s.bare \in s.inits /\ s.refs = 1 /\ log[s.bare].ev = "get" /\ s.task[s.bare] = s.holder
        /\ \A j \in DOMAIN log : s.task[j] = s.holder => j = s.bare
        /\ Holder(s.holder)
    BY <1>7 DEF LInv, Holding
  <2>2. Acquires(log[s.bare]) /\ s.bare \in DOMAIN log
    BY <1>1, <1>7, <2>1 DEF Acquires
  <2>3. Assigned(p, t, i) /\ Walking(t) /\ Starting(t) /\ Dooming(p, t, i)
        /\ \A j \in DOMAIN log : Holder(t.task[j]) => log[j].ev = "get" \/ is_put(log[j])
    <3>1. LInv(p, s, i) /\ t \in Ledger(p) /\ s.bare \in DOMAIN log /\ Acquires(log[s.bare])
      BY <1>2, <2>2
    <3>2. t.task = [s.task EXCEPT ![s.bare] = UTask] /\ t.inits = s.inits \cup {s.bare}
      BY <1>7
    <3>3. /\ Walker(s.task[s.bare]) \/ Holder(s.task[s.bare])
          /\ \A j \in DOMAIN log : s.task[j] = s.task[s.bare] => j = s.bare
      BY <2>1
    <3>4. t.wk = s.wk /\ t.hk = s.hk /\ t.doomer = s.doomer
      BY <1>2
    <3>5. Recasted(p, t, i)
      BY <3>1, <3>2, <3>3, <3>4, Recast
    <3> QED BY <3>5 DEF Recasted
  <2>4. Len(t.open) = 0 /\ Len(s.open) = 0
    BY <1>7, EmptySeq
  <2>5. Opened(t)
    BY <2>4 DEF Opened
  <2>6. Holding(t)
    BY <1>7, <2>3 DEF Holding
  <2>7. OwnPuts => Counted(p, t, i)
    <3>1. Holders(t.task) = Holders(s.task) \ {s.holder} /\ s.holder \in Holders(s.task)
      <4>1. ~Holder(UTask) /\ Holder(s.task[s.bare]) /\ \A j \in DOMAIN log : s.task[j] = s.task[s.bare] => j = s.bare
        BY <2>1, NameFacts
      <4>2. t.task = [s.task EXCEPT ![s.bare] = UTask]
        BY <1>7
      <4> QED BY <1>0, <2>1, <2>2, <4>1, <4>2, LedgerHolders
    <3>2. t.inits = s.inits
      BY <1>7, <2>1
    <3>3. Starters(t) = Starters(s) - 1 /\ Started(t) = Started(s)
      BY <1>4, <3>1, <3>2, FS_RemoveElement DEF Started, Starters
    <3>4. References(t) = References(s) - 1
      BY <1>7, <2>1, <2>4 DEF References
    <3> QED BY <1>0, <1>2, <1>4, <1>5, <3>3, <3>4, CountedTaken
  <2> QED BY <1>2, <1>3, <2>3, <2>5, <2>6, <2>7 DEF LInv
<1>8. CASE /\ s.open = <<>> /\ t.open = s.open /\ s.bare = 0
           /\ t.task = s.task /\ t.inits = s.inits
           /\ t.holder = s.holder /\ t.refs = s.refs /\ t.bare = s.bare /\ t.implicit
  <2>1. Assigned(p, t, i) /\ Walking(t) /\ Opened(t) /\ Holding(t)
    BY <1>2, <1>8 DEF LInv, Assigned, Walking, Opened, Holding
  <2>2. Starting(t) /\ Dooming(p, t, i)
    BY <1>2, <1>8 DEF LInv, Starting, Dooming
  <2>3. Starters(t) = Starters(s) /\ Started(t) = Started(s) /\ References(t) = References(s)
    BY <1>8 DEF Starters, Started, References
  <2>4. OwnPuts => Counted(p, t, i)
    BY <1>0, <1>2, <1>4, <1>5, <1>8, <2>3 DEF Counted
  <2> QED BY <1>2, <1>3, <2>1, <2>2, <2>4 DEF LInv
<1>10. t.own
  BY <1>2
<1> QED BY <1>6, <1>7, <1>8, <1>9, <1>10 DEF TakenFrom

(* An event is given to a task.                                            *)
GivenTo(s, t, i, n) ==
    /\ t.task[i] = n /\ s.task[i] = None /\ n \notin {None, UTask}
    /\ \A j \in DOMAIN log : j # i => t.task[j] = s.task[j]

LEMMA EventGiven ==
  ASSUME Traced, NEW p \in Pids, NEW i \in DOMAIN log, Mine(p, i), NEW s, LInv(p, s, i - 1), NEW t \in Ledger(p),
         NEW n, n \notin {None, UTask}, t.task = [s.task EXCEPT ![i] = n], t.wk >= s.wk, t.hk >= s.hk,
         \A k \in Nat : (n = W(p, k) => k <= t.wk) /\ (n = H(p, k) => k <= t.hk)
  PROVE  GivenTo(s, t, i, n) /\ Assigned(p, t, i)
<1>1. s \in Ledger(p) /\ Assigned(p, s, i - 1)
  BY DEF LInv
<1>2. i \in Nat /\ \A j \in DOMAIN log : j \in Nat
  BY LogIs
<1>3. s.task[i] = None
  BY <1>1, <1>2 DEF Assigned
<1>4. t.task[i] = n /\ \A j \in DOMAIN log : j # i => t.task[j] = s.task[j]
  BY <1>1, LedgerIs
<1>5. \A j \in DOMAIN log : t.task[j] # None <=> j <= i /\ Mine(p, j)
  BY <1>1, <1>2, <1>4 DEF Assigned
<1>6. s.wk \in Nat /\ s.hk \in Nat /\ t.wk \in Nat /\ t.hk \in Nat
  BY <1>1, LedgerIs
<1>7. \A j \in DOMAIN log, k \in Nat : (t.task[j] = W(p, k) => k <= t.wk) /\ (t.task[j] = H(p, k) => k <= t.hk)
  <2> SUFFICES ASSUME NEW j \in DOMAIN log, NEW k \in Nat
               PROVE  (t.task[j] = W(p, k) => k <= t.wk) /\ (t.task[j] = H(p, k) => k <= t.hk)
    OBVIOUS
  <2>1. CASE j = i
    BY <1>4, <2>1
  <2>2. CASE j # i
    <3>1. (s.task[j] = W(p, k) => k <= s.wk) /\ (s.task[j] = H(p, k) => k <= s.hk)
      BY <1>1 DEF Assigned
    <3> QED BY <1>4, <1>6, <2>2, <3>1
  <2> QED BY <2>1, <2>2
<1> QED BY <1>3, <1>4, <1>5, <1>7 DEF GivenTo, Assigned

LEMMA OwnedKept ==
  ASSUME Traced, NEW p \in Pids, NEW i \in DOMAIN log, NEW s, LInv(p, s, i - 1), NEW t,
         t.own = s.own, t.implicit = s.implicit
  PROVE  Owned(p, t, i)
<1>1. Dropped(p, i) \in 0 .. 1 /\ Dropped(p, i - 1) \in 0 .. 1 /\ Dropped(p, i - 1) <= Dropped(p, i)
  BY LedgerStep
<1> QED BY <1>1 DEF LInv, Owned

LEMMA DoomingKept ==
  ASSUME Traced, NEW p \in Pids, NEW i \in DOMAIN log, Mine(p, i), NEW s, LInv(p, s, i - 1), NEW t,
         t.doomer = s.doomer \/ LastPut(log[i])
  PROVE  Dooming(p, t, i)
<1>1. i \in Nat /\ \A j \in DOMAIN log : j \in Nat
  BY LogIs
<1>2. CASE LastPut(log[i])
  BY <1>1, <1>2 DEF Dooming
<1>3. CASE t.doomer = s.doomer
  <2> SUFFICES ASSUME t.doomer # None PROVE \E j \in DOMAIN log : j <= i /\ Mine(p, j) /\ LastPut(log[j])
    BY DEF Dooming
  <2>1. PICK j \in DOMAIN log : j <= i - 1 /\ Mine(p, j) /\ LastPut(log[j])
    BY <1>3 DEF LInv, Dooming
  <2> QED BY <1>1, <2>1
<1> QED BY <1>2, <1>3

(* A new name is no task's yet.                                            *)
LEMMA NewNames ==
  ASSUME Traced, NEW p \in Pids, NEW i, NEW s, LInv(p, s, i)
  PROVE  /\ \A j \in DOMAIN log : s.task[j] # W(p, s.wk + 1) /\ s.task[j] # H(p, s.hk + 1)
         /\ \A k \in Nat : W(p, s.wk + 1) = W(p, k) => k = s.wk + 1
         /\ \A k \in Nat : H(p, s.hk + 1) = H(p, k) => k = s.hk + 1
         /\ s.wk \in Nat /\ s.hk \in Nat
<1>1. s.wk \in Nat /\ s.hk \in Nat /\ s.wk + 1 \in Nat /\ s.hk + 1 \in Nat
  BY LedgerIs DEF LInv
<1>2. \A j \in DOMAIN log : s.task[j] # W(p, s.wk + 1) /\ s.task[j] # H(p, s.hk + 1)
  BY <1>1 DEF LInv, Assigned
<1> QED BY <1>1, <1>2, NameFacts

(* A task that is not a walker's, or a new walker's legitimize.            *)
LEMMA WalkingKept ==
  ASSUME Traced, NEW s, Walking(s), NEW t, NEW i \in DOMAIN log, NEW n, GivenTo(s, t, i, n),
         Walker(n) => log[i].ev = "legitimize" /\ \A j \in DOMAIN log : s.task[j] # n
  PROVE  Walking(t)
<1>1. ~Walker(None)
  BY NameFacts
<1>2. Walker(n) => ~is_put(log[i])
  BY DEF is_put
<1>3. \A j \in DOMAIN log : Walker(t.task[j]) => log[j].ev = "legitimize" \/ is_put(log[j])
  BY DEF GivenTo, Walking
<1>4. ASSUME NEW j \in DOMAIN log, Walker(t.task[j]), is_put(log[j])
      PROVE  \E x \in DOMAIN log : x < j /\ IsOk(x) /\ t.task[x] = t.task[j]
  <2>1. j # i /\ t.task[j] = s.task[j]
    BY <1>2, <1>4 DEF GivenTo
  <2>2. PICK x \in DOMAIN log : x < j /\ IsOk(x) /\ s.task[x] = s.task[j]
    BY <1>4, <2>1 DEF Walking
  <2>3. x # i
    BY <1>1, <1>4, <2>1, <2>2 DEF GivenTo
  <2> QED BY <2>1, <2>2, <2>3 DEF GivenTo
<1>5. ASSUME NEW x \in DOMAIN log, NEW y \in DOMAIN log, Walker(t.task[x]), t.task[x] = t.task[y]
      PROVE  /\ log[x].ev = "legitimize" /\ log[y].ev = "legitimize" => x = y
             /\ is_put(log[x]) /\ is_put(log[y]) => x = y
  <2>1. CASE x # i /\ y # i
    BY <1>5, <2>1 DEF GivenTo, Walking
  <2>2. CASE x = i \/ y = i
    BY <1>5, <2>2 DEF GivenTo
  <2> QED BY <2>1, <2>2
<1> QED BY <1>3, <1>4, <1>5 DEF Walking

(* Another task's event leaves the open walkers.                           *)
LEMMA OpenedKept ==
  ASSUME Traced, NEW s, Opened(s), NEW t, t.open = s.open, NEW i \in DOMAIN log, NEW n, GivenTo(s, t, i, n),
         \A a \in 1 .. Len(s.open) : s.open[a] \in DOMAIN log /\ s.task[s.open[a]] # n
  PROVE  Opened(t)
<1>1. ~Walker(None)
  BY NameFacts
<1>2. ASSUME NEW a \in 1 .. Len(s.open)
      PROVE  /\ IsOk(s.open[a]) /\ Walker(t.task[s.open[a]])
             /\ \A j \in DOMAIN log : t.task[j] = t.task[s.open[a]] => j = s.open[a]
  <2>1. s.open[a] # i /\ s.open[a] \in DOMAIN log
    BY <1>1 DEF Opened, GivenTo
  <2> QED BY <2>1 DEF Opened, GivenTo
<1> QED BY <1>2 DEF Opened

LEMMA StartingKept ==
  ASSUME Traced, NEW s, Starting(s), NEW t, NEW i \in DOMAIN log, NEW n, GivenTo(s, t, i, n), s.inits \subseteq DOMAIN log,
         \/ t.inits = s.inits
         \/ t.inits = s.inits \cup {i} /\ Acquires(log[i]) /\ ~Walker(n)
  PROVE  Starting(t)
<1>1. \A j \in s.inits : j # i /\ t.task[j] = s.task[j] /\ j \in DOMAIN log
  BY DEF Starting, GivenTo
<1>2. \A j \in t.inits : Acquires(log[j]) /\ t.task[j] # None /\ ~Walker(t.task[j])
  BY <1>1 DEF Starting, GivenTo
<1>3. \A j \in DOMAIN log : t.task[j] = UTask => j \in t.inits
  BY DEF Starting, GivenTo
<1> QED BY <1>2, <1>3 DEF Starting

(* What an event changes of the counts of a ledger.                        *)
LEMMA CountedKept ==
  ASSUME Traced, OwnPuts, NEW p \in Pids, NEW i \in DOMAIN log, NEW s, LInv(p, s, i - 1), NEW t \in Ledger(p),
         t.own = s.own, t.implicit = s.implicit, Mine(p, i),
         \/ ~Acquires(log[i]) /\ ~is_put(log[i]) /\ References(t) = References(s) /\ Starters(t) = Starters(s) /\ Started(t) = Started(s)
         \/ Acquires(log[i]) /\ References(t) = References(s) + 1 /\ Starters(t) = Starters(s) /\ Started(t) = Started(s)
         \/ Acquires(log[i]) /\ References(t) = References(s) + 1 /\ Starters(t) = Starters(s) + 1 /\ Started(t) = Started(s) + 1
         \/ is_put(log[i]) /\ References(t) = References(s) - 1 /\ Starters(t) = Starters(s) /\ Started(t) = Started(s)
         \/ is_put(log[i]) /\ References(s) = 0 /\ References(t) = 0 /\ Starters(t) = Starters(s) + 1 /\ Started(t) = Started(s)
  PROVE  Counted(p, t, i)
<1>1. /\ Starters(s) \in Nat /\ Started(s) \in Nat /\ References(s) \in Nat
      /\ Starters(t) \in Nat /\ Started(t) \in Nat /\ References(t) \in Nat
      /\ before[p] \in 0 .. 1 /\ Undropped(p, i) \in Nat /\ Undropped(p, i - 1) \in Nat
      /\ Balance(p, i) \in Nat /\ Dropped(p, i) \in 0 .. 1
  <2>1. i \in 0 .. Len(log) /\ i - 1 \in 0 .. Len(log)
    BY LogIs
  <2>2. s \in Ledger(p)
    BY DEF LInv
  <2> QED BY <2>1, <2>2, Numbers
<1>2. Undropped(p, i) = Undropped(p, i - 1) + (IF Acquires(log[i]) THEN 1 ELSE IF is_put(log[i]) THEN -1 ELSE 0)
  BY LedgerStep
<1>3. is_put(log[i]) => ~Acquires(log[i])
  BY DEF Acquires, is_put
<1> DEFINE e == IF p = U /\ s.own /\ shape = "umount" /\ ~s.implicit THEN 1 ELSE 0
           o == IF p = U /\ s.own THEN 1 ELSE 0
<1>4. /\ Undropped(p, i - 1) + Starters(s) = before[p] + Started(s) + References(s)
      /\ Starters(s) + e <= before[p] + Started(s) /\ Started(s) <= Starters(s) + o
  BY DEF LInv, Counted
<1>5. SUFFICES /\ Undropped(p, i) + Starters(t) = before[p] + Started(t) + References(t)
               /\ Starters(t) + e <= before[p] + Started(t) /\ Started(t) <= Starters(t) + o
  BY DEF Counted
<1>6. e \in 0 .. 1 /\ o \in 0 .. 1
  OBVIOUS
<1>7. e <= Undropped(p, i)
  <2>1. CASE e = 1
    <3>1. p = U /\ s.own /\ shape = "umount"
      BY <2>1
    <3>2. Owned(p, s, i)
      BY OwnedKept
    <3>3. Dropped(p, i) = 1
      BY <3>1, <3>2 DEF Owned
    <3> QED BY <1>1, <2>1, <3>3 DEF Undropped
  <2>2. CASE e # 1
    BY <1>1, <1>6, <2>2
  <2> QED BY <2>1, <2>2
<1> HIDE DEF e, o
<1>8. CASE ~Acquires(log[i]) /\ ~is_put(log[i]) /\ References(t) = References(s) /\ Starters(t) = Starters(s) /\ Started(t) = Started(s)
  BY <1>1, <1>2, <1>4, <1>8
<1>9. CASE Acquires(log[i]) /\ References(t) = References(s) + 1 /\ Starters(t) = Starters(s) /\ Started(t) = Started(s)
  <2>1. Undropped(p, i) = Undropped(p, i - 1) + 1
    BY <1>2, <1>9
  <2> QED BY <1>1, <1>4, <1>9, <2>1
<1>10. CASE Acquires(log[i]) /\ References(t) = References(s) + 1 /\ Starters(t) = Starters(s) + 1 /\ Started(t) = Started(s) + 1
  <2>1. Undropped(p, i) = Undropped(p, i - 1) + 1
    BY <1>2, <1>10
  <2>2. Undropped(p, i) + Starters(t) = before[p] + Started(t) + References(t)
    BY <1>1, <1>4, <1>10, <2>1
  <2>3. Starters(t) + e <= before[p] + Started(t) /\ Started(t) <= Starters(t) + o
    BY <1>1, <1>4, <1>6, <1>10
  <2> QED BY <2>2, <2>3
<1>11. CASE is_put(log[i]) /\ References(t) = References(s) - 1 /\ Starters(t) = Starters(s) /\ Started(t) = Started(s)
  <2>1. Undropped(p, i) = Undropped(p, i - 1) - 1
    BY <1>1, <1>2, <1>3, <1>11
  <2>2. Undropped(p, i) + Starters(t) = before[p] + Started(t) + References(t)
    BY <1>1, <1>4, <1>11, <2>1
  <2> QED BY <1>4, <1>11, <2>2
<1>12. CASE is_put(log[i]) /\ References(s) = 0 /\ References(t) = 0 /\ Starters(t) = Starters(s) + 1 /\ Started(t) = Started(s)
  <2>1. Undropped(p, i - 1) = Undropped(p, i) + 1
    BY <1>1, <1>2, <1>3, <1>12
  <2>2. Undropped(p, i) + Starters(t) = before[p] + Started(t) + References(t)
    BY <1>1, <1>4, <1>12, <2>1
  <2>3. Starters(t) + e <= before[p] + Started(t)
    BY <1>1, <1>6, <1>7, <1>12, <2>2
  <2>4. Started(t) <= Starters(t) + o
    BY <1>1, <1>4, <1>6, <1>12
  <2> QED BY <2>2, <2>3, <2>4
<1> QED BY <1>8, <1>9, <1>10, <1>11, <1>12

LEMMA LegitimizedKept ==
  ASSUME Traced, NEW p \in Pids, NEW i \in DOMAIN log, Mine(p, i), log[i].ev = "legitimize", NEW s, LInv(p, s, i - 1),
         NEW t, t = Legitimized(s, i)
  PROVE  LInv(p, t, i)
<1>0. s \in Ledger(p) /\ log[i].pid = p
  BY MineIs DEF LInv
<1> DEFINE n == W(p, s.wk + 1)
<1>1. LegitimizedFrom(p, s, t, i)
  BY <1>0, LegitimizedIs
<1>2. /\ t \in Ledger(p)
      /\ t.task = [s.task EXCEPT ![i] = n] /\ t.wk = s.wk + 1
      /\ t.open = IF log[i].result \in {0, -1} THEN Append(s.open, i) ELSE s.open
      /\ t.inits = s.inits /\ t.doomer = s.doomer /\ t.hk = s.hk /\ t.holder = s.holder /\ t.refs = s.refs
      /\ t.bare = s.bare /\ t.own = s.own /\ t.implicit = s.implicit
  BY <1>1 DEF LegitimizedFrom
<1>3. /\ Walker(n) /\ ~Holder(n) /\ n \notin {None, UTask} /\ \A k : n # H(p, k)
      /\ \A j \in DOMAIN log : s.task[j] # n
      /\ \A k \in Nat : n = W(p, k) => k = t.wk
      /\ s.wk \in Nat /\ s.hk \in Nat
  BY <1>2, NewNames, NameFacts
<1> HIDE DEF n
<1>4. GivenTo(s, t, i, n) /\ Assigned(p, t, i)
  <2>1. t.wk >= s.wk /\ t.hk >= s.hk /\ t.wk \in Nat /\ \A k \in Nat : (n = W(p, k) => k <= t.wk) /\ (n = H(p, k) => k <= t.hk)
    BY <1>2, <1>3
  <2> QED BY <1>2, <1>3, <2>1, EventGiven
<1>5. Walking(t)
  BY <1>3, <1>4, WalkingKept DEF LInv
<1>6. Owned(p, t, i) /\ Dooming(p, t, i)
  BY <1>2, OwnedKept, DoomingKept
<1>7. Starting(t)
  BY <1>0, <1>2, <1>4, LedgerIs, StartingKept DEF LInv
<1>8. Len(s.open) \in Nat /\ s.open \in Seq(DOMAIN log) /\ Opened(s) /\ Holding(s) /\ s.refs \in Nat
      /\ \A a \in 1 .. Len(s.open) : s.open[a] \in DOMAIN log
  BY <1>0, LedgerIs DEF LInv
<1>9. Opened(t) /\ Len(t.open) = Len(s.open) + (IF log[i].result \in {0, -1} THEN 1 ELSE 0)
  <2>1. CASE log[i].result \notin {0, -1}
    <3>1. t.open = s.open
      BY <1>2, <2>1
    <3>2. Opened(t)
      BY <1>3, <1>4, <1>8, <3>1, OpenedKept
    <3> QED BY <1>8, <2>1, <3>1, <3>2
  <2>2. CASE log[i].result \in {0, -1}
    <3> DEFINE m == Len(s.open)
    <3>1. Len(t.open) = m + 1 /\ t.open[m + 1] = i /\ \A a \in 1 .. m : t.open[a] = s.open[a]
      BY <1>2, <1>8, <2>2, AppendProperties
    <3>2. IsOk(i) /\ ~Walker(None)
      BY <2>2, NameFacts DEF IsOk
    <3>3. m \in Nat /\ \A a \in 1 .. m + 1 : a \in 1 .. m \/ a = m + 1
      BY <1>8
    <3>4. \A a \in 1 .. m : s.open[a] # i /\ s.open[a] \in DOMAIN log /\ IsOk(s.open[a]) /\ Walker(s.task[s.open[a]])
             /\ t.task[s.open[a]] = s.task[s.open[a]]
             /\ \A j \in DOMAIN log : t.task[j] = t.task[s.open[a]] => j = s.open[a]
      <4> SUFFICES ASSUME NEW a \in 1 .. m
                   PROVE  s.open[a] # i /\ s.open[a] \in DOMAIN log /\ IsOk(s.open[a]) /\ Walker(s.task[s.open[a]])
                          /\ t.task[s.open[a]] = s.task[s.open[a]]
                          /\ \A j \in DOMAIN log : t.task[j] = t.task[s.open[a]] => j = s.open[a]
        OBVIOUS
      <4>1. s.open[a] \in DOMAIN log /\ IsOk(s.open[a]) /\ Walker(s.task[s.open[a]])
            /\ \A j \in DOMAIN log : s.task[j] = s.task[s.open[a]] => j = s.open[a]
        BY <1>8 DEF Opened
      <4>2. s.open[a] # i
        BY <1>4, <3>2, <4>1 DEF GivenTo
      <4> QED BY <1>3, <1>4, <4>1, <4>2 DEF GivenTo
    <3> HIDE DEF m
    <3>5. \A j \in DOMAIN log : t.task[j] = t.task[i] => j = i
      BY <1>3, <1>4 DEF GivenTo
    <3>6. Walker(t.task[i])
      BY <1>3, <1>4 DEF GivenTo
    <3>7. \A a \in 1 .. m + 1 : IsOk(t.open[a]) /\ Walker(t.task[t.open[a]])
             /\ \A j \in DOMAIN log : t.task[j] = t.task[t.open[a]] => j = t.open[a]
      BY <3>1, <3>2, <3>3, <3>4, <3>5, <3>6
    <3>8. \A a, b \in 1 .. m + 1 : t.open[a] = t.open[b] => a = b
      <4>1. \A a, b \in 1 .. m : s.open[a] = s.open[b] => a = b
        BY <1>8 DEF m, Opened
      <4> QED BY <3>1, <3>3, <3>4, <4>1
    <3> QED BY <2>2, <3>1, <3>7, <3>8 DEF m, Opened
  <2> QED BY <2>1, <2>2
<1>10. Holding(t)
  <2>1. t.refs # 0 => Holder(t.holder) /\ \E j \in DOMAIN log : t.task[j] = t.holder
    <3> SUFFICES ASSUME t.refs # 0 PROVE Holder(t.holder) /\ \E j \in DOMAIN log : t.task[j] = t.holder
      OBVIOUS
    <3>1. Holder(s.holder) /\ t.holder = s.holder /\ ~Holder(None)
      BY <1>2, <1>8, NameFacts DEF Holding
    <3>2. PICK j \in DOMAIN log : s.task[j] = s.holder
      BY <1>2, <1>8 DEF Holding
    <3>3. j # i
      BY <1>4, <3>1, <3>2 DEF GivenTo
    <3> QED BY <1>4, <3>1, <3>2, <3>3 DEF GivenTo
  <2>2. ASSUME t.bare # 0
        PROVE  /\ t.bare \in t.inits /\ t.refs = 1 /\ log[t.bare].ev = "get" /\ t.task[t.bare] = t.holder
               /\ \A j \in DOMAIN log : t.task[j] = t.holder => j = t.bare
    <3>1. /\ s.bare \in s.inits /\ s.refs = 1 /\ log[s.bare].ev = "get" /\ s.task[s.bare] = s.holder
          /\ \A j \in DOMAIN log : s.task[j] = s.holder => j = s.bare
          /\ Holder(s.holder) /\ s.bare \in DOMAIN log
      BY <1>0, <1>2, <1>8, <2>2, LedgerIs DEF Holding
    <3>2. s.bare # i
      BY <1>4, <3>1, NameFacts DEF GivenTo
    <3>3. n # s.holder
      BY <1>3, <3>1
    <3> QED BY <1>2, <1>4, <3>1, <3>2, <3>3 DEF GivenTo
  <2>3. \A j \in DOMAIN log : Holder(t.task[j]) => log[j].ev = "get" \/ is_put(log[j])
    BY <1>3, <1>4, <1>8 DEF GivenTo, Holding
  <2> QED BY <2>1, <2>2, <2>3 DEF Holding
<1>11. OwnPuts => Counted(p, t, i)
  <2>1. Starters(t) = Starters(s) /\ Started(t) = Started(s)
    <3>1. ~Holder(s.task[i]) /\ ~Holder(n)
      BY <1>3, <1>4, NameFacts DEF GivenTo
    <3>2. Holders(t.task) = Holders(s.task)
      BY <1>0, <1>2, <3>1, LedgerHolders
    <3> QED BY <1>2, <3>2 DEF Starters, Started
  <2>2. References(t) = References(s) + (IF log[i].result \in {0, -1} THEN 1 ELSE 0) /\ References(s) \in Nat
    <3>1. t.refs = s.refs /\ s.refs \in Nat /\ Len(s.open) \in Nat
      BY <1>2, <1>8
    <3>2. CASE log[i].result \in {0, -1}
      <4>1. Len(t.open) = Len(s.open) + 1
        BY <1>9, <3>2
      <4>2. References(t) = References(s) + 1 /\ References(s) \in Nat
        BY <3>1, <4>1 DEF References
      <4> QED BY <3>2, <4>2
    <3>3. CASE log[i].result \notin {0, -1}
      <4>1. Len(t.open) = Len(s.open)
        BY <1>9, <3>1, <3>3
      <4>2. References(t) = References(s) /\ References(s) \in Nat
        BY <3>1, <4>1 DEF References
      <4> QED BY <3>3, <4>2
    <3> QED BY <3>2, <3>3
  <2>3. (Acquires(log[i]) <=> log[i].result \in {0, -1}) /\ ~is_put(log[i])
    BY MineKinds
  <2>4. \/ ~Acquires(log[i]) /\ ~is_put(log[i]) /\ References(t) = References(s) /\ Starters(t) = Starters(s) /\ Started(t) = Started(s)
        \/ Acquires(log[i]) /\ References(t) = References(s) + 1 /\ Starters(t) = Starters(s) /\ Started(t) = Started(s)
    BY <2>1, <2>2, <2>3
  <2> QED BY <1>2, <2>4, CountedKept
<1> QED BY <1>2, <1>4, <1>5, <1>6, <1>7, <1>9, <1>10, <1>11 DEF LInv

LEMMA GotKept ==
  ASSUME Traced, NEW p \in Pids, NEW i \in DOMAIN log, Mine(p, i), log[i].ev = "get", NEW s, LInv(p, s, i - 1),
         NEW t, t = Got(s, i)
  PROVE  LInv(p, t, i)
<1>0. s \in Ledger(p) /\ log[i].pid = p /\ i \in Nat /\ i # 0
  BY MineIs, LogIs DEF LInv
<1>1. GotFrom(p, s, t, i)
  BY <1>0, GotIs
<1> DEFINE n == IF s.refs = 0 THEN H(p, s.hk + 1) ELSE s.holder
<1>2. /\ t \in Ledger(p) /\ t.task = [s.task EXCEPT ![i] = n] /\ t.holder = n /\ t.refs = s.refs + 1
      /\ t.hk = IF s.refs = 0 THEN s.hk + 1 ELSE s.hk
      /\ t.inits = IF s.refs = 0 THEN s.inits \cup {i} ELSE s.inits
      /\ t.bare = IF s.refs = 0 THEN i ELSE 0
      /\ t.open = s.open /\ t.doomer = s.doomer /\ t.wk = s.wk /\ t.own = s.own /\ t.implicit = s.implicit
  <2>1. /\ t \in Ledger(p)
        /\ t.open = s.open /\ t.doomer = s.doomer /\ t.wk = s.wk /\ t.own = s.own /\ t.implicit = s.implicit
    BY <1>1 DEF GotFrom
  <2>2. CASE s.refs = 0
    <3>1. n = H(p, s.hk + 1)
      BY <2>2
    <3> HIDE DEF n
    <3>2. /\ t.refs = 1 /\ t.hk = s.hk + 1 /\ t.holder = n /\ t.task = [s.task EXCEPT ![i] = n]
          /\ t.inits = s.inits \cup {i} /\ t.bare = i
      BY <1>1, <2>2, <3>1 DEF GotFrom
    <3> QED BY <2>1, <2>2, <3>2
  <2>3. CASE s.refs # 0
    <3>1. n = s.holder
      BY <2>3
    <3> HIDE DEF n
    <3>2. /\ t.refs = s.refs + 1 /\ t.hk = s.hk /\ t.holder = n /\ t.task = [s.task EXCEPT ![i] = n]
          /\ t.inits = s.inits /\ t.bare = 0
      BY <1>1, <2>3, <3>1 DEF GotFrom
    <3> QED BY <2>1, <2>3, <3>2
  <2> QED BY <2>2, <2>3
<1>3. /\ s.hk \in Nat /\ s.wk \in Nat /\ s.refs \in Nat /\ Len(s.open) \in Nat /\ s.inits \subseteq DOMAIN log
      /\ \A a \in 1 .. Len(s.open) : s.open[a] \in DOMAIN log
      /\ Opened(s) /\ Holding(s) /\ Walking(s) /\ Starting(s) /\ Assigned(p, s, i - 1)
  BY <1>0, LedgerIs DEF LInv
<1>4. Holder(n) /\ ~Walker(n) /\ n \notin {None, UTask} /\ \A k : n # W(p, k)
  BY <1>3, NameFacts DEF Holding, Holder, Walker
<1>5. s.refs = 0 => \A j \in DOMAIN log : s.task[j] # n
  BY NewNames
<1>6. \A k \in Nat : n = H(p, k) => k <= t.hk
  <2>1. CASE s.refs = 0
    BY <1>2, <1>3, <2>1, NewNames
  <2>2. CASE s.refs # 0
    <3>1. PICK j \in DOMAIN log : s.task[j] = s.holder
      BY <1>3, <2>2 DEF Holding
    <3> QED BY <1>2, <1>3, <2>2, <3>1 DEF Assigned
  <2> QED BY <2>1, <2>2
<1> HIDE DEF n
<1>7. GivenTo(s, t, i, n) /\ Assigned(p, t, i)
  <2>1. t.wk >= s.wk /\ t.hk >= s.hk /\ \A k \in Nat : (n = W(p, k) => k <= t.wk) /\ (n = H(p, k) => k <= t.hk)
    BY <1>2, <1>3, <1>4, <1>6
  <2> QED BY <1>2, <1>4, <2>1, EventGiven
<1>8. Walking(t)
  BY <1>3, <1>4, <1>7, WalkingKept
<1>9. Owned(p, t, i) /\ Dooming(p, t, i)
  BY <1>2, OwnedKept, DoomingKept
<1>10. Acquires(log[i])
  BY DEF Acquires
<1>11. Starting(t)
  <2>1. t.inits = s.inits \/ (t.inits = s.inits \cup {i} /\ Acquires(log[i]) /\ ~Walker(n))
    BY <1>2, <1>4, <1>10
  <2> QED BY <1>3, <1>7, <2>1, StartingKept
<1>12. Opened(t)
  <2>1. \A a \in 1 .. Len(s.open) : s.open[a] \in DOMAIN log /\ s.task[s.open[a]] # n
    BY <1>3, <1>4 DEF Opened
  <2> QED BY <1>2, <1>3, <1>7, <2>1, OpenedKept
<1>13. Holding(t)
  <2>1. Holder(t.holder) /\ t.task[i] = t.holder
    BY <1>2, <1>4, <1>7 DEF GivenTo
  <2>2. t.bare # 0 => /\ t.bare \in t.inits /\ t.refs = 1 /\ log[t.bare].ev = "get" /\ t.task[t.bare] = t.holder
                      /\ \A j \in DOMAIN log : t.task[j] = t.holder => j = t.bare
    <3>1. CASE s.refs = 0
      <4>1. t.bare = i /\ t.bare \in t.inits /\ t.refs = 1
        BY <1>2, <3>1
      <4>2. \A j \in DOMAIN log : t.task[j] = t.holder => j = i
        BY <1>2, <1>5, <1>7, <3>1 DEF GivenTo
      <4> QED BY <2>1, <4>1, <4>2
    <3>2. CASE s.refs # 0
      BY <1>2, <3>2
    <3> QED BY <3>1, <3>2
  <2>3. \A j \in DOMAIN log : Holder(t.task[j]) => log[j].ev = "get" \/ is_put(log[j])
    BY <1>3, <1>7 DEF GivenTo, Holding
  <2> QED BY <2>1, <2>2, <2>3 DEF Holding
<1>14. OwnPuts => Counted(p, t, i)
  <2>1. ~Holder(s.task[i]) /\ i \notin s.inits
    BY <1>3, <1>7, NameFacts DEF GivenTo, Starting
  <2>2. Holders(t.task) = Holders(s.task) \cup {n}
    BY <1>0, <1>2, <1>4, <2>1, LedgerHolders
  <2>3. References(t) = References(s) + 1
    <3>1. Len(t.open) = Len(s.open)
      BY <1>2
    <3> QED BY <1>2, <1>3, <3>1 DEF References
  <2>4. IsFiniteSet(s.inits) /\ IsFiniteSet(Holders(s.task))
    <3>1. i - 1 \in 0 .. Len(log)
      BY LogIs
    <3> QED BY <1>0, <3>1, Numbers
  <2>5. CASE s.refs = 0
    <3>1. n \notin Holders(s.task)
      BY <1>5, <2>5 DEF Holders
    <3>2. Starters(t) = Starters(s) + 1
      BY <2>2, <2>4, <3>1, FS_AddElement DEF Starters
    <3>3. Started(t) = Started(s) + 1
      <4>1. t.inits = s.inits \cup {i}
        BY <1>2, <2>5
      <4> QED BY <2>1, <2>4, <4>1, FS_AddElement DEF Started
    <3> QED BY <1>2, <1>10, <2>3, <3>2, <3>3, CountedKept
  <2>6. CASE s.refs # 0
    <3>1. n \in Holders(s.task)
      BY <1>3, <1>4, <2>6 DEF Holders, Holding, n
    <3>2. Starters(t) = Starters(s) /\ Started(t) = Started(s)
      <4>1. Holders(t.task) = Holders(s.task)
        BY <2>2, <3>1
      <4> QED BY <1>2, <2>6, <4>1 DEF Starters, Started
    <3> QED BY <1>2, <1>10, <2>3, <3>2, CountedKept
  <2> QED BY <2>5, <2>6
<1> QED BY <1>2, <1>7, <1>8, <1>9, <1>11, <1>12, <1>13, <1>14 DEF LInv

LEMMA TailIs ==
  ASSUME NEW S, NEW q \in Seq(S), q # <<>>
  PROVE  /\ Len(q) \in Nat \ {0} /\ Head(q) = q[1] /\ 1 \in 1 .. Len(q)
         /\ Len(Tail(q)) = Len(q) - 1 /\ \A a \in 1 .. Len(Tail(q)) : Tail(q)[a] = q[a + 1] /\ a + 1 \in 1 .. Len(q) /\ a + 1 # 1
<1>1. Len(q) \in Nat /\ Len(q) # 0
  BY EmptySeq, LenProperties
<1>2. Head(q) = q[1] /\ Len(Tail(q)) = Len(q) - 1 /\ \A a \in 1 .. Len(q) - 1 : Tail(q)[a] = q[a + 1]
  BY HeadTailProperties
<1> QED BY <1>1, <1>2

(* A put that releases an open walker's reference.                         *)
LEMMA WalkerPut ==
  ASSUME Traced, NEW p \in Pids, NEW i \in DOMAIN log, Mine(p, i), is_put(log[i]), NEW s, LInv(p, s, i - 1),
         NEW t, PutFrom(p, s, t, i), s.open # <<>>
  PROVE  LInv(p, t, i)
<1>0. s \in Ledger(p) /\ log[i].pid = p /\ i \in Nat /\ i # 0
  BY MineIs, LogIs DEF LInv
<1> DEFINE x == Head(s.open)
           n == s.task[x]
<1>1. /\ t \in Ledger(p) /\ t.inits = s.inits /\ t.wk = s.wk /\ t.own = s.own /\ t.implicit = s.implicit
      /\ t.open = Tail(s.open) /\ t.doomer = s.doomer /\ t.hk = s.hk
      /\ t.task = [s.task EXCEPT ![i] = n] /\ n \in Names(p) /\ x \in DOMAIN log
      /\ t.holder = s.holder /\ t.refs = s.refs /\ t.bare = s.bare
  BY DEF PutFrom
<1>2. /\ s.hk \in Nat /\ s.wk \in Nat /\ s.refs \in Nat /\ s.inits \subseteq DOMAIN log
      /\ s.open \in Seq(DOMAIN log) /\ Len(s.open) \in Nat
      /\ \A a \in 1 .. Len(s.open) : s.open[a] \in DOMAIN log
      /\ Opened(s) /\ Holding(s) /\ Walking(s) /\ Starting(s) /\ Assigned(p, s, i - 1)
  BY <1>0, LedgerIs DEF LInv
<1> DEFINE m == Len(s.open)
<1>3. /\ m \in Nat /\ x = s.open[1] /\ 1 \in 1 .. m /\ Len(t.open) = m - 1
      /\ \A a \in 1 .. Len(t.open) : t.open[a] = s.open[a + 1] /\ a + 1 \in 1 .. m /\ a + 1 # 1
  <2> DEFINE q == s.open
  <2>1. q \in Seq(DOMAIN log) /\ q # <<>>
    BY <1>2
  <2> HIDE DEF q
  <2>2. /\ Len(q) \in Nat \ {0} /\ Head(q) = q[1] /\ 1 \in 1 .. Len(q)
        /\ Len(Tail(q)) = Len(q) - 1 /\ \A a \in 1 .. Len(Tail(q)) : Tail(q)[a] = q[a + 1] /\ a + 1 \in 1 .. Len(q) /\ a + 1 # 1
    BY <2>1, TailIs
  <2>3. t.open = Tail(q) /\ x = Head(q) /\ m = Len(q)
    BY <1>1 DEF q
  <2> HIDE DEF x, m
  <2>4. /\ m \in Nat /\ x = q[1] /\ 1 \in 1 .. m /\ Len(t.open) = m - 1
        /\ \A a \in 1 .. Len(t.open) : t.open[a] = q[a + 1] /\ a + 1 \in 1 .. m /\ a + 1 # 1
    BY <2>2, <2>3
  <2> QED BY <2>4 DEF q
<1>4. IsOk(x) /\ Walker(n) /\ \A j \in DOMAIN log : s.task[j] = n => j = x
  BY <1>2, <1>3 DEF Opened
<1>5. n \notin {None, UTask} /\ ~Holder(n) /\ \A k : n # H(p, k)
  BY <1>4, NameFacts DEF Walker, Holder
<1>6. \A a, b \in 1 .. m : s.open[a] = s.open[b] => a = b
  BY <1>2 DEF Opened
<1>7. \A k \in Nat : n = W(p, k) => k <= t.wk
  BY <1>1, <1>2 DEF Assigned
<1> HIDE DEF n, m, x
<1>8. GivenTo(s, t, i, n) /\ Assigned(p, t, i)
  <2>1. t.wk >= s.wk /\ t.hk >= s.hk /\ \A k \in Nat : (n = W(p, k) => k <= t.wk) /\ (n = H(p, k) => k <= t.hk)
    BY <1>1, <1>2, <1>5, <1>7
  <2> QED BY <1>1, <1>5, <2>1, EventGiven
<1>9. s.task[x] = n /\ x < i /\ x # i /\ t.task[x] = n /\ t.task[i] = n
  <2>1. s.task[x] = n /\ x # i /\ t.task[x] = n /\ t.task[i] = n
    BY <1>1, <1>5, <1>8 DEF GivenTo, n
  <2>2. x <= i - 1 /\ x \in Nat
    BY <1>1, <1>2, <1>5, <2>1, LogIs DEF Assigned
  <2> QED BY <1>0, <2>1, <2>2
<1>10. ~Walker(None) /\ ~Holder(None) /\ log[i].ev # "legitimize" /\ ~is_put(log[x])
  BY <1>4, NameFacts DEF is_put, IsOk
<1>11. Walking(t)
  <2>1. \A j \in DOMAIN log : Walker(t.task[j]) => log[j].ev = "legitimize" \/ is_put(log[j])
    BY <1>2, <1>8 DEF GivenTo, Walking
  <2>2. ASSUME NEW j \in DOMAIN log, Walker(t.task[j]), is_put(log[j])
        PROVE  \E y \in DOMAIN log : y < j /\ IsOk(y) /\ t.task[y] = t.task[j]
    <3>1. CASE j = i
      BY <1>1, <1>4, <1>9, <3>1
    <3>2. CASE j # i
      <4>1. t.task[j] = s.task[j]
        BY <1>8, <3>2 DEF GivenTo
      <4>2. PICK y \in DOMAIN log : y < j /\ IsOk(y) /\ s.task[y] = s.task[j]
        BY <1>2, <2>2, <4>1 DEF Walking
      <4>3. y # i
        BY <1>8, <1>10, <2>2, <4>1, <4>2 DEF GivenTo
      <4> QED BY <1>8, <4>1, <4>2, <4>3 DEF GivenTo
    <3> QED BY <3>1, <3>2
  <2>3. ASSUME NEW y \in DOMAIN log, NEW z \in DOMAIN log, Walker(t.task[y]), t.task[y] = t.task[z]
        PROVE  /\ log[y].ev = "legitimize" /\ log[z].ev = "legitimize" => y = z
               /\ is_put(log[y]) /\ is_put(log[z]) => y = z
    <3>1. CASE y # i /\ z # i
      BY <1>2, <1>8, <2>3, <3>1 DEF GivenTo, Walking
    <3>2. ASSUME NEW v \in DOMAIN log, v # i, t.task[v] = n PROVE v = x
      BY <1>4, <1>8, <3>2 DEF GivenTo
    <3>3. CASE y = i
      BY <1>9, <1>10, <2>3, <3>2, <3>3
    <3>4. CASE z = i
      BY <1>9, <1>10, <2>3, <3>2, <3>4
    <3> QED BY <3>1, <3>3, <3>4
  <2> QED BY <2>1, <2>2, <2>3 DEF Walking
<1>12. Opened(t)
  <2>1. ASSUME NEW a \in 1 .. Len(t.open)
        PROVE  /\ IsOk(t.open[a]) /\ Walker(t.task[t.open[a]])
               /\ \A j \in DOMAIN log : t.task[j] = t.task[t.open[a]] => j = t.open[a]
    <3>1. t.open[a] = s.open[a + 1] /\ a + 1 \in 1 .. m /\ a + 1 # 1 /\ 1 \in 1 .. m
      BY <1>3
    <3> DEFINE y == s.open[a + 1]
    <3>2. IsOk(y) /\ Walker(s.task[y]) /\ y \in DOMAIN log /\ \A j \in DOMAIN log : s.task[j] = s.task[y] => j = y
      BY <1>2, <3>1 DEF Opened, m
    <3>3. y # x
      BY <1>3, <1>6, <3>1
    <3> HIDE DEF y
    <3>4. y # i /\ t.task[y] = s.task[y] /\ s.task[y] # n
      BY <1>4, <1>8, <1>10, <3>2, <3>3 DEF GivenTo
    <3>5. \A j \in DOMAIN log : t.task[j] = t.task[y] => j = y
      BY <1>8, <3>2, <3>4 DEF GivenTo
    <3> QED BY <3>1, <3>2, <3>4, <3>5 DEF y
  <2>2. \A a, b \in 1 .. Len(t.open) : t.open[a] = t.open[b] => a = b
    <3> SUFFICES ASSUME NEW a \in 1 .. Len(t.open), NEW b \in 1 .. Len(t.open), t.open[a] = t.open[b] PROVE a = b
      OBVIOUS
    <3>1. a + 1 = b + 1
      BY <1>3, <1>6
    <3>2. a \in Int /\ b \in Int
      OBVIOUS
    <3> QED BY <3>1, <3>2
  <2> QED BY <2>1, <2>2 DEF Opened
<1>13. Owned(p, t, i) /\ Dooming(p, t, i) /\ Starting(t)
  BY <1>1, <1>2, <1>8, OwnedKept, DoomingKept, StartingKept
<1>14. Holding(t)
  <2>1. t.refs # 0 => Holder(t.holder) /\ \E j \in DOMAIN log : t.task[j] = t.holder
    <3> SUFFICES ASSUME t.refs # 0 PROVE Holder(t.holder) /\ \E j \in DOMAIN log : t.task[j] = t.holder
      OBVIOUS
    <3>1. Holder(s.holder) /\ t.holder = s.holder
      BY <1>1, <1>2 DEF Holding
    <3>2. PICK j \in DOMAIN log : s.task[j] = s.holder
      BY <1>1, <1>2 DEF Holding
    <3>3. j # i
      BY <1>8, <1>10, <3>1, <3>2 DEF GivenTo
    <3> QED BY <1>8, <3>1, <3>2, <3>3 DEF GivenTo
  <2>2. ASSUME t.bare # 0
        PROVE  /\ t.bare \in t.inits /\ t.refs = 1 /\ log[t.bare].ev = "get" /\ t.task[t.bare] = t.holder
               /\ \A j \in DOMAIN log : t.task[j] = t.holder => j = t.bare
    <3>1. /\ s.bare \in s.inits /\ s.refs = 1 /\ log[s.bare].ev = "get" /\ s.task[s.bare] = s.holder
          /\ \A j \in DOMAIN log : s.task[j] = s.holder => j = s.bare
          /\ Holder(s.holder) /\ s.bare \in DOMAIN log
      BY <1>1, <1>2, <2>2 DEF Holding
    <3>2. s.bare # i
      BY <1>8, <1>10, <3>1 DEF GivenTo
    <3>3. n # s.holder
      BY <1>5, <3>1
    <3> QED BY <1>1, <1>8, <3>1, <3>2, <3>3 DEF GivenTo
  <2>3. \A j \in DOMAIN log : Holder(t.task[j]) => log[j].ev = "get" \/ is_put(log[j])
    BY <1>2, <1>5, <1>8 DEF GivenTo, Holding
  <2> QED BY <2>1, <2>2, <2>3 DEF Holding
<1>15. OwnPuts => Counted(p, t, i)
  <2>1. ~Holder(s.task[i])
    BY <1>8, <1>10 DEF GivenTo
  <2>2. Starters(t) = Starters(s) /\ Started(t) = Started(s)
    <3>1. Holders(t.task) = Holders(s.task)
      BY <1>0, <1>1, <1>5, <2>1, LedgerHolders
    <3> QED BY <1>1, <3>1 DEF Starters, Started
  <2>3. References(t) = References(s) - 1
    <3>1. t.refs = s.refs /\ Len(t.open) = Len(s.open) - 1 /\ s.refs \in Nat /\ Len(s.open) \in Nat
      BY <1>1, <1>2, <1>3 DEF m
    <3> QED BY <3>1 DEF References
  <2> QED BY <1>1, <2>2, <2>3, CountedKept
<1> QED BY <1>1, <1>8, <1>11, <1>12, <1>13, <1>14, <1>15 DEF LInv

(* A put that releases a holder's reference, or a reference of a holder    *)
(* that the model starts with.                                             *)
LEMMA HolderPut ==
  ASSUME Traced, NEW p \in Pids, NEW i \in DOMAIN log, Mine(p, i), is_put(log[i]), NEW s, LInv(p, s, i - 1),
         NEW t, PutFrom(p, s, t, i), s.open = <<>>
  PROVE  LInv(p, t, i)
<1>0. s \in Ledger(p) /\ log[i].pid = p /\ i \in Nat /\ i # 0
  BY MineIs, LogIs DEF LInv
<1> DEFINE n == IF s.refs = 0 THEN H(p, s.hk + 1) ELSE s.holder
<1>1. /\ t \in Ledger(p) /\ t.inits = s.inits /\ t.wk = s.wk /\ t.own = s.own /\ t.implicit = s.implicit
      /\ t.open = s.open /\ t.bare = 0 /\ (t.doomer = s.doomer \/ LastPut(log[i]))
      /\ t.task = [s.task EXCEPT ![i] = n] /\ t.holder = n
      /\ (s.refs = 0 => t.refs = 0 /\ t.hk = s.hk + 1) /\ (s.refs # 0 => t.refs = s.refs - 1 /\ t.hk = s.hk)
  <2>1. /\ t \in Ledger(p) /\ t.inits = s.inits /\ t.wk = s.wk /\ t.own = s.own /\ t.implicit = s.implicit
    BY DEF PutFrom
  <2>2. CASE s.refs = 0
    <3>1. n = H(p, s.hk + 1)
      BY <2>2
    <3> HIDE DEF n
    <3>2. /\ t.open = s.open /\ t.refs = 0 /\ t.hk = s.hk + 1 /\ t.holder = n /\ t.task = [s.task EXCEPT ![i] = n]
          /\ t.bare = 0 /\ (t.doomer = s.doomer \/ LastPut(log[i]))
      BY <2>2, <3>1 DEF PutFrom
    <3> QED BY <2>1, <2>2, <3>2
  <2>3. CASE s.refs # 0
    <3>1. n = s.holder
      BY <2>3
    <3> HIDE DEF n
    <3>2. /\ t.open = s.open /\ t.refs = s.refs - 1 /\ t.hk = s.hk /\ t.holder = n /\ t.task = [s.task EXCEPT ![i] = n]
          /\ t.bare = 0 /\ (t.doomer = s.doomer \/ LastPut(log[i]))
      BY <2>3, <3>1 DEF PutFrom
    <3> QED BY <2>1, <2>3, <3>2
  <2> QED BY <2>2, <2>3
<1>2. /\ s.hk \in Nat /\ s.wk \in Nat /\ s.refs \in Nat /\ s.inits \subseteq DOMAIN log
      /\ Opened(s) /\ Holding(s) /\ Walking(s) /\ Starting(s) /\ Assigned(p, s, i - 1)
  BY <1>0, LedgerIs DEF LInv
<1>3. Len(s.open) = 0 /\ Len(t.open) = 0
  BY <1>1, EmptySeq
<1>4. Holder(n) /\ ~Walker(n) /\ n \notin {None, UTask} /\ \A k : n # W(p, k)
  BY <1>2, NameFacts DEF Holding, Holder, Walker
<1>5. s.refs = 0 => \A j \in DOMAIN log : s.task[j] # n
  BY NewNames
<1>6. \A k \in Nat : n = H(p, k) => k <= t.hk
  <2>1. CASE s.refs = 0
    BY <1>1, <1>2, <2>1, NewNames
  <2>2. CASE s.refs # 0
    <3>1. PICK j \in DOMAIN log : s.task[j] = s.holder
      BY <1>2, <2>2 DEF Holding
    <3> QED BY <1>1, <1>2, <2>2, <3>1 DEF Assigned
  <2> QED BY <2>1, <2>2
<1>7. s.refs # 0 => n \in Holders(s.task)
  BY <1>2, <1>4 DEF Holders, Holding
<1> HIDE DEF n
<1>8. GivenTo(s, t, i, n) /\ Assigned(p, t, i)
  <2>1. t.wk >= s.wk /\ t.hk >= s.hk /\ \A k \in Nat : (n = W(p, k) => k <= t.wk) /\ (n = H(p, k) => k <= t.hk)
    BY <1>1, <1>2, <1>4, <1>6
  <2> QED BY <1>1, <1>4, <2>1, EventGiven
<1>9. Walking(t)
  BY <1>2, <1>4, <1>8, WalkingKept
<1>10. Owned(p, t, i) /\ Dooming(p, t, i) /\ Starting(t)
  BY <1>1, <1>2, <1>8, OwnedKept, DoomingKept, StartingKept
<1>11. Opened(t)
  BY <1>3 DEF Opened
<1>12. Holding(t)
  <2>1. Holder(t.holder) /\ t.task[i] = t.holder
    BY <1>1, <1>4, <1>8 DEF GivenTo
  <2>2. \A j \in DOMAIN log : Holder(t.task[j]) => log[j].ev = "get" \/ is_put(log[j])
    BY <1>2, <1>8 DEF GivenTo, Holding
  <2> QED BY <1>1, <2>1, <2>2 DEF Holding
<1>13. OwnPuts => Counted(p, t, i)
  <2>1. ~Holder(s.task[i])
    BY <1>8, NameFacts DEF GivenTo
  <2>2. Holders(t.task) = Holders(s.task) \cup {n}
    BY <1>0, <1>1, <1>4, <2>1, LedgerHolders
  <2>3. IsFiniteSet(Holders(s.task))
    <3>1. i - 1 \in 0 .. Len(log)
      BY LogIs
    <3> QED BY <1>0, <3>1, Numbers
  <2>4. Started(t) = Started(s)
    BY <1>1 DEF Started
  <2>5. CASE s.refs = 0
    <3>1. n \notin Holders(s.task)
      BY <1>5, <2>5 DEF Holders
    <3>2. Starters(t) = Starters(s) + 1
      BY <2>2, <2>3, <3>1, FS_AddElement DEF Starters
    <3>3. References(s) = 0 /\ References(t) = 0
      BY <1>1, <1>3, <2>5 DEF References
    <3> QED BY <1>1, <2>4, <3>2, <3>3, CountedKept
  <2>6. CASE s.refs # 0
    <3>1. Starters(t) = Starters(s)
      <4>1. Holders(t.task) = Holders(s.task)
        BY <1>7, <2>2, <2>6
      <4> QED BY <4>1 DEF Starters
    <3>2. References(t) = References(s) - 1
      <4>1. t.refs = s.refs - 1
        BY <1>1, <2>6
      <4> QED BY <1>2, <1>3, <4>1 DEF References
    <3> QED BY <1>1, <2>4, <3>1, <3>2, CountedKept
  <2> QED BY <2>5, <2>6
<1> QED BY <1>1, <1>8, <1>9, <1>10, <1>11, <1>12, <1>13 DEF LInv

-----------------------------------------------------------------------------

LEMMA InitLedger == Traced => \A p \in Pids : LInv(p, Ledger0(p), 0)
<1> SUFFICES ASSUME Traced, NEW p \in Pids PROVE LInv(p, Ledger0(p), 0)
  OBVIOUS
<1> DEFINE f == [j \in DOMAIN log |-> None]
           s == Ledger0(p)
           o == p # U
           M == Names(p)
<1>1. log[Ut].pid = U /\ \A j \in DOMAIN log : j \in Nat /\ j # 0
  BY UtIs, LogIs
<1>2. s = [task |-> f, inits |-> {}, doomer |-> None, wk |-> 0, hk |-> 0,
     open |-> <<>>, holder |-> None, refs |-> 0, bare |-> 0, own |-> o, implicit |-> FALSE]
  BY <1>1 DEF Ledger0
<1>3. None \in M /\ 0 \in Nat
  BY NamesIn
<1>4. f \in [DOMAIN log -> M] /\ {} \in SUBSET DOMAIN log /\ o \in BOOLEAN /\ FALSE \in BOOLEAN
  BY <1>3
<1>5. <<>> \in Seq(DOMAIN log) /\ Len(<<>>) = 0
  BY EmptySeq
<1>6. \A j \in DOMAIN log : f[j] = None
  OBVIOUS
<1>7. \A j \in DOMAIN log : f[j] # UTask /\ ~Walker(f[j]) /\ ~Holder(f[j]) /\ \A k : f[j] # W(p, k) /\ f[j] # H(p, k)
  BY <1>6, NameFacts
<1>8. Holders(f) = {}
  BY <1>7 DEF Holders
<1> HIDE DEF f, s, o, M
<1>9. s \in [task : [DOMAIN log -> M], inits : SUBSET DOMAIN log, doomer : M, wk : Nat, hk : Nat,
             open : Seq(DOMAIN log), holder : M, refs : Nat, bare : Nat, own : BOOLEAN, implicit : BOOLEAN]
  BY <1>2, <1>3, <1>4, <1>5
<1>10. /\ s.task = f /\ s.inits = {} /\ s.doomer = None /\ s.open = <<>> /\ s.refs = 0 /\ s.bare = 0
       /\ s.own = o /\ s.implicit = FALSE
  BY <1>2
<1>11. s \in Ledger(p)
  BY <1>9 DEF M, Ledger
<1>12. Assigned(p, s, 0)
  BY <1>1, <1>6, <1>7, <1>10 DEF Assigned
<1>13. Walking(s) /\ Starting(s)
  BY <1>7, <1>10 DEF Walking, Starting
<1>14. Opened(s) /\ Holding(s)
  BY <1>5, <1>7, <1>10 DEF Opened, Holding
<1>15. Owned(p, s, 0) /\ Dooming(p, s, 0)
  BY <1>10 DEF Owned, Dooming, o
<1>16. Counted(p, s, 0)
  <2>1. Starters(s) = 0 /\ Started(s) = 0 /\ References(s) = 0
    <3>1. Starters(s) = Cardinality({}) /\ Started(s) = Cardinality({})
      BY <1>8, <1>10 DEF Starters, Started
    <3>2. Len(s.open) = 0
      BY <1>5, <1>10
    <3>3. References(s) = 0
      BY <1>10, <3>2 DEF References
    <3> QED BY <3>1, <3>3, FS_EmptySet
  <2>2. Balance(p, 0) = before[p] /\ before[p] \in 0 .. 1
    BY LogIs, Counts DEF Balance
  <2>3. Dropped(p, 0) = 0
    BY <1>1 DEF Dropped, At
  <2>4. Undropped(p, 0) = before[p]
    BY <2>2, <2>3 DEF Undropped
  <2>5. ~(p = U /\ s.own)
    BY <1>10 DEF o
  <2> QED BY <2>1, <2>2, <2>4, <2>5 DEF Counted
<1> QED BY <1>11, <1>12, <1>13, <1>14, <1>15, <1>16 DEF LInv, s

LEMMA EntryKept ==
  ASSUME Traced, NEW p \in Pids, NEW i \in DOMAIN log, Mine(p, i), NEW s0, LInv(p, s0, i - 1)
  PROVE  LInv(p, Entry(s0, i), i)
<1> DEFINE s == IF ~s0.own /\ i > Ut THEN take_own_ref(s0) ELSE s0
<1>1. LInv(p, s, i - 1)
  <2>1. CASE ~s0.own /\ i > Ut
    <3>1. p = U
      BY <2>1 DEF LInv, Owned
    <3>2. shape = "umount" => Dropped(U, i - 1) = 1
      BY <2>1, <3>1, DroppedFirst
    <3>3. i - 1 \in 0 .. Len(log)
      BY LogIs
    <3>4. LInv(p, take_own_ref(s0), i - 1)
      BY <2>1, <3>2, <3>3, TakenKept
    <3> QED BY <2>1, <3>4
  <2>2. CASE ~(~s0.own /\ i > Ut)
    BY <2>2
  <2> QED BY <2>1, <2>2
<1>2. Entry(s0, i) = CASE log[i].ev = "legitimize" -> Legitimized(s, i)
                       [] log[i].ev = "get"        -> Got(s, i)
                       [] OTHER                    -> Put(s, i)
  BY DEF Entry
<1> HIDE DEF s
<1>3. CASE log[i].ev = "legitimize"
  BY <1>1, <1>2, <1>3, LegitimizedKept
<1>4. CASE log[i].ev = "get"
  BY <1>1, <1>2, <1>4, GotKept
<1>5. CASE log[i].ev \notin {"legitimize", "get"}
  <2>1. is_put(log[i]) /\ log[i].pid = p
    BY <1>5, MineKinds
  <2>2. s \in Ledger(p) /\ i \in Nat
    BY <1>1, LogIs DEF LInv
  <2>3. PutFrom(p, s, Put(s, i), i)
    BY <2>1, <2>2, PutIs
  <2>4. LInv(p, Put(s, i), i)
    BY <1>1, <2>1, <2>3, WalkerPut, HolderPut
  <2>5. Entry(s0, i) = Put(s, i)
    BY <1>2, <1>5
  <2> QED BY <2>4, <2>5
<1> QED BY <1>3, <1>4, <1>5

(* The ledger of a pid keeps its invariant, whatever the events are.       *)
LEMMA LedgersKept ==
  ASSUME Traced, NEW p \in Pids
  PROVE  \A i \in 0 .. Len(log) : LInv(p, Entries(p)[i], i)
<1> DEFINE N == Len(log)
           T == {i \in 0 .. N : LInv(p, Entries(p)[i], i)}
<1>1. N \in Nat /\ DOMAIN log = 1 .. N
  BY LogIs
<1>2. /\ Entries(p)[0] = Ledger0(p)
      /\ \A i \in 1 .. N : Entries(p)[i] = IF Mine(p, i) THEN Entry(Entries(p)[i - 1], i) ELSE Entries(p)[i - 1]
  BY <1>1, EntriesDef
<1>3. 0 \in T
  BY <1>1, <1>2, InitLedger
<1>4. ASSUME NEW n \in 0 .. N, n # N, n \in T PROVE n + 1 \in T
  <2> DEFINE i == n + 1
  <2>1. i \in DOMAIN log /\ i \in 1 .. N /\ i \in 0 .. N /\ i - 1 = n
    <3> HIDE DEF N, T
    <3>1. n \in Nat /\ n <= N /\ n # N
      BY <1>1, <1>4
    <3>2. i \in 1 .. N /\ i \in 0 .. N /\ i - 1 = n
      BY <1>1, <3>1
    <3> QED BY <1>1, <3>2
  <2>2. LInv(p, Entries(p)[i - 1], i - 1)
    BY <1>4, <2>1
  <2> HIDE DEF i
  <2>3. LInv(p, Entries(p)[i], i)
    <3>1. CASE Mine(p, i)
      BY <1>2, <2>1, <2>2, <3>1, EntryKept
    <3>2. CASE ~Mine(p, i)
      BY <1>2, <2>1, <2>2, <3>2, SkipKept
    <3> QED BY <3>1, <3>2
  <2>4. i \in T
    BY <2>1, <2>3
  <2> QED BY <2>4 DEF i
<1> HIDE DEF T
<1>5. 0 .. N \subseteq T
  BY <1>1, <1>3, <1>4, Inductive
<1> QED BY <1>5 DEF T

(* What a ledger says when the pid's events are over.                      *)
Finished(p, s) ==
    /\ LInv(p, s, Len(log))
    /\ s.own \/ \A i \in DOMAIN log : ~Mine(p, i)
    /\ \A i \in DOMAIN log : Mine(p, i) /\ LastPut(log[i]) => s.doomer = s.task[i]

(* The mount is doomed once, so there is one last put at most.             *)
LEMMA LastPutOnce ==
  ASSUME Traced, NEW i \in DOMAIN log, NEW j \in DOMAIN log, LastPut(log[i]), LastPut(log[j])
  PROVE  i = j
  BY DEF Traced, Kernel, DoomedOnce, LastPut, Dooms

LEMMA DoomerKept ==
  ASSUME Traced, NEW p \in Pids, NEW s, LInv(p, s, Len(log)), s.own, NEW t, t = WalkerDooms(s, p)
  PROVE  Finished(p, t)
<1> DEFINE last == {i \in DOMAIN log : Mine(p, i) /\ LastPut(log[i])}
<1>1. s \in Ledger(p)
  BY DEF LInv
<1>2. CASE last = {}
  <2>1. t = s
    BY <1>2 DEF WalkerDooms
  <2>2. \A i \in DOMAIN log : ~(Mine(p, i) /\ LastPut(log[i]))
    BY <1>2
  <2> QED BY <2>1, <2>2 DEF Finished
<1>3. CASE last # {}
  <2>1. PICK x \in last : TRUE
    BY <1>3
  <2>2. x \in DOMAIN log /\ Mine(p, x) /\ LastPut(log[x])
    BY <2>1
  <2>3. \A i \in DOMAIN log : Mine(p, i) /\ LastPut(log[i]) => i = x
    BY <2>2, LastPutOnce
  <2>4. last = {x}
    BY <2>2, <2>3
  <2>5. Max(last) = x
    <3>1. x \in Nat
      BY <2>2, LogIs
    <3>2. \A y \in {x} : x >= y
      BY <3>1
    <3>3. Max({x}) \in {x}
      BY <3>2 DEF Max
    <3> QED BY <2>4, <3>3
  <2>6. t = [s EXCEPT !.doomer = s.task[x]]
    BY <1>3, <2>5 DEF WalkerDooms
  <2> DEFINE M == Names(p)
             d == s.task[x]
  <2>7. d \in M
    BY <1>1, <2>2, LedgerIs
  <2>8. s \in [task : [DOMAIN log -> M], inits : SUBSET DOMAIN log, doomer : M, wk : Nat, hk : Nat,
               open : Seq(DOMAIN log), holder : M, refs : Nat, bare : Nat, own : BOOLEAN, implicit : BOOLEAN]
    BY <1>1 DEF Ledger
  <2> HIDE DEF M, d, last
  <2>9. /\ t \in [task : [DOMAIN log -> M], inits : SUBSET DOMAIN log, doomer : M, wk : Nat, hk : Nat,
                  open : Seq(DOMAIN log), holder : M, refs : Nat, bare : Nat, own : BOOLEAN, implicit : BOOLEAN]
        /\ t.doomer = d /\ t.task = s.task /\ t.inits = s.inits /\ t.wk = s.wk /\ t.hk = s.hk /\ t.open = s.open
        /\ t.holder = s.holder /\ t.refs = s.refs /\ t.bare = s.bare /\ t.own = s.own /\ t.implicit = s.implicit
    BY <2>6, <2>7, <2>8 DEF d
  <2>10. t \in Ledger(p)
    BY <2>9 DEF M, Ledger
  <2>11. Assigned(p, t, Len(log)) /\ Walking(t) /\ Opened(t) /\ Holding(t) /\ Starting(t) /\ Owned(p, t, Len(log))
    BY <2>9 DEF LInv, Assigned, Walking, Opened, Holding, Starting, Owned
  <2>12. Dooming(p, t, Len(log))
    BY <2>2, LogIs DEF Dooming
  <2>13. OwnPuts => Counted(p, t, Len(log))
    <3>1. Starters(t) = Starters(s) /\ Started(t) = Started(s) /\ References(t) = References(s)
      BY <2>9 DEF Starters, Started, References
    <3>2. OwnPuts => Counted(p, s, Len(log))
      BY DEF LInv
    <3> QED BY <2>9, <3>1, <3>2 DEF Counted
  <2>14. LInv(p, t, Len(log))
    BY <2>10, <2>11, <2>12, <2>13 DEF LInv
  <2>15. \A i \in DOMAIN log : Mine(p, i) /\ LastPut(log[i]) => t.doomer = t.task[i]
    BY <2>3, <2>9 DEF d
  <2> QED BY <2>9, <2>14, <2>15 DEF Finished
<1> QED BY <1>2, <1>3

LEMMA LedgerOfIs ==
  ASSUME Traced, NEW p \in Pids
  PROVE  Finished(p, LedgerOf(p))
<1> DEFINE s == Entries(p)[Len(log)]
           t == IF s.own THEN s ELSE take_own_ref(s)
<1>1. Len(log) \in 0 .. Len(log)
  BY LogIs
<1>2. LInv(p, s, Len(log))
  BY <1>1, LedgersKept
<1>3. LedgerOf(p) = IF \A i \in DOMAIN log : ~Mine(p, i) THEN s ELSE WalkerDooms(t, p)
  BY DEF LedgerOf
<1> HIDE DEF s
<1>4. CASE \A i \in DOMAIN log : ~Mine(p, i)
  BY <1>2, <1>3, <1>4 DEF Finished
<1>5. CASE ~\A i \in DOMAIN log : ~Mine(p, i)
  <2>1. LInv(p, t, Len(log)) /\ t.own
    <3>1. CASE s.own
      BY <1>2, <3>1
    <3>2. CASE ~s.own
      <4>1. shape = "umount" => Dropped(U, Len(log)) = 1
        BY DroppedFirst
      <4>2. LInv(p, take_own_ref(s), Len(log)) /\ take_own_ref(s).own
        BY <1>1, <1>2, <3>2, <4>1, TakenKept
      <4> QED BY <3>2, <4>2
    <3> QED BY <3>1, <3>2
  <2> HIDE DEF t
  <2>2. Finished(p, WalkerDooms(t, p))
    BY <2>1, DoomerKept
  <2> QED BY <1>3, <1>5, <2>2
<1> QED BY <1>4, <1>5

-----------------------------------------------------------------------------

(* A pid without events has no tasks.                                      *)
LEMMA NothingMine ==
  ASSUME Traced, NEW p \in Pids, NEW s, LInv(p, s, Len(log)), \A i \in DOMAIN log : ~Mine(p, i)
  PROVE  Starters(s) = 0 /\ Started(s) = 0 /\ References(s) = 0
<1>1. /\ s \in Ledger(p) /\ Assigned(p, s, Len(log)) /\ Opened(s) /\ Holding(s) /\ Starting(s)
      /\ s.inits \subseteq DOMAIN log /\ Len(s.open) \in Nat /\ s.refs \in Nat
      /\ \A a \in 1 .. Len(s.open) : s.open[a] \in DOMAIN log
  BY LedgerIs DEF LInv
<1>2. \A j \in DOMAIN log : s.task[j] = None
  BY <1>1 DEF Assigned
<1>3. Holders(s.task) = {} /\ s.inits = {}
  BY <1>1, <1>2, NameFacts DEF Holders, Starting
<1>4. Len(s.open) = 0
  <2>1. ASSUME Len(s.open) # 0 PROVE FALSE
    <3>1. 1 \in 1 .. Len(s.open)
      BY <1>1, <2>1
    <3>2. Walker(None)
      BY <1>1, <1>2, <3>1 DEF Opened
    <3> QED BY <3>2, NameFacts
  <2> QED BY <2>1
<1>5. s.refs = 0
  BY <1>1, <1>2, NameFacts DEF Holding
<1>6. Starters(s) = Cardinality({}) /\ Started(s) = Cardinality({})
  BY <1>3 DEF Starters, Started
<1> QED BY <1>4, <1>5, <1>6, FS_EmptySet DEF References

(* The model starts with the references that the pid had when tracing      *)
(* began and with those of the acquisitions that it starts after: with one *)
(* holder for each but the umounter's own.                                 *)
LEMMA StartsMatch ==
  ASSUME Traced, OwnPuts, NEW p \in Pids, NEW s, Finished(p, s),
         Balance(p, Len(log)) = 0 \/ (shape = "umount" /\ before[p] = 0),
         s.implicit => shape = "nsdeath"
  PROVE  /\ before[p] + Started(s) = Starters(s) + (IF p = U /\ shape = "umount" THEN 1 ELSE 0)
         /\ Started(s) \in Nat /\ Starters(s) \in Nat /\ before[p] \in 0 .. 1
<1> DEFINE N == Len(log)
           D == IF p = U /\ shape = "umount" THEN 1 ELSE 0
<1>1. N \in 0 .. N /\ s \in Ledger(p) /\ Counted(p, s, N)
  BY LogIs DEF Finished, LInv
<1>2. /\ Starters(s) \in Nat /\ Started(s) \in Nat /\ References(s) \in Nat
      /\ before[p] \in 0 .. 1 /\ Balance(p, N) \in Nat
  BY <1>1, Numbers
<1>4. shape \in {"umount", "nsdeath"}
  BY DEF shape
<1>5. Dropped(p, N) = D
  <2>1. CASE p = U /\ shape = "umount"
    BY <2>1, DroppedFirst
  <2>2. CASE p = U /\ shape # "umount"
    BY <1>4, <2>2, DroppedFirst
  <2>3. CASE p # U
    BY <2>3, DroppedFirst
  <2> QED BY <2>1, <2>2, <2>3
<1>6. Balance(p, N) + D + Starters(s) = before[p] + Started(s) + References(s)
  <2>1. Undropped(p, N) = Balance(p, N) + D
    BY <1>5 DEF Undropped
  <2> QED BY <1>1, <2>1 DEF Counted
<1>7. CASE s.own
  <2>1. CASE p = U /\ shape = "umount"
    <3>1. Starters(s) + 1 <= before[p] + Started(s) /\ Started(s) <= Starters(s) + 1
      BY <1>1, <1>7, <2>1 DEF Counted
    <3>2. D = 1 /\ Balance(p, N) \in Nat
      BY <1>2, <2>1
    <3> HIDE DEF D
    <3>3. before[p] + Started(s) = Starters(s) + D
      BY <1>2, <1>6, <3>1, <3>2
    <3> QED BY <1>2, <3>3 DEF D
  <2>2. CASE p = U /\ shape # "umount"
    <3>1. Starters(s) <= before[p] + Started(s)
      <4>1. Starters(s) + 0 <= before[p] + Started(s)
        BY <1>1, <2>2 DEF Counted
      <4> QED BY <1>2, <4>1
    <3>2. D = 0 /\ Balance(p, N) = 0
      BY <2>2
    <3> HIDE DEF D
    <3>3. before[p] + Started(s) = Starters(s) + D
      BY <1>2, <1>6, <3>1, <3>2
    <3> QED BY <1>2, <3>3 DEF D
  <2>3. CASE p # U
    <3>1. Starters(s) <= before[p] + Started(s) /\ Started(s) <= Starters(s)
      <4>1. Starters(s) + 0 <= before[p] + Started(s) /\ Started(s) <= Starters(s) + 0
        BY <1>1, <2>3 DEF Counted
      <4> QED BY <1>2, <4>1
    <3>2. D = 0 /\ Balance(p, N) \in Nat
      BY <1>2, <2>3
    <3> HIDE DEF D
    <3>3. before[p] + Started(s) = Starters(s) + D
      BY <1>2, <1>6, <3>1, <3>2
    <3> QED BY <1>2, <3>3 DEF D
  <2> QED BY <2>1, <2>2, <2>3
<1>8. CASE ~s.own
  <2>1. Starters(s) = 0 /\ Started(s) = 0 /\ References(s) = 0
    BY <1>8, NothingMine DEF Finished
  <2>2. Balance(p, N) \in Nat /\ (D = 0 \/ D = 1)
    BY <1>2
  <2>3. shape = "umount" /\ before[p] = 0 => D = 1
    <3>1. p = U
      BY <1>8, <1>1 DEF Finished, LInv, Owned
    <3> QED BY <3>1
  <2> HIDE DEF D
  <2>4. Balance(p, N) + D = before[p]
    BY <1>2, <1>6, <2>1, <2>2
  <2>5. before[p] + Started(s) = Starters(s) + D
    BY <1>2, <2>1, <2>2, <2>3, <2>4
  <2> QED BY <1>2, <2>5 DEF D
<1> QED BY <1>7, <1>8

-----------------------------------------------------------------------------
(* The ledgers put together *)

LedC    == [p \in Pids |-> LedgerOf(p)]
GivenC  == Given(LedC)
InitsC  == UNION {LedC[p].inits : p \in Pids}
PrunedC == {n \in Tasks(GivenC) : Prunable(n, EventsOf(n, GivenC, InitsC))}
KeptC   == Kept(GivenC, InitsC, PrunedC, CleanupTask(LedC))
OutC    == {i \in DOMAIN log : KeptC[i] # None} \ InitsC

LEMMA ConvertedIs ==
  Converted = [task |-> KeptC, out |-> OutC, lk |-> Ranks(OutC), tasks |-> Tasks(GivenC) \ PrunedC,
               inits |-> InitsC, implicit |-> \E p \in Pids : LedC[p].implicit]
  BY DEF Converted, LedC, GivenC, InitsC, PrunedC, KeptC, OutC

(* What the ledgers say of an event.                                       *)
OfLedger(i) ==
    LET p == log[i].pid  n == GivenC[i] IN
    /\ p \in Pids /\ n = LedC[p].task[i] /\ n \in Names(p) /\ n # None
    /\ i \in InitsC <=> i \in LedC[p].inits
    /\ i \in InitsC => Acquires(log[i]) /\ ~Walker(n)
    /\ n = UTask => i \in InitsC

LEMMA LedgersAre ==
  ASSUME Traced, NEW p \in Pids
  PROVE  /\ Finished(p, LedC[p]) /\ LedC[p] \in Ledger(p)
         /\ LedC[p].task \in [DOMAIN log -> Names(p)] /\ LedC[p].inits \subseteq DOMAIN log
         /\ \A j \in DOMAIN log : LedC[p].task[j] # None <=> Mine(p, j)
         /\ \A j \in LedC[p].inits : /\ j \in DOMAIN log /\ Mine(p, j) /\ log[j].pid = p
                                     /\ Acquires(log[j]) /\ ~Walker(LedC[p].task[j])
         /\ \A j \in DOMAIN log : LedC[p].task[j] = UTask => j \in LedC[p].inits
<1> DEFINE s == LedC[p]
<1>1. s = LedgerOf(p)
  BY DEF LedC
<1>2. Finished(p, s)
  BY <1>1, LedgerOfIs
<1> HIDE DEF s
<1>3. s \in Ledger(p) /\ Assigned(p, s, Len(log)) /\ Starting(s)
  BY <1>2 DEF Finished, LInv
<1>4. s.task \in [DOMAIN log -> Names(p)] /\ s.inits \subseteq DOMAIN log
  BY <1>3, LedgerIs
<1>5. \A j \in DOMAIN log : s.task[j] # None <=> Mine(p, j)
  BY <1>3, LogIs DEF Assigned
<1>6. \A j \in s.inits : j \in DOMAIN log /\ Mine(p, j) /\ Acquires(log[j]) /\ ~Walker(s.task[j])
  BY <1>3, <1>4, <1>5 DEF Starting
<1>7. \A j \in DOMAIN log : s.task[j] = UTask => j \in s.inits
  BY <1>3 DEF Starting
<1>8. \A j \in DOMAIN log : Mine(p, j) => log[j].pid = p
  BY DEF Mine
<1> QED BY <1>2, <1>3, <1>4, <1>5, <1>6, <1>7, <1>8 DEF s

LEMMA GivenIs ==
  ASSUME Traced, NEW i \in DOMAIN log
  PROVE  /\ log[i].pid \in Pids
         /\ Mine(log[i].pid, i) => OfLedger(i)
         /\ Protocol(i) # None => GivenC[i] = Protocol(i)
         /\ log[i].ev = "cleanup" => GivenC[i] = None
<1> DEFINE p == log[i].pid
<1>1. p \in Pids
  <2>1. log[i] \in Events
    BY LogIs
  <2> QED BY <2>1 DEF Events
<1>2. GivenC[i] = IF Protocol(i) # None THEN Protocol(i) ELSE LedC[p].task[i]
  BY DEF GivenC, Given
<1>3. ASSUME Mine(p, i) PROVE OfLedger(i)
  <2> DEFINE n == GivenC[i]
             s == LedC[p]
  <2>1. n = s.task[i]
    BY <1>2, <1>3 DEF Mine
  <2>2. n \in Names(p) /\ n # None
    BY <1>1, <1>3, <2>1, LedgersAre
  <2>3. i \in InitsC <=> i \in s.inits
    <3>1. ASSUME i \in InitsC PROVE i \in s.inits
      <4>1. PICK q \in Pids : i \in LedC[q].inits
        BY <3>1 DEF InitsC
      <4>2. log[i].pid = q
        BY <4>1, LedgersAre
      <4> QED BY <4>1, <4>2
    <3> QED BY <1>1, <3>1 DEF InitsC
  <2>4. i \in s.inits => Acquires(log[i]) /\ ~Walker(n)
    BY <1>1, <2>1, LedgersAre
  <2>5. n = UTask => i \in s.inits
    BY <1>1, <2>1, LedgersAre
  <2> QED BY <1>1, <2>1, <2>2, <2>3, <2>4, <2>5 DEF OfLedger
<1>4. log[i].ev = "cleanup" => GivenC[i] = None
  <2> SUFFICES ASSUME log[i].ev = "cleanup" PROVE GivenC[i] = None
    OBVIOUS
  <2>1. Protocol(i) = None
    BY DEF Protocol
  <2>2. ~Mine(p, i)
    BY DEF Mine
  <2> QED BY <1>1, <1>2, <2>1, <2>2, LedgersAre
<1> QED BY <1>1, <1>2, <1>3, <1>4

(* The events of a task are the pid's.                                     *)
LEMMA TaskIs ==
  ASSUME Traced, NEW i \in DOMAIN log, GivenC[i] \notin {None, UTask, Rcu}, NEW n, n = GivenC[i]
  PROVE  /\ Mine(log[i].pid, i) /\ OfLedger(i) /\ n[2] = log[i].pid /\ (Walker(n) \/ Holder(n)) /\ ~(Walker(n) /\ Holder(n))
         /\ n \in Names(n[2]) /\ n[2] \in Pids /\ n \in Tasks(GivenC)
<1>1. Protocol(i) = None /\ log[i].ev # "cleanup"
  <2>1. Protocol(i) \in {None, UTask, Rcu}
    BY MineIs
  <2> QED BY <2>1, GivenIs
<1>2. Mine(log[i].pid, i)
  BY <1>1 DEF Mine
<1>3. OfLedger(i) /\ n \in Names(log[i].pid) /\ n # None
  BY <1>2, GivenIs DEF OfLedger
<1>4. (Walker(n) \/ Holder(n)) /\ ~(Walker(n) /\ Holder(n)) /\ n[2] = log[i].pid
  BY <1>3, NameKinds
<1>5. n \in Tasks(GivenC)
  BY DEF Tasks
<1> QED BY <1>2, <1>3, <1>4, <1>5, GivenIs

LEMMA TasksAre ==
  ASSUME Traced, NEW n
  PROVE  /\ n \in Tasks(GivenC) => /\ n[2] \in Pids /\ (Walker(n) \/ Holder(n)) /\ ~(Walker(n) /\ Holder(n))
                                   /\ n \in Names(n[2]) /\ n \notin {None, UTask, Rcu}
                                   /\ \E i \in DOMAIN log : GivenC[i] = n /\ LedC[n[2]].task[i] = n
         /\ \A p \in Pids, i \in DOMAIN log : LedC[p].task[i] = n /\ (Walker(n) \/ Holder(n))
              => n \in Tasks(GivenC) /\ GivenC[i] = n /\ p = n[2] /\ log[i].pid = p /\ Mine(p, i)
<1>1. ASSUME n \in Tasks(GivenC)
      PROVE  /\ n[2] \in Pids /\ (Walker(n) \/ Holder(n)) /\ ~(Walker(n) /\ Holder(n))
             /\ n \in Names(n[2]) /\ n \notin {None, UTask, Rcu}
             /\ \E i \in DOMAIN log : GivenC[i] = n /\ LedC[n[2]].task[i] = n
  <2>1. PICK i \in DOMAIN log : n = GivenC[i]
    BY <1>1 DEF Tasks
  <2>2. n \notin {None, UTask, Rcu}
    BY <1>1 DEF Tasks
  <2> QED BY <2>1, <2>2, TaskIs DEF OfLedger
<1>2. ASSUME NEW p \in Pids, NEW i \in DOMAIN log, LedC[p].task[i] = n, Walker(n) \/ Holder(n)
      PROVE  n \in Tasks(GivenC) /\ GivenC[i] = n /\ p = n[2] /\ log[i].pid = p /\ Mine(p, i)
  <2>1. n \notin {None, UTask, Rcu}
    BY <1>2, NameFacts
  <2>2. Mine(p, i) /\ log[i].pid = p
    <3>1. Mine(p, i)
      BY <1>2, <2>1, LedgersAre
    <3> QED BY <3>1 DEF Mine
  <2>3. GivenC[i] = n
    BY <1>2, <2>2, GivenIs DEF OfLedger
  <2>4. n \in Names(p)
    BY <1>2, LedgersAre
  <2> QED BY <1>2, <2>1, <2>2, <2>3, <2>4, NameKinds DEF Tasks
<1> QED BY <1>1, <1>2

LEMMA KeptIs ==
  ASSUME Traced, NEW i \in DOMAIN log
  PROVE  /\ log[i].ev = "cleanup" => KeptC[i] = CleanupTask(LedC)
         /\ log[i].ev # "cleanup" =>
              KeptC[i] = IF GivenC[i] \in PrunedC /\ i \notin InitsC THEN None ELSE GivenC[i]
         /\ GivenC[i] \in PrunedC /\ i \notin InitsC => i < Ut
<1>1. ASSUME GivenC[i] \in PrunedC, i \notin InitsC PROVE i < Ut
  <2>1. i \in EventsOf(GivenC[i], GivenC, InitsC)
    BY <1>1 DEF EventsOf
  <2>2. Prunable(GivenC[i], EventsOf(GivenC[i], GivenC, InitsC))
    BY <1>1 DEF PrunedC
  <2> QED BY <2>1, <2>2 DEF Prunable
<1> QED BY <1>1 DEF KeptC, Kept

(* The events of a walker that stays.                                      *)
LEMMA WalkerEvents ==
  ASSUME Traced, NEW n \in Tasks(GivenC) \ PrunedC, Walker(n),
         NEW es, es = {i \in OutC : KeptC[i] = n /\ log[i].ev # "cleanup"}
  PROVE  es = {i \in DOMAIN log : LedC[n[2]].task[i] = n}
<1>1. n[2] \in Pids /\ n # None
  BY TasksAre
<1>2. ASSUME NEW i \in es PROVE i \in DOMAIN log /\ LedC[n[2]].task[i] = n
  <2>1. i \in DOMAIN log /\ KeptC[i] = n /\ log[i].ev # "cleanup"
    BY DEF OutC
  <2>2. GivenC[i] = n /\ n \notin {None, UTask, Rcu}
    BY <1>1, <2>1, KeptIs, NameFacts DEF Walker
  <2>3. OfLedger(i) /\ n[2] = log[i].pid
    BY <2>1, <2>2, TaskIs
  <2> QED BY <2>1, <2>2, <2>3 DEF OfLedger
<1>3. ASSUME NEW i \in DOMAIN log, LedC[n[2]].task[i] = n PROVE i \in es
  <2>1. GivenC[i] = n /\ log[i].pid = n[2] /\ Mine(n[2], i)
    BY <1>1, <1>3, TasksAre
  <2>2. log[i].ev # "cleanup"
    BY <2>1 DEF Mine
  <2>3. KeptC[i] = n
    BY <2>1, <2>2, KeptIs
  <2>4. i \notin InitsC
    <3>1. OfLedger(i)
      BY <2>1, GivenIs
    <3> QED BY <2>1, <3>1 DEF OfLedger
  <2> QED BY <1>1, <2>2, <2>3, <2>4 DEF OutC
<1>4. es \subseteq DOMAIN log
  BY DEF OutC
<1> QED BY <1>2, <1>3, <1>4

LEMMA WalkerReleases ==
  ASSUME Traced, NEW n \in Tasks(GivenC) \ PrunedC, Walker(n),
         NEW es, es = {i \in OutC : KeptC[i] = n /\ log[i].ev # "cleanup"}
  PROVE  \E i \in es :
           /\ log[i].ev = "legitimize" /\ log[i].pid = n[2]
           /\ \A j \in es \ {i} :
                /\ is_put(log[j]) /\ log[j].pid = n[2] /\ i < j /\ log[i].result \in {0, -1}
                /\ es = {i, j}
<1> DEFINE p == n[2]
           s == LedC[p]
<1>1. es = {i \in DOMAIN log : s.task[i] = n} /\ p \in Pids
  BY WalkerEvents, TasksAre
<1>2. \E i \in DOMAIN log : s.task[i] = n
  BY TasksAre
<1>3. Walking(s)
  BY <1>1, LedgersAre DEF Finished, LInv
<1>4. \A j \in es : j \in DOMAIN log /\ log[j].pid = p /\ s.task[j] = n
  BY <1>1, TasksAre
<1> HIDE DEF s, p
<1>5. \A j \in es : log[j].ev = "legitimize" \/ is_put(log[j])
  BY <1>3, <1>4 DEF Walking
<1>6. \A j \in es : is_put(log[j]) => \E x \in es : x < j /\ IsOk(x)
  <2> SUFFICES ASSUME NEW j \in es, is_put(log[j]) PROVE \E x \in es : x < j /\ IsOk(x)
    OBVIOUS
  <2>1. PICK x \in DOMAIN log : x < j /\ IsOk(x) /\ s.task[x] = s.task[j]
    BY <1>3, <1>4 DEF Walking
  <2> QED BY <1>1, <1>4, <2>1
<1>7. \A x, y \in es : /\ log[x].ev = "legitimize" /\ log[y].ev = "legitimize" => x = y
                       /\ is_put(log[x]) /\ is_put(log[y]) => x = y
  <2> SUFFICES ASSUME NEW x \in es, NEW y \in es
               PROVE  /\ log[x].ev = "legitimize" /\ log[y].ev = "legitimize" => x = y
                      /\ is_put(log[x]) /\ is_put(log[y]) => x = y
    OBVIOUS
  <2>1. x \in DOMAIN log /\ y \in DOMAIN log /\ Walker(s.task[x]) /\ s.task[x] = s.task[y]
    BY <1>4
  <2> QED BY <1>3, <2>1 DEF Walking
<1>8. PICK i \in es : log[i].ev = "legitimize"
  <2>1. PICK j \in es : TRUE
    BY <1>1, <1>2
  <2>2. CASE log[j].ev = "legitimize"
    BY <2>2
  <2>3. CASE is_put(log[j])
    BY <1>6, <2>1, <2>3 DEF IsOk
  <2> QED BY <1>5, <2>2, <2>3
<1>9. ASSUME NEW j \in es \ {i}
      PROVE  is_put(log[j]) /\ i < j /\ log[i].result \in {0, -1} /\ es = {i, j}
  <2>1. is_put(log[j])
    BY <1>5, <1>7, <1>8
  <2>2. PICK x \in es : x < j /\ IsOk(x)
    BY <1>6, <2>1
  <2>3. x = i
    BY <1>7, <1>8, <2>2 DEF IsOk
  <2>4. ASSUME NEW k \in es PROVE k = i \/ k = j
    <3>1. CASE log[k].ev = "legitimize"
      BY <1>7, <1>8, <3>1
    <3>2. CASE is_put(log[k])
      BY <1>7, <2>1, <3>2
    <3> QED BY <1>5, <3>1, <3>2
  <2>5. es = {i, j}
    BY <2>4
  <2> QED BY <2>1, <2>2, <2>3, <2>5 DEF IsOk
<1> QED BY <1>4, <1>8, <1>9 DEF p

-----------------------------------------------------------------------------

(* The pid whose put doomed the mount is the only one with a doomer.       *)
LEMMA DoomersAre ==
  ASSUME Traced
  PROVE  \A p \in Pids : LedC[p].doomer # None => \E j \in DOMAIN log : Mine(p, j) /\ LastPut(log[j]) /\ Dooms(log[j])
<1> SUFFICES ASSUME NEW p \in Pids, LedC[p].doomer # None
             PROVE  \E j \in DOMAIN log : Mine(p, j) /\ LastPut(log[j]) /\ Dooms(log[j])
  OBVIOUS
<1>1. Dooming(p, LedC[p], Len(log))
  BY LedgersAre DEF Finished, LInv
<1> QED BY <1>1 DEF Dooming, LastPut, Dooms

LEMMA CleanupIs ==
  ASSUME Traced, NEW i \in At("cleanup")
  PROVE  KeptC[i] = KeptC[DoomedAt]
<1> DEFINE d == DoomedAt
           p == log[d].pid
<1>1. i \in DOMAIN log /\ log[i].ev = "cleanup"
  BY DEF At
<1>2. Doomed /\ Kernel
  BY DEF Traced, Kernel, DoomedOnce
<1>3. d \in DOMAIN log /\ Dooms(log[d]) /\ \A j \in DOMAIN log : Dooms(log[j]) => j = d
  BY <1>2, DoomedAtIs
<1> HIDE DEF d
<1>4. log[d].ev \in {"peek", "slowpath"} /\ d > Ut
  BY <1>3, UtIs DEF Dooms
<1>5. KeptC[i] = CleanupTask(LedC)
  BY <1>1, KeptIs
<1>6. d \in Nat /\ Ut \in Nat
  BY <1>3, LogIs, UtIs
<1>7. KeptC[d] = GivenC[d]
  <2>1. ~(d < Ut)
    BY <1>4, <1>6
  <2> QED BY <1>3, <1>4, <2>1, KeptIs
<1>8. \A q \in Pids : LedC[q].doomer # None => Mine(q, d) /\ LastPut(log[d])
  <2> SUFFICES ASSUME NEW q \in Pids, LedC[q].doomer # None PROVE Mine(q, d) /\ LastPut(log[d])
    OBVIOUS
  <2>1. PICK j \in DOMAIN log : Mine(q, j) /\ LastPut(log[j]) /\ Dooms(log[j])
    BY DoomersAre
  <2>2. j = d
    BY <1>3, <2>1
  <2> QED BY <2>1, <2>2
<1>9. CASE Protocol(d) # None
  <2>1. \A q \in Pids : LedC[q].doomer = None
    BY <1>8, <1>9 DEF Mine
  <2>2. {q \in Pids : LedC[q].doomer # None} = {}
    BY <2>1
  <2>3. CleanupTask(LedC) = UTask
    BY <2>2 DEF CleanupTask
  <2>4. GivenC[d] = Protocol(d)
    BY <1>3, <1>9, GivenIs
  <2>5. Protocol(d) = UTask
    BY <1>3, <1>4, <1>9, MineIs
  <2> QED BY <1>5, <1>7, <2>3, <2>4, <2>5 DEF d
<1>10. CASE Protocol(d) = None
  <2>1. Mine(p, d) /\ p \in Pids
    BY <1>3, <1>4, <1>10, GivenIs DEF Mine
  <2>2. log[d].ev = "slowpath"
    BY <1>4, <1>10, NameFacts DEF Protocol
  <2>3. LastPut(log[d])
    <3>1. d \in At("slowpath")
      BY <1>3, <2>2 DEF At
    <3>2. ~log[d].flag
      BY <1>2, <3>1 DEF Kernel, DoomedOnce
    <3> QED BY <1>3, <2>2, <3>2 DEF LastPut, Dooms
  <2>4. LedC[p].doomer = LedC[p].task[d]
    BY <1>3, <2>1, <2>3, LedgersAre DEF Finished
  <2>5. OfLedger(d)
    BY <1>3, <2>1, GivenIs
  <2>6. GivenC[d] = LedC[p].doomer /\ LedC[p].doomer # None
    BY <2>4, <2>5 DEF OfLedger
  <2>7. \A q \in Pids : LedC[q].doomer # None => q = p
    BY <1>8 DEF Mine
  <2> DEFINE ps == {q \in Pids : LedC[q].doomer # None}
  <2>8. ps = {p}
    BY <2>1, <2>6, <2>7
  <2>9. Max(ps) = p
    <3>1. p \in Nat
      BY <2>1, TraceLedgerAssumption
    <3>2. \A y \in {p} : p >= y
      BY <3>1
    <3>3. Max({p}) \in {p}
      BY <3>2 DEF Max
    <3> QED BY <2>8, <3>3
  <2>10. CleanupTask(LedC) = LedC[p].doomer
    BY <2>8, <2>9 DEF CleanupTask
  <2> QED BY <1>5, <1>7, <2>6, <2>10 DEF d
<1> QED BY <1>9, <1>10

-----------------------------------------------------------------------------
(* What some pids contribute to the model's beginning *)

Beginning(Q) == {p \in Q : before[p] = 1}
InitsOf(Q)   == UNION {LedC[p].inits : p \in Q}
HoldersOf(Q) == UNION {Holders(LedC[p].task) : p \in Q}
OwnOf(Q)     == IF U \in Q /\ shape = "umount" THEN 1 ELSE 0
Begun(Q)     ==
    Cardinality(Beginning(Q)) + Cardinality(InitsOf(Q)) = Cardinality(HoldersOf(Q)) + OwnOf(Q)

LEMMA RangeFinite ==
  ASSUME NEW D, IsFiniteSet(D), NEW S, NEW f \in [D -> S], NEW T, T = {f[i] : i \in D}
  PROVE  IsFiniteSet(T)
<1> DEFINE g == [i \in D |-> f[i]]
<1>1. g \in [D -> T] /\ \A t \in T : \E i \in D : g[i] = t
  OBVIOUS
<1>2. g \in Surjection(D, T)
  <2> HIDE DEF g
  <2> QED BY <1>1 DEF Surjection
<1> HIDE DEF g
<1> QED BY <1>2, FS_Surjection

LEMMA TasksFinite ==
  ASSUME Traced
  PROVE  IsFiniteSet(Tasks(GivenC)) /\ IsFiniteSet(InitsC) /\ InitsC \subseteq DOMAIN log
<1> DEFINE R == {GivenC[i] : i \in DOMAIN log}
<1>1. GivenC = [i \in DOMAIN log |-> GivenC[i]]
  BY DEF GivenC, Given
<1>2. GivenC \in [DOMAIN log -> R]
  BY <1>1
<1>3. IsFiniteSet(R)
  <2>1. IsFiniteSet(DOMAIN log) /\ R = {GivenC[i] : i \in DOMAIN log}
    BY LogIs
  <2> HIDE DEF R
  <2> QED BY <1>2, <2>1, RangeFinite
<1>4. Tasks(GivenC) \subseteq R
  BY DEF Tasks
<1>5. InitsC \subseteq DOMAIN log
  BY LedgersAre DEF InitsC
<1> HIDE DEF R
<1>6. IsFiniteSet(InitsC)
  BY <1>5, LogIs, FS_Subset
<1> QED BY <1>3, <1>4, <1>5, <1>6, FS_Subset

LEMMA BegunFinite ==
  ASSUME Traced, NEW Q, Q \subseteq Pids
  PROVE  /\ IsFiniteSet(Beginning(Q)) /\ Cardinality(Beginning(Q)) \in Nat
         /\ IsFiniteSet(InitsOf(Q)) /\ Cardinality(InitsOf(Q)) \in Nat
         /\ IsFiniteSet(HoldersOf(Q)) /\ Cardinality(HoldersOf(Q)) \in Nat
         /\ OwnOf(Q) \in 0 .. 1
         /\ \A n \in HoldersOf(Q) : n \in Tasks(GivenC) /\ Holder(n) /\ n[2] \in Q
         /\ \A i \in InitsOf(Q) : i \in InitsC /\ log[i].pid \in Q
<1>1. Beginning(Q) \subseteq Pids /\ IsFiniteSet(Pids)
  BY TraceLedgerAssumption DEF Beginning
<1>2. \A i \in InitsOf(Q) : i \in InitsC /\ log[i].pid \in Q
  <2> SUFFICES ASSUME NEW i \in InitsOf(Q) PROVE i \in InitsC /\ log[i].pid \in Q
    OBVIOUS
  <2>1. PICK p \in Q : i \in LedC[p].inits
    BY DEF InitsOf
  <2>2. p \in Pids
    OBVIOUS
  <2>3. log[i].pid = p
    BY <2>1, <2>2, LedgersAre
  <2> QED BY <2>1, <2>2, <2>3 DEF InitsC
<1>3. \A n \in HoldersOf(Q) : n \in Tasks(GivenC) /\ Holder(n) /\ n[2] \in Q
  <2> SUFFICES ASSUME NEW n \in HoldersOf(Q) PROVE n \in Tasks(GivenC) /\ Holder(n) /\ n[2] \in Q
    OBVIOUS
  <2>1. PICK p \in Q : n \in Holders(LedC[p].task)
    BY DEF HoldersOf
  <2>2. PICK j \in DOMAIN log : n = LedC[p].task[j] /\ Holder(n)
    BY <2>1 DEF Holders
  <2>3. p \in Pids
    OBVIOUS
  <2> QED BY <2>2, <2>3, TasksAre
<1>4. InitsOf(Q) \subseteq InitsC /\ HoldersOf(Q) \subseteq Tasks(GivenC)
  BY <1>2, <1>3
<1>5. IsFiniteSet(Beginning(Q)) /\ IsFiniteSet(InitsOf(Q)) /\ IsFiniteSet(HoldersOf(Q))
  BY <1>1, <1>4, TasksFinite, FS_Subset
<1>6. OwnOf(Q) \in 0 .. 1
  BY DEF OwnOf
<1> QED BY <1>2, <1>3, <1>5, <1>6, FS_CardinalityType

(* One pid more.                                                           *)
LEMMA BegunMore ==
  ASSUME Traced, NEW Q, Q \subseteq Pids, NEW p \in Pids \ Q, Begun(Q),
         before[p] + Cardinality(LedC[p].inits)
           = Cardinality(Holders(LedC[p].task)) + (IF p = U /\ shape = "umount" THEN 1 ELSE 0),
         before[p] \in 0 .. 1
  PROVE  Begun(Q \cup {p})
<1> DEFINE R == Q \cup {p}
           s == LedC[p]
           o == IF p = U /\ shape = "umount" THEN 1 ELSE 0
<1>1. R \subseteq Pids /\ {p} \subseteq Pids
  OBVIOUS
<1>2. Beginning(R) = Beginning(Q) \cup Beginning({p}) /\ Beginning(Q) \cap Beginning({p}) = {}
  BY DEF Beginning
<1>3. InitsOf(R) = InitsOf(Q) \cup InitsOf({p}) /\ InitsOf({p}) = s.inits
  BY DEF InitsOf
<1>4. HoldersOf(R) = HoldersOf(Q) \cup HoldersOf({p}) /\ HoldersOf({p}) = Holders(s.task)
  BY DEF HoldersOf
<1>5. InitsOf(Q) \cap InitsOf({p}) = {}
  <2> SUFFICES ASSUME NEW i \in InitsOf(Q), i \in InitsOf({p}) PROVE FALSE
    OBVIOUS
  <2>1. log[i].pid \in Q /\ log[i].pid \in {p}
    BY <1>1, BegunFinite
  <2> QED BY <2>1
<1>6. HoldersOf(Q) \cap HoldersOf({p}) = {}
  <2> SUFFICES ASSUME NEW n \in HoldersOf(Q), n \in HoldersOf({p}) PROVE FALSE
    OBVIOUS
  <2>1. n[2] \in Q /\ n[2] \in {p}
    BY <1>1, BegunFinite
  <2> QED BY <2>1
<1>7. OwnOf(R) = OwnOf(Q) + o /\ OwnOf(Q) \in 0 .. 1 /\ o \in 0 .. 1
  BY DEF OwnOf
<1>8. Cardinality(Beginning({p})) = before[p]
  <2>1. CASE before[p] = 1
    <3>1. Beginning({p}) = {p}
      BY <2>1 DEF Beginning
    <3> QED BY <2>1, <3>1, FS_Singleton
  <2>2. CASE before[p] = 0
    <3>1. Beginning({p}) = {}
      BY <2>2 DEF Beginning
    <3> QED BY <2>2, <3>1, FS_EmptySet
  <2> QED BY <2>1, <2>2
<1> HIDE DEF R, s, o
<1>9. /\ Cardinality(Beginning(R)) = Cardinality(Beginning(Q)) + before[p]
      /\ Cardinality(Beginning(Q)) \in Nat
  <2>1. IsFiniteSet(Beginning(Q)) /\ IsFiniteSet(Beginning({p}))
    BY <1>1, BegunFinite
  <2>2. /\ Cardinality(Beginning(Q) \cup Beginning({p})) = Cardinality(Beginning(Q)) + Cardinality(Beginning({p}))
        /\ Cardinality(Beginning(Q)) \in Nat
    BY <1>2, <2>1, Apart
  <2> QED BY <1>2, <1>8, <2>2
<1>10. /\ Cardinality(InitsOf(R)) = Cardinality(InitsOf(Q)) + Cardinality(s.inits)
       /\ Cardinality(InitsOf(Q)) \in Nat /\ Cardinality(s.inits) \in Nat
  <2>1. IsFiniteSet(InitsOf(Q)) /\ IsFiniteSet(InitsOf({p}))
    BY <1>1, BegunFinite
  <2>2. /\ Cardinality(InitsOf(Q) \cup InitsOf({p})) = Cardinality(InitsOf(Q)) + Cardinality(InitsOf({p}))
        /\ Cardinality(InitsOf(Q)) \in Nat /\ Cardinality(InitsOf({p})) \in Nat
    BY <1>5, <2>1, Apart
  <2> QED BY <1>3, <2>2
<1>11. /\ Cardinality(HoldersOf(R)) = Cardinality(HoldersOf(Q)) + Cardinality(Holders(s.task))
       /\ Cardinality(HoldersOf(Q)) \in Nat /\ Cardinality(Holders(s.task)) \in Nat
  <2>1. IsFiniteSet(HoldersOf(Q)) /\ IsFiniteSet(HoldersOf({p}))
    BY <1>1, BegunFinite
  <2>2. /\ Cardinality(HoldersOf(Q) \cup HoldersOf({p})) = Cardinality(HoldersOf(Q)) + Cardinality(HoldersOf({p}))
        /\ Cardinality(HoldersOf(Q)) \in Nat /\ Cardinality(HoldersOf({p})) \in Nat
    BY <1>6, <2>1, Apart
  <2> QED BY <1>4, <2>2
<1>12. before[p] + Cardinality(s.inits) = Cardinality(Holders(s.task)) + o
  BY DEF s, o
<1>13. Cardinality(Beginning(Q)) + Cardinality(InitsOf(Q)) = Cardinality(HoldersOf(Q)) + OwnOf(Q)
  BY DEF Begun
<1>14. Begun(R)
  <2>1. Cardinality(Beginning(R)) + Cardinality(InitsOf(R)) = Cardinality(HoldersOf(R)) + OwnOf(R)
    BY <1>7, <1>9, <1>10, <1>11, <1>12, <1>13
  <2> QED BY <2>1 DEF Begun
<1> QED BY <1>14 DEF R

(* The model starts with the references of the beginning and with those of *)
(* the acquisitions that became part of it.                                *)
LEMMA AllBegun ==
  ASSUME Traced, OwnPuts, Accounted, \A p \in Pids : LedC[p].implicit => shape = "nsdeath"
  PROVE  Begun(Pids)
<1> DEFINE F == {Q \in SUBSET Pids : Begun(Q)}
<1>1. {} \in F
  <2>1. Beginning({}) = {} /\ InitsOf({}) = {} /\ HoldersOf({}) = {} /\ OwnOf({}) = 0
    BY DEF Beginning, InitsOf, HoldersOf, OwnOf
  <2>2. Begun({})
    BY <2>1, FS_EmptySet DEF Begun
  <2> QED BY <2>2
<1>2. ASSUME NEW Q \in F, NEW p \in Pids \ Q PROVE Q \cup {p} \in F
  <2>1. Q \subseteq Pids /\ Begun(Q) /\ p \in Pids
    OBVIOUS
  <2>2. Balance(p, Len(log)) = 0 \/ (shape = "umount" /\ before[p] = 0)
    BY DEF Accounted
  <2>3. Finished(p, LedC[p])
    BY LedgersAre
  <2>4. /\ before[p] + Started(LedC[p]) = Starters(LedC[p]) + (IF p = U /\ shape = "umount" THEN 1 ELSE 0)
        /\ before[p] \in 0 .. 1
    BY <2>2, <2>3, StartsMatch
  <2>5. Begun(Q \cup {p})
    BY <2>1, <2>4, BegunMore DEF Started, Starters
  <2> QED BY <2>1, <2>5
<1>3. F \subseteq SUBSET Pids /\ IsFiniteSet(Pids)
  BY TraceLedgerAssumption
<1> HIDE DEF F
<1>4. Pids \in F
  BY <1>1, <1>2, <1>3, GrowingSets
<1> QED BY <1>4 DEF F

-----------------------------------------------------------------------------
(* The events of some tasks, but for those in the model's Init *)

EvOf(Q)    == {i \in DOMAIN log : GivenC[i] \in Q} \ InitsC
AcqOf(Q)   == {i \in EvOf(Q) : Acquires(log[i])}
PutOf(Q)   == {i \in EvOf(Q) : is_put(log[i])}
HoldOf(Q)  == {n \in Q : Holder(n)}
Settled(Q) == Cardinality(AcqOf(Q)) + Cardinality(HoldOf(Q)) = Cardinality(PutOf(Q))

LEMMA EventsFinite ==
  ASSUME Traced, NEW Q, Q \subseteq Tasks(GivenC)
  PROVE  /\ IsFiniteSet(AcqOf(Q)) /\ IsFiniteSet(PutOf(Q)) /\ IsFiniteSet(HoldOf(Q))
         /\ Cardinality(AcqOf(Q)) \in Nat /\ Cardinality(PutOf(Q)) \in Nat /\ Cardinality(HoldOf(Q)) \in Nat
<1>1. AcqOf(Q) \subseteq DOMAIN log /\ PutOf(Q) \subseteq DOMAIN log /\ HoldOf(Q) \subseteq Tasks(GivenC)
  BY DEF AcqOf, PutOf, HoldOf, EvOf
<1>2. IsFiniteSet(AcqOf(Q)) /\ IsFiniteSet(PutOf(Q)) /\ IsFiniteSet(HoldOf(Q))
  BY <1>1, LogIs, TasksFinite, FS_Subset
<1> QED BY <1>2, FS_CardinalityType

(* The kinds of a task's events.                                           *)
LEMMA TaskEvents ==
  ASSUME Traced, NEW n \in Tasks(GivenC), NEW i \in EvOf({n})
  PROVE  /\ i \in DOMAIN log
         /\ Walker(n) => (Acquires(log[i]) <=> log[i].ev = "legitimize" /\ log[i].result \in {0, -1})
         /\ Holder(n) => (Acquires(log[i]) <=> log[i].ev = "get")
<1> DEFINE p == n[2]
           s == LedC[p]
<1>1. i \in DOMAIN log /\ GivenC[i] = n
  BY DEF EvOf
<1>2. n \notin {None, UTask, Rcu} /\ p \in Pids
  BY TasksAre
<1>3. Mine(log[i].pid, i) /\ OfLedger(i) /\ log[i].pid = p
  BY <1>1, <1>2, TaskIs
<1>4. s.task[i] = n
  BY <1>1, <1>3 DEF OfLedger
<1>5. Walking(s) /\ Holding(s)
  BY <1>2, LedgersAre DEF Finished, LInv
<1>6. /\ Acquires(log[i]) <=> log[i].ev = "get" \/ (log[i].ev = "legitimize" /\ log[i].result \in {0, -1})
      /\ is_put(log[i]) => ~Acquires(log[i])
  BY <1>1, <1>3, MineKinds
<1> HIDE DEF s, p
<1>7. Walker(n) => log[i].ev = "legitimize" \/ is_put(log[i])
  BY <1>1, <1>4, <1>5 DEF Walking
<1>8. Holder(n) => log[i].ev = "get" \/ is_put(log[i])
  BY <1>1, <1>4, <1>5 DEF Holding
<1>9. Walker(n) => (Acquires(log[i]) <=> log[i].ev = "legitimize" /\ log[i].result \in {0, -1})
  BY <1>6, <1>7
<1>10. Holder(n) => (Acquires(log[i]) <=> log[i].ev = "get")
  BY <1>6, <1>8
<1> QED BY <1>1, <1>9, <1>10

(* A pruned task released what it acquired and what it began with.         *)
LEMMA NetIs ==
  ASSUME Traced, NEW n \in PrunedC
  PROVE  Settled({n})
<1> DEFINE es == EventsOf(n, GivenC, InitsC)
<1>1. n \in Tasks(GivenC) /\ Net(n, es) = 0
  BY DEF PrunedC, Prunable
<1>2. es = EvOf({n})
  BY DEF EvOf, EventsOf
<1> HIDE DEF es
<1>3. (Walker(n) \/ Holder(n)) /\ ~(Walker(n) /\ Holder(n))
  BY <1>1, TasksAre
<1>4. PutOf({n}) = {i \in es : is_put(log[i])}
  BY <1>2 DEF PutOf
<1>5. {n} \subseteq Tasks(GivenC)
  BY <1>1
<1>6. Cardinality(AcqOf({n})) \in Nat /\ Cardinality(PutOf({n})) \in Nat
  BY <1>5, EventsFinite
<1>7. CASE Walker(n)
  <2>1. AcqOf({n}) = {i \in es : log[i].ev = "legitimize" /\ log[i].result \in {0, -1}}
    BY <1>1, <1>2, <1>7, TaskEvents DEF AcqOf
  <2>2. HoldOf({n}) = {}
    BY <1>3, <1>7 DEF HoldOf
  <2>3. Cardinality(AcqOf({n})) - Cardinality(PutOf({n})) = 0
    <3>1. n[1] = "W"
      BY <1>7 DEF Walker
    <3> QED BY <1>1, <1>4, <2>1, <3>1 DEF Net
  <2>4. Cardinality(HoldOf({n})) = 0
    BY <2>2, FS_EmptySet
  <2> QED BY <1>6, <2>3, <2>4 DEF Settled
<1>8. CASE Holder(n)
  <2>1. AcqOf({n}) = {i \in es : log[i].ev = "get"}
    BY <1>1, <1>2, <1>8, TaskEvents DEF AcqOf
  <2>2. HoldOf({n}) = {n}
    BY <1>8 DEF HoldOf
  <2>3. 1 + Cardinality(AcqOf({n})) - Cardinality(PutOf({n})) = 0
    <3>1. n[1] # "W"
      BY <1>3, <1>8 DEF Walker
    <3>2. Net(n, es) = (1 + Cardinality({i \in es : log[i].ev = "get"})) - Cardinality({i \in es : is_put(log[i])})
      BY <3>1, Zenon DEF Net
    <3>3. Net(n, es) = (1 + Cardinality(AcqOf({n}))) - Cardinality(PutOf({n}))
      BY <1>4, <2>1, <3>2, Zenon
    <3> QED BY <1>1, <1>6, <3>3
  <2>4. Cardinality(HoldOf({n})) = 1
    BY <2>2, FS_Singleton
  <2> QED BY <1>6, <2>3, <2>4 DEF Settled
<1> QED BY <1>3, <1>7, <1>8

LEMMA SettledMore ==
  ASSUME Traced, NEW Q, Q \subseteq Tasks(GivenC), NEW n \in Tasks(GivenC) \ Q, Settled(Q), Settled({n})
  PROVE  Settled(Q \cup {n})
<1> DEFINE R == Q \cup {n}
           S == {n}
<1>1. R \subseteq Tasks(GivenC) /\ S \subseteq Tasks(GivenC)
  OBVIOUS
<1>2. AcqOf(R) = AcqOf(Q) \cup AcqOf(S) /\ AcqOf(Q) \cap AcqOf(S) = {}
  BY DEF AcqOf, EvOf
<1>3. PutOf(R) = PutOf(Q) \cup PutOf(S) /\ PutOf(Q) \cap PutOf(S) = {}
  BY DEF PutOf, EvOf
<1>4. HoldOf(R) = HoldOf(Q) \cup HoldOf(S) /\ HoldOf(Q) \cap HoldOf(S) = {}
  BY DEF HoldOf
<1>5. Settled(S)
  OBVIOUS
<1> HIDE DEF R, S
<1>6. /\ IsFiniteSet(AcqOf(Q)) /\ IsFiniteSet(PutOf(Q)) /\ IsFiniteSet(HoldOf(Q))
      /\ IsFiniteSet(AcqOf(S)) /\ IsFiniteSet(PutOf(S)) /\ IsFiniteSet(HoldOf(S))
  BY <1>1, EventsFinite
<1>7. /\ Cardinality(AcqOf(Q) \cup AcqOf(S)) = Cardinality(AcqOf(Q)) + Cardinality(AcqOf(S))
      /\ Cardinality(AcqOf(Q)) \in Nat /\ Cardinality(AcqOf(S)) \in Nat
  BY <1>2, <1>6, Apart
<1>8. /\ Cardinality(PutOf(Q) \cup PutOf(S)) = Cardinality(PutOf(Q)) + Cardinality(PutOf(S))
      /\ Cardinality(PutOf(Q)) \in Nat /\ Cardinality(PutOf(S)) \in Nat
  BY <1>3, <1>6, Apart
<1>9. /\ Cardinality(HoldOf(Q) \cup HoldOf(S)) = Cardinality(HoldOf(Q)) + Cardinality(HoldOf(S))
      /\ Cardinality(HoldOf(Q)) \in Nat /\ Cardinality(HoldOf(S)) \in Nat
  BY <1>4, <1>6, Apart
<1>10. /\ Cardinality(AcqOf(R)) = Cardinality(AcqOf(Q)) + Cardinality(AcqOf(S))
       /\ Cardinality(PutOf(R)) = Cardinality(PutOf(Q)) + Cardinality(PutOf(S))
       /\ Cardinality(HoldOf(R)) = Cardinality(HoldOf(Q)) + Cardinality(HoldOf(S))
  BY <1>2, <1>3, <1>4, <1>7, <1>8, <1>9
<1>11. /\ Cardinality(AcqOf(Q)) + Cardinality(HoldOf(Q)) = Cardinality(PutOf(Q))
       /\ Cardinality(AcqOf(S)) + Cardinality(HoldOf(S)) = Cardinality(PutOf(S))
  BY <1>5 DEF Settled
<1>12. Cardinality(AcqOf(R)) + Cardinality(HoldOf(R)) = Cardinality(PutOf(R))
  BY <1>7, <1>8, <1>9, <1>10, <1>11
<1> QED BY <1>12 DEF Settled, R

LEMMA PrunedSettled ==
  ASSUME Traced
  PROVE  Settled(PrunedC) /\ PrunedC \subseteq Tasks(GivenC) /\ IsFiniteSet(PrunedC)
<1> DEFINE F == {Q \in SUBSET PrunedC : Settled(Q)}
<1>1. PrunedC \subseteq Tasks(GivenC) /\ IsFiniteSet(PrunedC)
  <2>1. PrunedC \subseteq Tasks(GivenC)
    BY DEF PrunedC
  <2> QED BY <2>1, TasksFinite, FS_Subset
<1>2. {} \in F
  <2>1. AcqOf({}) = {} /\ PutOf({}) = {} /\ HoldOf({}) = {}
    BY DEF AcqOf, PutOf, HoldOf, EvOf
  <2>2. Settled({})
    BY <2>1, FS_EmptySet DEF Settled
  <2> QED BY <2>2
<1>3. ASSUME NEW Q \in F, NEW n \in PrunedC \ Q PROVE Q \cup {n} \in F
  <2>1. Q \subseteq PrunedC /\ Q \subseteq Tasks(GivenC) /\ n \in Tasks(GivenC) \ Q /\ Settled(Q)
    BY <1>1
  <2>2. Settled({n})
    BY NetIs
  <2>3. Settled(Q \cup {n})
    BY <2>1, <2>2, SettledMore
  <2> QED BY <2>1, <2>3
<1>4. F \subseteq SUBSET PrunedC
  OBVIOUS
<1> HIDE DEF F
<1>5. PrunedC \in F
  BY <1>1, <1>2, <1>3, <1>4, GrowingSets
<1> QED BY <1>1, <1>5 DEF F

-----------------------------------------------------------------------------
(* The replay's acquisitions and releases, up to an event *)

OutAcq(k) == {j \in OutC : j <= k /\ Acquires(log[j])}
OutRel(k) == {j \in OutC : j <= k /\ Releases(log[j])}
AllRel(k) == {j \in DOMAIN log : j <= k /\ Releases(log[j])}

(* An event that changes the count has a task, and what is not emitted is  *)
(* part of the model's Init or of a pruned task.                           *)
LEMMA Emitted ==
  ASSUME Traced, NEW j \in DOMAIN log, Acquires(log[j]) \/ Releases(log[j])
  PROVE  /\ j \in OutC <=> j \notin InitsC /\ j \notin EvOf(PrunedC)
         /\ ~(Acquires(log[j]) /\ Releases(log[j]))
         /\ Releases(log[j]) => j \notin InitsC
         /\ Releases(log[j]) /\ j \in EvOf(PrunedC) => is_put(log[j])
<1>1. log[j].ev \in {"get", "legitimize", "put_fast", "slowpath", "caller_drop"}
  BY DEF Acquires, Releases, is_put
<1>2. ~(Acquires(log[j]) /\ Releases(log[j]))
  BY DEF Acquires, Releases, is_put
<1>3. GivenC[j] # None
  <2>1. CASE Protocol(j) # None
    BY <2>1, GivenIs
  <2>2. CASE Protocol(j) = None
    <3>1. Mine(log[j].pid, j)
      BY <1>1, <2>2 DEF Mine
    <3> QED BY <3>1, GivenIs DEF OfLedger
  <2> QED BY <2>1, <2>2
<1>4. KeptC[j] # None <=> ~(GivenC[j] \in PrunedC /\ j \notin InitsC)
  BY <1>1, <1>3, KeptIs
<1>5. j \in OutC <=> j \notin InitsC /\ j \notin EvOf(PrunedC)
  BY <1>4 DEF OutC, EvOf
<1>6. j \in InitsC => Acquires(log[j])
  BY LedgersAre DEF InitsC
<1>7. Releases(log[j]) /\ j \in EvOf(PrunedC) => is_put(log[j])
  <2> SUFFICES ASSUME log[j].ev = "caller_drop" PROVE j \notin EvOf(PrunedC)
    BY DEF Releases
  <2>1. Protocol(j) = UTask
    BY DEF Protocol
  <2>2. GivenC[j] = UTask
    BY <2>1, GivenIs, NameFacts
  <2>3. UTask \notin Tasks(GivenC)
    BY DEF Tasks
  <2> QED BY <2>2, <2>3 DEF EvOf, PrunedC
<1> QED BY <1>2, <1>5, <1>6, <1>7

LEMMA BeforeUt ==
  ASSUME Traced, \A i \in InitsC : i < Ut, NEW k \in DOMAIN log, k >= Ut
  PROVE  /\ k \in Nat /\ InitsC \subseteq DOMAIN log
         /\ \A j \in InitsC : j <= k
         /\ \A j \in EvOf(PrunedC) : j \in DOMAIN log /\ j <= k
<1>1. k \in Nat /\ Ut \in Nat /\ DOMAIN log \subseteq Nat
  BY LogIs, UtIs
<1>2. InitsC \subseteq DOMAIN log
  BY TasksFinite
<1>3. \A j \in InitsC : j <= k
  BY <1>1, <1>2
<1>4. ASSUME NEW j \in EvOf(PrunedC) PROVE j \in DOMAIN log /\ j <= k
  <2>1. j \in DOMAIN log /\ GivenC[j] \in PrunedC /\ j \notin InitsC
    BY DEF EvOf
  <2>2. j < Ut
    BY <2>1, KeptIs
  <2> QED BY <1>1, <2>1, <2>2
<1> QED BY <1>1, <1>2, <1>3, <1>4

LEMMA AcqsSplit ==
  ASSUME Traced, \A i \in InitsC : i < Ut, NEW k \in DOMAIN log, k >= Ut
  PROVE  /\ Cardinality(Acqs(Pids, k)) = Cardinality(OutAcq(k)) + Cardinality(InitsC) + Cardinality(AcqOf(PrunedC))
         /\ Cardinality(OutAcq(k)) \in Nat /\ Cardinality(InitsC) \in Nat /\ Cardinality(AcqOf(PrunedC)) \in Nat
<1> DEFINE A == OutAcq(k)
           B == InitsC
           C == AcqOf(PrunedC)
<1>1. IsFiniteSet(A) /\ IsFiniteSet(B) /\ IsFiniteSet(C)
  <2>1. A \subseteq DOMAIN log
    BY DEF OutAcq, OutC
  <2>2. IsFiniteSet(A)
    BY <2>1, LogIs, FS_Subset
  <2> QED BY <2>2, TasksFinite, PrunedSettled, EventsFinite
<1>2. \A j \in Acqs(Pids, k) : j \in A \/ j \in B \/ j \in C
  <2> SUFFICES ASSUME NEW j \in Acqs(Pids, k) PROVE j \in A \/ j \in B \/ j \in C
    OBVIOUS
  <2>1. j \in DOMAIN log /\ j <= k /\ Acquires(log[j])
    BY DEF Acqs
  <2>2. j \in OutC \/ j \in InitsC \/ j \in EvOf(PrunedC)
    BY <2>1, Emitted
  <2> QED BY <2>1, <2>2 DEF OutAcq, AcqOf
<1>3. \A j \in A : j \in DOMAIN log /\ j <= k /\ Acquires(log[j]) /\ j \in OutC
  BY DEF OutAcq, OutC
<1>4. \A j \in B : j \in DOMAIN log /\ j <= k /\ Acquires(log[j])
  <2>1. \A j \in B : Acquires(log[j])
    BY LedgersAre DEF InitsC
  <2> QED BY <2>1, BeforeUt
<1>5. \A j \in C : j \in DOMAIN log /\ j <= k /\ Acquires(log[j]) /\ j \in EvOf(PrunedC)
  BY BeforeUt DEF AcqOf
<1>6. A \cap B = {} /\ (A \cup B) \cap C = {}
  <2>1. \A j \in A : j \notin InitsC /\ j \notin EvOf(PrunedC)
    BY <1>3, Emitted
  <2>2. \A j \in C : j \notin InitsC
    BY DEF AcqOf, EvOf
  <2> QED BY <1>5, <2>1, <2>2
<1>7. Acqs(Pids, k) = (A \cup B) \cup C
  <2>1. \A j \in DOMAIN log : log[j].pid \in Pids
    BY GivenIs
  <2>2. ASSUME NEW j, j \in DOMAIN log, j <= k, Acquires(log[j]) PROVE j \in Acqs(Pids, k)
    BY <2>1, <2>2 DEF Acqs
  <2> HIDE DEF A, B, C
  <2> QED BY <1>2, <1>3, <1>4, <1>5, <2>2
<1> HIDE DEF A, B, C
<1>8. /\ IsFiniteSet(A \cup B) /\ Cardinality(A \cup B) = Cardinality(A) + Cardinality(B)
      /\ Cardinality(A) \in Nat /\ Cardinality(B) \in Nat
  BY <1>1, <1>6, Apart
<1>9. Cardinality((A \cup B) \cup C) = Cardinality(A \cup B) + Cardinality(C) /\ Cardinality(C) \in Nat
  BY <1>1, <1>6, <1>8, Apart
<1>10. Cardinality(Acqs(Pids, k)) = Cardinality(A) + Cardinality(B) + Cardinality(C)
  BY <1>7, <1>8, <1>9
<1> QED BY <1>8, <1>9, <1>10 DEF A, B, C

LEMMA RelsSplit ==
  ASSUME Traced, \A i \in InitsC : i < Ut, NEW k \in DOMAIN log, k >= Ut
  PROVE  /\ Cardinality(AllRel(k)) = Cardinality(OutRel(k)) + Cardinality(PutOf(PrunedC))
         /\ Cardinality(OutRel(k)) \in Nat /\ Cardinality(PutOf(PrunedC)) \in Nat
<1> DEFINE A == OutRel(k)
           C == PutOf(PrunedC)
<1>1. IsFiniteSet(A) /\ IsFiniteSet(C)
  <2>1. A \subseteq DOMAIN log
    BY DEF OutRel, OutC
  <2>2. IsFiniteSet(A)
    BY <2>1, LogIs, FS_Subset
  <2> QED BY <2>2, PrunedSettled, EventsFinite
<1>2. \A j \in AllRel(k) : j \in A \/ j \in C
  <2> SUFFICES ASSUME NEW j \in AllRel(k) PROVE j \in A \/ j \in C
    OBVIOUS
  <2>1. j \in DOMAIN log /\ j <= k /\ Releases(log[j])
    BY DEF AllRel
  <2>2. j \in OutC \/ (j \in EvOf(PrunedC) /\ is_put(log[j]))
    BY <2>1, Emitted
  <2> QED BY <2>1, <2>2 DEF OutRel, PutOf
<1>3. \A j \in A : j \in DOMAIN log /\ j <= k /\ Releases(log[j]) /\ j \in OutC
  BY DEF OutRel, OutC
<1>4. \A j \in C : j \in DOMAIN log /\ j <= k /\ Releases(log[j]) /\ j \in EvOf(PrunedC)
  BY BeforeUt DEF PutOf, Releases
<1>5. A \cap C = {}
  <2>1. \A j \in A : j \notin EvOf(PrunedC)
    BY <1>3, Emitted
  <2> QED BY <1>4, <2>1
<1>6. AllRel(k) = A \cup C
  <2>1. ASSUME NEW j, j \in DOMAIN log, j <= k, Releases(log[j]) PROVE j \in AllRel(k)
    BY <2>1 DEF AllRel
  <2> HIDE DEF A, C
  <2> QED BY <1>2, <1>3, <1>4, <2>1
<1> HIDE DEF A, C
<1>7. Cardinality(A \cup C) = Cardinality(A) + Cardinality(C) /\ Cardinality(A) \in Nat /\ Cardinality(C) \in Nat
  BY <1>1, <1>5, Apart
<1> QED BY <1>6, <1>7 DEF A, C

(* All releases, with the put of the namespace's reference.                *)
LEMMA RelsAre ==
  ASSUME Traced, NEW k \in DOMAIN log
  PROVE  /\ Cardinality(AllRel(k)) = Cardinality(Rels(Pids, k)) + (IF NsPutAt \in 1 .. k THEN 1 ELSE 0)
         /\ Cardinality(Rels(Pids, k)) \in Nat
<1>1. Rels(Pids, k) = AllRel(k) \ {NsPutAt}
  <2>1. \A j \in DOMAIN log : log[j].pid \in Pids
    BY GivenIs
  <2> QED BY <2>1 DEF Rels, AllRel
<1>2. AllRel(k) \subseteq DOMAIN log
  BY DEF AllRel
<1>3. IsFiniteSet(AllRel(k))
  BY <1>2, LogIs, FS_Subset
<1>4. k \in Nat /\ k <= Len(log) /\ DOMAIN log = 1 .. Len(log) /\ Len(log) \in Nat
  BY LogIs
<1>5. NsPutAt \in AllRel(k) <=> NsPutAt \in 1 .. k
  <2>1. ASSUME NsPutAt \in AllRel(k) PROVE NsPutAt \in 1 .. k
    BY <1>4, <2>1 DEF AllRel
  <2>2. ASSUME NsPutAt \in 1 .. k PROVE NsPutAt \in AllRel(k)
    <3>1. NsPutFirst
      BY NsPutIs, LogIs DEF Traced, Kernel
    <3>2. NsPutAt \in NsPuts
      BY <2>2, <3>1 DEF NsPutFirst
    <3>3. NsPutAt \in DOMAIN log /\ Releases(log[NsPutAt])
      BY <3>2 DEF NsPuts, Releases, is_put
    <3> QED BY <1>4, <2>2, <3>3 DEF AllRel
  <2> QED BY <2>1, <2>2
<1>6. /\ Cardinality(AllRel(k) \ {NsPutAt}) =
           IF NsPutAt \in AllRel(k) THEN Cardinality(AllRel(k)) - 1 ELSE Cardinality(AllRel(k))
      /\ Cardinality(AllRel(k)) \in Nat /\ Cardinality(AllRel(k) \ {NsPutAt}) \in Nat
  BY <1>3, FS_RemoveElement, FS_CardinalityType
<1>7. CASE NsPutAt \in 1 .. k
  BY <1>1, <1>5, <1>6, <1>7
<1>8. CASE NsPutAt \notin 1 .. k
  BY <1>1, <1>5, <1>6, <1>8
<1> QED BY <1>7, <1>8

(* The counts of the replay are those of the kernel.                       *)
LEMMA ReplayIs ==
  ASSUME Traced, OwnPuts, Accounted, \A p \in Pids : LedC[p].implicit => shape = "nsdeath",
         \A i \in InitsC : i < Ut, NEW k \in DOMAIN log, k >= Ut
  PROVE  SumAt(k) = 1 + (IF shape = "umount" THEN 1 ELSE 0)
                      + Cardinality({n \in Tasks(GivenC) \ PrunedC : Holder(n)})
                      + Cardinality(OutAcq(k)) - Cardinality(OutRel(k))
<1> DEFINE b == Cardinality(Beginning(Pids))
           e == IF shape = "umount" THEN 1 ELSE 0
           h == Cardinality(HoldersOf(Pids))
           hp == Cardinality(HoldOf(PrunedC))
           HT == {n \in Tasks(GivenC) \ PrunedC : Holder(n)}
           oa == Cardinality(OutAcq(k))
           or == Cardinality(OutRel(k))
           m == Cardinality(InitsC)
           pa == Cardinality(AcqOf(PrunedC))
           pp == Cardinality(PutOf(PrunedC))
           z == IF NsPutAt \in 1 .. k THEN 1 ELSE 0
<1>1. b + m = h + e /\ b \in Nat /\ m \in Nat /\ h \in Nat /\ e \in 0 .. 1
  <2>1. Begun(Pids) /\ InitsOf(Pids) = InitsC /\ OwnOf(Pids) = e
    BY AllBegun, TraceLedgerAssumption DEF InitsOf, InitsC, OwnOf
  <2>2. b \in Nat /\ Cardinality(InitsOf(Pids)) \in Nat /\ h \in Nat
    BY BegunFinite
  <2> QED BY <2>1, <2>2 DEF Begun
<1>2. Cardinality(HT) + hp = h /\ Cardinality(HT) \in Nat /\ hp \in Nat
  <2>1. HoldersOf(Pids) = HT \cup HoldOf(PrunedC)
    <3>1. ASSUME NEW n \in HoldersOf(Pids) PROVE n \in HT \cup HoldOf(PrunedC)
      <4>1. n \in Tasks(GivenC) /\ Holder(n)
        BY BegunFinite
      <4> QED BY <4>1 DEF HoldOf
    <3>2. ASSUME NEW n \in Tasks(GivenC), Holder(n) PROVE n \in HoldersOf(Pids)
      <4>1. n[2] \in Pids /\ \E i \in DOMAIN log : LedC[n[2]].task[i] = n
        BY TasksAre
      <4> QED BY <3>2, <4>1 DEF HoldersOf, Holders
    <3>3. \A n \in HT \cup HoldOf(PrunedC) : n \in Tasks(GivenC) /\ Holder(n)
      BY PrunedSettled DEF HoldOf
    <3> HIDE DEF HT
    <3> QED BY <3>1, <3>2, <3>3
  <2>2. HT \cap HoldOf(PrunedC) = {}
    BY DEF HoldOf
  <2>3. IsFiniteSet(HT) /\ IsFiniteSet(HoldOf(PrunedC))
    <3>1. HT \subseteq Tasks(GivenC)
      OBVIOUS
    <3>2. IsFiniteSet(HT)
      BY <3>1, TasksFinite, FS_Subset
    <3> QED BY <3>2, PrunedSettled, EventsFinite
  <2> HIDE DEF HT
  <2>4. /\ Cardinality(HT \cup HoldOf(PrunedC)) = Cardinality(HT) + hp
        /\ Cardinality(HT) \in Nat /\ hp \in Nat
    BY <2>2, <2>3, Apart
  <2> QED BY <2>1, <2>4
<1>3. pa + hp = pp /\ pa \in Nat /\ pp \in Nat
  <2>1. Settled(PrunedC)
    BY PrunedSettled
  <2>2. pa \in Nat /\ pp \in Nat
    BY PrunedSettled, EventsFinite
  <2> QED BY <2>1, <2>2 DEF Settled
<1>4. Cardinality(Acqs(Pids, k)) = oa + m + pa /\ oa \in Nat
  BY AcqsSplit
<1>5. Cardinality(Rels(Pids, k)) + z = or + pp /\ or \in Nat /\ Cardinality(Rels(Pids, k)) \in Nat /\ z \in 0 .. 1
  <2>1. Cardinality(AllRel(k)) = Cardinality(Rels(Pids, k)) + z /\ Cardinality(Rels(Pids, k)) \in Nat
    BY RelsAre
  <2>2. Cardinality(AllRel(k)) = or + pp /\ or \in Nat
    BY RelsSplit
  <2> QED BY <2>1, <2>2
<1>6. SumAt(k) = 1 + b + Cardinality(Acqs(Pids, k)) - Cardinality(Rels(Pids, k)) - z
  BY DEF SumAt, Beginning
<1> DEFINE ht == Cardinality(HT)
           r == Cardinality(Rels(Pids, k))
<1>7. ht + hp = h /\ ht \in Nat /\ r + z = or + pp /\ r \in Nat
  BY <1>2, <1>5
<1>8. SumAt(k) = 1 + b + (oa + m + pa) - r - z
  BY <1>4, <1>6
<1>9. SumAt(k) = 1 + e + ht + oa - or
  <2> HIDE DEF b, e, h, hp, oa, or, m, pa, pp, z, ht, r
  <2>1. b + m = ht + hp + e
    BY <1>1, <1>2, <1>7
  <2>2. r + z = or + pa + hp
    BY <1>2, <1>3, <1>5, <1>7
  <2> QED BY <1>1, <1>2, <1>3, <1>4, <1>5, <1>7, <1>8, <2>1, <2>2
<1> QED BY <1>9

-----------------------------------------------------------------------------
(* The converted trace of a mount that was unmounted *)

LEMMA ConvertedTrace ==
  ASSUME Traced, NEW c, c = Converted
  PROVE  /\ c.task = KeptC /\ c.out = OutC /\ c.tasks = Tasks(GivenC) \ PrunedC /\ c.inits = InitsC
         /\ c.implicit <=> \E p \in Pids : LedC[p].implicit
<1> DEFINE t == KeptC
           o == OutC
           l == Ranks(OutC)
           ts == Tasks(GivenC) \ PrunedC
           i == InitsC
           m == \E p \in Pids : LedC[p].implicit
<1>1. c = [task |-> t, out |-> o, lk |-> l, tasks |-> ts, inits |-> i, implicit |-> m]
  BY ConvertedIs
<1> HIDE DEF t, o, l, ts, i, m
<1>2. c.task = t /\ c.out = o /\ c.tasks = ts /\ c.inits = i /\ (c.implicit <=> m)
  BY <1>1
<1> QED BY <1>2 DEF t, o, ts, i, m

(* The properties, of a converted trace.                                   *)
WalkersIn(c) ==
    \A n \in c.tasks : n[1] = "W" =>
       LET es == {i \in c.out : c.task[i] = n /\ log[i].ev # "cleanup"} IN
       \E i \in es :
          /\ log[i].ev = "legitimize" /\ log[i].pid = n[2]
          /\ \A j \in es \ {i} :
                /\ is_put(log[j]) /\ log[j].pid = n[2] /\ i < j /\ log[i].result \in {0, -1}
                /\ es = {i, j}

CleanupIn(c) == \A i \in At("cleanup") : c.task[i] = c.task[DoomedAt]

CountIn(c, k) ==
    1 + (IF shape = "umount" THEN 1 ELSE 0)
      + Cardinality({n \in c.tasks : n[1] = "H"})
      + Cardinality({j \in {i \in c.out : i <= k} : Acquires(log[j])})
      - Cardinality({j \in {i \in c.out : i <= k} : Releases(log[j])})

ReplayIn(c) ==
    OwnPuts /\ Accounted /\ (c.implicit => shape = "nsdeath") /\ (\A i \in c.inits : i < Ut)
      => \A k \in DOMAIN log : log[k].ev \in {"umount_tree", "peek", "slowpath"} => log[k].count = CountIn(c, k)

LEMMA ConvertedWalkers ==
  ASSUME Traced, NEW c, c = Converted
  PROVE  WalkersIn(c)
<1>1. c.task = KeptC /\ c.out = OutC /\ c.tasks = Tasks(GivenC) \ PrunedC
  BY ConvertedTrace
<1> SUFFICES ASSUME NEW n \in c.tasks, n[1] = "W"
             PROVE  LET es == {i \in c.out : c.task[i] = n /\ log[i].ev # "cleanup"} IN
                    \E i \in es :
                      /\ log[i].ev = "legitimize" /\ log[i].pid = n[2]
                      /\ \A j \in es \ {i} :
                           /\ is_put(log[j]) /\ log[j].pid = n[2] /\ i < j /\ log[i].result \in {0, -1}
                           /\ es = {i, j}
  BY Zenon DEF WalkersIn
<1> DEFINE es == {i \in c.out : c.task[i] = n /\ log[i].ev # "cleanup"}
<1>2. n \in Tasks(GivenC) \ PrunedC /\ Walker(n)
  BY <1>1 DEF Walker
<1>3. es = {i \in OutC : KeptC[i] = n /\ log[i].ev # "cleanup"}
  BY <1>1
<1> HIDE DEF es
<1>4. \E i \in es :
        /\ log[i].ev = "legitimize" /\ log[i].pid = n[2]
        /\ \A j \in es \ {i} :
             /\ is_put(log[j]) /\ log[j].pid = n[2] /\ i < j /\ log[i].result \in {0, -1}
             /\ es = {i, j}
  BY <1>2, <1>3, WalkerReleases
<1> QED BY <1>4 DEF es

LEMMA ConvertedCleanup ==
  ASSUME Traced, NEW c, c = Converted
  PROVE  CleanupIn(c)
<1>1. c.task = KeptC
  BY ConvertedTrace
<1> QED BY <1>1, CleanupIs DEF CleanupIn

LEMMA ConvertedReplay ==
  ASSUME Traced, NEW c, c = Converted
  PROVE  ReplayIn(c)
<1> SUFFICES ASSUME OwnPuts, Accounted, c.implicit => shape = "nsdeath", \A i \in c.inits : i < Ut,
                    NEW k \in DOMAIN log, log[k].ev \in {"umount_tree", "peek", "slowpath"}
             PROVE  log[k].count = CountIn(c, k)
  BY DEF ReplayIn
<1>1. /\ c.out = OutC /\ c.tasks = Tasks(GivenC) \ PrunedC /\ c.inits = InitsC
      /\ c.implicit <=> \E p \in Pids : LedC[p].implicit
  BY ConvertedTrace
<1>2. (\A p \in Pids : LedC[p].implicit => shape = "nsdeath") /\ \A i \in InitsC : i < Ut
  BY <1>1
<1>3. k >= Ut
  <2>1. k \in Nat /\ Ut \in Nat
    BY LogIs, UtIs
  <2>2. k = Ut \/ k > Ut
    BY UtIs DEF At
  <2> QED BY <2>1, <2>2
<1>4. log[k].count = SumAt(k)
  BY DEF Traced, Kernel, CountRecorded
<1> DEFINE a == {j \in {i \in c.out : i <= k} : Acquires(log[j])}
           r == {j \in {i \in c.out : i <= k} : Releases(log[j])}
           h == {n \in c.tasks : n[1] = "H"}
<1>5. a = OutAcq(k)
  BY <1>1 DEF OutAcq
<1>6. r = OutRel(k)
  BY <1>1 DEF OutRel
<1>7. h = {n \in Tasks(GivenC) \ PrunedC : Holder(n)}
  BY <1>1 DEF Holder
<1>8. CountIn(c, k) = 1 + (IF shape = "umount" THEN 1 ELSE 0) + Cardinality(h) + Cardinality(a) - Cardinality(r)
  BY DEF CountIn
<1>9. SumAt(k) = 1 + (IF shape = "umount" THEN 1 ELSE 0)
                   + Cardinality({n \in Tasks(GivenC) \ PrunedC : Holder(n)})
                   + Cardinality(OutAcq(k)) - Cardinality(OutRel(k))
  BY <1>2, <1>3, ReplayIs
<1> HIDE DEF a, r, h
<1> QED BY <1>4, <1>5, <1>6, <1>7, <1>8, <1>9

LEMMA ConvertedRanks ==
  ASSUME Traced, NEW c, c = Converted, NEW ls, ls = {i \in c.out : locked(log[i])}
  PROVE  Dense(ls, c.lk)
<1>1. c.out \subseteq DOMAIN log /\ c.lk = Ranks(c.out)
  <2>1. Converted.out \subseteq DOMAIN log /\ Converted.lk = Ranks(Converted.out)
    BY DEF Converted
  <2> QED BY <2>1
<1>2. DOMAIN log \subseteq Nat /\ IsFiniteSet(DOMAIN log)
  BY LogIs
<1> DEFINE out == c.out
           lk == c.lk
<1>3. out \subseteq DOMAIN log /\ lk = Ranks(out) /\ ls = {i \in out : locked(log[i])}
  BY <1>1
<1> HIDE DEF out, lk
<1>4. Dense(ls, lk)
  BY <1>2, <1>3, RanksDense
<1> QED BY <1>4 DEF lk

-----------------------------------------------------------------------------

(* What is claimed of the trace that was made.                             *)
ConvInv ==
    /\ state # "converted" => conv = NotConverted
    /\ WalkersRelease /\ CleanupByDoomer /\ ReplayMatches /\ RanksComplete

LEMMA NothingConverted == conv = NotConverted /\ state # "converted" => ConvInv
<1> SUFFICES ASSUME conv = NotConverted, state # "converted" PROVE ConvInv
  OBVIOUS
<1>1. conv.tasks = {} /\ conv.out = {}
  BY DEF NotConverted
<1>2. WalkersRelease
  BY <1>1 DEF WalkersRelease
<1>3. CleanupByDoomer /\ ReplayMatches
  BY DEF CleanupByDoomer, ReplayMatches
<1>4. RanksComplete
  BY <1>1, FS_EmptySet DEF RanksComplete
<1> QED BY <1>2, <1>3, <1>4 DEF ConvInv

LEMMA InitConv == Init => ConvInv
<1>1. Init => conv = NotConverted /\ state # "converted"
  BY DEF Init
<1> QED BY <1>1, NothingConverted

(* What goes by the log stays with it.                                     *)
LEMMA BalanceSame == ASSUME log' = log, before' = before PROVE \A p, i : Balance(p, i)' = Balance(p, i)
<1>1. NsPutAt' = NsPutAt
  BY DEF NsPutAt, At, Ut
<1> QED BY <1>1 DEF Balance, Acqs, Rels, Acquires, Releases, is_put

(* The conversion leaves the log as it is.                                 *)
LEMMA ConvertConv == Kernel /\ ConvInv /\ convert => ConvInv'
<1> SUFFICES ASSUME Kernel, ConvInv, convert PROVE ConvInv'
  OBVIOUS
<1>1. log' = log /\ state = "tracing" /\ conv = NotConverted /\ before' = before
  BY DEF convert, ConvInv
<1>2. CASE Cardinality(At("umount_tree")) # 1
  <2>1. (conv = NotConverted /\ state # "converted")'
    BY <1>1, <1>2 DEF convert, NotConverted
  <2> QED BY <2>1, NothingConverted, PTL
<1>3. CASE Cardinality(At("umount_tree")) = 1
  <2>1. At("umount_tree") # {}
    BY <1>3, FS_EmptySet
  <2>2. Traced
    BY <2>1 DEF Traced
  <2>3. state' = "converted" /\ conv' = Converted
    BY <1>3 DEF convert
  <2>4. PICK c : c = Converted
    OBVIOUS
  <2>5. conv' = c
    BY <2>3, <2>4
  <2>6. WalkersRelease'
    <3>1. WalkersIn(c)
      BY <2>2, <2>4, ConvertedWalkers
    <3> QED BY <1>1, <2>5, <3>1 DEF WalkersIn, WalkersRelease, is_put
  <2>7. CleanupByDoomer'
    <3>1. CleanupIn(c)
      BY <2>2, <2>4, ConvertedCleanup
    <3>2. At("cleanup")' = At("cleanup") /\ DoomedAt' = DoomedAt
      BY <1>1 DEF At, DoomedAt
    <3> QED BY <2>5, <3>1, <3>2 DEF CleanupIn, CleanupByDoomer
  <2>8. ReplayMatches'
    <3>1. ReplayIn(c)
      BY <2>2, <2>4, ConvertedReplay
    <3>2. Ut' = Ut /\ shape' = shape
      BY <1>1 DEF At, Ut, shape
    <3>3. (Accounted' <=> Accounted) /\ (OwnPuts' <=> OwnPuts)
      BY <1>1, <3>2, BalanceSame DEF Accounted, OwnPuts
    <3>4. Expressible' <=> (c.implicit => shape = "nsdeath") /\ \A i \in c.inits : i < Ut
      BY <2>5, <3>2 DEF Expressible
    <3>5. \A k : ReplayCount(k)' = CountIn(c, k)
      BY <1>1, <2>5, <3>2 DEF ReplayCount, CountIn, Acquires, Releases, is_put
    <3> QED BY <1>1, <3>1, <3>3, <3>4, <3>5 DEF ReplayIn, ReplayMatches
  <2>9. RanksComplete'
    <3> DEFINE ls == {i \in c.out : locked(log[i])}
    <3>1. Dense(ls, c.lk)
      BY <2>2, <2>4, ConvertedRanks
    <3> QED BY <1>1, <2>5, <3>1 DEF Dense, RanksComplete, locked
  <2> QED BY <2>3, <2>6, <2>7, <2>8, <2>9 DEF ConvInv
<1> QED BY <1>2, <1>3

LEMMA SameConv == ConvInv /\ UNCHANGED vars => ConvInv'
<1> SUFFICES ASSUME ConvInv, UNCHANGED vars PROVE ConvInv'
  OBVIOUS
<1>1. log' = log /\ state' = state /\ conv' = conv /\ before' = before
  BY DEF vars
<1>2. WalkersRelease'
  BY <1>1 DEF ConvInv, WalkersRelease, is_put
<1>3. At("cleanup")' = At("cleanup") /\ DoomedAt' = DoomedAt /\ Ut' = Ut /\ shape' = shape
  BY <1>1 DEF At, DoomedAt, Ut, shape
<1>4. CleanupByDoomer'
  BY <1>1, <1>3 DEF ConvInv, CleanupByDoomer
<1>5. ReplayMatches'
  <2>1. (OwnPuts' <=> OwnPuts) /\ (Accounted' <=> Accounted) /\ (Expressible' <=> Expressible)
    BY <1>1, <1>3, BalanceSame DEF OwnPuts, Accounted, Expressible
  <2>2. \A k : ReplayCount(k)' = ReplayCount(k)
    BY <1>1, <1>3 DEF ReplayCount, Acquires, Releases, is_put
  <2> QED BY <1>1, <2>1, <2>2 DEF ConvInv, ReplayMatches
<1>6. RanksComplete'
  BY <1>1 DEF ConvInv, RanksComplete, locked
<1>7. state' # "converted" => conv' = NotConverted'
  BY <1>1 DEF ConvInv, NotConverted
<1> QED BY <1>2, <1>4, <1>5, <1>6, <1>7 DEF ConvInv

LEMMA NextConv == Kernel /\ ConvInv /\ [Next]_vars => ConvInv'
<1> SUFFICES ASSUME Kernel, ConvInv, [Next]_vars PROVE ConvInv'
  OBVIOUS
<1>1. ASSUME NEW e, Records(e) PROVE ConvInv'
  <2>1. (conv = NotConverted /\ state # "converted")'
    BY <1>1 DEF Records, ConvInv, NotConverted
  <2> QED BY <2>1, NothingConverted, PTL
<1> USE <1>1
<1>2. ASSUME NEW p \in Pids, NEW r \in {-1, 0, 1}, NEW early \in BOOLEAN, Legitimize(p, r, early) PROVE ConvInv'
  BY <1>2 DEF Legitimize, Other
<1>3. ASSUME NEW p \in Pids, Get(p) \/ PutFast(p) \/ Slowpath(p) PROVE ConvInv'
  BY <1>3 DEF Get, PutFast, Slowpath, Other
<1>4. CASE UmountTree \/ CallerDrop \/ Peek \/ Gp \/ NsPut \/ Finish
  BY <1>4 DEF UmountTree, CallerDrop, Peek, Gp, NsPut, Finish, Step
<1>5. CASE convert
  BY <1>5, ConvertConv
<1>6. CASE UNCHANGED vars
  BY <1>6, SameConv
<1> QED BY <1>2, <1>3, <1>4, <1>5, <1>6 DEF Next

LEMMA TraceInvariant == Spec => [](Kernel /\ ConvInv)
<1>1. Init => Kernel /\ ConvInv
  BY InitKernel, InitConv
<1>2. Kernel /\ ConvInv /\ [Next]_vars => (Kernel /\ ConvInv)'
  BY NextKernel, NextConv
<1> QED BY <1>1, <1>2, PTL DEF Spec

LEMMA Claims == Kernel /\ ConvInv => RanksComplete /\ WalkersRelease /\ CleanupByDoomer /\ ReplayMatches
  BY DEF ConvInv

-----------------------------------------------------------------------------

(* trace2ndjson.py: the emitted events that were recorded under mount_lock *)
(* have the ranks from one on, without gaps and in the order in which they *)
(* were recorded, so the replay never waits for a rank that no event has.  *)
THEOREM RanksCorrect == Spec => []RanksComplete
  BY TraceInvariant, Claims, PTL

(* A walker of the converted trace has one legitimize, and a put only if   *)
(* it got a reference by it, which comes first and is of the same pid: the *)
(* attribution gives a walker nothing that the model's walker cannot do.   *)
THEOREM WalkersCorrect == Spec => []WalkersRelease
  BY TraceInvariant, Claims, PTL

(* cleanup goes to the task whose event doomed the mount, wherever the     *)
(* ledgers found it: U's, a holder's or a walker's, and that is not pruned. *)
THEOREM CleanupCorrect == Spec => []CleanupByDoomer
  BY TraceInvariant, Claims, PTL

(* Replaying the converted trace gives the counts that the kernel recorded *)
(* at umount_tree, at the peek and at every slow path, for any pids and a  *)
(* trace of any length: attribution and pruning do not change them.        *)
THEOREM ReplayCorrect == Spec => []ReplayMatches
  BY TraceInvariant, Claims, PTL

=============================================================================
