---------------------------- MODULE TraceLedger ----------------------------
(***************************************************************************)
(* trace/trace2ndjson.py: the events that the mount tracepoints left of    *)
(* one mount become the trace of model tasks that MntPutTrace.tla          *)
(* replays.  The converter sees pids and has to work out references: which *)
(* acquisition a put releases, which one is the umounter's own, which ones *)
(* the model starts with.                                                  *)
(*                                                                         *)
(* The kernel is external: a count, the references that there are, and one *)
(* event per operation, recorded together with its effect.  References     *)
(* change hands without an event (fork() gets one in the parent that the   *)
(* child puts), so that who puts one need not be who took it.              *)
(***************************************************************************)
EXTENDS Integers, SequencesExt

CONSTANTS
    Pids,           \* the pids that use the mount
    U,              \* the one that unmounts it
    MaxEvents       \* bound: events besides those of the unmount itself

ASSUME TraceLedgerAssumption ==
    U \in Pids /\ Pids \subseteq Nat /\ IsFiniteSet(Pids) /\ MaxEvents \in Nat

VARIABLES
    log,        \* the events in file order
    refs,       \* the references besides the namespace's
    sum,        \* the mount's count
    um,         \* how far the unmount is
    how,        \* what is unmounted: its shape, and whether synchronously
    before,     \* per pid, the references it had when tracing began
    left,       \* how many other events may follow
    state,      \* of the converter: "tracing", "skipped" or "converted"
    conv        \* the converted trace

vars == <<log, refs, sum, um, how, before, left, state, conv>>

-----------------------------------------------------------------------------
(* The kernel *)

(* An event: flag is early, doomed, unheld or end, whichever it has.       *)
Event(ev, p, result, count, flag) ==
    [ev |-> ev, pid |-> p, result |-> result, count |-> count, flag |-> flag]

Records(e) == state = "tracing" /\ log' = Append(log, e) /\ UNCHANGED <<how, before, state, conv>>
Adds(d) == refs' = refs + d /\ sum' = sum + d

Attached == um = "mounted"
Doomed   == um \in {"doomed", "final", "cleaned", "freed"}

(* The event that doomed the mount, if one did.                            *)
Dooms(e) == (e.ev = "peek" /\ e.flag) \/ (e.ev = "slowpath" /\ e.count = 0)
DoomedAt == SelectInSeq(log, Dooms)

(* A pid does nothing else while it unmounts or finishes the mount.        *)
Busy(p) ==
    \/ p = U /\ um \in {"detached", "dropped", "gp", "wait", "ended"}
    \/ um \in {"doomed", "final"} /\ p = log[DoomedAt].pid

(* The references that can be put, which U's own cannot until it drops it. *)
Loose == IF um = "detached" THEN refs - 1 ELSE refs

Other(e) == left > 0 /\ left' = left - 1 /\ ~Busy(e.pid) /\ Records(e)

(* __legitimize_mnt(): 0 and -1 leave a reference; -1 and 1 are decided    *)
(* under mount_lock, unless the sequence had changed at once (early).      *)
Legitimize(p, r, early) ==
    /\ r = 0 => Attached
    /\ r = -1 => ~Doomed /\ (how.sync => Attached)
    /\ IF early THEN r = 1 /\ um # "freed"
       ELSE r = 1 => um # "freed" /\ (Doomed \/ (how.sync /\ ~Attached))
    /\ Other(Event("legitimize", p, r, 0, early))
    /\ IF r = 1 THEN UNCHANGED <<refs, sum>> ELSE Adds(1)
    /\ UNCHANGED um

Get(p) ==
    /\ Attached \/ Loose > 0
    /\ Other(Event("get", p, 0, 0, FALSE))
    /\ Adds(1) /\ UNCHANGED um

(* The fast path ends when the namespace's reference goes.                 *)
PutFast(p) ==
    /\ Loose > 0 /\ um # "put"
    /\ Other(Event("put_fast", p, 0, 0, FALSE))
    /\ Adds(-1) /\ UNCHANGED um

Slowpath(p) ==
    /\ Loose > 0 /\ ~Attached
    /\ Other(Event("slowpath", p, 0, sum - 1, FALSE))
    /\ Adds(-1)
    /\ um' = IF sum = 1 THEN "doomed" ELSE um

(* A step of the unmount, from one point to another.                       *)
Step(from, to, e) == um = from /\ um' = to /\ Records(e) /\ UNCHANGED left

UmountTree ==
    /\ how.shape = "umount" => refs > 0
    /\ how.sync => sum = 2
    /\ Step("mounted", IF how.shape = "umount" THEN "detached" ELSE "dropped", Event("umount_tree", U, 0, sum, FALSE))
    /\ UNCHANGED <<refs, sum>>

CallerDrop == Step("detached", "dropped", Event("caller_drop", U, 0, 0, FALSE)) /\ Adds(-1)

Peek ==
    /\ Step("dropped", IF sum = 1 THEN "doomed" ELSE "gp", Event("peek", U, 0, sum, sum = 1))
    /\ UNCHANGED <<refs, sum>>

Gp ==
    /\ \/ Step("gp", "wait", Event("gp", U, 0, 0, FALSE))
       \/ Step("wait", "ended", Event("gp", U, 0, 0, TRUE))
    /\ UNCHANGED <<refs, sum>>

NsPut ==
    /\ Step("ended", IF sum = 1 THEN "doomed" ELSE "put", Event("slowpath", U, 0, sum - 1, FALSE))
    /\ sum' = sum - 1 /\ UNCHANGED refs

Finish ==
    /\ \/ Step("doomed", "final", Event("final", log[DoomedAt].pid, 0, 0, FALSE))
       \/ Step("final", "cleaned", Event("cleanup", log[DoomedAt].pid, 0, 0, FALSE))
       \/ \E p \in Pids : Step("cleaned", "freed", Event("free", p, 0, 0, FALSE))
    /\ UNCHANGED <<refs, sum>>

-----------------------------------------------------------------------------
(* convert() *)

(* Task names.                                                             *)
None    == <<"none", 0, 0>>
UTask   == <<"U", 0, 0>>
Rcu     == <<"rcu", 0, 0>>
W(p, k) == <<"W", p, k>>
H(p, k) == <<"H", p, k>>

At(ev) == {i \in DOMAIN log : log[i].ev = ev}
Ut     == CHOOSE i \in At("umount_tree") : TRUE
shape  == IF At("caller_drop") # {} THEN "umount" ELSE "nsdeath"

locked(e) ==
    \/ e.ev \in {"umount_tree", "caller_drop", "peek", "final", "slowpath"}
    \/ e.ev = "legitimize" /\ e.result # 0 /\ ~e.flag

is_put(e) == e.ev \in {"put_fast", "slowpath"}

(* A put that took the count to zero.                                      *)
LastPut(e) == e.ev = "slowpath" /\ e.count = 0 /\ ~e.flag

(* The put of the namespace's reference: the umounter's first slow path    *)
(* after its grace period, or 0.                                           *)
NsPutAt ==
    LET after == {i \in At("slowpath") : log[i].pid = log[Ut].pid /\ \E j \in At("gp") : j < i /\ log[j].flag}
    IN IF after = {} THEN 0 ELSE Min(after)

(* The tasks of the umounter's protocol events, and of the RCU callback.   *)
Protocol(i) ==
    CASE log[i].ev \in {"umount_tree", "caller_drop", "peek", "gp", "final"} -> UTask
      [] log[i].ev = "slowpath" /\ i = NsPutAt -> UTask
      [] log[i].ev = "free" -> Rcu
      [] OTHER -> None

(* What is left to the ledger of a pid.                                    *)
Mine(p, i) == log[i].pid = p /\ log[i].ev # "cleanup" /\ Protocol(i) = None

(* The ledger of a pid: the tasks its events were given to and those that  *)
(* became part of the model's Init; the legitimizes that hold a reference, *)
(* oldest first; the holder, its references, and its first get while that  *)
(* is all that it did; and whether U's own reference was accounted for.    *)
Ledger0(p) ==
    [task |-> [i \in DOMAIN log |-> None], inits |-> {}, doomer |-> None, wk |-> 0, hk |-> 0,
     open |-> <<>>, holder |-> None, refs |-> 0, bare |-> 0, own |-> p # log[Ut].pid, implicit |-> FALSE]

(* take_own_ref(): U's own reference was acquired by its last open         *)
(* legitimize, or by a get that is all its holder did.                     *)
take_own_ref(s) ==
    LET mine(i) == [s EXCEPT !.own = TRUE, !.task = [@ EXCEPT ![i] = UTask], !.inits = @ \cup {i}]
    IN IF s.open # <<>> THEN [mine(Last(s.open)) EXCEPT !.open = Front(@)]
       ELSE IF s.bare # 0 THEN [mine(s.bare) EXCEPT !.holder = None, !.refs = 0, !.bare = 0]
       ELSE [s EXCEPT !.own = TRUE, !.implicit = TRUE]

(* Mutant: an attempt that failed counts as open.                          *)
Legitimized_Failed(s, i) ==
    [s EXCEPT !.wk = @ + 1, !.task = [@ EXCEPT ![i] = W(log[i].pid, s.wk + 1)], !.open = Append(@, i)]

(* An episode of its own, open if it left a reference.                     *)
Legitimized(s, i) ==
    [s EXCEPT !.wk = @ + 1, !.task = [@ EXCEPT ![i] = W(log[i].pid, s.wk + 1)],
              !.open = IF log[i].result \in {0, -1} THEN Append(@, i) ELSE @]

NewHolder(s, i) ==
    [s EXCEPT !.hk = @ + 1, !.holder = H(log[i].pid, s.hk + 1), !.refs = 1]

(* A get while it has a holder is the holder's, else it makes one and is   *)
(* the reference that the model starts with.                               *)
Got(s, i) ==
    IF s.refs = 0
    THEN LET h == NewHolder(s, i) IN
         [h EXCEPT !.task = [@ EXCEPT ![i] = h.holder], !.inits = @ \cup {i}, !.bare = i]
    ELSE [s EXCEPT !.task = [@ EXCEPT ![i] = s.holder], !.refs = @ + 1, !.bare = 0]

(* A put releases the oldest open walker's reference, else the holder's.   *)
Put(s, i) ==
    IF s.open # <<>> THEN [s EXCEPT !.task = [@ EXCEPT ![i] = s.task[Head(s.open)]], !.open = Tail(@)]
    ELSE LET h == IF s.refs = 0 THEN NewHolder(s, i) ELSE s
         IN [h EXCEPT !.task = [@ EXCEPT ![i] = h.holder], !.refs = @ - 1, !.bare = 0,
                      !.doomer = IF LastPut(log[i]) THEN h.holder ELSE @]

(* One event of a pid.                                                     *)
Entry(s0, i) ==
    LET s == IF ~s0.own /\ i > Ut THEN take_own_ref(s0) ELSE s0 IN
    CASE log[i].ev = "legitimize" -> Legitimized(s, i)
      [] log[i].ev = "get"        -> Got(s, i)
      [] OTHER                    -> Put(s, i)

(* The ledger of a pid after each event.                                   *)
Entries(p) ==
    LET l[i \in 0 .. Len(log)] ==
          IF i = 0 THEN Ledger0(p) ELSE IF Mine(p, i) THEN Entry(l[i - 1], i) ELSE l[i - 1]
    IN l

(* Mutant: only a holder's put is looked at.                               *)
WalkerDooms_None(s, p) == s

(* The walker whose put was the last one finishes the mount.               *)
WalkerDooms(s, p) ==
    LET last == {i \in DOMAIN log : Mine(p, i) /\ LastPut(log[i])}
    IN IF last = {} THEN s ELSE [s EXCEPT !.doomer = s.task[Max(last)]]

LedgerOf(p) ==
    LET s == Entries(p)[Len(log)]
    IN IF \A i \in DOMAIN log : ~Mine(p, i) THEN s
       ELSE WalkerDooms(IF s.own THEN s ELSE take_own_ref(s), p)

(* The doomer that the last pid found, or U.                               *)
CleanupTask(led) ==
    LET ps == {p \in Pids : led[p].doomer # None}
    IN IF ps = {} THEN UTask ELSE led[Max(ps)].doomer

(* The tasks of the events, and the events of a task.                      *)
Given(led) == [i \in DOMAIN log |-> IF Protocol(i) # None THEN Protocol(i) ELSE led[log[i].pid].task[i]]
Tasks(given) == {given[i] : i \in DOMAIN log} \ {None, UTask, Rcu}
EventsOf(n, given, inits) == {i \in DOMAIN log : given[i] = n} \ inits

(* The references that a task was left with after its events.              *)
Net(n, es) ==
    (IF n[1] = "W" THEN Cardinality({i \in es : log[i].ev = "legitimize" /\ log[i].result \in {0, -1}})
     ELSE 1 + Cardinality({i \in es : log[i].ev = "get"}))
      - Cardinality({i \in es : is_put(log[i])})

(* Mutant: whatever is over before umount_tree, references or not.         *)
Prunable_AnyNet(n, es) == es # {} /\ \A i \in es : i < Ut

(* The tasks that were over, with no reference left, before umount_tree.   *)
Prunable(n, es) == es # {} /\ (\A i \in es : i < Ut) /\ Net(n, es) = 0

(* Mutant: the ranks among all events, as they were assigned at first.     *)
Ranks_BeforePruning(out) ==
    [i \in out |-> IF locked(log[i]) THEN Cardinality({j \in DOMAIN log : j <= i /\ locked(log[j])}) ELSE 0]

(* The ranks of the emitted events that were recorded under mount_lock.    *)
Ranks(out) ==
    [i \in out |-> IF locked(log[i]) THEN Cardinality({j \in out : j <= i /\ locked(log[j])}) ELSE 0]

(* The events of pruned tasks are nobody's; cleanup is the doomer's.       *)
Kept(given, inits, pruned, cleaner) ==
    [i \in DOMAIN log |-> IF log[i].ev = "cleanup" THEN cleaner
                          ELSE IF given[i] \in pruned /\ i \notin inits THEN None ELSE given[i]]

Converted ==
    LET led    == [p \in Pids |-> LedgerOf(p)]
        given  == Given(led)
        inits  == UNION {led[p].inits : p \in Pids}
        pruned == {n \in Tasks(given) : Prunable(n, EventsOf(n, given, inits))}
        task   == Kept(given, inits, pruned, CleanupTask(led))
        out    == {i \in DOMAIN log : task[i] # None} \ inits
    IN [task |-> task, out |-> out, lk |-> Ranks(out), tasks |-> Tasks(given) \ pruned,
        inits |-> inits, implicit |-> \E p \in Pids : led[p].implicit]

NotConverted == [task |-> <<>>, out |-> {}, lk |-> <<>>, tasks |-> {}, inits |-> {}, implicit |-> FALSE]

(* The trace ends, whenever that is, and is converted; a mount that was    *)
(* not unmounted is skipped.                                               *)
convert ==
    /\ state = "tracing"
    /\ IF Cardinality(At("umount_tree")) = 1 THEN state' = "converted" /\ conv' = Converted
       ELSE state' = "skipped" /\ UNCHANGED conv
    /\ UNCHANGED <<log, refs, sum, um, how, before, left>>

-----------------------------------------------------------------------------

Init ==
    /\ log = <<>> /\ um = "mounted" /\ left = MaxEvents /\ state = "tracing" /\ conv = NotConverted
    /\ how \in [shape : {"umount", "nsdeath"}, sync : BOOLEAN]
    /\ how.sync => how.shape = "umount"
    /\ before \in [Pids -> 0 .. 1]
    /\ refs = Cardinality({p \in Pids : before[p] = 1})
    /\ sum = 1 + refs

Next ==
    \/ \E p \in Pids :
          \/ \E r \in {-1, 0, 1}, early \in BOOLEAN : Legitimize(p, r, early)
          \/ Get(p) \/ PutFast(p) \/ Slowpath(p)
    \/ UmountTree \/ CallerDrop \/ Peek \/ Gp \/ NsPut \/ Finish
    \/ convert

Spec == Init /\ [][Next]_vars

-----------------------------------------------------------------------------
(* What the converted trace is good for *)

(* The events that acquire a reference, and those that release one other   *)
(* than the namespace's.                                                   *)
Acquires(e) == e.ev = "get" \/ (e.ev = "legitimize" /\ e.result # 1)
Releases(e) == is_put(e) \/ e.ev = "caller_drop"

Acqs(P, i) == {j \in DOMAIN log : j <= i /\ log[j].pid \in P /\ Acquires(log[j])}
Rels(P, i) == {j \in DOMAIN log : j <= i /\ log[j].pid \in P /\ Releases(log[j]) /\ j # NsPutAt}

(* What a pid holds after event i by its own events, which is what the     *)
(* converter goes by, and what it does hold if no reference changed hands. *)
Balance(p, i) == before[p] + Cardinality(Acqs({p}, i)) - Cardinality(Rels({p}, i))

(* No pid put what only another one had taken.                             *)
OwnPuts == \A p \in Pids, i \in 0 .. Len(log) : Balance(p, i) >= 0

(* The count that MntPut.tla has when it replays the trace up to event i:  *)
(* the namespace's reference, the umounter's own, each holder's first, and *)
(* what the emitted events did since.                                      *)
ReplayCount(i) ==
    LET upto == {j \in conv.out : j <= i} IN
    1 + (IF shape = "umount" THEN 1 ELSE 0)
      + Cardinality({n \in conv.tasks : n[1] = "H"})
      + Cardinality({j \in upto : Acquires(log[j])})
      - Cardinality({j \in upto : Releases(log[j])})

(* The trace shows every reference from its acquisition or to its release. *)
Accounted ==
    \/ \A p \in Pids : Balance(p, Len(log)) = 0
    \/ shape = "umount" /\ \A p \in Pids : before[p] = 0

(* What the converter cannot express: an acquisition of U's own that it    *)
(* did not find, or a holder that began after umount_tree.                 *)
Expressible == (conv.implicit => shape = "nsdeath") /\ \A i \in conv.inits : i < Ut

(* Replaying the converted trace gives the counts that the kernel          *)
(* recorded, at umount_tree, at the peek and at every slow path: however   *)
(* puts were attributed, whatever was pruned and whichever acquisition was *)
(* taken for U's own.  A reference that one pid took and another put has   *)
(* no task to go to.                                                       *)
ReplayMatches ==
    state = "converted" /\ OwnPuts /\ Accounted /\ Expressible
      => \A i \in DOMAIN log : log[i].ev \in {"umount_tree", "peek", "slowpath"} => log[i].count = ReplayCount(i)

(* Walkers release what they took: a put given to one follows its          *)
(* successful legitimize, is of the same pid, and is its only one, since   *)
(* the model's walker ends there.                                          *)
WalkersRelease ==
    \A n \in conv.tasks : n[1] = "W" =>
       LET es == {i \in conv.out : conv.task[i] = n /\ log[i].ev # "cleanup"} IN
       \E i \in es :
          /\ log[i].ev = "legitimize" /\ log[i].pid = n[2]
          /\ \A j \in es \ {i} :
                /\ is_put(log[j]) /\ log[j].pid = n[2] /\ i < j /\ log[i].result \in {0, -1}
                /\ es = {i, j}

(* cleanup is given to the task whose event doomed the mount, which is the *)
(* one that the model lets do it.                                          *)
CleanupByDoomer ==
    state = "converted" => \A i \in At("cleanup") : conv.task[i] = conv.task[DoomedAt]

(* The replay takes the locked events in the order of their ranks and      *)
(* never waits for a rank that no event has.                               *)
RanksComplete ==
    LET ls == {i \in conv.out : locked(log[i])} IN
    /\ {conv.lk[i] : i \in ls} = 1 .. Cardinality(ls)
    /\ \A i, j \in ls : i < j => conv.lk[i] < conv.lk[j]

=============================================================================
