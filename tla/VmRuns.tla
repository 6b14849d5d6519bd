------------------------------- MODULE VmRuns -------------------------------
(***************************************************************************)
(* vm-run-tests.py and vm-probe.py: a throwaway VM is booted with a unit   *)
(* that runs test scripts, or the probe of FdProbe, and powers off; the    *)
(* guest's journal is forwarded to a file on the host, and when mkosi has  *)
(* ended, or was killed after a timeout, the results are read from it.     *)
(* mkosi, the guest's systemd and the journal forwarding are external.     *)
(***************************************************************************)
EXTENDS FdProbe, FiniteSets

CONSTANTS
    Runs,       \* invocations of the two programs
    Prober,     \* the one that may be vm-probe.py
    Outs,       \* the directories for --out
    NScripts    \* bound: how many scripts a run of vm-run-tests.py has

None == "none"

ASSUME VmRunsAssumption == Prober \in Runs /\ None \notin Runs /\ NScripts \in Nat \ {0}

VARIABLES
    kind,       \* which program each run is: "tests", "probe", or None
    out,        \* its --out
    host,       \* where it is: "start", "boot", "wait", "term", "read" or "done"
    rc,         \* what it says of mkosi: "exit", "failed" or "timeout"
    vm,         \* its VM: "off", "on" or "gone"
    cur,        \* the script that is next
    path,       \* the file that a journal's path names, by the run that made it
    file,       \* the RESULT lines in that file
    fd,         \* the file that a VM's journal goes to
    shown,      \* what the run printed
    alone       \* did no other run use its journal in the meantime?

vmvars == <<kind, out, host, rc, vm, cur, path, file, fd, shown, alone>>
vars   == <<probevars, vmvars>>

(* The two programs have different names for their journals.               *)
Journal(r) == <<out[r], kind[r]>>
Live(r)    == host[r] \notin {"start", "done"}

HostGoes(r, from, to) == host[r] = from /\ host' = [host EXCEPT ![r] = to]

-----------------------------------------------------------------------------
(* The host *)

Sharers(r) == {q \in Runs \ {r} : Live(q) /\ Journal(q) = Journal(r)}

(* Mutant: the journal of the last run stays.                              *)
Start_KeepsJournal(r) ==
    /\ HostGoes(r, "start", "boot")
    /\ alone' = [q \in Runs |-> alone[q] /\ (q \in Sharers(r) \cup {r} => Sharers(r) = {})]
    /\ UNCHANGED <<probevars, kind, out, rc, vm, cur, path, file, fd, shown>>

(* The old journal is unlinked.                                            *)
Start(r) ==
    /\ HostGoes(r, "start", "boot")
    /\ path' = [path EXCEPT ![Journal(r)] = None]
    /\ alone' = [q \in Runs |-> alone[q] /\ (q \in Sharers(r) \cup {r} => Sharers(r) = {})]
    /\ UNCHANGED <<probevars, kind, out, rc, vm, cur, file, fd, shown>>

(* mkosi is started in a session of its own; the forwarded journal is a    *)
(* new file, unless there is one.                                          *)
Boot(r) ==
    /\ HostGoes(r, "boot", "wait")
    /\ vm' = [vm EXCEPT ![r] = "on"]
    /\ LET f == IF path[Journal(r)] = None THEN r ELSE path[Journal(r)]
       IN path' = [path EXCEPT ![Journal(r)] = f] /\ fd' = [fd EXCEPT ![r] = f]
    /\ UNCHANGED <<probevars, kind, out, rc, cur, file, shown, alone>>

(* wait() sees the mkosi process only: mkosi ends when its VM has ended,   *)
(* or fails and leaves the VM to itself.                                   *)
Waited(r) ==
    /\ HostGoes(r, "wait", "read")
    /\ \/ vm[r] = "gone" /\ rc' = [rc EXCEPT ![r] = "exit"]
       \/ rc' = [rc EXCEPT ![r] = "failed"]
    /\ UNCHANGED <<probevars, kind, out, vm, cur, path, file, fd, shown, alone>>

(* wait() times out: SIGTERM to the process group.                         *)
TimedOut(r) ==
    /\ HostGoes(r, "wait", "term")
    /\ rc' = [rc EXCEPT ![r] = "timeout"]
    /\ UNCHANGED <<probevars, kind, out, vm, cur, path, file, fd, shown, alone>>

(* Mutant: SIGTERM is enough, and the VM is waited for.                    *)
Kill_TermOnly(r) ==
    /\ HostGoes(r, "term", "read") /\ vm[r] = "gone"
    /\ UNCHANGED <<probevars, kind, out, rc, vm, cur, path, file, fd, shown, alone>>

(* Five seconds later, SIGKILL to whatever is left of the group; that it   *)
(* is gone is not waited for, and a VM outside the group is not.           *)
Kill(r) ==
    /\ HostGoes(r, "term", "read")
    /\ UNCHANGED <<probevars, kind, out, rc, vm, cur, path, file, fd, shown, alone>>

(* journalctl on the file of that name, and the RESULT lines in it.        *)
Read(r) ==
    /\ HostGoes(r, "read", "done")
    /\ shown' = [shown EXCEPT ![r] = IF path[Journal(r)] = None THEN {} ELSE file[path[Journal(r)]]]
    /\ UNCHANGED <<probevars, kind, out, rc, vm, cur, path, file, fd, alone>>

-----------------------------------------------------------------------------
(* The guest *)

(* Mutant: the first failure ends the list.                                *)
RunScript_StopsAtFail(r) ==
    /\ kind[r] = "tests" /\ vm[r] = "on" /\ cur[r] <= NScripts
    /\ \E v \in {"PASS", "FAIL"} :
          /\ file' = [file EXCEPT ![fd[r]] = @ \cup {<<r, cur[r], v>>}]
          /\ cur' = [cur EXCEPT ![r] = IF v = "PASS" THEN @ + 1 ELSE NScripts + 1]
    /\ UNCHANGED <<probevars, kind, out, host, rc, vm, path, fd, shown, alone>>

(* One script after the other; each echoes its RESULT line.                *)
RunScript(r) ==
    /\ kind[r] = "tests" /\ vm[r] = "on" /\ cur[r] <= NScripts
    /\ \E v \in {"PASS", "FAIL"} : file' = [file EXCEPT ![fd[r]] = @ \cup {<<r, cur[r], v>>}]
    /\ cur' = [cur EXCEPT ![r] = @ + 1]
    /\ UNCHANGED <<probevars, kind, out, host, rc, vm, path, fd, shown, alone>>

(* The probe and what it talks to.                                         *)
RunProbe(r) ==
    /\ kind[r] = "probe" /\ vm[r] = "on"
    /\ ProbeNext
    /\ UNCHANGED vmvars

VmEnds(r) == vm[r] = "on" /\ vm' = [vm EXCEPT ![r] = "gone"]

(* The unit is done, and its SuccessAction or FailureAction powers off.    *)
UnitDone(r) ==
    /\ VmEnds(r)
    /\ IF kind[r] = "tests" THEN cur[r] > NScripts ELSE probe = "exit"
    /\ UNCHANGED <<probevars, kind, out, host, rc, cur, path, file, fd, shown, alone>>

(* TimeoutStartSec ends the unit early, the guest crashes, or a signal     *)
(* ends the VM.                                                            *)
UnitCut(r) ==
    /\ VmEnds(r)
    /\ cur' = [cur EXCEPT ![r] = NScripts + 2]
    /\ UNCHANGED <<probevars, kind, out, host, rc, path, file, fd, shown, alone>>

-----------------------------------------------------------------------------

Init ==
    /\ ProbeInit
    /\ kind \in {k \in [Runs -> {"tests", "probe", None}] :
                    \/ \A r \in Runs : k[r] = "tests"
                    \/ \A r \in Runs : k[r] = IF r = Prober THEN "probe" ELSE None}
    /\ out \in [Runs -> Outs]
    /\ host = [r \in Runs |-> IF kind[r] = None THEN "done" ELSE "start"]
    /\ rc = [r \in Runs |-> None]
    /\ vm = [r \in Runs |-> "off"]
    /\ cur = [r \in Runs |-> 1]
    /\ path = [j \in Outs \X {"tests", "probe", None} |-> None]
    /\ file = [r \in Runs |-> {}]
    /\ fd = [r \in Runs |-> None]
    /\ shown = [r \in Runs |-> {}]
    /\ alone = [r \in Runs |-> TRUE]

Next ==
    \E r \in Runs :
       \/ Start(r) \/ Boot(r) \/ Waited(r) \/ TimedOut(r) \/ Kill(r) \/ Read(r)
       \/ RunScript(r) \/ RunProbe(r) \/ UnitDone(r) \/ UnitCut(r)

(* The programs on the host run, and time passes; nothing is assumed of    *)
(* the guest.                                                              *)
Fairness ==
    \A r \in Runs : WF_vars(Boot(r)) /\ WF_vars(Waited(r) \/ TimedOut(r)) /\ WF_vars(Kill(r)) /\ WF_vars(Read(r))

Spec == Init /\ [][Next]_vars /\ Fairness

-----------------------------------------------------------------------------
(* Properties *)

(* A run prints only what its own VM reported, though others used the same *)
(* directory before it or use another one meanwhile, and though the VM of  *)
(* an earlier run may have outlived it and still report; and if mkosi says *)
(* that the VM ended, and the unit came to its end, there is one result    *)
(* per script, pass or fail.                                               *)
ResultsAreRight ==
    \A r \in Runs : host[r] = "done" /\ alone[r] =>
       /\ \A l \in shown[r] : l[1] = r
       /\ kind[r] = "tests" /\ rc[r] = "exit" /\ cur[r] = NScripts + 1 =>
            \A n \in 1 .. NScripts : \E v \in {"PASS", "FAIL"} : <<r, n, v>> \in shown[r]

(* Whatever hangs, a script, the boot, the probe's child or a VM that      *)
(* ignores SIGTERM: a run that was started ends.                           *)
RunEnds == \A r \in Runs : host[r] # "start" ~> host[r] = "done"

=============================================================================
