-------------------------- MODULE RunControlProofs --------------------------
(***************************************************************************)
(* The scripts of a model directory, for any number of configurations,     *)
(* process ids, commands, deaths and reboots.  From one shell, a           *)
(* configuration has one run at a time, whatever pids the system hands     *)
(* out, and resume.sh works where status.sh points to it.  Where no pid    *)
(* comes again, run-parallel.sh leaves no configuration out, from however  *)
(* many shells it is started, and finish.sh waits for every run it found.  *)
(***************************************************************************)
EXTENDS RunControl, TLAPS

OneShell == \A s, t \in Shells : s = t

-----------------------------------------------------------------------------
(* The invariants *)

Proc ==
    [cfg : Cfgs \cup {NoCfg}, at : {"free", "spawned", "check", "tlc", "checkpointing"},
     workers : Workers \cup {0}, recover : BOOLEAN, dir : Nat]

Ckpt == [dir : Nat, workers : Workers]

LogFile ==
    [exists : BOOLEAN, workers : Workers \cup {0}, result : Verdicts \cup {"none", "ERROR"}, chk : Nat, completed : BOOLEAN]

ShState ==
    [pc : {"idle", "next", "test", "spawn", "sleep"}, todo : SUBSET Cfgs,
     cfg : Cfgs \cup {NoCfg}, workers : Workers \cup {0}, recover : BOOLEAN]

ShellsOk ==
    /\ sh \in [Shells -> ShState]
    /\ \A s \in Shells :
         /\ sh[s].pc # "idle" => sh[s].workers \in Workers
         /\ sh[s].pc \in {"test", "spawn", "sleep"} => sh[s].cfg \in Cfgs

IsRun(l) == l.cfg \in Cfgs /\ l.at # "free" /\ l.workers \in Workers

ProcsOk == procs \in [Pids -> Proc] /\ \A p \in Pids : procs[p] = Free \/ IsRun(procs[p])

FilesOk ==
    /\ pidfile \in [Cfgs -> Pids \cup {0}] /\ log \in [Cfgs -> LogFile]
    /\ dirs \in [Cfgs -> SUBSET Nat] /\ ckpts \in [Cfgs -> SUBSET Ckpt] /\ made \in [Cfgs -> Nat]
    /\ \A c \in Cfgs : /\ dirs[c] # {} => made[c] \in dirs[c]
                       /\ \A d \in dirs[c] : 1 <= d /\ d <= made[c]

ControlType == ShellsOk /\ ProcsOk /\ FilesOk

(* A pid file that names a live process names a run of its configuration.  *)
PidsNamed ==
    \A c \in Cfgs, p \in Pids : pidfile[c] = p /\ procs[p] # Free => procs[p].cfg = c

(* A run is in its pid file once it has written that; until then the shell *)
(* that started it sleeps.                                                 *)
RunKnown(p) ==
    /\ procs[p].at \in {"check", "tlc", "checkpointing"} => pidfile[procs[p].cfg] = p
    /\ procs[p].at = "spawned" =>
         \A s \in Shells : sh[s].pc = "sleep" /\ sh[s].cfg = procs[p].cfg

Started ==
    /\ OneRunPerConfig
    /\ \A p \in Pids : RunKnown(p)
    /\ \A s \in Shells : sh[s].pc = "spawn" => Runs(sh[s].cfg) = {}

(* What is in the directory of a run has the run's number of workers.      *)
OwnCkpts(c, l) == \A k \in ckpts[c] : k.dir = l.dir => k.workers = l.workers

(* The last directory that TLC made is the one that a run works in and     *)
(* that its log tells of, unless a reboot has swept it away.               *)
DirsOf(c) ==
    /\ \A p \in Runs(c) :
         /\ procs[p].at \in {"tlc", "checkpointing"} =>
              /\ procs[p].dir = made[c] /\ made[c] \in dirs[c] /\ log[c].workers = procs[p].workers
              /\ ~procs[p].recover \/ procs[p].at = "checkpointing" => OwnCkpts(c, procs[p])
         /\ procs[p].at = "checkpointing" => log[c].chk = made[c]
    /\ log[c].chk \in dirs[c] => log[c].chk = made[c]
    /\ log[c].completed => log[c].chk # 0
    /\ log[c].completed /\ log[c].chk \in dirs[c] => Recovers(c, log[c].chk, log[c].workers)
    /\ \A k, l \in ckpts[c] : k.dir = l.dir => k.workers = l.workers
    /\ \A k \in ckpts[c] : k.dir <= made[c]

Control ==
    /\ ControlType
    /\ ~PidReuse => PidsNamed
    /\ OneShell => Started /\ \A c \in Cfgs : DirsOf(c)

-----------------------------------------------------------------------------
(* Records *)

(* No process.                                                             *)
LEMMA FreeIsNone == Free \in Proc /\ Free.cfg = NoCfg /\ Free.at = "free" /\ ~IsRun(Free)
  BY RunControlAssumption DEF Free, Proc, IsRun

(* Which process is a run of which configuration.                          *)
LEMMA RunsOf ==
  ASSUME ProcsOk, NEW c \in Cfgs, NEW p \in Pids
  PROVE  /\ p \in Runs(c) <=> procs[p].cfg = c
         /\ p \in Runs(c) => procs[p] # Free /\ procs[p].at # "free"
         /\ procs[p] # Free => procs[p].cfg \in Cfgs /\ procs[p].at # "free"
  BY FreeIsNone, RunControlAssumption DEF ProcsOk, Runs, IsRun

-----------------------------------------------------------------------------
(* The shells *)

(* A shell that goes on neither starts a run nor ends its sleep too soon.  *)
LEMMA ShellKeeps ==
  ASSUME Control, NEW s \in Shells, NEW new \in ShState,
         sh' = [sh EXCEPT ![s] = new], UNCHANGED <<procs, files>>,
         new.pc \in {"test", "spawn", "sleep"} => new.cfg \in Cfgs,
         new.pc # "idle" => new.workers \in Workers,
         sh[s].pc = "sleep" => \A p \in Runs(sh[s].cfg) : procs[p].at # "spawned",
         OneShell /\ Started /\ new.pc = "spawn" => Runs(new.cfg) = {}
  PROVE  Control'
<1>1. ControlType /\ (~PidReuse => PidsNamed) /\ (OneShell => Started /\ \A c \in Cfgs : DirsOf(c))
  BY DEF Control
<1>2. UNCHANGED <<pidfile, log, dirs, ckpts, made, procs>>
  BY DEF files
<1>3. ControlType'
  BY <1>1, <1>2 DEF ControlType, ShellsOk, ProcsOk, FilesOk
<1>4. ~PidReuse => PidsNamed'
  BY <1>1, <1>2 DEF PidsNamed
<1>5. ASSUME OneShell
      PROVE  Started'
  <2>1. sh'[s] = new /\ \A t \in Shells : t = s
    BY <1>1, <1>5 DEF OneShell, ControlType, ShellsOk
  <2>2. ASSUME NEW p \in Pids
        PROVE  RunKnown(p)'
    <3>1. procs[p].at = "spawned" => FALSE
      <4> SUFFICES ASSUME procs[p].at = "spawned"
                   PROVE  FALSE
        OBVIOUS
      <4>1. sh[s].pc = "sleep" /\ sh[s].cfg = procs[p].cfg
        BY <1>1, <1>5 DEF Started, RunKnown
      <4>2. p \in Runs(sh[s].cfg)
        BY <4>1 DEF Runs
      <4> QED
        BY <4>1, <4>2
    <3>2. RunKnown(p)
      BY <1>1, <1>5 DEF Started
    <3> QED
      BY <1>2, <3>1, <3>2 DEF RunKnown
  <2>3. \A c : Runs(c)' = Runs(c)
    BY <1>2 DEF Runs
  <2>4. OneRunPerConfig'
    BY <1>1, <1>5, <2>3 DEF Started, OneRunPerConfig
  <2>5. ASSUME NEW t \in Shells, sh'[t].pc = "spawn"
        PROVE  Runs(sh[t].cfg)' = {}
    <3>1. Runs(new.cfg) = {} /\ sh'[t] = new
      BY <1>1, <1>5, <2>1, <2>5
    <3> QED
      BY <1>2, <3>1 DEF Runs
  <2> QED
    BY <2>2, <2>4, <2>5 DEF Started
<1>6. OneShell => \A c \in Cfgs : DirsOf(c)'
  BY <1>1, <1>2 DEF DirsOf, OwnCkpts, Recovers, Runs
<1> QED
  BY <1>3, <1>4, <1>5, <1>6 DEF Control, OneShell

(* What a shell may be told to do, and what it goes on to.                 *)
LEMMA ShellStates ==
  ASSUME ControlType, NEW s \in Shells
  PROVE  /\ Idle \in ShState /\ Idle.pc = "idle"
         /\ Done(s) \in ShState /\ Done(s).pc = "next" /\ Done(s).workers = sh[s].workers
         /\ [Done(s) EXCEPT !.pc = "sleep"] \in ShState
         /\ [Done(s) EXCEPT !.pc = "sleep"].pc = "sleep"
         /\ [Done(s) EXCEPT !.pc = "sleep"].cfg = sh[s].cfg
         /\ [Done(s) EXCEPT !.pc = "sleep"].workers = sh[s].workers
<1>1. sh[s] \in ShState
  BY DEF ControlType, ShellsOk
<1>2. Idle \in ShState /\ Idle.pc = "idle"
  BY DEF Idle, ShState
<1>3. /\ Done(s) \in ShState /\ Done(s).pc = "next" /\ Done(s).cfg = sh[s].cfg
      /\ Done(s).workers = sh[s].workers
  BY <1>1 DEF Done, ShState
<1> QED
  BY <1>2, <1>3 DEF ShState

(* The same, with another label.                                           *)
LEMMA ShellMoves ==
  ASSUME NEW l \in ShState, NEW x \in {"next", "spawn"}
  PROVE  /\ [l EXCEPT !.pc = x] \in ShState /\ [l EXCEPT !.pc = x].pc = x
         /\ [l EXCEPT !.pc = x].cfg = l.cfg /\ [l EXCEPT !.pc = x].workers = l.workers
  BY DEF ShState

(* A command.                                                              *)
LEMMA CommandKeeps ==
  ASSUME Control, NEW s \in Shells, run_parallel(s) \/ start(s) \/ resume(s)
  PROVE  Control'
<1>1. ControlType /\ sh[s] = Idle
  BY DEF Control, run_parallel, start, resume, Command
<1>2. Idle \in ShState /\ Idle.pc = "idle"
  BY <1>1, ShellStates
<1>3. \E w \in Workers : \E new :
         /\ sh' = [sh EXCEPT ![s] = new] /\ UNCHANGED <<procs, files>>
         /\ \/ new = [Idle EXCEPT !.pc = "next", !.todo = Cfgs, !.workers = w]
            \/ \E c \in Cfgs :
                 \/ new = [Idle EXCEPT !.pc = "test", !.cfg = c, !.workers = w]
                 \/ new = [Idle EXCEPT !.pc = "test", !.cfg = c, !.workers = w, !.recover = TRUE]
  <2>1. CASE run_parallel(s)
    <3>1. PICK w \in Workers : Command(s, [Idle EXCEPT !.pc = "next", !.todo = Cfgs, !.workers = w])
      BY <2>1 DEF run_parallel
    <3>2. PICK new : new = [Idle EXCEPT !.pc = "next", !.todo = Cfgs, !.workers = w]
      OBVIOUS
    <3> QED
      BY <3>1, <3>2 DEF Command
  <2>2. CASE start(s)
    <3>1. PICK c \in Cfgs, w \in Workers :
             Command(s, [Idle EXCEPT !.pc = "test", !.cfg = c, !.workers = w])
      BY <2>2 DEF start
    <3>2. PICK new : new = [Idle EXCEPT !.pc = "test", !.cfg = c, !.workers = w]
      OBVIOUS
    <3> QED
      BY <3>1, <3>2 DEF Command
  <2>3. CASE resume(s)
    <3>1. PICK c \in Cfgs, w \in Workers :
             Command(s, [Idle EXCEPT !.pc = "test", !.cfg = c, !.workers = w, !.recover = TRUE])
      BY <2>3 DEF resume
    <3>2. PICK new : new = [Idle EXCEPT !.pc = "test", !.cfg = c, !.workers = w, !.recover = TRUE]
      OBVIOUS
    <3> QED
      BY <3>1, <3>2 DEF Command
  <2> QED
    BY <2>1, <2>2, <2>3
<1>4. PICK w \in Workers : \E new :
         /\ sh' = [sh EXCEPT ![s] = new] /\ UNCHANGED <<procs, files>>
         /\ \/ new = [Idle EXCEPT !.pc = "next", !.todo = Cfgs, !.workers = w]
            \/ \E c \in Cfgs :
                 \/ new = [Idle EXCEPT !.pc = "test", !.cfg = c, !.workers = w]
                 \/ new = [Idle EXCEPT !.pc = "test", !.cfg = c, !.workers = w, !.recover = TRUE]
  BY <1>3
<1>5. PICK new :
         /\ sh' = [sh EXCEPT ![s] = new] /\ UNCHANGED <<procs, files>>
         /\ \/ new = [Idle EXCEPT !.pc = "next", !.todo = Cfgs, !.workers = w]
            \/ \E c \in Cfgs :
                 \/ new = [Idle EXCEPT !.pc = "test", !.cfg = c, !.workers = w]
                 \/ new = [Idle EXCEPT !.pc = "test", !.cfg = c, !.workers = w, !.recover = TRUE]
  BY <1>4
<1>6. /\ new \in ShState /\ new.pc \in {"next", "test"} /\ new.workers = w
      /\ new.pc = "test" => new.cfg \in Cfgs
  <2> PICK l \in ShState : l = Idle
    BY <1>2
  <2>1. CASE new = [l EXCEPT !.pc = "next", !.todo = Cfgs, !.workers = w]
    BY <2>1 DEF ShState
  <2>2. ASSUME NEW c \in Cfgs,
               \/ new = [l EXCEPT !.pc = "test", !.cfg = c, !.workers = w]
               \/ new = [l EXCEPT !.pc = "test", !.cfg = c, !.workers = w, !.recover = TRUE]
        PROVE  new \in ShState /\ new.pc = "test" /\ new.cfg = c /\ new.workers = w
    BY <2>2 DEF ShState
  <2> QED
    BY <1>5, <2>1, <2>2
<1> QED
  BY <1>1, <1>2, <1>5, <1>6, ShellKeeps

(* A pass of run-parallel.sh starts nothing by itself.                     *)
LEMMA RunParallelNextKeeps ==
  ASSUME Control, NEW s \in Shells, RunParallelNext(s)
  PROVE  Control'
<1>1. /\ ControlType /\ sh[s].pc = "next" /\ sh[s] \in ShState /\ sh[s].workers \in Workers
      /\ UNCHANGED <<procs, files>>
  BY DEF Control, RunParallelNext, ControlType, ShellsOk
<1>2. PICK new : sh' = [sh EXCEPT ![s] = new] /\ new \in ShState
                 /\ new.pc \in {"idle", "next", "test"} /\ (new.pc = "test" => new.cfg \in Cfgs)
                 /\ (new.pc # "idle" => new.workers \in Workers)
  <2>1. CASE sh' = [sh EXCEPT ![s] = Idle]
    BY <1>1, <2>1, ShellStates
  <2>2. ASSUME NEW c \in sh[s].todo,
               \/ sh' = [sh EXCEPT ![s] = [sh[s] EXCEPT !.todo = @ \ {c}]]
               \/ sh' = [sh EXCEPT ![s] = [sh[s] EXCEPT !.pc = "test", !.cfg = c]]
        PROVE  \E new \in ShState :
                 /\ sh' = [sh EXCEPT ![s] = new]
                 /\ new.pc \in {"idle", "next", "test"} /\ (new.pc = "test" => new.cfg \in Cfgs)
                 /\ (new.pc # "idle" => new.workers \in Workers)
    <3>1. c \in Cfgs
      BY <1>1, <2>2 DEF ShState
    <3>2. PICK l : l = sh[s]
      OBVIOUS
    <3>3. CASE sh' = [sh EXCEPT ![s] = [sh[s] EXCEPT !.todo = @ \ {c}]]
      <4>1. /\ [l EXCEPT !.todo = @ \ {c}] \in ShState /\ [l EXCEPT !.todo = @ \ {c}].pc = "next"
            /\ [l EXCEPT !.todo = @ \ {c}].workers = l.workers
        BY <1>1, <3>2 DEF ShState
      <4> QED
        BY <1>1, <3>2, <3>3, <4>1
    <3>4. CASE sh' = [sh EXCEPT ![s] = [sh[s] EXCEPT !.pc = "test", !.cfg = c]]
      <4>1. /\ [l EXCEPT !.pc = "test", !.cfg = c] \in ShState
            /\ [l EXCEPT !.pc = "test", !.cfg = c].pc = "test"
            /\ [l EXCEPT !.pc = "test", !.cfg = c].cfg = c
            /\ [l EXCEPT !.pc = "test", !.cfg = c].workers = l.workers
        BY <1>1, <3>1, <3>2 DEF ShState
      <4> QED
        BY <1>1, <3>1, <3>2, <3>4, <4>1
    <3> QED
      BY <2>2, <3>3, <3>4
  <2>3. \/ sh' = [sh EXCEPT ![s] = Idle]
        \/ \E c \in sh[s].todo :
             \/ sh' = [sh EXCEPT ![s] = [sh[s] EXCEPT !.todo = @ \ {c}]]
             \/ sh' = [sh EXCEPT ![s] = [sh[s] EXCEPT !.pc = "test", !.cfg = c]]
    <3>1. CASE sh[s].todo = {} /\ sh' = [sh EXCEPT ![s] = Idle]
      BY <3>1
    <3>2. CASE \E c \in sh[s].todo :
                  sh' = [sh EXCEPT ![s] = IF log[c].result \in Verdicts
                                          THEN [sh[s] EXCEPT !.todo = @ \ {c}]
                                          ELSE [sh[s] EXCEPT !.pc = "test", !.cfg = c]]
      <4>1. PICK c \in sh[s].todo :
                  sh' = [sh EXCEPT ![s] = IF log[c].result \in Verdicts
                                          THEN [sh[s] EXCEPT !.todo = @ \ {c}]
                                          ELSE [sh[s] EXCEPT !.pc = "test", !.cfg = c]]
        BY <3>2, Zenon
      <4>2. CASE log[c].result \in Verdicts
        <5>1. sh' = [sh EXCEPT ![s] = [sh[s] EXCEPT !.todo = @ \ {c}]]
          BY <4>1, <4>2, Zenon
        <5> QED
          BY <5>1, Zenon
      <4>3. CASE log[c].result \notin Verdicts
        BY <4>1, <4>3
      <4> QED
        BY <4>2, <4>3
    <3> QED
      BY <3>1, <3>2 DEF RunParallelNext
  <2> QED
    BY <2>1, <2>2, <2>3
<1> QED
  BY <1>1, <1>2, ShellKeeps

(* start.sh goes on where there is no run.                                 *)
LEMMA StartTestKeeps ==
  ASSUME Control, NEW s \in Shells, StartTest(s)
  PROVE  Control'
<1>1. /\ ControlType /\ sh[s].pc = "test" /\ sh[s] \in ShState /\ sh[s].cfg \in Cfgs
      /\ sh[s].workers \in Workers /\ UNCHANGED <<procs, files>>
  BY DEF Control, StartTest, ControlType, ShellsOk
<1>2. CASE alive(pidfile[sh[s].cfg])
  <2>1. sh' = [sh EXCEPT ![s] = Done(s)]
    BY <1>2 DEF StartTest
  <2> QED
    BY <1>1, <2>1, ShellStates, ShellKeeps
<1>3. CASE ~alive(pidfile[sh[s].cfg])
  <2>1. PICK new : new = [sh[s] EXCEPT !.pc = "spawn"]
    OBVIOUS
  <2>2. /\ sh' = [sh EXCEPT ![s] = new] /\ new \in ShState /\ new.pc = "spawn" /\ new.cfg = sh[s].cfg
        /\ new.workers = sh[s].workers
    BY <1>1, <1>3, <2>1, ShellMoves DEF StartTest
  <2>3. ASSUME OneShell, Started
        PROVE  Runs(sh[s].cfg) = {}
    <3> SUFFICES ASSUME NEW p \in Runs(sh[s].cfg)
                 PROVE  FALSE
      OBVIOUS
    <3>1. p \in Pids /\ procs[p].cfg = sh[s].cfg /\ procs[p] # Free /\ procs[p].at # "free"
      BY <1>1, RunsOf DEF Runs, ControlType
    <3>2. procs[p].at # "spawned"
      BY <1>1, <2>3, <3>1 DEF Started, RunKnown
    <3>3. pidfile[sh[s].cfg] = p
      <4>1. procs[p].at \in {"check", "tlc", "checkpointing"}
        BY <1>1, <3>1, <3>2 DEF ControlType, ProcsOk, Proc
      <4> QED
        BY <2>3, <3>1, <4>1 DEF Started, RunKnown
    <3> QED
      BY <1>3, <3>1, <3>3, RunControlAssumption DEF alive
  <2> QED
    BY <1>1, <2>2, <2>3, ShellKeeps
<1> QED
  BY <1>2, <1>3

(* The shell sleeps until the pid file is written.                         *)
LEMMA StartSleepKeeps ==
  ASSUME Control, NEW s \in Shells, StartSleep(s)
  PROVE  Control'
<1>1. ControlType /\ sh[s] \in ShState /\ sh[s].workers \in Workers /\ UNCHANGED <<procs, files>>
  BY DEF Control, StartSleep, ControlType, ShellsOk
<1>2. PICK new : new = [sh[s] EXCEPT !.pc = "next"]
  OBVIOUS
<1>3. /\ new \in ShState /\ new.pc = "next" /\ new.workers = sh[s].workers
      /\ sh' = [sh EXCEPT ![s] = new]
  BY <1>1, <1>2, ShellMoves DEF StartSleep
<1> QED
  BY <1>1, <1>3, ShellKeeps DEF StartSleep

-----------------------------------------------------------------------------
(* The runs *)

(* A run that goes on or ends, and has written its pid file by then.       *)
LEMMA RunKeeps ==
  ASSUME Control, NEW p \in Pids, NEW m \in Proc, procs[p] # Free,
         procs' = [procs EXCEPT ![p] = m], sh' = sh, FilesOk',
         m = Free \/ (/\ m.cfg = procs[p].cfg /\ m.workers = procs[p].workers
                     /\ m.at \in {"check", "tlc", "checkpointing"}),
         \A c \in Cfgs : pidfile'[c] = pidfile[c] \/ (c = procs[p].cfg /\ pidfile'[c] = p),
         OneShell /\ m # Free => pidfile'[m.cfg] = p
  PROVE  /\ ControlType' /\ (~PidReuse => PidsNamed') /\ (OneShell => Started')
         /\ \A q \in Pids \ {p} : procs'[q] = procs[q]
         /\ procs'[p] = m
<1>1. ControlType /\ (~PidReuse => PidsNamed) /\ (OneShell => Started)
  BY DEF Control
<1>2. /\ ProcsOk /\ procs[p].cfg \in Cfgs /\ IsRun(procs[p])
      /\ NoCfg \notin Cfgs /\ procs'[p] = m /\ \A q \in Pids \ {p} : procs'[q] = procs[q]
  BY <1>1, RunControlAssumption DEF ControlType, ProcsOk, IsRun
<1>3. m = Free \/ IsRun(m)
  BY <1>2 DEF IsRun
<1>4. ControlType'
  BY <1>1, <1>2, <1>3 DEF ControlType, ShellsOk, ProcsOk
<1>5. ASSUME ~PidReuse
      PROVE  PidsNamed'
  <2> SUFFICES ASSUME NEW c \in Cfgs, NEW q \in Pids, pidfile'[c] = q, procs'[q] # Free
               PROVE  procs'[q].cfg = c
    BY DEF PidsNamed
  <2>1. CASE pidfile'[c] = pidfile[c]
    <3>1. procs[q] # Free /\ (q = p => m.cfg = procs[p].cfg)
      BY <1>2
    <3> QED
      BY <1>1, <1>2, <1>5, <2>1, <3>1 DEF PidsNamed
  <2>2. CASE c = procs[p].cfg /\ pidfile'[c] = p
    BY <1>2, <2>2
  <2> QED
    BY <2>1, <2>2
<1>6. ASSUME OneShell
      PROVE  Started'
  <2>1. Started
    BY <1>1, <1>6
  <2>2. \A c \in Cfgs, q \in Pids : q \in Runs(c)' => q \in Runs(c)
    BY <1>2, FreeIsNone DEF Runs
  <2>3. OneRunPerConfig'
    BY <2>1, <2>2 DEF Started, OneRunPerConfig, Runs
  <2>4. ASSUME NEW q \in Pids
        PROVE  RunKnown(q)'
    <3>1. CASE q = p
      BY <1>2, <1>6, <3>1, FreeIsNone DEF RunKnown
    <3>2. CASE q # p
      <4>1. RunKnown(q) /\ procs'[q] = procs[q]
        BY <1>2, <2>1, <3>2 DEF Started
      <4>2. ASSUME procs[q].at \in {"check", "tlc", "checkpointing"}
            PROVE  pidfile'[procs[q].cfg] = q
        <5>1. procs[q].cfg \in Cfgs /\ procs[q].cfg # procs[p].cfg
          <6>1. procs[q] # Free
            BY <4>2, FreeIsNone
          <6>2. procs[q].cfg \in Cfgs
            BY <1>2, <6>1 DEF ProcsOk, IsRun
          <6>3. procs[q].cfg = procs[p].cfg => p = q
            BY <2>1, <6>2 DEF Started, OneRunPerConfig, Runs
          <6> QED
            BY <3>2, <6>2, <6>3
        <5> QED
          BY <4>1, <4>2, <5>1 DEF RunKnown
      <4> QED
        BY <4>1, <4>2 DEF RunKnown
    <3> QED
      BY <3>1, <3>2
  <2>5. ASSUME NEW s \in Shells, sh'[s].pc = "spawn"
        PROVE  Runs(sh[s].cfg)' = {}
    <3>1. Runs(sh[s].cfg) = {} /\ sh[s].cfg \in Cfgs
      BY <1>1, <2>1, <2>5 DEF Started, ControlType, ShellsOk
    <3>2. \A q \in Pids : q \in Runs(sh[s].cfg)' => q \in Runs(sh[s].cfg)
      BY <2>2, <3>1 DEF Runs
    <3> QED
      BY <3>1, <3>2 DEF Runs
  <2> QED
    BY <2>3, <2>4, <2>5 DEF Started
<1> QED
  BY <1>2, <1>4, <1>5, <1>6

(* A configuration is left alone by what happens to others, and by a run   *)
(* that does not work in a directory yet.                                  *)
LEMMA DirsKept ==
  ASSUME NEW d \in Cfgs, DirsOf(d),
         log'[d] = log[d], ckpts'[d] = ckpts[d], dirs'[d] = dirs[d], made'[d] = made[d],
         \A q \in Runs(d)' : \/ q \in Runs(d) /\ procs'[q] = procs[q]
                            \/ procs'[q].at \in {"spawned", "check"}
  PROVE  DirsOf(d)'
<1>1. \A l : OwnCkpts(d, l)' <=> OwnCkpts(d, l)
  BY DEF OwnCkpts
<1>2. ASSUME NEW q \in Runs(d)', procs'[q].at \in {"tlc", "checkpointing"}
      PROVE  q \in Runs(d) /\ procs'[q] = procs[q]
  BY <1>2
<1>3. \A e, w : Recovers(d, e, w)' <=> Recovers(d, e, w)
  BY DEF Recovers
<1>4. ASSUME NEW q \in Runs(d)'
      PROVE  /\ procs'[q].at \in {"tlc", "checkpointing"} =>
                  /\ procs'[q].dir = made[d] /\ made[d] \in dirs[d]
                  /\ log[d].workers = procs'[q].workers
                  /\ ~procs'[q].recover \/ procs'[q].at = "checkpointing" => OwnCkpts(d, procs'[q])
             /\ procs'[q].at = "checkpointing" => log[d].chk = made[d]
  BY <1>2 DEF DirsOf
<1>5. ASSUME NEW q \in Runs(d)'
      PROVE  OwnCkpts(d, procs[q])' <=> OwnCkpts(d, procs'[q])
  BY DEF OwnCkpts
<1> QED
  BY <1>3, <1>4, <1>5 DEF DirsOf

(* What is known of a run that is not new, and of the files.               *)
LEMMA RunFacts ==
  ASSUME Control, NEW p \in Pids, procs[p].at # "free"
  PROVE  /\ ControlType /\ ProcsOk /\ FilesOk /\ procs[p] \in Proc /\ procs[p] # Free
         /\ procs[p].cfg \in Cfgs /\ procs[p].workers \in Workers /\ log[procs[p].cfg] \in LogFile
         /\ p \in Runs(procs[p].cfg)
         /\ OneShell => /\ Started /\ \A c \in Cfgs : DirsOf(c)
                        /\ procs[p].at # "spawned" => pidfile[procs[p].cfg] = p
                        /\ \A q \in Runs(procs[p].cfg) : q = p
<1>1. /\ ControlType /\ ProcsOk /\ FilesOk /\ procs[p] \in Proc /\ procs[p] # Free
      /\ OneShell => Started /\ \A c \in Cfgs : DirsOf(c)
  BY FreeIsNone DEF Control, ControlType, ProcsOk
<1>2. procs[p].cfg \in Cfgs /\ procs[p].workers \in Workers /\ log[procs[p].cfg] \in LogFile
  BY <1>1 DEF ProcsOk, IsRun, FilesOk
<1>3. procs[p].at \in {"spawned", "check", "tlc", "checkpointing"}
  BY <1>1 DEF Proc
<1>4. p \in Runs(procs[p].cfg)
  BY DEF Runs
<1>5. OneShell /\ procs[p].at # "spawned" => pidfile[procs[p].cfg] = p
  BY <1>1, <1>3 DEF Started, RunKnown
<1>6. OneShell => \A q \in Runs(procs[p].cfg) : q = p
  BY <1>1, <1>2, <1>4 DEF Started, OneRunPerConfig
<1> QED
  BY <1>1, <1>2, <1>4, <1>5, <1>6

(* A run writes its pid file.                                              *)
LEMMA RunPidKeeps ==
  ASSUME Control, NEW p \in Pids, RunPid(p)
  PROVE  Control'
<1>1. procs[p].at = "spawned" /\ sh' = sh /\ UNCHANGED <<log, dirs, ckpts, made>>
  BY DEF RunPid
<1>2. PICK c \in Cfgs, m \in Proc :
         /\ c = procs[p].cfg /\ m = [procs[p] EXCEPT !.at = "check"] /\ m.cfg = c /\ m.at = "check"
         /\ m.workers = procs[p].workers
  <2>1. procs[p] \in Proc /\ procs[p].cfg \in Cfgs
    BY <1>1, RunFacts
  <2>2. [procs[p] EXCEPT !.at = "check"] \in Proc
    BY <2>1 DEF Proc
  <2>3. /\ [procs[p] EXCEPT !.at = "check"].cfg = procs[p].cfg /\ [procs[p] EXCEPT !.at = "check"].at = "check"
        /\ [procs[p] EXCEPT !.at = "check"].workers = procs[p].workers
    BY <2>1 DEF Proc
  <2> QED
    BY <2>1, <2>2, <2>3
<1>3. procs' = [procs EXCEPT ![p] = m] /\ pidfile' = [pidfile EXCEPT ![c] = p]
  BY <1>2 DEF RunPid
<1>4. pidfile'[c] = p /\ FilesOk' /\ \A d \in Cfgs \ {c} : pidfile'[d] = pidfile[d]
  BY <1>1, <1>3, RunFacts DEF FilesOk
<1>5. /\ ControlType' /\ (~PidReuse => PidsNamed') /\ (OneShell => Started')
      /\ \A q \in Pids \ {p} : procs'[q] = procs[q]
      /\ procs'[p] = m
  <2>1. procs[p] # Free
    BY <1>1, RunFacts
  <2>2. \A d \in Cfgs : pidfile'[d] = pidfile[d] \/ (d = procs[p].cfg /\ pidfile'[d] = p)
    BY <1>2, <1>4
  <2>3. /\ m.cfg = procs[p].cfg /\ m.at \in {"check", "tlc", "checkpointing"} /\ pidfile'[m.cfg] = p
        /\ m.workers = procs[p].workers
    BY <1>2, <1>4
  <2> QED
    BY <1>1, <1>3, <1>4, <2>1, <2>2, <2>3, RunKeeps
<1>6. ASSUME OneShell, NEW d \in Cfgs
      PROVE  DirsOf(d)'
  <2>1. DirsOf(d)
    BY <1>6 DEF Control
  <2>2. \A q \in Runs(d)' : \/ q \in Runs(d) /\ procs'[q] = procs[q]
                            \/ procs'[q].at = "check"
    BY <1>2, <1>5 DEF Runs
  <2> QED
    BY <1>1, <2>1, <2>2, DirsKept
<1> QED
  BY <1>5, <1>6 DEF Control, OneShell

(* The newest directory is the last one made.                              *)
LEMMA NewestIsLast ==
  ASSUME FilesOk, NEW c \in Cfgs, dirs[c] # {}
  PROVE  newest(dirs[c]) = made[c] /\ made[c] \in Nat
<1>1. made[c] \in dirs[c] /\ made[c] \in Nat /\ \A d \in dirs[c] : d \in Nat /\ d <= made[c]
  BY DEF FilesOk
<1>2. \A x \in dirs[c] : (\A y \in dirs[c] : x >= y) <=> x = made[c]
  BY <1>1
<1>3. Max(dirs[c]) = made[c]
  BY <1>1, <1>2 DEF Max
<1> QED
  BY <1>1, <1>3 DEF newest

(* A new log goes with the last directory.                                 *)
LEMMA checkKeeps ==
  ASSUME Control, NEW p \in Pids, check(p)
  PROVE  Control'
<1>1. procs[p].at = "check" /\ sh' = sh /\ UNCHANGED <<pidfile, ckpts>>
  BY DEF check
<1>2. PICK c \in Cfgs, l \in Proc : c = procs[p].cfg /\ l = procs[p] /\ l.cfg = c
  BY <1>1, RunFacts
<1>3. PICK new \in LogFile : /\ new = [NoLog EXCEPT !.exists = TRUE, !.workers = l.workers]
                             /\ new.chk = 0 /\ ~new.completed /\ new.workers = l.workers
  <2>1. PICK new : new = [NoLog EXCEPT !.exists = TRUE, !.workers = l.workers]
    OBVIOUS
  <2>2. /\ new = [exists |-> TRUE, workers |-> l.workers, result |-> "none", chk |-> 0,
                  completed |-> FALSE]
        /\ l.workers \in Workers \cup {0}
    BY <1>2, <2>1 DEF NoLog, Proc
  <2>3. new \in LogFile /\ new.chk = 0 /\ ~new.completed /\ new.workers = l.workers
    BY <2>2 DEF LogFile
  <2> QED
    BY <2>1, <2>3
<1>4. log' = [log EXCEPT ![c] = new] /\ FilesOk /\ ProcsOk /\ made[c] \in Nat
  BY <1>1, <1>2, <1>3, RunFacts DEF check, FilesOk
<1>5. PICK m \in Proc :
        /\ m.cfg = c /\ m.at = "tlc" /\ procs' = [procs EXCEPT ![p] = m] /\ m.workers = l.workers
        /\ m.recover \/ m.dir = made[c] + 1
        /\ m.dir = made'[c] /\ made'[c] \in dirs'[c] /\ FilesOk'
        /\ made'[c] \in Nat /\ made[c] <= made'[c]
        /\ \A d \in Cfgs \ {c} : dirs'[d] = dirs[d] /\ made'[d] = made[d]
  <2>1. CASE recovers(p)
    <3>1. PICK n : n = newest(dirs[c])
      OBVIOUS
    <3>2. dirs[c] # {} /\ dirs' = dirs /\ made' = made
      BY <1>2, <2>1 DEF check, recovers
    <3>3. procs' = [procs EXCEPT ![p].at = "tlc", ![p].dir = n]
      BY <1>2, <2>1, <3>1 DEF check
    <3>4. n = made[c] /\ n \in Nat /\ made[c] \in dirs[c]
      BY <1>4, <3>1, <3>2, NewestIsLast DEF FilesOk
    <3>5. PICK m : m = [l EXCEPT !.at = "tlc", !.dir = n]
      OBVIOUS
    <3>6. m \in Proc /\ m.cfg = c /\ m.at = "tlc" /\ m.dir = n /\ m.workers = l.workers /\ m.recover
      BY <1>2, <2>1, <3>4, <3>5 DEF Proc, recovers
    <3>7. procs' = [procs EXCEPT ![p] = m]
      BY <1>2, <1>4, <3>3, <3>5 DEF ProcsOk
    <3>8. FilesOk'
      BY <1>1, <1>3, <1>4, <3>2 DEF FilesOk
    <3>9. made'[c] \in Nat /\ made[c] <= made'[c]
      BY <1>4, <3>2
    <3> QED
      BY <3>2, <3>4, <3>6, <3>7, <3>8, <3>9
  <2>2. CASE ~recovers(p)
    <3>1. PICK n : n = made[c] + 1
      OBVIOUS
    <3>2. /\ dirs' = [dirs EXCEPT ![c] = @ \cup {n}] /\ made' = [made EXCEPT ![c] = n] /\ n \in Nat
      BY <1>2, <1>4, <2>2, <3>1 DEF check
    <3>3. procs' = [procs EXCEPT ![p].at = "tlc", ![p].dir = n, ![p].recover = FALSE]
      BY <1>2, <2>2, <3>1 DEF check
    <3>4. PICK m : m = [l EXCEPT !.at = "tlc", !.dir = n, !.recover = FALSE]
      OBVIOUS
    <3>5. m \in Proc /\ m.cfg = c /\ m.at = "tlc" /\ m.dir = n /\ m.workers = l.workers
      BY <1>2, <3>2, <3>4 DEF Proc
    <3>6. procs' = [procs EXCEPT ![p] = m]
      BY <1>2, <1>4, <3>3, <3>4 DEF ProcsOk
    <3>7. made'[c] = n /\ n \in dirs'[c] /\ \A d \in Cfgs \ {c} : dirs'[d] = dirs[d] /\ made'[d] = made[d]
      BY <1>4, <3>2 DEF FilesOk
    <3>8. FilesOk'
      <4>1. \A d \in dirs'[c] : d \in Nat /\ 1 <= d /\ d <= n
        <5>1. \A d \in dirs[c] : d \in Nat /\ 1 <= d /\ d <= made[c]
          BY <1>4 DEF FilesOk
        <5> QED
          BY <1>4, <3>1, <3>2, <5>1 DEF FilesOk
      <4>2. \A d \in Cfgs : /\ dirs'[d] # {} => made'[d] \in dirs'[d]
                            /\ \A e \in dirs'[d] : 1 <= e /\ e <= made'[d]
        BY <1>4, <3>7, <4>1 DEF FilesOk
      <4> QED
        BY <1>1, <1>3, <1>4, <3>2, <4>2 DEF FilesOk
    <3>9. made'[c] \in Nat /\ made[c] <= made'[c] /\ m.dir = made[c] + 1
      BY <1>4, <3>1, <3>2, <3>5, <3>7
    <3> QED
      BY <3>1, <3>5, <3>6, <3>7, <3>8, <3>9
  <2> QED
    BY <2>1, <2>2
<1>6. /\ ControlType' /\ (~PidReuse => PidsNamed') /\ (OneShell => Started')
      /\ \A q \in Pids \ {p} : procs'[q] = procs[q]
      /\ procs'[p] = m
  <2>1. procs[p] # Free /\ (OneShell => pidfile'[c] = p)
    BY <1>1, <1>2, RunFacts
  <2>2. \A d \in Cfgs : pidfile'[d] = pidfile[d]
    BY <1>1
  <2>3. /\ m.cfg = procs[p].cfg /\ m.at \in {"check", "tlc", "checkpointing"} /\ sh' = sh /\ FilesOk'
        /\ m.workers = procs[p].workers
    BY <1>1, <1>2, <1>5
  <2>4. procs' = [procs EXCEPT ![p] = m] /\ (OneShell => pidfile'[m.cfg] = p)
    BY <1>5, <2>1
  <2> QED
    BY <2>1, <2>2, <2>3, <2>4, RunKeeps
<1>7. ASSUME OneShell, NEW d \in Cfgs
      PROVE  DirsOf(d)'
  <2>1. DirsOf(d) /\ \A q \in Runs(c) : q = p
    BY <1>1, <1>2, <1>7, RunFacts
  <2>2. CASE d # c
    <3>1. log'[d] = log[d] /\ \A q \in Runs(d)' : q \in Runs(d) /\ q # p /\ procs'[q] = procs[q]
      BY <1>4, <1>5, <1>6, <2>2 DEF FilesOk, Runs
    <3> QED
      BY <1>1, <1>5, <2>1, <2>2, <3>1, DirsKept
  <2>3. CASE d = c
    <3>1. log'[c] = new /\ ckpts'[c] = ckpts[c] /\ \A k \in ckpts[c] : k.dir \in Nat /\ k.dir <= made[c]
      BY <1>1, <1>4, <2>1, <2>3 DEF FilesOk, DirsOf, Ckpt
    <3>2. \A q \in Runs(c)' : q = p
      BY <1>5, <1>6, <2>1 DEF Runs
    <3>3. 0 \notin dirs'[c]
      BY <1>5 DEF FilesOk
    <3>4. m.recover \/ OwnCkpts(c, procs[p])'
      BY <1>4, <1>5, <1>6, <3>1 DEF OwnCkpts
    <3>5. \A k \in ckpts'[c] : k.dir <= made'[c]
      BY <1>4, <1>5, <3>1
    <3> QED
      BY <1>3, <1>5, <1>6, <2>1, <2>3, <3>1, <3>2, <3>3, <3>4, <3>5 DEF DirsOf, OwnCkpts, Recovers
  <2> QED
    BY <2>2, <2>3
<1> QED
  BY <1>6, <1>7 DEF Control, OneShell

(* TLC announces the checkpoint of its directory.                          *)
LEMMA TlcCheckpointingKeeps ==
  ASSUME Control, NEW p \in Pids, TlcCheckpointing(p)
  PROVE  Control'
<1>1. procs[p].at = "tlc" /\ UNCHANGED <<sh, pidfile, dirs, ckpts, made>>
  BY DEF TlcCheckpointing
<1>2. PICK c \in Cfgs, l \in Proc, n \in LogFile :
         /\ c = procs[p].cfg /\ l = procs[p] /\ l.cfg = c /\ n = log[c]
  BY <1>1, RunFacts
<1>3. FilesOk /\ ProcsOk /\ procs[p] # Free /\ (OneShell => pidfile[c] = p)
  BY <1>1, <1>2, RunFacts
<1>4. PICK m \in Proc : /\ m.cfg = c /\ m.at = "checkpointing" /\ m.dir = l.dir
                        /\ m.workers = l.workers /\ m.recover = l.recover
                        /\ procs' = [procs EXCEPT ![p] = m]
  <2>1. PICK m : m = [l EXCEPT !.at = "checkpointing"]
    OBVIOUS
  <2>2. /\ m \in Proc /\ m.cfg = c /\ m.at = "checkpointing" /\ m.dir = l.dir
        /\ m.workers = l.workers /\ m.recover = l.recover
    BY <1>2, <2>1 DEF Proc
  <2>3. procs' = [procs EXCEPT ![p] = m]
    BY <1>2, <1>3, <2>1 DEF ProcsOk, TlcCheckpointing
  <2> QED
    BY <2>2, <2>3
<1>5. PICK n2 \in LogFile : n2.chk = l.dir /\ n2.completed = n.completed /\ n2.workers = n.workers
                            /\ log' = [log EXCEPT ![c] = n2]
  <2>1. PICK n2 : n2 = [n EXCEPT !.chk = l.dir]
    OBVIOUS
  <2>2. n2 \in LogFile /\ n2.chk = l.dir /\ n2.completed = n.completed /\ n2.workers = n.workers
    BY <1>2, <2>1 DEF LogFile, Proc, Verdicts
  <2>3. log' = [log EXCEPT ![c] = n2]
    BY <1>2, <1>3, <2>1 DEF TlcCheckpointing, FilesOk
  <2> QED
    BY <2>2, <2>3
<1>6. FilesOk'
  BY <1>1, <1>2, <1>3, <1>5 DEF FilesOk, Proc
<1>7. /\ ControlType' /\ (~PidReuse => PidsNamed') /\ (OneShell => Started')
      /\ \A q \in Pids \ {p} : procs'[q] = procs[q]
      /\ procs'[p] = m
  BY <1>1, <1>2, <1>3, <1>4, <1>6, RunKeeps
<1>8. ASSUME OneShell, NEW d \in Cfgs
      PROVE  DirsOf(d)'
  <2>1. DirsOf(d) /\ DirsOf(c) /\ (\A q \in Runs(c) : q = p) /\ p \in Runs(c) /\ NoCfg \notin Cfgs
    BY <1>1, <1>2, <1>8, RunFacts, RunControlAssumption
  <2>2. CASE d # c
    <3>1. log'[d] = log[d] /\ \A q \in Runs(d)' : q \in Runs(d) /\ q # p /\ procs'[q] = procs[q]
      BY <1>3, <1>4, <1>5, <1>7, <2>1, <2>2 DEF FilesOk, Runs
    <3>2. ckpts'[d] = ckpts[d] /\ dirs'[d] = dirs[d] /\ made'[d] = made[d]
      BY <1>1, <1>3, <1>5, <2>2 DEF FilesOk
    <3> QED
      BY <2>1, <3>1, <3>2, DirsKept
  <2>3. CASE d = c
    <3>1. \A q \in Runs(c)' : q = p
      BY <1>4, <1>7, <2>1 DEF Runs
    <3>2. /\ l.dir = made[c] /\ made[c] \in dirs[c] /\ ~n.completed /\ log'[c] = n2
          /\ n.workers = l.workers
      BY <1>1, <1>2, <1>3, <1>5, <2>1 DEF TlcCheckpointing, DirsOf, FilesOk, LogFile
    <3>3. OwnCkpts(c, l)
      <4>1. CASE l.recover
        <5>1. Recovers(c, l.dir, l.workers)
          BY <1>2, <4>1 DEF TlcCheckpointing, TlcWorks
        <5>2. \A k \in ckpts[c] : k.dir = l.dir => k.workers = l.workers
          BY <2>1, <5>1 DEF DirsOf, Recovers
        <5> QED
          BY <5>2 DEF OwnCkpts
      <4>2. CASE ~l.recover
        BY <1>1, <1>2, <2>1, <4>2 DEF DirsOf
      <4> QED
        BY <4>1, <4>2
    <3>4. OwnCkpts(c, procs[p])'
      BY <1>1, <1>4, <1>7, <3>3 DEF OwnCkpts
    <3>5. \A k, j \in ckpts'[c] : k.dir = j.dir => k.workers = j.workers
      BY <1>1, <2>1 DEF DirsOf
    <3>6. \A k \in ckpts'[c] : k.dir <= made'[c]
      BY <1>1, <2>1 DEF DirsOf
    <3> QED
      BY <1>1, <1>4, <1>5, <1>7, <2>3, <3>1, <3>2, <3>4, <3>5, <3>6 DEF DirsOf
  <2> QED
    BY <2>2, <2>3
<1> QED
  BY <1>7, <1>8 DEF Control, OneShell

(* The directory has the checkpoint.                                       *)
LEMMA TlcCheckpointedKeeps ==
  ASSUME Control, NEW p \in Pids, TlcCheckpointed(p)
  PROVE  Control'
<1>1. procs[p].at = "checkpointing" /\ UNCHANGED <<sh, pidfile, dirs, made>>
  BY DEF TlcCheckpointed
<1>2. PICK c \in Cfgs, l \in Proc, n \in LogFile :
         /\ c = procs[p].cfg /\ l = procs[p] /\ l.cfg = c /\ n = log[c]
  BY <1>1, RunFacts
<1>3. FilesOk /\ ProcsOk /\ procs[p] # Free /\ (OneShell => pidfile[c] = p)
  BY <1>1, <1>2, RunFacts
<1>4. PICK m \in Proc : /\ m.cfg = c /\ m.at = "tlc" /\ m.dir = l.dir /\ m.workers = l.workers
                        /\ procs' = [procs EXCEPT ![p] = m]
  <2>1. PICK m : m = [l EXCEPT !.at = "tlc"]
    OBVIOUS
  <2>2. m \in Proc /\ m.cfg = c /\ m.at = "tlc" /\ m.dir = l.dir /\ m.workers = l.workers
    BY <1>2, <2>1 DEF Proc
  <2>3. procs' = [procs EXCEPT ![p] = m]
    BY <1>2, <1>3, <2>1 DEF ProcsOk, TlcCheckpointed
  <2> QED
    BY <2>2, <2>3
<1>k. PICK k \in Ckpt : k = [dir |-> l.dir, workers |-> l.workers]
                        /\ k.dir = l.dir /\ k.workers = l.workers
  <2>1. l.dir \in Nat /\ l.workers \in Workers
    BY <1>1, <1>2, RunFacts DEF Proc
  <2>2. PICK k : k = [dir |-> l.dir, workers |-> l.workers]
    OBVIOUS
  <2>3. k \in Ckpt /\ k.dir = l.dir /\ k.workers = l.workers
    BY <2>1, <2>2 DEF Ckpt
  <2> QED
    BY <2>2, <2>3
<1>n. PICK n2 \in LogFile :
         n2.chk = n.chk /\ n2.workers = n.workers /\ log' = [log EXCEPT ![c] = n2]
  <2>1. PICK n2 : n2 = [n EXCEPT !.completed = TRUE]
    OBVIOUS
  <2>2. n2 \in LogFile /\ n2.chk = n.chk /\ n2.workers = n.workers
    BY <1>2, <2>1 DEF LogFile, Proc, Verdicts
  <2>3. log' = [log EXCEPT ![c] = n2]
    BY <1>2, <1>3, <2>1 DEF TlcCheckpointed, FilesOk
  <2> QED
    BY <2>2, <2>3
<1>5. /\ k.dir = l.dir /\ k.workers = l.workers /\ k = [dir |-> l.dir, workers |-> l.workers]
      /\ n2.chk = n.chk /\ n2.workers = n.workers
      /\ log' = [log EXCEPT ![c] = n2] /\ ckpts' = [ckpts EXCEPT ![c] = @ \cup {k}]
  <2>1. ckpts' = [ckpts EXCEPT ![c] = @ \cup {k}]
    BY <1>2, <1>3, <1>k DEF TlcCheckpointed, FilesOk
  <2> QED
    BY <1>k, <1>n, <2>1
<1>6. FilesOk'
  BY <1>1, <1>2, <1>3, <1>5 DEF FilesOk, Proc
<1>7. /\ ControlType' /\ (~PidReuse => PidsNamed') /\ (OneShell => Started')
      /\ \A q \in Pids \ {p} : procs'[q] = procs[q]
      /\ procs'[p] = m
  BY <1>1, <1>2, <1>3, <1>4, <1>6, RunKeeps
<1>8. ASSUME OneShell, NEW d \in Cfgs
      PROVE  DirsOf(d)'
  <2>1. DirsOf(d) /\ DirsOf(c) /\ (\A q \in Runs(c) : q = p) /\ p \in Runs(c) /\ NoCfg \notin Cfgs
    BY <1>1, <1>2, <1>8, RunFacts, RunControlAssumption
  <2>2. CASE d # c
    <3>1. log'[d] = log[d] /\ \A q \in Runs(d)' : q \in Runs(d) /\ q # p /\ procs'[q] = procs[q]
      BY <1>3, <1>4, <1>5, <1>7, <2>1, <2>2 DEF FilesOk, Runs
    <3>2. ckpts'[d] = ckpts[d] /\ dirs'[d] = dirs[d] /\ made'[d] = made[d]
      BY <1>1, <1>3, <1>5, <2>2 DEF FilesOk
    <3> QED
      BY <2>1, <3>1, <3>2, DirsKept
  <2>3. CASE d = c
    <3>1. \A q \in Runs(c)' : q = p
      BY <1>4, <1>7, <2>1 DEF Runs
    <3>2. /\ l.dir = made[c] /\ made[c] \in dirs[c] /\ n.chk = made[c] /\ log'[c] = n2
          /\ ckpts'[c] = ckpts[c] \cup {k} /\ made[c] # 0 /\ n.workers = l.workers
          /\ OwnCkpts(c, l)
      BY <1>1, <1>2, <1>3, <1>5, <2>1 DEF DirsOf, FilesOk
    <3>3. OwnCkpts(c, l)'
      BY <1>5, <3>2 DEF OwnCkpts
    <3>4. OwnCkpts(c, procs[p])'
      BY <1>4, <1>7, <3>3 DEF OwnCkpts
    <3>5. Recovers(c, n.chk, n.workers)'
      BY <1>5, <3>2 DEF Recovers
    <3>6. \A i, j \in ckpts'[c] : i.dir = j.dir => i.workers = j.workers
      <4>1. \A i \in ckpts[c] : i.dir = k.dir => i.workers = k.workers
        BY <1>5, <3>2 DEF OwnCkpts
      <4> QED
        BY <2>1, <3>2, <4>1 DEF DirsOf
    <3>7. Recovers(c, log[c].chk, log[c].workers)'
      BY <1>5, <3>2, <3>5 DEF Recovers
    <3>8. \A i \in ckpts'[c] : i.dir <= made[c]
      BY <1>3, <1>5, <2>1, <3>2 DEF DirsOf, FilesOk
    <3> QED
      BY <1>1, <1>4, <1>5, <1>7, <2>3, <3>1, <3>2, <3>4, <3>6, <3>7, <3>8 DEF DirsOf
  <2> QED
    BY <2>2, <2>3
<1> QED
  BY <1>7, <1>8 DEF Control, OneShell

(* An attempt with another number of workers spoils a checkpoint that its  *)
(* log does not tell of.                                                   *)
LEMMA TlcSpoilsKeeps ==
  ASSUME Control, NEW p \in Pids, TlcSpoils(p)
  PROVE  Control'
<1>1. procs[p].at = "tlc" /\ ~TlcWorks(p) /\ UNCHANGED <<sh, procs, pidfile, log, dirs, made>>
  BY DEF TlcSpoils
<1>2. PICK c \in Cfgs : c = procs[p].cfg
  BY <1>1, RunFacts
<1>3. /\ ckpts' = [ckpts EXCEPT ![c] = {k \in @ : k.dir # procs[p].dir}]
      /\ ControlType /\ FilesOk /\ (~PidReuse => PidsNamed)
  BY <1>2 DEF TlcSpoils, Control, ControlType
<1>4. /\ ckpts'[c] = {k \in ckpts[c] : k.dir # procs[p].dir}
      /\ \A d \in Cfgs \ {c} : ckpts'[d] = ckpts[d]
  BY <1>3 DEF FilesOk
<1>5. FilesOk'
  <2>1. \A d \in Cfgs : ckpts'[d] \subseteq ckpts[d]
    BY <1>4
  <2>2. ckpts' \in [Cfgs -> SUBSET Ckpt]
    BY <1>3 DEF FilesOk
  <2> QED
    BY <1>1, <1>3, <2>1, <2>2 DEF FilesOk
<1>6. ControlType' /\ (~PidReuse => PidsNamed')
  BY <1>1, <1>3, <1>5 DEF ControlType, ShellsOk, ProcsOk, PidsNamed
<1>7. ASSUME OneShell
      PROVE  Started'
  <2>1. Started
    BY <1>7 DEF Control
  <2>2. \A d : Runs(d)' = Runs(d)
    BY <1>1 DEF Runs
  <2>3. \A q \in Pids : RunKnown(q)' <=> RunKnown(q)
    BY <1>1 DEF RunKnown
  <2> QED
    BY <1>1, <2>1, <2>2, <2>3 DEF Started, OneRunPerConfig
<1>8. ASSUME OneShell, NEW d \in Cfgs
      PROVE  DirsOf(d)'
  <2>1. DirsOf(d) /\ DirsOf(c) /\ p \in Runs(c) /\ \A e : Runs(e)' = Runs(e)
    BY <1>1, <1>2, <1>8, RunFacts DEF Runs
  <2>2. CASE d # c
    BY <1>1, <1>4, <2>1, <2>2, DirsKept
  <2>3. CASE d = c
    <3>1. /\ procs[p].recover /\ ~Recovers(c, procs[p].dir, procs[p].workers)
          /\ procs[p].dir = made[c] /\ log[c].workers = procs[p].workers
      BY <1>1, <1>2, <2>1 DEF TlcWorks, DirsOf
    <3>2. ~(log[c].completed /\ log[c].chk \in dirs[c])
      BY <2>1, <3>1 DEF DirsOf
    <3>3. \A l : OwnCkpts(c, l) => \A k \in ckpts'[c] : k.dir = l.dir => k.workers = l.workers
      BY <1>4 DEF OwnCkpts
    <3>4. \A q \in Runs(c) : OwnCkpts(c, procs[q]) => OwnCkpts(c, procs[q])'
      BY <1>1, <3>3 DEF OwnCkpts
    <3>5. \A k, l \in ckpts'[c] : k.dir = l.dir => k.workers = l.workers
      BY <1>4, <2>1 DEF DirsOf
    <3> QED
      BY <1>1, <1>4, <2>1, <2>3, <3>2, <3>4, <3>5 DEF DirsOf
  <2> QED
    BY <2>2, <2>3
<1> QED
  BY <1>6, <1>7, <1>8 DEF Control, OneShell

(* A run that ends is none.                                                *)
LEMMA TlcEndKeeps ==
  ASSUME Control, NEW p \in Pids, TlcEnd(p)
  PROVE  Control'
<1>1. procs[p].at = "tlc" /\ UNCHANGED <<sh, pidfile, dirs, ckpts, made>>
  BY DEF TlcEnd
<1>2. PICK c \in Cfgs, l \in Proc, n \in LogFile :
         /\ c = procs[p].cfg /\ l = procs[p] /\ l.cfg = c /\ n = log[c]
  BY <1>1, RunFacts
<1>3. FilesOk /\ ProcsOk /\ procs[p] # Free /\ (OneShell => pidfile[c] = p)
  BY <1>1, <1>2, RunFacts
<1>4. PICK m \in Proc : m = Free /\ m.cfg = NoCfg /\ procs' = [procs EXCEPT ![p] = m]
  BY FreeIsNone DEF TlcEnd
<1>5. PICK n2 \in LogFile : /\ n2.chk = n.chk /\ n2.completed = n.completed /\ n2.workers = n.workers
                            /\ log' = [log EXCEPT ![c] = n2]
  <2>1. PICK r \in Verdicts \cup {"ERROR"} : log' = [log EXCEPT ![c].result = r]
    BY <1>2 DEF TlcEnd
  <2>2. PICK n2 : n2 = [n EXCEPT !.result = r]
    OBVIOUS
  <2>3. n2 \in LogFile /\ n2.chk = n.chk /\ n2.completed = n.completed /\ n2.workers = n.workers
    BY <1>2, <2>2 DEF LogFile
  <2>4. log' = [log EXCEPT ![c] = n2]
    BY <1>2, <1>3, <2>1, <2>2 DEF FilesOk
  <2> QED
    BY <2>3, <2>4
<1>6. FilesOk'
  BY <1>1, <1>2, <1>3, <1>5 DEF FilesOk, Proc
<1>7. /\ ControlType' /\ (~PidReuse => PidsNamed') /\ (OneShell => Started')
      /\ \A q \in Pids \ {p} : procs'[q] = procs[q]
      /\ procs'[p] = m
  BY <1>1, <1>2, <1>3, <1>4, <1>6, RunKeeps
<1>8. ASSUME OneShell, NEW d \in Cfgs
      PROVE  DirsOf(d)'
  <2>1. DirsOf(d) /\ DirsOf(c) /\ (\A q \in Runs(c) : q = p) /\ p \in Runs(c) /\ NoCfg \notin Cfgs
    BY <1>1, <1>2, <1>8, RunFacts, RunControlAssumption
  <2>2. CASE d # c
    <3>1. log'[d] = log[d] /\ \A q \in Runs(d)' : q \in Runs(d) /\ q # p /\ procs'[q] = procs[q]
      BY <1>3, <1>4, <1>5, <1>7, <2>1, <2>2 DEF FilesOk, Runs
    <3>2. ckpts'[d] = ckpts[d] /\ dirs'[d] = dirs[d] /\ made'[d] = made[d]
      BY <1>1, <1>3, <1>5, <2>2 DEF FilesOk
    <3> QED
      BY <2>1, <3>1, <3>2, DirsKept
  <2>3. CASE d = c
    <3>1. \A q \in Runs(c)' : q = p
      BY <1>4, <1>7, <2>1 DEF Runs
    <3>2. /\ log'[c].chk = log[c].chk /\ log'[c].completed = log[c].completed
          /\ log'[c].workers = log[c].workers /\ p \notin Runs(c)'
      BY <1>2, <1>3, <1>4, <1>5, <1>7, <2>1 DEF FilesOk, Runs
    <3> QED
      BY <1>1, <1>7, <2>1, <2>3, <3>1, <3>2 DEF DirsOf, OwnCkpts, Recovers
  <2> QED
    BY <2>2, <2>3
<1> QED
  BY <1>7, <1>8 DEF Control, OneShell

(* Nor is one that was killed.                                             *)
LEMMA KilledKeeps ==
  ASSUME Control, NEW p \in Pids, Killed(p)
  PROVE  Control'
<1>1. procs[p].at # "free" /\ UNCHANGED <<sh, pidfile, log, dirs, ckpts, made>>
  <2>1. ProcsOk /\ procs[p].cfg # NoCfg
    BY DEF Killed, Control, ControlType
  <2>2. procs[p].at # "free"
    BY <2>1, FreeIsNone DEF ProcsOk, IsRun
  <2> QED
    BY <2>2 DEF Killed, Death
<1>2. PICK c \in Cfgs, l \in Proc, n \in LogFile :
         /\ c = procs[p].cfg /\ l = procs[p] /\ l.cfg = c /\ n = log[c]
  BY <1>1, RunFacts
<1>3. FilesOk /\ ProcsOk /\ procs[p] # Free
  BY <1>1, <1>2, RunFacts
<1>4. PICK m \in Proc : m = Free /\ m.cfg = NoCfg /\ procs' = [procs EXCEPT ![p] = m]
  BY FreeIsNone DEF Killed
<1>5. log' = log
  BY DEF Killed, Death
<1>6. FilesOk'
  BY <1>1, <1>2, <1>3, <1>5 DEF FilesOk, Proc
<1>7. /\ ControlType' /\ (~PidReuse => PidsNamed') /\ (OneShell => Started')
      /\ \A q \in Pids \ {p} : procs'[q] = procs[q]
      /\ procs'[p] = m
  BY <1>1, <1>2, <1>3, <1>4, <1>6, RunKeeps
<1>8. ASSUME OneShell, NEW d \in Cfgs
      PROVE  DirsOf(d)'
  <2>1. DirsOf(d) /\ DirsOf(c) /\ (\A q \in Runs(c) : q = p) /\ p \in Runs(c) /\ NoCfg \notin Cfgs
    BY <1>1, <1>2, <1>8, RunFacts, RunControlAssumption
  <2>2. CASE d # c
    <3>1. log'[d] = log[d] /\ \A q \in Runs(d)' : q \in Runs(d) /\ q # p /\ procs'[q] = procs[q]
      BY <1>3, <1>4, <1>5, <1>7, <2>1, <2>2 DEF FilesOk, Runs
    <3>2. ckpts'[d] = ckpts[d] /\ dirs'[d] = dirs[d] /\ made'[d] = made[d]
      BY <1>1, <1>3, <1>5, <2>2 DEF FilesOk
    <3> QED
      BY <2>1, <3>1, <3>2, DirsKept
  <2>3. CASE d = c
    <3>1. \A q \in Runs(c)' : q = p
      BY <1>4, <1>7, <2>1 DEF Runs
    <3>2. /\ log'[c].chk = log[c].chk /\ log'[c].completed = log[c].completed
          /\ log'[c].workers = log[c].workers /\ p \notin Runs(c)'
      BY <1>2, <1>3, <1>4, <1>5, <1>7, <2>1 DEF FilesOk, Runs
    <3> QED
      BY <1>1, <1>7, <2>1, <2>3, <3>1, <3>2 DEF DirsOf, OwnCkpts, Recovers
  <2> QED
    BY <2>2, <2>3
<1> QED
  BY <1>7, <1>8 DEF Control, OneShell

(* The new run is the only one of its configuration.                       *)
LEMMA StartSpawnKeeps ==
  ASSUME Control, NEW s \in Shells, StartSpawn(s)
  PROVE  Control'
<1>1. /\ ControlType /\ (~PidReuse => PidsNamed) /\ (OneShell => Started /\ \A c \in Cfgs : DirsOf(c))
      /\ sh[s].pc = "spawn" /\ sh[s].cfg \in Cfgs /\ sh[s] \in ShState /\ sh[s].workers \in Workers
      /\ UNCHANGED <<pidfile, log, dirs, ckpts, made>>
  BY DEF Control, ControlType, ShellsOk, StartSpawn, files
<1>2. PICK p \in NewPids : procs' = [procs EXCEPT ![p] = [cfg |-> sh[s].cfg, at |-> "spawned",
                                                          workers |-> sh[s].workers,
                                                          recover |-> sh[s].recover, dir |-> 0]]
  BY DEF StartSpawn
<1>3. PICK m : m = [cfg |-> sh[s].cfg, at |-> "spawned", workers |-> sh[s].workers,
                    recover |-> sh[s].recover, dir |-> 0]
  OBVIOUS
<1>4. m \in Proc /\ m.cfg = sh[s].cfg /\ m.at = "spawned" /\ IsRun(m)
  BY <1>1, <1>3 DEF Proc, ShState, IsRun
<1>5. PICK new : new = [Done(s) EXCEPT !.pc = "sleep"]
  OBVIOUS
<1>6. new \in ShState /\ new.pc = "sleep" /\ new.cfg = sh[s].cfg /\ new.workers = sh[s].workers
  BY <1>1, <1>5, ShellStates
<1>7. /\ p \in Pids /\ procs[p] = Free
      /\ ~PidReuse => \A c \in Cfgs : pidfile[c] # p
  BY <1>2 DEF NewPids, Unused
<1>8. /\ procs' = [procs EXCEPT ![p] = m] /\ sh' = [sh EXCEPT ![s] = new]
      /\ sh'[s] = new /\ procs'[p] = m /\ \A q \in Pids \ {p} : procs'[q] = procs[q]
  <2>1. procs' = [procs EXCEPT ![p] = m] /\ sh' = [sh EXCEPT ![s] = new]
    BY <1>2, <1>3, <1>5 DEF StartSpawn
  <2> QED
    BY <1>1, <1>7, <2>1 DEF ControlType, ShellsOk, ProcsOk
<1>9. ControlType'
  <2>1. ShellsOk'
    BY <1>1, <1>6, <1>8 DEF ControlType, ShellsOk
  <2>2. ProcsOk'
    BY <1>1, <1>4, <1>7, <1>8 DEF ControlType, ProcsOk
  <2> QED
    BY <1>1, <2>1, <2>2 DEF ControlType, FilesOk
<1>10. ~PidReuse => PidsNamed'
  BY <1>1, <1>7, <1>8 DEF PidsNamed
<1>11. ASSUME OneShell
       PROVE  Started'
  <2>1. Started /\ Runs(sh[s].cfg) = {} /\ \A t \in Shells : t = s
    BY <1>1, <1>11 DEF Started, OneShell
  <2>2. \A c \in Cfgs, q \in Pids : q \in Runs(c)' => q \in Runs(c) \/ (q = p /\ c = sh[s].cfg)
    BY <1>4, <1>8 DEF Runs
  <2>3. OneRunPerConfig'
    <3> SUFFICES ASSUME NEW c \in Cfgs, NEW q \in Pids, NEW r \in Pids, q \in Runs(c)', r \in Runs(c)'
                 PROVE  q = r
      BY DEF OneRunPerConfig, Runs
    <3>1. \A x, y \in Runs(c) : x = y
      BY <2>1 DEF Started, OneRunPerConfig
    <3> QED
      BY <2>1, <2>2, <3>1
  <2>4. ASSUME NEW q \in Pids
        PROVE  RunKnown(q)'
    <3>1. CASE q = p
      BY <1>4, <1>6, <1>8, <2>1, <3>1 DEF RunKnown
    <3>2. CASE q # p
      <4>1. RunKnown(q) /\ procs'[q] = procs[q]
        BY <1>8, <2>1, <3>2 DEF Started
      <4>2. procs[q].at # "spawned"
        BY <1>1, <4>1 DEF RunKnown
      <4> QED
        BY <1>1, <4>1, <4>2 DEF RunKnown
    <3> QED
      BY <3>1, <3>2
  <2>5. \A t \in Shells : sh'[t].pc # "spawn"
    BY <1>6, <1>8, <2>1
  <2> QED
    BY <2>3, <2>4, <2>5 DEF Started
<1>12. ASSUME OneShell, NEW d \in Cfgs
       PROVE  DirsOf(d)'
  <2>1. DirsOf(d)
    BY <1>1, <1>12
  <2>2. \A q \in Runs(d)' : \/ q \in Runs(d) /\ procs'[q] = procs[q]
                            \/ procs'[q].at = "spawned"
    BY <1>4, <1>8 DEF Runs
  <2> QED
    BY <1>1, <2>1, <2>2, DirsKept
<1> QED
  BY <1>9, <1>10, <1>11, <1>12 DEF Control, OneShell

-----------------------------------------------------------------------------
(* The rest *)

(* After a reboot nothing runs; logs may tell of directories that are      *)
(* gone.                                                                   *)
LEMMA RebootKeeps ==
  ASSUME Control, Reboot
  PROVE  Control'
<1>1. ControlType /\ (OneShell => Started /\ \A c \in Cfgs : DirsOf(c))
  BY DEF Control
<1>2. /\ UNCHANGED <<pidfile, log, made>> /\ procs' = [p \in Pids |-> Free]
      /\ sh' = [s \in Shells |-> Idle]
      /\ \/ UNCHANGED <<dirs, ckpts>>
         \/ dirs' = [c \in Cfgs |-> {}] /\ ckpts' = [c \in Cfgs |-> {}]
  BY DEF Reboot, Death
<1>3. /\ \A p \in Pids : procs'[p] = Free
      /\ \A s \in Shells : sh'[s] = Idle
      /\ Idle \in ShState /\ Idle.pc = "idle"
  BY <1>2 DEF Idle, ShState
<1>4. \A c \in Cfgs : Runs(c)' = {}
  BY <1>3, FreeIsNone, RunControlAssumption DEF Runs
<1>5. ShellsOk'
  BY <1>2, <1>3 DEF ShellsOk
<1>6. ProcsOk'
  BY <1>2, <1>3, FreeIsNone DEF ProcsOk
<1>7. FilesOk'
  <2>1. FilesOk
    BY <1>1 DEF ControlType
  <2>2. CASE UNCHANGED <<dirs, ckpts>>
    BY <1>2, <2>1, <2>2 DEF FilesOk
  <2>3. CASE dirs' = [c \in Cfgs |-> {}] /\ ckpts' = [c \in Cfgs |-> {}]
    BY <1>2, <2>1, <2>3 DEF FilesOk
  <2> QED
    BY <1>2, <2>2, <2>3
<1>8. PidsNamed'
  BY <1>3 DEF PidsNamed
<1>9. Started'
  <2>1. OneRunPerConfig'
    BY <1>4 DEF OneRunPerConfig
  <2>2. \A p \in Pids : RunKnown(p)'
    BY <1>3, FreeIsNone DEF RunKnown
  <2>3. \A s \in Shells : sh'[s].pc # "spawn"
    BY <1>3
  <2> QED
    BY <2>1, <2>2, <2>3 DEF Started
<1>10. ASSUME OneShell, NEW c \in Cfgs
       PROVE  DirsOf(c)'
  <2>1. DirsOf(c)
    BY <1>1, <1>10
  <2>2. dirs'[c] = {} \/ (dirs'[c] = dirs[c] /\ ckpts'[c] = ckpts[c])
    BY <1>2
  <2> QED
    BY <1>2, <1>4, <2>1, <2>2 DEF DirsOf, OwnCkpts, Recovers
<1> QED
  BY <1>5, <1>6, <1>7, <1>8, <1>9, <1>10 DEF Control, ControlType, OneShell

(* finish.sh and the test that it waits for only read.                     *)
LEMMA ReadersKeep ==
  ASSUME Control, UNCHANGED <<sh, procs, files>>
  PROVE  Control'
<1>1. UNCHANGED <<sh, procs, pidfile, log, dirs, ckpts, made>>
  BY DEF files
<1>2. ControlType' /\ (~PidReuse => PidsNamed')
  BY <1>1 DEF Control, ControlType, ShellsOk, ProcsOk, FilesOk, PidsNamed
<1>3. OneShell => Started'
  <2>1. \A c : Runs(c)' = Runs(c)
    BY <1>1 DEF Runs
  <2>2. \A p \in Pids : RunKnown(p)' <=> RunKnown(p)
    BY <1>1 DEF RunKnown
  <2> QED
    BY <1>1, <2>1, <2>2 DEF Control, Started, OneRunPerConfig
<1>4. OneShell => \A c \in Cfgs : DirsOf(c)'
  BY <1>1 DEF Control, DirsOf, OwnCkpts, Recovers, Runs
<1> QED
  BY <1>2, <1>3, <1>4 DEF Control, OneShell

(* Nothing was started yet.                                                *)
LEMMA ControlInit == Init => Control
<1> SUFFICES ASSUME Init
             PROVE  Control
  OBVIOUS
<1>1. /\ \A p \in Pids : procs[p] = Free
      /\ \A s \in Shells : sh[s] = Idle
      /\ Idle \in ShState /\ Idle.pc = "idle"
  BY DEF Init, Idle, ShState
<1>2. \A c \in Cfgs : Runs(c) = {}
  BY <1>1, FreeIsNone, RunControlAssumption DEF Runs
<1>3. NoLog \in LogFile /\ NoLog.chk = 0 /\ NoLog.completed = FALSE
  BY DEF NoLog, LogFile, Verdicts
<1>4. ShellsOk
  BY <1>1 DEF Init, ShellsOk
<1>5. ProcsOk
  BY <1>1, FreeIsNone DEF Init, ProcsOk
<1>6. FilesOk
  BY <1>3 DEF Init, FilesOk
<1>7. PidsNamed
  BY <1>1 DEF PidsNamed
<1>8. Started
  <2>1. OneRunPerConfig
    BY <1>2 DEF OneRunPerConfig
  <2>2. \A p \in Pids : RunKnown(p)
    BY <1>1, FreeIsNone DEF RunKnown
  <2> QED
    BY <1>1, <2>1, <2>2 DEF Started
<1>9. \A c \in Cfgs : DirsOf(c)
  BY <1>2, <1>3 DEF Init, DirsOf, OwnCkpts, Recovers
<1> QED
  BY <1>4, <1>5, <1>6, <1>7, <1>8, <1>9 DEF Control, ControlType

(* Every step of the scripts keeps the invariant.                          *)
LEMMA ControlInductive == Control /\ [Next]_vars => Control'
<1> SUFFICES ASSUME Control, [Next]_vars
             PROVE  Control'
  OBVIOUS
<1>1. ASSUME NEW s \in Shells, Shell(s) \/ run_parallel(s) \/ start(s) \/ resume(s)
      PROVE  Control'
  BY <1>1, RunParallelNextKeeps, StartTestKeeps, StartSpawnKeeps, StartSleepKeeps, CommandKeeps DEF Shell
<1>2. ASSUME NEW p \in Pids, Run(p) \/ Killed(p)
      PROVE  Control'
  BY <1>2, RunPidKeeps, checkKeeps, TlcCheckpointingKeeps, TlcCheckpointedKeeps, TlcEndKeeps,
     TlcSpoilsKeeps, KilledKeeps DEF Run
<1>3. CASE finish \/ Finisher \/ MesonEnds
  <2>1. UNCHANGED <<sh, procs, files>>
    BY <1>3 DEF finish, Finisher, FinishPoll, FinishLook, FinishLooked, FinishSummarize, FinishTable, MesonEnds
  <2> QED
    BY <2>1, ReadersKeep
<1>4. CASE UNCHANGED vars
  <2>1. UNCHANGED <<sh, procs, files>>
    BY <1>4 DEF vars, files
  <2> QED
    BY <2>1, ReadersKeep
<1> QED
  BY <1>1, <1>2, <1>3, <1>4, RebootKeeps DEF Next

-----------------------------------------------------------------------------
(* The theorems *)

(* The invariant of the scripts, for every value of the constants.         *)
LEMMA ControlHolds == Spec => []Control
<1>1. Init => Control
  BY ControlInit
<1>2. Control /\ [Next]_vars => Control'
  BY ControlInductive
<1> QED
  BY <1>1, <1>2, PTL DEF Spec

(* From one shell, however often the scripts are started, killed and       *)
(* started again, and whatever pid the system gives a new process, a       *)
(* configuration has one run at a time: the test of start.sh is enough,    *)
(* as the pid file is written while the shell sleeps.                      *)
THEOREM OneRunCorrect == ASSUME OneShell PROVE Spec => []OneRunPerConfig
<1>1. Control => OneRunPerConfig
  BY OneShell DEF Control, Started
<1> QED
  BY <1>1, ControlHolds, PTL

(* From one shell, resume.sh works where status.sh points to it: the       *)
(* newest directory is the last that TLC made, and the log that tells of a *)
(* completed checkpoint is that run's.                                     *)
THEOREM AdviceCorrect == ASSUME OneShell PROVE Spec => []AdviceIsRight
<1>1. ASSUME Control
      PROVE  AdviceIsRight
  <2> SUFFICES ASSUME NEW c \in Cfgs, has_checkpoint(c)
               PROVE  /\ newest(dirs[c]) = log[c].chk
                      /\ \A w \in Workers : Recovers(c, newest(dirs[c]), w) <=> w = log[c].workers
    BY DEF AdviceIsRight
  <2>1. DirsOf(c) /\ FilesOk
    BY <1>1, OneShell DEF Control, ControlType
  <2>2. log[c].chk \in dirs[c] /\ log[c].completed
    BY DEF has_checkpoint
  <2>3. log[c].chk = made[c] /\ Recovers(c, log[c].chk, log[c].workers)
    BY <2>1, <2>2 DEF DirsOf
  <2>4. newest(dirs[c]) = log[c].chk
    BY <2>1, <2>2, <2>3, NewestIsLast
  <2>5. \A w \in Workers : Recovers(c, log[c].chk, w) => w = log[c].workers
    BY <2>1, <2>3 DEF DirsOf, Recovers
  <2> QED
    BY <2>3, <2>4, <2>5
<1> QED
  BY <1>1, ControlHolds, PTL

(* Where no process gets a pid that a pid file still has, a pass of        *)
(* run-parallel.sh leaves no configuration out, from however many shells   *)
(* the scripts are started at once: what it does not start is done or      *)
(* runs.                                                                   *)
THEOREM NoneForgottenCorrect == ASSUME ~PidReuse PROVE Spec => NoneIsForgotten
<1> DEFINE Kept == \A s \in Shells : sh[s].pc # "idle" /\ sh'[s].pc # "idle" =>
                     \A c \in sh[s].todo \ sh'[s].todo :
                        log[c].result \in Verdicts \/ Runs(c)' # {}
<1>1. ASSUME Control, Next
      PROVE  Kept
  <2> SUFFICES ASSUME NEW s \in Shells, sh[s].pc # "idle", sh'[s].pc # "idle",
                      NEW c \in sh[s].todo, c \notin sh'[s].todo
               PROVE  log[c].result \in Verdicts \/ Runs(c)' # {}
    OBVIOUS
  <2>1. ControlType /\ PidsNamed /\ sh \in [Shells -> ShState] /\ sh[s] \in ShState /\ c \in Cfgs
    BY <1>1 DEF Control, ControlType, ShellsOk, ShState
  <2>2. sh'[s] # sh[s]
    OBVIOUS
  <2>3. ASSUME NEW t \in Shells, NEW new, sh' = [sh EXCEPT ![t] = new]
        PROVE  t = s /\ sh'[s] = new
    BY <2>1, <2>2, <2>3
  <2>4. ASSUME NEW t \in Shells, NEW new, Command(t, new)
        PROVE  FALSE
    <3>1. t = s /\ sh[t] = Idle
      BY <2>3, <2>4 DEF Command
    <3> QED
      BY <3>1 DEF Idle
  <2>5. ASSUME NEW t \in Shells, RunParallelNext(t)
        PROVE  log[c].result \in Verdicts
    <3>1. CASE sh' = [sh EXCEPT ![t] = Idle]
      BY <2>3, <3>1 DEF Idle
    <3>2. ASSUME NEW d \in sh[t].todo,
                 sh' = [sh EXCEPT ![t] = IF log[d].result \in Verdicts
                                         THEN [sh[t] EXCEPT !.todo = @ \ {d}]
                                         ELSE [sh[t] EXCEPT !.pc = "test", !.cfg = d]]
          PROVE  log[c].result \in Verdicts
      <4>1. PICK l \in ShState : l = sh[s] /\ c \in l.todo
        BY <2>1
      <4>2. CASE log[d].result \in Verdicts
        <5>1. t = s /\ sh'[s] = [l EXCEPT !.todo = @ \ {d}]
          BY <2>1, <2>2, <3>2, <4>1, <4>2
        <5>2. c = d
          BY <4>1, <5>1 DEF ShState
        <5> QED
          BY <4>2, <5>2
      <4>3. CASE log[d].result \notin Verdicts
        <5>1. t = s /\ sh'[s] = [l EXCEPT !.pc = "test", !.cfg = d]
          BY <2>1, <2>2, <3>2, <4>1, <4>3
        <5>2. c \in sh'[s].todo
          BY <4>1, <5>1 DEF ShState
        <5> QED
          BY <5>2
      <4> QED
        BY <4>2, <4>3
    <3> QED
      BY <2>5, <3>1, <3>2 DEF RunParallelNext
  <2>6. ASSUME NEW t \in Shells, StartTest(t)
        PROVE  Runs(c)' # {}
    <3>1. PICK l \in ShState : l = sh[s] /\ c \in l.todo
      BY <2>1
    <3>2. sh[t].pc = "test" /\ sh[t].cfg \in Cfgs /\ procs' = procs
      BY <2>1, <2>6 DEF StartTest, ControlType, ShellsOk
    <3>3. CASE alive(pidfile[sh[t].cfg])
      <4>1. t = s /\ sh'[s] = [l EXCEPT !.pc = "next", !.todo = @ \ {l.cfg}]
        BY <2>1, <2>2, <2>6, <3>1, <3>3 DEF StartTest, Done
      <4>2. c = l.cfg
        BY <3>1, <4>1 DEF ShState
      <4>3. pidfile[c] \in Pids /\ procs[pidfile[c]] # Free
        BY <2>1, <3>1, <3>3, <4>1, <4>2 DEF alive, ControlType, FilesOk
      <4>4. procs[pidfile[c]].cfg = c
        BY <2>1, <4>3 DEF PidsNamed
      <4> QED
        BY <3>2, <4>3, <4>4 DEF Runs
    <3>4. CASE ~alive(pidfile[sh[t].cfg])
      <4>1. t = s /\ sh'[s] = [l EXCEPT !.pc = "spawn"]
        BY <2>1, <2>2, <2>6, <3>1, <3>4 DEF StartTest
      <4>2. c \in sh'[s].todo
        BY <3>1, <4>1 DEF ShState
      <4> QED
        BY <4>2
    <3> QED
      BY <3>3, <3>4
  <2>7. ASSUME NEW t \in Shells, StartSpawn(t)
        PROVE  Runs(c)' # {}
    <3>1. PICK l \in ShState : l = sh[s] /\ c \in l.todo
      BY <2>1
    <3>2. t = s /\ sh'[s] = [[l EXCEPT !.pc = "next", !.todo = @ \ {l.cfg}] EXCEPT !.pc = "sleep"]
      BY <2>1, <2>2, <2>7, <3>1 DEF StartSpawn, Done
    <3>3. c = l.cfg
      BY <3>1, <3>2 DEF ShState
    <3>4. PICK p \in NewPids : procs' = [procs EXCEPT ![p] = [cfg |-> l.cfg, at |-> "spawned",
                                                              workers |-> l.workers,
                                                              recover |-> l.recover, dir |-> 0]]
      BY <2>7, <3>1, <3>2 DEF StartSpawn
    <3>5. p \in Pids
      BY <3>4 DEF NewPids, Unused
    <3>6. procs'[p].cfg = c
      BY <2>1, <3>3, <3>4, <3>5 DEF ControlType, ProcsOk
    <3> QED
      BY <3>5, <3>6 DEF Runs
  <2>8. ASSUME NEW t \in Shells, StartSleep(t)
        PROVE  FALSE
    <3>1. PICK l \in ShState : l = sh[s] /\ c \in l.todo
      BY <2>1
    <3>2. t = s /\ sh'[s] = [l EXCEPT !.pc = "next"]
      BY <2>1, <2>2, <2>8, <3>1 DEF StartSleep
    <3> QED
      BY <3>1, <3>2 DEF ShState
  <2>9. ~Reboot
    <3> SUFFICES ASSUME Reboot
                 PROVE  FALSE
      OBVIOUS
    <3>1. sh'[s] = Idle
      BY DEF Reboot
    <3> QED
      BY <3>1 DEF Idle
  <2>10. sh' # sh
    BY <2>2
  <2>11. ASSUME NEW p \in Pids, Run(p) \/ Killed(p)
         PROVE  FALSE
    BY <2>10, <2>11 DEF Run, RunPid, check, TlcSpoils, TlcCheckpointing, TlcCheckpointed, TlcEnd, Killed
  <2>12. ~(finish \/ Finisher \/ MesonEnds)
    BY <2>10 DEF finish, Finisher, FinishPoll, FinishLook, FinishLooked, FinishSummarize, FinishTable, MesonEnds
  <2>13. ASSUME NEW t \in Shells, run_parallel(t) \/ start(t) \/ resume(t)
         PROVE  FALSE
    BY <2>4, <2>13 DEF run_parallel, start, resume
  <2> QED
    BY <1>1, <2>5, <2>6, <2>7, <2>8, <2>9, <2>11, <2>12, <2>13 DEF Next, Shell
<1>2. Spec => [][Kept]_vars
  BY <1>1, ControlHolds, PTL DEF Spec
<1> QED
  BY <1>2 DEF NoneIsForgotten

-----------------------------------------------------------------------------
(* finish.sh *)

(* A pid that was looked at in this pass and is alive was found alive.     *)
PollInv ==
    /\ poll \in [pids : SUBSET Pids, left : SUBSET Pids, alive : BOOLEAN]
    /\ \A p \in poll.pids \ poll.left : procs[p] # Free => poll.alive

(* Only start.sh makes a process, of a pid that finish.sh does not have.   *)
LEMMA NobodyReturns ==
  ASSUME ~PidReuse, Control, Next
  PROVE  \A p \in Pids : p \in poll.pids /\ procs'[p] # Free => procs[p] # Free
<1>1. procs \in [Pids -> Proc]
  BY DEF Control, ControlType, ProcsOk
<1>2. ASSUME NEW s \in Shells, StartSpawn(s)
      PROVE  \A p \in Pids : p \in poll.pids => procs'[p] = procs[p]
  <2>1. \A p \in NewPids : p \notin poll.pids
    BY DEF NewPids, Unused
  <2> QED
    BY <1>1, <1>2, <2>1 DEF StartSpawn
<1>3. ASSUME NEW p \in Pids, Run(p)
      PROVE  procs[p] # Free /\ \A q \in Pids \ {p} : procs'[q] = procs[q]
  <2>1. procs[p].at # "free"
    BY <1>3 DEF Run, RunPid, check, TlcSpoils, TlcCheckpointing, TlcCheckpointed, TlcEnd
  <2> QED
    BY <1>1, <1>3, <2>1, FreeIsNone DEF Run, RunPid, check, TlcSpoils, TlcCheckpointing, TlcCheckpointed, TlcEnd
<1>4. ASSUME NEW p \in Pids, Killed(p)
      PROVE  procs'[p] = Free /\ \A q \in Pids \ {p} : procs'[q] = procs[q]
  BY <1>1, <1>4 DEF Killed
<1>5. ASSUME Reboot
      PROVE  \A p \in Pids : procs'[p] = Free
  BY <1>5 DEF Reboot
<1>6. ASSUME NEW s \in Shells,
             run_parallel(s) \/ start(s) \/ resume(s) \/ RunParallelNext(s) \/ StartTest(s) \/ StartSleep(s)
      PROVE  procs' = procs
  BY <1>6 DEF run_parallel, start, resume, Command, RunParallelNext, StartTest, StartSleep
<1>7. ASSUME finish \/ Finisher \/ MesonEnds
      PROVE  procs' = procs
  BY <1>7 DEF finish, Finisher, FinishPoll, FinishLook, FinishLooked, FinishSummarize, FinishTable, MesonEnds
<1> QED
  BY <1>2, <1>3, <1>4, <1>5, <1>6, <1>7 DEF Next, Shell

(* A look finds what is there, and nobody comes back.                      *)
LEMMA PollInductive ==
  ASSUME ~PidReuse, Control, PollInv, [Next]_vars
  PROVE  PollInv'
<1>1. CASE UNCHANGED vars
  BY <1>1 DEF vars, PollInv
<1>2. CASE Next
  <2>1. /\ poll \in [pids : SUBSET Pids, left : SUBSET Pids, alive : BOOLEAN]
        /\ \A p \in Pids : p \in poll.pids /\ procs'[p] # Free => procs[p] # Free
    BY <1>2, NobodyReturns DEF PollInv
  <2>2. CASE poll' = poll
    BY <2>1, <2>2 DEF PollInv
  <2>3. CASE poll' = NoPoll
    BY <2>3 DEF PollInv, NoPoll
  <2>4. CASE FinishPoll
    <3>1. {pidfile[c] : c \in Cfgs} \ {0} \subseteq Pids
      BY DEF Control, ControlType, FilesOk
    <3>2. PICK ps \in SUBSET Pids : poll' = [[NoPoll EXCEPT !.pids = ps] EXCEPT !.left = ps]
      BY <2>4, <3>1 DEF FinishPoll
    <3>3. poll' = [pids |-> ps, left |-> ps, alive |-> FALSE]
      BY <3>2 DEF NoPoll
    <3> QED
      BY <3>3 DEF PollInv
  <2>5. CASE FinishLook
    <3>1. PICK p \in poll.left : poll' = [poll EXCEPT !.left = @ \ {p}, !.alive = @ \/ alive(p)]
      BY <2>5 DEF FinishLook
    <3>2. /\ poll'.pids = poll.pids /\ poll'.left = poll.left \ {p}
          /\ poll'.alive = (poll.alive \/ alive(p))
          /\ poll' \in [pids : SUBSET Pids, left : SUBSET Pids, alive : BOOLEAN]
      BY <2>1, <3>1 DEF alive
    <3>3. procs' = procs /\ p # 0
      BY <2>1, <2>5, RunControlAssumption DEF FinishLook
    <3> QED
      BY <3>2, <3>3 DEF PollInv, alive
  <2>6. FinishPoll \/ FinishLook \/ poll' = poll \/ poll' = NoPoll
    BY <1>2 DEF Next, Shell, Run, Finisher, run_parallel, start, resume, Command, RunParallelNext, StartTest,
       StartSpawn, StartSleep, RunPid, check, TlcSpoils, TlcCheckpointing, TlcCheckpointed, TlcEnd, finish,
       FinishLooked, FinishSummarize, FinishTable, MesonEnds, Killed, Death, Reboot, fins
  <2> QED
    BY <2>2, <2>3, <2>4, <2>5, <2>6
<1> QED
  BY <1>1, <1>2

(* Where no process gets a pid that finish.sh has in mind, every run that  *)
(* it found in the pid files is over when it goes on to the results, for   *)
(* any number of configurations, whatever starts and dies between its      *)
(* looks at one pid and the next.                                          *)
THEOREM FinishWaitsCorrect == ASSUME ~PidReuse PROVE Spec => FinishWaits
<1> DEFINE Waits == fin = "look" /\ fin' = "summarize" => \A p \in poll.pids : ~alive(p)
<1>1. Init => PollInv
  BY DEF Init, PollInv, NoPoll
<1>2. Control /\ PollInv /\ [Next]_vars => PollInv'
  BY PollInductive
<1>3. PollInv /\ Next => Waits
  <2> SUFFICES ASSUME PollInv, Next, fin = "look", fin' = "summarize"
               PROVE  \A p \in poll.pids : ~alive(p)
    OBVIOUS
  <2>1. FinishLooked
    BY DEF Next, Shell, Run, Finisher, run_parallel, start, resume, Command, RunParallelNext, StartTest,
       StartSpawn, StartSleep, RunPid, check, TlcSpoils, TlcCheckpointing, TlcCheckpointed, TlcEnd, finish,
       FinishPoll, FinishLook, FinishSummarize, FinishTable, MesonEnds, Killed, Death, Reboot, fins
  <2>2. poll.left = {} /\ ~poll.alive
    BY <2>1 DEF FinishLooked, PollInv
  <2> QED
    BY <2>2 DEF PollInv, alive
<1>4. Spec => []PollInv
  BY <1>1, <1>2, ControlHolds, PTL DEF Spec
<1>5. Spec => [][Waits]_vars
  BY <1>3, <1>4, PTL DEF Spec
<1> QED
  BY <1>5 DEF FinishWaits
=============================================================================
