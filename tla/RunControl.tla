----------------------------- MODULE RunControl -----------------------------
(***************************************************************************)
(* The scripts that run the checks of a model directory (here the fiber    *)
(* model's): run-parallel.sh, start.sh, resume.sh and check.sh start TLC   *)
(* detached, one run per configuration, and leave a pid file and a log;    *)
(* status.sh and summarize.sh read these; finish.sh waits for all runs and *)
(* writes the results.  Runs are killed, TLC fails, the machine reboots.   *)
(* A log is what the scripts grep for in it.                               *)
(***************************************************************************)
EXTENDS Integers, FiniteSetsExt

CONSTANTS
    Cfgs,           \* configurations
    Shells,         \* shells in which the scripts are started by hand
    Pids,           \* process ids, positive
    Workers,        \* numbers of TLC workers that a run is started with, the
                    \* scripts' default among them
    MaxCmds,        \* bound: scripts started by hand
    MaxDeaths,      \* bound: runs killed, and reboots
    MaxFinish,      \* bound: times that finish.sh is started
    PidReuse        \* may a new process get a pid that is in a pid file?

NoCfg == "-"

ASSUME RunControlAssumption ==
    /\ NoCfg \notin Cfgs
    /\ Pids \subseteq Nat \ {0}
    /\ Workers \subseteq Nat \ {0}
    /\ {MaxCmds, MaxDeaths, MaxFinish} \subseteq Nat
    /\ PidReuse \in BOOLEAN

VARIABLES
    sh,         \* what each shell does, for which configurations
    procs,      \* the processes
    pidfile,    \* logs/<cfg>.pid, 0: none
    log,        \* logs/<cfg>.log
    dirs,       \* TLC's directories in the metadir, numbered as they are made
    ckpts,      \* the checkpoints in them that can be read, with their workers
    fin,        \* where finish.sh is
    poll,       \* the pass of its loop: the pids, those left, is one alive?
    results,    \* RESULTS.txt
    readme,     \* the table in README.md, or the marker in its place
    meson,      \* does the test that finish.sh also waits for run?
    cmds, deaths, finishes, made    \* counters for the bounds, and for dirs

vars == <<sh, procs, pidfile, log, dirs, ckpts, fin, poll, results, readme, meson,
          cmds, deaths, finishes, made>>

files == <<pidfile, log, dirs, ckpts, made>>
fins  == <<fin, poll, results, readme, meson, finishes>>

Free    == [cfg |-> NoCfg, at |-> "free", workers |-> 0, recover |-> FALSE, dir |-> 0]
NoLog   == [exists |-> FALSE, workers |-> 0, result |-> "none", chk |-> 0, completed |-> FALSE]
NoPoll  == [pids |-> {}, left |-> {}, alive |-> FALSE]
Verdicts == {"pass", "violation"}

(* kill -0                                                                 *)
alive(p) == p # 0 /\ procs[p] # Free

(* The pid of a new process.  Without reuse, pids are just names: it is    *)
(* the first that no process and no pid file has, nor finish.sh in mind.   *)
Unused  == {p \in Pids \ poll.pids : procs[p] = Free /\ \A c \in Cfgs : pidfile[c] # p}
NewPids == IF PidReuse THEN {p \in Pids : procs[p] = Free}
                       ELSE {p \in Unused : \A q \in Unused : p <= q}

Runs(c) == {p \in Pids : procs[p].cfg = c}

-----------------------------------------------------------------------------
(* status.sh and summarize.sh *)

state(c) ==
    IF ~log[c].exists THEN "never"
    ELSE IF log[c].result # "none" THEN log[c].result
    ELSE IF alive(pidfile[c]) THEN "running" ELSE "dead"

(* Of a dead run: does status.sh point to ./resume.sh?                     *)
has_checkpoint(c) == log[c].chk # 0 /\ log[c].completed /\ log[c].chk \in dirs[c]

summary == [c \in {d \in Cfgs : log[d].exists} |-> state(c)]

-----------------------------------------------------------------------------
(* run-parallel.sh and start.sh *)

Idle == [pc |-> "idle", todo |-> {}, cfg |-> NoCfg, workers |-> 0, recover |-> FALSE]

Command(s, new) ==
    /\ sh[s] = Idle /\ cmds < MaxCmds
    /\ cmds' = cmds + 1
    /\ sh' = [sh EXCEPT ![s] = new]
    /\ UNCHANGED <<procs, files, fins, deaths>>

run_parallel(s) ==
    \E w \in Workers : Command(s, [Idle EXCEPT !.pc = "next", !.todo = Cfgs, !.workers = w])

start(s) ==
    \E c \in Cfgs, w \in Workers :
        Command(s, [Idle EXCEPT !.pc = "test", !.cfg = c, !.workers = w])

resume(s) ==
    \E c \in Cfgs, w \in Workers :
        Command(s, [Idle EXCEPT !.pc = "test", !.cfg = c, !.workers = w, !.recover = TRUE])

(* The loop of run-parallel.sh: the next configuration is skipped if its   *)
(* log has a verdict, or goes to start.sh.                                 *)
RunParallelNext(s) ==
    /\ sh[s].pc = "next"
    /\ \/ /\ sh[s].todo = {}
          /\ sh' = [sh EXCEPT ![s] = Idle]
       \/ \E c \in sh[s].todo :
            sh' = [sh EXCEPT ![s] =
                     IF log[c].result \in Verdicts
                     THEN [sh[s] EXCEPT !.todo = @ \ {c}]
                     ELSE [sh[s] EXCEPT !.pc = "test", !.cfg = c]]
    /\ UNCHANGED <<procs, files, fins, cmds, deaths>>

Done(s) == [sh[s] EXCEPT !.pc = "next", !.todo = @ \ {sh[s].cfg}]

(* Mutant: a pid file is taken for a run.                                  *)
StartTest_PidFileOnly(s) ==
    /\ sh[s].pc = "test"
    /\ sh' = [sh EXCEPT ![s] = IF pidfile[sh[s].cfg] # 0 THEN Done(s)
                               ELSE [@ EXCEPT !.pc = "spawn"]]
    /\ UNCHANGED <<procs, files, fins, cmds, deaths>>

(* Mutant: start.sh without the test.                                      *)
StartTest_None(s) ==
    /\ sh[s].pc = "test"
    /\ sh' = [sh EXCEPT ![s].pc = "spawn"]
    /\ UNCHANGED <<procs, files, fins, cmds, deaths>>

(* Is it running already?                                                  *)
StartTest(s) ==
    /\ sh[s].pc = "test"
    /\ sh' = [sh EXCEPT ![s] = IF alive(pidfile[sh[s].cfg]) THEN Done(s)
                               ELSE [@ EXCEPT !.pc = "spawn"]]
    /\ UNCHANGED <<procs, files, fins, cmds, deaths>>

StartSpawn(s) ==
    /\ sh[s].pc = "spawn"
    /\ \E p \in NewPids :
         procs' = [procs EXCEPT ![p] = [cfg |-> sh[s].cfg, at |-> "spawned",
                                        workers |-> sh[s].workers,
                                        recover |-> sh[s].recover, dir |-> 0]]
    /\ sh' = [sh EXCEPT ![s] = [Done(s) EXCEPT !.pc = "sleep"]]
    /\ UNCHANGED <<files, fins, cmds, deaths>>

(* A second is taken to be enough for the child to write its pid file.     *)
StartSleep(s) ==
    /\ sh[s].pc = "sleep"
    /\ \A p \in Runs(sh[s].cfg) : procs[p].at # "spawned"
    /\ sh' = [sh EXCEPT ![s].pc = "next"]
    /\ UNCHANGED <<procs, files, fins, cmds, deaths>>

Shell(s) == RunParallelNext(s) \/ StartTest(s) \/ StartSpawn(s) \/ StartSleep(s)

-----------------------------------------------------------------------------
(* The detached run *)

RunPid(p) ==
    /\ procs[p].at = "spawned"
    /\ pidfile' = [pidfile EXCEPT ![procs[p].cfg] = p]
    /\ procs' = [procs EXCEPT ![p].at = "check"]
    /\ UNCHANGED <<sh, log, dirs, ckpts, made, fins, cmds, deaths>>

recovers(p) == procs[p].recover /\ dirs[procs[p].cfg] # {}

newest(S) == IF S = {} THEN 0 ELSE Max(S)

(* Mutant: the log is appended to (tee -a).                                *)
check_Appends(p) ==
    LET c == procs[p].cfg IN
    /\ procs[p].at = "check"
    /\ log' = [log EXCEPT ![c].exists = TRUE, ![c].result = "none",
                          ![c].workers = procs[p].workers]
    /\ IF recovers(p)
       THEN /\ procs' = [procs EXCEPT ![p].at = "tlc", ![p].dir = newest(dirs[c])]
            /\ UNCHANGED <<dirs, made>>
       ELSE /\ procs' = [procs EXCEPT ![p].at = "tlc", ![p].dir = made[c] + 1,
                                      ![p].recover = FALSE]
            /\ dirs' = [dirs EXCEPT ![c] = @ \cup {made[c] + 1}]
            /\ made' = [made EXCEPT ![c] = @ + 1]
    /\ UNCHANGED <<sh, pidfile, ckpts, fins, cmds, deaths>>

(* check.sh: the log begins anew, and TLC says in it how many workers it   *)
(* has; it continues in the newest directory or makes one.                 *)
check(p) ==
    LET c == procs[p].cfg IN
    /\ procs[p].at = "check"
    /\ log' = [log EXCEPT ![c] = [NoLog EXCEPT !.exists = TRUE, !.workers = procs[p].workers]]
    /\ IF recovers(p)
       THEN /\ procs' = [procs EXCEPT ![p].at = "tlc", ![p].dir = newest(dirs[c])]
            /\ UNCHANGED <<dirs, made>>
       ELSE /\ procs' = [procs EXCEPT ![p].at = "tlc", ![p].dir = made[c] + 1,
                                      ![p].recover = FALSE]
            /\ dirs' = [dirs EXCEPT ![c] = @ \cup {made[c] + 1}]
            /\ made' = [made EXCEPT ![c] = @ + 1]
    /\ UNCHANGED <<sh, pidfile, ckpts, fins, cmds, deaths>>

(* TLC, as far as the scripts look at it.  It recovers from a directory    *)
(* with a checkpoint, if it has as many workers as the run that made that. *)
Recovers(c, d, w) == [dir |-> d, workers |-> w] \in ckpts[c]

TlcWorks(p) ==
    procs[p].recover => Recovers(procs[p].cfg, procs[p].dir, procs[p].workers)

(* An attempt with another number may leave the checkpoint unreadable.     *)
TlcSpoils(p) ==
    /\ procs[p].at = "tlc" /\ ~TlcWorks(p)
    /\ ckpts' = [ckpts EXCEPT ![procs[p].cfg] = {k \in @ : k.dir # procs[p].dir}]
    /\ UNCHANGED <<sh, procs, pidfile, log, dirs, made, fins, cmds, deaths>>

(* A checkpoint is announced, then complete; later ones of the run change  *)
(* nothing here.                                                           *)
TlcCheckpointing(p) ==
    LET c == procs[p].cfg IN
    /\ procs[p].at = "tlc" /\ TlcWorks(p) /\ log[c].chk = 0
    /\ log' = [log EXCEPT ![c].chk = procs[p].dir]
    /\ procs' = [procs EXCEPT ![p].at = "checkpointing"]
    /\ UNCHANGED <<sh, pidfile, dirs, ckpts, made, fins, cmds, deaths>>

TlcCheckpointed(p) ==
    LET c == procs[p].cfg IN
    /\ procs[p].at = "checkpointing"
    /\ log' = [log EXCEPT ![c].completed = TRUE]
    /\ ckpts' = [ckpts EXCEPT ![c] = @ \cup {[dir |-> procs[p].dir, workers |-> procs[p].workers]}]
    /\ procs' = [procs EXCEPT ![p].at = "tlc"]
    /\ UNCHANGED <<sh, pidfile, dirs, made, fins, cmds, deaths>>

(* It ends with a verdict or an error.                                     *)
TlcEnd(p) ==
    LET c == procs[p].cfg IN
    /\ procs[p].at = "tlc"
    /\ \E r \in (IF TlcWorks(p) THEN Verdicts ELSE {}) \cup {"ERROR"} :
         log' = [log EXCEPT ![c].result = r]
    /\ procs' = [procs EXCEPT ![p] = Free]
    /\ UNCHANGED <<sh, pidfile, dirs, ckpts, made, fins, cmds, deaths>>

Run(p) ==
    \/ RunPid(p) \/ check(p) \/ TlcSpoils(p)
    \/ TlcCheckpointing(p) \/ TlcCheckpointed(p) \/ TlcEnd(p)

-----------------------------------------------------------------------------
(* finish.sh *)

finish ==
    /\ fin \in {"idle", "done"} /\ finishes < MaxFinish
    /\ fin' = "poll"
    /\ finishes' = finishes + 1
    /\ UNCHANGED <<sh, procs, files, poll, results, readme, meson, cmds, deaths>>

(* A pass of the loop: the pid files are read, then each pid is looked at. *)
FinishPoll ==
    /\ fin = "poll"
    /\ poll' = LET ps == {pidfile[c] : c \in Cfgs} \ {0} IN [NoPoll EXCEPT !.pids = ps, !.left = ps]
    /\ fin' = "look"
    /\ UNCHANGED <<sh, procs, files, results, readme, meson, finishes, cmds, deaths>>

(* Mutant: the pids come through a pipe, so that alive is set in a subshell*)
(* and lost.                                                               *)
FinishLook_Subshell ==
    /\ fin = "look"
    /\ \E p \in poll.left : poll' = [poll EXCEPT !.left = @ \ {p}]
    /\ UNCHANGED <<sh, procs, files, fin, results, readme, meson, finishes, cmds, deaths>>

FinishLook ==
    /\ fin = "look"
    /\ \E p \in poll.left : poll' = [poll EXCEPT !.left = @ \ {p}, !.alive = @ \/ alive(p)]
    /\ UNCHANGED <<sh, procs, files, fin, results, readme, meson, finishes, cmds, deaths>>

(* Mutant: the loop waits for the pid files to go.                         *)
FinishLooked_PidFiles ==
    /\ fin = "look" /\ poll.left = {}
    /\ fin' = IF poll.pids # {} \/ meson THEN "poll" ELSE "summarize"
    /\ poll' = NoPoll
    /\ UNCHANGED <<sh, procs, files, results, readme, meson, finishes, cmds, deaths>>

(* The test of the fixed tree is looked at last; the next pass comes after *)
(* a sleep.                                                                *)
FinishLooked ==
    /\ fin = "look" /\ poll.left = {}
    /\ fin' = IF poll.alive \/ meson THEN "poll" ELSE "summarize"
    /\ poll' = NoPoll
    /\ UNCHANGED <<sh, procs, files, results, readme, meson, finishes, cmds, deaths>>

FinishSummarize ==
    /\ fin = "summarize"
    /\ results' = summary
    /\ fin' = "table"
    /\ UNCHANGED <<sh, procs, files, poll, readme, meson, finishes, cmds, deaths>>

(* Only a README that has the marker goes through fill-results.py.         *)
FinishTable ==
    /\ fin = "table"
    /\ readme' = IF readme.marker THEN [marker |-> FALSE, table |-> results] ELSE readme
    /\ fin' = "done"
    /\ UNCHANGED <<sh, procs, files, poll, results, meson, finishes, cmds, deaths>>

MesonEnds ==
    /\ meson
    /\ meson' = FALSE
    /\ UNCHANGED <<sh, procs, files, fin, poll, results, readme, finishes, cmds, deaths>>

Finisher == FinishPoll \/ FinishLook \/ FinishLooked \/ FinishSummarize \/ FinishTable

-----------------------------------------------------------------------------
(* The environment *)

Death ==
    /\ deaths < MaxDeaths
    /\ deaths' = deaths + 1
    /\ UNCHANGED <<pidfile, log, made, results, readme, finishes, cmds>>

Killed(p) ==
    /\ procs[p].cfg # NoCfg
    /\ Death
    /\ procs' = [procs EXCEPT ![p] = Free]
    /\ UNCHANGED <<sh, dirs, ckpts, fin, poll, meson>>

(* Nothing runs any more, and the metadir in /tmp may be empty.            *)
Reboot ==
    /\ Death
    /\ procs' = [p \in Pids |-> Free]
    /\ sh' = [s \in Shells |-> Idle]
    /\ fin' = IF fin = "done" THEN "done" ELSE "idle"
    /\ poll' = NoPoll
    /\ meson' = FALSE
    /\ \/ UNCHANGED <<dirs, ckpts>>
       \/ /\ dirs'  = [c \in Cfgs |-> {}]
          /\ ckpts' = [c \in Cfgs |-> {}]

-----------------------------------------------------------------------------
(* The specification *)

Init ==
    /\ sh = [s \in Shells |-> Idle]
    /\ procs = [p \in Pids |-> Free]
    /\ pidfile = [c \in Cfgs |-> 0]
    /\ log = [c \in Cfgs |-> NoLog]
    /\ dirs = [c \in Cfgs |-> {}]
    /\ ckpts = [c \in Cfgs |-> {}]
    /\ made = [c \in Cfgs |-> 0]
    /\ fin = "idle"
    /\ poll = NoPoll
    /\ results = [c \in {} |-> "none"]
    /\ readme = [marker |-> TRUE, table |-> results]
    /\ meson \in BOOLEAN
    /\ cmds = 0 /\ deaths = 0 /\ finishes = 0

Next ==
    \/ \E s \in Shells : Shell(s) \/ run_parallel(s) \/ start(s) \/ resume(s)
    \/ \E p \in Pids : Run(p) \/ Killed(p)
    \/ finish \/ Finisher \/ MesonEnds
    \/ Reboot

(* The scheduler lets every process go on, TLC ends, and so does the test. *)
Fairness ==
    /\ \A s \in Shells : WF_vars(Shell(s))
    /\ \A p \in Pids : WF_vars(Run(p))
    /\ WF_vars(Finisher) /\ WF_vars(MesonEnds)

Spec == Init /\ [][Next]_vars /\ Fairness

-----------------------------------------------------------------------------
(* Properties *)

(* However often the scripts are started, killed and started again from    *)
(* one shell, a configuration has one run at a time: two would write the   *)
(* same log.                                                               *)
OneRunPerConfig == \A c \in Cfgs : \A p, q \in Runs(c) : p = q

(* A pass of run-parallel.sh leaves no configuration out: it is done, or   *)
(* there is a run.  "the script can be re-run after a crash or a reboot to *)
(* pick up what is missing".                                               *)
NoneIsForgotten ==
    [][\A s \in Shells : sh[s].pc # "idle" /\ sh'[s].pc # "idle" =>
         \A c \in sh[s].todo \ sh'[s].todo :
            log[c].result \in Verdicts \/ Runs(c)' # {}]_vars

(* finish.sh ends, however many runs died on the way; a reboot kills it.   *)
FinishEnds == fin = "poll" ~> fin \in {"done", "idle"}

(* Where finish.sh goes on to the results, every run that it found in a pid*)
(* file when it last read them is over, also those that it looked at first,*)
(* whatever was started and has died meanwhile.                            *)
FinishWaits ==
    [][fin = "look" /\ fin' = "summarize" => \A p \in poll.pids : ~alive(p)]_vars

(* When status.sh points to resume.sh for a dead run, the directory that   *)
(* check.sh takes has the checkpoint that the log tells of, whatever was   *)
(* started, killed and resumed before; and resuming works with the number  *)
(* of workers that TLC names in that log, and with no other.  The command  *)
(* that is printed has no number, which means 8: it works just for the     *)
(* runs that were started with 8.                                          *)
AdviceIsRight ==
    \A c \in Cfgs : state(c) = "dead" /\ has_checkpoint(c) =>
        /\ newest(dirs[c]) = log[c].chk
        /\ \A w \in Workers : Recovers(c, newest(dirs[c]), w) <=> w = log[c].workers

=============================================================================
