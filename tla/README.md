# Verification of the mntput() protocol and of the tools around it

This directory holds TLA+ modules, TLC configurations and TLAPS proofs for the
programs of this repository. The repository is itself a collection of formal
models of kernel and systemd code. Most of its 1117 files are specifications,
configurations and recorded traces. What it has in the way of *programs* is

* a C rendering of the reference counting protocol of `struct mount`
  (`kernel/work.mount.gp_on_demand.proposal/cbmc/mntput_harness.c`), a second one
  cut into memory model scenarios (`.../dat3m/mnt_gp.c`), and
* Python and shell programs that run checkers, convert kernel traces and tabulate
  results.

The C code carries the logic that is hard to get right, so it comes first.

## Inventory

### The mntput() protocol (cbmc/mntput_harness.c)

State: per mount two arrays of per-CPU counters (`mnt_gets`, `mnt_puts`), flags, a
namespace pointer `mnt_ns` and the parent and hash linkage; globally the seqlock
`mount_lock`; per task an RCU read section flag and a list of task work; ghosts
that record who has references and what happened to each mount.

Operations: `mntget()`, `mntput()` with a fast path (no lock while `mnt_ns` is set)
and a slow path (under `mount_lock`, sums all counters), `__legitimize_mnt()` which
turns an uncounted RCU pointer into a reference, `do_umount()` (synchronous and
lazy), `kern_unmount_array()`, `mntput_unmounted()` which gets rid of a batch,
`cleanup_mnt()` and the RCU callback that frees.

Interaction: everything goes through shared memory. A umounter, a holder and a path
walker run at the same time. The holder's counting is not covered by any lock. The
umounter relies on the fact that, once it cleared `mnt_ns` and a grace period
passed, no fast put is in flight.

Hard: sums over counters that change while they are read; `mnt_ns` read without a
lock and used later; grace periods waited for in the wrong place; four ways into
cleanup; early returns that leave locks and read sections by hand.

Correct means: the mount is doomed exactly when the last reference is gone, cleaned
up once, freed once and only when nobody can reach it; a successful `umount(2)` has
really shut the file system down; and an unmounted mount is never leaked.

### The barriers (dat3m/mnt_gp.c)

State: one mount, the same lock and counters, two threads. The file exists to check
the barriers under the kernel's memory model, so what matters is when a store of one
thread becomes visible to the other. Correct means that the eight assertions of
`main()` that are meant to hold do hold (`SCEN_A0` is meant to fail), and that each
barrier is needed.

### Run control (systemd/fiber/tla/*.sh)

State: a pid file and a log per configuration, TLC's directories with checkpoints in
`/tmp`, `RESULTS.txt`, `README.md`. Operations: `run-parallel.sh`, `start.sh`,
`resume.sh`, `check.sh` (the detached run), `status.sh`, `summarize.sh`,
`finish.sh`. The scripts communicate only through those files and `kill -0`.

Hard: runs die and the machine reboots between any two steps, pid files go stale,
logs begin anew, several scripts run at a time, and TLC recovers from a checkpoint only
with as many workers as made it. Correct means one run per configuration, nothing left
out by a pass, a finisher that waits for the runs it finds and ends, and status output
that says for whom it is true.

### CBMC driver (cbmc/run.py, cbmc/measure.py)

State: a thread pool of jobs, one goto file per configuration, a log per job,
`results.md`. It starts solvers under memory and time limits and turns their output
into a verdict. Hard: limits that hit between lines of output and kill the solver, the
measuring process or both; properties that the solver leaves undecided; two jobs that
share `results/<name>.goto` when both memory models run with more than one worker, or
all of their files when a name is given twice; an exception in one job that keeps
`ex.map` from delivering the results after it. Correct means: a verdict is one of a run
that was not killed, right about what that run reported and about the program that it
names; rows are in order; the driver ends.

### Trace conversion (trace/trace2ndjson.py)

A fold over the events of one mount with a ledger per pid, whose result is a trace of
model tasks. Hard: references that predate the trace, several walks by one pid, puts
that can only be matched by order, references that one pid takes and another puts, what
may be pruned, a trace that is cut off anywhere. Correct means that replaying the
converted trace gives the counts that the kernel recorded wherever the ledgers can
express it, and that every event has the task that can have done it.

### Litmus tests (litmus/gen-asm.py)

Fifteen tests as programs of abstract operations, which are translated to AArch64 and
POWER assembly. Hard: the translation of locks and barriers, which no test of the
generator looks at and which decides what herd7 says. Correct means that the
translated program has no execution that the test says cannot happen, and that a
critical section is one.

### VM and fd store probes (vm-run-tests.py, vm-probe.py, probe-fdstore-root.py)

State: a VM per run, a journal file per directory, a process group that is killed on
timeout; in the guest a namespace with references in several places, a registry entry
and the fd store of PID 1. Hard: VMs that hang, ignore signals or outlive their run,
journals left by others, references that live on in a socket or a child, a service that
dies in the middle of a request. Correct means that a run ends
with its own results, and that what the probe prints answers its question.

### Generators and result tables (gen-cfgs.py, summarize.sh, fill-results.py)

State: the table in the program, the configurations and modules in the directory,
logs, a summary, a README with a table in it. Hard: everything is started by hand and
may overlap or be interrupted; files of older tables; dictionaries of overrides and
defaults that are kept in several places and that nothing compares with the models.
Correct means that the directory becomes the table, that a configuration is what its
name says and is accepted by the model, that verdicts belong to one table, and that the
README keeps its text.

### The rest

The `show-*.py` programs print. `run-batch.sh`, `dat3m/run.sh` and the litmus runners
are loops. The TLA+ specifications of the repository are documentation here and nothing
is translated from them; only what their modules declare and assume of constants is
used, to say which configurations they accept.

## Modules

| Module | Models | Role |
|---|---|---|
| `MountPut` | `cbmc/mntput_harness.c` | the protocol, sequentially consistent |
| `MountLife` | - | abstract specification: the life of a mount |
| `MountPutRefinement` | - | `MountPut` implements `MountLife` |
| `MountPutProofs` | - | theorems about `MountPut`: types, the lock, read sections; which reference every task has at every line, and `mnt_get_count()` against them |
| `MountPutSafety` | - | doom, cleanup and free, what a synchronous umount leaves behind, and that the steps of `MountPut` are steps of `MountLife` |
| `MountBarriers` | `dat3m/mnt_gp.c` | the protocol's barriers, with store buffers |
| `MountBarriersProofs` | - | theorems about `MountBarriers` |
| `RunControl` | `systemd/fiber/tla/*.sh` | starting, resuming and collecting runs |
| `RunControlProofs` | - | theorems about `RunControl` |
| `CbmcRun` | `cbmc/run.py`, `cbmc/measure.py` | jobs, limits and verdicts |
| `CbmcRunProofs` | - | theorems about `CbmcRun` |
| `TraceLedger` | `trace/trace2ndjson.py` | a small kernel, and the conversion of what it records |
| `LitmusAsm` | `litmus/gen-asm.py` | the tests, their translation, a machine that runs it |
| `FdProbe` | `nsresourced/tla/probe-fdstore-root.py` | the probe, its child, the service and PID 1 |
| `VmRuns` | `executor/tla/vm-run-tests.py`, `nsresourced/tla/vm-probe.py` | several runs with their VMs; extends `FdProbe`, which runs in one of them |
| `VmRunsProofs` | - | theorems about `VmRuns` and `FdProbe` |
| `PyDict` | - | Python's dictionary update, for the tables |
| `FiberConfigs`, `ExecutorConfigs`, `RegistryConfigs`, `VerityConfigs`, `ProposalConfigs` | the five `gen-cfgs.py` | a table each, what is written from it, what the model declares and assumes |
| `GenCfgs` | `gen-cfgs.py`, `summarize.sh`, `fill-results.py` | the files, one write at a time; instantiates the five tables |
| `GenCfgsProofs` | - | theorems about `GenCfgs` |

The constants are plain numbers, strings and Booleans, so the `.cfg` files give them
values directly and there are no separate MC modules. No symmetry is declared: tasks,
pids and runs have different programs, CPUs are ordered by the loops over them, and
five runs check liveness.

### MountPut

The constants are the build options of the harness: `NCPU`, `BATCH`, `SHAPE`, `HELD`,
`ORDER`, `GETS`, `WALK`, `MIGRATE`, and the CPUs the tasks run on.
`ConfigAssumption` says which combinations are built.

A step of a task is one access to memory that another task may use at the same
time. `pc[t]` names the next one. Calls that are shared by several callers
(`mntput()`, `mnt_get_count()`, `run_task_work()`) have one set of actions,
parameterised by the task, and a variable that says where they return to (`ret`,
`cret`, `wret`).

| Code | Actions |
|---|---|
| `mntput()`, `mntput_no_expire()` | `CallMntput`, `MntputBegin`, `mntput_no_expire`, `MntputFast`, `MntputFastEnd` |
| `mntput_no_expire_slowpath()` | `SlowpathLock`, `SlowpathDec`, `mntput_no_expire_slowpath`, `SlowpathRcuUnlock`, `SlowpathUnlock` |
| `mnt_get_count()` | `StartCount`, `CountPuts`, `CountGets`, one slot per step |
| `cleanup_mnt()`, `call_rcu()`, `free_vfsmnt()` | `cleanup_mnt`, `synchronize_rcu`, `CleanupGp`, `free_vfsmnt` |
| `__legitimize_mnt()`, `legitimize_mnt()` | `LegitimizeBegin` ... `LegitimizeUnlock`, `legitimize_mnt`, `LegitimizeRelock` |
| `do_umount()`, `umount_tree()` | `UmountRefused` ... `UmountEnd`, `umount_tree`, `umount_mnt` |
| `kern_unmount_array()` | `kern_unmount_array`, `mnt_make_shortterm` |
| `mntput_unmounted()`, `mntput_unheld()` | `UnmountedLock` ... `HeldEnd` |

Where several statements are one step, no other task can tell:

* `lock_mount_hash()` takes the lock and increments the sequence count. Nobody reads
  the count in between to a different effect, because a reader that sees the old,
  even value may as well have read before the lock was taken.
* State that is only used under `mount_lock` changes with the step before it.
* `has_parent` is `hashed`: both are set and cleared together under the lock.
* The walker's lookup reads `hashed` once; it only ever goes from true to false.

Left out: `nr_children` (a synchronous umount is only built for one mount), the
branches for `mnt_expiry_mark`, covered mounts, writers, pins and kernel threads,
which the harness's own stubs make unreachable, and the barriers, which have no
effect under sequential consistency. The counters are naturals: the code's unsigned
ones wrap, which their difference does not notice.

### MountBarriers

Every store goes through a buffer of the thread that made it. It may become visible
after later stores to other places, unless there is an `smp_wmb()` between them.
`smp_mb()` waits for the buffer to be empty. The loads of one pass of
`mnt_get_count()` happen in any order; all other loads happen in program order.
`spin_lock()` acts on memory, and `spin_unlock()` is a store behind a barrier. The file
knows two slots, or three (`NR_CPUS`); the run has three, the model any number of them,
of which those from the fourth on are nobody's and read as zero. The
grace period ends when the other thread is not in its read section and the stores it
made there are visible.

The scenario is chosen in `Init`, so one run covers all of them. The mutants of this
run are the harness's own: `MUT_NOWMB`, `MUT_NOMB_IN_SUM`, `MUT_NOGP`,
`MUT_WALKER_NOMB`, `MUT_FLAGS_UNLOCKED` and `MUT_DEKKER_WMB` fail here exactly where
the header of `mnt_gp.c` says that they must.

This is weaker than TSO and stronger than the kernel's model: other loads are not
reordered with each other, and a store becomes visible to everybody at once.

### RunControl

A log is what the scripts grep for in it: whether it exists, the verdict, the
directory of the last announced checkpoint, whether one was completed; and the number of
workers, which TLC prints. A command is given a number of workers, which is 8 if it is
left out; a checkpoint is a directory and the number it was made with, and `Recovers`
says that only this number can use it. An attempt with another one fails, and may spoil
the checkpoint first (`TlcSpoils`); `STATUS.md` of the fiber model reports both (lines
64-70). `state`,
`has_checkpoint` and `summary` are what `status.sh` and `summarize.sh` compute.
Shells run `run-parallel.sh`, `start.sh` or `resume.sh`; a started process goes
through `RunPid`, `check` and the TLC actions; `finish.sh` is an actor of its own, whose
loop reads the pid files (`FinishPoll`), looks at one pid after the other (`FinishLook`)
and at the test of the fixed tree (`FinishLooked`).
`Killed` and `Reboot` may happen between any two steps, and a reboot may empty
`/tmp`. TLC, process ids and the system are external and modelled by what the
scripts see of them.

`start.sh` sleeps for a second before it reads the pid file of its child. The model
takes that to be enough. Metadir cleanup by TLC after a success, and the extraction
of traces, are left out: no script decides on them.

### CbmcRun

One thread per job goes through `Take`, `CompileBegin`, `CompileEnd`,
`InstrumentBegin`, `InstrumentEnd`, `Load` and the check, in which CBMC reports its
properties one at a time as SUCCESS, FAILURE or UNKNOWN, ends, hits the time limit, or
runs out of memory. A limit may kill `measure.py`, CBMC or both, or make CBMC give up by
itself, before or after any line. `verdict` is the chain of tests at the end of
`run_one()`; `Main` is the loop over `ex.map`.

Files are named by configuration and memory model, as in the code, so two jobs of one
name share the goto file, and two equal jobs also the instrumented one and the log. A
goto file is whole or torn. `log` says whose output a log has in it; `Contents` is what
is read there, which is any mixture of lines if several jobs had it open. `cbmc` is what
the job's own CBMC reported and how it ended, which the properties compare with the row.
They are the two descriptions that the expectations tell apart. CBMC is external.

### TraceLedger

The first half is an external kernel with a count, the references there are, and one
event per operation. References belong to nobody: a pid may put one that another took,
which leaves no event of its own. The second half is `convert()`: `LedgerOf` is the loop
over the events
of one pid, `Prunable` and `Kept` the pruning, `CleanupTask` the search for who doomed
the mount, `Ranks` the ranks of locked events. The trace may be cut off at any moment,
and some references may predate it. `ReplayMatches` compares with the count that a
replay of the converted trace has. `Expressible` excludes the two cases that the
converter documents as beyond it, and `OwnPuts` the one that `trace/RESUME.md` reports: a
pid puts what only another took.

### LitmusAsm

`TESTS` are the fifteen programs. `emit` is the translated test; the machine runs what
was emitted, not the abstract program. An instruction of the result is a load or a store,
the two halves of a lock, a fence with the pairs of access kinds that it orders, `isync`,
a branch or a label. Registers and addresses keep their logical names. `PPC_lock` is the
sequence of `gen-asm.py` (lines 195-204): `lwarx`, a branch on what it read, `stwcx.`, a
branch on whether it stored, `isync`. `AArch64_lock` is the read and the write of `SWPA`,
the read an acquire.

`Read` and `Write` are the external machine. It performs any access that nothing orders
after one that is still to be performed (`Before`): a fence, an acquire or a release, the
same address, or a branch on what was read with an `isync` after it. A store waits for
the branches before it; a load does not. So what a lock orders depends on the
instructions that were emitted for it. A conditional store succeeds only if nobody wrote
since its `lwarx`; an execution in which that fails, or in which a lock is found held, is
one that the tests' filter drops, and is not followed any further.

### VmRuns and FdProbe

`FdProbe` has one action per statement of the probe that can block or that others see,
and external actions for the child's side, the service and PID 1. A worker of the service
stores the entry (`Store`), hands the file descriptor to PID 1 (`Push`) and answers
(`Answer`), as `nsresourced/tla/README.md` describes it (lines 74, 118-119), and may die
between any two of these (`WorkerDies`). The probe then reads an empty reply and goes on,
as after an answer; `reply` is which of the two it printed.

`VmRuns` has the host programs and the VM; the unit of the guest runs the scripts in
order, or the probe. `wait()` returns when the `mkosi` process has ended: because its VM
has, or because it failed and left the VM to itself. A signal ends a VM at some later
time or, if it is not in the process group, not at all: after `Kill` a run reads its
journal with the VM perhaps still running. A journal is a path and a file, because a run
removes the path while an older VM may still write to the file.

### The tables and GenCfgs

A table module has the entries, `Update` for what the Python dictionaries do, the
constants that are written and those that the model declares. `Accepted` says that TLC
takes the configuration, `NothingDropped` that each override reaches a file, `AsNamed`
what the parts of a name promise. The five tables were compared with those that the
Python programs build: same names, same values.

In `GenCfgs` a file is the version of the table that it was written from, or empty or
absent. `Unlink`, `Truncate` and `Write` are the steps of a generator, by hand or in
the import of `fill-results.py`; `RunCfg` and `RunMC` are TLC reading its two files;
`summarize` and `Fill` ... `FillWrite` make the table. With `dir.whole` the real tables
are generated, and without it the first `Rows` entries, with an edit of the table.

## Runs

The numbers are distinct states. `scripts`, `cbmc`, `ledger`, `vmruns` and `gencfgs`
take two to three minutes, the others about a minute or less.

| Run | States | Question |
|---|---|---|
| `sync` | 25,742 | Is a successful `umount(2)` complete, and does every failure undo its steps? |
| `lazy` | 195,854 | Is each mount of a detached tree cleaned up and freed once, whoever is last, as `MountLife` says? |
| `kern2` | 192,636 | The same with `mnt_ns` cleared outside the lock and inline cleanup |
| `kern_ghost` | violation | Does `main()`'s closing check of mounted mounts hold in the kern builds? |
| `barriers` | 6,307 | Do the barriers suffice when stores are delayed? |
| `scripts` | 981,846 | One run per configuration, nothing left out, a `finish.sh` that waits and ends, and advice that works for whom it should, whatever dies? |
| `scripts_reuse` | violation | Does a pass pick up what is missing if pids are reused? |
| `cbmc` | 1,088,318 | Is every verdict one of a check that was not killed, and right about what it reported and of which program? |
| `ledger` | 590,004 | Does the converted trace replay to the counts of the kernel? |
| `litmus` | 15,331 | Does the assembly forbid what the tests say cannot happen? |
| `vmruns` | 1,534,600 | Does every run end with its own results, and does the probe answer its question? |
| `gencfgs` | 3,307,435 | Does the directory become the table, with configurations that are right, and the README keep its text? |

### What the properties say

`CountIsSound` is about the decisions, not about the numbers: whatever the sum saw
while other tasks kept counting, the busy check, the look in `mntput_unheld()` and
the slow path act on it only if it is right, and `WARN_ON(count < 0)` never fires.

`DoomedIsLast`, `CleanupOnce`, `NoUAF` and `SyncClean` are the harness's own
assertions, as invariants of all states instead of one place in the code.
`OnlyHeldWait` is about the two lists of `mntput_unmounted()`: only held mounts wait
for a grace period, and there is one per batch. `CallerPutOnce` and `LockProtocol`
check every early return, in `sync`, where `do_umount()` leaves with 0, -EPERM and
-EBUSY. The exit with -EINVAL is taken only if somebody else unmounted the mount first.
Neither the harness nor any run has such a second umounter; the step of that exit is in
the model, and the proofs of the two properties cover it (`LockCorrect`,
`CallerCorrect`).

`NoNewRefsAfterSync` is an action property: once `MNT_SYNC_UMOUNT` is set, no step
of anybody raises the number of references that are not a walker's transient one.

`EventuallyFreed` and `ImplementsMountLife` are liveness: a mount that leaves its
namespace is freed. For the refinement, `LifeRefs` counts a walker's reference from the
moment at which the sequence count is known not to have changed: before that, the
increment may be taken back or refused, and the abstract mount does not have it.

`HeldIsNotFreed`, `NoPutIsMissed`, `LegitimizedIsNotFreed`, `BailedSeesDoomed` and
`RecheckOrSeen` are the assertions at the end of `mnt_gp.c`, by scenario.

`OneRunPerConfig` is what the test in `start.sh` is for. `NoneIsForgotten` relates a
decision of a script, taken from pid files and logs, to the processes there really are.
`AdviceIsRight` relates what `status.sh` reads in a log to the directory that `check.sh`
takes and the checkpoint in it: where the advice is to resume, resuming works with the
number of workers that the log names, and with no other. So the command as it is
printed, which has no number, works for the runs that were started with 8 (see
"Observations"). `FinishWaits` is about the step in which the finisher stops polling:
every run that it found in a pid file at the beginning of its last pass is over, although
it looks at them one after the other and others may start and die meanwhile. `FinishEnds`
is liveness.

`VerdictIsRight` compares a row with what its job's CBMC had really reported, and its
expectation with the one for its memory model. A job whose CBMC was killed, could not
load its program or reported nothing never gets a verdict. A verdict is AS-EXPECTED just
if the assertions that were reported as failing are those that the configuration is to
break. It does not say that all were decided, because the code does not see to that (see
"Observations"). Jobs that have one log at the same time are left out (`OwnLog`). `RowsInOrder`
says where the table stops if a job raises.

`ReplayMatches` is the property that the converter exists for, for the traces in which
every pid puts only what it took itself (`OwnPuts`). `WalkersRelease`, `CleanupByDoomer`
and `RanksComplete` are what the replaying model needs of the tasks; they hold of all
traces.

`NeverHolds` is the expectation of the tests. `SectionsHold` says of the locks of the
translation, in every state of every test, that no access of a section is performed
before the lock was read free, and that the lock is not free again before the lock is
taken and all accesses are performed. Its mutant has a plain store as POWER's unlock. The
mutant of `NeverHolds` is the first POWER lock, of which the comment of `gen-asm.py`
(lines 196-199) tells: it branches on the result of `stwcx.` only, and the run finds the
spurious witness that the comment names, in the reduced form of MNT-B2 on POWER.

`ResultsAreRight` relates what is read from the journal to what is written to it, by
whom: VMs of earlier runs may still be writing, but to files that have no path any more.
That a run has all its results is claimed only where `mkosi` ended because its VM did.
`ProbeTells` relates the printed lines to who holds the namespace. After an answer, PID 1
is seen to hold it just if the fd store keeps it. After an empty reply, which the probe
takes for success, a line that says that it is held is right, but one that says that it
is not proves nothing.

`DirIsTable`, `VerdictOfOneTable`, `ReadmeKept` and `TableIsSummary` relate files to the
table after generators, runs and fills that overlapped or were cut short.
`ConfigsAreRight` checks the five whole tables, as written by the modelled generator.

### Bounds, and why they are enough

Two CPUs: an error of a sum needs a get on one CPU and its put on another, with the
loop between them. `MIGRATE` makes the holder do that in `sync`.

One extra get and put by the holder: it lets the holder be in the middle of an extra
pair, hold only its own reference, or have none. A second pair repeats the first one
from a state that is already covered.

Batches of two: one mount is held and one is not, which is what the two lists tell
apart. `HELD` and `WALK` say which is which; in `lazy` they are different mounts, in
`kern2` the same.

In `RunControl`, three commands by hand and two deaths: enough for a run to be
started, die, be resumed, and die again while the finisher waits. Two numbers of workers,
8 and 16: the default and another one, so that a resume can have the right one or not.
Three pids: a run that died, its successor, and one that `finish.sh` has in mind. One
configuration is enough where pids are not reused, because the scripts keep nothing that
two configurations share; `scripts_reuse` has two, which share the pids. `MaxCmds`,
`MaxDeaths` and `MaxFinish` are guards.

In `CbmcRun`, two jobs and two workers, with `mut_nomb_sync`, whose expectation depends
on the memory model, and a name that is no configuration: two jobs of one name and both
memory models, which share the goto file; the same job twice, which share everything; one
that raises while the other one is in any place. `MaxUnknown` is one, so that what is
UNKNOWN can be in either job and about either property. In `TraceLedger`, two pids and
three events besides the umount's own: a put can be given to the wrong one of two
acquisitions of a pid, the other pid can be the last, and it can put what the first one
took. In `VmRuns`, two runs, two directories and two scripts. In `GenCfgs`, two
entries before and after the edit, a generator by hand beside the one of a fill, two
runs and one interruption. Its tables and rows are in as much detail as it takes to say
which rows lose a column and are dropped (`TableIsSummary`), because `fill-results.py`
goes by the number of columns. `LitmusAsm` has no bounds: the programs are finite.

### Fairness

`MountPut`: weak fairness for each of the three tasks, which the scheduler
justifies. Nothing is assumed of the lock or of grace periods: these are enabled when
the code can go on.

`RunControl`: weak fairness for each started script and run, for TLC (a run ends) and
for the test that `finish.sh` waits for. Nothing is assumed of the person at the
shell.

`CbmcRun`: weak fairness for the threads, the tools and the time limit together: while
one of them can go on, one does. Nothing is assumed of CBMC, which may report nothing for
ever until the limit strikes.

`VmRuns`: weak fairness for the host programs and for their timeouts. Nothing is
assumed of the guest.

The other modules check no liveness.

### Deadlock

Deadlock is checked for `MountPut`, `MountBarriers`, `CbmcRun` and `LitmusAsm`, in which
the final states stutter explicitly. In the others everything may be over (no script is
started any more, the trace is converted, all runs are done), so those runs say
`CHECK_DEADLOCK FALSE`.

## Proofs

Thirty-four theorems, for every value of the constants that the named assumptions allow.
Each invariant that a proof strengthens a property to was first checked by TLC, on the
instances of the runs.

### MountPut

Everything is proved from `ConfigAssumption` alone, that is for every number of CPUs,
every `GETS`, every shape, every CPU the tasks run on, and batches of one or two. The
proof is a tower of invariants; each one uses those below it.

| Layer | Invariant | Theorems that follow |
|---|---|---|
| types, lock, read sections (`MountPutProofs`) | `TypeInv`, `LockProtocol`, `RcuProtocol` | `TypeCorrect`, `LockCorrect`, `GpCorrect` |
| references (`MountPutProofs`) | `Ledger`, with the above `Base` | `LedgerCorrect`, `CallerCorrect` |
| counts (`MountPutProofs`) | `CountInv` | `CountCorrect` |
| doom (`MountPutSafety`) | `DoomInv` | `DoomCorrect`, `SyncClosesCorrect` |
| cleanup (`MountPutSafety`) | `CleanupInv` | `CleanupCorrect`, `HeldWaitCorrect` |
| free (`MountPutSafety`) | `FreeInv` | `FreeCorrect` |
| synchronous umount (`MountPutSafety`) | `SyncInv`, `SyncCount` | `SyncCorrect` |
| the life of a mount (`MountPutSafety`) | `LifeInv` | `LifeCorrect` |

*Types, lock, read sections.* `TypeOK` is not inductive: U's loop index `k` counts down,
and a step that decrements it needs to know that it was not negative yet. `LoopInv` says
where `k` is a position in the list, also while `mnt_get_count()` runs in between;
`TypeInv == TypeOK /\ LoopInv` is inductive. Given `TypeInv`, `LockProtocol` is inductive
as it stands: `LockStep(t)` classifies the steps of a task (it takes the free lock and
enters a locked section, or leaves one and releases, or keeps both) and `LockKept` shows
that such a step preserves it for all tasks. `RcuProtocol` says in the same way that
`in_rcu[t]` is exactly "the program counter is inside a read section". No label at
which a task waits for a grace period is inside a locked or a read section.

*References.* `Ledger` says for each task which references it has at which line: H the
one it came with and the one of its current iteration; W a transient one from the
increment to the check, then a firm one; U the caller's one (`Caller`) and each
mount's own (`OwnRef`) until it has put it. `Lists` ties the two lists of
`mntput_unmounted()` to the place of U. `CallerPutOnce` is a part of `Caller`.

*Counts.* What `mnt_get_count()` returns is a sum over the CPUs. Instead of defining the
sum by recursion, which would need induction on the number of CPUs, `CountInv` says that
there *are* functions `G` and `P` that are prefix sums of the two counters (zero at zero,
and one counter more at each CPU). A step of a task adds one to one counter, so one to
all sums beyond it (`Bump`), which is a witness for the next state; nothing has to be
unrolled. `Balanced` says that the full sums differ by the references there are.
`CountRight(t, G, P)` is about a count in progress: the puts read so far are at most the
prefix of `P`; and once all puts are read, what the count will come to if no counter
changes any more (`Outlook`) is not negative, and if it is no more than the references
the caller expects (`Expected(t)`), then nobody but U has one that counts (`Clear`). The
lock keeps that so: what others do meanwhile without it are gets by tasks that already
have a reference, fast puts, and transient gets that W takes back.

*Doom.* A doomed mount is `Closed`: nobody has a reference that counts, a walker that has
found it is in for a retry because the sequence count has moved, and it has left the
hash or is about to. The same holds of a mount with `MNT_SYNC_UMOUNT`, which U still has
references to. It follows from the right count at the places where a task dooms or marks
the mount.

*Cleanup.* Every doomed mount that is not cleaned up has one debtor, and every debtor
one debt: `Owes(t, m)` says that the task has the mount at hand, in its task work, or in
the list of those that U doomed on the way. Each step of a task passes debts on
(`DebtStep`), and `cleanup_mnt()` settles one.

*Free.* A mount that is freed, or is about to be (`Gone`), was cleaned up and W is not
trying to get it: it would be in a read section that the grace period has waited for. A
task at any other place at which it touches the mount has a reference to it or owes its
cleanup, which rules out that it was doomed or cleaned up.

*Synchronous umount.* After the grace period of `mntput_unmounted()` W is not trying to
get the mount any more, so the count that U sums up then is exact (`Exact`): it is zero,
and U dooms the mount. `SyncInv` says that until then U has the mount in its list or is
deciding, that H and W never get into the slow path, and so that U does the cleanup.

*Refinement.* `LifeCorrect` proves that `MountPut` implements `MountLife` but for its
fairness: the initial states map to initial states, and each action is one of `Get`,
`Put`, `Unmount`, `Doom`, `Cleanup`, `Free`, or does not show. Four lemmas say which
actions are not `Quiet`; there is one lemma for each kind of those. What the abstract
guards ask for is mostly there (a doomed mount has no references and has left its
namespace, because U's own reference goes after that). One thing is not: a walker that
gets its reference must find one there, though it looked at the mount before it
increased the count. `SeenInv` says so. It holds because all puts that may be the last
one change the sequence count, and the fast ones are not the last: U puts on the fast
path only when the umount has failed (`PutInv`), and while H does, U is kept from
putting the mount's own reference by the grace period that waits for H (`FastInv`).

### MountBarriers

From `ScenarioAssumption`, for every number of slots from two on (three, if the holder
migrates) and every choice of scenarios. The five theorems follow from one inductive
invariant, `Inv`; TLC checked it on the eight scenarios first. Its parts:

*Memory and buffers.* `BufOk` says which places a thread has stores of (`Owned`) and what
it may store there (`Stored`), `MemOk` what is in memory. No two threads store to the
same slot, which is why a delayed store is only ever late, never lost. Everything else
speaks of `Pending(t)`, the places whose store is not in memory yet.

*The lock.* A thread holds `mount_lock` until the store that releases it is in memory
(`Holds`), and `UnlockLast` makes that its last one: when it drains, all others have.
So what is pending of `flags`, `freed`, the sequence count and U's put is pending of the
holder of the lock (`LockOk`).

*Places.* `T1Ok`, `T0Ok`, `HolderOk` and `WalkerOk` say what each thread has stored by
the time it is at a line, in memory or pending; after a barrier it is in memory.
`FreeOk` ties `freed` and `MNT_DOOMED` to the thread that finished the mount.

*Counts.* `Sum1` is what U's count will come to if the memory stays as it is: the sum so
far and the slots still to be read. Until U has read T0's put, it is the number of
references (`Count1Ok`), because the gets are all read after the puts (`Gets1Ok`). Then
each scenario has a part of its own. In A1, A1MIG and C1 a get that is missed can only be
one whose put is missed as well (`GetFirst`: the `smp_wmb()` of the put), so the sum is
never too small (`TakingOk`). In A2 and C2 a fast put is in memory before the grace
period is over, so the slow put counts it, and just one of the two threads finishes the
mount (`DroppingOk`). In B1 and B2 a walker that was not turned away has its get in
memory before U begins to count (`KeptOk`), and in D1 a holder that still saw `mnt_ns`
its put (`SeenOk`).

The steps of a thread (`T0Steps`, `T1Steps`) mostly leave what is said of the other one
alone. What interferes is `DrainSteps`: any store of either thread becomes visible, in
any order that the buffers allow.

### CbmcRun

From `CbmcRunAssumption`, for every list of names, with repetitions, every number of
workers and whatever the solver prints, UNKNOWN included. `CbmcInv` has the types,
`JobOk(j)` (a limit that killed a process can be told from the status that `verdict()`
goes by), `LogOk(j)` (a job that has a log for itself finds its own output in it) and
`RowsOk` (the rows are the first jobs in order, with the statuses they ended with).
`RowsCorrect` and `VerdictCorrect` follow.

### VmRuns and FdProbe

From `VmRunsAssumption`. `ProbeInv` says who holds a reference to the namespace at which
step of the probe, how far the worker got before it answered or died (`Served`), and what
the printed lines say of it; `VmInv` ties the VM of a run to the program that started it
(`VmOf`), the lines of a run that was alone to its journal (`OwnJournal`), and says that
runs which had one journal at a time were not alone (`Sharing`). It has to hold while the
VMs of ended runs go on: they have their old file open (`fd`), which is nobody's journal
any more. `ResultsCorrect` and `ProbeCorrect` follow.

### RunControl

From `RunControlAssumption`. `Control` has the types; `PidsNamed`, where pids are not
given out twice (a pid file that names a live process names a run of its configuration);
`Started` and `DirsOf`, where one shell is used (a run is known by its pid file before
the next one can be started, the directory that a log tells of is the newest one, and the
checkpoint in it was made by the run whose number of workers the log names). A failed
attempt with another number spoils a checkpoint only after it has begun the log anew, so
no log tells of it any more.

The theorems have a hypothesis each, because the property is false without it.
`OneRunCorrect` and `AdviceCorrect` assume `OneShell`: `start.sh` looks and then starts,
so two shells can start two runs. `NoneForgottenCorrect` and `FinishWaitsCorrect` assume
`~PidReuse`: the run `scripts_reuse` shows what a reused pid does. The hypotheses are what the runs use as
constants. `PollInv` says that a pid that was looked at and is alive was found alive;
that takes that no pid comes back (`NobodyReturns`). The run has one configuration and so
one pid in a pass; that the order of the looks does not matter for several is the
theorem's part.

### GenCfgs

From `GenCfgsAssumption`, for tables cut to any number of entries (`Rows`) or whole, and
any number of starts, edits and interruptions. The lemmas about the tables show that
they are sequences and that every entry of the mntput() model has one of the eight
layouts, so that `Writes` is known in each directory: exactly the files of the entries,
and the modules of all layouts.

`GenInv` says what a generator still has to write and remove, `StaleInv` that this never
includes the removal of a file of the table. `ProgressInv` is the argument: while only
generators of the current table are under way or through (`Fresh`), whatever is not yet
as the table says, one of them will still write or remove. A generator that is through
has nothing left to do, so `DirIsTable` follows when all are. For `VerdictOfOneTable`,
`RunInv` says what TLC has read and what it will find when it reads the module: before
the edit there is only one version, and a run that is still quiet has had no generator
beside it.

The README of a directory is `Whole`: its first line, then either the marker or a header
with rows of different names, then its last line. `ReadmeAll` says that of the text a
fill is about to write, too, and that the file is empty only while it is being written or
after an interruption. `ReplacedIs` is the step: in a whole text, both ways of `Replaced`
(the marker, or the lines of the table that is there) give the same text around the new
table. That the new table has no name twice needs `NamesAssumption`: the tables of the
generators are dictionaries. TLC evaluates it for the five tables. `WithinIs` says what
the filter of the table's loop returns: exactly the elements asked for, in their order.
It is an induction over the length, made as an argument about the least counterexample,
because the library's induction theorems cannot be instantiated here. `ReadmeCorrect` and
`TableCorrect` follow.

### TraceLedger

From `TraceLedgerAssumption`, for any finite set of pids and traces of any length.
`RanksDense` is about any set of events: counting the locked ones up to each gives
strictly rising numbers, and an injection of a finite set into `1 .. n` of its own size
leaves no number out. `RanksCorrect` follows from it, whatever the ledgers decide. The
other three need both halves of the module.

*The kernel.* `Kernel` ties the state of the kernel to its trace: `SumAt(i)` counts what
the log says up to event `i`, and is the count that the log has there; `Balance(p, i)` is
what pid `p` has by its own events, and may be negative, as references change hands. The
mount is unmounted once, the caller drops its reference once, and one event dooms the
mount, when nobody has a reference (`DoomedOnce`).

*One ledger.* `LInv(p, s, i)` holds of the ledger of a pid after event `i`: exactly the
events so far have tasks; a walker has one legitimize and at most one put, of the
reference that it got (`Walking`); an open one has only its legitimize (`Opened`); the
model has as many references as the balance of the pid, if no balance is ever negative
(`Counted`, which only `ReplayCorrect` uses and which only it needs `OwnPuts` for). There
is one lemma for each kind of event. What `take_own_ref()` gives to U was the only event
of its task, so that nothing else changes (`Recasted`).

*All of them.* A task's events are of one pid, so the ledgers do not disturb each other,
and the doomer that `CleanupTask` finds is the only one there is (`WalkersCorrect`,
`CleanupCorrect`). For `ReplayCorrect` the references that the model starts with are
added up over the pids, one more at a time (`GrowingSets`). A pruned task gave back what
it acquired and what it began with, before `umount_tree`, so leaving it out changes no
count that is compared.

### What stays with TLC

* Liveness under fairness (`EventuallyFreed`, `FinishEnds`, `RunEnds`, and the fairness
  of `ImplementsMountLife`), which the prover does not do.
* `ConfigsAreRight` of `GenCfgs`. It is about five given tables; TLC evaluates it for
  every entry of them.
* The invariants of `LitmusAsm`. The tests are fifteen finite programs for two
  architectures, and the run has all of them: TLC goes through all of their executions,
  so there is nothing to generalise.

## Findings

`kern_ghost`. The closing assertion of `main()` about mounts that were not unmounted
goes by `ghost_umounted`, which `kern_unmount_array()` never sets, so the assertion
that such a mount was not cleaned up fails in every kern build. The protocol is
right; the ghost is not.

`scripts_reuse`. After a reboot a stale pid file may name a process that is
something else, perhaps the run of another configuration that the same pass just
started. `start.sh` then says "already running" and the configuration is left out.

### Observations

* `run-parallel.sh` says (line 4) that it skips configurations that "passed or failed
  as expected". The `grep` of line 12 skips those with any verdict, the unexpected
  ones too.
* `finish.sh` fills the table of `README.md` only once, because line 22 looks for a
  marker that the first time removes. After a second `finish.sh` the table and
  `RESULTS.txt` differ, and the branch of `fill-results.py` that replaces an existing
  table is never reached.
* The mutation `MUT_TORN_SUM` cannot fail in the harness as `run.py` builds it: the
  loop goes through the CPUs in ascending order, the holder migrates from the last
  CPU to the first, and `run.py` does not define `MIGRATE`. The expectation of
  `mut_torn_sync` (`run.py`, line 36) is not reachable. The mutant of this project
  counts in descending order.
* In the kern builds, the inline `call_rcu()` grace period hides a missing
  `synchronize_rcu_expedited()`.
* In this harness, the slow path's test of `MNT_DOOMED` is never decisive: a walker
  that could have raised the count of a doomed mount has already been refused.
* Summing up the puts before the gets matters only for the busy check of a
  synchronous umount under sequential consistency. With store buffers it matters for
  the look in `mntput_unheld()` as well.
* `finish.sh` polls pid files that are never removed. If the pid of a run that died
  is given to a process that stays, it waits for that process.
* With two shells, `start.sh` can start two runs of one configuration: it looks and
  then starts. `OneRunPerConfig` is checked for one shell.
* `status.sh` (line 26) prints `./resume.sh <cfg>` for a dead run without a number of
  workers, and `start.sh` (line 9) then takes 8. `start.sh` (lines 5-6) says that
  `resume.sh` "restarts a dead one from its last checkpoint". For the runs that were
  started with another number this fails, and "that failed attempt left the checkpoint's
  state queue unreadable" (`fiber/tla/STATUS.md`, lines 67-69; lines 160-162 warn of it
  again). The number is in the log, in the line that TLC begins with; `status.sh` could
  print it.
* A resumed run begins its log anew (`check.sh`, line 22). If it dies before its next
  checkpoint, `status.sh` (line 24) says that there is none, although the one it was
  resumed from is still there. `AdviceIsRight` is about the other direction.
* `check.sh` (line 17) takes the newest directory of TLC, not the newest one with a
  checkpoint. A run that was started anew and died early hides an older checkpoint.
* `run-parallel.sh` (line 12) looks at the log before `start.sh` looks at the process. A
  run that ends in between is started again. It also keeps verdicts of older tables;
  the other directories run everything.
* `run.py` (line 100) looks at the exit status only for time and memory limits. The
  properties that a CBMC printed before it died of something else are tabulated.
* `run.py` (line 46) parses UNKNOWN and then counts only FAILURE (lines 95, 103-105). A
  run that left properties undecided, or that ran out of memory by itself after it had
  printed some, is AS-EXPECTED if it printed the failures that are expected, or if none
  are expected.
* `run.py` (lines 120-123) takes a name that is given twice. With more than one worker
  its two jobs write over each other's goto files and log, and each reads a mixture.
* `trace2ndjson.py`: the docstring (lines 19-20) says "last open legitimize or get", but
  an open walker is preferred to a later get. Get, get, `umount_tree` of one pid gives
  "implicit". A trace that is cut off before `caller_drop` is classified as a namespace's
  death. Lines that report lost events are skipped silently.
* A reference that one pid takes and another one puts cannot be converted.
  `trace/RESUME.md` (lines 36-40) reports a recorded one, `mnt-2147483720`, which the
  replay rejects: fork() gets a reference in the parent that the child puts. Without
  `OwnPuts`, TLC finds such a trace after a few events: a walker keeps what it got, and
  the umounter's pid puts it.
* `gen-asm.py`: the six tests that are expected to be observable have witnesses in the
  model on both architectures, which agrees with `RESULTS-hardware.txt`.
* `vm-run-tests.py` (lines 76-82) does not wait after SIGKILL, and what it waits for
  before is `mkosi`, not the VM. After a timeout, or if `mkosi` fails, the journal is
  read while the VM may still be writing to it, so results of scripts that do end may
  be missing.
* `vm-run-tests.py`: two runs with one `--out` at a time mix their results, which
  `ResultsAreRight` excludes (`alone`). The unit's own limit is the timeout minus 60
  seconds, which is nothing for a `--timeout` of 60 or less.
* `probe-fdstore-root.py` (lines 56-62) takes an empty reply for success. If the worker
  died before it handed over the file descriptor, what is printed looks like a fd store
  that does not keep it. The line with the reply, which is empty, tells the two apart.
* `probe-fdstore-root.py` (line 36) prints "status 0" for a child that has not ended yet.
  `probe-fdstore.py` (line 19) waits for a datagram without a timeout.
* Two generators at a time: the second one to remove a file raises. The generator of the
  mntput() model never removes configurations of older tables.
* `summarize.sh` (line 17) of the executor, nsresourced and mountfsd models prints
  `$states` without a default, so that the row of a run without states has a column less
  and `fill-results.py` drops it. The fiber model's has the default.
* `fill-results.py` (line 37) empties the README before it writes. An interruption leaves
  it empty, and the next fill raises, as there is neither marker nor table.

## Not modelled

* `src/kernel/mount/tla/gen-cfgs.py` and the two of the `knullfs` series: other tables,
  written in one of the two ways that `GenCfgs` models. Their own content is a list
  of invariants and module texts for specifications that are no programs.
* `run-batch.sh`: the older, synchronous form of `run-parallel.sh`.
* `probe-fdstore.py`: the older form of `probe-fdstore-root.py`, which stops nothing.
* Trace printers (`show-*.py`): formatting, no state.
* `dat3m/run.sh` and the litmus runners: loops that print.
* In `LitmusAsm`, stores that become visible to one thread before another: with two
  threads there is no such case. In `MountBarriers`, reordering among other loads.
* The repository's own TLA+ models: specifications, not programs.

## Plan

Modelled, in this order: `MountPut` with `MountLife` and its proofs, `MountBarriers`,
`RunControl`, `CbmcRun`, `TraceLedger`, `LitmusAsm`, `FdProbe` and `VmRuns`, the tables
and `GenCfgs`. Then the proofs: `MountPut` up to its refinement of `MountLife`, `CbmcRun`,
`VmRuns` with `FdProbe`, `RunControl`, `GenCfgs`, `TraceLedger` and `MountBarriers`. All
of it is done; "What stays with TLC" names the properties that are not proved, and why.

## Running

    tlc -workers 2 -config MountPut_sync.cfg MountPut
    tlc -workers 2 -config MountPut_lazy.cfg MountPutRefinement
    tlc -workers 2 -config GenCfgs.cfg GenCfgs
    tlapm MountPutSafety.tla
    tlapm MountBarriersProofs.tla
    tlapm RunControlProofs.tla
    tlapm GenCfgsProofs.tla
    tlapm TraceLedgerProofs.tla

`PROJECT.json` lists every run with its properties, the lines of source behind every
definition, and for each property a mutation of the model that violates it.
