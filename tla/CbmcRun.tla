------------------------------ MODULE CbmcRun ------------------------------
(***************************************************************************)
(* cbmc/run.py: a pool of worker threads, each job of which compiles the   *)
(* harness for one configuration, instruments it for a memory model, and   *)
(* runs CBMC under measure.py, under timeout, under a memory limit.  The   *)
(* log is then read back and becomes a row of results.md.  The two memory  *)
(* models of a configuration share results/<name>.goto, and a name that is *)
(* given twice has all its files twice in use.                             *)
(***************************************************************************)
EXTENDS Integers, SequencesExt

CONSTANTS
    Names,          \* the names that run.py may be called with
    MaxJobs,        \* bound: jobs, that is names times memory models
    MaxWorkers,     \* bound: -j is at most this
    MaxUnknown      \* bound: results that are UNKNOWN

ASSUME CbmcRunAssumption ==
    /\ Names \subseteq STRING
    /\ {MaxJobs, MaxWorkers} \subseteq Nat \ {0} /\ MaxUnknown \in Nat

(* The descriptions of the harness's assertions that can fail here.        *)
Props == {"NoFastFinal", "SyncClean"}

(* What must fail: each entry is an alternation of descriptions.           *)
CONFIGS == [sync |-> <<{"NoFastFinal"}>>, mut_nomb_sync |-> <<{"NoFastFinal"}>>]
TSO_EXPECT == [mut_nomb_sync |-> <<{"NoFastFinal"}, {"SyncClean", "DoomedIsLast", "Freed"}>>]

VARIABLES
    jobs,       \* the jobs, in order
    workers,    \* -j
    next,       \* the job that a free worker takes
    pc,         \* where the thread of each job is
    goto,       \* results/<name>.goto and <name>.tso.goto
    log,        \* results/<name>.<mm>.log: the jobs whose output is in it
    cbmc,       \* the output of CBMC and measure.py for a job, and how CBMC ended
    rc,         \* the exit status of the capped command
    status,     \* the status that run_one() returns
    rows,       \* the rows that were appended to results.md
    main        \* the main thread

vars == <<jobs, workers, next, pc, goto, log, cbmc, rc, status, rows, main>>
args == <<jobs, workers>>
mainvars == <<rows, main>>

Js      == DOMAIN jobs
NoRc    == 0            \* no exit status yet; CBMC's own are 0, 6 and 10, one here
Ended   == 10
Results == {"none", "SUCCESS", "FAILURE", "UNKNOWN"}
Nothing == [d \in Props |-> "none"]
NewRun  == [end |-> "none", props |-> Nothing, measure |-> NoRc]
Running(j) == pc[j] \notin {"queued", "cancelled", "done", "raised"}

Verdicts == {"AS-EXPECTED", "MISMATCH"}

(* The files are named by the job, <name>.goto by the one for sc.          *)
source(j) == [jobs[j] EXCEPT !.mm = "sc"]

failed(props) == {d \in Props : props[d] = "FAILURE"}

(* What job j reads in its log: its own output, or what is left of the     *)
(* output of several, who wrote over each other's lines.                   *)
Contents(j) ==
    LET by == log[jobs[j]] IN
    IF by = {j} THEN {[props |-> cbmc[j].props, measure |-> cbmc[j].measure]}
    ELSE {l \in [props : [Props -> Results], measure : {NoRc} \cup {cbmc[i].measure : i \in by}] :
             \A d \in Props : l.props[d] \in {"none"} \cup {cbmc[i].props[d] : i \in by}}

-----------------------------------------------------------------------------
(* The verdict on a log *)

(* Mutant: the expectations of the other memory model.                     *)
expect_ScOnly(j) == CONFIGS[jobs[j].name]

(* The expectations: the table's, or those that TSO overrides.             *)
expect(j) ==
    LET n == jobs[j].name IN
    IF jobs[j].mm = "tso" /\ n \in DOMAIN TSO_EXPECT THEN TSO_EXPECT[n] ELSE CONFIGS[n]

Matches(found, exp) ==
    /\ \A d \in found : \E i \in DOMAIN exp : d \in exp[i]
    /\ \A i \in DOMAIN exp : exp[i] \cap found # {}

(* Mutant: a property list decides, however the run ended.                 *)
verdict_PropsFirst(j, l) ==
    IF l.props = Nothing THEN "NO-RESULT"
    ELSE IF Matches(failed(l.props), expect(j)) THEN "AS-EXPECTED" ELSE "MISMATCH"

(* The exit status is the one in the MEASURE line, if there is one.  What  *)
(* is no FAILURE is no failure, be it SUCCESS, UNKNOWN or missing.         *)
verdict(j, l) ==
    LET r == IF l.measure # NoRc THEN l.measure ELSE rc[j] IN
    IF r = 124 THEN "TIMEOUT"
    ELSE IF r \in {137, -9} THEN "OOM/KILLED"
    ELSE IF l.props = Nothing THEN "NO-RESULT"
    ELSE IF Matches(failed(l.props), expect(j)) THEN "AS-EXPECTED" ELSE "MISMATCH"

-----------------------------------------------------------------------------
(* run_one(), in the thread of job j *)

Goes(j, from, to) == pc[j] = from /\ pc' = [pc EXCEPT ![j] = to]

Returns(j, from, s) ==
    /\ Goes(j, from, "done")
    /\ status' = [status EXCEPT ![j] = s]

(* A log that is opened for writing is emptied.  Another job that has the  *)
(* same log open goes on at its own place in it.                           *)
Empties(j) ==
    log' = [log EXCEPT ![jobs[j]] =
              {j} \cup {i \in Js : jobs[i] = jobs[j] /\ pc[i] \in {"solving", "exited"}}]

(* A free worker takes the next job; a name that is not in the table       *)
(* raises KeyError.                                                        *)
Take ==
    /\ next <= Len(jobs) /\ pc[next] = "queued"
    /\ Cardinality({j \in Js : Running(j)}) < workers
    /\ pc' = [pc EXCEPT ![next] = IF jobs[next].name \in DOMAIN CONFIGS THEN "compile" ELSE "raised"]
    /\ next' = next + 1
    /\ UNCHANGED <<args, goto, log, cbmc, rc, status, mainvars>>

(* goto-cc and goto-instrument truncate their output and write it again.   *)
(* What two of them write at the same time is complete when both are done. *)
Begins(file) == goto' = [goto EXCEPT ![file] = "torn"]

Ends(j, file, place) ==
    \E g \in {"torn", "whole"} :
        /\ (\A i \in Js \ {j} : pc[i] = place => jobs[i].name # jobs[j].name) => g = "whole"
        /\ goto' = [goto EXCEPT ![file] = g]

CompileBegin(j) ==
    /\ Goes(j, "compile", "compiling")
    /\ Begins(source(j))
    /\ UNCHANGED <<args, next, log, cbmc, rc, status, mainvars>>

CompileEnd(j) ==
    /\ \/ /\ Goes(j, "compiling", IF jobs[j].mm = "tso" THEN "instrument" ELSE "load")
          /\ Ends(j, source(j), "compiling")
          /\ UNCHANGED <<log, status>>
       \/ Returns(j, "compiling", "COMPILE-ERROR") /\ Empties(j) /\ UNCHANGED goto
    /\ UNCHANGED <<args, next, cbmc, rc, mainvars>>

(* goto-instrument reads the file that the jobs of a name share and writes *)
(* that for its memory model.                                              *)
InstrumentBegin(j) ==
    /\ \/ /\ goto[source(j)] = "whole"
          /\ Goes(j, "instrument", "instrumenting")
          /\ Begins(jobs[j])
          /\ UNCHANGED <<log, status>>
       \/ /\ goto[source(j)] = "torn"
          /\ Returns(j, "instrument", "INSTRUMENT-ERROR") /\ Empties(j) /\ UNCHANGED goto
    /\ UNCHANGED <<args, next, cbmc, rc, mainvars>>

InstrumentEnd(j) ==
    /\ \/ /\ Goes(j, "instrumenting", "load")
          /\ Ends(j, jobs[j], "instrumenting")
          /\ UNCHANGED <<log, status>>
       \/ Returns(j, "instrumenting", "INSTRUMENT-ERROR") /\ Empties(j) /\ UNCHANGED goto
    /\ UNCHANGED <<args, next, cbmc, rc, mainvars>>

(* CBMC loads the program and decides the assertions; a torn file is an    *)
(* error.                                                                  *)
Load(j) ==
    /\ \/ goto[jobs[j]] = "whole" /\ Goes(j, "load", "solving") /\ UNCHANGED cbmc
       \/ /\ goto[jobs[j]] = "torn" /\ Goes(j, "load", "exited")
          /\ cbmc' = [cbmc EXCEPT ![j].end = "error"]
    /\ Empties(j)
    /\ UNCHANGED <<args, next, goto, rc, status, mainvars>>

unknown == {x \in Js \X Props : cbmc[x[1]].props[x[2]] = "UNKNOWN"}

(* The results go to the log one by one, in the order of the harness;      *)
(* UNKNOWN is one that CBMC gave up.                                       *)
Report(j) ==
    /\ pc[j] = "solving"
    /\ \E d \in {e \in Props : cbmc[j].props[e] = "none"}, st \in Results \ {"none"} :
         /\ d = "SyncClean" => cbmc[j].props["NoFastFinal"] # "none"
         /\ st = "UNKNOWN" => Cardinality(unknown) < MaxUnknown
         /\ cbmc' = [cbmc EXCEPT ![j].props[d] = st]
    /\ UNCHANGED <<args, next, pc, goto, log, rc, status, mainvars>>

Exit(j) ==
    /\ Goes(j, "solving", "exited")
    /\ \A d \in Props : cbmc[j].props[d] # "none"
    /\ cbmc' = [cbmc EXCEPT ![j].end = "exit"]
    /\ UNCHANGED <<args, next, goto, log, rc, status, mainvars>>

(* measure.py writes its line, with CBMC's exit status, and passes it on.  *)
Measure(j) ==
    /\ Goes(j, "exited", "measured")
    /\ cbmc' = [cbmc EXCEPT ![j].measure = Ended]
    /\ UNCHANGED <<args, next, goto, log, rc, status, mainvars>>

Finish(j) ==
    /\ Goes(j, "measured", "read")
    /\ rc' = [rc EXCEPT ![j] = Ended]
    /\ UNCHANGED <<args, next, goto, log, cbmc, status, mainvars>>

(* Mutant: the command is run without timeout.                             *)
Timeout_NotCapped(j) == FALSE /\ UNCHANGED vars

(* timeout's signal goes to measure.py and CBMC together, at any time, the *)
(* moment at which measure.py has written its line included.               *)
Timeout(j) ==
    /\ pc[j] \in {"solving", "exited", "measured"}
    /\ pc' = [pc EXCEPT ![j] = "read"]
    /\ rc' = [rc EXCEPT ![j] = 124]
    /\ cbmc' = [cbmc EXCEPT ![j].end = IF pc[j] = "solving" THEN "killed" ELSE @]
    /\ UNCHANGED <<args, next, goto, log, status, mainvars>>

(* The memory limit.  In a scope of systemd-run, the kernel kills CBMC     *)
(* (measure.py sees it and writes -9) or measure.py (timeout reports 137). *)
(* With ulimit, CBMC fails to allocate and exits, whatever it reported.    *)
OutOfMemory(j) ==
    /\ pc[j] = "solving"
    /\ \/ /\ cbmc' = [cbmc EXCEPT ![j].end = "killed", ![j].measure = -9]
          /\ rc' = [rc EXCEPT ![j] = 247]
          /\ pc' = [pc EXCEPT ![j] = "read"]
       \/ /\ cbmc' = [cbmc EXCEPT ![j].end = "killed"]
          /\ rc' = [rc EXCEPT ![j] = 137]
          /\ pc' = [pc EXCEPT ![j] = "read"]
       \/ /\ cbmc' = [cbmc EXCEPT ![j].end = "nomem"]
          /\ pc' = [pc EXCEPT ![j] = "exited"]
          /\ UNCHANGED rc
    /\ UNCHANGED <<args, next, goto, log, status, mainvars>>

Evaluate(j) ==
    /\ \E l \in Contents(j) : Returns(j, "read", verdict(j, l))
    /\ rc' = [rc EXCEPT ![j] = NoRc]
    /\ UNCHANGED <<args, next, goto, log, cbmc, mainvars>>

(* What a job does by itself, and what is certain to happen to it.         *)
Step(j) ==
    \/ CompileBegin(j) \/ CompileEnd(j) \/ InstrumentBegin(j) \/ InstrumentEnd(j) \/ Load(j)
    \/ Measure(j) \/ Finish(j) \/ Timeout(j) \/ Evaluate(j)

-----------------------------------------------------------------------------
(* main() *)

(* Mutant: the rows come as the jobs end.                                  *)
Append_AsCompleted ==
    /\ main = "rows"
    /\ \E j \in Js :
         /\ pc[j] = "done" /\ \A i \in DOMAIN rows : rows[i].job # j
         /\ rows' = Append(rows, [job |-> j, status |-> status[j]])
    /\ UNCHANGED <<args, next, pc, goto, log, cbmc, rc, status, main>>

(* ex.map() yields the results in the order of the jobs.                   *)
append_results ==
    LET j == Len(rows) + 1 IN
    /\ main = "rows" /\ j \in Js /\ pc[j] = "done"
    /\ rows' = Append(rows, [job |-> j, status |-> status[j]])
    /\ UNCHANGED <<args, next, pc, goto, log, cbmc, rc, status, main>>

(* An exception of a job is raised where its result is due: the jobs that  *)
(* have not begun are cancelled, and the pool is left when those that have *)
(* are done.                                                               *)
Raise ==
    LET j == Len(rows) + 1 IN
    /\ main = "rows" /\ j \in Js /\ pc[j] = "raised"
    /\ pc' = [i \in Js |-> IF pc[i] = "queued" THEN "cancelled" ELSE pc[i]]
    /\ main' = "raising"
    /\ UNCHANGED <<args, next, goto, log, cbmc, rc, status, rows>>

Leave ==
    /\ \/ main = "rows" /\ Len(rows) = Len(jobs)
       \/ main = "raising"
    /\ \A j \in Js : ~Running(j)
    /\ main' = "ended"
    /\ UNCHANGED <<args, next, pc, goto, log, cbmc, rc, status, rows>>

Main == append_results \/ Raise \/ Leave

-----------------------------------------------------------------------------
(* The specification *)

(* The memory models are the outer loop.                                   *)
Jobs(names, mms) ==
    FlattenSeq([m \in DOMAIN mms |-> [i \in DOMAIN names |-> [name |-> names[i], mm |-> mms[m]]]])

Init ==
    /\ \E names \in BoundedSeq(Names, MaxJobs), mms \in {<<"sc">>, <<"tso">>, <<"sc", "tso">>} :
         /\ names # <<>> /\ Len(names) * Len(mms) <= MaxJobs
         /\ jobs = Jobs(names, mms)
    /\ workers \in 1 .. MaxWorkers
    /\ next = 1
    /\ pc = [j \in Js |-> "queued"]
    /\ goto = [f \in {source(j) : j \in Js} \cup {jobs[j] : j \in Js} |-> "torn"]
    /\ log = [f \in {jobs[j] : j \in Js} |-> {}]
    /\ cbmc = [j \in Js |-> NewRun]
    /\ rc = [j \in Js |-> NoRc]
    /\ status = [j \in Js |-> "none"]
    /\ rows = <<>>
    /\ main = "rows"

Terminated == main = "ended" /\ UNCHANGED vars

Next ==
    \/ Take
    \/ \E j \in Js : Step(j) \/ Report(j) \/ Exit(j) \/ OutOfMemory(j)
    \/ Main
    \/ Terminated

(* As long as a thread or a tool can go on, or a time limit is due, one of *)
(* them does; that CBMC finishes is not assumed.                           *)
Fairness == WF_vars(Take \/ Main \/ \E j \in Js : Step(j))

Spec == Init /\ [][Next]_vars /\ Fairness

-----------------------------------------------------------------------------
(* Properties *)

(* No other job writes to the log of job j while it is in use.             *)
OwnLog(j) == workers = 1 \/ \A i \in Js \ {j} : jobs[i] # jobs[j]

(* A verdict in the table is about the job's own run, and the right one for*)
(* its configuration and memory model: a limit can strike at any moment and*)
(* kill either process, and another job of the same configuration may be   *)
(* rewriting the program, but a run that was killed or could not load its  *)
(* program never gets a verdict.  The verdict says which assertions CBMC   *)
(* reported as failing, and no more: what it left UNKNOWN, or had not come *)
(* to when it ran out of memory by itself, counts like a success.          *)
VerdictIsRight ==
    \A i \in DOMAIN rows :
        LET j == rows[i].job IN
        rows[i].status \in Verdicts /\ OwnLog(j) =>
            /\ cbmc[j].end \in {"exit", "nomem"} /\ cbmc[j].props # Nothing
            /\ rows[i].status = "AS-EXPECTED" <=>
                 failed(cbmc[j].props) = IF jobs[j] = [name |-> "mut_nomb_sync", mm |-> "tso"]
                                         THEN Props ELSE {"NoFastFinal"}

(* The table has the jobs in the order of the command line, however the    *)
(* workers finish, and stops at the first name that is not in CONFIGS.     *)
RowsInOrder ==
    /\ \A i \in DOMAIN rows : rows[i].job = i /\ rows[i].status = status[i]
    /\ main = "ended" => \/ Len(rows) = Len(jobs)
                         \/ jobs[Len(rows) + 1].name \notin DOMAIN CONFIGS

(* run.py ends, also when CBMC never does: the time limit sees to that.    *)
RunEnds == <>(main = "ended")

=============================================================================
