--------------------------- MODULE CbmcRunProofs ---------------------------
(***************************************************************************)
(* The rows of results.md, for every list of names, number of workers and  *)
(* order in which the jobs, the tools and the limits go on: they are in    *)
(* the order of the jobs, and each verdict is the right one.               *)
(***************************************************************************)
EXTENDS CbmcRun, FiniteSetTheorems, TLAPS

Job == [name : Names, mm : {"sc", "tso"}]

(* FlattenSeq() of one list, and of two.                                   *)
LEMMA FlattenOne ==
  ASSUME NEW S, NEW a \in Seq(S), NEW seqs, seqs = <<a>>
  PROVE  FlattenSeq(seqs) = a
<1> DEFINE body(f) == [i \in 1 .. Len(seqs) |-> IF i = 1 THEN seqs[i] ELSE f[i - 1] \o seqs[i]]
<1> DEFINE f == CHOOSE f : f = body(f)
<1>1. Len(seqs) = 1 /\ seqs[1] = a
  OBVIOUS
<1>2. \E g : g = body(g)
  <2> WITNESS [i \in 1 .. 1 |-> a]
  <2> QED
    BY <1>1
<1>3. f = body(f)
  BY <1>2
<1>4. f[1] = a
  <2> HIDE DEF f
  <2> QED
    BY <1>1, <1>3
<1>5. FlattenSeq(seqs) = f[1]
  BY <1>1 DEF FlattenSeq
<1> QED
  BY <1>4, <1>5

(* The same for the jobs of both memory models.                            *)
LEMMA FlattenTwo ==
  ASSUME NEW S, NEW a \in Seq(S), NEW b \in Seq(S), NEW seqs, seqs = <<a, b>>
  PROVE  FlattenSeq(seqs) = a \o b
<1> DEFINE body(f) == [i \in 1 .. Len(seqs) |-> IF i = 1 THEN seqs[i] ELSE f[i - 1] \o seqs[i]]
<1> DEFINE f == CHOOSE f : f = body(f)
<1>1. Len(seqs) = 2 /\ seqs[1] = a /\ seqs[2] = b
  OBVIOUS
<1>2. \E g : g = body(g)
  <2> WITNESS [i \in 1 .. 2 |-> IF i = 1 THEN a ELSE a \o b]
  <2> QED
    BY <1>1
<1>3. f = body(f)
  BY <1>2
<1>4. f[2] = a \o b
  <2> HIDE DEF f
  <2> QED
    BY <1>1, <1>3
<1>5. FlattenSeq(seqs) = f[2]
  BY <1>1 DEF FlattenSeq
<1> QED
  BY <1>4, <1>5

-----------------------------------------------------------------------------
(* The jobs *)

(* Every job is a name with a memory model.                                *)
LEMMA JobsTyped ==
  ASSUME NEW names \in Seq(Names), NEW mms \in {<<"sc">>, <<"tso">>, <<"sc", "tso">>}
  PROVE  Jobs(names, mms) \in Seq(Job)
<1> DEFINE of(m) == [i \in DOMAIN names |-> [name |-> names[i], mm |-> m]]
<1>1. \A m \in {"sc", "tso"} : of(m) \in Seq(Job)
  <2> SUFFICES ASSUME NEW m \in {"sc", "tso"}
               PROVE  of(m) \in Seq(Job)
    OBVIOUS
  <2>1. Len(names) \in Nat /\ names \in [1 .. Len(names) -> Names]
    OBVIOUS
  <2>2. of(m) \in [1 .. Len(names) -> Job]
    BY <2>1 DEF Job
  <2> HIDE DEF of
  <2> QED
    BY <2>1, <2>2
<1> DEFINE seqs == [m \in DOMAIN mms |-> of(mms[m])]
<1>2. Jobs(names, mms) = FlattenSeq(seqs)
  BY DEF Jobs
<1> HIDE DEF of
<1>3. CASE mms = <<"sc">> \/ mms = <<"tso">>
  <2>1. seqs = <<of(mms[1])>> /\ mms[1] \in {"sc", "tso"}
    BY <1>3
  <2>2. FlattenSeq(seqs) = of(mms[1])
    <3> HIDE DEF seqs
    <3> QED
      BY <1>1, <2>1, FlattenOne
  <2> QED
    BY <1>1, <1>2, <2>1, <2>2
<1>4. CASE mms = <<"sc", "tso">>
  <2>1. seqs = <<of("sc"), of("tso")>>
    BY <1>4
  <2>2. FlattenSeq(seqs) = of("sc") \o of("tso")
    <3> HIDE DEF seqs
    <3> QED
      BY <1>1, <2>1, FlattenTwo
  <2>3. of("sc") \in Seq(Job) /\ of("tso") \in Seq(Job)
    BY <1>1
  <2>4. of("sc") \o of("tso") \in Seq(Job)
    BY <2>3
  <2> QED
    BY <1>2, <2>2, <2>4
<1> QED
  BY <1>3, <1>4

Output == [end : {"none", "exit", "error", "nomem", "killed"}, props : [Props -> Results], measure : Int]

Places ==
    {"queued", "cancelled", "compile", "compiling", "instrument", "instrumenting", "load",
     "solving", "exited", "measured", "read", "done", "raised"}

Statuses ==
    {"none", "COMPILE-ERROR", "INSTRUMENT-ERROR", "TIMEOUT", "OOM/KILLED", "NO-RESULT",
     "AS-EXPECTED", "MISMATCH"}

Files == {jobs[j] : j \in Js}

TypeInv ==
    /\ jobs \in Seq(Job)
    /\ pc \in [Js -> Places] /\ status \in [Js -> Statuses] /\ rc \in [Js -> Int]
    /\ cbmc \in [Js -> Output] /\ log \in [Files -> SUBSET Js]
    /\ rows \in Seq([job : Int, status : Statuses])

(* CBMC ended by itself, and without a program it has no results.          *)
ByItself(o) == o.end \in {"exit", "nomem", "error"} /\ (o.end = "error" => o.props = Nothing)

(* What is known of job j where its thread is: a limit that killed a       *)
(* process can be told from the status that verdict() goes by, in the line *)
(* of measure.py or else from timeout.                                     *)
JobOk(j) ==
    /\ pc[j] = "raised" => jobs[j].name \notin DOMAIN CONFIGS
    /\ pc[j] \notin {"queued", "cancelled", "raised"} => jobs[j].name \in DOMAIN CONFIGS
    /\ pc[j] \in {"queued", "compile", "compiling", "instrument", "instrumenting", "load"} =>
         cbmc[j] = NewRun
    /\ pc[j] \in {"solving", "exited"} => cbmc[j].measure = NoRc
    /\ pc[j] \in {"exited", "measured"} => ByItself(cbmc[j])
    /\ pc[j] = "measured" => cbmc[j].measure = Ended
    /\ pc[j] = "read" => \/ ByItself(cbmc[j]) /\ cbmc[j].measure = Ended
                         \/ cbmc[j].measure = -9
                         \/ cbmc[j].measure = NoRc /\ rc[j] \in {124, 137}
    /\ pc[j] = "done" /\ status[j] \in Verdicts /\ OwnLog(j) =>
         /\ cbmc[j].end \in {"exit", "nomem"} /\ cbmc[j].props # Nothing
         /\ status[j] = "AS-EXPECTED" <=> Matches(failed(cbmc[j].props), expect(j))

(* With one worker, one job runs at a time; and a job that has a log for   *)
(* itself is alone in it from the time it opens it until it reads it.      *)
OneAtATime == workers = 1 => \A i, j \in Js : Running(i) /\ Running(j) => i = j

LogOk(j) ==
    OwnLog(j) /\ pc[j] \in {"solving", "exited", "measured", "read"} => log[jobs[j]] = {j}

(* The rows are the first jobs, and an exception that the next one's.      *)
RowsOk ==
    /\ \A i \in DOMAIN rows :
         i \in Js /\ pc[i] = "done" /\ rows[i].job = i /\ rows[i].status = status[i]
    /\ main \in {"rows", "raising", "ended"}
    /\ main = "raising" => Len(rows) + 1 \in Js /\ pc[Len(rows) + 1] = "raised"
    /\ main = "ended" => \/ Len(rows) = Len(jobs)
                         \/ jobs[Len(rows) + 1].name \notin DOMAIN CONFIGS

CbmcInv == TypeInv /\ OneAtATime /\ (\A j \in Js : JobOk(j) /\ LogOk(j)) /\ RowsOk

-----------------------------------------------------------------------------
(* The steps of a job *)

(* The thread of job j leaves the other jobs and the main thread alone, and*)
(* is at work until it is done; it may empty its log.                      *)
JobFrame(j) ==
    /\ jobs' = jobs /\ workers' = workers /\ UNCHANGED mainvars
    /\ Running(j)
    /\ pc' \in [Js -> Places] /\ status' \in [Js -> Statuses] /\ rc' \in [Js -> Int]
    /\ cbmc' \in [Js -> Output]
    /\ \A i \in Js \ {j} : /\ pc'[i] = pc[i] /\ status'[i] = status[i]
                           /\ rc'[i] = rc[i] /\ cbmc'[i] = cbmc[i]
    /\ \/ log' = log /\ pc[j] # "load"
       \/ Empties(j) /\ pc[j] \in {"compiling", "instrument", "instrumenting", "load"}

JobNext(j) == Step(j) \/ Report(j) \/ Exit(j) \/ OutOfMemory(j)

(* What CBMC and measure.py write is output.                               *)
LEMMA OutputKept ==
  ASSUME NEW o \in Output
  PROVE  /\ \A e \in {"none", "exit", "error", "nomem", "killed"} : [o EXCEPT !.end = e] \in Output
         /\ \A x \in Int : [o EXCEPT !.measure = x] \in Output
         /\ \A d \in Props, st \in Results : [o EXCEPT !.props[d] = st] \in Output
  BY DEF Output

(* A job's step is its own.                                                *)
LEMMA JobStepFrame ==
  ASSUME TypeInv, NEW j \in Js, JobNext(j)
  PROVE  JobFrame(j)
<1>0. PICK o \in Output : o = cbmc[j]
  BY DEF TypeInv
<1> USE DEF TypeInv, JobFrame, args, mainvars, Places, Statuses, Running
<1>1. CASE CompileBegin(j)
  BY <1>1 DEF CompileBegin, Goes
<1>2. CASE CompileEnd(j)
  BY <1>2 DEF CompileEnd, Goes, Returns
<1>3. CASE InstrumentBegin(j)
  BY <1>3 DEF InstrumentBegin, Goes, Returns
<1>4. CASE InstrumentEnd(j)
  BY <1>4 DEF InstrumentEnd, Goes, Returns
<1>5. CASE Load(j)
  <2>1. [o EXCEPT !.end = "error"] \in Output
    BY <1>0, OutputKept
  <2>2. cbmc' \in [Js -> Output] /\ \A i \in Js \ {j} : cbmc'[i] = cbmc[i]
    BY <1>0, <1>5, <2>1 DEF Load
  <2> QED
    BY <1>5, <2>2 DEF Load, Goes
<1>6. CASE Report(j)
  <2>1. PICK d \in Props, st \in Results : cbmc' = [cbmc EXCEPT ![j].props[d] = st]
    BY <1>6 DEF Report
  <2>2. PICK n \in Output : n = [o EXCEPT !.props[d] = st]
    BY <1>0, OutputKept
  <2>3. cbmc' = [cbmc EXCEPT ![j] = n]
    BY <1>0, <2>1, <2>2
  <2> QED
    BY <1>6, <2>3 DEF Report
<1>7. CASE Exit(j)
  <2>1. PICK n \in Output : n = [o EXCEPT !.end = "exit"]
    BY <1>0, OutputKept
  <2>2. cbmc' = [cbmc EXCEPT ![j] = n]
    BY <1>0, <1>7, <2>1 DEF Exit
  <2> QED
    BY <1>7, <2>2 DEF Exit, Goes
<1>8. CASE Measure(j)
  <2>1. [o EXCEPT !.measure = Ended] \in Output
    <3>1. Ended \in Int
      BY DEF Ended
    <3> HIDE DEF TypeInv
    <3> QED
      BY <3>1, OutputKept
  <2> QED
    BY <1>0, <1>8, <2>1 DEF Measure, Goes
<1>9. CASE Finish(j)
  BY <1>9 DEF Finish, Goes, Ended
<1>10. CASE Timeout(j)
  <2>1. PICK n \in Output : n = [o EXCEPT !.end = IF pc[j] = "solving" THEN "killed" ELSE @]
    <3>1. CASE pc[j] = "solving"
      BY <1>0, <3>1, OutputKept
    <3>2. CASE pc[j] # "solving"
      BY <1>0, <3>2 DEF Output
    <3> QED
      BY <3>1, <3>2
  <2>2. cbmc' = [cbmc EXCEPT ![j] = n]
    BY <1>0, <1>10, <2>1 DEF Timeout
  <2>3. cbmc' \in [Js -> Output] /\ \A i \in Js \ {j} : cbmc'[i] = cbmc[i]
    BY <2>2
  <2> QED
    BY <1>10, <2>3 DEF Timeout
<1>11. CASE OutOfMemory(j)
  <2>1. PICK n \in Output : cbmc' = [cbmc EXCEPT ![j] = n]
    <3>1. PICK k \in Output : k = [o EXCEPT !.end = "killed"]
      BY <1>0, OutputKept
    <3>0. -9 \in Int
      OBVIOUS
    <3>2. [k EXCEPT !.measure = -9] \in Output /\ [o EXCEPT !.end = "nomem"] \in Output
      <4> HIDE DEF TypeInv
      <4> QED
        BY <1>0, <3>0, OutputKept
    <3>3. CASE cbmc' = [cbmc EXCEPT ![j].end = "killed", ![j].measure = -9]
      <4>1. cbmc' = [cbmc EXCEPT ![j] = [k EXCEPT !.measure = -9]]
        BY <1>0, <3>1, <3>3
      <4> QED
        BY <3>2, <4>1
    <3>4. CASE cbmc' = [cbmc EXCEPT ![j].end = "killed"]
      <4>1. cbmc' = [cbmc EXCEPT ![j] = k]
        BY <1>0, <3>1, <3>4
      <4> QED
        BY <4>1
    <3>5. CASE cbmc' = [cbmc EXCEPT ![j].end = "nomem"]
      <4>1. cbmc' = [cbmc EXCEPT ![j] = [o EXCEPT !.end = "nomem"]]
        BY <1>0, <3>5
      <4> QED
        BY <3>2, <4>1
    <3> QED
      BY <1>11, <3>3, <3>4, <3>5 DEF OutOfMemory
  <2>2. pc' \in [Js -> Places] /\ rc' \in [Js -> Int] /\ \A i \in Js \ {j} : pc'[i] = pc[i] /\ rc'[i] = rc[i]
    BY <1>11 DEF OutOfMemory
  <2> QED
    BY <1>11, <2>1, <2>2 DEF OutOfMemory
<1>12. CASE Evaluate(j)
  <2>1. \A l : verdict(j, l) \in Statuses
    BY DEF verdict
  <2> QED
    BY <1>12, <2>1 DEF Evaluate, Goes, Returns, NoRc
<1> QED
  BY <1>1, <1>2, <1>3, <1>4, <1>5, <1>6, <1>7, <1>8, <1>9, <1>10, <1>11, <1>12 DEF JobNext, Step

(* A job's step keeps what is known of it.                                 *)
LEMMA JobStepOk ==
  ASSUME TypeInv, NEW j \in Js, JobOk(j), LogOk(j), JobNext(j), JobFrame(j)
  PROVE  JobOk(j)'
<1>1. /\ jobs' = jobs /\ workers' = workers /\ Js' = Js
      /\ cbmc[j] \in Output /\ cbmc'[j] \in Output
  BY DEF TypeInv, JobFrame, Js
<1>2. cbmc'[j] = cbmc[j] => (ByItself(cbmc[j])' <=> ByItself(cbmc[j]))
  BY DEF ByItself
<1>3. expect(j)' = expect(j) /\ (OwnLog(j)' <=> OwnLog(j))
  BY <1>1 DEF expect, OwnLog
<1> USE <1>1, <1>2 DEF TypeInv, JobOk, args, mainvars
<1> HIDE DEF ByItself, failed, expect, Matches, OwnLog
<1>4. CASE CompileBegin(j)
  BY <1>4 DEF CompileBegin, Goes
<1>5. CASE CompileEnd(j)
  BY <1>5 DEF CompileEnd, Goes, Returns, Verdicts
<1>6. CASE InstrumentBegin(j)
  BY <1>6 DEF InstrumentBegin, Goes, Returns, Verdicts
<1>7. CASE InstrumentEnd(j)
  BY <1>7 DEF InstrumentEnd, Goes, Returns, Verdicts
<1>8. CASE Load(j)
  <2>1. cbmc[j] = NewRun /\ cbmc[j].measure = NoRc /\ cbmc[j].props = Nothing
    BY <1>8 DEF Load, Goes, NewRun
  <2>2. CASE Goes(j, "load", "solving") /\ cbmc' = cbmc
    BY <2>1, <2>2 DEF Goes
  <2>3. CASE Goes(j, "load", "exited") /\ cbmc' = [cbmc EXCEPT ![j].end = "error"]
    <3>1. cbmc'[j].end = "error" /\ cbmc'[j].props = Nothing /\ cbmc'[j].measure = NoRc
      BY <2>1, <2>3 DEF Output
    <3>2. ByItself(cbmc[j])'
      BY <3>1 DEF ByItself, Nothing, Props
    <3> QED
      BY <2>3, <3>1, <3>2 DEF Goes
  <2> QED
    BY <1>8, <2>2, <2>3 DEF Load
<1>9. CASE Report(j)
  <2>1. pc[j] = "solving" /\ pc' = pc
    BY <1>9 DEF Report
  <2>2. cbmc'[j].measure = cbmc[j].measure
    BY <1>9 DEF Report, Output
  <2> QED
    BY <2>1, <2>2
<1>10. CASE Exit(j)
  <2>1. cbmc'[j].end = "exit" /\ cbmc'[j].measure = cbmc[j].measure
    BY <1>10 DEF Exit, Output
  <2>2. ByItself(cbmc[j])'
    BY <2>1 DEF ByItself
  <2> QED
    BY <1>10, <2>1, <2>2 DEF Exit, Goes
<1>11. CASE Measure(j)
  <2>1. /\ cbmc'[j].end = cbmc[j].end /\ cbmc'[j].props = cbmc[j].props
        /\ cbmc'[j].measure = Ended
    BY <1>11 DEF Measure, Output
  <2>2. ByItself(cbmc[j]) => ByItself(cbmc[j])'
    BY <2>1 DEF ByItself, Nothing, Props
  <2> QED
    BY <1>11, <2>1, <2>2 DEF Measure, Goes
<1>12. CASE Finish(j)
  BY <1>12 DEF Finish, Goes, Ended
<1>13. CASE Timeout(j)
  <2>1. cbmc'[j].measure = cbmc[j].measure /\ (pc[j] # "solving" => cbmc'[j] = cbmc[j])
    BY <1>13 DEF Timeout, Output
  <2> QED
    BY <1>13, <2>1 DEF Timeout
<1>14. CASE OutOfMemory(j)
  <2>1. CASE pc'[j] = "read" /\ cbmc' = [cbmc EXCEPT ![j].end = "killed", ![j].measure = -9]
    <3>1. cbmc'[j].measure = -9
      BY <2>1 DEF Output
    <3> QED
      BY <1>14, <2>1, <3>1 DEF OutOfMemory
  <2>2. CASE pc'[j] = "read" /\ rc'[j] = 137 /\ cbmc' = [cbmc EXCEPT ![j].end = "killed"]
    <3>1. cbmc'[j].measure = NoRc
      BY <1>14, <2>2 DEF Output, OutOfMemory
    <3> QED
      BY <1>14, <2>2, <3>1 DEF OutOfMemory
  <2>3. CASE pc'[j] = "exited" /\ cbmc' = [cbmc EXCEPT ![j].end = "nomem"]
    <3>1. cbmc'[j].measure = NoRc /\ cbmc'[j].end = "nomem"
      BY <1>14, <2>3 DEF Output, OutOfMemory
    <3>2. ByItself(cbmc[j])'
      BY <3>1 DEF ByItself
    <3> QED
      BY <1>14, <2>3, <3>1, <3>2 DEF OutOfMemory
  <2>4. \/ pc'[j] = "read" /\ cbmc' = [cbmc EXCEPT ![j].end = "killed", ![j].measure = -9]
        \/ pc'[j] = "read" /\ rc'[j] = 137 /\ cbmc' = [cbmc EXCEPT ![j].end = "killed"]
        \/ pc'[j] = "exited" /\ cbmc' = [cbmc EXCEPT ![j].end = "nomem"]
    <3> HIDE DEF JobOk
    <3> QED
      BY <1>14 DEF OutOfMemory
  <2> QED
    <3> HIDE DEF JobOk
    <3> QED
      BY <2>1, <2>2, <2>3, <2>4
<1>15. CASE Evaluate(j)
  <2>1. PICK l \in Contents(j) :
           /\ pc[j] = "read" /\ pc'[j] = "done" /\ status'[j] = verdict(j, l)
           /\ cbmc' = cbmc
    BY <1>15 DEF Evaluate, Returns, Goes
  <2>2. OwnLog(j) => l = [props |-> cbmc[j].props, measure |-> cbmc[j].measure]
    BY <2>1 DEF LogOk, Contents
  <2>3. OwnLog(j) => l.props = cbmc[j].props /\ l.measure = cbmc[j].measure
    BY <2>2
  <2>4. ASSUME OwnLog(j), status'[j] \in Verdicts
        PROVE  /\ cbmc[j].end \in {"exit", "nomem"} /\ cbmc[j].props # Nothing
               /\ status'[j] = "AS-EXPECTED" <=> Matches(failed(cbmc[j].props), expect(j))
    BY <2>1, <2>3, <2>4 DEF verdict, ByItself, NoRc, Ended, Verdicts
  <2>5. failed(cbmc[j].props)' = failed(cbmc[j].props) /\ cbmc'[j] = cbmc[j]
    BY <2>1 DEF failed
  <2> QED
    BY <1>3, <2>1, <2>4, <2>5 DEF Nothing, Props, Matches
<1> QED
  BY <1>4, <1>5, <1>6, <1>7, <1>8, <1>9, <1>10, <1>11, <1>12, <1>13, <1>14, <1>15 DEF JobNext, Step

(* Nor does it disturb the log of a job that has it for itself.            *)
LEMMA JobStepLog ==
  ASSUME TypeInv, OneAtATime, NEW j \in Js, JobNext(j), JobFrame(j), NEW i \in Js, LogOk(i)
  PROVE  LogOk(i)'
<1>1. jobs' = jobs /\ Js' = Js /\ (OwnLog(i)' <=> OwnLog(i)) /\ jobs[j] \in Files /\ jobs[i] \in Files
  BY DEF JobFrame, OwnLog, Js, Files
<1> SUFFICES ASSUME OwnLog(i), pc'[i] \in {"solving", "exited", "measured", "read"}
             PROVE  log'[jobs[i]] = {i}
  BY <1>1 DEF LogOk
<1>2. CASE i # j
  <2>1. pc'[i] = pc[i] /\ Running(j)
    BY <1>2 DEF JobFrame
  <2>2. log[jobs[i]] = {i} /\ Running(i)
    BY <2>1 DEF LogOk, Running
  <2>3. jobs[i] # jobs[j]
    BY <1>2, <2>1, <2>2 DEF OwnLog, OneAtATime
  <2> QED
    BY <1>1, <2>2, <2>3 DEF JobFrame, Empties, TypeInv
<1>3. CASE i = j /\ log' = log /\ pc[j] # "load"
  <2>1. pc[j] \in {"solving", "exited", "measured", "read"}
    BY <1>3 DEF JobNext, Step, CompileBegin, CompileEnd, InstrumentBegin, InstrumentEnd, Load, Report, Exit, Measure,
                Finish, Timeout, OutOfMemory, Evaluate, Goes, Returns, JobFrame, Running, TypeInv, Places
  <2> QED
    BY <1>3, <2>1 DEF LogOk
<1>4. CASE i = j /\ Empties(j)
  <2>1. \A k \in Js : jobs[k] = jobs[j] /\ pc[k] \in {"solving", "exited"} => k = j
    BY <1>4 DEF OwnLog, OneAtATime, JobFrame, Running
  <2>2. log'[jobs[j]] = {j} \cup {k \in Js : jobs[k] = jobs[j] /\ pc[k] \in {"solving", "exited"}}
    BY <1>1, <1>4 DEF Empties, TypeInv
  <2> QED
    BY <1>4, <2>1, <2>2
<1> QED
  BY <1>2, <1>3, <1>4 DEF JobFrame

-----------------------------------------------------------------------------
(* The verdict *)

(* Matches() asks for exactly the failures of the table: on TSO, without   *)
(* the barrier, all there are here; NoFastFinal alone in the other cases.  *)
LEMMA MatchesRight ==
  ASSUME TypeInv, NEW j \in Js, jobs[j].name \in DOMAIN CONFIGS, NEW found \in SUBSET Props
  PROVE  Matches(found, expect(j)) <=>
           found = IF jobs[j] = [name |-> "mut_nomb_sync", mm |-> "tso"]
                   THEN Props ELSE {"NoFastFinal"}
<1>0. jobs[j] \in Job
  BY DEF TypeInv, Js
<1>1. jobs[j].name \in {"sync", "mut_nomb_sync"} /\ jobs[j].mm \in {"sc", "tso"}
  BY <1>0 DEF Job, CONFIGS
<1>2. jobs[j] = [name |-> "mut_nomb_sync", mm |-> "tso"] <=>
        jobs[j].name = "mut_nomb_sync" /\ jobs[j].mm = "tso"
  BY <1>0 DEF Job
<1>3. CASE jobs[j].name = "mut_nomb_sync" /\ jobs[j].mm = "tso"
  <2>1. expect(j) = <<{"NoFastFinal"}, {"SyncClean", "DoomedIsLast", "Freed"}>>
    BY <1>3 DEF expect, TSO_EXPECT
  <2>2. Matches(found, expect(j)) <=>
          /\ \A d \in found : d \in {"NoFastFinal"} \/ d \in {"SyncClean", "DoomedIsLast", "Freed"}
          /\ {"NoFastFinal"} \cap found # {}
          /\ {"SyncClean", "DoomedIsLast", "Freed"} \cap found # {}
    BY <2>1 DEF Matches
  <2> QED
    BY <1>2, <1>3, <2>2 DEF Props
<1>4. CASE ~(jobs[j].name = "mut_nomb_sync" /\ jobs[j].mm = "tso")
  <2>1. expect(j) = <<{"NoFastFinal"}>>
    BY <1>1, <1>4 DEF expect, TSO_EXPECT, CONFIGS
  <2>2. Matches(found, expect(j)) <=>
          (\A d \in found : d \in {"NoFastFinal"}) /\ {"NoFastFinal"} \cap found # {}
    BY <2>1 DEF Matches
  <2> QED
    BY <1>2, <1>4, <2>2
<1> QED
  BY <1>3, <1>4

-----------------------------------------------------------------------------
(* The invariant *)

(* Nothing was run yet.                                                    *)
LEMMA CbmcInit == Init => CbmcInv
<1> SUFFICES ASSUME Init
             PROVE  CbmcInv
  OBVIOUS
<1>1. jobs \in Seq(Job)
  <2>1. PICK names \in BoundedSeq(Names, MaxJobs), mms \in {<<"sc">>, <<"tso">>, <<"sc", "tso">>} :
          jobs = Jobs(names, mms)
    BY DEF Init
  <2>2. PICK n \in 0 .. MaxJobs : names \in [1 .. n -> Names]
    BY DEF BoundedSeq, SeqOf
  <2>3. n \in Nat
    BY CbmcRunAssumption
  <2>4. names \in Seq(Names)
    BY <2>2, <2>3
  <2> QED
    BY <2>1, <2>4, JobsTyped
<1>2. TypeInv
  <2>1. NewRun \in Output
    BY DEF NewRun, NoRc, Output, Nothing, Results
  <2> QED
    BY <1>1, <2>1 DEF Init, TypeInv, Places, Statuses, NoRc, Files
<1>3. OneAtATime /\ \A j \in Js : JobOk(j) /\ LogOk(j)
  BY DEF Init, JobOk, LogOk, OneAtATime, Running
<1>4. RowsOk
  BY DEF Init, RowsOk
<1> QED
  BY <1>2, <1>3, <1>4 DEF CbmcInv

(* A step that leaves a job alone leaves what is known of it.              *)
LEMMA JobKept ==
  ASSUME NEW j, JobOk(j), jobs' = jobs, workers' = workers, pc'[j] = pc[j], status'[j] = status[j],
         rc'[j] = rc[j], cbmc'[j] = cbmc[j]
  PROVE  JobOk(j)'
<1>1. /\ ByItself(cbmc[j])' <=> ByItself(cbmc[j])
      /\ failed(cbmc[j].props)' = failed(cbmc[j].props) /\ expect(j)' = expect(j)
      /\ OwnLog(j)' <=> OwnLog(j)
      /\ NewRun' = NewRun /\ Nothing' = Nothing
  BY DEF ByItself, failed, expect, OwnLog, Js, NewRun, Nothing, Props
<1> QED
  BY <1>1 DEF JobOk, Matches

(* The same for its log.                                                   *)
LEMMA LogKept ==
  ASSUME NEW j, LogOk(j), jobs' = jobs, workers' = workers, log' = log,
         pc'[j] \in {"solving", "exited", "measured", "read"} => pc'[j] = pc[j]
  PROVE  LogOk(j)'
  BY DEF LogOk, OwnLog, Js

(* Every step of the driver and of the tools keeps the invariant.          *)
LEMMA CbmcInductive == CbmcInv /\ [Next]_vars => CbmcInv'
<1> SUFFICES ASSUME CbmcInv, [Next]_vars
             PROVE  CbmcInv'
  OBVIOUS
<1>1. TypeInv /\ RowsOk /\ OneAtATime /\ \A j \in Js : JobOk(j) /\ LogOk(j)
  BY DEF CbmcInv
<1>2. ASSUME UNCHANGED vars
      PROVE  CbmcInv'
  <2>1. TypeInv' /\ RowsOk' /\ OneAtATime'
    <3>1. TypeInv'
      BY <1>1, <1>2 DEF TypeInv, vars, Js, Files
    <3>2. RowsOk' /\ OneAtATime'
      BY <1>1, <1>2 DEF RowsOk, OneAtATime, Running, vars, Js
    <3> QED
      BY <3>1, <3>2
  <2>2. \A j \in Js : JobOk(j)' /\ LogOk(j)'
    BY <1>1, <1>2, JobKept, LogKept DEF vars
  <2> QED
    BY <1>2, <2>1, <2>2 DEF CbmcInv, vars, Js
<1>3. CASE Take
  <2>1. /\ jobs' = jobs /\ workers' = workers /\ Js' = Js /\ Files' = Files
        /\ status' = status /\ rc' = rc /\ log' = log /\ cbmc' = cbmc
        /\ rows' = rows /\ main' = main
    BY <1>3 DEF Take, args, mainvars, Js, Files
  <2>2. /\ pc' \in [Js -> Places]
        /\ \A j \in Js : \/ pc'[j] = pc[j]
                         \/ /\ pc[j] = "queued" /\ j = next
                            /\ pc'[j] = IF jobs[j].name \in DOMAIN CONFIGS THEN "compile" ELSE "raised"
    BY <1>1, <1>3 DEF Take, TypeInv, Places
  <2>3. TypeInv'
    BY <1>1, <2>1, <2>2 DEF TypeInv
  <2>4. ASSUME NEW j \in Js
        PROVE  JobOk(j)' /\ LogOk(j)'
    <3>1. CASE pc'[j] = pc[j]
      BY <1>1, <2>1, <3>1, JobKept, LogKept
    <3>2. CASE pc'[j] # pc[j]
      <4>1. /\ pc[j] = "queued" /\ cbmc'[j] = cbmc[j] /\ NewRun' = NewRun
            /\ pc'[j] = IF jobs[j].name \in DOMAIN CONFIGS THEN "compile" ELSE "raised"
        BY <2>1, <2>2, <3>2 DEF NewRun, Nothing, Props
      <4>2. cbmc[j] = NewRun
        BY <1>1, <4>1 DEF JobOk
      <4>3. JobOk(j)'
        BY <2>1, <4>1, <4>2 DEF JobOk
      <4> QED
        BY <4>1, <4>3 DEF LogOk
    <3> QED
      BY <3>1, <3>2
  <2>5. RowsOk'
    BY <1>1, <2>1, <2>2 DEF RowsOk
  <2>6. OneAtATime'
    <3>1. ASSUME workers = 1
          PROVE  \A j \in Js : ~Running(j)
      <4>1. Cardinality({j \in Js : Running(j)}) < 1
        BY <1>3, <3>1 DEF Take
      <4>2. IsFiniteSet({j \in Js : Running(j)})
        <5>1. IsFiniteSet(1 .. Len(jobs))
          BY <1>1, FS_Interval DEF TypeInv
        <5>2. IsFiniteSet(Js)
          BY <1>1, <5>1 DEF TypeInv, Js
        <5> QED
          BY <5>2, FS_Subset
      <4>3. Cardinality({j \in Js : Running(j)}) = 0
        BY <4>1, <4>2, FS_CardinalityType
      <4> QED
        BY <4>2, <4>3, FS_EmptySet
    <3> QED
      BY <2>1, <2>2, <3>1 DEF OneAtATime, Running
  <2> QED
    BY <2>1, <2>3, <2>4, <2>5, <2>6 DEF CbmcInv
<1>4. CASE \E j \in Js : JobNext(j)
  <2>1. PICK j \in Js : JobNext(j)
    BY <1>4
  <2>2. JobFrame(j)
    BY <1>1, <2>1, JobStepFrame
  <2>3. jobs' = jobs /\ Js' = Js /\ Files' = Files /\ rows' = rows /\ main' = main
    BY <2>2 DEF JobFrame, mainvars, Js, Files
  <2>4. TypeInv'
    <3>1. log' \in [Files -> SUBSET Js]
      BY <1>1, <2>2 DEF TypeInv, JobFrame, Empties
    <3> QED
      BY <1>1, <2>2, <2>3, <3>1 DEF TypeInv, JobFrame
  <2>5. ASSUME NEW i \in Js
        PROVE  JobOk(i)' /\ LogOk(i)'
    <3>1. JobOk(j)'
      BY <1>1, <2>1, <2>2, JobStepOk
    <3>2. ASSUME i # j
          PROVE  JobOk(i)'
      <4>1. /\ JobOk(i) /\ jobs' = jobs /\ workers' = workers
            /\ pc'[i] = pc[i] /\ status'[i] = status[i] /\ rc'[i] = rc[i] /\ cbmc'[i] = cbmc[i]
        BY <1>1, <2>2, <3>2 DEF JobFrame
      <4> QED
        BY <4>1, JobKept
    <3>3. LogOk(i)'
      BY <1>1, <2>1, <2>2, JobStepLog
    <3> QED
      BY <3>1, <3>2, <3>3
  <2>6. RowsOk'
    BY <1>1, <2>2, <2>3 DEF RowsOk, JobFrame, Running
  <2>7. OneAtATime'
    <3>1. \A i \in Js : Running(i)' => Running(i)
      BY <2>2 DEF JobFrame, Running
    <3> QED
      BY <1>1, <2>2, <2>3, <3>1 DEF OneAtATime, JobFrame
  <2> QED
    BY <2>3, <2>4, <2>5, <2>6, <2>7 DEF CbmcInv
<1>5. CASE append_results
  <2>1. PICK j : j = Len(rows) + 1
    OBVIOUS
  <2>2. /\ main = "rows" /\ j \in Js /\ pc[j] = "done"
        /\ rows' = Append(rows, [job |-> j, status |-> status[j]])
        /\ UNCHANGED <<jobs, workers, pc, log, cbmc, rc, status, main>> /\ Js' = Js /\ Files' = Files
    BY <1>5, <2>1 DEF append_results, args, Js, Files
  <2>3. /\ Len(rows) \in Nat /\ DOMAIN rows = 1 .. Len(rows) /\ j \in Int
        /\ [job |-> j, status |-> status[j]] \in [job : Int, status : Statuses]
    BY <1>1, <2>1, <2>2 DEF TypeInv
  <2>4. /\ rows' \in Seq([job : Int, status : Statuses])
        /\ DOMAIN rows' = 1 .. (Len(rows) + 1)
        /\ \A i \in 1 .. Len(rows) : rows'[i] = rows[i]
        /\ rows'[j] = [job |-> j, status |-> status[j]]
    BY <1>1, <2>1, <2>2, <2>3 DEF TypeInv
  <2>5. TypeInv'
    BY <1>1, <2>2, <2>4 DEF TypeInv
  <2>6. OneAtATime' /\ \A i \in Js : JobOk(i)' /\ LogOk(i)'
    BY <1>1, <2>2, JobKept, LogKept DEF OneAtATime, Running
  <2>7. RowsOk'
    <3>1. \A i \in DOMAIN rows' :
             i \in Js /\ pc[i] = "done" /\ rows'[i].job = i /\ rows'[i].status = status[i]
      <4> SUFFICES ASSUME NEW i \in 1 .. (Len(rows) + 1)
                   PROVE  /\ i \in Js /\ pc[i] = "done"
                          /\ rows'[i].job = i /\ rows'[i].status = status[i]
        BY <2>4
      <4>1. CASE i = j
        BY <2>2, <2>4, <4>1
      <4>2. CASE i # j
        <5>1. i \in 1 .. Len(rows)
          BY <2>1, <2>3, <4>2
        <5> QED
          BY <1>1, <2>3, <2>4, <5>1 DEF RowsOk
      <4> QED
        BY <4>1, <4>2
    <3> QED
      BY <2>2, <3>1 DEF RowsOk
  <2> QED
    BY <2>2, <2>5, <2>6, <2>7 DEF CbmcInv
<1>6. CASE Raise
  <2>1. /\ UNCHANGED <<jobs, workers, log, cbmc, rc, status, rows>> /\ Js' = Js /\ Files' = Files
        /\ main' = "raising" /\ Len(rows) + 1 \in Js /\ pc[Len(rows) + 1] = "raised"
        /\ pc' = [i \in Js |-> IF pc[i] = "queued" THEN "cancelled" ELSE pc[i]]
    BY <1>6 DEF Raise, args, Js, Files
  <2>2. TypeInv'
    BY <1>1, <2>1 DEF TypeInv, Places
  <2>3. ASSUME NEW i \in Js
        PROVE  JobOk(i)' /\ LogOk(i)'
    <3>1. CASE pc[i] = "queued"
      BY <2>1, <3>1 DEF JobOk, LogOk
    <3>2. CASE pc[i] # "queued"
      BY <1>1, <2>1, <3>2, JobKept, LogKept
    <3> QED
      BY <3>1, <3>2
  <2>4. RowsOk' /\ OneAtATime'
    BY <1>1, <2>1 DEF RowsOk, OneAtATime, Running
  <2> QED
    BY <2>1, <2>2, <2>3, <2>4 DEF CbmcInv
<1>7. CASE Leave
  <2>1. /\ UNCHANGED <<jobs, workers, pc, log, cbmc, rc, status, rows>> /\ Js' = Js /\ Files' = Files
        /\ main' = "ended" /\ (Len(rows) = Len(jobs) \/ main = "raising")
    BY <1>7 DEF Leave, args, Js, Files
  <2>2. TypeInv' /\ OneAtATime' /\ \A i \in Js : JobOk(i)' /\ LogOk(i)'
    BY <1>1, <2>1, JobKept, LogKept DEF TypeInv, OneAtATime, Running
  <2>3. main = "raising" => jobs[Len(rows) + 1].name \notin DOMAIN CONFIGS
    BY <1>1 DEF RowsOk, JobOk
  <2>4. RowsOk'
    BY <1>1, <2>1, <2>3 DEF RowsOk
  <2> QED
    BY <2>1, <2>2, <2>4 DEF CbmcInv
<1> QED
  BY <1>2, <1>3, <1>4, <1>5, <1>6, <1>7 DEF Next, Main, Terminated, JobNext

(* The invariant, in every reachable state.                                *)
LEMMA CbmcAlways == Spec => []CbmcInv
  BY CbmcInit, CbmcInductive, PTL DEF Spec

(* RowsInOrder: results.md has the jobs in the order of the command line,  *)
(* with the statuses that run_one() returned, and ends early only before a *)
(* name that is not in CONFIGS.                                            *)
THEOREM RowsCorrect == Spec => []RowsInOrder
<1>1. CbmcInv => RowsInOrder
  BY DEF CbmcInv, RowsOk, RowsInOrder
<1> QED
  BY <1>1, CbmcAlways, PTL

(* VerdictIsRight: whichever process a time or memory limit killed, and    *)
(* whoever rewrote the program meanwhile, a row with a verdict stands for  *)
(* a run that CBMC ended by itself with results in a log of its own, and   *)
(* the verdict is what the failures that it reported and the table say.    *)
THEOREM VerdictCorrect == Spec => []VerdictIsRight
<1>1. CbmcInv => VerdictIsRight
  <2> SUFFICES ASSUME CbmcInv, NEW i \in DOMAIN rows, rows[i].status \in Verdicts, OwnLog(rows[i].job)
               PROVE  /\ cbmc[rows[i].job].end \in {"exit", "nomem"}
                      /\ cbmc[rows[i].job].props # Nothing
                      /\ rows[i].status = "AS-EXPECTED" <=>
                           failed(cbmc[rows[i].job].props) =
                             IF jobs[rows[i].job] = [name |-> "mut_nomb_sync", mm |-> "tso"]
                             THEN Props ELSE {"NoFastFinal"}
    BY DEF VerdictIsRight
  <2>1. /\ i \in Js /\ pc[i] = "done" /\ rows[i].job = i /\ rows[i].status = status[i]
        /\ TypeInv /\ JobOk(i)
    BY DEF CbmcInv, RowsOk
  <2>2. /\ cbmc[i].end \in {"exit", "nomem"} /\ cbmc[i].props # Nothing
        /\ jobs[i].name \in DOMAIN CONFIGS
        /\ status[i] = "AS-EXPECTED" <=> Matches(failed(cbmc[i].props), expect(i))
    BY <2>1 DEF JobOk
  <2>3. failed(cbmc[i].props) \in SUBSET Props
    BY DEF failed
  <2> QED
    BY <2>1, <2>2, <2>3, MatchesRight
<1> QED
  BY <1>1, CbmcAlways, PTL

=============================================================================
