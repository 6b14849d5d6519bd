---------------------------- MODULE VmRunsProofs ----------------------------
(***************************************************************************)
(* The results of vm-run-tests.py and of the probe, for any number of      *)
(* runs, directories and scripts: what is printed comes from the run's own *)
(* VM, and the probe's lines answer its question.                          *)
(***************************************************************************)
EXTENDS VmRuns, SequenceTheorems, TLAPS

-----------------------------------------------------------------------------
(* The probe *)

Line == [tag : Tags, entry : BOOLEAN, held : BOOLEAN]

(* The probe has registered the namespace, and has not stopped the service.*)
Kept == {"drop", "t+2s", "t+4s", "t+6s", "stop"}

(* The probe has dropped its own references.                               *)
Dropped == {"t+2s", "t+4s", "t+6s", "stop", "stopped", "start", "restarted", "journal"}

ProbeType ==
    /\ refs \subseteq ClientSide \cup {"server", "pid1"}
    /\ conn \in {"none", "asked", "stored", "pushed", "answered", "error", "closed"}
    /\ reply \in {"none", "answer", "empty"}
    /\ entry \in BOOLEAN /\ pins \in BOOLEAN /\ got \in BOOLEAN
    /\ probe \in {"receive", "wait", "connect", "reply", "registered", "drop", "t+2s", "t+4s",
                  "t+6s", "stop", "stopped", "start", "restarted", "journal", "exit"}
    /\ lines \in Seq(Line)

(* Who may hold a reference: the child while it lives, the message from    *)
(* when it is sent until it is received, the probe until it drops its own, *)
(* the service and PID 1 once they were asked.                             *)
Holders ==
    /\ "child" \in refs => child \in {"made", "sent"}
    /\ "flight" \in refs => child \in {"sent", "exited"} /\ ~got
    /\ got => child \in {"sent", "exited"}
    /\ probe \notin {"receive", "wait", "exit"} => got /\ Exited
    /\ probe = "receive" => ~got
    /\ probe = "wait" /\ got => "client" \in refs
    /\ probe \in Dropped => "client" \notin refs /\ conn = "none"
    /\ probe \in {"receive", "wait", "connect"} => conn = "none"
    /\ probe \in {"receive", "wait", "connect"} => refs \cap {"pid1", "server"} = {} /\ ~entry
    /\ probe \in {"connect", "reply", "registered", "drop"} => "client" \in refs
    /\ "pid1" \in refs => pins /\ (probe = "exit" \/ entry)
    /\ probe = "registered" \/ probe \in Kept => conn \in {"none", "answered", "closed"}

(* How far the worker got, as long as the probe waits for it.              *)
Served ==
    /\ probe = "reply" /\ conn \in {"stored", "pushed", "answered"} => entry
    /\ probe = "reply" /\ conn \in {"pushed", "answered"} /\ pins => "pid1" \in refs
    /\ probe \in {"receive", "wait", "connect", "reply"} => reply = "none"
    /\ probe = "registered" /\ reply = "answer" => entry /\ (pins => "pid1" \in refs)

(* What a line says of PID 1 and the registry, given the first one.        *)
LineTells(l, first) ==
    /\ l.tag \in {"registered", "t+2s", "t+4s", "t+6s"} => (l.held => pins /\ l.entry)
    /\ l.tag \in {"registered", "t+2s", "t+4s", "t+6s"} => (l.held <=> first.held)
    /\ l.tag = "restarted" => ~l.entry /\ ~l.held

Told ==
    /\ probe \in {"receive", "wait", "connect", "reply", "registered"} => lines = <<>>
    /\ probe \in Kept \cup {"stopped", "start", "restarted", "journal"} => lines # <<>>
    /\ lines # <<>> => /\ lines[1].tag = "registered"
                       /\ reply = "answer" => lines[1].entry /\ (pins => lines[1].held)
    /\ probe \in Kept => (lines[1].held <=> "pid1" \in refs)
    /\ probe \in {"stopped", "start", "restarted", "journal"} => refs = {}
    /\ probe \in {"restarted", "journal"} => ~entry
    /\ \A i \in DOMAIN lines : LineTells(lines[i], lines[1])

ProbeInv == ProbeType /\ Holders /\ Served /\ Told

(* A line more.                                                            *)
LEMMA LineAdded ==
  ASSUME ProbeType, NEW tag \in Tags, NEW next, status(tag, next)
  PROVE  /\ lines' \in Seq(Line) /\ lines' # <<>>
         /\ lines # <<>> => lines'[1] = lines[1]
         /\ lines = <<>> => lines'[1] = [tag |-> tag, entry |-> entry, held |-> "pid1" \in refs]
         /\ \A i \in DOMAIN lines' :
              \/ i \in DOMAIN lines /\ lines'[i] = lines[i]
              \/ lines'[i] = [tag |-> tag, entry |-> entry, held |-> "pid1" \in refs]
<1>1. PICK l : l = [tag |-> tag, entry |-> entry, held |-> "pid1" \in refs]
  OBVIOUS
<1>2. l \in Line /\ lines \in Seq(Line) /\ lines' = Append(lines, l)
  BY <1>1 DEF ProbeType, Line, status
<1>3. /\ lines' \in Seq(Line) /\ lines' # <<>> /\ Len(lines') = Len(lines) + 1
      /\ \A i \in 1 .. Len(lines) : lines'[i] = lines[i]
      /\ lines'[Len(lines) + 1] = l
  BY <1>2, AppendProperties
<1>4. /\ Len(lines) \in Nat /\ DOMAIN lines = 1 .. Len(lines)
      /\ DOMAIN lines' = 1 .. (Len(lines) + 1)
      /\ lines = <<>> <=> Len(lines) = 0
  BY <1>2, <1>3
<1>5. lines # <<>> => lines'[1] = lines[1]
  BY <1>3, <1>4
<1>6. lines = <<>> => lines'[1] = l
  BY <1>3, <1>4
<1>7. \A i \in DOMAIN lines' : (i \in DOMAIN lines /\ lines'[i] = lines[i]) \/ lines'[i] = l
  BY <1>3, <1>4
<1> QED
  BY <1>1, <1>3, <1>5, <1>6, <1>7

(* status() tells what there is.                                           *)
LEMMA StatusTells ==
  ASSUME ProbeInv,
         NEW tag \in Tags, NEW next,
         <<tag, next>> \in {<<"registered", "drop">>, <<"t+2s", "t+4s">>, <<"t+4s", "t+6s">>,
                          <<"t+6s", "stop">>, <<"stopped", "start">>, <<"restarted", "journal">>},
         status(tag, next)
  PROVE  ProbeInv'
<1>1. ProbeType /\ Holders /\ Served /\ Told
  BY DEF ProbeInv
<1>2. /\ probe = tag /\ probe' = next
      /\ UNCHANGED <<child, got, refs, conn, reply, entry, service, pins>>
  BY DEF status, ProbeGoes
<1>3. PICK l : l = [tag |-> tag, entry |-> entry, held |-> "pid1" \in refs]
  OBVIOUS
<1>4. /\ lines' \in Seq(Line) /\ lines' # <<>>
      /\ lines # <<>> => lines'[1] = lines[1]
      /\ lines = <<>> => lines'[1] = l
      /\ \A i \in DOMAIN lines' : (i \in DOMAIN lines /\ lines'[i] = lines[i]) \/ lines'[i] = l
  BY <1>1, <1>3, LineAdded
<1>5. l.tag = tag /\ (l.entry <=> entry) /\ (l.held <=> "pid1" \in refs)
  <2>1. entry \in BOOLEAN
    BY <1>1 DEF ProbeType
  <2>2. l.tag = tag /\ l.entry = entry /\ l.held = ("pid1" \in refs)
    BY <1>3, Zenon
  <2>3. l.entry <=> entry
    BY <2>1, <2>2, Zenon
  <2>4. l.held <=> "pid1" \in refs
    BY <2>2, Zenon
  <2> QED
    BY <2>2, <2>3, <2>4, Zenon
<1>6. ProbeType'
  BY <1>1, <1>2, <1>4 DEF ProbeType
<1>7. Holders'
  BY <1>1, <1>2 DEF Holders, Exited, Kept, Dropped
<1>8. tag = "registered" <=> lines = <<>>
  BY <1>1, <1>2 DEF Told, Kept, Tags
<1>9. Served'
  BY <1>2 DEF Served, Kept
<1>10. PICK first : first = lines'[1]
  OBVIOUS
<1>11. /\ lines = <<>> => first = l
       /\ lines # <<>> => first = lines[1]
  BY <1>4, <1>10
<1>12. /\ first.tag = "registered"
       /\ reply = "answer" => first.entry /\ (pins => first.held)
  <2>1. CASE lines = <<>>
    <3>1. tag = "registered" /\ first = l
      BY <1>8, <1>11, <2>1
    <3>2. reply = "answer" => entry /\ (pins => "pid1" \in refs)
      BY <1>1, <1>2, <3>1 DEF Served
    <3> QED
      BY <1>5, <3>1, <3>2
  <2>2. CASE lines # <<>>
    BY <1>1, <1>11, <2>2 DEF Told
  <2> QED
    BY <2>1, <2>2
<1>13. tag = "registered" \/ tag \in Kept => (first.held <=> "pid1" \in refs)
  BY <1>1, <1>2, <1>5, <1>8, <1>11 DEF Told, Kept
<1>14. LineTells(l, first)
  <2>1. CASE tag \in {"registered", "t+2s", "t+4s", "t+6s"}
    <3>1. "pid1" \in refs => pins /\ entry
      BY <1>1, <1>2, <2>1 DEF Holders
    <3>2. first.held <=> "pid1" \in refs
      BY <1>13, <2>1 DEF Kept
    <3>3. l.tag # "restarted"
      BY <1>5, <2>1
    <3> QED
      BY <1>5, <3>1, <3>2, <3>3 DEF LineTells
  <2>2. CASE tag = "restarted"
    <3>1. refs = {} /\ ~entry
      BY <1>1, <1>2, <2>2 DEF Told
    <3>2. l.tag \notin {"registered", "t+2s", "t+4s", "t+6s"}
      BY <1>5, <2>2
    <3> QED
      BY <1>5, <3>1, <3>2 DEF LineTells
  <2>3. CASE tag = "stopped"
    BY <1>5, <2>3 DEF LineTells
  <2> QED
    BY <2>1, <2>2, <2>3 DEF Tags
<1>15. ASSUME NEW i \in DOMAIN lines'
       PROVE  LineTells(lines'[i], first)
  <2>1. CASE lines'[i] = l
    BY <1>14, <2>1
  <2>2. CASE i \in DOMAIN lines /\ lines'[i] = lines[i]
    <3>1. lines # <<>>
      BY <2>2
    <3> QED
      BY <1>1, <1>11, <2>2, <3>1 DEF Told
  <2> QED
    BY <1>4, <2>1, <2>2
<1>16. Told'
  <2>1. (\A i \in DOMAIN lines : LineTells(lines[i], lines[1]))'
    BY <1>2, <1>10, <1>15 DEF LineTells
  <2>2. next \in Kept => (first.held <=> "pid1" \in refs)
    BY <1>2, <1>13 DEF Kept, Tags
  <2>3. next \in {"start", "journal"} => refs = {}
    BY <1>1, <1>2 DEF Told
  <2>4. next = "journal" => ~entry
    BY <1>1, <1>2 DEF Told
  <2>5. next \notin {"receive", "wait", "connect", "reply", "registered", "stopped", "restarted"}
    OBVIOUS
  <2> QED
    BY <1>2, <1>4, <1>10, <1>12, <2>1, <2>2, <2>3, <2>4, <2>5 DEF Told
<1> QED
  BY <1>6, <1>7, <1>9, <1>16 DEF ProbeInv

(* The invariant of the probe holds after each of its steps, and after     *)
(* those of its child, the service and the kernel.                         *)
LEMMA ProbeInductive ==
  ASSUME ProbeInv, ProbeNext
  PROVE  ProbeInv'
<1>0. ProbeType /\ Holders /\ Served /\ Told
  BY DEF ProbeInv
<1>1. CASE Unshare
  <2>1. ProbeType'
    BY <1>0, <1>1 DEF ProbeType, ClientSide, Unshare
  <2>2. Holders'
    BY <1>0, <1>1 DEF ProbeType, Holders, Served, Exited, Kept, Dropped, Unshare
  <2>3. Served'
    BY <1>0, <1>1 DEF ProbeType, Holders, Served, Kept, Unshare
  <2>4. Told'
    BY <1>0, <1>1 DEF ProbeType, Told, LineTells, Holders, Exited, Kept, Dropped, ClientSide, Unshare
  <2> QED
    BY <2>1, <2>2, <2>3, <2>4 DEF ProbeInv
<1>2. CASE SendFd
  <2>1. ProbeType'
    BY <1>0, <1>2 DEF ProbeType, ClientSide, SendFd
  <2>2. Holders'
    BY <1>0, <1>2 DEF ProbeType, Holders, Served, Exited, Kept, Dropped, SendFd
  <2>3. Served'
    BY <1>0, <1>2 DEF ProbeType, Holders, Served, Kept, SendFd
  <2>4. Told'
    BY <1>0, <1>2 DEF ProbeType, Told, LineTells, Holders, Exited, Kept, Dropped, ClientSide, SendFd
  <2> QED
    BY <2>1, <2>2, <2>3, <2>4 DEF ProbeInv
<1>3. CASE ChildExits
  <2>1. ProbeType'
    BY <1>0, <1>3 DEF ProbeType, ClientSide, ChildExits
  <2>2. Holders'
    BY <1>0, <1>3 DEF ProbeType, Holders, Served, Exited, Kept, Dropped, ChildExits
  <2>3. Served'
    BY <1>0, <1>3 DEF ProbeType, Holders, Served, Kept, ChildExits
  <2>4. Told'
    BY <1>0, <1>3 DEF ProbeType, Told, LineTells, Holders, Exited, Kept, Dropped, ClientSide, ChildExits
  <2> QED
    BY <2>1, <2>2, <2>3, <2>4 DEF ProbeInv
<1>4. CASE Receive
  <2>1. ProbeType'
    BY <1>0, <1>4 DEF ProbeType, ClientSide, Receive, ProbeGoes
  <2>2. Holders'
    BY <1>0, <1>4 DEF ProbeType, Holders, Served, Exited, Kept, Dropped, Receive, ProbeGoes
  <2>3. Served'
    BY <1>0, <1>4 DEF ProbeType, Holders, Served, Kept, Receive, ProbeGoes
  <2>4. Told'
    BY <1>0, <1>4 DEF ProbeType, Told, LineTells, Holders, Exited, Kept, Dropped, ClientSide, Receive, ProbeGoes
  <2> QED
    BY <2>1, <2>2, <2>3, <2>4 DEF ProbeInv
<1>5. CASE WaitPid
  <2>1. ProbeType'
    BY <1>0, <1>5 DEF ProbeType, ClientSide, WaitPid, ProbeExits
  <2>2. Holders'
    BY <1>0, <1>5 DEF ProbeType, Holders, Served, Exited, Kept, Dropped, WaitPid, ProbeExits
  <2>3. Served'
    BY <1>0, <1>5 DEF ProbeType, Holders, Served, Kept, WaitPid, ProbeExits
  <2>4. Told'
    BY <1>0, <1>5 DEF ProbeType, Told, LineTells, Holders, Exited, Kept, Dropped, ClientSide, WaitPid, ProbeExits
  <2> QED
    BY <2>1, <2>2, <2>3, <2>4 DEF ProbeInv
<1>6. CASE Allocate
  <2>1. ProbeType'
    BY <1>0, <1>6 DEF ProbeType, ClientSide, Allocate, ProbeExits
  <2>2. Holders'
    BY <1>0, <1>6 DEF ProbeType, Holders, Served, Exited, Kept, Dropped, Allocate, ProbeExits
  <2>3. Served'
    BY <1>0, <1>6 DEF ProbeType, Holders, Served, Kept, Allocate, ProbeExits
  <2>4. Told'
    BY <1>0, <1>6 DEF ProbeType, Told, LineTells, Holders, Exited, Kept, Dropped, ClientSide, Allocate, ProbeExits
  <2> QED
    BY <2>1, <2>2, <2>3, <2>4 DEF ProbeInv
<1>7. CASE Reply
  <2>1. ProbeType'
    BY <1>0, <1>7 DEF ProbeType, ClientSide, Reply, ProbeExits, Asked
  <2>2. Holders'
    BY <1>0, <1>7 DEF ProbeType, Holders, Served, Exited, Kept, Dropped, Reply, ProbeExits, Asked
  <2>3. Served'
    BY <1>0, <1>7 DEF ProbeType, Holders, Served, Kept, Reply, ProbeExits, Asked
  <2>4. Told'
    BY <1>0, <1>7 DEF ProbeType, Told, LineTells, Holders, Exited, Kept, Dropped, ClientSide, Reply, ProbeExits, Asked
  <2> QED
    BY <2>1, <2>2, <2>3, <2>4 DEF ProbeInv
<1>8. CASE Drop
  <2>1. ProbeType'
    BY <1>0, <1>8 DEF ProbeType, ClientSide, Drop, ProbeGoes
  <2>2. Holders'
    BY <1>0, <1>8 DEF ProbeType, Holders, Served, Exited, Kept, Dropped, Drop, ProbeGoes
  <2>3. Served'
    BY <1>0, <1>8 DEF ProbeType, Holders, Served, Kept, Drop, ProbeGoes
  <2>4. Told'
    BY <1>0, <1>8 DEF ProbeType, Told, LineTells, Holders, Exited, Kept, Dropped, ClientSide, Drop, ProbeGoes
  <2> QED
    BY <2>1, <2>2, <2>3, <2>4 DEF ProbeInv
<1>9. CASE Stop
  <2>1. ProbeType'
    BY <1>0, <1>9 DEF ProbeType, ClientSide, Stop, ProbeGoes
  <2>2. Holders'
    BY <1>0, <1>9 DEF ProbeType, Holders, Served, Exited, Kept, Dropped, Stop, ProbeGoes
  <2>3. Served'
    BY <1>0, <1>9 DEF ProbeType, Holders, Served, Kept, Stop, ProbeGoes
  <2>4. Told'
    BY <1>0, <1>9 DEF ProbeType, Told, LineTells, Holders, Exited, Kept, Dropped, ClientSide, Stop, ProbeGoes
  <2> QED
    BY <2>1, <2>2, <2>3, <2>4 DEF ProbeInv
<1>10. CASE Restart
  <2>1. ProbeType'
    BY <1>0, <1>10 DEF ProbeType, ClientSide, Restart, ProbeGoes
  <2>2. Holders'
    BY <1>0, <1>10 DEF ProbeType, Holders, Served, Exited, Kept, Dropped, Restart, ProbeGoes
  <2>3. Served'
    BY <1>0, <1>10 DEF ProbeType, Holders, Served, Kept, Restart, ProbeGoes
  <2>4. Told'
    BY <1>0, <1>10 DEF ProbeType, Told, LineTells, Holders, Exited, Kept, Dropped, ClientSide, Restart, ProbeGoes
  <2> QED
    BY <2>1, <2>2, <2>3, <2>4 DEF ProbeInv
<1>11. CASE LogOut
  <2>1. ProbeType'
    BY <1>0, <1>11 DEF ProbeType, ClientSide, LogOut, ProbeExits
  <2>2. Holders'
    BY <1>0, <1>11 DEF ProbeType, Holders, Served, Exited, Kept, Dropped, LogOut, ProbeExits
  <2>3. Served'
    BY <1>0, <1>11 DEF ProbeType, Holders, Served, Kept, LogOut, ProbeExits
  <2>4. Told'
    BY <1>0, <1>11 DEF ProbeType, Told, LineTells, Holders, Exited, Kept, Dropped, ClientSide, LogOut, ProbeExits
  <2> QED
    BY <2>1, <2>2, <2>3, <2>4 DEF ProbeInv
<1>12. CASE Store
  <2>1. ProbeType'
    BY <1>0, <1>12 DEF ProbeType, ClientSide, Store
  <2>2. Holders'
    BY <1>0, <1>12 DEF ProbeType, Holders, Served, Exited, Kept, Dropped, Store
  <2>3. Served'
    BY <1>0, <1>12 DEF ProbeType, Holders, Served, Kept, Store
  <2>4. Told'
    BY <1>0, <1>12 DEF ProbeType, Told, LineTells, Holders, Exited, Kept, Dropped, ClientSide, Store
  <2> QED
    BY <2>1, <2>2, <2>3, <2>4 DEF ProbeInv
<1>13. CASE Push
  <2>1. ProbeType'
    BY <1>0, <1>13 DEF ProbeType, ClientSide, Push
  <2>2. Holders'
    BY <1>0, <1>13 DEF ProbeType, Holders, Served, Exited, Kept, Dropped, Push
  <2>3. Served'
    BY <1>0, <1>13 DEF ProbeType, Holders, Served, Kept, Push
  <2>4. Told'
    BY <1>0, <1>13 DEF ProbeType, Told, LineTells, Holders, Exited, Kept, Dropped, ClientSide, Push
  <2> QED
    BY <2>1, <2>2, <2>3, <2>4 DEF ProbeInv
<1>14. CASE Answer
  <2>1. ProbeType'
    BY <1>0, <1>14 DEF ProbeType, ClientSide, Answer
  <2>2. Holders'
    BY <1>0, <1>14 DEF ProbeType, Holders, Served, Exited, Kept, Dropped, Answer
  <2>3. Served'
    BY <1>0, <1>14 DEF ProbeType, Holders, Served, Kept, Answer
  <2>4. Told'
    BY <1>0, <1>14 DEF ProbeType, Told, LineTells, Holders, Exited, Kept, Dropped, ClientSide, Answer
  <2> QED
    BY <2>1, <2>2, <2>3, <2>4 DEF ProbeInv
<1>15. CASE WorkerDies
  <2>1. ProbeType'
    BY <1>0, <1>15 DEF ProbeType, ClientSide, WorkerDies, Asked
  <2>2. Holders'
    BY <1>0, <1>15 DEF ProbeType, Holders, Served, Exited, Kept, Dropped, WorkerDies, Asked
  <2>3. Served'
    BY <1>0, <1>15 DEF ProbeType, Holders, Served, Kept, WorkerDies, Asked
  <2>4. Told'
    BY <1>0, <1>15 DEF ProbeType, Told, LineTells, Holders, Exited, Kept, Dropped, ClientSide, WorkerDies, Asked
  <2> QED
    BY <2>1, <2>2, <2>3, <2>4 DEF ProbeInv
<1>16. CASE HangUp
  <2>1. ProbeType'
    BY <1>0, <1>16 DEF ProbeType, ClientSide, HangUp
  <2>2. Holders'
    BY <1>0, <1>16 DEF ProbeType, Holders, Served, Exited, Kept, Dropped, HangUp
  <2>3. Served'
    BY <1>0, <1>16 DEF ProbeType, Holders, Served, Kept, HangUp
  <2>4. Told'
    BY <1>0, <1>16 DEF ProbeType, Told, LineTells, Holders, Exited, Kept, Dropped, ClientSide, HangUp
  <2> QED
    BY <2>1, <2>2, <2>3, <2>4 DEF ProbeInv
<1>17. CASE Reap
  <2>1. ProbeType'
    BY <1>0, <1>17 DEF ProbeType, ClientSide, Reap
  <2>2. Holders'
    BY <1>0, <1>17 DEF ProbeType, Holders, Served, Exited, Kept, Dropped, Reap
  <2>3. Served'
    BY <1>0, <1>17 DEF ProbeType, Holders, Served, Kept, Reap
  <2>4. Told'
    BY <1>0, <1>17 DEF ProbeType, Told, LineTells, Holders, Exited, Kept, Dropped, ClientSide, Reap
  <2> QED
    BY <2>1, <2>2, <2>3, <2>4 DEF ProbeInv
<1>18. CASE \/ status("registered", "drop") \/ status("t+2s", "t+4s") \/ status("t+4s", "t+6s")
            \/ status("t+6s", "stop") \/ status("stopped", "start") \/ status("restarted", "journal")
  BY <1>18, StatusTells DEF Tags
<1> QED
  BY <1>1, <1>2, <1>3, <1>4, <1>5, <1>6, <1>7, <1>8, <1>9,
     <1>10, <1>11, <1>12, <1>13, <1>14, <1>15, <1>16, <1>17, <1>18 DEF ProbeNext, ProbeStep

-----------------------------------------------------------------------------
(* The runs *)

Kinds == {"tests", "probe", None}

VmType ==
    /\ kind \in [Runs -> Kinds] /\ out \in [Runs -> Outs]
    /\ host \in [Runs -> {"start", "boot", "wait", "term", "read", "done"}]
    /\ rc \in [Runs -> {None, "exit", "failed", "timeout"}]
    /\ vm \in [Runs -> {"off", "on", "gone"}]
    /\ cur \in [Runs -> Nat]
    /\ path \in [Outs \X Kinds -> Runs \cup {None}]
    /\ file \in [Runs -> SUBSET (Runs \X Nat \X {"PASS", "FAIL"})]
    /\ fd \in [Runs -> Runs \cup {None}]
    /\ shown \in [Runs -> SUBSET (Runs \X Nat \X {"PASS", "FAIL"})]
    /\ alone \in [Runs -> BOOLEAN]

(* The VM of a run: it boots once, and has ended if mkosi says that.       *)
(* The scripts before the current one have their lines in the VM's journal.*)
Reported(r, lns) == \A n \in 1 .. NScripts : n < cur[r] => \E v \in {"PASS", "FAIL"} : <<r, n, v>> \in lns

VmOf(r) ==
    /\ host[r] \in {"start", "boot"} => vm[r] = "off"
    /\ host[r] \in {"wait", "term", "read"} => vm[r] # "off"
    /\ host[r] \in {"start", "boot", "wait"} => rc[r] = None
    /\ host[r] = "done" /\ vm[r] = "off" => rc[r] = None
    /\ rc[r] = "exit" => vm[r] = "gone"
    /\ vm[r] = "off" => cur[r] = 1
    /\ vm[r] # "off" => /\ fd[r] \in Runs
                        /\ cur[r] <= NScripts + 1 => Reported(r, file[fd[r]]) \/ kind[r] # "tests"

(* The journals: two runs that have the same one at the same time know it, *)
(* and so does a run whose file another VM writes to.                      *)
Sharing(q, r) ==
    /\ q # r /\ Live(q) /\ Live(r) /\ Journal(q) = Journal(r) => ~alone[r]
    /\ host[q] = "boot" /\ path[Journal(q)] = r => ~alone[r] /\ ~alone[q]
    /\ fd[q] = r /\ q # r => ~alone[r]

OwnJournal(r) ==
    alone[r] =>
      /\ host[r] = "boot" => path[Journal(r)] = None
      /\ host[r] \in {"wait", "term", "read"} => path[Journal(r)] = r /\ fd[r] = r
      /\ \A l \in file[r] : l[1] = r
      /\ host[r] = "done" =>
           /\ \A l \in shown[r] : l[1] = r
           /\ kind[r] = "tests" /\ rc[r] = "exit" /\ cur[r] = NScripts + 1 => Reported(r, shown[r])

VmInv ==
    /\ VmType
    /\ \A r \in Runs : VmOf(r) /\ OwnJournal(r)
    /\ \A q, r \in Runs : Sharing(q, r)

(* The kinds and the directories are fixed, and so are the journals' names.*)
LEMMA JournalFixed ==
  ASSUME VmType, UNCHANGED <<kind, out>>, NEW r \in Runs
  PROVE  Journal(r) \in Outs \X Kinds /\ Journal(r)' = Journal(r)
  BY DEF VmType, Journal

(* A run that unlinks a journal is alone with it, or is known not to be.   *)
LEMMA StartKeeps ==
  ASSUME VmInv, NEW r \in Runs, Start(r)
  PROVE  VmInv'
<1>1. VmType /\ \A q \in Runs : VmOf(q) /\ OwnJournal(q) /\ \A s \in Runs : Sharing(q, s)
  BY DEF VmInv
<1>2. \A q \in Runs : Journal(q) \in Outs \X Kinds /\ Journal(q)' = Journal(q)
  BY <1>1, JournalFixed DEF Start
<1> HIDE DEF Journal
<1>3. NScripts \in Nat \ {0} /\ None \notin Runs
  BY VmRunsAssumption
<1>8. /\ host[r] = "start" /\ host' = [host EXCEPT ![r] = "boot"]
      /\ path' = [path EXCEPT ![Journal(r)] = None]
      /\ UNCHANGED <<rc, vm, cur, file, fd, shown>>
      /\ \A q \in Runs : alone'[q] => alone[q]
      /\ \A q \in Runs : q # r /\ Live(q) /\ Journal(q) = Journal(r) => ~alone'[q] /\ ~alone'[r]
  BY DEF Start, HostGoes, Sharers
<1>4. VmType'
  BY <1>1, <1>2 DEF VmType, Start, HostGoes
<1>5. ASSUME NEW q \in Runs
      PROVE  VmOf(q)'
  BY <1>1, <1>2, <1>3 DEF VmType, VmOf, Reported, Start, HostGoes, Sharers
<1>6. ASSUME NEW q \in Runs
      PROVE  OwnJournal(q)'
  <2>1. CASE q = r
    BY <1>1, <1>2, <1>8, <2>1 DEF VmType, OwnJournal
  <2>2. CASE q # r
    <3>1. host'[q] = host[q] /\ (Reported(q, shown[q])' <=> Reported(q, shown[q]))
      BY <1>1, <1>8, <2>2 DEF VmType, Reported
    <3>2. Live(q) /\ alone'[q] => path'[Journal(q)] = path[Journal(q)]
      BY <1>1, <1>2, <1>8, <2>2 DEF VmType
    <3>3. alone'[q] => OwnJournal(q) /\ alone[q] /\ kind'[q] = kind[q]
      BY <1>1, <1>8 DEF Start
    <3> QED
      BY <1>2, <1>8, <3>1, <3>2, <3>3 DEF OwnJournal, Live
  <2> QED
    BY <2>1, <2>2
<1>7. ASSUME NEW q \in Runs, NEW s \in Runs
      PROVE  Sharing(q, s)'
  BY <1>1, <1>2, <1>3, <1>8 DEF VmType, VmOf, Sharing, Live
<1> QED
  BY <1>4, <1>5, <1>6, <1>7 DEF VmInv

(* A VM that boots has a file of its own, unless the run is not alone.     *)
LEMMA BootKeeps ==
  ASSUME VmInv, NEW r \in Runs, Boot(r)
  PROVE  VmInv'
<1>1. VmType /\ \A q \in Runs : VmOf(q) /\ OwnJournal(q) /\ \A s \in Runs : Sharing(q, s)
  BY DEF VmInv
<1>2. \A q \in Runs : Journal(q) \in Outs \X Kinds /\ Journal(q)' = Journal(q)
  BY <1>1, JournalFixed DEF Boot
<1> HIDE DEF Journal
<1>3. NScripts \in Nat \ {0} /\ None \notin Runs
  BY VmRunsAssumption
<1>4. VmType'
  BY <1>1, <1>2, <1>3 DEF VmType, Boot, HostGoes
<1>5. ASSUME NEW q \in Runs
      PROVE  VmOf(q)'
  BY <1>1, <1>2, <1>3 DEF VmType, VmOf, Reported, Boot, HostGoes
<1>8. /\ host[r] = "boot" /\ host' = [host EXCEPT ![r] = "wait"]
      /\ UNCHANGED <<kind, rc, cur, file, shown, alone>>
  BY DEF Boot, HostGoes
<1>9. PICK f : /\ f = IF path[Journal(r)] = None THEN r ELSE path[Journal(r)]
               /\ path' = [path EXCEPT ![Journal(r)] = f] /\ fd' = [fd EXCEPT ![r] = f]
  BY DEF Boot
<1>6. ASSUME NEW q \in Runs
      PROVE  OwnJournal(q)'
  <2>1. CASE q = r
    <3>1. host'[r] = "wait" /\ path'[Journal(r)] = f /\ fd'[r] = f
      BY <1>1, <1>2, <1>8, <1>9 DEF VmType
    <3>2. alone[r] => path[Journal(r)] = None /\ (\A l \in file[r] : l[1] = r)
      BY <1>1, <1>8 DEF OwnJournal
    <3> QED
      BY <1>2, <1>8, <1>9, <2>1, <3>1, <3>2 DEF OwnJournal
  <2>2. CASE q # r
    <3>1. host'[q] = host[q] /\ fd'[q] = fd[q]
      BY <1>1, <1>8, <1>9, <2>2 DEF VmType
    <3>2. alone[q] /\ Live(q) => path'[Journal(q)] = path[Journal(q)]
      BY <1>1, <1>2, <1>8, <1>9, <2>2 DEF VmType, Sharing, Live
    <3>3. Reported(q, shown[q])' <=> Reported(q, shown[q])
      BY <1>8 DEF Reported
    <3> QED
      BY <1>1, <1>2, <1>8, <3>1, <3>2, <3>3 DEF OwnJournal, Live
  <2> QED
    BY <2>1, <2>2
<1>7. ASSUME NEW q \in Runs, NEW s \in Runs
      PROVE  Sharing(q, s)'
  BY <1>1, <1>2, <1>3 DEF VmType, VmOf, OwnJournal, Sharing, Live, Boot, HostGoes
<1> QED
  BY <1>4, <1>5, <1>6, <1>7 DEF VmInv

(* A run goes on when mkosi has ended.                                     *)
LEMMA WaitedKeeps ==
  ASSUME VmInv, NEW r \in Runs, Waited(r)
  PROVE  VmInv'
<1>1. VmType /\ \A q \in Runs : VmOf(q) /\ OwnJournal(q) /\ \A s \in Runs : Sharing(q, s)
  BY DEF VmInv
<1>2. \A q \in Runs : Journal(q) \in Outs \X Kinds /\ Journal(q)' = Journal(q)
  BY <1>1, JournalFixed DEF Waited
<1> HIDE DEF Journal
<1>3. NScripts \in Nat \ {0} /\ None \notin Runs
  BY VmRunsAssumption
<1>4. VmType'
  BY <1>1, <1>2, <1>3 DEF VmType, Waited, HostGoes
<1>5. ASSUME NEW q \in Runs
      PROVE  VmOf(q)'
  BY <1>1, <1>2, <1>3 DEF VmType, VmOf, Reported, Waited, HostGoes
<1>6. ASSUME NEW q \in Runs
      PROVE  OwnJournal(q)'
  BY <1>1, <1>2, <1>3 DEF VmType, VmOf, OwnJournal, Sharing, Live, Reported, Waited, HostGoes
<1>7. ASSUME NEW q \in Runs, NEW s \in Runs
      PROVE  Sharing(q, s)'
  BY <1>1, <1>2, <1>3 DEF VmType, VmOf, OwnJournal, Sharing, Live, Waited, HostGoes
<1> QED
  BY <1>4, <1>5, <1>6, <1>7 DEF VmInv

(* SIGTERM is sent, and nothing else happens.                              *)
LEMMA TimedOutKeeps ==
  ASSUME VmInv, NEW r \in Runs, TimedOut(r)
  PROVE  VmInv'
<1>1. VmType /\ \A q \in Runs : VmOf(q) /\ OwnJournal(q) /\ \A s \in Runs : Sharing(q, s)
  BY DEF VmInv
<1>2. \A q \in Runs : Journal(q) \in Outs \X Kinds /\ Journal(q)' = Journal(q)
  BY <1>1, JournalFixed DEF TimedOut
<1> HIDE DEF Journal
<1>3. NScripts \in Nat \ {0} /\ None \notin Runs
  BY VmRunsAssumption
<1>4. VmType'
  BY <1>1, <1>2, <1>3 DEF VmType, TimedOut, HostGoes
<1>5. ASSUME NEW q \in Runs
      PROVE  VmOf(q)'
  BY <1>1, <1>2, <1>3 DEF VmType, VmOf, Reported, TimedOut, HostGoes
<1>6. ASSUME NEW q \in Runs
      PROVE  OwnJournal(q)'
  BY <1>1, <1>2, <1>3 DEF VmType, VmOf, OwnJournal, Sharing, Live, Reported, TimedOut, HostGoes
<1>7. ASSUME NEW q \in Runs, NEW s \in Runs
      PROVE  Sharing(q, s)'
  BY <1>1, <1>2, <1>3 DEF VmType, VmOf, OwnJournal, Sharing, Live, TimedOut, HostGoes
<1> QED
  BY <1>4, <1>5, <1>6, <1>7 DEF VmInv

(* And so is SIGKILL.                                                      *)
LEMMA KillKeeps ==
  ASSUME VmInv, NEW r \in Runs, Kill(r)
  PROVE  VmInv'
<1>1. VmType /\ \A q \in Runs : VmOf(q) /\ OwnJournal(q) /\ \A s \in Runs : Sharing(q, s)
  BY DEF VmInv
<1>2. \A q \in Runs : Journal(q) \in Outs \X Kinds /\ Journal(q)' = Journal(q)
  BY <1>1, JournalFixed DEF Kill
<1> HIDE DEF Journal
<1>3. NScripts \in Nat \ {0} /\ None \notin Runs
  BY VmRunsAssumption
<1>4. VmType'
  BY <1>1, <1>2, <1>3 DEF VmType, Kill, HostGoes
<1>5. ASSUME NEW q \in Runs
      PROVE  VmOf(q)'
  BY <1>1, <1>2, <1>3 DEF VmType, VmOf, Reported, Kill, HostGoes
<1>6. ASSUME NEW q \in Runs
      PROVE  OwnJournal(q)'
  BY <1>1, <1>2, <1>3 DEF VmType, VmOf, OwnJournal, Sharing, Live, Reported, Kill, HostGoes
<1>7. ASSUME NEW q \in Runs, NEW s \in Runs
      PROVE  Sharing(q, s)'
  BY <1>1, <1>2, <1>3 DEF VmType, VmOf, OwnJournal, Sharing, Live, Kill, HostGoes
<1> QED
  BY <1>4, <1>5, <1>6, <1>7 DEF VmInv

(* The file of a run that is alone has its lines only.                     *)
LEMMA ReadKeeps ==
  ASSUME VmInv, NEW r \in Runs, Read(r)
  PROVE  VmInv'
<1>1. VmType /\ \A q \in Runs : VmOf(q) /\ OwnJournal(q) /\ \A s \in Runs : Sharing(q, s)
  BY DEF VmInv
<1>2. \A q \in Runs : Journal(q) \in Outs \X Kinds /\ Journal(q)' = Journal(q)
  BY <1>1, JournalFixed DEF Read
<1> HIDE DEF Journal
<1>3. NScripts \in Nat \ {0} /\ None \notin Runs
  BY VmRunsAssumption
<1>4. VmType'
  BY <1>1, <1>2, <1>3 DEF VmType, Read, HostGoes
<1>5. ASSUME NEW q \in Runs
      PROVE  VmOf(q)'
  BY <1>1, <1>2, <1>3 DEF VmType, VmOf, Reported, Read, HostGoes
<1>6. ASSUME NEW q \in Runs
      PROVE  OwnJournal(q)'
  BY <1>1, <1>2, <1>3 DEF VmType, VmOf, OwnJournal, Sharing, Live, Reported, Read, HostGoes
<1>7. ASSUME NEW q \in Runs, NEW s \in Runs
      PROVE  Sharing(q, s)'
  BY <1>1, <1>2, <1>3 DEF VmType, VmOf, OwnJournal, Sharing, Live, Read, HostGoes
<1> QED
  BY <1>4, <1>5, <1>6, <1>7 DEF VmInv

(* The script that ran has its line.                                       *)
LEMMA RunScriptKeeps ==
  ASSUME VmInv, NEW r \in Runs, RunScript(r)
  PROVE  VmInv'
<1>1. VmType /\ \A q \in Runs : VmOf(q) /\ OwnJournal(q) /\ \A s \in Runs : Sharing(q, s)
  BY DEF VmInv
<1>2. \A q \in Runs : Journal(q) \in Outs \X Kinds /\ Journal(q)' = Journal(q)
  BY <1>1, JournalFixed DEF RunScript
<1> HIDE DEF Journal
<1>3. NScripts \in Nat \ {0} /\ None \notin Runs
  BY VmRunsAssumption
<1>8. PICK v \in {"PASS", "FAIL"} : file' = [file EXCEPT ![fd[r]] = @ \cup {<<r, cur[r], v>>}]
  BY DEF RunScript
<1>9. /\ vm[r] = "on" /\ cur[r] \in Nat /\ cur[r] <= NScripts /\ cur' = [cur EXCEPT ![r] = @ + 1]
      /\ UNCHANGED <<kind, out, host, rc, vm, path, fd, shown, alone>>
  BY <1>1 DEF RunScript, VmType
<1>10. fd[r] \in Runs
  BY <1>1, <1>9 DEF VmOf
<1>11. /\ \A q \in Runs : file[q] \subseteq file'[q]
       /\ <<r, cur[r], v>> \in file'[fd[r]]
  BY <1>1, <1>8, <1>10 DEF VmType
<1>4. VmType'
  <2>1. <<r, cur[r], v>> \in Runs \X Nat \X {"PASS", "FAIL"}
    BY <1>9
  <2>2. file' \in [Runs -> SUBSET (Runs \X Nat \X {"PASS", "FAIL"})]
    BY <1>1, <1>8, <2>1 DEF VmType
  <2>3. cur' \in [Runs -> Nat]
    BY <1>1, <1>9 DEF VmType
  <2> QED
    BY <1>1, <1>9, <2>2, <2>3 DEF VmType
<1>5. ASSUME NEW q \in Runs
      PROVE  VmOf(q)'
  <2>1. CASE q # r
    <3>1. cur'[q] = cur[q]
      BY <1>1, <1>9, <2>1 DEF VmType
    <3>2. fd[q] \in Runs => (Reported(q, file[fd[q]]) => Reported(q, file[fd[q]])')
      BY <1>9, <1>11, <3>1 DEF Reported
    <3> QED
      BY <1>1, <1>9, <3>1, <3>2 DEF VmOf
  <2>2. CASE q = r
    <3>1. kind[r] = "tests" /\ cur'[r] = cur[r] + 1 /\ cur[r] <= NScripts + 1 /\ host[r] # "start"
      BY <1>1, <1>3, <1>9 DEF RunScript, VmType, VmOf
    <3>2. Reported(r, file[fd[r]])
      BY <1>1, <1>9, <3>1 DEF VmOf
    <3>3. ASSUME NEW n \in 1 .. NScripts, n < cur[r] + 1
          PROVE  \E w \in {"PASS", "FAIL"} : <<r, n, w>> \in file'[fd[r]]
      <4>1. CASE n = cur[r]
        BY <1>11, <4>1
      <4>2. CASE n # cur[r]
        <5>1. n < cur[r]
          BY <1>9, <3>3, <4>2
        <5> QED
          BY <1>10, <1>11, <3>2, <5>1 DEF Reported
      <4> QED
        BY <4>1, <4>2
    <3>4. Reported(r, file[fd[r]])'
      BY <1>9, <3>1, <3>3 DEF Reported
    <3> QED
      BY <1>1, <1>9, <1>10, <2>2, <3>4 DEF VmOf
  <2> QED
    BY <2>1, <2>2
<1>6. ASSUME NEW q \in Runs
      PROVE  OwnJournal(q)'
  BY <1>1, <1>2, <1>3 DEF VmType, VmOf, OwnJournal, Sharing, Live, Reported, RunScript
<1>7. ASSUME NEW q \in Runs, NEW s \in Runs
      PROVE  Sharing(q, s)'
  BY <1>1, <1>2, <1>3 DEF VmType, VmOf, OwnJournal, Sharing, Live, RunScript
<1> QED
  BY <1>4, <1>5, <1>6, <1>7 DEF VmInv

(* The unit ends, and the lines stay.                                      *)
LEMMA UnitDoneKeeps ==
  ASSUME VmInv, NEW r \in Runs, UnitDone(r)
  PROVE  VmInv'
<1>1. VmType /\ \A q \in Runs : VmOf(q) /\ OwnJournal(q) /\ \A s \in Runs : Sharing(q, s)
  BY DEF VmInv
<1>2. \A q \in Runs : Journal(q) \in Outs \X Kinds /\ Journal(q)' = Journal(q)
  BY <1>1, JournalFixed DEF UnitDone
<1> HIDE DEF Journal
<1>3. NScripts \in Nat \ {0} /\ None \notin Runs
  BY VmRunsAssumption
<1>4. VmType'
  BY <1>1, <1>2, <1>3 DEF VmType, UnitDone, VmEnds
<1>5. ASSUME NEW q \in Runs
      PROVE  VmOf(q)'
  BY <1>1, <1>2, <1>3 DEF VmType, VmOf, Reported, UnitDone, VmEnds
<1>6. ASSUME NEW q \in Runs
      PROVE  OwnJournal(q)'
  BY <1>1, <1>2, <1>3 DEF VmType, VmOf, OwnJournal, Sharing, Live, Reported, UnitDone, VmEnds
<1>7. ASSUME NEW q \in Runs, NEW s \in Runs
      PROVE  Sharing(q, s)'
  BY <1>1, <1>2, <1>3 DEF VmType, VmOf, OwnJournal, Sharing, Live, UnitDone, VmEnds
<1> QED
  BY <1>4, <1>5, <1>6, <1>7 DEF VmInv

(* A unit that is cut is not taken for one that came to its end.           *)
LEMMA UnitCutKeeps ==
  ASSUME VmInv, NEW r \in Runs, UnitCut(r)
  PROVE  VmInv'
<1>1. VmType /\ \A q \in Runs : VmOf(q) /\ OwnJournal(q) /\ \A s \in Runs : Sharing(q, s)
  BY DEF VmInv
<1>2. \A q \in Runs : Journal(q) \in Outs \X Kinds /\ Journal(q)' = Journal(q)
  BY <1>1, JournalFixed DEF UnitCut
<1> HIDE DEF Journal
<1>3. NScripts \in Nat \ {0} /\ None \notin Runs
  BY VmRunsAssumption
<1>4. VmType'
  BY <1>1, <1>2, <1>3 DEF VmType, UnitCut, VmEnds
<1>5. ASSUME NEW q \in Runs
      PROVE  VmOf(q)'
  BY <1>1, <1>2, <1>3 DEF VmType, VmOf, Reported, UnitCut, VmEnds
<1>6. ASSUME NEW q \in Runs
      PROVE  OwnJournal(q)'
  BY <1>1, <1>2, <1>3 DEF VmType, VmOf, OwnJournal, Sharing, Live, Reported, UnitCut, VmEnds
<1>7. ASSUME NEW q \in Runs, NEW s \in Runs
      PROVE  Sharing(q, s)'
  BY <1>1, <1>2, <1>3 DEF VmType, VmOf, OwnJournal, Sharing, Live, UnitCut, VmEnds
<1> QED
  BY <1>4, <1>5, <1>6, <1>7 DEF VmInv

-----------------------------------------------------------------------------
(* The theorems *)

(* The probe and the runs at the start.                                    *)
LEMMA VmRunsInit == Init => ProbeInv /\ VmInv
<1> SUFFICES ASSUME Init
             PROVE  ProbeInv /\ VmInv
  OBVIOUS
<1>1. ProbeInv
  <2>1. ProbeType
    <3>1. /\ refs = {} /\ conn = "none" /\ reply = "none" /\ entry = FALSE /\ got = FALSE /\ pins \in BOOLEAN
          /\ probe = "receive" /\ lines = <<>>
      BY DEF Init, ProbeInit
    <3>2. lines \in Seq(Line)
      BY <3>1
    <3> QED
      BY <3>1, <3>2 DEF ProbeType
  <2>2. Holders
    BY DEF Init, ProbeInit, Holders, Kept, Dropped
  <2>3. Served /\ Told
    BY DEF Init, ProbeInit, Served, Told, Kept
  <2> QED
    BY <2>1, <2>2, <2>3 DEF ProbeInv
<1>2. VmType
  BY DEF Init, VmType, Kinds
<1>3. ASSUME NEW r \in Runs
      PROVE  VmOf(r) /\ OwnJournal(r)
  BY DEF Init, VmOf, OwnJournal, None
<1>4. ASSUME NEW q \in Runs, NEW r \in Runs
      PROVE  Sharing(q, r)
  BY VmRunsAssumption DEF Init, Sharing, Live
<1> QED
  BY <1>1, <1>2, <1>3, <1>4 DEF VmInv

(* Both invariants are inductive.                                          *)
LEMMA VmRunsInductive == ProbeInv /\ VmInv /\ [Next]_vars => (ProbeInv /\ VmInv)'
<1> SUFFICES ASSUME ProbeInv, VmInv, [Next]_vars
             PROVE  (ProbeInv /\ VmInv)'
  OBVIOUS
<1>1. ASSUME UNCHANGED probevars
      PROVE  ProbeInv'
  BY <1>1 DEF ProbeInv, ProbeType, Holders, Served, Told, LineTells, Exited, probevars
<1>2. ASSUME UNCHANGED vmvars
      PROVE  VmInv'
  BY <1>2 DEF VmInv, VmType, VmOf, OwnJournal, Sharing, Live, Journal, Reported, vmvars
<1>3. CASE UNCHANGED vars
  BY <1>1, <1>2, <1>3 DEF vars
<1>4. ASSUME NEW r \in Runs, RunProbe(r)
      PROVE  (ProbeInv /\ VmInv)'
  BY <1>2, <1>4, ProbeInductive DEF RunProbe
<1>5. ASSUME NEW r \in Runs,
             \/ Start(r) \/ Boot(r) \/ Waited(r) \/ TimedOut(r) \/ Kill(r) \/ Read(r)
             \/ RunScript(r) \/ UnitDone(r) \/ UnitCut(r)
      PROVE  (ProbeInv /\ VmInv)'
  <2>1. UNCHANGED probevars
    BY <1>5 DEF Start, Boot, Waited, TimedOut, Kill, Read, RunScript, UnitDone, UnitCut
  <2>2. VmInv'
    BY <1>5, StartKeeps, BootKeeps, WaitedKeeps, TimedOutKeeps, KillKeeps, ReadKeeps,
       RunScriptKeeps, UnitDoneKeeps, UnitCutKeeps
  <2> QED
    BY <1>1, <2>1, <2>2
<1> QED
  BY <1>3, <1>4, <1>5 DEF Next

(* In every reachable state.                                               *)
LEMMA VmRunsAlways == Spec => [](ProbeInv /\ VmInv)
  BY VmRunsInit, VmRunsInductive, PTL DEF Spec

(* ResultsAreRight: unless another run had the same journal at the same    *)
(* time, a run prints lines of its own VM only, though VMs of others may   *)
(* have outlived them; and one for every script when mkosi has seen its VM *)
(* end and the unit came to its end.                                       *)
THEOREM ResultsCorrect == Spec => []ResultsAreRight
<1>1. ProbeInv /\ VmInv => ResultsAreRight
  <2> SUFFICES ASSUME VmInv, NEW r \in Runs, host[r] = "done", alone[r]
               PROVE  /\ \A l \in shown[r] : l[1] = r
                      /\ kind[r] = "tests" /\ rc[r] = "exit" /\ cur[r] = NScripts + 1 =>
                           \A n \in 1 .. NScripts :
                             \E v \in {"PASS", "FAIL"} : <<r, n, v>> \in shown[r]
    BY DEF ResultsAreRight
  <2>1. /\ \A l \in shown[r] : l[1] = r
        /\ kind[r] = "tests" /\ rc[r] = "exit" /\ cur[r] = NScripts + 1 => Reported(r, shown[r])
    BY DEF VmInv, OwnJournal
  <2>2. \A n \in 1 .. NScripts : n < NScripts + 1
    BY VmRunsAssumption
  <2> QED
    BY <2>1, <2>2 DEF Reported
<1> QED
  BY <1>1, VmRunsAlways, PTL

(* ProbeTells: from the drop of the probe's references on none is the      *)
(* probe's or its child's; and the lines that status() printed say whether *)
(* the fd store keeps the namespace if the service answered, and never     *)
(* that it does when it does not, wherever the worker died.                *)
THEOREM ProbeCorrect == Spec => []ProbeTells
<1>1. ProbeInv /\ VmInv => ProbeTells
  <2> SUFFICES ASSUME ProbeInv
               PROVE  ProbeTells
    OBVIOUS
  <2>1. ProbeType /\ Holders /\ Served /\ Told
    BY DEF ProbeInv
  <2>2. probe \in Dropped => refs \cap ClientSide = {}
    BY <2>1 DEF Holders, Dropped, ClientSide, Exited
  <2>3. ASSUME NEW i \in DOMAIN lines
        PROVE  /\ lines[i].tag \in {"registered", "t+2s", "t+4s", "t+6s"} =>
                    /\ lines[i].held => pins /\ lines[i].entry
                    /\ reply = "answer" => lines[1].entry /\ (pins => lines[i].held)
               /\ lines[i].tag \in {"t+2s", "t+4s", "t+6s"} => lines[i].held = lines[1].held
               /\ lines[i].tag = "restarted" => ~lines[i].entry /\ ~lines[i].held
    <3>1. LineTells(lines[i], lines[1]) /\ lines # <<>>
      BY <2>1 DEF Told
    <3>2. reply = "answer" => lines[1].entry /\ (pins => lines[1].held)
      BY <2>1, <3>1 DEF Told
    <3>3. lines[i] \in Line /\ lines[1] \in Line
      BY <2>1, <3>1 DEF ProbeType
    <3>4. lines[i].held \in BOOLEAN /\ lines[1].held \in BOOLEAN
      BY <3>3 DEF Line
    <3>5. (lines[i].held <=> lines[1].held) => lines[i].held = lines[1].held
      BY <3>4
    <3> QED
      BY <3>1, <3>2, <3>5 DEF LineTells
  <2> QED
    BY <2>2, <2>3 DEF ProbeTells, Dropped
<1> QED
  BY <1>1, VmRunsAlways, PTL

=============================================================================
