------------------------------ MODULE FdProbe ------------------------------
(***************************************************************************)
(* probe-fdstore-root.py: does PID 1's fd store keep a user namespace      *)
(* alive?  A child makes the namespace and passes its fd to the probe,     *)
(* which registers it with systemd-nsresourced, drops every reference it   *)
(* has, and prints what the registry and PID 1 hold: for a while, after    *)
(* the service was stopped, and after it was started again.                *)
(*                                                                         *)
(* The service, its registry and PID 1 are external.                       *)
(***************************************************************************)
EXTENDS Integers, Sequences

VARIABLES
    probe,      \* where the probe is
    child,      \* the child: "new", "made", "sent", "exited" or "failed"
    got,        \* did the probe receive the fd?
    refs,       \* who references the namespace
    conn,       \* the request: "none", "asked", "stored", "pushed", "answered", "error" or "closed"
    reply,      \* the reply that the probe printed: "none", "answer" or "empty"
    entry,      \* is there a registry entry?
    service,    \* is systemd-nsresourced running?
    lines,      \* what status() printed
    pins        \* does PID 1 keep the fd that it is handed?

probevars == <<probe, child, got, refs, conn, reply, entry, service, lines, pins>>

ClientSide == {"child", "flight", "client"}
Tags       == {"registered", "t+2s", "t+4s", "t+6s", "stopped", "restarted"}
Asked      == {"asked", "stored", "pushed"}      \* a worker is at the request
Exited     == child \in {"exited", "failed"}

ProbeGoes(from, to) == probe = from /\ probe' = to

(* When the probe ends, the kernel closes its fds and sockets.             *)
ProbeExits == probe' = "exit" /\ refs' = refs \ {"flight", "client"}

-----------------------------------------------------------------------------
(* The child *)

Unshare ==
    /\ child = "new"
    /\ \/ child' = "made" /\ refs' = refs \cup {"child"}
       \/ child' = "failed" /\ UNCHANGED refs
    /\ UNCHANGED <<probe, got, conn, reply, entry, service, lines, pins>>

(* The fd travels in the message; a probe that is gone gets nothing.       *)
SendFd ==
    /\ child = "made"
    /\ child' = "sent"
    /\ refs' = IF probe = "exit" THEN refs ELSE refs \cup {"flight"}
    /\ UNCHANGED <<probe, got, conn, reply, entry, service, lines, pins>>

ChildExits ==
    /\ child = "sent"
    /\ child' = "exited"
    /\ refs' = refs \ {"child"}
    /\ UNCHANGED <<probe, got, conn, reply, entry, service, lines, pins>>

-----------------------------------------------------------------------------
(* The probe *)

(* recvmsg() returns the fd, or nothing because the child is gone or ten   *)
(* seconds are over.                                                       *)
Receive ==
    /\ ProbeGoes("receive", "wait")
    /\ \/ "flight" \in refs /\ got' = TRUE /\ refs' = (refs \ {"flight"}) \cup {"client"}
       \/ UNCHANGED <<got, refs>>
    /\ UNCHANGED <<child, conn, reply, entry, service, lines, pins>>

(* Mutant: the child is not waited for.                                    *)
WaitPid_NoWait ==
    /\ probe = "wait"
    /\ IF got THEN probe' = "connect" /\ UNCHANGED refs ELSE ProbeExits
    /\ UNCHANGED <<child, got, conn, reply, entry, service, lines, pins>>

(* waitpid(), and without an fd "child failed to create the namespace".    *)
WaitPid ==
    /\ probe = "wait" /\ Exited
    /\ IF got THEN probe' = "connect" /\ UNCHANGED refs ELSE ProbeExits
    /\ UNCHANGED <<child, got, conn, reply, entry, service, lines, pins>>

(* connect() and the request with the fd; an exception ends the probe.     *)
Allocate ==
    /\ probe = "connect"
    /\ \/ probe' = "reply" /\ conn' = "asked" /\ refs' = refs \cup {"server"}
       \/ ProbeExits /\ UNCHANGED conn
    /\ UNCHANGED <<child, got, reply, entry, service, lines, pins>>

(* The reply ends in a NUL, or with the connection, which leaves it empty, *)
(* or sixty seconds are over.  Only an error in it, or none in time, ends  *)
(* the probe.                                                              *)
Reply ==
    /\ probe = "reply"
    /\ \/ conn = "answered" /\ probe' = "registered" /\ reply' = "answer" /\ UNCHANGED refs
       \/ conn = "closed" /\ probe' = "registered" /\ reply' = "empty" /\ UNCHANGED refs
       \/ conn \in Asked \cup {"error"} /\ ProbeExits /\ UNCHANGED reply
    /\ UNCHANGED <<child, got, conn, entry, service, lines, pins>>

(* Mutant: every process is searched for the namespace, not PID 1.         *)
status_AnyHolder(tag, next) ==
    /\ ProbeGoes(tag, next)
    /\ lines' = Append(lines, [tag |-> tag, entry |-> entry, held |-> refs # {}])
    /\ UNCHANGED <<child, got, refs, conn, reply, entry, service, pins>>

(* status(): what the registry has and what PID 1 holds.                   *)
status(tag, next) ==
    /\ ProbeGoes(tag, next)
    /\ lines' = Append(lines, [tag |-> tag, entry |-> entry, held |-> "pid1" \in refs])
    /\ UNCHANGED <<child, got, refs, conn, reply, entry, service, pins>>

(* s.close(), os.close(userns_fd)                                          *)
Drop ==
    /\ ProbeGoes("drop", "t+2s")
    /\ conn' = "none" /\ refs' = refs \ {"client"}
    /\ UNCHANGED <<child, got, reply, entry, service, lines, pins>>

(* systemctl stop takes the fd store with the unit.                        *)
Stop ==
    /\ ProbeGoes("stop", "stopped")
    /\ service' = FALSE /\ refs' = refs \ {"pid1", "server"}
    /\ UNCHANGED <<child, got, conn, reply, entry, lines, pins>>

(* systemctl start: the startup sweep removes the entry of a dead          *)
(* namespace.                                                              *)
Restart ==
    /\ ProbeGoes("start", "restarted")
    /\ service' = TRUE /\ entry' = (entry /\ refs # {})
    /\ UNCHANGED <<child, got, refs, conn, reply, lines, pins>>

(* The service's journal, and the end.                                     *)
LogOut ==
    /\ probe = "journal" /\ ProbeExits
    /\ UNCHANGED <<child, got, conn, reply, entry, service, lines, pins>>

ProbeStep ==
    \/ Receive \/ WaitPid \/ Allocate \/ Reply
    \/ status("registered", "drop") \/ Drop
    \/ status("t+2s", "t+4s") \/ status("t+4s", "t+6s") \/ status("t+6s", "stop")
    \/ Stop \/ status("stopped", "start") \/ Restart \/ status("restarted", "journal") \/ LogOut

-----------------------------------------------------------------------------
(* systemd-nsresourced and PID 1 *)

(* The worker stores the entry, or refuses.                                *)
Store ==
    /\ conn = "asked" /\ service
    /\ \/ conn' = "stored" /\ entry' = TRUE
       \/ conn' = "error" /\ UNCHANGED entry
    /\ UNCHANGED <<probe, child, got, refs, reply, service, lines, pins>>

(* It hands the fd to PID 1: FDSTORE=1.                                    *)
Push ==
    /\ conn = "stored" /\ service
    /\ conn' = "pushed" /\ refs' = IF pins THEN refs \cup {"pid1"} ELSE refs
    /\ UNCHANGED <<probe, child, got, reply, entry, service, lines, pins>>

Answer ==
    /\ conn = "pushed" /\ service
    /\ conn' = "answered"
    /\ UNCHANGED <<probe, child, got, refs, reply, entry, service, lines, pins>>

(* A worker that dies, between any of these, closes the connection.        *)
WorkerDies ==
    /\ conn \in Asked
    /\ conn' = "closed" /\ refs' = refs \ {"server"}
    /\ UNCHANGED <<probe, child, got, reply, entry, service, lines, pins>>

(* The worker notices that the client is gone.                             *)
HangUp ==
    /\ "server" \in refs /\ (conn = "none" \/ probe = "exit")
    /\ refs' = refs \ {"server"}
    /\ UNCHANGED <<probe, child, got, conn, reply, entry, service, lines, pins>>

(* The kernel reports the death of a namespace to the manager.             *)
Reap ==
    /\ entry /\ refs = {} /\ service
    /\ entry' = FALSE
    /\ UNCHANGED <<probe, child, got, refs, conn, reply, service, lines, pins>>

ProbeInit ==
    /\ probe = "receive" /\ child = "new" /\ got = FALSE /\ refs = {} /\ conn = "none" /\ reply = "none"
    /\ entry = FALSE /\ service = TRUE /\ lines = <<>> /\ pins \in BOOLEAN

ProbeNext == Unshare \/ SendFd \/ ChildExits \/ ProbeStep \/ Store \/ Push \/ Answer \/ WorkerDies \/ HangUp \/ Reap

-----------------------------------------------------------------------------
(* Properties *)

(* The lines answer the question.  From "client dropped its fd and the     *)
(* connection" on no reference is the probe's doing, not its child's and   *)
(* not one in a socket, so that a namespace that lives on is kept by the   *)
(* service or by PID 1.  If the reply that was printed is an answer, PID 1 *)
(* is seen to hold the namespace iff the fd store keeps it, and the        *)
(* registry then keeps its entry.  If it is empty, because the worker died *)
(* before or after it stored the entry or handed over the fd, the probe    *)
(* goes on all the same: what it then sees held is kept, with an entry,    *)
(* but that nothing is held says nothing.  After a restart the entry is    *)
(* gone in either case.                                                    *)
ProbeTells ==
    /\ probe \in {"t+2s", "t+4s", "t+6s", "stop", "stopped", "start", "restarted", "journal"}
         => refs \cap ClientSide = {}
    /\ \A i \in DOMAIN lines :
         LET l == lines[i] IN
         /\ l.tag \in {"registered", "t+2s", "t+4s", "t+6s"} =>
              /\ l.held => pins /\ l.entry
              /\ reply = "answer" => lines[1].entry /\ (pins => l.held)
         /\ l.tag \in {"t+2s", "t+4s", "t+6s"} => l.held = lines[1].held
         /\ l.tag = "restarted" => ~l.entry /\ ~l.held

=============================================================================
