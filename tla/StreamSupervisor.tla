-------------------------- MODULE StreamSupervisor --------------------------
(***************************************************************************)
(* The parent process of main.c: it captures frames, lends each to the     *)
(* streaming child over a socket pair (ipc.c), waits for the ack, gives    *)
(* the buffer back to the driver, and replaces a child that has gone.      *)
(* ChildRecorder is what the child does with a frame; here it only takes   *)
(* it, acknowledges it, or ends.                                           *)
(*                                                                         *)
(* The camera driver, fork and signals are external.  Time is abstracted:  *)
(* the restart delay has passed whenever the environment says so.          *)
(***************************************************************************)
EXTENDS Integers, FiniteSets

CONSTANTS
    Pids,           \* bound: processes that can exist at a time
    Buffers,        \* BUF_COUNT
    BaseDelay,      \* STREAM_RESTART_BASE_MS
    MaxDelay        \* STREAM_RESTART_MAX_MS

ASSUME SupervisorConstants ==
    /\ Pids \in Nat \ {0}
    /\ Buffers \in Nat \ {0}
    /\ BaseDelay \in Nat \ {0}
    /\ MaxDelay \in Nat /\ MaxDelay >= BaseDelay

VARIABLES
    ppc,            \* where the parent is
    running,        \* is_running of the parent
    online,         \* stream.stream_online
    childPid,       \* stream.child_pid; 0 for -1
    sock,           \* the child at the other end of stream.parent_sock, or 0
    delay,          \* stream.current_restart_ms
    held,           \* the buffer dequeued from the driver, or 0
    driver,         \* the buffers queued in the driver
    kids,           \* external: the state of each child process
    inbox,          \* the frame that waits in the child's end, or 0
    ack,            \* an ack waits in the parent's end
    using,          \* the frame that the child is encoding, or 0
    term            \* the children that SIGTERM has reached

streamVars == <<online, childPid, sock, delay>>
bufferVars == <<held, driver>>
wireVars == <<inbox, ack>>
kidVars == <<kids, wireVars, using, term>>
vars == <<ppc, running, streamVars, bufferVars, kidVars>>

Pid == 1..Pids
Buffer == 1..Buffers
ParentPC == {"spawn", "dequeue", "send", "ack", "requeue", "restart", "stop",
             "reap", "exited"}
KidState == {"none", "boot", "recv", "encode", "closing", "exiting", "zombie"}

TypeOK ==
    /\ ppc \in ParentPC
    /\ running \in BOOLEAN /\ online \in BOOLEAN
    /\ childPid \in {0} \cup Pid
    /\ sock \in {0} \cup Pid
    /\ delay \in BaseDelay..MaxDelay
    /\ held \in {0} \cup Buffer
    /\ driver \subseteq Buffer
    /\ kids \in [Pid -> KidState]
    /\ inbox \in [Pid -> {0} \cup Buffer]
    /\ ack \in [Pid -> BOOLEAN]
    /\ using \in [Pid -> {0} \cup Buffer]
    /\ term \subseteq Pid

Init ==
    /\ ppc = "spawn"
    /\ running = TRUE
    /\ online = FALSE
    /\ childPid = 0
    /\ sock = 0
    /\ delay = BaseDelay
    /\ held = 0
    /\ driver = Buffer
    /\ kids = [p \in Pid |-> "none"]
    /\ inbox = [p \in Pid |-> 0]
    /\ ack = [p \in Pid |-> FALSE]
    /\ using = [p \in Pid |-> 0]
    /\ term = {}

\* The child's end of the socket pair; it is closed by the child's last call
\* before exit, or by the kernel.
EndOpen(p) == kids[p] \in {"boot", "recv", "encode", "closing"}

-----------------------------------------------------------------------------
(* spawn_stream_child and its callers.                                     *)

\* waitpid has taken what is left of the child.
Reaped ==
    [p \in Pid |-> IF p = childPid /\ kids[p] = "zombie" THEN "none" ELSE kids[p]]

\* fork returns a pid of which no process is left in the table now.
Fork(table, p) ==
    /\ table[p] = "none"
    /\ kids' = [table EXCEPT ![p] = "boot"]
    /\ inbox' = [inbox EXCEPT ![p] = 0]
    /\ ack' = [ack EXCEPT ![p] = FALSE]
    /\ term' = term \ {p}
    /\ sock' = p
    /\ childPid' = p
    /\ online' = TRUE
    /\ delay' = BaseDelay

FirstSpawn ==
    /\ ppc = "spawn"
    /\ ppc' = "dequeue"
    /\ \/ \E p \in Pid : Fork(kids, p)
       \/ UNCHANGED <<streamVars, kids, wireVars, term>>
    /\ UNCHANGED <<running, bufferVars, using>>

\* Mutant: the delay doubles without a limit.
DoubledUnbounded == delay * 2

\* increase_restart_backoff
Doubled == IF delay * 2 > MaxDelay THEN MaxDelay ELSE delay * 2

\* waitpid with WNOHANG finds the old child alive.
RestartWaits ==
    /\ ppc = "restart" /\ childPid # 0 /\ kids[childPid] # "zombie"
    /\ ppc' = "dequeue"
    /\ UNCHANGED <<running, streamVars, bufferVars, kidVars>>

\* Mutant: the parent does not wait for the old child to be gone.
MayRestartAnyway == ppc = "restart"

\* No old child, or one that waitpid reaps now.
MayRestart == ppc = "restart" /\ (childPid # 0 => kids[childPid] = "zombie")

RestartTooEarly ==
    /\ MayRestart
    /\ ppc' = "dequeue"
    /\ kids' = Reaped
    /\ childPid' = 0
    /\ UNCHANGED <<running, online, sock, delay, bufferVars, wireVars, using,
                   term>>

RestartSpawns ==
    /\ MayRestart
    /\ ppc' = "dequeue"
    /\ \E p \in Pid : Fork(Reaped, p)
    /\ UNCHANGED <<running, bufferVars, using>>

RestartFails ==
    /\ MayRestart
    /\ ppc' = "dequeue"
    /\ kids' = Reaped
    /\ childPid' = 0
    /\ delay' = Doubled
    /\ UNCHANGED <<running, online, sock, bufferVars, wireVars, using, term>>

-----------------------------------------------------------------------------
(* The capture loop of main.                                               *)

\* VIDIOC_DQBUF
Dequeue ==
    /\ ppc = "dequeue" /\ running
    /\ \E b \in driver : held' = b /\ driver' = driver \ {b}
    /\ ppc' = IF online THEN "send" ELSE "requeue"
    /\ UNCHANGED <<running, streamVars, kidVars>>

\* is_running is cleared, or the camera fails.
LeaveCapture ==
    /\ ppc = "dequeue"
    /\ ppc' = "stop"
    /\ UNCHANGED <<running, streamVars, bufferVars, kidVars>>

\* mark_stream_offline: the child has closed its end, which is not yet to
\* say that waitpid finds it.
MarkOffline ==
    /\ sock' = 0
    /\ online' = FALSE
    /\ IF kids[childPid] = "zombie"
       THEN kids' = Reaped /\ childPid' = 0
       ELSE UNCHANGED <<kids, childPid>>
    /\ UNCHANGED delay

SendFrame ==
    /\ ppc = "send"
    /\ IF EndOpen(sock)
       THEN /\ inbox' = [inbox EXCEPT ![sock] = held]
            /\ ppc' = "ack"
            /\ UNCHANGED <<streamVars, kids>>
       ELSE /\ MarkOffline
            /\ ppc' = "requeue"
            /\ UNCHANGED inbox
    /\ UNCHANGED <<running, bufferVars, ack, using, term>>

\* Mutant: the ack is looked for and not waited for.
ReadAckNonBlocking ==
    /\ ppc = "ack"
    /\ ppc' = "requeue"
    /\ ack' = [ack EXCEPT ![sock] = FALSE]
    /\ UNCHANGED <<running, streamVars, bufferVars, kids, inbox, using, term>>

\* read blocks until the ack or the end of the child is there.
ReadAck ==
    /\ ppc = "ack"
    /\ ppc' = "requeue"
    /\ \/ /\ ack[sock]
          /\ ack' = [ack EXCEPT ![sock] = FALSE]
          /\ UNCHANGED <<streamVars, kids>>
       \/ /\ ~ack[sock] /\ ~EndOpen(sock)
          /\ MarkOffline
          /\ UNCHANGED ack
    /\ UNCHANGED <<running, bufferVars, inbox, using, term>>

\* Mutant: nothing tries to restart the stream.
RequeueOnly ==
    /\ ppc = "requeue"
    /\ driver' = driver \cup {held}
    /\ held' = 0
    /\ ppc' = "dequeue"
    /\ UNCHANGED <<running, streamVars, kidVars>>

\* VIDIOC_QBUF
Requeue ==
    /\ ppc = "requeue"
    /\ driver' = driver \cup {held}
    /\ held' = 0
    /\ ppc' = IF online THEN "dequeue" ELSE "restart"
    /\ UNCHANGED <<running, streamVars, kidVars>>

RequeueFails ==
    /\ ppc = "requeue"
    /\ ppc' = "stop"
    /\ UNCHANGED <<running, streamVars, bufferVars, kidVars>>

\* Mutant: SIGTERM is sent and the child is not waited for.
StopWithoutReap ==
    /\ ppc = "stop"
    /\ running' = FALSE
    /\ sock' = 0
    /\ online' = FALSE
    /\ term' = term \cup ({childPid} \ {0})
    /\ ppc' = "exited"
    /\ UNCHANGED <<childPid, delay, bufferVars, kids, wireVars, using>>

\* Mutant: the child is waited for and not told to end.
StopSilently ==
    /\ ppc = "stop"
    /\ running' = FALSE
    /\ online' = FALSE
    /\ ppc' = IF childPid # 0 THEN "reap" ELSE "exited"
    /\ UNCHANGED <<childPid, sock, delay, bufferVars, kidVars>>

\* stop_stream_child up to its waitpid.
Stop ==
    /\ ppc = "stop"
    /\ running' = FALSE
    /\ sock' = 0
    /\ online' = FALSE
    /\ term' = term \cup ({childPid} \ {0})
    /\ ppc' = IF childPid # 0 THEN "reap" ELSE "exited"
    /\ UNCHANGED <<childPid, delay, bufferVars, kids, wireVars, using>>

\* waitpid without WNOHANG.
Reap ==
    /\ ppc = "reap" /\ kids[childPid] = "zombie"
    /\ kids' = Reaped
    /\ childPid' = 0
    /\ ppc' = "exited"
    /\ UNCHANGED <<running, online, sock, delay, bufferVars, wireVars, using,
                   term>>

\* The service is started again; camera_start queues every buffer.
Boot ==
    /\ ppc = "exited"
    /\ ppc' = "spawn"
    /\ running' = TRUE
    /\ childPid' = 0
    /\ delay' = BaseDelay
    /\ held' = 0
    /\ driver' = Buffer
    /\ UNCHANGED <<online, sock, kids, wireVars, using, term>>

\* SIGINT or SIGTERM to the parent; from a terminal it reaches the child too,
\* which may leave while the parent still sends to it or waits for its ack.
Quit ==
    /\ running /\ ppc # "exited"
    /\ running' = FALSE
    /\ term' \in {term, term \cup {p \in Pid : kids[p] # "none"}}
    /\ UNCHANGED <<ppc, streamVars, bufferVars, kids, wireVars, using>>

-----------------------------------------------------------------------------
(* The child, as the parent sees it.                                       *)

Turn(p, from, to) ==
    /\ kids[p] = from
    /\ kids' = [kids EXCEPT ![p] = to]
    /\ UNCHANGED <<ppc, running, streamVars, bufferVars, term>>

\* Without RTMP and without a store it ends at once.
ChildBoots(p) ==
    /\ Turn(p, "boot", "recv") \/ Turn(p, "boot", "exiting")
    /\ UNCHANGED <<wireVars, using>>

\* recv_fd; signal() restarts a recvmsg that a signal interrupts, so a child
\* that is in it takes one more frame.
ChildReceives(p) ==
    /\ Turn(p, "recv", "encode")
    /\ inbox[p] # 0
    /\ using' = [using EXCEPT ![p] = inbox[p]]
    /\ inbox' = [inbox EXCEPT ![p] = 0]
    /\ UNCHANGED ack

\* is_running is cleared, or the parent has closed its end.
ChildLeaves(p) ==
    /\ Turn(p, "recv", "closing")
    /\ p \in term \/ (sock # p /\ inbox[p] = 0)
    /\ UNCHANGED <<wireVars, using>>

\* Mutant: the ack is written before the frame is encoded.
ChildAcksFirst(p) ==
    /\ sock = p /\ ~ack[p] /\ using[p] # 0
    /\ Turn(p, "encode", "encode")
    /\ ack' = [ack EXCEPT ![p] = TRUE]
    /\ UNCHANGED <<inbox, using>>

\* The frame is encoded and pushed; the write of the ack finds the parent or
\* ends the child.
ChildAcks(p) ==
    /\ \/ sock = p /\ Turn(p, "encode", "recv") /\ ack' = [ack EXCEPT ![p] = TRUE]
       \/ sock # p /\ Turn(p, "encode", "closing") /\ UNCHANGED ack
    /\ using' = [using EXCEPT ![p] = 0]
    /\ UNCHANGED inbox

\* A push or a change of output fails.
ChildFails(p) ==
    /\ Turn(p, "encode", "closing")
    /\ using' = [using EXCEPT ![p] = 0]
    /\ UNCHANGED wireVars

\* The last segment is closed and the store pruned, then the socket closed.
ChildCloses(p) ==
    /\ Turn(p, "closing", "exiting")
    /\ inbox' = [inbox EXCEPT ![p] = 0]
    /\ UNCHANGED <<ack, using>>

ChildExits(p) ==
    /\ Turn(p, "exiting", "zombie")
    /\ UNCHANGED <<wireVars, using>>

ChildCrashes(p) ==
    /\ \E s \in {"boot", "recv", "encode", "closing"} : Turn(p, s, "zombie")
    /\ using' = [using EXCEPT ![p] = 0]
    /\ inbox' = [inbox EXCEPT ![p] = 0]
    /\ UNCHANGED ack

-----------------------------------------------------------------------------
ParentWork ==
    \/ FirstSpawn \/ RestartWaits \/ RestartTooEarly \/ RestartSpawns
    \/ RestartFails \/ Dequeue \/ SendFrame \/ ReadAck \/ Requeue \/ Stop \/ Reap

ChildWork(p) ==
    ChildReceives(p) \/ ChildLeaves(p) \/ ChildExits(p)

\* The steps in which the child is inside a call into its output: the open at
\* its start, the push of a frame, and the trailer and close at its end.
ChildOutputs(p) ==
    ChildBoots(p) \/ ChildAcks(p) \/ ChildFails(p) \/ ChildCloses(p)

Next ==
    \/ ParentWork \/ LeaveCapture \/ RequeueFails \/ Boot \/ Quit
    \/ \E p \in Pid : ChildWork(p) \/ ChildOutputs(p) \/ ChildCrashes(p)

Spec == Init /\ [][Next]_vars

\* Both processes are scheduled, the camera delivers frames, a signal is seen
\* at the next one, and a delay passes and a fork succeeds in the end.
Fairness ==
    /\ WF_vars(ParentWork)
    /\ WF_vars(LeaveCapture /\ ~running)
    /\ SF_vars(RestartSpawns)
    /\ \A p \in Pid : WF_vars(ChildWork(p))

\* Not a matter of scheduling, and nothing in the code sees to it: a call into
\* the output returns.  Neither the connection to the stream server, nor the
\* push, nor the trailer has a time-out, nor has the parent when it waits for
\* an ack or, at its end, for the child.
OutputReturns == \A p \in Pid : WF_vars(ChildOutputs(p))

FairSpec == Spec /\ Fairness

LiveSpec == FairSpec /\ OutputReturns

-----------------------------------------------------------------------------
(* What the parent must keep to.                                           *)

\* No child is out of the parent's sight: a second one, which would prune and
\* write the same table and directory, is not started before the first is
\* reaped, even when the parent finds its socket closed and it is not yet gone.
EveryChildKnown == \A p \in Pid : kids[p] # "none" => p = childPid

\* The driver never fills a buffer that a child is reading or may still come
\* to read, whichever of the two ends first.
FrameNotShared ==
    \A p \in Pid :
        /\ using[p] \notin driver
        /\ kids[p] \in {"boot", "recv"} => inbox[p] \notin driver

\* An ack in the socket answers the frame that the parent has in hand now:
\* none is left over from a frame or a child before.
AckIsForFrame ==
    \A p \in Pid : ack[p] /\ sock = p => ppc = "ack" /\ inbox[p] = 0 /\ using[p] = 0

\* When main returns, no process of its own is left behind.
ExitLeavesNoChild == ppc = "exited" => \A p \in Pid : kids[p] = "none"

\* A stream that went offline comes back, unless the program is stopped.
StreamComesBack == ~online ~> online \/ ~running

\* The program ends when it is told to: a child in the middle of a frame, of its
\* start or of its end is told too, gets there, and is waited for.  Only as long
\* as its output returns: else the parent waits with it, for the ack or for its
\* end.
ShutdownCompletes == ~running ~> ppc = "exited"

=============================================================================
