----------------------------- MODULE ChildOutput -----------------------------
(***************************************************************************)
(* The FFmpegStreamer of a streaming child: the contexts that streamer_init*)
(* of encoder.c acquires one after the other, and what child_stream_loop   *)
(* of main.c does with them while it goes from RTMP to files and back.     *)
(* ChildRecorder models the same loop over the segments that it writes and *)
(* takes an output as open or not.                                         *)
(*                                                                         *)
(* Time is counted in ticks, any number of them between two frames.  The   *)
(* counters stop at what the code can tell apart: a full segment, the      *)
(* longest back-off.                                                       *)
(***************************************************************************)
EXTENDS Integers

CONSTANTS
    SegmentTicks,   \* video_store.segment_duration_ms
    BaseTicks,      \* CHILD_RTMP_RETRY_BASE_MS
    MaxTicks,       \* CHILD_RTMP_RETRY_MAX_MS
    MaxFailures     \* bound: inits that fail in the life of one child

ASSUME TicksAssumption ==
    /\ SegmentTicks \in Nat \ {0}
    /\ MaxTicks \in Nat /\ BaseTicks \in 1..MaxTicks
    /\ MaxFailures \in Nat

VARIABLES
    opc,            \* where the child is; inside streamer_init, what is next
    target, cause,  \* what is being opened, and which caller asked for it
    s, header,      \* the pointers set in ctx->streamer; the header is out
    heap,           \* how many objects of each kind the process holds
    ready, mode,    \* streamer_ready, mode
    storeReady,     \* video_store_ready
    age,            \* time since current_segment_start_mono_ms
    sinceRetry,     \* time since last_rtmp_retry_mono_ms
    backoff,        \* rtmp_retry_backoff_ms
    failures        \* history: inits of this child that have failed

outputVars == <<s, header, heap, ready>>
timers == <<age, sinceRetry, backoff>>
vars == <<opc, target, cause, outputVars, mode, storeReady, timers, failures>>

Parts == {"fmt", "enc", "frame", "pb"}
Output == {"rtmp", "file"}
OutputPC == Parts \cup {"start", "open", "header", "recv", "push", "clean", "ended"}

TypeOK ==
    /\ opc \in OutputPC
    /\ target \in Output /\ mode \in Output
    /\ cause \in {"boot", "rotate", "push", "exit"}
    /\ s \subseteq Parts
    /\ heap \in [Parts -> 0..MaxFailures + 1]
    /\ {header, ready, storeReady} \subseteq BOOLEAN
    /\ age \in 0..SegmentTicks
    /\ sinceRetry \in 0..MaxTicks
    /\ backoff \in BaseTicks..MaxTicks
    /\ failures \in 0..MaxFailures

Init ==
    /\ opc = "start" /\ target = "rtmp" /\ cause = "boot"
    /\ s = {} /\ header = FALSE /\ heap = [p \in Parts |-> 0]
    /\ ready = FALSE /\ mode = "rtmp"
    /\ storeReady \in BOOLEAN
    /\ age = 0 /\ sinceRetry = 0 /\ backoff = BaseTicks
    /\ failures = 0

-----------------------------------------------------------------------------
(* encoder.c                                                               *)

\* child_reset_streamer: the memset forgets the pointers and frees nothing.
Reset ==
    /\ s' = {}
    /\ header' = FALSE
    /\ ready' = FALSE

Following(p) ==
    CASE p = "fmt" -> "enc" [] p = "enc" -> "frame"
      [] p = "frame" -> "pb" [] p = "pb" -> "header"

\* streamer_init, up to the next call that may fail: the output context and
\* its stream, the encoder, the frame and its buffer, the file or connection.
Acquire ==
    /\ opc \in Parts
    /\ s' = s \cup {opc}
    /\ heap' = [heap EXCEPT ![opc] = @ + 1]
    /\ opc' = Following(opc)
    /\ UNCHANGED <<target, cause, header, ready, mode, storeReady, timers, failures>>

\* Mutant: the file or the connection is not closed.
ReleaseWithoutClose ==
    heap' = [p \in Parts |-> IF p \in s \ {"pb"} THEN heap[p] - 1 ELSE heap[p]]

\* streamer_clean, which asks only whether the pointers are set.
Release ==
    heap' = [p \in Parts |-> IF p \in s THEN heap[p] - 1 ELSE heap[p]]

-----------------------------------------------------------------------------
(* main.c                                                                  *)

DoubledUncapped == 2 * backoff   \* Mutant: the delay doubles without a limit.

Doubled == IF 2 * backoff > MaxTicks THEN MaxTicks ELSE 2 * backoff

\* child_switch_to_file_mode: the RTMP timer starts again from the base.
EnterFileMode ==
    /\ mode' = "file"
    /\ sinceRetry' = 0
    /\ backoff' = BaseTicks

\* child_open_rtmp_output.
StartChild ==
    /\ opc = "start"
    /\ opc' = "fmt"
    /\ Reset
    /\ UNCHANGED <<target, cause, heap, mode, storeReady, timers, failures>>

\* child_open_file_segment, once the row is in the table.
OpenFile ==
    /\ opc = "open" /\ storeReady
    /\ opc' = "fmt"
    /\ Reset
    /\ UNCHANGED <<target, cause, heap, mode, storeReady, timers, failures>>

\* Mutant: child_rotate_or_restore_output does not report that the next
\* segment could not be opened.
OpenFileFailsUnnoticed ==
    /\ opc = "open"
    /\ opc' = IF cause = "rotate" THEN "push" ELSE "ended"
    /\ UNCHANGED <<target, cause, outputVars, mode, storeReady, timers, failures>>

\* No store, no path or no row: each caller gives up with no output open.
OpenFileFails ==
    /\ opc = "open"
    /\ opc' = "ended"
    /\ UNCHANGED <<target, cause, outputVars, mode, storeReady, timers, failures>>

WriteHeader ==
    /\ opc = "header"
    /\ header' = TRUE
    /\ ready' = TRUE
    /\ mode' = target
    /\ opc' = IF cause = "boot" THEN "recv" ELSE "push"
    /\ backoff' = IF target = "rtmp" THEN BaseTicks ELSE backoff
    /\ age' = IF target = "file" THEN 0 ELSE age
    /\ UNCHANGED <<target, cause, s, heap, storeReady, sinceRetry, failures>>

\* The stream server is away, the disk is full or the encoder has no room:
\* streamer_init returns at once and its caller resets the streamer.
InitFails ==
    /\ opc \in Parts \cup {"header"}
    /\ failures < MaxFailures
    /\ failures' = failures + 1
    /\ Reset
    /\ \/ /\ target = "file"
          /\ opc' = "ended"
          /\ UNCHANGED <<target, mode, sinceRetry, backoff>>
       \/ /\ target = "rtmp" /\ cause = "boot"
          /\ opc' = "open" /\ target' = "file"
          /\ EnterFileMode
       \/ /\ target = "rtmp" /\ cause = "rotate"
          /\ opc' = "open" /\ target' = "file"
          /\ backoff' = Doubled
          /\ UNCHANGED <<mode, sinceRetry>>
    /\ UNCHANGED <<cause, heap, storeReady, age>>

Later(clock, ticks, cap) == IF clock + ticks > cap THEN cap ELSE clock + ticks

\* What may pass until the next frame, beyond the limit of either clock.
Ticks == 0..SegmentTicks + MaxTicks

\* recv_fd, and in file mode the question whether the segment is full.  How
\* long an attempt at RTMP has blocked before, which the segment opened after
\* it has not seen, comes in here too.
RecvFrame(ticks) ==
    /\ opc = "recv"
    /\ age' = Later(age, ticks, SegmentTicks)
    /\ sinceRetry' \in Later(sinceRetry, ticks, MaxTicks)..MaxTicks
    /\ IF mode = "file" /\ ready /\ age' >= SegmentTicks
         THEN opc' = "clean" /\ cause' = "rotate"
         ELSE opc' = "push" /\ UNCHANGED cause
    /\ UNCHANGED <<target, outputVars, mode, storeReady, backoff, failures>>

\* Mutant: the time of the last attempt is set at every rotation.
RestoreOrRotateAlwaysStamps ==
    /\ opc = "clean" /\ cause = "rotate"
    /\ Release /\ Reset
    /\ sinceRetry' = 0
    /\ IF sinceRetry >= backoff
         THEN opc' = "fmt" /\ target' = "rtmp"
         ELSE opc' = "open" /\ target' = "file"
    /\ UNCHANGED <<cause, mode, storeReady, age, backoff, failures>>

\* child_close_file_segment, then RTMP if it is time to try, or a new file.
RestoreOrRotate ==
    /\ opc = "clean" /\ cause = "rotate"
    /\ Release /\ Reset
    /\ IF sinceRetry >= backoff
         THEN opc' = "fmt" /\ target' = "rtmp" /\ sinceRetry' = 0
         ELSE opc' = "open" /\ target' = "file" /\ UNCHANGED sinceRetry
    /\ UNCHANGED <<cause, mode, storeReady, age, backoff, failures>>

Push ==
    /\ opc = "push"
    /\ opc' = "recv"
    /\ UNCHANGED <<target, cause, outputVars, mode, storeReady, timers, failures>>

\* The one push whose failure the child survives: on RTMP, with a store.
PushFails ==
    /\ opc = "push"
    /\ opc' = "clean"
    /\ cause' = IF mode = "rtmp" /\ storeReady THEN "push" ELSE "exit"
    /\ UNCHANGED <<target, outputVars, mode, storeReady, timers, failures>>

SwitchToFile ==
    /\ opc = "clean" /\ cause = "push"
    /\ Release /\ Reset
    /\ EnterFileMode
    /\ opc' = "open" /\ target' = "file"
    /\ UNCHANGED <<cause, storeReady, age, failures>>

\* SIGTERM, or the parent has closed its end.
LeaveLoop ==
    /\ opc = "recv"
    /\ opc' = "clean" /\ cause' = "exit"
    /\ UNCHANGED <<target, outputVars, mode, storeReady, timers, failures>>

CloseAtExit ==
    /\ opc = "clean" /\ cause = "exit"
    /\ Release /\ Reset
    /\ opc' = "ended"
    /\ UNCHANGED <<target, cause, mode, storeReady, timers, failures>>

\* exit frees what was left, and the parent forks another child.
Respawn ==
    /\ opc = "ended"
    /\ opc' = "start" /\ target' = "rtmp" /\ cause' = "boot"
    /\ Reset
    /\ heap' = [p \in Parts |-> 0]
    /\ mode' = "rtmp"
    /\ storeReady' \in BOOLEAN
    /\ age' = 0 /\ sinceRetry' = 0 /\ backoff' = BaseTicks
    /\ failures' = 0

Work ==
    \/ StartChild \/ OpenFile \/ OpenFileFails
    \/ Acquire \/ WriteHeader \/ InitFails
    \/ RestoreOrRotate \/ Push \/ PushFails \/ SwitchToFile \/ CloseAtExit

Next == Work \/ LeaveLoop \/ Respawn \/ \E ticks \in Ticks : RecvFrame(ticks)

Spec == Init /\ [][Next]_vars

\* The calls into FFmpeg return, the camera goes on delivering frames, and the
\* clock does not stand still between all of them.
LiveSpec ==
    /\ Spec
    /\ WF_vars(Work)
    /\ SF_vars(\E ticks \in Ticks \ {0} : RecvFrame(ticks))

-----------------------------------------------------------------------------
\* A frame is pushed into, and streamer_clean writes the trailer of, nothing
\* but a muxer that streamer_init has opened to the end.  Neither function
\* asks: the frame would go through a null pointer, and a trailer without a
\* header is undefined.
OnlyOpenMuxerUsed ==
    opc \in {"push", "clean"} => ready /\ header /\ s = Parts

\* However often the child goes from RTMP to a file and back, the contexts it
\* holds are those of the open output and at most one of a kind for every
\* streamer_init that failed, which frees nothing.  So a child that is never
\* refused does not grow, and one that is refused does until it ends.
OnlyFailedInitsLeak ==
    \A p \in Parts : heap[p] <= failures + (IF p \in s THEN 1 ELSE 0)

\* A child in file mode tries RTMP again and gets it, or ends: the back-off is
\* asked only when a segment is full, and the delay it has grown to, however
\* many times longer than a segment, does not put the attempt off for ever.
\* The bound on failures says that the outage ends.
RtmpComesBack == mode = "file" ~> (mode = "rtmp" /\ ready) \/ opc = "ended"
=============================================================================
