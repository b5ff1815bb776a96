---------------------------- MODULE ChildRecorder ----------------------------
(***************************************************************************)
(* The streaming child of main.c (child_stream_loop and the functions it   *)
(* calls): it pushes the frames it receives to RTMP and, once RTMP fails,  *)
(* into local segment files, which it registers in the table, closes when  *)
(* their duration has elapsed, and prunes by high and low water.           *)
(*                                                                         *)
(* Time is abstracted: a segment's duration has elapsed, and an RTMP retry *)
(* is due, whenever the environment says so; a segment that has reached    *)
(* SegBytes has certainly elapsed.                                         *)
(***************************************************************************)
EXTENDS SegmentTable

CONSTANTS HighWater, LowWater   \* high_water_bytes and low_water_bytes

ASSUME WaterMarks == HighWater \in Nat /\ LowWater \in Nat

VARIABLES
    cpc,            \* where the child is; "down" when no child runs
    mode,           \* ctx.mode
    storeReady,     \* ctx.video_store_ready
    frame,          \* a received frame is in hand; FALSE while leaving the loop
    cur,            \* the id of the segment being opened, written or closed
    curPath,        \* ctx.current_segment_path
    total,          \* total_bytes of video_store_prune
    victim          \* record of video_store_prune

childVars == <<cpc, mode, storeReady, frame, cur, curPath, total, victim>>

ChildPC == {"down", "boot", "recv", "push", "restore", "register", "init",
            "undo", "close", "sum", "fetch", "unlink", "delete"}
NoVictim == [id |-> 0, start |-> 0, size |-> 0]
Victim == [id : Id, start : Second, size : 0..SegBytes] \cup {NoVictim}

\* total is a sum over rows; what it is good for is PruneNeverOverdeletes.
ChildTypeOK ==
    /\ cpc \in ChildPC
    /\ mode \in {"rtmp", "file"}
    /\ storeReady \in BOOLEAN
    /\ frame \in BOOLEAN
    /\ cur \in 0..MaxSegments
    /\ curPath \in 0..MaxSegments
    /\ victim \in Victim

\* No child runs: nothing of its memory is left.
ChildInit ==
    /\ cpc = "down"
    /\ mode = "rtmp"
    /\ storeReady = FALSE
    /\ frame = FALSE
    /\ cur = 0
    /\ curPath = 0
    /\ total = 0
    /\ victim = NoVictim

\* The process ends, by return from child_stream_loop or by a crash.
EndChild ==
    /\ cpc' = "down"
    /\ mode' = "rtmp"
    /\ storeReady' = FALSE
    /\ frame' = FALSE
    /\ cur' = 0
    /\ curPath' = 0
    /\ total' = 0
    /\ victim' = NoVictim

-----------------------------------------------------------------------------
(* Start.                                                                  *)

\* fork, then local_store_open and video_store_init in the child.
ChildStart ==
    /\ cpc = "down"
    /\ cpc' = "boot"
    /\ storeReady' \in Outcome
    /\ UNCHANGED <<tableVars, mode, frame, cur, curPath, total, victim>>

\* child_open_rtmp_output at start, else child_switch_to_file_mode.
BootRtmp ==
    /\ cpc = "boot"
    /\ cpc' = "recv"
    /\ UNCHANGED <<tableVars, mode, storeReady, frame, cur, curPath, total,
                   victim>>

BootFile ==
    /\ cpc = "boot"
    /\ IF storeReady
       THEN /\ mode' = "file"
            /\ cpc' = "register"
            /\ UNCHANGED <<storeReady, frame, cur, curPath, total, victim>>
       ELSE EndChild
    /\ UNCHANGED tableVars

-----------------------------------------------------------------------------
(* One frame.                                                              *)

\* Mutant: the age of the segment never forces a rotation.
RecvFrameUnbounded ==
    /\ cpc = "recv"
    /\ frame' = TRUE
    /\ cpc' = "push"
    /\ UNCHANGED <<tableVars, mode, storeReady, cur, curPath, total, victim>>

\* recv_fd returns a frame; in file mode child_rotate_or_restore_output looks
\* at the age of the segment first.
RecvFrame ==
    /\ cpc = "recv"
    /\ frame' = TRUE
    /\ \/ /\ mode = "rtmp" \/ FileSize(curPath) < SegBytes
          /\ cpc' = "push"
       \/ /\ mode = "file"
          /\ cpc' = "close"
    /\ UNCHANGED <<tableVars, mode, storeReady, cur, curPath, total, victim>>

\* is_running is cleared, recv_fd fails or write of the ack fails: the loop
\* ends, and an open segment is closed on the way out.
LeaveLoop ==
    /\ cpc = "recv"
    /\ IF mode = "file"
       THEN /\ cpc' = "close"
            /\ UNCHANGED <<mode, storeReady, frame, cur, curPath, total,
                           victim>>
       ELSE EndChild
    /\ UNCHANGED tableVars

PushRtmp ==
    /\ cpc = "push" /\ mode = "rtmp"
    /\ cpc' = "recv"
    /\ frame' = FALSE
    /\ UNCHANGED <<tableVars, mode, storeReady, cur, curPath, total, victim>>

\* child_switch_to_file_mode with the frame still in hand.
PushRtmpFails ==
    /\ cpc = "push" /\ mode = "rtmp"
    /\ IF storeReady
       THEN /\ mode' = "file"
            /\ cpc' = "register"
            /\ UNCHANGED <<storeReady, frame, cur, curPath, total, victim>>
       ELSE EndChild
    /\ UNCHANGED tableVars

PushFile ==
    /\ cpc = "push" /\ mode = "file"
    /\ AppendFile(curPath, cur)
    /\ cpc' = "recv"
    /\ frame' = FALSE
    /\ UNCHANGED <<rows, lastId, mode, storeReady, cur, curPath, total,
                   victim>>

\* A failed push in file mode leaves the loop; the segment is closed there.
PushFileFails ==
    /\ cpc = "push" /\ mode = "file"
    /\ SpoilFile(curPath, cur)
    /\ cpc' = "close"
    /\ frame' = FALSE
    /\ UNCHANGED <<rows, lastId, mode, storeReady, cur, curPath, total,
                   victim>>

-----------------------------------------------------------------------------
(* child_open_file_segment.                                                *)

\* A failure of build_segment_path or of the INSERT leaves the loop with no
\* output open.  Reaching the bound MaxSegments is made to look like one.
OpenSegment ==
    /\ cpc = "register"
    /\ \/ /\ lastId < MaxSegments
          /\ \E start \in StartTimes :
               RegisterSegment(start) /\ curPath' = start
          /\ cur' = lastId + 1
          /\ cpc' = "init"
          /\ UNCHANGED <<files, mode, storeReady, frame, total, victim>>
       \/ /\ Faults \/ lastId = MaxSegments
          /\ EndChild
          /\ UNCHANGED tableVars

\* streamer_init opens the file as its last but one call.
InitOutput ==
    /\ cpc = "init"
    /\ CreateFile(curPath, cur)
    /\ cpc' = IF frame THEN "push" ELSE "recv"
    /\ UNCHANGED <<rows, lastId, mode, storeReady, frame, cur, curPath, total,
                   victim>>

\* It fails before it opens the file or, as one of the faults, after.
InitOutputFails ==
    /\ cpc = "init"
    /\ \/ UNCHANGED files
       \/ Faults /\ CreateFile(curPath, cur)
    /\ cpc' = "undo"
    /\ UNCHANGED <<rows, lastId, mode, storeReady, frame, cur, curPath, total,
                   victim>>

\* The DELETE that undoes the INSERT; its result is not looked at.
UndoSegment ==
    /\ cpc = "undo"
    /\ \E ok \in Outcome : IF ok THEN DeleteSegment(cur) ELSE UNCHANGED rows
    /\ EndChild
    /\ UNCHANGED <<lastId, files>>

-----------------------------------------------------------------------------
(* child_close_file_segment and video_store_prune.                         *)

\* streamer_clean, stat (0 when it fails), UPDATE to pending.  Every caller
\* passes broken = 0.
FinishSegment ==
    /\ cpc = "close"
    /\ \E statOk, sqlOk \in Outcome :
         IF sqlOk
         THEN UpdateSegment(cur, IF statOk THEN FileSize(curPath) ELSE 0,
                            "pending")
         ELSE UNCHANGED rows
    /\ cpc' = "sum"
    /\ UNCHANGED <<lastId, files, mode, storeReady, frame, cur, curPath,
                   total, victim>>

\* The return of child_close_file_segment: to child_rotate_or_restore_output
\* when a frame is in hand, otherwise to the end of child_stream_loop.
PruneDone ==
    IF frame
    THEN /\ cpc' = "restore"
         /\ cur' = 0
         /\ curPath' = 0
         /\ total' = 0
         /\ victim' = NoVictim
         /\ UNCHANGED <<mode, storeReady, frame>>
    ELSE EndChild

PruneSum ==
    /\ cpc = "sum"
    /\ \/ /\ VideoTotalSize > HighWater
          /\ total' = VideoTotalSize
          /\ cpc' = "fetch"
          /\ UNCHANGED <<mode, storeReady, frame, cur, curPath, victim>>
       \/ /\ Faults \/ VideoTotalSize <= HighWater
          /\ PruneDone
    /\ UNCHANGED tableVars

PruneFetch ==
    /\ cpc = "fetch"
    /\ \/ /\ \E i \in OldestPrunable :
               victim' = [id |-> i, start |-> rows[i].start,
                          size |-> rows[i].size]
          /\ cpc' = "unlink"
          /\ UNCHANGED <<mode, storeReady, frame, cur, curPath, total>>
       \/ /\ Faults \/ OldestPrunable = {}
          /\ PruneDone
    /\ UNCHANGED tableVars

PruneUnlink ==
    /\ cpc = "unlink"
    /\ \/ /\ UnlinkFile(victim.start)
          /\ cpc' = "delete"
          /\ UNCHANGED <<mode, storeReady, frame, cur, curPath, total, victim>>
       \/ /\ Faults
          /\ PruneDone
          /\ UNCHANGED files
    /\ UNCHANGED <<rows, lastId>>

\* Mutant: the loop compares with zero instead of the water marks.
PruneUntilEmpty(bytes) == bytes >= 0

\* The test at the end of an iteration and the one at the start of the next.
PruneContinues(bytes) == bytes > LowWater /\ bytes > HighWater

PruneDelete ==
    /\ cpc = "delete"
    /\ \/ /\ DeleteSegment(victim.id)
          /\ IF PruneContinues(total - victim.size)
             THEN /\ total' = total - victim.size
                  /\ victim' = NoVictim
                  /\ cpc' = "fetch"
                  /\ UNCHANGED <<mode, storeReady, frame, cur, curPath>>
             ELSE PruneDone
       \/ /\ Faults
          /\ PruneDone
          /\ UNCHANGED rows
    /\ UNCHANGED <<lastId, files>>

\* child_rotate_or_restore_output once the old segment is closed: back to
\* RTMP when a retry is due and succeeds, otherwise the next segment.
RestoreRtmp ==
    /\ cpc = "restore"
    /\ mode' = "rtmp"
    /\ cpc' = "push"
    /\ UNCHANGED <<tableVars, storeReady, frame, cur, curPath, total, victim>>

RotateSegment ==
    /\ cpc = "restore"
    /\ cpc' = "register"
    /\ UNCHANGED <<tableVars, mode, storeReady, frame, cur, curPath, total,
                   victim>>

-----------------------------------------------------------------------------
\* The steps of a child that runs and has a frame or its end to deal with.
ChildWork ==
    \/ BootRtmp \/ BootFile
    \/ PushRtmp \/ PushRtmpFails \/ PushFile \/ PushFileFails
    \/ OpenSegment \/ InitOutput \/ InitOutputFails \/ UndoSegment
    \/ FinishSegment \/ PruneSum \/ PruneFetch \/ PruneUnlink \/ PruneDelete
    \/ RestoreRtmp \/ RotateSegment

ChildNext == ChildStart \/ RecvFrame \/ LeaveLoop \/ ChildWork

\* kill -9, a fault in the encoder, or the device losing power.
ChildDies ==
    /\ cpc # "down"
    /\ EndChild
    /\ UNCHANGED tableVars
=============================================================================
