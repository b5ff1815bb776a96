----------------------------- MODULE ChildOverlap -----------------------------
(***************************************************************************)
(* VideoPipeline with a parent that can be killed.  Nothing ties the child *)
(* to its parent's life: it finishes the call it is in and the frame it    *)
(* has, takes at most the one frame already sent to it, finds the socket   *)
(* closed, closes its segment, prunes, and exits.  Meanwhile the service   *)
(* is started again: a new child and a new uploader work on the table and  *)
(* the directory that the old child is still closing and pruning.          *)
(*                                                                         *)
(* Each of the two reads the clock for itself, at the receipt of a frame   *)
(* and before it closes and prunes, and names its file by the whole second *)
(* (main.c child_stream_loop, video_store_build_segment_path): an outage   *)
(* of RTMP that reaches both within a second gives them one path, and the  *)
(* clock that moves forward does not prevent it.  So this module is to be  *)
(* read with SteadyClock = FALSE, where a segment gets any second; what    *)
(* becomes of a file is said of the segments whose second is their own.    *)
(*                                                                         *)
(* The old child also keeps the camera open.  A driver that gives its      *)
(* buffers to one open file keeps the new parent out until the old child   *)
(* is gone, another does not; the model leaves that open.                  *)
(*                                                                         *)
(* Bound: one old child at a time.                                         *)
(***************************************************************************)
EXTENDS VideoPipeline, Sequences

VARIABLES
    oldPc, oldMode, oldStoreReady, oldFrame,        \* the old child's memory,
    oldCur, oldPath, oldTotal, oldVictim,           \* as in ChildRecorder
    inFlight,       \* a frame sent to it before the kill is still unread
    starts          \* history: the second of every segment ever registered

oldMemory == <<oldPc, oldMode, oldStoreReady, oldFrame, oldCur, oldPath,
               oldTotal, oldVictim>>
oldVars == <<oldMemory, inFlight>>
overlapVars == <<vars, oldVars, starts>>

Old == INSTANCE ChildRecorder
         WITH cpc <- oldPc, mode <- oldMode, storeReady <- oldStoreReady,
              frame <- oldFrame, cur <- oldCur, curPath <- oldPath,
              total <- oldTotal, victim <- oldVictim

OverlapTypeOK ==
    /\ TypeOK
    /\ Old!ChildTypeOK
    /\ inFlight \in BOOLEAN
    /\ starts \in [1..lastId -> Second]

OverlapInit ==
    /\ Init
    /\ Old!ChildInit
    /\ inFlight = FALSE
    /\ starts = <<>>

-----------------------------------------------------------------------------
\* The history takes note of the segment that a step registers.
Remember ==
    starts' = IF lastId' = lastId THEN starts
              ELSE Append(starts, rows'[lastId'].start)

Inherit ==
    /\ oldPc' = cpc
    /\ oldMode' = mode
    /\ oldStoreReady' = storeReady
    /\ oldFrame' = frame
    /\ oldCur' = cur
    /\ oldPath' = curPath
    /\ oldTotal' = total
    /\ oldVictim' = victim

\* kill -9 of the parent.  Its threads die with it; the child becomes the old
\* child where it is.  It may happen any number of times and is not counted in
\* crashes.
ParentKill ==
    /\ cpc # "down" /\ oldPc = "down"
    /\ Inherit
    /\ inFlight' \in IF frame THEN {FALSE} ELSE BOOLEAN
    /\ EndChild
    /\ UploaderDies
    /\ UNCHANGED <<crashes, starts>>

OldReceives ==
    /\ inFlight
    /\ Old!RecvFrame
    /\ inFlight' = FALSE
    /\ UNCHANGED <<childVars, uploaderVars, crashes, starts>>

\* recv_fd finds the end of the stream, or the write of the ack finds nobody.
OldLeaves ==
    /\ Old!LeaveLoop
    /\ inFlight' = FALSE
    /\ UNCHANGED <<childVars, uploaderVars, crashes, starts>>

OldWorks ==
    /\ Old!ChildWork
    /\ Remember
    /\ UNCHANGED <<inFlight, childVars, uploaderVars, crashes>>

OldDies ==
    /\ crashes < MaxCrashes
    /\ Old!ChildDies
    /\ inFlight' = FALSE
    /\ crashes' = crashes + 1
    /\ UNCHANGED <<childVars, uploaderVars, starts>>

\* Power loss takes the old child too.
PowerLoss ==
    /\ DeviceCrash
    /\ Old!EndChild
    /\ inFlight' = FALSE
    /\ UNCHANGED starts

NewSteps ==
    /\ ChildSteps \/ UploaderSteps \/ Shutdown \/ Exit \/ ChildCrash
    /\ Remember
    /\ UNCHANGED oldVars

OverlapNext ==
    \/ NewSteps
    \/ OldReceives \/ OldLeaves \/ OldWorks
    \/ ParentKill \/ OldDies \/ PowerLoss

OverlapSpec == OverlapInit /\ [][OverlapNext]_overlapVars

-----------------------------------------------------------------------------
\* The segments whose second no other was ever given: their path is their own.
Alone ==
    {i \in 1..lastId : \A j \in (1..lastId) \ {i} : starts[j] # starts[i]}

\* While a child writes a segment, the row is there, still recording; and
\* unless another segment got the same second, so is the file that the child
\* created for it: neither the other child's prune nor its undo nor the
\* uploader's reset at the restart takes either away.
KeepsSegment(pc, m, id, path) ==
    pc = "close" \/ (m = "file" /\ pc \in {"recv", "push"}) =>
        /\ id \in RowsIn({"recording"})
        /\ id \in Alone => path \in DOMAIN files /\ files[path].by = id

WritersKeepSegments ==
    /\ KeepsSegment(cpc, mode, cur, curPath)
    /\ KeepsSegment(oldPc, oldMode, oldCur, oldPath)

\* Nor does the new uploader ever have in its hands a segment that one of the
\* two children is still opening, writing or undoing: the reset at its start
\* must not offer the old child's row.  Nor does it read what is being written,
\* unless it has the row of another segment of the same second.
Untouched(pc, id) ==
    pc \in {"recv", "push", "init", "undo", "close"} /\ id # 0 =>
        /\ seg.id # id
        /\ id \in Alone => body.by # id

OpenSegmentsNotUploaded == Untouched(cpc, cur) /\ Untouched(oldPc, oldCur)

\* A row that a close or a prune would have dealt with and never will: still
\* recording with no child at it, or finished without the file that was its
\* own, and no prune about to delete it.
LeftBehind(i) ==
    IF rows[i].state = "recording" THEN i # cur /\ i # oldCur
    ELSE /\ i \in Alone
         /\ ~ (rows[i].start \in DOMAIN files /\ files[rows[i].start].by = i)
         /\ ~ (cpc = "delete" /\ victim.id = i)
         /\ ~ (oldPc = "delete" /\ oldVictim.id = i)

\* Killing the parent leaves nothing behind, however often it happens and
\* although two prunes may then hold the same victim: only a crash leaves a
\* row, and only one that a dying child had in hand.
OnlyDeathsLeaveRows ==
    [][\A i \in DOMAIN rows' :
          LeftBehind(i)' => \/ i \in DOMAIN rows /\ LeftBehind(i)
                           \/ /\ crashes' # crashes
                              /\ i \in {cur, victim.id, oldCur, oldVictim.id}
      ]_overlapVars
=============================================================================
