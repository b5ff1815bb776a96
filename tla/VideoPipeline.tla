---------------------------- MODULE VideoPipeline ----------------------------
(***************************************************************************)
(* The recording child and the uploader thread over one table and one      *)
(* directory: two processes that share no lock and meet only in the rows   *)
(* and the files.  Either may die between two of its statements; the       *)
(* parent starts a new child, the device starts a new parent.              *)
(***************************************************************************)
EXTENDS ChildRecorder, VideoUploader

CONSTANT MaxCrashes     \* bound: crashes in a behaviour

ASSUME CrashBound == MaxCrashes \in Nat

VARIABLE crashes

vars == <<tableVars, childVars, uploaderVars, crashes>>

TypeOK ==
    /\ TableTypeOK
    /\ ChildTypeOK
    /\ UploaderTypeOK
    /\ crashes \in 0..MaxCrashes

Init ==
    /\ EmptyTable
    /\ ChildInit
    /\ UploaderInit
    /\ crashes = 0

-----------------------------------------------------------------------------
\* The parent stops the uploader after stop_stream_child has waited for the
\* child, and starts no child afterwards.
ChildSteps ==
    /\ ChildNext
    /\ ~stop
    /\ UNCHANGED <<uploaderVars, crashes>>

UploaderSteps ==
    /\ UploaderNext
    /\ UNCHANGED <<childVars, crashes>>

Shutdown ==
    /\ cpc = "down"
    /\ StopRequest
    /\ UNCHANGED <<childVars, crashes>>

ChildCrash ==
    /\ crashes < MaxCrashes
    /\ ChildDies
    /\ crashes' = crashes + 1
    /\ UNCHANGED uploaderVars

\* Power loss or reboot; every completed write is taken to be on the medium.
DeviceCrash ==
    /\ crashes < MaxCrashes
    /\ upc # "off"
    /\ EndChild
    /\ UploaderDies
    /\ crashes' = crashes + 1

\* After the join main returns; the next boot starts from what is stored.
Exit ==
    /\ upc = "joined" /\ stop
    /\ UploaderDies
    /\ UNCHANGED <<childVars, crashes>>

Next ==
    \/ ChildSteps \/ UploaderSteps
    \/ Shutdown \/ Exit
    \/ ChildCrash \/ DeviceCrash

Spec == Init /\ [][Next]_vars

-----------------------------------------------------------------------------
(* The uploader goes on with what it has begun, since its transfer has a   *)
(* time-out, and the child with a prune, which calls only SQLite and the   *)
(* file system.  Nothing is assumed of the rest of the child, which a call *)
(* to the stream server may hold for ever, nor of the operator.            *)
ChildPrunes ==
    /\ PruneSum \/ PruneFetch \/ PruneUnlink \/ PruneDelete
    /\ UNCHANGED <<uploaderVars, crashes>>

Fairness == WF_vars(ChildPrunes) /\ WF_vars(UploaderSteps)

\* A server that is not refusing for ever: an upload tried again and again
\* is accepted in the end.
ServerFairness == SF_vars(ServerAccepts /\ UNCHANGED <<childVars, crashes>>)

FairSpec == Spec /\ Fairness

LiveSpec == FairSpec /\ ServerFairness

-----------------------------------------------------------------------------
(* What the pair must keep to.                                             *)

\* A row says uploaded only when the server has that very segment, whole: the
\* content written for this id, with the length the row records.  The prune
\* may later delete the row and the file on the strength of it.
ServerHoldsSegment ==
    \A i \in RowsIn({"uploaded"}) :
        [id |-> i, by |-> i, size |-> rows[i].size] \in server

\* The uploader never has in its hands the segment that the child is still
\* opening, writing or undoing, nor what was in its file at the time.
NeverUploadOpenSegment ==
    cpc \in {"recv", "push", "init", "undo", "close"} /\ cur # 0 =>
        /\ seg.id # cur
        /\ body.by # cur

\* Only the segment in the uploader's hands is marked uploading: none is left
\* behind by a refused upload, a prune in between or a stop, where it would
\* be neither offered again, nor prunable, nor counted.
UploadingIsCurrent ==
    RowsIn({"uploading"}) \subseteq
        IF upc \in {"post", "sending", "uploaded", "retry"} THEN {seg.id}
        ELSE IF upc \in {"off", "reset"} THEN DOMAIN rows
        ELSE {}

\* Every file has the row that will let the prune find it, whatever the step
\* at which a process dies: the row is inserted before the file is created
\* and deleted after the file.
EveryFileTracked ==
    \A p \in DOMAIN files :
        \E i \in DOMAIN rows : rows[i].start = p /\ files[p].by = i

\* The rows of finished segments whose file is gone.
Orphans ==
    {i \in RowsIn({"pending", "uploading", "uploaded", "broken"}) :
        ~ \E p \in DOMAIN files : p = rows[i].start /\ files[p].by = i}

\* The directory stays near the high water: one segment that is being written
\* and one that is being uploaded, which the total leaves out, may exceed it,
\* and one more for each crash, whose row stays "recording" and never counts.
DiskBounded == DiskBytes <= HighWater + (2 + crashes) * SegBytes

\* The prune starts only when the directory really is above the high water
\* and deletes a file only while it is above the low water, stale as the
\* prune's total may be by then: rows claimed, uploaded or released meanwhile.
\* A row that a crash has left without its file still counts, one per crash.
PruneNeverOverdeletes ==
    [][/\ cpc = "sum" /\ cpc' = "fetch" =>
             DiskBytes + crashes * SegBytes > HighWater
       /\ cpc = "unlink" /\ files' # files =>
             DiskBytes + crashes * SegBytes > LowWater]_vars

\* A finished segment is uploaded, or deleted by the prune, unless the
\* program is stopped: later segments, refusals and the prune of the segment
\* in hand do not keep it waiting for ever.
PendingEventuallyServed ==
    \A i \in Id :
        (i \in DOMAIN rows /\ rows[i].state = "pending") ~>
            \/ i \notin DOMAIN rows
            \/ rows[i].state = "uploaded"
            \/ stop

\* video_uploader_stop returns: the thread sees the event and ends.
StopEventuallyJoins == stop ~> upc = "joined"

-----------------------------------------------------------------------------
(* What the documents promise and the code does not keep.                  *)

\* Once above the high water the prune deletes until it is below the low
\* water, so that not every new segment has to delete one.
PruneReachesLowWater ==
    [][cpc = "delete" /\ cpc' # "fetch" => total - victim.size <= LowWater]_vars

\* A segment in which a write failed is marked broken and never considered
\* for upload.
FailedWriteNeverOffered ==
    \A i \in RowsIn({"pending", "uploading", "uploaded"}) :
        rows[i].start \in DOMAIN files =>
            (files[rows[i].start].by = i => files[rows[i].start].whole)

\* A pending segment whose file is there is uploaded while the server accepts
\* uploads, whatever another row has suffered.
StoredEventuallyServed ==
    \A i \in Id :
        (i \in RowsIn({"pending"}) \ Orphans) ~>
            \/ i \notin DOMAIN rows
            \/ rows[i].state = "uploaded"
            \/ stop

-----------------------------------------------------------------------------
(* The processes, statement by statement, keep the promise of              *)
(* SegmentLifecycle.                                                       *)
LifeOf == [i \in Id |->
             IF i \in DOMAIN rows THEN rows[i].state
             ELSE IF i <= lastId THEN "deleted" ELSE "none"]

Stored == {u.id : u \in server}

Lifecycle == INSTANCE SegmentLifecycle WITH life <- LifeOf, stored <- Stored

\* Under clock steps, failing statements and crashes alike, every step is one
\* of the life of a segment.
ImplementsLifecycle == Lifecycle!Spec
=============================================================================
