---------------------------- MODULE SegmentTable ----------------------------
(***************************************************************************)
(* The state that the recording child and the uploader thread share: the   *)
(* SQLite table video_segments (local_store.c) and the directory of video  *)
(* segment files (video_store.c).  Each statement on the table is one      *)
(* operator; SQLite makes one statement atomic and no code path wraps two  *)
(* of them in a transaction, so a caller takes one step per statement.     *)
(*                                                                         *)
(* A row keeps the columns that the program decides on: start (start_ms,   *)
(* in seconds, which is also all that the file name keeps of it), size     *)
(* (size_bytes) and state.  A file keeps the id of the segment whose       *)
(* output created (or truncated) it, the units of video that this output   *)
(* has written, and whether each of those writes succeeded.  Two children  *)
(* that open a segment in the same second get one path, hence one file.    *)
(***************************************************************************)
EXTENDS Integers, FiniteSets, FiniteSetsExt

CONSTANTS
    MaxSegments,    \* bound: rows ever inserted
    SegBytes,       \* bound: units of video that one segment duration yields
    SteadyClock,    \* TRUE: every segment starts in a second of its own
    Faults          \* TRUE: statements, stat and unlink may fail

ASSUME TableConstants ==
    /\ MaxSegments \in Nat
    /\ SegBytes \in Nat \ {0}
    /\ SteadyClock \in BOOLEAN
    /\ Faults \in BOOLEAN

VARIABLES
    rows,           \* id -> row, defined on the rows of the table
    lastId,         \* AUTOINCREMENT: the largest id ever given
    files           \* path -> content, defined on the files of the directory

tableVars == <<rows, lastId, files>>

Id == 1..MaxSegments
Second == 1..MaxSegments
SegmentState == {"recording", "pending", "uploading", "uploaded", "broken"}
Row == [start : Second, size : 0..SegBytes, state : SegmentState]
Content == [by : Id, size : 0..SegBytes, whole : BOOLEAN]

TableTypeOK ==
    /\ lastId \in 0..MaxSegments
    /\ DOMAIN rows \subseteq 1..lastId
    /\ \A i \in DOMAIN rows : rows[i] \in Row
    /\ DOMAIN files \subseteq Second
    /\ \A p \in DOMAIN files : files[p] \in Content

EmptyTable ==
    /\ rows = [i \in {} |-> {}]
    /\ lastId = 0
    /\ files = [p \in {} |-> {}]

\* What a call that may fail can return.
Outcome == IF Faults THEN BOOLEAN ELSE {TRUE}

-----------------------------------------------------------------------------
(* Statements of local_store.c on video_segments.                          *)

RowsIn(S) == {i \in DOMAIN rows : rows[i].state \in S}

\* ORDER BY start_ms ASC LIMIT 1, with ties left open.
Oldest(S) == {i \in S : \A j \in S : rows[i].start <= rows[j].start}

\* Mutant: the SELECT also takes segments that are still being recorded.
OldestPendingOrRecording == Oldest(RowsIn({"pending", "recording"}))

OldestPending == Oldest(RowsIn({"pending"}))

\* Mutant: the prune also takes segments that are still being recorded.
OldestPrunableOrRecording ==
    Oldest(RowsIn({"uploaded", "pending", "broken", "recording"}))

OldestPrunable == Oldest(RowsIn({"uploaded", "pending", "broken"}))

RowSize(i) == rows[i].size

\* Mutant: the SUM leaves out the segments that wait for their upload.
VideoTotalWithoutPending ==
    MapThenSumSet(RowSize, RowsIn({"recording", "uploaded", "broken"}))

VideoTotalSize ==
    MapThenSumSet(RowSize, RowsIn({"recording", "pending", "uploaded", "broken"}))

\* The wall clock that a child reads, each for itself, when a segment starts.
\* A child's segments last at least a second, so a clock that moves forward
\* gives the segments of one child after another a second of their own.  It
\* does not when two children are alive, or when the clock steps back: then a
\* segment may get any second, one that was given before among them.
StartTimes == IF SteadyClock THEN {lastId + 1} ELSE Second

RegisterSegment(start) ==
    /\ lastId' = lastId + 1
    /\ rows' = [i \in DOMAIN rows \cup {lastId + 1} |->
                  IF i = lastId + 1
                  THEN [start |-> start, size |-> 0, state |-> "recording"]
                  ELSE rows[i]]

\* An UPDATE or a DELETE whose WHERE id = ? meets no row changes nothing.
UpdateSegment(id, size, st) ==
    rows' = [i \in DOMAIN rows |->
               IF i = id THEN [rows[i] EXCEPT !.size = size, !.state = st]
                         ELSE rows[i]]

\* Mutant: the id is not bound, the DELETE meets no row.
DeleteUnbound(id) == UNCHANGED rows

DeleteSegment(id) == rows' = [i \in DOMAIN rows \ {id} |-> rows[i]]

SetState(S, st) ==
    rows' = [i \in DOMAIN rows |->
               IF i \in S THEN [rows[i] EXCEPT !.state = st] ELSE rows[i]]

MarkUploading(id) == SetState({id}, "uploading")

MarkUploaded(id) == SetState({id}, "uploaded")

\* Mutant: a refused segment keeps the state uploading.
MarkRetryForgotten(id) == UNCHANGED rows

\* Mutant: one refusal counts as a broken file.
MarkRetryAsBroken(id) == SetState({id}, "broken")

MarkRetry(id) == SetState({id}, "pending")

\* Mutant: nothing is reset at a restart.
ResetNothing == UNCHANGED rows

\* Mutant: the restart offers again what is already uploaded.
ResetUploadedToo == SetState(RowsIn({"uploading", "uploaded"}), "pending")

\* Mutant: the restart takes what is still being recorded for a leftover.
ResetRecordingToo == SetState(RowsIn({"uploading", "recording"}), "pending")

ResetUploading == SetState(RowsIn({"uploading"}), "pending")

-----------------------------------------------------------------------------
(* The files.                                                              *)

\* avio_open(AVIO_FLAG_WRITE) creates the file or truncates the one in place.
CreateFile(p, id) ==
    files' = [q \in DOMAIN files \cup {p} |->
                IF q = p THEN [by |-> id, size |-> 0, whole |-> TRUE]
                         ELSE files[q]]

\* A write by the output of segment id.  One whose file another output has
\* truncated writes on in what is no longer its own, and is not counted.
AppendFile(p, id) ==
    files' = [q \in DOMAIN files |->
                IF q = p /\ files[q].by = id
                THEN [files[q] EXCEPT !.size = @ + 1] ELSE files[q]]

\* A write failed; what it was to add is missing.
SpoilFile(p, id) ==
    files' = [q \in DOMAIN files |->
                IF q = p /\ files[q].by = id
                THEN [files[q] EXCEPT !.whole = FALSE] ELSE files[q]]

\* Mutant: a path that the prune gets wrong, taken for a missing file.
UnlinkMissing(p) == UNCHANGED files

\* unlink(2); ENOENT is not an error for the caller.
UnlinkFile(p) == files' = [q \in DOMAIN files \ {p} |-> files[q]]

FileSize(p) == IF p \in DOMAIN files THEN files[p].size ELSE 0

ContentSize(p) == files[p].size

DiskBytes == MapThenSumSet(ContentSize, DOMAIN files)
=============================================================================
