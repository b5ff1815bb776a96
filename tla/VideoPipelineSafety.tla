------------------------ MODULE VideoPipelineSafety ------------------------
(***************************************************************************)
(* The proofs that what the uploader takes, sends and reports is the       *)
(* segment that was recorded, and how far the directory can exceed its     *)
(* limit, under a wall clock that moves forward and statements that        *)
(* succeed; crashes may still happen anywhere.                             *)
(***************************************************************************)
EXTENDS VideoPipelineProofs, FiniteSetTheorems

\* What the theorems of this module suppose of the device.
Healthy == SteadyClock /\ ~Faults

\* Under a steady clock a segment's second is its own, so that row, file and
\* record in memory name the same segment.
Paths ==
    /\ \A i \in DOMAIN rows : rows[i].start = i
    /\ \A p \in DOMAIN files : files[p].by = p /\ p \in DOMAIN rows
    /\ Writing => curPath = cur
    /\ cpc \in {"unlink", "delete"} => victim.start = victim.id
    /\ mode = "rtmp" \/ cpc \in {"restore", "register"} => cur = 0
    /\ cpc \in {"restore", "register", "init", "undo"} => mode = "file"

\* A file exists neither before its output is opened nor after its unlink.
Absent ==
    /\ cpc \in {"init", "undo"} => cur \notin DOMAIN files
    /\ cpc = "delete" => victim.id \notin DOMAIN files

\* A finished row has the length of its file.
Sizes ==
    \A i \in DOMAIN rows :
        rows[i].state # "recording" /\ i \in DOMAIN files =>
            rows[i].size = files[i].size

Proof(i, size) == [id |-> i, by |-> i, size |-> size]

\* What the uploader has in its hands is the segment it claimed.
Hands ==
    /\ Holding => seg.start = seg.id
    /\ ~Holding => seg = NoSegment
    /\ upc = "sending" =>
          /\ body.by = seg.id
          /\ seg.id \in DOMAIN rows => rows[seg.id].size = body.size
    /\ upc # "sending" => body = NoBody
    /\ upc = "uploaded" =>
          (seg.id \in DOMAIN rows => Proof(seg.id, rows[seg.id].size) \in server)

FileInv == Paths /\ Absent /\ Sizes

HandInv == Hands /\ ServerHoldsSegment /\ UploadingIsCurrent

SafetyInv == OwnInv /\ FileInv /\ HandInv

-----------------------------------------------------------------------------
LEMMA HealthyOutcome == Healthy => Outcome = {TRUE} /\ StartTimes = {lastId + 1}
BY Zenon DEF Healthy, Outcome, StartTimes

\* What the child's actions come to when nothing fails.
LEMMA HealthyChild ==
    ASSUME Healthy
    PROVE  /\ OpenSegment =>
                \/ EndChild /\ UNCHANGED tableVars
                \/ /\ RegisterSegment(lastId + 1)
                   /\ curPath' = lastId + 1 /\ cur' = lastId + 1
                   /\ cpc' = "init"
                   /\ UNCHANGED <<files, mode, victim>>
           /\ InitOutputFails =>
                /\ cpc = "init" /\ cpc' = "undo"
                /\ UNCHANGED <<rows, lastId, files, mode, cur, curPath, victim>>
           /\ UndoSegment => DeleteSegment(cur)
           /\ FinishSegment => UpdateSegment(cur, FileSize(curPath), "pending")
           /\ PruneUnlink => UnlinkFile(victim.start) /\ cpc' = "delete"
                             /\ UNCHANGED <<mode, cur, curPath, victim>>
           /\ PruneDelete => DeleteSegment(victim.id)
<1>1. Outcome = {TRUE} /\ StartTimes = {lastId + 1}
  BY HealthyOutcome
<1>2. UndoSegment => DeleteSegment(cur)
  BY <1>1, Zenon DEF UndoSegment
<1>3. FinishSegment => UpdateSegment(cur, FileSize(curPath), "pending")
  BY <1>1, Zenon DEF FinishSegment
<1>4. InitOutputFails =>
        /\ cpc = "init" /\ cpc' = "undo"
        /\ UNCHANGED <<rows, lastId, files, mode, cur, curPath, victim>>
  BY DEF Healthy, InitOutputFails
<1>5. PruneUnlink => UnlinkFile(victim.start) /\ cpc' = "delete"
                     /\ UNCHANGED <<mode, cur, curPath, victim>>
  BY DEF Healthy, PruneUnlink
<1>6. PruneDelete => DeleteSegment(victim.id)
  BY DEF Healthy, PruneDelete
<1>7. OpenSegment =>
        \/ EndChild /\ UNCHANGED tableVars
        \/ /\ RegisterSegment(lastId + 1)
           /\ curPath' = lastId + 1 /\ cur' = lastId + 1
           /\ cpc' = "init"
           /\ UNCHANGED <<files, mode, victim>>
  BY <1>1 DEF OpenSegment
<1> QED
  BY <1>2, <1>3, <1>4, <1>5, <1>6, <1>7

LEMMA HealthyUploader ==
    ASSUME Healthy
    PROVE  /\ UploaderStart => upc' = "reset"
           /\ UploaderReset => ResetUploading
           /\ ClaimSegment => MarkUploading(seg.id) /\ upc' = "post"
           /\ FetchPending =>
                \/ \E i \in OldestPending :
                      seg' = [id |-> i, start |-> rows[i].start] /\ upc' = "mark"
                \/ upc' = "idle" /\ UNCHANGED seg
           /\ ConfirmUpload => MarkUploaded(seg.id) /\ upc' = "fetch"
           /\ ReleaseSegment => MarkRetry(seg.id) /\ upc' = "fetch"
<1>1. Outcome = {TRUE}
  BY HealthyOutcome
<1>0. UploaderStart => upc' = "reset"
  BY <1>1, Zenon DEF UploaderStart
<1>2. UploaderReset => ResetUploading
  BY <1>1, Zenon DEF UploaderReset
<1>3. ClaimSegment => MarkUploading(seg.id) /\ upc' = "post"
  BY <1>1, Zenon DEF ClaimSegment
<1>4. ConfirmUpload => MarkUploaded(seg.id) /\ upc' = "fetch"
  BY <1>1, Zenon DEF ConfirmUpload, AfterUpdate
<1>5. ReleaseSegment => MarkRetry(seg.id) /\ upc' = "fetch"
  BY <1>1, Zenon DEF ReleaseSegment, AfterUpdate
<1>6. FetchPending =>
        \/ \E i \in OldestPending :
              seg' = [id |-> i, start |-> rows[i].start] /\ upc' = "mark"
        \/ upc' = "idle" /\ UNCHANGED seg
  BY DEF Healthy, FetchPending
<1> QED
  BY <1>0, <1>2, <1>3, <1>4, <1>5, <1>6

LEMMA SafetyInit == Init => FileInv /\ HandInv
BY DEF Init, EmptyTable, ChildInit, UploaderInit, FileInv, HandInv, Paths,
       Absent, Sizes, Hands, ServerHoldsSegment, UploadingIsCurrent, RowsIn,
       Writing, Holding, NoSegment, NoBody

-----------------------------------------------------------------------------
(* The child keeps FileInv.                                                *)

\* What of FileInv is about the table and the directory alone.
TablePaths ==
    /\ \A i \in DOMAIN rows : rows[i].start = i
    /\ \A p \in DOMAIN files : files[p].by = p /\ p \in DOMAIN rows

LEMMA EndChildFiles ==
    ASSUME EndChild, TablePaths', Sizes'
    PROVE  FileInv'
BY DEF EndChild, FileInv, Paths, TablePaths, Absent, Writing

LEMMA PruneDoneFiles ==
    ASSUME PruneDone, TablePaths', Sizes', mode = "file"
    PROVE  FileInv'
<1>1. CASE frame
  BY <1>1 DEF PruneDone, FileInv, Paths, TablePaths, Absent, Writing
<1>2. CASE ~frame
  BY <1>2, EndChildFiles DEF PruneDone
<1> QED
  BY <1>1, <1>2

LEMMA SameFiles ==
    ASSUME FileInv, UNCHANGED tableVars
    PROVE  TablePaths' /\ Sizes'
BY DEF FileInv, Paths, TablePaths, Sizes, tableVars

LEMMA ChildFiles ==
    ASSUME Healthy, OwnInv, FileInv, ChildNext
    PROVE  FileInv'
<1> USE DEF OwnInv, TypeInv
<1>a. lastId \in Int /\ DOMAIN rows \subseteq 1..lastId
  BY ConstantTypes DEF TableTypeOK
<1>b. TablePaths
  BY DEF FileInv, Paths, TablePaths
<1>1. CASE ChildStart \/ BootRtmp \/ RecvFrame \/ PushRtmp \/ RestoreRtmp \/ RotateSegment
  <2>1. TablePaths' /\ Sizes'
    BY <1>1, SameFiles
    DEF ChildStart, BootRtmp, RecvFrame, PushRtmp, RestoreRtmp, RotateSegment
  <2> QED
    BY <1>1, <2>1
    DEF ChildStart, BootRtmp, RecvFrame, PushRtmp, RestoreRtmp, RotateSegment,
        FileInv, Paths, TablePaths, Absent, Writing, ChildData, ChildControl
<1>2. CASE BootFile \/ LeaveLoop \/ PushRtmpFails
  <2>1. TablePaths' /\ Sizes'
    BY <1>2, SameFiles DEF BootFile, LeaveLoop, PushRtmpFails
  <2> QED
    BY <1>2, <2>1, EndChildFiles
    DEF BootFile, LeaveLoop, PushRtmpFails, FileInv, Paths, TablePaths, Absent,
        Writing, ChildData, ChildControl
<1>3. CASE PushFile \/ PushFileFails
  <2>1. /\ Writing /\ UNCHANGED <<rows, mode, cur, curPath>>
        /\ AppendFile(curPath, cur) \/ SpoilFile(curPath, cur)
        /\ cpc' \in {"recv", "close"}
    BY <1>3 DEF PushFile, PushFileFails, Writing
  <2>2. curPath = cur /\ cur \in DOMAIN rows /\ rows[cur].state = "recording"
    BY <2>1 DEF FileInv, Paths, OwnChild
  <2>3. /\ DOMAIN files' = DOMAIN files
        /\ \A p \in DOMAIN files : files'[p].by = files[p].by
        /\ \A p \in DOMAIN files : p # cur => files'[p] = files[p]
    BY <2>1, <2>2 DEF AppendFile, SpoilFile, TableTypeOK, Content
  <2> QED
    BY <2>1, <2>2, <2>3 DEF FileInv, Paths, Absent, Sizes, Writing
<1>4. CASE OpenSegment
  <2>1. CASE EndChild /\ UNCHANGED tableVars
    BY <2>1, SameFiles, EndChildFiles
  <2>2. CASE /\ RegisterSegment(lastId + 1)
             /\ curPath' = lastId + 1 /\ cur' = lastId + 1
             /\ cpc' = "init"
             /\ UNCHANGED <<files, mode, victim>>
    <3>1. /\ DOMAIN rows' = DOMAIN rows \cup {lastId + 1}
          /\ \A i \in DOMAIN rows : rows'[i] = rows[i]
          /\ rows'[lastId + 1].start = lastId + 1
          /\ rows'[lastId + 1].state = "recording"
      BY <1>a, <2>2 DEF RegisterSegment
    <3>2. cpc = "register" /\ lastId + 1 \notin DOMAIN files
      BY <1>4, <1>a, <1>b DEF OpenSegment, TablePaths
    <3>3. TablePaths' /\ Sizes'
      BY <1>a, <1>b, <2>2, <3>1, <3>2 DEF TablePaths, FileInv, Sizes
    <3> QED
      BY <2>2, <3>2, <3>3 DEF FileInv, Paths, TablePaths, Absent, Writing
  <2> QED
    BY <1>4, <2>1, <2>2, HealthyChild
<1>5. CASE InitOutput
  <2>1. curPath = cur /\ cur \in DOMAIN rows /\ rows[cur].state = "recording"
    BY <1>5 DEF InitOutput, FileInv, Paths, OwnChild, Writing
  <2>2. /\ DOMAIN files' = DOMAIN files \cup {cur}
        /\ files'[cur].by = cur
        /\ \A p \in DOMAIN files : p # cur => files'[p] = files[p]
    BY <1>5, <2>1 DEF InitOutput, CreateFile
  <2>3. cpc' \in {"push", "recv"} /\ UNCHANGED <<rows, mode, cur, curPath>>
    BY <1>5 DEF InitOutput
  <2> QED
    BY <1>5, <2>1, <2>2, <2>3 DEF InitOutput, FileInv, Paths, Absent, Sizes, Writing
<1>6. CASE InitOutputFails
  BY <1>6, HealthyChild DEF FileInv, Paths, Absent, Sizes, Writing
<1>7. CASE UndoSegment
  <2>1. DeleteSegment(cur) /\ cpc = "undo" /\ EndChild /\ UNCHANGED files
    BY <1>7, HealthyChild DEF UndoSegment
  <2>2. cur \notin DOMAIN files
    BY <2>1 DEF FileInv, Absent
  <2>3. TablePaths' /\ Sizes'
    BY <1>b, <2>1, <2>2 DEF DeleteSegment, TablePaths, FileInv, Sizes
  <2> QED
    BY <2>1, <2>3, EndChildFiles
<1>8. CASE FinishSegment
  <2>1. /\ UpdateSegment(cur, FileSize(curPath), "pending")
        /\ cpc = "close" /\ cpc' = "sum" /\ UNCHANGED <<files, mode, cur, curPath>>
    BY <1>8, HealthyChild DEF FinishSegment
  <2>2. mode = "file" /\ curPath = cur
    BY <2>1 DEF ChildData, ChildControl, FileInv, Paths, Writing
  <2>3. /\ DOMAIN rows' = DOMAIN rows
        /\ \A i \in DOMAIN rows : i # cur => rows'[i] = rows[i]
        /\ cur \in DOMAIN rows => rows'[cur].start = rows[cur].start
        /\ cur \in DOMAIN rows => rows'[cur].size = FileSize(cur)
    BY <2>1, <2>2 DEF UpdateSegment, TableTypeOK, Row
  <2>4. TablePaths' /\ Sizes'
    BY <1>b, <2>1, <2>3 DEF TablePaths, FileInv, Sizes, FileSize
  <2> QED
    BY <2>1, <2>2, <2>4 DEF FileInv, Paths, TablePaths, Absent, Writing
<1>9. CASE PruneSum \/ PruneFetch
  <2>1. mode = "file" /\ UNCHANGED tableVars /\ cpc \in {"sum", "fetch"}
    BY <1>9 DEF PruneSum, PruneFetch, ChildData, ChildControl
  <2>2. TablePaths' /\ Sizes'
    BY <2>1, SameFiles
  <2>3. CASE PruneDone
    BY <2>1, <2>2, <2>3, PruneDoneFiles
  <2>4. CASE cpc' = "fetch" /\ UNCHANGED <<mode, cur, curPath>>
    BY <2>1, <2>2, <2>4 DEF FileInv, Paths, TablePaths, Absent, Writing
  <2>5. CASE /\ cpc' = "unlink" /\ UNCHANGED <<mode, cur, curPath>>
             /\ victim'.start = victim'.id
    BY <2>1, <2>2, <2>5 DEF FileInv, Paths, TablePaths, Absent, Writing
  <2>6. ASSUME PruneFetch, ~PruneDone PROVE victim'.start = victim'.id
    BY <1>b, <2>6 DEF PruneFetch, OldestPrunable, Oldest, RowsIn, TablePaths
  <2> QED
    BY <1>9, <2>3, <2>4, <2>5, <2>6 DEF PruneSum, PruneFetch
<1>10. CASE PruneUnlink
  <2>1. /\ UnlinkFile(victim.start) /\ cpc = "unlink" /\ cpc' = "delete"
        /\ UNCHANGED <<rows, mode, cur, curPath, victim>>
    BY <1>10, HealthyChild DEF PruneUnlink
  <2>2. victim.start = victim.id
    BY <2>1 DEF FileInv, Paths
  <2> QED
    BY <2>1, <2>2
    DEF UnlinkFile, FileInv, Paths, Absent, Sizes, Writing, ChildData,
        ChildControl
<1>11. CASE PruneDelete
  <2>1. /\ DeleteSegment(victim.id) /\ cpc = "delete" /\ UNCHANGED files
        /\ mode = "file"
    BY <1>11, HealthyChild DEF PruneDelete, ChildData, ChildControl
  <2>2. victim.id \notin DOMAIN files
    BY <2>1 DEF FileInv, Absent
  <2>3. TablePaths' /\ Sizes'
    BY <1>b, <2>1, <2>2 DEF DeleteSegment, TablePaths, FileInv, Sizes
  <2>4. CASE PruneDone
    BY <2>1, <2>3, <2>4, PruneDoneFiles
  <2>5. CASE cpc' = "fetch" /\ UNCHANGED <<mode, cur, curPath>>
    BY <2>1, <2>3, <2>5 DEF FileInv, Paths, TablePaths, Absent, Writing
  <2> QED
    BY <1>11, <2>4, <2>5 DEF PruneDelete
<1> QED
  BY <1>1, <1>2, <1>3, <1>4, <1>5, <1>6, <1>7, <1>8, <1>9, <1>10, <1>11
  DEF ChildNext, ChildWork

-----------------------------------------------------------------------------
(* The child keeps HandInv: it inserts recording rows, turns its own into  *)
(* pending ones, deletes, and changes nothing else.                        *)

ChildKeepsRows ==
    \A i \in DOMAIN rows' :
        \/ i \in DOMAIN rows /\ rows'[i] = rows[i]
        \/ i \notin 1..lastId /\ rows'[i].state = "recording"
        \/ /\ i \in DOMAIN rows /\ rows[i].state = "recording"
           /\ rows'[i].state = "pending"

LEMMA ChildKeeps ==
    ASSUME Healthy, OwnInv, ChildNext
    PROVE  ChildKeepsRows
<1> USE DEF OwnInv, TypeInv
<1>a. lastId \in Int /\ DOMAIN rows \subseteq 1..lastId
  BY ConstantTypes DEF TableTypeOK
<1>b. ASSUME UNCHANGED rows PROVE ChildKeepsRows
  BY <1>b DEF ChildKeepsRows
<1>1. CASE OpenSegment
  <2>1. CASE UNCHANGED tableVars
    BY <1>b, <2>1 DEF tableVars
  <2>2. CASE RegisterSegment(lastId + 1)
    BY <1>a, <2>2 DEF RegisterSegment, ChildKeepsRows
  <2> QED
    BY <1>1, <2>1, <2>2, HealthyChild
<1>2. CASE UndoSegment \/ PruneDelete
  BY <1>2, HealthyChild DEF DeleteSegment, ChildKeepsRows
<1>3. CASE FinishSegment
  <2>1. cur \in DOMAIN rows /\ rows[cur].state = "recording"
    BY <1>3 DEF FinishSegment, OwnChild, Writing, ChildData, ChildControl
  <2>2. UpdateSegment(cur, FileSize(curPath), "pending")
    BY <1>3, HealthyChild
  <2>3. rows[cur] \in Row
    BY <2>1 DEF TableTypeOK
  <2> QED
    BY <2>1, <2>2, <2>3 DEF UpdateSegment, ChildKeepsRows, Row
<1>4. CASE ChildStart \/ RecvFrame \/ LeaveLoop \/ BootRtmp \/ BootFile
           \/ PushRtmp \/ PushRtmpFails \/ PushFile \/ PushFileFails
           \/ InitOutput \/ InitOutputFails \/ PruneSum \/ PruneFetch
           \/ PruneUnlink \/ RestoreRtmp \/ RotateSegment
  <2>1. UNCHANGED rows
    BY <1>4
    DEF ChildStart, RecvFrame, LeaveLoop, BootRtmp, BootFile, PushRtmp,
        PushRtmpFails, PushFile, PushFileFails, InitOutput, InitOutputFails,
        PruneSum, PruneFetch, PruneUnlink, RestoreRtmp, RotateSegment,
        tableVars
  <2> QED
    BY <1>b, <2>1
<1> QED
  BY <1>1, <1>2, <1>3, <1>4 DEF ChildNext, ChildWork

LEMMA ChildHands ==
    ASSUME OwnInv, HandInv, ChildKeepsRows, UNCHANGED uploaderVars
    PROVE  HandInv'
<1> USE DEF OwnInv, TypeInv
<1>1. \A i \in DOMAIN rows' :
        i \in 1..lastId /\ (i \in DOMAIN rows => rows[i].state # "recording")
           => i \in DOMAIN rows /\ rows'[i] = rows[i]
  BY DEF ChildKeepsRows
<1>2. Holding => (seg.id \in DOMAIN rows' =>
                     seg.id \in DOMAIN rows /\ rows'[seg.id] = rows[seg.id])
  BY <1>1 DEF OwnUploader
<1>3. \A i \in DOMAIN rows' : rows'[i].state \in {"uploading", "uploaded"} =>
         i \in DOMAIN rows /\ rows'[i] = rows[i]
  BY DEF ChildKeepsRows
<1>4. Hands'
  BY <1>2 DEF HandInv, Hands, Holding, uploaderVars
<1>5. ServerHoldsSegment'
  BY <1>3 DEF HandInv, ServerHoldsSegment, RowsIn, uploaderVars
<1>6. UploadingIsCurrent'
  BY <1>3 DEF HandInv, UploadingIsCurrent, RowsIn, uploaderVars
<1> QED
  BY <1>4, <1>5, <1>6 DEF HandInv

-----------------------------------------------------------------------------
(* The uploader keeps FileInv: it only moves states between the finished   *)
(* ones.                                                                   *)

UploaderKeepsRows ==
    /\ DOMAIN rows' = DOMAIN rows
    /\ \A i \in DOMAIN rows :
          /\ rows'[i].start = rows[i].start
          /\ rows'[i].size = rows[i].size
          /\ rows'[i].state # "recording" => rows[i].state # "recording"

LEMMA SetStateKeeps ==
    ASSUME TableTypeOK, NEW S, NEW st, SetState(S, st),
           \A i \in S : i \in DOMAIN rows => rows[i].state # "recording"
    PROVE  /\ UploaderKeepsRows
           /\ \A i \in DOMAIN rows :
                 /\ i \in S => rows'[i].state = st
                 /\ i \notin S => rows'[i] = rows[i]
BY DEF TableTypeOK, SetState, UploaderKeepsRows, Row

LEMMA UploaderKeeps ==
    ASSUME OwnInv, UploaderNext
    PROVE  UploaderKeepsRows
<1> USE DEF OwnInv, TypeInv
<1>b. ASSUME UNCHANGED rows PROVE UploaderKeepsRows
  BY <1>b DEF UploaderKeepsRows
<1>1. CASE UploaderReset
  <2>1. \A i \in RowsIn({"uploading"}) : rows[i].state # "recording"
    BY DEF RowsIn
  <2> QED
    BY <1>1, <1>b, <2>1, SetStateKeeps DEF UploaderReset, ResetUploading
<1>2. CASE ClaimSegment \/ ConfirmUpload \/ ReleaseSegment
  <2>1. seg.id \in DOMAIN rows => rows[seg.id].state # "recording"
    BY <1>2 DEF ClaimSegment, ConfirmUpload, ReleaseSegment, OwnUploader, Holding
  <2>2. \/ UNCHANGED rows
        \/ \E st : SetState({seg.id}, st)
    BY <1>2
    DEF ClaimSegment, ConfirmUpload, ReleaseSegment, MarkUploading,
        MarkUploaded, MarkRetry
  <2> QED
    BY <1>b, <2>1, <2>2, SetStateKeeps
<1>3. CASE UploaderStart \/ FetchPending \/ PostFile \/ ServerAccepts
           \/ UploadFails \/ UploaderWait
  BY <1>3, <1>b
  DEF UploaderStart, FetchPending, PostFile, ServerAccepts, UploadFails,
      UploaderWait, tableVars
<1> QED
  BY <1>1, <1>2, <1>3 DEF UploaderNext, UploaderWork

LEMMA FilesStay ==
    ASSUME FileInv, UploaderKeepsRows, UNCHANGED <<childVars, files>>
    PROVE  FileInv'
BY DEF FileInv, Paths, Absent, Sizes, UploaderKeepsRows, childVars, Writing

-----------------------------------------------------------------------------
(* The uploader keeps HandInv.                                             *)

\* The record of an accepted request, as a set element to reason with.
LEMMA AcceptAdds ==
    ASSUME Accept
    PROVE  \A u : u \in server' <=>
              u \in server \/ u = [id |-> seg.id, by |-> body.by, size |-> body.size]
BY DEF Accept

\* A statement that takes no row to uploaded keeps the promise of those that
\* are, as long as the server forgets nothing.
LEMMA HeldStays ==
    ASSUME ServerHoldsSegment, UploaderKeepsRows, server \subseteq server',
           \A i \in DOMAIN rows' :
              rows'[i].state = "uploaded" => rows[i].state = "uploaded"
    PROVE  ServerHoldsSegment'
BY DEF ServerHoldsSegment, RowsIn, UploaderKeepsRows

LEMMA UploaderHands ==
    ASSUME Healthy, OwnInv, FileInv, HandInv, UploaderNext
    PROVE  HandInv'
<1> USE DEF OwnInv, TypeInv
<1>a. UploaderKeepsRows
  BY UploaderKeeps
<1>1. CASE UploaderStart \/ UploaderWait
  <2>1. UNCHANGED <<rows, server, body>>
    BY <1>1 DEF UploaderStart, UploaderWait, tableVars
  <2>2. ServerHoldsSegment'
    BY <1>a, <2>1, HeldStays DEF HandInv
  <2>3. Hands' /\ UploadingIsCurrent'
    BY <1>1, <2>1, HealthyUploader
    DEF UploaderStart, UploaderWait, HandInv, Hands, UploadingIsCurrent,
        RowsIn, Holding
  <2> QED
    BY <2>2, <2>3 DEF HandInv
<1>2. CASE UploaderReset
  <2>1. ResetUploading /\ upc = "reset" /\ upc' = "fetch"
        /\ UNCHANGED <<server, seg, body>>
    BY <1>2, HealthyUploader DEF UploaderReset
  <2>2. \A i \in DOMAIN rows :
           /\ rows[i].state = "uploading" => rows'[i].state = "pending"
           /\ rows[i].state # "uploading" => rows'[i] = rows[i]
    BY <2>1, SetStateKeeps DEF ResetUploading, RowsIn
  <2>3. ServerHoldsSegment'
    BY <1>a, <2>1, <2>2, HeldStays DEF HandInv, UploaderKeepsRows
  <2>4. RowsIn({"uploading"})' = {}
    BY <1>a, <2>2 DEF RowsIn, UploaderKeepsRows
  <2> QED
    BY <2>1, <2>3, <2>4 DEF HandInv, Hands, UploadingIsCurrent, Holding
<1>3. CASE FetchPending
  <2>1. upc = "fetch" /\ UNCHANGED <<rows, server, body>>
    BY <1>3 DEF FetchPending, tableVars
  <2>2. ServerHoldsSegment'
    BY <1>a, <2>1, HeldStays DEF HandInv
  <2>3. UploadingIsCurrent'
    BY <1>3, <2>1 DEF FetchPending, HandInv, UploadingIsCurrent, RowsIn
  <2>4. CASE \E i \in OldestPending :
                seg' = [id |-> i, start |-> rows[i].start] /\ upc' = "mark"
    BY <2>1, <2>2, <2>3, <2>4
    DEF HandInv, Hands, Holding, FileInv, Paths, OldestPending, Oldest, RowsIn
  <2>5. CASE upc' = "idle" /\ UNCHANGED seg
    BY <2>1, <2>2, <2>3, <2>5 DEF HandInv, Hands, Holding
  <2> QED
    BY <1>3, <2>4, <2>5, HealthyUploader
<1>4. CASE ClaimSegment
  <2>1. MarkUploading(seg.id) /\ upc = "mark" /\ upc' = "post"
        /\ UNCHANGED <<server, seg, body>>
    BY <1>4, HealthyUploader DEF ClaimSegment
  <2>2. \A i \in DOMAIN rows :
           /\ i = seg.id => rows'[i].state = "uploading"
           /\ i # seg.id => rows'[i] = rows[i]
    <3>1. seg.id \in DOMAIN rows => rows[seg.id].state # "recording"
      BY <2>1 DEF OwnUploader
    <3> QED
      BY <2>1, <3>1, SetStateKeeps DEF MarkUploading
  <2>3. ServerHoldsSegment'
    BY <1>a, <2>1, <2>2, HeldStays DEF HandInv, UploaderKeepsRows
  <2>4. RowsIn({"uploading"})' \subseteq {seg.id}
    BY <1>a, <2>1, <2>2
    DEF RowsIn, UploaderKeepsRows, HandInv, UploadingIsCurrent
  <2> QED
    BY <2>1, <2>3, <2>4 DEF HandInv, Hands, UploadingIsCurrent, Holding
<1>5. CASE PostFile
  <2>1. upc = "post" /\ upc' \in {"sending", "retry"}
        /\ UNCHANGED <<rows, files, server, seg>>
    BY <1>5 DEF PostFile, tableVars
  <2>2. ServerHoldsSegment' /\ UploadingIsCurrent'
    BY <1>a, <2>1, HeldStays DEF HandInv, UploadingIsCurrent, RowsIn
  <2>3. CASE upc' = "sending"
    <3>1. /\ seg.id \in DOMAIN files
          /\ body'.by = files[seg.id].by /\ body'.size = files[seg.id].size
      BY <1>5, <2>1, <2>3 DEF PostFile, HandInv, Hands, Holding
    <3>2. files[seg.id].by = seg.id
      BY <3>1 DEF FileInv, Paths
    <3>3. seg.id \in DOMAIN rows => rows[seg.id].size = files[seg.id].size
      BY <2>1, <3>1 DEF OwnUploader, Holding, FileInv, Sizes
    <3> QED
      BY <2>1, <2>2, <2>3, <3>1, <3>2, <3>3 DEF HandInv, Hands, Holding
  <2>4. CASE upc' = "retry" /\ UNCHANGED body
    BY <2>1, <2>2, <2>4 DEF HandInv, Hands, Holding
  <2> QED
    BY <1>5, <2>3, <2>4 DEF PostFile
<1>6. CASE ServerAccepts \/ UploadFails
  <2>1. /\ upc = "sending" /\ upc' \in {"uploaded", "retry"}
        /\ UNCHANGED <<rows, seg>> /\ body' = NoBody
    BY <1>6 DEF ServerAccepts, UploadFails, tableVars
  <2>2. server \subseteq server'
    BY <1>6, AcceptAdds DEF ServerAccepts, UploadFails
  <2>3. ServerHoldsSegment' /\ UploadingIsCurrent'
    BY <1>a, <2>1, <2>2, HeldStays DEF HandInv, UploadingIsCurrent, RowsIn
  <2>4. upc' = "uploaded" =>
          (seg.id \in DOMAIN rows => Proof(seg.id, rows[seg.id].size) \in server')
    <3>1. upc' = "uploaded" => Accept
      BY <1>6 DEF ServerAccepts, UploadFails
    <3>2. seg.id \in DOMAIN rows =>
            Proof(seg.id, rows[seg.id].size)
              = [id |-> seg.id, by |-> body.by, size |-> body.size]
      BY <2>1 DEF HandInv, Hands, Proof
    <3> QED
      BY <3>1, <3>2, AcceptAdds
  <2> QED
    BY <2>1, <2>3, <2>4 DEF HandInv, Hands, Holding, Proof
<1>7. CASE ConfirmUpload
  <2>1. MarkUploaded(seg.id) /\ upc = "uploaded" /\ upc' = "fetch"
        /\ seg' = NoSegment /\ UNCHANGED <<server, body>>
    BY <1>7, HealthyUploader DEF ConfirmUpload
  <2>2. \A i \in DOMAIN rows :
           /\ i = seg.id => rows'[i].state = "uploaded"
           /\ i # seg.id => rows'[i] = rows[i]
    <3>1. seg.id \in DOMAIN rows => rows[seg.id].state # "recording"
      BY <2>1 DEF OwnUploader, Holding
    <3> QED
      BY <2>1, <3>1, SetStateKeeps DEF MarkUploaded
  <2>3. RowsIn({"uploading"})' = {}
    BY <1>a, <2>1, <2>2
    DEF RowsIn, UploaderKeepsRows, HandInv, UploadingIsCurrent
  <2>4. \A i \in DOMAIN rows' : rows'[i].state = "uploaded" =>
           Proof(i, rows'[i].size) \in server
    BY <1>a, <2>1, <2>2
    DEF UploaderKeepsRows, HandInv, Hands, ServerHoldsSegment, RowsIn, Proof
  <2>5. ServerHoldsSegment'
    BY <2>1, <2>4 DEF ServerHoldsSegment, RowsIn, Proof
  <2> QED
    BY <2>1, <2>3, <2>5 DEF HandInv, Hands, UploadingIsCurrent, Holding
<1>8. CASE ReleaseSegment
  <2>1. MarkRetry(seg.id) /\ upc = "retry" /\ upc' = "fetch"
        /\ seg' = NoSegment /\ UNCHANGED <<server, body>>
    BY <1>8, HealthyUploader DEF ReleaseSegment
  <2>2. \A i \in DOMAIN rows :
           /\ i = seg.id => rows'[i].state = "pending"
           /\ i # seg.id => rows'[i] = rows[i]
    <3>1. seg.id \in DOMAIN rows => rows[seg.id].state # "recording"
      BY <2>1 DEF OwnUploader, Holding
    <3> QED
      BY <2>1, <3>1, SetStateKeeps DEF MarkRetry
  <2>3. RowsIn({"uploading"})' = {}
    BY <1>a, <2>1, <2>2
    DEF RowsIn, UploaderKeepsRows, HandInv, UploadingIsCurrent
  <2>4. ServerHoldsSegment'
    BY <1>a, <2>1, <2>2, HeldStays DEF HandInv, UploaderKeepsRows
  <2> QED
    BY <2>1, <2>3, <2>4 DEF HandInv, Hands, UploadingIsCurrent, Holding
<1> QED
  BY <1>1, <1>2, <1>3, <1>4, <1>5, <1>6, <1>7, <1>8
  DEF UploaderNext, UploaderWork

-----------------------------------------------------------------------------
LEMMA SafetyStep ==
    ASSUME Healthy, SafetyInv, [Next]_vars
    PROVE  SafetyInv'
<1> USE DEF SafetyInv
<1>0. OwnInv'
  BY OwnStep
<1>1. CASE UNCHANGED vars
  <2>1. FileInv'
    BY <1>1
    DEF vars, tableVars, childVars, FileInv, Paths, Absent, Sizes, Writing
  <2>2. HandInv'
    BY <1>1
    DEF vars, tableVars, uploaderVars, HandInv, Hands, ServerHoldsSegment,
        UploadingIsCurrent, RowsIn, Holding
  <2> QED
    BY <1>0, <2>1, <2>2
<1>2. CASE ChildSteps
  BY <1>0, <1>2, ChildFiles, ChildKeeps, ChildHands DEF ChildSteps
<1>3. CASE UploaderSteps
  <2>1. UploaderNext /\ UNCHANGED <<childVars, files>>
    BY <1>3, UploaderKeepsFiles DEF UploaderSteps
  <2> QED
    BY <1>0, <2>1, UploaderKeeps, FilesStay, UploaderHands
<1>4. CASE Shutdown
  <2>1. UNCHANGED <<rows, lastId, files, childVars, upc, seg, body, server>>
    BY <1>4 DEF Shutdown, StopRequest, tableVars
  <2>2. FileInv'
    BY <2>1 DEF childVars, FileInv, Paths, Absent, Sizes, Writing
  <2>3. HandInv'
    BY <2>1 DEF HandInv, Hands, ServerHoldsSegment, UploadingIsCurrent, RowsIn,
                Holding
  <2> QED
    BY <1>0, <2>2, <2>3
<1>5. CASE ChildCrash
  <2>1. EndChild /\ UNCHANGED <<tableVars, uploaderVars>>
    BY <1>5 DEF ChildCrash, ChildDies
  <2>2. FileInv'
    BY <2>1, SameFiles, EndChildFiles
  <2>3. HandInv'
    BY <2>1
    DEF tableVars, uploaderVars, HandInv, Hands, ServerHoldsSegment,
        UploadingIsCurrent, RowsIn, Holding
  <2> QED
    BY <1>0, <2>2, <2>3
<1>6. CASE DeviceCrash \/ Exit
  <2>1. UploaderDies /\ UNCHANGED tableVars /\ (EndChild \/ UNCHANGED childVars)
    BY <1>6 DEF DeviceCrash, Exit, UploaderDies
  <2>2. FileInv'
    <3>1. CASE EndChild
      BY <2>1, <3>1, SameFiles, EndChildFiles
    <3>2. CASE UNCHANGED childVars
      BY <2>1, <3>2
      DEF tableVars, childVars, FileInv, Paths, Absent, Sizes, Writing
    <3> QED
      BY <2>1, <3>1, <3>2
  <2>3. HandInv'
    BY <2>1
    DEF UploaderDies, tableVars, HandInv, Hands, ServerHoldsSegment,
        UploadingIsCurrent, RowsIn, Holding
  <2> QED
    BY <1>0, <2>2, <2>3
<1> QED
  BY <1>1, <1>2, <1>3, <1>4, <1>5, <1>6 DEF Next

\* The four properties are the parts of the invariant that a reader asks for.
LEMMA SafetyImplies ==
    ASSUME SafetyInv
    PROVE  /\ ServerHoldsSegment
           /\ UploadingIsCurrent
           /\ EveryFileTracked
           /\ NeverUploadOpenSegment
<1>1. ServerHoldsSegment /\ UploadingIsCurrent
  BY DEF SafetyInv, HandInv
<1>2. EveryFileTracked
  BY DEF SafetyInv, FileInv, Paths, EveryFileTracked
<1>3. NeverUploadOpenSegment
  <2> SUFFICES ASSUME cpc \in {"recv", "push", "init", "undo", "close"}, cur # 0
               PROVE  seg.id # cur /\ body.by # cur
    BY DEF NeverUploadOpenSegment
  <2>1. cur \in DOMAIN rows /\ rows[cur].state = "recording"
    BY DEF SafetyInv, OwnInv, OwnChild, FileInv, Paths, Writing, TypeInv,
           ChildData, ChildDataOK
  <2>2. seg.id # cur
    BY <2>1 DEF SafetyInv, OwnInv, OwnUploader, HandInv, Hands, Holding, NoSegment
  <2>3. body.by # cur
    BY <2>2 DEF SafetyInv, HandInv, Hands, NoBody
  <2> QED
    BY <2>2, <2>3
<1> QED
  BY <1>1, <1>2, <1>3

LEMMA SafetyInvariant ==
    ASSUME Healthy PROVE Spec => []SafetyInv
<1>1. Init => SafetyInv
  BY TypeInit, OwnInit, SafetyInit DEF SafetyInv, OwnInv
<1>2. SafetyInv /\ [Next]_vars => SafetyInv'
  BY SafetyStep
<1> QED
  BY <1>1, <1>2, PTL DEF Spec

\* Nothing is deleted as uploaded that the server does not have: a row marked
\* uploaded names a request that the server accepted, with the content that
\* was recorded under this id and the length it was closed with.
THEOREM UploadedIsHeld ==
    ASSUME Healthy PROVE Spec => []ServerHoldsSegment
<1>1. SafetyInv => ServerHoldsSegment
  BY SafetyImplies
<1> QED
  BY <1>1, SafetyInvariant, PTL

\* The uploader never takes or sends the segment that the child has open.
THEOREM OpenSegmentIsSafe ==
    ASSUME Healthy PROVE Spec => []NeverUploadOpenSegment
<1>1. SafetyInv => NeverUploadOpenSegment
  BY SafetyImplies
<1> QED
  BY <1>1, SafetyInvariant, PTL

\* No row but the one in the uploader's hands stays in the state uploading.
THEOREM NoneLeftUploading ==
    ASSUME Healthy PROVE Spec => []UploadingIsCurrent
<1>1. SafetyInv => UploadingIsCurrent
  BY SafetyImplies
<1> QED
  BY <1>1, SafetyInvariant, PTL

\* No crash leaves a file that the prune cannot find.
THEOREM FilesAreTracked ==
    ASSUME Healthy PROVE Spec => []EveryFileTracked
<1>1. SafetyInv => EveryFileTracked
  BY SafetyImplies
<1> QED
  BY <1>1, SafetyInvariant, PTL

-----------------------------------------------------------------------------
(* Sums over finite sets, in whichever order they are added up.            *)

\* A finite set of subsets has a smallest one: induction for the lemmas below.
LEMMA SmallestSubset ==
    ASSUME NEW S, IsFiniteSet(S), NEW B \in SUBSET SUBSET S, B # {}
    PROVE  \E T \in B : \A U \in B : U \subseteq T => U = T
<1>1. IsWellFoundedOn(StrictSubsetOrdering(S), FiniteSubsetsOf(S))
  BY FS_StrictSubsetOrderingWellFounded
<1>2. B \subseteq FiniteSubsetsOf(S)
  BY FS_Subset DEF FiniteSubsetsOf
<1>3. \E T \in B : \A U \in B : ~ (<<U, T>> \in StrictSubsetOrdering(S))
  BY <1>1, <1>2, WFMin
<1> QED
  BY <1>3 DEF StrictSubsetOrdering

\* g adds up f over each subset of S, in whichever order.
Adds(g, f, S) ==
    /\ g \in [SUBSET S -> Nat]
    /\ g[{}] = 0
    /\ \A T \in SUBSET S : \A x \in T : g[T] = f[x] + g[T \ {x}]

LEMMA AddsExists ==
    ASSUME NEW S, IsFiniteSet(S), NEW f \in [S -> Nat]
    PROVE  \E g : Adds(g, f, S)
<1> DEFINE B == {T \in SUBSET S : ~ \E g : Adds(g, f, T)}
<1> SUFFICES ASSUME B # {} PROVE FALSE
  OBVIOUS
<1>1. PICK T \in B : \A U \in B : U \subseteq T => U = T
  <2> HIDE DEF B
  <2>1. B \in SUBSET SUBSET S
    BY DEF B
  <2> QED
    BY <2>1, SmallestSubset
<1>2. CASE T = {}
  <2> DEFINE g == [U \in SUBSET T |-> 0]
  <2>1. Adds(g, f, T)
    BY <1>2 DEF Adds
  <2> QED
    BY <2>1, <1>1
<1>3. CASE T # {}
  <2>1. PICK a \in T : TRUE
    BY <1>3
  <2>2. PICK h : Adds(h, f, T \ {a})
    BY <1>1, <2>1
  <2> DEFINE g == [U \in SUBSET T |->
                     IF a \in U THEN f[a] + h[U \ {a}] ELSE h[U]]
  <2>3. /\ h \in [SUBSET (T \ {a}) -> Nat]
        /\ h[{}] = 0
        /\ \A U \in SUBSET (T \ {a}) : \A x \in U : h[U] = f[x] + h[U \ {x}]
    BY <2>2 DEF Adds
  <2>4. \A x \in T : f[x] \in Nat
    OBVIOUS
  <2>5. \A U \in SUBSET T : U \ {a} \in SUBSET (T \ {a}) /\ h[U \ {a}] \in Nat
    BY <2>3
  <2>6. \A U \in SUBSET T : a \notin U => U \in SUBSET (T \ {a}) /\ h[U] \in Nat
    BY <2>3
  <2>7. g \in [SUBSET T -> Nat] /\ g[{}] = 0
    BY <2>1, <2>3, <2>4, <2>5, <2>6
  <2>8. ASSUME NEW U \in SUBSET T, NEW x \in U
        PROVE  g[U] = f[x] + g[U \ {x}]
    <3>1. CASE x = a
      <4>1. g[U] = f[a] + h[U \ {a}] /\ g[U \ {x}] = h[U \ {a}]
        BY <3>1, <2>8
      <4> QED
        BY <3>1, <4>1
    <3>2. CASE x # a /\ a \in U
      <4>1. g[U] = f[a] + h[U \ {a}]
        BY <3>2
      <4>2. h[U \ {a}] = f[x] + h[(U \ {a}) \ {x}]
        BY <3>2, <2>3, <2>5
      <4> DEFINE W == (U \ {a}) \ {x}
      <4>3. (U \ {x}) \ {a} = W /\ W \in SUBSET (T \ {a})
        OBVIOUS
      <4>4. g[U \ {x}] = f[a] + h[W]
        BY <3>2, <4>3
      <4>5. h[W] \in Nat /\ f[a] \in Nat /\ f[x] \in Nat
        BY <2>1, <2>3, <2>4, <4>3
      <4> HIDE DEF g, W
      <4> QED
        BY <4>1, <4>2, <4>4, <4>5 DEF W
    <3>3. CASE a \notin U
      <4>1. g[U] = h[U] /\ g[U \ {x}] = h[U \ {x}]
        BY <3>3
      <4>2. U \in SUBSET (T \ {a})
        BY <3>3
      <4>3. h[U] = f[x] + h[U \ {x}]
        BY <2>3, <4>2, <2>8
      <4> HIDE DEF g
      <4> QED
        BY <4>1, <4>3
    <3> QED
      BY <3>1, <3>2, <3>3
  <2>9. Adds(g, f, T)
    <3> HIDE DEF g
    <3> QED
      BY <2>7, <2>8 DEF Adds
  <2> QED
    BY <2>9, <1>1
<1> QED
  BY <1>2, <1>3

\* The sum of a function over its finite domain.
Total(f, S) == (CHOOSE g : Adds(g, f, S))[S]

LEMMA TotalNat ==
    ASSUME NEW S, IsFiniteSet(S), NEW f \in [S -> Nat]
    PROVE  Total(f, S) \in Nat
<1> DEFINE F == CHOOSE g : Adds(g, f, S)
<1>1. Adds(F, f, S)
  BY AddsExists
<1> HIDE DEF F
<1>2. F[S] \in Nat
  BY <1>1 DEF Adds
<1> QED
  BY <1>2 DEF Total, F

LEMMA ZeroSum ==
    ASSUME NEW S, IsFiniteSet(S)
    PROVE  Total([x \in S |-> 0], S) = 0
<1> DEFINE f == [x \in S |-> 0]
           F == CHOOSE g : Adds(g, f, S)
           B == {T \in SUBSET S : F[T] # 0}
<1>1. Adds(F, f, S)
  <2>1. f \in [S -> Nat]
    OBVIOUS
  <2> HIDE DEF f
  <2> QED
    BY <2>1, AddsExists
<1>2. \A x \in S : f[x] = 0
  OBVIOUS
<1> HIDE DEF F, f
<1>3. ASSUME B # {} PROVE FALSE
  <2>1. PICK U \in B : \A V \in B : V \subseteq U => V = U
    <3> HIDE DEF B
    <3>1. B \in SUBSET SUBSET S
      BY DEF B
    <3> QED
      BY <1>3, <3>1, SmallestSubset
  <2>2. PICK y \in U : TRUE
    BY <1>1, <2>1 DEF Adds
  <2>3. F[U \ {y}] = 0
    BY <2>1, <2>2
  <2>4. F[U] = f[y] + F[U \ {y}]
    BY <1>1, <2>1, <2>2 DEF Adds
  <2> QED
    BY <1>2, <2>1, <2>2, <2>3, <2>4
<1>4. F[S] = 0
  BY <1>3
<1> QED
  BY <1>4 DEF Total, F, f

\* Where f exceeds h by at most c, and only on A, so does its sum for each
\* element of A.
LEMMA SumExceeds ==
    ASSUME NEW S, IsFiniteSet(S), NEW f \in [S -> Nat], NEW h \in [S -> Nat],
           NEW A \in SUBSET S, NEW c \in Nat,
           \A x \in S : f[x] <= h[x] + (IF x \in A THEN c ELSE 0)
    PROVE  /\ Total(f, S) \in Nat /\ Total(h, S) \in Nat
           /\ Total(f, S) <= Total(h, S) + c * Cardinality(A)
<1> DEFINE F == CHOOSE g : Adds(g, f, S)
           H == CHOOSE g : Adds(g, h, S)
<1>1. Adds(F, f, S) /\ Adds(H, h, S)
  BY AddsExists
<1>2. Total(f, S) = F[S] /\ Total(h, S) = H[S]
  BY DEF Total
<1> HIDE DEF F, H
<1> DEFINE B == {T \in SUBSET S : ~ F[T] <= H[T] + c * Cardinality(A \cap T)}
<1>3. ASSUME NEW T \in SUBSET S, B # {} PROVE FALSE
  <2>1. PICK U \in B : \A V \in B : V \subseteq U => V = U
    <3> HIDE DEF B
    <3>1. B \in SUBSET SUBSET S
      BY DEF B
    <3> QED
      BY <1>3, <3>1, SmallestSubset
  <2>2. CASE U = {}
    <3>1. F[U] = 0 /\ H[U] = 0 /\ A \cap U = {}
      BY <1>1, <2>2 DEF Adds
    <3>2. Cardinality(A \cap U) = 0
      BY <3>1, FS_EmptySet, Zenon
    <3>3. c * Cardinality(A \cap U) = 0
      BY <3>2
    <3> QED
      BY <2>1, <3>1, <3>3
  <2>3. CASE U # {}
    <3>1. PICK x \in U : TRUE
      BY <2>3
    <3> DEFINE V == U \ {x}
    <3>2. V \in SUBSET S /\ V \notin B
      BY <2>1, <3>1
    <3>3. F[V] <= H[V] + c * Cardinality(A \cap V)
      BY <3>2
    <3>4. /\ F[U] = f[x] + F[V] /\ H[U] = h[x] + H[V]
          /\ F[V] \in Nat /\ H[V] \in Nat /\ f[x] \in Nat /\ h[x] \in Nat
      BY <1>1, <3>1, <3>2 DEF Adds
    <3>5. IsFiniteSet(A \cap U) /\ Cardinality(A \cap V) \in Nat
      BY FS_Subset, FS_CardinalityType
    <3>6. A \cap V = (A \cap U) \ {x}
      OBVIOUS
    <3>7. Cardinality(A \cap U) =
            Cardinality(A \cap V) + (IF x \in A THEN 1 ELSE 0)
      <4>1. Cardinality(A \cap V) =
              IF x \in A \cap U THEN Cardinality(A \cap U) - 1
              ELSE Cardinality(A \cap U)
        BY <3>5, <3>6, FS_RemoveElement
      <4>2. Cardinality(A \cap U) \in Nat
        BY <3>5, FS_CardinalityType
      <4>3. x \in A \cap U <=> x \in A
        BY <3>1
      <4> HIDE DEF V
      <4> QED
        BY <4>1, <4>2, <4>3
    <3>8. F[U] <= H[U] + c * Cardinality(A \cap U)
      <4> HIDE DEF V
      <4>1. f[x] <= h[x] + (IF x \in A THEN c ELSE 0)
        BY <3>1, <2>1
      <4>2. c * Cardinality(A \cap U) =
              c * Cardinality(A \cap V) + (IF x \in A THEN c ELSE 0)
        BY <3>5, <3>7
      <4>3. c * Cardinality(A \cap V) \in Nat
        BY <3>5
      <4> QED
        BY <3>3, <3>4, <4>1, <4>2, <4>3
    <3> HIDE DEF V
    <3> QED
      BY <2>1, <3>8
  <2> QED
    BY <2>2, <2>3
<1>4. F[S] <= H[S] + c * Cardinality(A \cap S)
  BY <1>3
<1>5. A \cap S = A
  OBVIOUS
<1>6. F[S] \in Nat /\ H[S] \in Nat
  BY <1>1 DEF Adds
<1> HIDE DEF B
<1> QED
  BY <1>2, <1>4, <1>5, <1>6

\* Functions that differ at one place have sums that differ by as much.
LEMMA SumChanges ==
    ASSUME NEW S, IsFiniteSet(S), NEW f \in [S -> Nat], NEW h \in [S -> Nat],
           NEW x \in S, \A y \in S : y # x => h[y] = f[y]
    PROVE  Total(f, S) + h[x] = Total(h, S) + f[x]
<1> DEFINE F == CHOOSE g : Adds(g, f, S)
           H == CHOOSE g : Adds(g, h, S)
<1>1. Adds(F, f, S) /\ Adds(H, h, S)
  BY AddsExists
<1>2. Total(f, S) = F[S] /\ Total(h, S) = H[S]
  BY DEF Total
<1> HIDE DEF F, H
<1> DEFINE B == {T \in SUBSET (S \ {x}) : F[T] # H[T]}
<1>3. ASSUME B # {} PROVE FALSE
  <2>1. PICK U \in B : \A V \in B : V \subseteq U => V = U
    <3> HIDE DEF B
    <3>1. B \in SUBSET SUBSET S
      BY DEF B
    <3> QED
      BY <1>3, <3>1, SmallestSubset
  <2>2. U # {}
    BY <1>1, <2>1 DEF Adds
  <2>3. PICK y \in U : TRUE
    BY <2>2
  <2>4. F[U \ {y}] = H[U \ {y}] /\ f[y] = h[y]
    BY <2>1, <2>3
  <2> QED
    BY <1>1, <2>1, <2>3, <2>4 DEF Adds
<1>4. F[S \ {x}] = H[S \ {x}]
  BY <1>3
<1>5. /\ F[S] = f[x] + F[S \ {x}] /\ H[S] = h[x] + H[S \ {x}]
      /\ F[S \ {x}] \in Nat
  BY <1>1 DEF Adds
<1> QED
  BY <1>2, <1>4, <1>5

\* g adds up f over each subset of T in the order in which MapThenSumSet does.
First(s) == CHOOSE x \in s : TRUE

Folds(g, f, T) ==
    g = [s \in SUBSET T |->
           IF s = {} THEN 0 ELSE f[First(s)] + g[s \ {First(s)}]]

LEMMA FirstIn == \A s : s # {} => First(s) \in s
BY DEF First

LEMMA FoldExists ==
    ASSUME NEW S, IsFiniteSet(S), NEW f \in [S -> Nat], NEW T \in SUBSET S
    PROVE  \E g : Folds(g, f, T)
<1>1. PICK F : Adds(F, f, S)
  BY AddsExists
<1> DEFINE G == [s \in SUBSET T |-> F[s]]
<1>2. \A s \in SUBSET T : G[s] = F[s]
  OBVIOUS
<1>3. ASSUME NEW s \in SUBSET T
      PROVE  F[s] = IF s = {} THEN 0 ELSE f[First(s)] + G[s \ {First(s)}]
  <2>1. CASE s = {}
    BY <1>1, <2>1 DEF Adds
  <2>2. CASE s # {}
    <3>1. First(s) \in s /\ s \in SUBSET S /\ s \ {First(s)} \in SUBSET T
      BY <2>2, FirstIn
    <3>2. F[s] = f[First(s)] + F[s \ {First(s)}]
      BY <1>1, <3>1 DEF Adds
    <3> QED
      BY <1>2, <2>2, <3>1, <3>2
  <2> QED
    BY <2>1, <2>2
<1>4. Folds(G, f, T)
  BY <1>3 DEF Folds
<1> QED
  BY <1>4

LEMMA FoldIsTotal ==
    ASSUME NEW S, IsFiniteSet(S), NEW f \in [S -> Nat], NEW T \in SUBSET S,
           \A x \in S \ T : f[x] = 0, NEW g, Folds(g, f, T)
    PROVE  g[T] = Total(f, S)
<1> DEFINE F == CHOOSE h : Adds(h, f, S)
<1>1. Adds(F, f, S) /\ Total(f, S) = F[S]
  BY AddsExists DEF Total
<1> HIDE DEF F
<1> DEFINE B == {s \in SUBSET T : g[s] # F[s]}
           C == {U \in SUBSET (S \ T) : F[T \cup U] # F[T]}
<1>2. ASSUME B # {} PROVE FALSE
  <2>1. PICK U \in B : \A V \in B : V \subseteq U => V = U
    <3> HIDE DEF B
    <3>1. B \in SUBSET SUBSET S
      BY DEF B
    <3> QED
      BY <1>2, <3>1, SmallestSubset
  <2>2. g[U] = IF U = {} THEN 0 ELSE f[First(U)] + g[U \ {First(U)}]
    BY <2>1 DEF Folds
  <2>3. CASE U # {}
    <3>1. First(U) \in U
      BY <2>3, FirstIn
    <3>2. g[U \ {First(U)}] = F[U \ {First(U)}]
      BY <2>1, <3>1
    <3>3. F[U] = f[First(U)] + F[U \ {First(U)}]
      BY <1>1, <2>1, <3>1 DEF Adds
    <3> QED
      BY <2>1, <2>2, <2>3, <3>2, <3>3
  <2>4. CASE U = {}
    BY <1>1, <2>1, <2>2, <2>4 DEF Adds
  <2> QED
    BY <2>3, <2>4
<1>3. ASSUME C # {} PROVE FALSE
  <2>1. PICK U \in C : \A V \in C : V \subseteq U => V = U
    <3> HIDE DEF C
    <3>1. C \in SUBSET SUBSET S
      BY DEF C
    <3> QED
      BY <1>3, <3>1, SmallestSubset
  <2>2. PICK y \in U : TRUE
    BY <2>1
  <2>3. F[T \cup (U \ {y})] = F[T]
    <3>1. U \ {y} \in SUBSET (S \ T) /\ U \ {y} # U /\ U \ {y} \subseteq U
      BY <2>2
    <3>2. U \ {y} \notin C
      BY <2>1, <3>1
    <3> QED
      BY <3>1, <3>2
  <2>4. f[y] = 0 /\ (T \cup U) \ {y} = T \cup (U \ {y})
    BY <2>2
  <2>5. F[T \cup U] = f[y] + F[(T \cup U) \ {y}] /\ F[T] \in Nat
    BY <1>1, <2>1, <2>2 DEF Adds
  <2>6. F[T \cup U] = F[T]
    <3> HIDE DEF C
    <3> QED
      BY <2>3, <2>4, <2>5
  <2> QED
    BY <2>1, <2>6
<1>4. g[T] = F[T]
  BY <1>2
<1>5. F[S] = F[T]
  <2>1. S \ T \in SUBSET (S \ T) /\ T \cup (S \ T) = S
    OBVIOUS
  <2>2. F[T \cup (S \ T)] = F[T]
    BY <1>3, <2>1
  <2> QED
    BY <2>1, <2>2
<1> QED
  BY <1>1, <1>4, <1>5

\* The sums of the model, over a finite set that has all of their elements.
LEMMA RowsAddUp ==
    ASSUME NEW S, IsFiniteSet(S), NEW f \in [S -> Nat], NEW T \in SUBSET S,
           \A i \in S : f[i] = IF i \in T THEN rows[i].size ELSE 0
    PROVE  MapThenSumSet(RowSize, T) = Total(f, S)
<1> DEFINE Same(g) == g = [s \in SUBSET T |->
                             IF s = {} THEN 0
                             ELSE RowSize(First(s)) + g[s \ {First(s)}]]
           fold == CHOOSE g : Same(g)
<1>1. MapThenSumSet(RowSize, T) = fold[T]
  BY DEF MapThenSumSet, MapThenFoldSet, First
<1>2. ASSUME NEW g PROVE Same(g) <=> Folds(g, f, T)
  <2>1. \A s \in SUBSET T : s # {} => RowSize(First(s)) = f[First(s)]
    BY FirstIn DEF RowSize
  <2> QED
    BY <2>1 DEF Folds
<1> HIDE DEF Same
<1>3. Folds(fold, f, T)
  BY <1>2, FoldExists
<1> HIDE DEF fold
<1> QED
  BY <1>1, <1>3, FoldIsTotal

LEMMA FilesAddUp ==
    ASSUME NEW S, IsFiniteSet(S), NEW f \in [S -> Nat], NEW T \in SUBSET S,
           \A p \in S : f[p] = IF p \in T THEN files[p].size ELSE 0
    PROVE  MapThenSumSet(ContentSize, T) = Total(f, S)
<1> DEFINE Same(g) == g = [s \in SUBSET T |->
                             IF s = {} THEN 0
                             ELSE ContentSize(First(s)) + g[s \ {First(s)}]]
           fold == CHOOSE g : Same(g)
<1>1. MapThenSumSet(ContentSize, T) = fold[T]
  BY DEF MapThenSumSet, MapThenFoldSet, First
<1>2. ASSUME NEW g PROVE Same(g) <=> Folds(g, f, T)
  <2>1. \A s \in SUBSET T : s # {} => ContentSize(First(s)) = f[First(s)]
    BY FirstIn DEF ContentSize
  <2> QED
    BY <2>1 DEF Folds
<1> HIDE DEF Same
<1>3. Folds(fold, f, T)
  BY <1>2, FoldExists
<1> HIDE DEF fold
<1> QED
  BY <1>1, <1>3, FoldIsTotal

-----------------------------------------------------------------------------
(* How far the directory may exceed the high water.                        *)

RowBytes == MapThenSumSet(RowSize, DOMAIN rows)

Pruning == cpc \in {"sum", "fetch", "unlink", "delete"}

\* The rows that a crash has left recording.
Lost == RowsIn({"recording"}) \ (IF Writing THEN {cur} ELSE {})

\* The rows that a crash has left without their file.
Ghosts ==
    {i \in DOMAIN rows : rows[i].state # "recording" /\ i \notin DOMAIN files}
        \ (IF cpc = "delete" THEN {victim.id} ELSE {})

\* The segment being written has its file, the victim its row; what is being
\* recorded counts as nothing, and the total leaves out one segment at most.
RecordInv ==
    /\ Writing /\ cpc \notin {"init", "undo"} => cur \in DOMAIN files
    /\ cpc \in {"unlink", "delete"} =>
          victim.id \in DOMAIN rows /\ victim.size = rows[victim.id].size
    /\ \A i \in DOMAIN rows : rows[i].state = "recording" => rows[i].size = 0
    /\ \A i, j \in RowsIn({"uploading"}) : i = j

CrashInv == Cardinality(Lost) <= crashes /\ Cardinality(Ghosts) <= crashes

\* The total of a running prune is above the high water, and it is as much as
\* the rows have, but for the segment that was being uploaded when it was read.
TotalInv ==
    cpc \in {"fetch", "unlink", "delete"} =>
        /\ total \in Nat /\ total > HighWater
        /\ total <= RowBytes /\ RowBytes <= total + SegBytes

\* Behind a prune the rows exceed the high water by the segment that is being
\* uploaded; the next one to be finished is allowed for until the prune behind
\* it ends, and one for each crash, that of the file which no row counts included.
BoundInv ==
    RowBytes + SegBytes * Cardinality(Lost)
        <= HighWater + SegBytes * (1 + crashes)
              + (IF Pruning THEN SegBytes ELSE 0)

BytesInv == RecordInv /\ CrashInv /\ TotalInv /\ BoundInv

\* What the rows and the files count, as functions over all ids.
RowWeight == [i \in Id |-> IF i \in DOMAIN rows THEN rows[i].size ELSE 0]
FileWeight == [i \in Id |-> IF i \in DOMAIN files THEN files[i].size ELSE 0]

WeightFacts ==
    /\ RowWeight \in [Id -> Nat] /\ RowBytes = Total(RowWeight, Id)
    /\ FileWeight \in [Id -> Nat] /\ DiskBytes = Total(FileWeight, Id)
    /\ RowBytes \in Nat /\ DiskBytes \in Nat
    /\ DOMAIN rows \subseteq Id /\ DOMAIN files \subseteq Id
    /\ \A i \in DOMAIN rows : rows[i].size \in 0..SegBytes
    /\ \A i \in DOMAIN files : files[i].size \in 0..SegBytes

LEMMA IdFinite == IsFiniteSet(Id) /\ \A S \in SUBSET Id : IsFiniteSet(S)
<1>1. IsFiniteSet(Id)
  BY ConstantTypes, FS_Interval DEF Id
<1> QED
  BY <1>1, FS_Subset

LEMMA Weights == TableTypeOK => WeightFacts
<1> SUFFICES ASSUME TableTypeOK PROVE WeightFacts
  OBVIOUS
<1>1. DOMAIN rows \subseteq Id /\ DOMAIN files \subseteq Id
  BY ConstantTypes DEF TableTypeOK, Id, Second
<1>2. /\ \A i \in DOMAIN rows : rows[i].size \in 0..SegBytes
      /\ \A i \in DOMAIN files : files[i].size \in 0..SegBytes
  BY DEF TableTypeOK, Row, Content
<1>3. RowWeight \in [Id -> Nat] /\ FileWeight \in [Id -> Nat]
  BY <1>1, <1>2, ConstantTypes DEF RowWeight, FileWeight
<1>4. RowBytes = Total(RowWeight, Id)
  <2>1. \A i \in Id : RowWeight[i] = IF i \in DOMAIN rows THEN rows[i].size ELSE 0
    BY DEF RowWeight
  <2> QED
    BY <1>1, <1>3, <2>1, IdFinite, RowsAddUp DEF RowBytes
<1>5. DiskBytes = Total(FileWeight, Id)
  <2>1. \A i \in Id : FileWeight[i] = IF i \in DOMAIN files THEN files[i].size ELSE 0
    BY DEF FileWeight
  <2> QED
    BY <1>1, <1>3, <2>1, IdFinite, FilesAddUp DEF DiskBytes
<1>6. Total(RowWeight, Id) \in Nat /\ Total(FileWeight, Id) \in Nat
  BY <1>3, IdFinite, TotalNat
<1> QED
  BY <1>1, <1>2, <1>3, <1>4, <1>5, <1>6 DEF WeightFacts

LEMMA WeightsNext == TableTypeOK' => WeightFacts'
<1>1. (TableTypeOK => WeightFacts)'
  BY Weights, PTL
<1> QED
  BY <1>1

\* The rows count the same when none changes its size, and change by what one
\* of them does.
LEMMA SameBytes ==
    ASSUME DOMAIN rows' = DOMAIN rows,
           \A i \in DOMAIN rows : rows'[i].size = rows[i].size,
           TableTypeOK, TableTypeOK'
    PROVE  RowBytes' = RowBytes
<1>1. RowWeight' = RowWeight
  BY DEF RowWeight
<1> QED
  BY <1>1, Weights, WeightsNext DEF WeightFacts

LEMMA BytesChange ==
    ASSUME TableTypeOK, TableTypeOK', NEW x \in Id,
           \A i \in Id \ {x} :
               /\ i \in DOMAIN rows' <=> i \in DOMAIN rows
               /\ i \in DOMAIN rows => rows'[i].size = rows[i].size
    PROVE  RowBytes + RowWeight'[x] = RowBytes' + RowWeight[x]
<1>1. \A i \in Id : i # x => RowWeight'[i] = RowWeight[i]
  BY DEF RowWeight
<1>2. /\ RowWeight \in [Id -> Nat] /\ RowBytes = Total(RowWeight, Id)
      /\ RowWeight' \in [Id -> Nat] /\ RowBytes' = Total(RowWeight', Id)
  BY Weights, WeightsNext DEF WeightFacts
<1> HIDE DEF RowWeight
<1> QED
  BY <1>1, <1>2, IdFinite, SumChanges

\* A row of no size adds nothing and takes nothing away.
LEMMA NoBytes ==
    ASSUME TableTypeOK, TableTypeOK', NEW x \in Id,
           \A i \in Id \ {x} :
               /\ i \in DOMAIN rows' <=> i \in DOMAIN rows
               /\ i \in DOMAIN rows => rows'[i].size = rows[i].size,
           x \in DOMAIN rows => rows[x].size = 0,
           x \in DOMAIN rows' => rows'[x].size = 0
    PROVE  RowBytes' = RowBytes
<1>1. RowWeight'[x] = 0 /\ RowWeight[x] = 0
  BY DEF RowWeight
<1>2. RowBytes + RowWeight'[x] = RowBytes' + RowWeight[x]
  BY BytesChange
<1>3. RowBytes \in Nat /\ RowBytes' \in Nat
  BY Weights, WeightsNext DEF WeightFacts
<1>4. ASSUME NEW m \in Nat, NEW n \in Nat, m + 0 = n + 0 PROVE n = m
  BY <1>4
<1>5. RowBytes + 0 = RowBytes' + 0
  BY <1>1, <1>2, Zenon
<1> QED
  BY <1>3, <1>4, <1>5, Zenon

\* The statement that reads the total leaves out the one segment that is being
\* uploaded.
LEMMA TotalRead ==
    ASSUME TableTypeOK, RecordInv
    PROVE  /\ VideoTotalSize \in Nat
           /\ VideoTotalSize <= RowBytes
           /\ RowBytes <= VideoTotalSize + SegBytes
<1> DEFINE T == RowsIn({"recording", "pending", "uploaded", "broken"})
           U == RowsIn({"uploading"})
           f == [i \in Id |-> IF i \in T THEN rows[i].size ELSE 0]
<1>1. T \subseteq Id /\ U \subseteq Id /\ DOMAIN rows = T \cup U
  <2>1. \A i \in DOMAIN rows : rows[i].state \in SegmentState
    BY DEF TableTypeOK, Row
  <2> QED
    BY <2>1, Weights DEF WeightFacts, RowsIn, SegmentState
<1>2. f \in [Id -> Nat]
  BY <1>1, Weights DEF WeightFacts
<1>3. VideoTotalSize = Total(f, Id)
  <2>1. \A i \in Id : f[i] = IF i \in T THEN rows[i].size ELSE 0
    OBVIOUS
  <2> HIDE DEF f, T
  <2>2. MapThenSumSet(RowSize, T) = Total(f, Id)
    BY <1>1, <1>2, <2>1, IdFinite, RowsAddUp
  <2> QED
    BY <2>2 DEF VideoTotalSize, T
<1>4. \A i \in Id : f[i] <= RowWeight[i] + (IF i \in {} THEN 0 ELSE 0)
  BY <1>1, Weights DEF WeightFacts, RowWeight
<1>5. \A i \in Id : RowWeight[i] <= f[i] + (IF i \in U THEN SegBytes ELSE 0)
  BY <1>1, Weights, ConstantTypes DEF WeightFacts, RowWeight
<1>6. Cardinality(U) \in Nat /\ Cardinality(U) <= 1
  <2>1. \A i, j \in U : i = j
    BY DEF RecordInv
  <2> HIDE DEF U
  <2>2. CASE U = {}
    BY <2>2, FS_EmptySet
  <2>3. ASSUME NEW i \in U PROVE U = {i}
    BY <2>1
  <2> QED
    BY <2>2, <2>3, FS_Singleton
<1> HIDE DEF f, U, T
<1>7. Total(f, Id) \in Nat /\ Total(f, Id) <= RowBytes + 0 * Cardinality({})
  BY <1>2, <1>4, Weights, IdFinite, SumExceeds DEF WeightFacts
<1>8. RowBytes <= Total(f, Id) + SegBytes * Cardinality(U)
  BY <1>1, <1>2, <1>5, Weights, IdFinite, SumExceeds, ConstantTypes
  DEF WeightFacts
<1>9. Cardinality({}) = 0
  BY FS_EmptySet
<1>10. SegBytes * Cardinality(U) <= SegBytes
  <2>1. Cardinality(U) = 0 \/ Cardinality(U) = 1
    BY <1>6
  <2> QED
    BY <2>1, ConstantTypes
<1>11. SegBytes * Cardinality(U) \in Nat /\ RowBytes \in Nat
  BY <1>6, ConstantTypes, Weights DEF WeightFacts
<1> QED
  BY <1>3, <1>7, <1>8, <1>9, <1>10, <1>11, ConstantTypes

\* There is an oldest one among rows.
LEMMA OldestExists ==
    ASSUME TableTypeOK, NEW S, S \subseteq DOMAIN rows, S # {}
    PROVE  Oldest(S) # {}
<1> DEFINE B == {1..rows[i].start : i \in S}
<1>1. \A i \in S : rows[i].start \in Nat /\ rows[i].start >= 1
                   /\ 1..rows[i].start \subseteq Id
  BY ConstantTypes DEF TableTypeOK, Row, Second, Id
<1>2. B \in SUBSET SUBSET Id /\ B # {}
  BY <1>1
<1>3. PICK T \in B : \A U \in B : U \subseteq T => U = T
  <2> HIDE DEF B
  <2> QED
    BY <1>2, IdFinite, SmallestSubset
<1>4. PICK i \in S : T = 1..rows[i].start
  OBVIOUS
<1>5. ASSUME NEW j \in S PROVE rows[i].start <= rows[j].start
  <2> SUFFICES ASSUME rows[j].start < rows[i].start PROVE FALSE
    BY <1>1
  <2>1. 1..rows[j].start \subseteq T
    BY <1>1, <1>4
  <2>2. 1..rows[j].start = T
    BY <1>3, <2>1
  <2>3. rows[i].start \in 1..rows[j].start
    BY <1>1, <1>4, <2>2
  <2> QED
    BY <1>1, <2>3
<1> QED
  BY <1>5 DEF Oldest

\* What a crash has left is finite, and the bytes it stands for go with it.
LEMMA LeftFinite ==
    TableTypeOK =>
        /\ IsFiniteSet(Lost) /\ Cardinality(Lost) \in Nat
        /\ IsFiniteSet(Ghosts) /\ Cardinality(Ghosts) \in Nat
<1> SUFFICES ASSUME TableTypeOK
             PROVE  /\ IsFiniteSet(Lost) /\ Cardinality(Lost) \in Nat
                    /\ IsFiniteSet(Ghosts) /\ Cardinality(Ghosts) \in Nat
  OBVIOUS
<1>1. Lost \subseteq Id /\ Ghosts \subseteq Id
  BY Weights DEF WeightFacts, Lost, Ghosts, RowsIn
<1> QED
  BY <1>1, IdFinite, FS_CardinalityType

LEMMA LeftFiniteNext ==
    TableTypeOK' =>
        /\ IsFiniteSet(Lost') /\ Cardinality(Lost') \in Nat
        /\ IsFiniteSet(Ghosts') /\ Cardinality(Ghosts') \in Nat
<1>1. (TableTypeOK =>
        /\ IsFiniteSet(Lost) /\ Cardinality(Lost) \in Nat
        /\ IsFiniteSet(Ghosts) /\ Cardinality(Ghosts) \in Nat)'
  BY LeftFinite, PTL
<1> QED
  BY <1>1

LEMMA Times ==
    ASSUME NEW m \in Nat, NEW n \in Nat
    PROVE  /\ SegBytes * m \in Nat
           /\ SegBytes * (m + 1) = SegBytes * m + SegBytes
           /\ m <= n => SegBytes * m <= SegBytes * n
<1>1. SegBytes \in Nat
  BY ConstantTypes
<1>2. SegBytes * m \in Nat /\ SegBytes * (m + 1) = SegBytes * m + SegBytes
  BY <1>1
<1>3. ASSUME m <= n PROVE SegBytes * m <= SegBytes * n
  <2>1. PICK d \in Nat : n = m + d
    <3>1. n - m \in Nat /\ n = m + (n - m)
      BY <1>3
    <3> QED
      BY <3>1
  <2>2. SegBytes * n = SegBytes * m + SegBytes * d
    BY <1>1, <2>1
  <2>3. SegBytes * d \in Nat
    BY <1>1, <2>1
  <2> QED
    BY <1>2, <2>2, <2>3
<1> QED
  BY <1>2, <1>3

\* A step that leaves nothing behind, and one that leaves one thing.
LEMMA LeftStays ==
    ASSUME TableTypeOK, TableTypeOK', Lost' \subseteq Lost, Ghosts' \subseteq Ghosts,
           CrashInv, UNCHANGED crashes, crashes \in Nat
    PROVE  /\ CrashInv'
           /\ SegBytes * Cardinality(Lost') <= SegBytes * Cardinality(Lost)
           /\ SegBytes * Cardinality(Lost') \in Nat
           /\ SegBytes * Cardinality(Lost) \in Nat
           /\ SegBytes * Cardinality(Lost') <= SegBytes * crashes
<1>1. /\ Cardinality(Lost') <= Cardinality(Lost)
      /\ Cardinality(Ghosts') <= Cardinality(Ghosts)
  BY LeftFinite, FS_Subset
<1>2. /\ Cardinality(Lost) \in Nat /\ Cardinality(Lost') \in Nat
      /\ Cardinality(Ghosts) \in Nat /\ Cardinality(Ghosts') \in Nat
  BY LeftFinite, LeftFiniteNext
<1>3. CrashInv'
  BY <1>1, <1>2 DEF CrashInv
<1>4. Cardinality(Lost') <= crashes
  BY <1>3 DEF CrashInv
<1> QED
  BY <1>1, <1>2, <1>3, <1>4, Times

LEMMA LeftGrows ==
    ASSUME TableTypeOK, TableTypeOK', NEW x, NEW y,
           Lost' \subseteq Lost \cup {x}, Ghosts' \subseteq Ghosts \cup {y},
           CrashInv, crashes' = crashes + 1, crashes \in Nat
    PROVE  /\ CrashInv'
           /\ SegBytes * Cardinality(Lost') <= SegBytes * Cardinality(Lost) + SegBytes
           /\ SegBytes * Cardinality(Lost') \in Nat
           /\ SegBytes * Cardinality(Lost) \in Nat
<1>1. /\ Cardinality(Lost) \in Nat /\ Cardinality(Lost') \in Nat
      /\ Cardinality(Ghosts) \in Nat /\ Cardinality(Ghosts') \in Nat
  BY LeftFinite, LeftFiniteNext
<1>2. Cardinality(Lost') <= Cardinality(Lost) + 1
  <2>1. /\ IsFiniteSet(Lost \cup {x})
        /\ Cardinality(Lost \cup {x}) =
              IF x \in Lost THEN Cardinality(Lost) ELSE Cardinality(Lost) + 1
    BY LeftFinite, FS_AddElement
  <2>2. Cardinality(Lost') <= Cardinality(Lost \cup {x})
    BY <2>1, FS_Subset
  <2> QED
    BY <1>1, <2>1, <2>2
<1>3. Cardinality(Ghosts') <= Cardinality(Ghosts) + 1
  <2>1. /\ IsFiniteSet(Ghosts \cup {y})
        /\ Cardinality(Ghosts \cup {y}) =
              IF y \in Ghosts THEN Cardinality(Ghosts) ELSE Cardinality(Ghosts) + 1
    BY LeftFinite, FS_AddElement
  <2>2. Cardinality(Ghosts') <= Cardinality(Ghosts \cup {y})
    BY <2>1, FS_Subset
  <2> QED
    BY <1>1, <2>1, <2>2
<1>4. CrashInv'
  BY <1>1, <1>2, <1>3 DEF CrashInv
<1>5. /\ SegBytes * Cardinality(Lost') <= SegBytes * (Cardinality(Lost) + 1)
      /\ SegBytes * (Cardinality(Lost) + 1) = SegBytes * Cardinality(Lost) + SegBytes
      /\ SegBytes * Cardinality(Lost') \in Nat /\ SegBytes * Cardinality(Lost) \in Nat
  BY <1>1, <1>2, Times
<1> QED
  BY <1>4, <1>5

\* When nothing is prunable, the rows are what is being recorded or uploaded.
LEMMA NothingPrunable ==
    ASSUME TableTypeOK, RecordInv, OldestPrunable = {}
    PROVE  RowBytes <= SegBytes
<1> DEFINE U == RowsIn({"uploading"})
           none == [i \in Id |-> 0]
<1>1. RowsIn({"uploaded", "pending", "broken"}) = {}
  <2>1. RowsIn({"uploaded", "pending", "broken"}) \subseteq DOMAIN rows
    BY DEF RowsIn
  <2> QED
    BY <2>1, OldestExists DEF OldestPrunable
<1>2. \A i \in DOMAIN rows : rows[i].state \in {"recording", "uploading"}
  BY <1>1 DEF RowsIn, TableTypeOK, Row, SegmentState
<1>3. \A i \in Id : RowWeight[i] <= none[i] + (IF i \in U THEN SegBytes ELSE 0)
  BY <1>2, Weights, ConstantTypes DEF WeightFacts, RowWeight, RecordInv, RowsIn
<1>4. U \in SUBSET Id /\ none \in [Id -> Nat]
  BY Weights DEF WeightFacts, RowsIn
<1>5. \A i, j \in U : i = j
  BY DEF RecordInv
<1> HIDE DEF U
<1>6. Cardinality(U) = 0 \/ Cardinality(U) = 1
  <2>1. CASE U = {}
    BY <2>1, FS_EmptySet
  <2>2. ASSUME NEW i \in U PROVE U = {i}
    BY <1>5
  <2> QED
    BY <2>1, <2>2, FS_Singleton
<1>7. Total(none, Id) = 0
  BY IdFinite, ZeroSum
<1> HIDE DEF none
<1>8. RowBytes <= Total(none, Id) + SegBytes * Cardinality(U)
  BY <1>3, <1>4, Weights, IdFinite, SumExceeds, ConstantTypes DEF WeightFacts
<1>9. SegBytes * Cardinality(U) <= SegBytes /\ SegBytes * Cardinality(U) \in Nat
  BY <1>6, ConstantTypes
<1>10. RowBytes \in Nat
  BY Weights DEF WeightFacts
<1> QED
  BY <1>7, <1>8, <1>9, <1>10, ConstantTypes

-----------------------------------------------------------------------------
(* The steps.                                                              *)

\* A step that writes no row's size, makes no file and removes none, and goes
\* neither into a prune nor out of it.
Quiet ==
    /\ DOMAIN rows' = DOMAIN rows
    /\ \A i \in DOMAIN rows :
          /\ rows'[i].size = rows[i].size
          /\ rows'[i].state = "recording" <=> rows[i].state = "recording"
    /\ \A i, j \in DOMAIN rows :
          rows'[i].state = "uploading" /\ rows'[j].state = "uploading" => i = j
    /\ DOMAIN files' = DOMAIN files
    /\ UNCHANGED crashes
    /\ Writing' <=> Writing
    /\ Writing => cur' = cur
    /\ cpc \in {"init", "undo"} <=> cpc' \in {"init", "undo"}
    /\ Pruning' <=> Pruning
    /\ Pruning => UNCHANGED <<cpc, victim, total>>

LEMMA QuietKeeps ==
    ASSUME TypeInv, TypeInv', BytesInv, Quiet
    PROVE  BytesInv'
<1> USE DEF BytesInv, TypeInv
<1>1. RowBytes' = RowBytes
  BY SameBytes DEF Quiet
<1>2. Lost' = Lost
  <2>1. \A i : i \in Lost' <=> i \in Lost
    BY DEF Quiet, Lost, RowsIn
  <2> QED
    BY <2>1
<1>3. cpc' = "delete" <=> cpc = "delete"
  BY DEF Quiet, Pruning
<1>4. Ghosts' = Ghosts
  <2>1. cpc = "delete" => victim' = victim
    BY DEF Quiet, Pruning
  <2>2. \A i : i \in Ghosts' <=> i \in Ghosts
    BY <1>3, <2>1 DEF Quiet, Ghosts
  <2> QED
    BY <2>2
<1>5. RecordInv'
  <2>1. (Writing /\ cpc \notin {"init", "undo"} => cur \in DOMAIN files)'
    BY DEF Quiet, RecordInv
  <2>2. cpc' \in {"unlink", "delete"} => cpc' = cpc /\ victim' = victim
    BY DEF Quiet, Pruning
  <2>3. (cpc \in {"unlink", "delete"} =>
          victim.id \in DOMAIN rows /\ victim.size = rows[victim.id].size)'
    BY <2>2 DEF Quiet, RecordInv
  <2>4. (\A i \in DOMAIN rows : rows[i].state = "recording" => rows[i].size = 0)'
    BY DEF Quiet, RecordInv
  <2>5. (\A i, j \in RowsIn({"uploading"}) : i = j)'
    BY DEF Quiet, RowsIn
  <2> QED
    BY <2>1, <2>3, <2>4, <2>5 DEF RecordInv
<1>6. CrashInv'
  BY <1>2, <1>4 DEF Quiet, CrashInv
<1>7. TotalInv'
  BY <1>1 DEF Quiet, Pruning, TotalInv
<1>8. BoundInv'
  BY <1>1, <1>2 DEF Quiet, BoundInv
<1> QED
  BY <1>5, <1>6, <1>7, <1>8

\* The end of a prune that has come down to the high water.
LEMMA PruneEnds ==
    ASSUME TypeInv, TypeInv', BytesInv, PruneDone, Pruning,
           UNCHANGED <<files, crashes>>,
           \A i \in DOMAIN rows' : i \in DOMAIN rows /\ rows'[i] = rows[i],
           Ghosts' \subseteq Ghosts,
           RowBytes' <= HighWater + SegBytes
    PROVE  BytesInv'
<1> USE DEF BytesInv, TypeInv
<1>0. crashes \in Nat
  BY ConstantTypes
<1>1. ~Writing /\ mode = "file"
  BY DEF Pruning, Writing, ChildData, ChildControl
<1>2. ~Writing' /\ ~Pruning' /\ cpc' \notin {"fetch", "unlink", "delete"}
  <2>1. CASE frame
    BY <2>1, <1>1 DEF PruneDone, Writing, Pruning
  <2>2. CASE ~frame
    BY <2>2 DEF PruneDone, EndChild, Writing, Pruning
  <2> QED
    BY <2>1, <2>2
<1>3. Lost' \subseteq Lost
  BY <1>1, <1>2 DEF Lost, RowsIn
<1>4. /\ CrashInv'
      /\ SegBytes * Cardinality(Lost') <= SegBytes * crashes
      /\ SegBytes * Cardinality(Lost') \in Nat
  BY <1>0, <1>3, LeftStays
<1>5. RecordInv'
  BY <1>2 DEF RecordInv, RowsIn
<1>6. TotalInv'
  BY <1>2 DEF TotalInv
<1>7. BoundInv'
  <2>1. SegBytes * (crashes + 1) = SegBytes * crashes + SegBytes
        /\ SegBytes * crashes \in Nat
    BY <1>0, Times
  <2>2. SegBytes * (1 + crashes) = SegBytes * crashes + SegBytes
    BY <1>0, <2>1
  <2>3. RowBytes' \in Nat /\ HighWater \in Nat /\ SegBytes \in Nat
    BY WeightsNext, WaterMarks, ConstantTypes DEF WeightFacts, WaterMarks
  <2>4. RowBytes' + SegBytes * Cardinality(Lost')
          <= HighWater + SegBytes * (1 + crashes)
    BY <1>4, <2>1, <2>2, <2>3
  <2> QED
    BY <1>2, <2>1, <2>2, <2>3, <2>4 DEF BoundInv
<1> QED
  BY <1>4, <1>5, <1>6, <1>7

\* Arithmetic of the bound: what the rows gain, the allowance gains.
LEMMA AllowanceCovers ==
    ASSUME NEW r \in Nat, NEW r2 \in Nat, NEW l \in Nat, NEW l2 \in Nat,
           NEW b \in Nat, NEW k \in Nat, NEW k2 \in Nat,
           r + l <= b + k, l2 <= l, r2 + k <= r + k2
    PROVE  r2 + l2 <= b + k2
OBVIOUS

Allowance == IF Pruning THEN SegBytes ELSE 0

\* The bound outlives a step that adds no more than what it allows for.
LEMMA LessBytes ==
    ASSUME BoundInv, RowBytes \in Nat, RowBytes' \in Nat,
           crashes \in Nat, UNCHANGED crashes,
           SegBytes * Cardinality(Lost') <= SegBytes * Cardinality(Lost),
           SegBytes * Cardinality(Lost') \in Nat,
           SegBytes * Cardinality(Lost) \in Nat,
           RowBytes' + Allowance <= RowBytes + Allowance'
    PROVE  BoundInv'
<1>1. /\ HighWater + SegBytes * (1 + crashes) \in Nat
      /\ Allowance \in Nat /\ Allowance' \in Nat
  <2>1. SegBytes \in Nat /\ HighWater \in Nat
    BY ConstantTypes, WaterMarks DEF WaterMarks
  <2> QED
    BY <2>1 DEF Allowance
<1>2. RowBytes + SegBytes * Cardinality(Lost)
         <= (HighWater + SegBytes * (1 + crashes)) + Allowance
  BY DEF BoundInv, Allowance
<1>3. RowBytes' + SegBytes * Cardinality(Lost')
         <= (HighWater + SegBytes * (1 + crashes)) + Allowance'
  <2>1. PICK b \in Nat : b = HighWater + SegBytes * (1 + crashes)
    BY <1>1
  <2>2. PICK l \in Nat : l = SegBytes * Cardinality(Lost)
    OBVIOUS
  <2>3. PICK l2 \in Nat : l2 = SegBytes * Cardinality(Lost')
    OBVIOUS
  <2>4. RowBytes + l <= b + Allowance /\ l2 <= l
    BY <1>2, <2>1, <2>2, <2>3, Zenon
  <2>5. RowBytes' + l2 <= b + Allowance'
    BY <1>1, <2>4, AllowanceCovers
  <2> QED
    BY <2>1, <2>3, <2>5, Zenon
<1> QED
  BY <1>3 DEF BoundInv, Allowance

\* The child, but for its prune.
LEMMA ChildBytes ==
    ASSUME Healthy, SafetyInv, SafetyInv', BytesInv, UNCHANGED crashes,
           ChildNext, ~ (PruneSum \/ PruneFetch \/ PruneUnlink \/ PruneDelete)
    PROVE  BytesInv'
<1> USE DEF SafetyInv, OwnInv, TypeInv
<1>a. lastId \in Nat /\ DOMAIN rows \subseteq 1..lastId
  BY ConstantTypes DEF TableTypeOK
<1>b. /\ crashes \in Nat /\ SegBytes \in Nat /\ RowBytes \in Nat /\ RowBytes' \in Nat
      /\ DOMAIN rows \subseteq Id /\ DOMAIN rows' \subseteq Id
  BY ConstantTypes, Weights, WeightsNext DEF WeightFacts
<1>c. Writing => cur \in DOMAIN rows /\ rows[cur].state = "recording"
                 /\ curPath = cur
  BY DEF OwnChild, FileInv, Paths
<1>1. CASE ChildStart \/ BootRtmp \/ RecvFrame \/ PushRtmp \/ RestoreRtmp
           \/ RotateSegment \/ BootFile \/ LeaveLoop \/ PushRtmpFails
           \/ InitOutputFails \/ PushFile \/ PushFileFails
           \/ (OpenSegment /\ EndChild /\ UNCHANGED tableVars)
  <2>1. UNCHANGED rows /\ DOMAIN files' = DOMAIN files
    BY <1>1, HealthyChild
    DEF ChildStart, BootRtmp, RecvFrame, PushRtmp, RestoreRtmp, RotateSegment,
        BootFile, LeaveLoop, PushRtmpFails, PushFile, PushFileFails,
        AppendFile, SpoilFile, tableVars
  <2>2. ~Pruning /\ ~Pruning'
    BY <1>1
    DEF ChildStart, BootRtmp, RecvFrame, PushRtmp, RestoreRtmp, RotateSegment,
        BootFile, LeaveLoop, PushRtmpFails, PushFile, PushFileFails,
        InitOutputFails, OpenSegment, EndChild, Pruning
  <2>3. /\ Writing' <=> Writing
        /\ Writing => cur' = cur
        /\ cpc \in {"init", "undo"} <=> cpc' \in {"init", "undo"}
    BY <1>1
    DEF ChildStart, BootRtmp, RecvFrame, PushRtmp, RestoreRtmp, RotateSegment,
        BootFile, LeaveLoop, PushRtmpFails, PushFile, PushFileFails,
        InitOutputFails, OpenSegment, EndChild, Writing, ChildData,
        ChildControl, ChildDataOK
  <2>4. Quiet
    BY <2>1, <2>2, <2>3 DEF Quiet, BytesInv, RecordInv, RowsIn
  <2> QED
    BY <2>4, QuietKeeps
<1>2. CASE OpenSegment /\ ~ (EndChild /\ UNCHANGED tableVars)
  <2> DEFINE new == lastId + 1
  <2>1. /\ RegisterSegment(new) /\ cur' = new /\ cpc = "register"
        /\ cpc' = "init" /\ UNCHANGED files
    BY <1>2, HealthyChild DEF OpenSegment
  <2>2. /\ DOMAIN rows' = DOMAIN rows \cup {new} /\ new \notin DOMAIN rows
        /\ \A i \in DOMAIN rows : rows'[i] = rows[i]
        /\ rows'[new].state = "recording" /\ rows'[new].size = 0
    BY <1>a, <2>1 DEF RegisterSegment
  <2>3. RowBytes' = RowBytes
    <3>1. new \in Id
      BY <1>b, <2>2
    <3> QED
      BY <2>2, <3>1, NoBytes
  <2>4. ~Writing /\ Writing' /\ ~Pruning /\ ~Pruning'
    BY <2>1 DEF Writing, Pruning
  <2>5. Lost' \subseteq Lost /\ Ghosts' \subseteq Ghosts
    BY <2>1, <2>2, <2>4 DEF Lost, Ghosts, RowsIn
  <2>6. RecordInv'
    BY <2>1, <2>2 DEF BytesInv, RecordInv, RowsIn
  <2>7. /\ CrashInv'
        /\ SegBytes * Cardinality(Lost') <= SegBytes * Cardinality(Lost)
        /\ SegBytes * Cardinality(Lost') \in Nat
        /\ SegBytes * Cardinality(Lost) \in Nat
    BY <1>b, <2>5, LeftStays DEF BytesInv
  <2>8. BoundInv' /\ TotalInv'
    BY <1>b, <2>1, <2>3, <2>4, <2>7, LessBytes
    DEF BytesInv, TotalInv, Allowance
  <2> QED
    BY <2>6, <2>7, <2>8 DEF BytesInv
<1>3. CASE InitOutput
  <2>1. /\ cpc = "init" /\ cpc' \in {"push", "recv"}
        /\ UNCHANGED <<rows, mode, cur>>
        /\ DOMAIN files' = DOMAIN files \cup {cur}
    BY <1>3, <1>c DEF InitOutput, CreateFile, Writing
  <2>2. mode = "file"
    BY <2>1 DEF FileInv, Paths
  <2>3. Writing /\ Writing' /\ ~Pruning /\ ~Pruning'
    BY <2>1, <2>2 DEF Writing, Pruning
  <2>4. Lost' \subseteq Lost /\ Ghosts' \subseteq Ghosts
    BY <2>1, <2>3 DEF Lost, Ghosts, RowsIn
  <2>5. RecordInv'
    BY <2>1 DEF BytesInv, RecordInv, RowsIn
  <2>6. RowBytes' = RowBytes
    BY <2>1, SameBytes
  <2>7. /\ CrashInv'
        /\ SegBytes * Cardinality(Lost') <= SegBytes * Cardinality(Lost)
        /\ SegBytes * Cardinality(Lost') \in Nat
        /\ SegBytes * Cardinality(Lost) \in Nat
    BY <1>b, <2>4, LeftStays DEF BytesInv
  <2>8. BoundInv' /\ TotalInv'
    BY <1>b, <2>1, <2>3, <2>6, <2>7, LessBytes
    DEF BytesInv, TotalInv, Allowance
  <2> QED
    BY <2>5, <2>7, <2>8 DEF BytesInv
<1>4. CASE UndoSegment
  <2>1. DeleteSegment(cur) /\ cpc = "undo" /\ EndChild /\ UNCHANGED files
    BY <1>4, HealthyChild DEF UndoSegment
  <2>2. Writing /\ ~Writing' /\ ~Pruning /\ ~Pruning'
    BY <2>1 DEF Writing, Pruning, EndChild
  <2>3. /\ DOMAIN rows' = DOMAIN rows \ {cur}
        /\ \A i \in DOMAIN rows' : rows'[i] = rows[i]
    BY <2>1 DEF DeleteSegment
  <2>4. RowBytes' = RowBytes
    <3>1. cur \in Id /\ rows[cur].size = 0
      BY <1>b, <1>c, <2>2 DEF BytesInv, RecordInv
    <3> QED
      BY <2>3, <3>1, NoBytes
  <2>5. Lost' \subseteq Lost /\ Ghosts' \subseteq Ghosts
    BY <2>1, <2>2, <2>3 DEF Lost, Ghosts, RowsIn
  <2>6. RecordInv'
    BY <2>1, <2>2, <2>3 DEF BytesInv, RecordInv, RowsIn, EndChild
  <2>7. /\ CrashInv'
        /\ SegBytes * Cardinality(Lost') <= SegBytes * Cardinality(Lost)
        /\ SegBytes * Cardinality(Lost') \in Nat
        /\ SegBytes * Cardinality(Lost) \in Nat
    BY <1>b, <2>5, LeftStays DEF BytesInv
  <2>8. BoundInv' /\ TotalInv'
    BY <1>b, <2>1, <2>2, <2>4, <2>7, LessBytes
    DEF BytesInv, TotalInv, EndChild, Allowance
  <2> QED
    BY <2>6, <2>7, <2>8 DEF BytesInv
<1>5. CASE FinishSegment
  <2>1. /\ UpdateSegment(cur, FileSize(curPath), "pending")
        /\ cpc = "close" /\ cpc' = "sum" /\ UNCHANGED <<files, mode, cur, curPath>>
    BY <1>5, HealthyChild DEF FinishSegment
  <2>2. mode = "file" /\ Writing /\ ~Writing' /\ ~Pruning /\ Pruning'
    BY <2>1 DEF Writing, Pruning, ChildData, ChildControl
  <2>3. cur \in DOMAIN files /\ cur \in Id
    BY <1>b, <1>c, <2>1, <2>2 DEF BytesInv, RecordInv
  <2>4. /\ DOMAIN rows' = DOMAIN rows
        /\ \A i \in DOMAIN rows : i # cur => rows'[i] = rows[i]
        /\ rows'[cur].state = "pending"
    BY <1>c, <2>1, <2>2 DEF UpdateSegment, TableTypeOK, Row
  <2>5. RowBytes' <= RowBytes + SegBytes
    <3>1. RowWeight[cur] \in Nat
      BY <2>3, Weights DEF WeightFacts
    <3>3. cur \in DOMAIN rows'
      BY <1>c, <2>2, <2>4
    <3>4. RowWeight'[cur] = rows'[cur].size
      BY <2>3, <3>3 DEF RowWeight
    <3>5. rows'[cur].size \in 0..SegBytes
      BY <3>3, WeightsNext DEF WeightFacts
    <3>2. RowBytes + RowWeight'[cur] = RowBytes' + RowWeight[cur]
      BY <2>3, <2>4, BytesChange
    <3> QED
      BY <1>b, <3>1, <3>2, <3>4, <3>5
  <2>6. Lost' \subseteq Lost /\ Ghosts' \subseteq Ghosts
    BY <2>1, <2>2, <2>3, <2>4 DEF Lost, Ghosts, RowsIn
  <2>7. RecordInv'
    BY <2>1, <2>2, <2>4 DEF BytesInv, RecordInv, RowsIn
  <2>8. /\ CrashInv'
        /\ SegBytes * Cardinality(Lost') <= SegBytes * Cardinality(Lost)
        /\ SegBytes * Cardinality(Lost') \in Nat
        /\ SegBytes * Cardinality(Lost) \in Nat
    BY <1>b, <2>6, LeftStays DEF BytesInv
  <2>9. TotalInv'
    BY <2>1 DEF TotalInv
  <2>10. RowBytes' + Allowance <= RowBytes + Allowance'
    <3>1. Allowance = 0 /\ Allowance' = SegBytes
      BY <2>2 DEF Allowance
    <3>2. ASSUME NEW m \in Nat, NEW n \in Nat, n <= m + SegBytes
          PROVE  n + 0 <= m + SegBytes
      BY <3>2, <1>b
    <3>3. RowBytes' + 0 <= RowBytes + SegBytes
      BY <1>b, <2>5, <3>2, Zenon
    <3> QED
      BY <3>1, <3>3, Zenon
  <2>11. BoundInv'
    BY <1>b, <2>8, <2>10, LessBytes DEF BytesInv
  <2> QED
    BY <2>7, <2>8, <2>9, <2>11 DEF BytesInv
<1> QED
  BY <1>1, <1>2, <1>3, <1>4, <1>5 DEF ChildNext, ChildWork

\* The prune.  With the low water above the high one its loop would end at the
\* low water and leave the rows above the high one.
LEMMA PruneBytes ==
    ASSUME Healthy, LowWater <= HighWater, SafetyInv, SafetyInv', BytesInv,
           UNCHANGED crashes, PruneSum \/ PruneFetch \/ PruneUnlink \/ PruneDelete
    PROVE  BytesInv'
<1> USE DEF SafetyInv, OwnInv, TypeInv
<1>b. /\ crashes \in Nat /\ SegBytes \in Nat /\ RowBytes \in Nat /\ RowBytes' \in Nat
      /\ HighWater \in Nat /\ LowWater \in Nat
      /\ DOMAIN rows \subseteq Id /\ DOMAIN rows' \subseteq Id
      /\ \A i \in DOMAIN rows : rows[i].size \in Nat
  BY ConstantTypes, WaterMarks, Weights, WeightsNext DEF WaterMarks, WeightFacts
<1>c. Pruning /\ ~Writing /\ mode = "file"
  BY DEF PruneSum, PruneFetch, PruneUnlink, PruneDelete, Pruning, Writing,
         ChildData, ChildControl
<1>1. CASE (PruneSum \/ PruneFetch) /\ PruneDone
  <2>1. UNCHANGED tableVars /\ cpc \in {"sum", "fetch"}
        /\ cpc' \notin {"fetch", "unlink"}
    BY <1>1 DEF PruneSum, PruneFetch, PruneDone, EndChild
  <2>2. RowBytes' = RowBytes
    BY <2>1, SameBytes DEF tableVars
  <2>3. RowBytes <= HighWater + SegBytes
    <3>1. CASE cpc = "sum"
      <4>1. VideoTotalSize <= HighWater
        BY <1>1, <2>1, <3>1 DEF PruneSum, PruneFetch, Healthy
      <4> QED
        BY <1>b, <4>1, TotalRead DEF BytesInv
    <3>2. CASE cpc = "fetch"
      <4>1. OldestPrunable = {}
        BY <1>1, <2>1, <3>2 DEF PruneSum, PruneFetch, Healthy
      <4> QED
        BY <1>b, <4>1, NothingPrunable DEF BytesInv
    <3> QED
      BY <2>1, <3>1, <3>2
  <2>4. Ghosts' \subseteq Ghosts
    BY <1>1, <2>1 DEF Ghosts, tableVars, PruneDone, EndChild
  <2> QED
    BY <1>1, <1>b, <1>c, <2>1, <2>2, <2>3, <2>4, PruneEnds DEF tableVars
<1>2. CASE PruneSum /\ ~PruneDone
  <2>1. /\ VideoTotalSize > HighWater /\ total' = VideoTotalSize
        /\ cpc = "sum" /\ cpc' = "fetch"
        /\ UNCHANGED <<rows, files, mode, cur, victim>>
    BY <1>2 DEF PruneSum, tableVars
  <2>2. ~Writing' /\ Pruning'
    BY <2>1 DEF Writing, Pruning
  <2>3. RowBytes' = RowBytes
    BY <2>1, SameBytes
  <2>4. Lost' = Lost /\ Ghosts' = Ghosts
    BY <1>c, <2>1, <2>2 DEF Lost, Ghosts, RowsIn
  <2>5. RecordInv'
    BY <2>1, <2>2 DEF BytesInv, RecordInv, RowsIn
  <2>6. CrashInv'
    BY <2>4 DEF BytesInv, CrashInv
  <2>7. TotalInv'
    BY <1>b, <2>1, <2>3, TotalRead DEF BytesInv, TotalInv
  <2>8. BoundInv'
    BY <1>c, <2>2, <2>3, <2>4 DEF BytesInv, BoundInv
  <2> QED
    BY <2>5, <2>6, <2>7, <2>8 DEF BytesInv
<1>3. CASE PruneFetch /\ ~PruneDone
  <2>1. PICK i \in OldestPrunable :
            victim' = [id |-> i, start |-> rows[i].start, size |-> rows[i].size]
    BY <1>3 DEF PruneFetch
  <2>2. /\ cpc = "fetch" /\ cpc' = "unlink"
        /\ UNCHANGED <<rows, files, mode, cur, total>>
    BY <1>3 DEF PruneFetch, tableVars
  <2>3. ~Writing' /\ Pruning'
    BY <2>2 DEF Writing, Pruning
  <2>4. RowBytes' = RowBytes
    BY <2>2, SameBytes
  <2>5. Lost' = Lost /\ Ghosts' = Ghosts
    BY <1>c, <2>2, <2>3 DEF Lost, Ghosts, RowsIn
  <2>6. RecordInv'
    <3>1. i \in DOMAIN rows
      BY DEF OldestPrunable, Oldest, RowsIn
    <3> QED
      BY <2>1, <2>2, <2>3, <3>1 DEF BytesInv, RecordInv, RowsIn
  <2>7. CrashInv'
    BY <2>5 DEF BytesInv, CrashInv
  <2>8. TotalInv'
    BY <2>2, <2>4 DEF BytesInv, TotalInv
  <2>9. BoundInv'
    BY <1>c, <2>3, <2>4, <2>5 DEF BytesInv, BoundInv
  <2> QED
    BY <2>6, <2>7, <2>8, <2>9 DEF BytesInv
<1>4. CASE PruneUnlink
  <2>1. /\ UnlinkFile(victim.start) /\ cpc = "unlink" /\ cpc' = "delete"
        /\ UNCHANGED <<rows, mode, cur, victim>> /\ victim.start = victim.id
    BY <1>4, HealthyChild DEF PruneUnlink, FileInv, Paths
  <2>2. UNCHANGED total
    BY <1>4, <2>1 DEF PruneUnlink, PruneDone, EndChild
  <2>3. ~Writing' /\ Pruning'
    BY <2>1 DEF Writing, Pruning
  <2>4. RowBytes' = RowBytes
    BY <2>1, SameBytes
  <2>5. Lost' = Lost
    BY <1>c, <2>1, <2>3 DEF Lost, RowsIn
  <2>6. Ghosts' \subseteq Ghosts
    BY <2>1 DEF Ghosts, UnlinkFile
  <2>7. RecordInv'
    BY <2>1, <2>3 DEF BytesInv, RecordInv, RowsIn
  <2>8. CrashInv'
    BY <1>b, <2>5, <2>6, LeftStays DEF BytesInv
  <2>9. TotalInv'
    BY <2>1, <2>2, <2>4 DEF BytesInv, TotalInv
  <2>10. BoundInv'
    BY <1>c, <2>3, <2>4, <2>5 DEF BytesInv, BoundInv
  <2> QED
    BY <2>7, <2>8, <2>9, <2>10 DEF BytesInv
<1>5. CASE PruneDelete
  <2>1. /\ DeleteSegment(victim.id) /\ cpc = "delete" /\ UNCHANGED files
        /\ victim.id \in DOMAIN rows /\ victim.size = rows[victim.id].size
    BY <1>5, HealthyChild DEF PruneDelete, BytesInv, RecordInv
  <2>2. /\ DOMAIN rows' = DOMAIN rows \ {victim.id}
        /\ \A i \in DOMAIN rows' : rows'[i] = rows[i]
    BY <2>1 DEF DeleteSegment
  <2>3. RowBytes = RowBytes' + victim.size /\ victim.size \in Nat
    <3>1. victim.id \in Id /\ victim.size \in Nat
      BY <1>b, <2>1
    <3>2. RowBytes + RowWeight'[victim.id] = RowBytes' + RowWeight[victim.id]
      BY <2>2, <3>1, BytesChange
    <3>3. RowWeight'[victim.id] = 0 /\ RowWeight[victim.id] = victim.size
      BY <2>1, <2>2, <3>1 DEF RowWeight
    <3>4. ASSUME NEW m \in Nat, NEW n \in Nat, m + 0 = n PROVE m = n
      BY <3>4
    <3>5. RowBytes' + victim.size \in Nat
      BY <1>b, <3>1
    <3>6. RowBytes + 0 = RowBytes' + victim.size
      BY <3>2, <3>3, Zenon
    <3> QED
      BY <1>b, <3>1, <3>4, <3>5, <3>6, Zenon
  <2>4. /\ total \in Nat /\ total > HighWater
        /\ total <= RowBytes /\ RowBytes <= total + SegBytes
    BY <2>1 DEF BytesInv, TotalInv
  <2>5. Ghosts' \subseteq Ghosts
    BY <2>1, <2>2 DEF Ghosts
  <2>6. CASE PruneContinues(total - victim.size)
    <3>1. /\ total' = total - victim.size /\ cpc' = "fetch"
          /\ UNCHANGED <<mode, cur>>
      BY <1>5, <2>6 DEF PruneDelete, Healthy
    <3>2. ~Writing' /\ Pruning'
      BY <3>1 DEF Writing, Pruning
    <3>3. Lost' \subseteq Lost
      BY <1>c, <2>2, <3>2 DEF Lost, RowsIn
    <3>4. RecordInv'
      BY <2>2, <3>1, <3>2 DEF BytesInv, RecordInv, RowsIn
    <3>5. /\ CrashInv'
          /\ SegBytes * Cardinality(Lost') <= SegBytes * Cardinality(Lost)
          /\ SegBytes * Cardinality(Lost') \in Nat
          /\ SegBytes * Cardinality(Lost) \in Nat
      BY <1>b, <2>5, <3>3, LeftStays DEF BytesInv
    <3>6. TotalInv'
      BY <1>b, <2>3, <2>4, <2>6, <3>1 DEF TotalInv, PruneContinues
    <3>7. RowBytes' + Allowance <= RowBytes + Allowance'
      BY <1>b, <1>c, <2>3, <3>2 DEF Allowance
    <3>8. BoundInv'
      BY <1>b, <3>5, <3>7, LessBytes DEF BytesInv
    <3> QED
      BY <3>4, <3>5, <3>6, <3>8 DEF BytesInv
  <2>7. CASE ~PruneContinues(total - victim.size)
    <3>1. PruneDone
      BY <1>5, <2>7 DEF PruneDelete
    <3>2. total - victim.size <= HighWater
      BY <1>b, <2>3, <2>4, <2>7 DEF PruneContinues
    <3>3. RowBytes' <= HighWater + SegBytes
      BY <1>b, <2>3, <2>4, <3>2
    <3> QED
      BY <1>c, <2>1, <2>2, <2>5, <3>1, <3>3, PruneEnds
  <2> QED
    BY <2>6, <2>7
<1> QED
  BY <1>1, <1>2, <1>3, <1>4, <1>5 DEF PruneSum, PruneFetch

\* The uploader moves states between the finished ones and claims a row only
\* while no other is claimed.
LEMMA UploaderBytes ==
    ASSUME Healthy, SafetyInv, SafetyInv', BytesInv, UploaderNext,
           UNCHANGED <<childVars, crashes>>
    PROVE  BytesInv'
<1> USE DEF SafetyInv, OwnInv, TypeInv
<1>1. UploaderKeepsRows /\ UNCHANGED files
  BY UploaderKeeps, UploaderKeepsFiles
<1>2. \A i \in DOMAIN rows :
        rows'[i].state = "recording" => rows[i].state = "recording"
  <2>1. CASE UNCHANGED rows
    BY <2>1
  <2>2. ASSUME NEW S, NEW st, SetState(S, st), st # "recording",
               \A i \in S : i \in DOMAIN rows => rows[i].state # "recording"
        PROVE  \A i \in DOMAIN rows :
                  rows'[i].state = "recording" => rows[i].state = "recording"
    BY <2>2, SetStateKeeps
  <2>3. CASE UploaderReset
    <3>1. SetState(RowsIn({"uploading"}), "pending")
      BY <2>3, HealthyUploader DEF ResetUploading
    <3>2. \A i \in RowsIn({"uploading"}) : rows[i].state # "recording"
      BY DEF RowsIn
    <3> QED
      BY <2>2, <3>1, <3>2
  <2>4. CASE ClaimSegment \/ ConfirmUpload \/ ReleaseSegment
    <3>1. seg.id \in DOMAIN rows => rows[seg.id].state # "recording"
      BY <2>4 DEF ClaimSegment, ConfirmUpload, ReleaseSegment, OwnUploader, Holding
    <3>2. \/ SetState({seg.id}, "uploading")
          \/ SetState({seg.id}, "uploaded")
          \/ SetState({seg.id}, "pending")
      BY <2>4, HealthyUploader DEF MarkUploading, MarkUploaded, MarkRetry
    <3> QED
      BY <2>2, <3>1, <3>2
  <2> QED
    BY <2>1, <2>3, <2>4
    DEF UploaderNext, UploaderWork, UploaderStart, FetchPending, PostFile,
        ServerAccepts, UploadFails, UploaderWait, tableVars
<1>3. \A i, j \in DOMAIN rows :
        rows'[i].state = "uploading" /\ rows'[j].state = "uploading" => i = j
  <2>1. CASE upc' \in {"off", "reset"}
    <3>1. UNCHANGED rows
      BY <2>1, HealthyUploader
      DEF UploaderNext, UploaderWork, UploaderStart, UploaderReset,
          FetchPending, ClaimSegment, PostFile, ServerAccepts, UploadFails,
          ConfirmUpload, ReleaseSegment, UploaderWait, AfterUpdate, tableVars
    <3> QED
      BY <3>1 DEF BytesInv, RecordInv, RowsIn
  <2>2. CASE upc' \notin {"off", "reset"}
    <3>1. UploadingIsCurrent'
      BY DEF HandInv
    <3>2. \A i \in RowsIn({"uploading"})' : i = seg'.id
      BY <2>2, <3>1 DEF UploadingIsCurrent
    <3>3. \A i \in DOMAIN rows :
            rows'[i].state = "uploading" => i \in RowsIn({"uploading"})'
      BY <1>1 DEF RowsIn, UploaderKeepsRows
    <3> QED
      BY <3>2, <3>3
  <2> QED
    BY <2>1, <2>2
<1>4. Quiet
  <2>1. UNCHANGED <<cpc, mode, cur, victim, total, crashes, files>>
    BY <1>1 DEF childVars
  <2>2. /\ Writing' <=> Writing
        /\ Pruning' <=> Pruning
        /\ cpc \in {"init", "undo"} <=> cpc' \in {"init", "undo"}
    BY <2>1 DEF Writing, Pruning
  <2>3. /\ DOMAIN rows' = DOMAIN rows
        /\ \A i \in DOMAIN rows :
              /\ rows'[i].size = rows[i].size
              /\ rows'[i].state = "recording" <=> rows[i].state = "recording"
    BY <1>1, <1>2, Zenon DEF UploaderKeepsRows
  <2> QED
    BY <1>3, <2>1, <2>2, <2>3 DEF Quiet
<1> QED
  BY <1>4, QuietKeeps

\* A crash leaves at most the row that was being written, or the row of the
\* prune's victim.
LEMMA CrashBytes ==
    ASSUME TypeInv, TypeInv', BytesInv, EndChild, UNCHANGED tableVars,
           crashes' = crashes + 1
    PROVE  BytesInv'
<1> USE DEF TypeInv
<1>1. /\ crashes \in Nat /\ SegBytes \in Nat /\ RowBytes \in Nat
      /\ HighWater \in Nat
  BY ConstantTypes, WaterMarks, Weights DEF WaterMarks, WeightFacts
<1>2. ~Writing' /\ ~Pruning' /\ cpc' = "down"
  BY DEF EndChild, Writing, Pruning
<1>3. RowBytes' = RowBytes
  BY SameBytes DEF tableVars
<1>4. Lost' \subseteq Lost \cup {cur} /\ Ghosts' \subseteq Ghosts \cup {victim.id}
  BY <1>2 DEF Lost, Ghosts, RowsIn, tableVars
<1>5. /\ CrashInv'
      /\ SegBytes * Cardinality(Lost') <= SegBytes * Cardinality(Lost) + SegBytes
      /\ SegBytes * Cardinality(Lost') \in Nat
      /\ SegBytes * Cardinality(Lost) \in Nat
  BY <1>1, <1>4, LeftGrows DEF BytesInv
<1>6. RecordInv' /\ TotalInv'
  BY <1>2 DEF BytesInv, RecordInv, TotalInv, RowsIn, tableVars
<1>7. BoundInv'
  <2> DEFINE limit == SegBytes * (1 + crashes)
             limit2 == SegBytes * (1 + crashes')
  <2>1. limit \in Nat /\ limit2 = limit + SegBytes
    <3>1. 1 + crashes \in Nat /\ 1 + crashes' = (1 + crashes) + 1
      BY <1>1
    <3> QED
      BY <3>1, Times
  <2>2. Pruning => Lost' = Lost
    BY <1>2 DEF Lost, RowsIn, tableVars, Pruning, Writing
  <2>3. RowBytes + SegBytes * Cardinality(Lost)
          <= HighWater + limit + (IF Pruning THEN SegBytes ELSE 0)
    BY DEF BytesInv, BoundInv
  <2> HIDE DEF limit, limit2
  <2>4. RowBytes + SegBytes * Cardinality(Lost') <= HighWater + limit2
    <3>1. CASE Pruning
      BY <1>1, <1>5, <2>1, <2>2, <2>3, <3>1
    <3>2. CASE ~Pruning
      BY <1>1, <1>5, <2>1, <2>3, <3>2
    <3> QED
      BY <3>1, <3>2
  <2> QED
    BY <1>1, <1>2, <1>3, <2>1, <2>4 DEF BoundInv, limit2
<1> QED
  BY <1>5, <1>6, <1>7 DEF BytesInv

LEMMA BytesInit == Init => BytesInv
<1> SUFFICES ASSUME Init PROVE BytesInv
  OBVIOUS
<1>1. TypeInv /\ HighWater \in Nat /\ SegBytes \in Nat
  BY TypeInit, WaterMarks, ConstantTypes DEF WaterMarks
<1>2. DOMAIN rows = {} /\ cpc = "down" /\ crashes = 0 /\ mode = "rtmp"
  BY DEF Init, EmptyTable, ChildInit
<1>3. Lost = {} /\ Ghosts = {}
  BY <1>2 DEF Lost, Ghosts, RowsIn
<1>4. RecordInv /\ TotalInv /\ ~Pruning
  BY <1>2 DEF RecordInv, TotalInv, RowsIn, Writing, Pruning
<1>5. CrashInv
  BY <1>2, <1>3, FS_EmptySet DEF CrashInv
<1>6. OldestPrunable = {}
  BY <1>2 DEF OldestPrunable, Oldest, RowsIn
<1>7. RowBytes <= SegBytes /\ RowBytes \in Nat
  BY <1>1, <1>4, <1>6, NothingPrunable, Weights DEF TypeInv, WeightFacts
<1>8. BoundInv
  <2>1. SegBytes * Cardinality(Lost) = 0 /\ SegBytes * (1 + crashes) = SegBytes
    BY <1>1, <1>2, <1>3, FS_EmptySet
  <2> QED
    BY <1>1, <1>4, <1>7, <2>1 DEF BoundInv
<1> QED
  BY <1>4, <1>5, <1>8 DEF BytesInv

LEMMA BytesStep ==
    ASSUME Healthy, LowWater <= HighWater, SafetyInv, BytesInv, [Next]_vars
    PROVE  BytesInv'
<1>0. SafetyInv' /\ TypeInv /\ TypeInv'
  BY SafetyStep DEF SafetyInv, OwnInv
<1>1. CASE UNCHANGED vars \/ Shutdown \/ Exit
  <2>1. UNCHANGED <<rows, files, cpc, mode, cur, victim, total, crashes>>
    BY <1>1
    DEF vars, tableVars, childVars, Shutdown, StopRequest, Exit, UploaderDies
  <2>2. /\ Writing' <=> Writing
        /\ Pruning' <=> Pruning
        /\ cpc \in {"init", "undo"} <=> cpc' \in {"init", "undo"}
    BY <2>1 DEF Writing, Pruning
  <2>3. \A i, j \in DOMAIN rows :
          rows[i].state = "uploading" /\ rows[j].state = "uploading" => i = j
    BY DEF BytesInv, RecordInv, RowsIn
  <2>4. Quiet
    BY <2>1, <2>2, <2>3 DEF Quiet
  <2> QED
    BY <1>0, <2>4, QuietKeeps
<1>2. CASE ChildSteps
  BY <1>0, <1>2, ChildBytes, PruneBytes DEF ChildSteps
<1>3. CASE UploaderSteps
  BY <1>0, <1>3, UploaderBytes DEF UploaderSteps
<1>4. CASE ChildCrash \/ DeviceCrash
  BY <1>0, <1>4, CrashBytes
  DEF ChildCrash, ChildDies, DeviceCrash, UploaderDies
<1> QED
  BY <1>1, <1>2, <1>3, <1>4 DEF Next

LEMMA BytesInvariant ==
    ASSUME Healthy, LowWater <= HighWater
    PROVE  Spec => [](SafetyInv /\ BytesInv)
<1>1. Init => SafetyInv /\ BytesInv
  BY TypeInit, OwnInit, SafetyInit, BytesInit DEF SafetyInv, OwnInv
<1>2. SafetyInv /\ BytesInv /\ [Next]_vars => (SafetyInv /\ BytesInv)'
  BY SafetyStep, BytesStep
<1> QED
  BY <1>1, <1>2, PTL DEF Spec

\* The directory exceeds the high water by the segment that is being written
\* and the one that is being uploaded, and by one more for each crash, however
\* stale the totals are from which the prunes have worked.
THEOREM DirectoryIsBounded ==
    ASSUME Healthy, LowWater <= HighWater
    PROVE  Spec => []DiskBounded
<1>1. ASSUME SafetyInv, BytesInv PROVE DiskBounded
  <2> USE DEF SafetyInv, OwnInv, TypeInv
  <2> DEFINE R == RowsIn({"recording"})
  <2>1. /\ crashes \in Nat /\ SegBytes \in Nat /\ HighWater \in Nat
        /\ RowBytes \in Nat /\ DiskBytes \in Nat
    BY <1>1, ConstantTypes, WaterMarks, Weights DEF WaterMarks, WeightFacts
  <2>2. R \in SUBSET Id
    BY <1>1, Weights DEF WeightFacts, RowsIn
  <2>3. \A i \in Id :
          FileWeight[i] <= RowWeight[i] + (IF i \in R THEN SegBytes ELSE 0)
    <3> SUFFICES ASSUME NEW i \in Id
                 PROVE  FileWeight[i] <= RowWeight[i]
                                           + (IF i \in R THEN SegBytes ELSE 0)
      OBVIOUS
    <3>1. RowWeight[i] \in Nat
      BY <1>1, Weights DEF WeightFacts
    <3>2. CASE i \notin DOMAIN files
      BY <2>1, <3>1, <3>2 DEF FileWeight
    <3>3. CASE i \in DOMAIN files /\ i \in R
      BY <1>1, <2>1, <3>1, <3>3, Weights DEF FileWeight, WeightFacts
    <3>4. CASE i \in DOMAIN files /\ i \notin R
      <4>1. i \in DOMAIN rows /\ rows[i].size = files[i].size
        BY <1>1, <3>4 DEF FileInv, Paths, Sizes, RowsIn
      <4> QED
        BY <1>1, <2>1, <3>1, <3>4, <4>1, Weights
        DEF FileWeight, RowWeight, WeightFacts
    <3> QED
      BY <3>2, <3>3, <3>4
  <2>4. DiskBytes <= RowBytes + SegBytes * Cardinality(R)
    <3> HIDE DEF R
    <3> QED
      BY <1>1, <2>1, <2>2, <2>3, Weights, IdFinite, SumExceeds DEF WeightFacts
  <2>5. /\ SegBytes * Cardinality(R) <= SegBytes * Cardinality(Lost)
                                         + (IF Writing THEN SegBytes ELSE 0)
        /\ SegBytes * Cardinality(Lost) \in Nat
        /\ SegBytes * Cardinality(R) \in Nat
    <3>1. /\ IsFiniteSet(Lost) /\ Cardinality(Lost) \in Nat
          /\ IsFiniteSet(R) /\ Cardinality(R) \in Nat
      BY <1>1, <2>2, LeftFinite, IdFinite, FS_CardinalityType
    <3>2. /\ IsFiniteSet(Lost \cup {cur})
          /\ Cardinality(Lost \cup {cur}) =
               IF cur \in Lost THEN Cardinality(Lost) ELSE Cardinality(Lost) + 1
      BY <3>1, FS_AddElement
    <3>3. CASE Writing
      <4>1. R \subseteq Lost \cup {cur}
        BY DEF Lost
      <4>2. Cardinality(R) <= Cardinality(Lost) + 1
        BY <3>1, <3>2, <4>1, FS_Subset
      <4> QED
        BY <3>1, <3>3, <4>2, Times
    <3>4. CASE ~Writing
      <4>1. R = Lost
        BY <3>4 DEF Lost
      <4> QED
        BY <2>1, <3>1, <3>4, <4>1, Times
    <3> QED
      BY <3>3, <3>4
  <2>6. ~ (Writing /\ Pruning)
    BY <1>1 DEF Writing, Pruning
  <2>7. RowBytes + SegBytes * Cardinality(Lost)
          <= HighWater + SegBytes * (1 + crashes)
                + (IF Pruning THEN SegBytes ELSE 0)
    BY <1>1 DEF BytesInv, BoundInv
  <2>8. /\ SegBytes * (1 + crashes) \in Nat
        /\ (2 + crashes) * SegBytes = SegBytes * (1 + crashes) + SegBytes
    <3>1. 1 + crashes \in Nat /\ 2 + crashes = (1 + crashes) + 1
      BY <2>1
    <3>2. /\ SegBytes * (1 + crashes) \in Nat
          /\ SegBytes * ((1 + crashes) + 1) = SegBytes * (1 + crashes) + SegBytes
      BY <3>1, Times
    <3> QED
      BY <2>1, <3>1, <3>2
  <2>9. DiskBytes <= HighWater + SegBytes * (1 + crashes) + SegBytes
    <3>1. CASE Writing /\ ~Pruning
      BY <2>1, <2>4, <2>5, <2>7, <2>8, <3>1
    <3>2. CASE ~Writing
      BY <2>1, <2>4, <2>5, <2>7, <2>8, <3>2
    <3> QED
      BY <2>6, <3>1, <3>2
  <2> QED
    BY <2>1, <2>8, <2>9 DEF DiskBounded
<1> QED
  BY <1>1, BytesInvariant, PTL

\* The prune starts only above the high water and deletes a file only above the
\* low water, whatever the uploader has claimed, released or confirmed since the
\* prune read its total, and whatever files a crash has taken from their rows.
THEOREM PruneIsJustified ==
    ASSUME Healthy, LowWater <= HighWater
    PROVE  Spec => PruneNeverOverdeletes
<1> DEFINE Justified ==
      /\ cpc = "sum" /\ cpc' = "fetch" =>
           DiskBytes + crashes * SegBytes > HighWater
      /\ cpc = "unlink" /\ files' # files =>
           DiskBytes + crashes * SegBytes > LowWater
<1>1. ASSUME SafetyInv, BytesInv, [Next]_vars PROVE Justified
  <2> USE DEF SafetyInv, OwnInv, TypeInv
  <2>1. /\ crashes \in Nat /\ SegBytes \in Nat
        /\ HighWater \in Nat /\ LowWater \in Nat
        /\ RowBytes \in Nat /\ DiskBytes \in Nat
    BY <1>1, ConstantTypes, WaterMarks, Weights DEF WaterMarks, WeightFacts
  <2>2. ASSUME cpc # "delete" PROVE RowBytes <= DiskBytes + crashes * SegBytes
    <3>1. Ghosts \in SUBSET Id
      BY <1>1, Weights DEF WeightFacts, Ghosts
    <3>2. \A i \in Id :
            RowWeight[i] <= FileWeight[i] + (IF i \in Ghosts THEN SegBytes ELSE 0)
      <4> SUFFICES ASSUME NEW i \in Id
                   PROVE  RowWeight[i] <= FileWeight[i]
                                       + (IF i \in Ghosts THEN SegBytes ELSE 0)
        OBVIOUS
      <4>1. FileWeight[i] \in Nat
        BY <1>1, Weights DEF WeightFacts
      <4>2. CASE i \notin DOMAIN rows \/ (i \in DOMAIN rows /\ rows[i].size = 0)
        BY <2>1, <4>1, <4>2 DEF RowWeight
      <4>3. CASE i \in Ghosts /\ i \in DOMAIN rows
        BY <1>1, <2>1, <4>1, <4>3, Weights DEF RowWeight, WeightFacts
      <4>4. CASE i \in DOMAIN rows /\ i \notin Ghosts /\ rows[i].size # 0
        <5>1. i \in DOMAIN files /\ rows[i].size = files[i].size
          BY <1>1, <2>2, <4>4
          DEF BytesInv, RecordInv, Ghosts, FileInv, Sizes
        <5> QED
          BY <1>1, <2>1, <4>1, <4>4, <5>1, Weights
          DEF FileWeight, RowWeight, WeightFacts
      <4> QED
        BY <4>2, <4>3, <4>4
    <3>3. RowBytes <= DiskBytes + SegBytes * Cardinality(Ghosts)
      BY <1>1, <2>1, <3>1, <3>2, Weights, IdFinite, SumExceeds DEF WeightFacts
    <3>4. Cardinality(Ghosts) \in Nat /\ Cardinality(Ghosts) <= crashes
      BY <1>1, LeftFinite DEF BytesInv, CrashInv
    <3>5. /\ SegBytes * Cardinality(Ghosts) <= SegBytes * crashes
          /\ SegBytes * Cardinality(Ghosts) \in Nat /\ SegBytes * crashes \in Nat
      BY <2>1, <3>4, Times
    <3>6. crashes * SegBytes = SegBytes * crashes
      BY <2>1
    <3> QED
      BY <2>1, <3>3, <3>5, <3>6
  <2>3. ASSUME cpc = "sum", cpc' = "fetch"
        PROVE  DiskBytes + crashes * SegBytes > HighWater
    <3>1. VideoTotalSize > HighWater
      <4>1. PruneSum
        BY <1>1, <2>3
        DEF Next, ChildSteps, UploaderSteps, Shutdown, Exit, ChildCrash,
            ChildDies, DeviceCrash, EndChild, childVars, vars, ChildNext,
            ChildWork, ChildStart, BootRtmp, BootFile, RecvFrame, LeaveLoop,
            PushRtmp, PushRtmpFails, PushFile, PushFileFails, OpenSegment,
            InitOutput, InitOutputFails, UndoSegment, FinishSegment,
            PruneFetch, PruneUnlink, PruneDelete, RestoreRtmp, RotateSegment
      <4> QED
        BY <2>3, <4>1 DEF PruneSum, PruneDone, EndChild
    <3>2. VideoTotalSize \in Nat /\ VideoTotalSize <= RowBytes
      BY <1>1, TotalRead DEF BytesInv
    <3>3. crashes * SegBytes \in Nat
      BY <2>1
    <3> QED
      BY <2>1, <2>2, <2>3, <3>1, <3>2, <3>3
  <2>4. ASSUME cpc = "unlink"
        PROVE  DiskBytes + crashes * SegBytes > LowWater
    <3>1. total \in Nat /\ total > HighWater /\ total <= RowBytes
      BY <1>1, <2>4 DEF BytesInv, TotalInv
    <3>2. crashes * SegBytes \in Nat
      BY <2>1
    <3> QED
      BY <2>1, <2>2, <2>4, <3>1, <3>2
  <2> QED
    BY <2>3, <2>4
<1>2. ASSUME SafetyInv, BytesInv, UNCHANGED vars PROVE Justified
  BY <1>1, <1>2
<1>3. SafetyInv /\ BytesInv /\ [Next]_vars => [Justified]_vars
  BY <1>1
<1> QED
  BY <1>3, BytesInvariant, PTL DEF Spec, PruneNeverOverdeletes
=============================================================================
