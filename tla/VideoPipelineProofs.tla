------------------------ MODULE VideoPipelineProofs ------------------------
(***************************************************************************)
(* Theorems about VideoPipeline, for every number of segments, every pair  *)
(* of water marks and every number of crashes: its types, and that it      *)
(* implements SegmentLifecycle.                                            *)
(***************************************************************************)
EXTENDS VideoPipeline, TLAPS

LEMMA ConstantTypes ==
    /\ MaxSegments \in Nat
    /\ SegBytes \in Nat /\ SegBytes > 0
    /\ MaxCrashes \in Nat
BY TableConstants, CrashBound DEF TableConstants, CrashBound

-----------------------------------------------------------------------------
(* Types.  The flags are kept apart from the rest: the provers that reason *)
(* about numbers and records and those that reason about truth values are  *)
(* not the same.                                                           *)

Flags ==
    /\ storeReady \in BOOLEAN
    /\ frame \in BOOLEAN
    /\ stop \in BOOLEAN

ChildDataOK ==
    /\ cpc \in ChildPC
    /\ mode \in {"rtmp", "file"}
    /\ cur \in 0..MaxSegments
    /\ curPath \in 0..MaxSegments
    /\ victim \in Victim

UploaderDataOK ==
    /\ upc \in UploaderPC
    /\ seg \in Segment
    /\ body \in [by : Id, size : 0..SegBytes] \cup {NoBody}
    /\ server \subseteq Upload

\* The child has a segment of its own: registered and not yet finished.
Writing ==
    \/ cpc \in {"init", "undo"}
    \/ mode = "file" /\ cpc \in {"recv", "push", "close"}

\* The uploader has a segment in its hands.
Holding == upc \in {"mark", "post", "sending", "uploaded", "retry"}

\* What the types need to be inductive: which program counters come with a
\* segment, and that a push finds room in the child's own file.
ChildControl ==
    /\ cpc \in {"down", "boot"} => mode = "rtmp"
    /\ cpc \in {"close", "sum", "fetch", "unlink", "delete"} => mode = "file"
    /\ Writing => cur \in Id /\ curPath \in Second
    /\ cpc = "push" /\ mode = "file" =>
          (curPath \in DOMAIN files /\ files[curPath].by = cur
              => files[curPath].size < SegBytes)
    /\ cpc \in {"unlink", "delete"} => victim.id \in Id

UploaderControl ==
    /\ Holding => seg.id \in Id
    /\ upc = "sending" => body.by \in Id

ChildData == ChildDataOK /\ ChildControl
UploaderData == UploaderDataOK /\ UploaderControl

TypeInv ==
    /\ TableTypeOK
    /\ ChildData
    /\ UploaderData
    /\ Flags
    /\ crashes \in 0..MaxCrashes

LEMMA TypeInvImpliesTypeOK == TypeInv => TypeOK
BY Zenon
DEF TypeInv, TypeOK, ChildData, ChildDataOK, ChildTypeOK, UploaderData,
    UploaderDataOK, UploaderTypeOK, Flags

LEMMA TypeInit == Init => TypeInv
<1> SUFFICES ASSUME Init PROVE TypeInv
  OBVIOUS
<1>1. TableTypeOK
  BY ConstantTypes DEF Init, EmptyTable, TableTypeOK
<1>2. ChildData
  BY ConstantTypes
  DEF Init, ChildInit, ChildData, ChildDataOK, ChildControl, Writing, ChildPC,
      Victim
<1>3. UploaderData
  BY DEF Init, UploaderInit, UploaderData, UploaderDataOK, UploaderControl,
         UploaderPC, Segment, Holding
<1>4. Flags
  BY Zenon DEF Init, ChildInit, UploaderInit, Flags
<1>5. crashes \in 0..MaxCrashes
  BY ConstantTypes DEF Init
<1> QED
  BY <1>1, <1>2, <1>3, <1>4, <1>5 DEF TypeInv

LEMMA FlagsStep ==
    ASSUME Flags, [Next]_vars
    PROVE  Flags'
<1>1. Outcome \subseteq BOOLEAN
  BY Zenon DEF Outcome
<1>2. ASSUME EndChild PROVE storeReady' \in BOOLEAN /\ frame' \in BOOLEAN
  BY <1>2, Zenon DEF EndChild
<1>3. ASSUME PruneDone PROVE storeReady' \in BOOLEAN /\ frame' \in BOOLEAN
  BY <1>2, <1>3, Zenon DEF PruneDone, Flags
<1>4. CASE UNCHANGED vars
  BY <1>4, Zenon DEF vars, childVars, uploaderVars, Flags
<1>5. CASE ChildSteps
  <2>1. UNCHANGED stop
    BY <1>5, Zenon DEF ChildSteps, uploaderVars
  <2>2. storeReady' \in BOOLEAN /\ frame' \in BOOLEAN
    <3>1. CASE ChildStart \/ BootRtmp \/ BootFile \/ RecvFrame \/ LeaveLoop
      BY <1>1, <1>2, <3>1, Zenon
      DEF Flags, ChildStart, BootRtmp, BootFile, RecvFrame, LeaveLoop
    <3>2. CASE PushRtmp \/ PushRtmpFails \/ PushFile \/ PushFileFails
      BY <1>2, <3>2, Zenon
      DEF Flags, PushRtmp, PushRtmpFails, PushFile, PushFileFails
    <3>3. CASE OpenSegment \/ InitOutput \/ InitOutputFails \/ UndoSegment
      BY <1>2, <3>3, Zenon
      DEF Flags, OpenSegment, InitOutput, InitOutputFails, UndoSegment
    <3>4. CASE FinishSegment \/ PruneSum \/ PruneFetch
      BY <1>3, <3>4, Zenon DEF Flags, FinishSegment, PruneSum, PruneFetch
    <3>5. CASE PruneUnlink \/ PruneDelete \/ RestoreRtmp \/ RotateSegment
      BY <1>3, <3>5, Zenon
      DEF Flags, PruneUnlink, PruneDelete, RestoreRtmp, RotateSegment
    <3> QED
      BY <1>5, <3>1, <3>2, <3>3, <3>4, <3>5, Zenon
      DEF ChildSteps, ChildNext, ChildWork
  <2> QED
    BY <2>1, <2>2, Zenon DEF Flags
<1>6. CASE UploaderSteps
  <2>1. UNCHANGED <<storeReady, frame>>
    BY <1>6, Zenon DEF UploaderSteps, childVars
  <2>2. UNCHANGED stop
    BY <1>6, Zenon
    DEF UploaderSteps, UploaderNext, UploaderWork, UploaderStart,
        UploaderReset, FetchPending, ClaimSegment, PostFile, ServerAccepts,
        UploadFails, ConfirmUpload, ReleaseSegment, UploaderWait
  <2> QED
    BY <2>1, <2>2, Zenon DEF Flags
<1>7. CASE Shutdown
  BY <1>7, Zenon DEF Shutdown, StopRequest, childVars, Flags
<1>8. CASE ChildCrash
  BY <1>2, <1>8, Zenon DEF ChildCrash, ChildDies, uploaderVars, Flags
<1>9. CASE DeviceCrash
  BY <1>2, <1>9, Zenon DEF DeviceCrash, UploaderDies, Flags
<1>10. CASE Exit
  BY <1>10, Zenon DEF Exit, UploaderDies, childVars, Flags
<1> QED
  BY <1>4, <1>5, <1>6, <1>7, <1>8, <1>9, <1>10, Zenon DEF Next

-----------------------------------------------------------------------------
(* What the operators of SegmentTable do to its types.                     *)

LEMMA RegisterTyped ==
    ASSUME TableTypeOK, NEW t \in Second, lastId < MaxSegments,
           RegisterSegment(t), UNCHANGED files
    PROVE  TableTypeOK'
BY ConstantTypes DEF TableTypeOK, RegisterSegment, Row, SegmentState, Id, Second

LEMMA StartTyped == TableTypeOK /\ lastId < MaxSegments => StartTimes \subseteq Second
BY ConstantTypes DEF TableTypeOK, StartTimes, Second

LEMMA UpdateTyped ==
    ASSUME TableTypeOK, NEW id, NEW size \in 0..SegBytes,
           NEW st \in SegmentState, UpdateSegment(id, size, st),
           UNCHANGED <<lastId, files>>
    PROVE  TableTypeOK'
BY DEF TableTypeOK, UpdateSegment, Row

LEMMA SetStateTyped ==
    ASSUME TableTypeOK, NEW S, NEW st \in SegmentState, SetState(S, st),
           UNCHANGED <<lastId, files>>
    PROVE  TableTypeOK'
BY DEF TableTypeOK, SetState, Row

LEMMA DeleteTyped ==
    ASSUME TableTypeOK, NEW id, DeleteSegment(id), UNCHANGED <<lastId, files>>
    PROVE  TableTypeOK'
BY DEF TableTypeOK, DeleteSegment

LEMMA CreateTyped ==
    ASSUME TableTypeOK, NEW p \in Second, NEW id \in Id, CreateFile(p, id),
           UNCHANGED <<rows, lastId>>
    PROVE  TableTypeOK'
BY ConstantTypes DEF TableTypeOK, CreateFile, Content

LEMMA AppendTyped ==
    ASSUME TableTypeOK, NEW p, NEW id, AppendFile(p, id),
           UNCHANGED <<rows, lastId>>,
           p \in DOMAIN files /\ files[p].by = id => files[p].size < SegBytes
    PROVE  TableTypeOK'
BY ConstantTypes DEF TableTypeOK, AppendFile, Content

LEMMA SpoilTyped ==
    ASSUME TableTypeOK, NEW p, NEW id, SpoilFile(p, id), UNCHANGED <<rows, lastId>>
    PROVE  TableTypeOK'
BY DEF TableTypeOK, SpoilFile, Content

LEMMA UnlinkTyped ==
    ASSUME TableTypeOK, NEW p, UnlinkFile(p), UNCHANGED <<rows, lastId>>
    PROVE  TableTypeOK'
BY DEF TableTypeOK, UnlinkFile

LEMMA FileSizeTyped ==
    ASSUME TableTypeOK, NEW p PROVE FileSize(p) \in 0..SegBytes
BY ConstantTypes DEF TableTypeOK, FileSize, Content

LEMMA TableStutter ==
    ASSUME TableTypeOK, UNCHANGED tableVars PROVE TableTypeOK'
BY DEF TableTypeOK, tableVars

-----------------------------------------------------------------------------
(* The types are kept by every step.                                       *)

LEMMA EndChildTyped == EndChild => ChildData'
BY ConstantTypes
DEF EndChild, ChildData, ChildDataOK, ChildControl, Writing, ChildPC, Victim

LEMMA PruneDoneTyped ==
    ASSUME ChildData, PruneDone PROVE ChildData'
<1>1. CASE frame
  BY <1>1, ConstantTypes
  DEF PruneDone, ChildData, ChildDataOK, ChildControl, Writing, ChildPC, Victim
<1>2. CASE ~frame
  BY <1>2, EndChildTyped DEF PruneDone
<1> QED
  BY <1>1, <1>2

LEMMA ChildTyped ==
    ASSUME TableTypeOK, ChildData, ChildNext
    PROVE  TableTypeOK' /\ ChildData'
<1> USE DEF ChildData, ChildDataOK, ChildControl, Writing, ChildPC
<1>1. CASE ChildStart
  BY <1>1, TableStutter DEF ChildStart, tableVars
<1>2. CASE BootRtmp
  BY <1>2, TableStutter DEF BootRtmp, tableVars
<1>3. CASE BootFile
  BY <1>3, TableStutter, EndChildTyped DEF BootFile, tableVars
<1>4. CASE RecvFrame
  BY <1>4, TableStutter DEF RecvFrame, tableVars, FileSize
<1>5. CASE LeaveLoop
  BY <1>5, TableStutter, EndChildTyped DEF LeaveLoop, tableVars
<1>6. CASE PushRtmp
  BY <1>6, TableStutter DEF PushRtmp, tableVars
<1>7. CASE PushRtmpFails
  BY <1>7, TableStutter, EndChildTyped DEF PushRtmpFails, tableVars
<1>8. CASE PushFile
  <2>1. TableTypeOK'
    BY <1>8, AppendTyped DEF PushFile
  <2> QED
    BY <1>8, <2>1 DEF PushFile
<1>9. CASE PushFileFails
  <2>1. TableTypeOK'
    BY <1>9, SpoilTyped DEF PushFileFails
  <2> QED
    BY <1>9, <2>1 DEF PushFileFails
<1>10. CASE OpenSegment
  <2>1. CASE EndChild /\ UNCHANGED tableVars
    BY <2>1, EndChildTyped, TableStutter
  <2>2. CASE lastId < MaxSegments
              /\ (\E start \in StartTimes :
                     RegisterSegment(start) /\ curPath' = start)
              /\ cur' = lastId + 1 /\ cpc' = "init"
              /\ UNCHANGED <<files, mode, storeReady, frame, total, victim>>
    <3>1. PICK start \in StartTimes :
             RegisterSegment(start) /\ curPath' = start
      BY <2>2
    <3>2. start \in Second
      BY <2>2, <3>1, StartTyped
    <3>3. TableTypeOK'
      BY <2>2, <3>1, <3>2, RegisterTyped
    <3> QED
      BY <2>2, <3>1, <3>2, <3>3, ConstantTypes DEF TableTypeOK, Id, Second
  <2> QED
    BY <1>10, <2>1, <2>2 DEF OpenSegment
<1>11. CASE InitOutput
  <2>1. TableTypeOK'
    BY <1>11, CreateTyped DEF InitOutput
  <2> QED
    BY <1>11, <2>1, ConstantTypes DEF InitOutput, CreateFile
<1>12. CASE InitOutputFails
  <2>1. TableTypeOK'
    BY <1>12, CreateTyped, TableStutter DEF InitOutputFails, tableVars
  <2> QED
    BY <1>12, <2>1 DEF InitOutputFails
<1>13. CASE UndoSegment
  <2>1. TableTypeOK'
    BY <1>13, DeleteTyped, TableStutter DEF UndoSegment, tableVars
  <2> QED
    BY <1>13, <2>1, EndChildTyped DEF UndoSegment
<1>14. CASE FinishSegment
  <2>1. TableTypeOK'
    <3>1. 0 \in 0..SegBytes /\ FileSize(curPath) \in 0..SegBytes
      BY ConstantTypes, FileSizeTyped
    <3>2. "pending" \in SegmentState
      BY DEF SegmentState
    <3>3. CASE \E size \in 0..SegBytes : UpdateSegment(cur, size, "pending")
      BY <1>14, <3>2, <3>3, UpdateTyped DEF FinishSegment
    <3>4. CASE UNCHANGED rows
      BY <1>14, <3>4, TableStutter DEF FinishSegment, tableVars
    <3> QED
      BY <1>14, <3>1, <3>3, <3>4 DEF FinishSegment
  <2> QED
    BY <1>14, <2>1 DEF FinishSegment
<1>15. CASE PruneSum
  BY <1>15, TableStutter, PruneDoneTyped DEF PruneSum, tableVars
<1>16. CASE PruneFetch
  <2>1. TableTypeOK'
    BY <1>16, TableStutter DEF PruneFetch, tableVars
  <2>2. CASE PruneDone
    BY <2>1, <2>2, PruneDoneTyped
  <2>3. CASE ~PruneDone
    <3>1. PICK i \in OldestPrunable :
             victim' = [id |-> i, start |-> rows[i].start,
                        size |-> rows[i].size]
      BY <1>16, <2>3 DEF PruneFetch
    <3>2. i \in Id /\ rows[i] \in Row
      BY <3>1, ConstantTypes DEF OldestPrunable, Oldest, RowsIn, TableTypeOK, Id
    <3>3. victim' \in Victim /\ victim'.id \in Id
      BY <3>1, <3>2 DEF Victim, Row
    <3> QED
      BY <1>16, <2>1, <2>3, <3>3 DEF PruneFetch
  <2> QED
    BY <2>2, <2>3
<1>17. CASE PruneUnlink
  <2>1. TableTypeOK'
    BY <1>17, UnlinkTyped, TableStutter DEF PruneUnlink, tableVars
  <2> QED
    BY <1>17, <2>1, PruneDoneTyped DEF PruneUnlink
<1>18. CASE PruneDelete
  <2>1. TableTypeOK'
    BY <1>18, DeleteTyped, TableStutter DEF PruneDelete, tableVars
  <2>2. NoVictim \in Victim
    BY DEF Victim
  <2> QED
    BY <1>18, <2>1, <2>2, PruneDoneTyped DEF PruneDelete
<1>19. CASE RestoreRtmp
  BY <1>19, TableStutter DEF RestoreRtmp, tableVars
<1>20. CASE RotateSegment
  BY <1>20, TableStutter DEF RotateSegment, tableVars
<1> QED
  BY <1>1, <1>2, <1>3, <1>4, <1>5, <1>6, <1>7, <1>8, <1>9, <1>10, <1>11,
     <1>12, <1>13, <1>14, <1>15, <1>16, <1>17, <1>18, <1>19, <1>20
  DEF ChildNext, ChildWork

LEMMA UploaderTyped ==
    ASSUME TableTypeOK, UploaderData, UploaderNext
    PROVE  TableTypeOK' /\ UploaderData'
<1> USE DEF UploaderData, UploaderDataOK, UploaderControl, Holding, UploaderPC
<1>0. {"pending", "uploading", "uploaded"} \subseteq SegmentState
  BY DEF SegmentState
<1>1. CASE UploaderStart
  BY <1>1, TableStutter DEF UploaderStart, tableVars
<1>2. CASE UploaderReset
  <2>1. TableTypeOK'
    BY <1>0, <1>2, SetStateTyped, TableStutter
    DEF UploaderReset, ResetUploading, tableVars
  <2> QED
    BY <1>2, <2>1 DEF UploaderReset
<1>3. CASE FetchPending
  <2>1. TableTypeOK'
    BY <1>3, TableStutter DEF FetchPending, tableVars
  <2>2. CASE \E i \in OldestPending : seg' = [id |-> i, start |-> rows[i].start]
    <3>1. PICK i \in OldestPending : seg' = [id |-> i, start |-> rows[i].start]
      BY <2>2
    <3>2. i \in Id /\ rows[i] \in Row
      BY <3>1, ConstantTypes DEF OldestPending, Oldest, RowsIn, TableTypeOK, Id
    <3>3. seg' \in Segment /\ seg'.id \in Id
      BY <3>1, <3>2 DEF Segment, Row
    <3> QED
      BY <1>3, <2>1, <3>3 DEF FetchPending
  <2>3. CASE upc' \in {"idle", "backoff"} /\ UNCHANGED seg
    BY <1>3, <2>1, <2>3 DEF FetchPending
  <2> QED
    BY <1>3, <2>2, <2>3 DEF FetchPending
<1>4. CASE ClaimSegment
  <2>1. TableTypeOK'
    BY <1>0, <1>4, SetStateTyped, TableStutter
    DEF ClaimSegment, MarkUploading, tableVars
  <2> QED
    BY <1>4, <2>1 DEF ClaimSegment
<1>5. CASE PostFile
  <2>1. TableTypeOK'
    BY <1>5, TableStutter DEF PostFile, tableVars
  <2>2. seg.start \in DOMAIN files => files[seg.start] \in Content
    BY DEF TableTypeOK
  <2> QED
    BY <1>5, <2>1, <2>2 DEF PostFile, Content
<1>6. CASE ServerAccepts \/ UploadFails
  <2>1. TableTypeOK'
    BY <1>6, TableStutter DEF ServerAccepts, UploadFails, tableVars
  <2>2. upc = "sending"
    BY <1>6 DEF ServerAccepts, UploadFails
  <2>3. body.by \in Id /\ body.size \in 0..SegBytes
    BY <2>2, ConstantTypes DEF NoBody, Id
  <2>4. Accept => server' \subseteq Upload
    BY <2>2, <2>3 DEF Accept, Upload
  <2> QED
    BY <1>6, <2>1, <2>4 DEF ServerAccepts, UploadFails, NoBody
<1>7. CASE ConfirmUpload
  <2>1. TableTypeOK'
    BY <1>0, <1>7, SetStateTyped, TableStutter
    DEF ConfirmUpload, MarkUploaded, tableVars
  <2> QED
    BY <1>7, <2>1 DEF ConfirmUpload, AfterUpdate, Segment
<1>8. CASE ReleaseSegment
  <2>1. TableTypeOK'
    BY <1>0, <1>8, SetStateTyped, TableStutter
    DEF ReleaseSegment, MarkRetry, tableVars
  <2> QED
    BY <1>8, <2>1 DEF ReleaseSegment, AfterUpdate, Segment
<1>9. CASE UploaderWait
  BY <1>9, TableStutter DEF UploaderWait, Segment, tableVars
<1> QED
  BY <1>1, <1>2, <1>3, <1>4, <1>5, <1>6, <1>7, <1>8, <1>9
  DEF UploaderNext, UploaderWork

LEMMA UploaderDiesTyped ==
    ASSUME UploaderData, UploaderDies PROVE UploaderData'
BY DEF UploaderDies, UploaderData, UploaderDataOK, UploaderControl, Holding,
       UploaderPC, Segment

\* A part keeps its types when only the other part moves.
LEMMA ChildStays ==
    ASSUME ChildData, UNCHANGED <<childVars, files>> PROVE ChildData'
BY DEF childVars, ChildData, ChildDataOK, ChildControl, Writing

LEMMA UploaderStays ==
    ASSUME UploaderData, UNCHANGED uploaderVars PROVE UploaderData'
BY DEF uploaderVars, UploaderData, UploaderDataOK, UploaderControl, Holding

LEMMA UploaderKeepsFiles == UploaderNext => UNCHANGED files
BY DEF UploaderNext, UploaderWork, UploaderStart, UploaderReset, FetchPending,
       ClaimSegment, PostFile, ServerAccepts, UploadFails, ConfirmUpload,
       ReleaseSegment, UploaderWait, tableVars

LEMMA TypeStep ==
    ASSUME TypeInv, [Next]_vars
    PROVE  TypeInv'
<1> USE DEF TypeInv
<1>0. Flags'
  BY FlagsStep
<1>1. CASE UNCHANGED vars
  BY <1>0, <1>1, TableStutter, ChildStays, UploaderStays DEF vars, tableVars
<1>2. CASE ChildSteps
  BY <1>0, <1>2, ChildTyped, UploaderStays DEF ChildSteps
<1>3. CASE UploaderSteps
  BY <1>0, <1>3, UploaderTyped, ChildStays, UploaderKeepsFiles
  DEF UploaderSteps
<1>4. CASE Shutdown
  <2>1. TableTypeOK' /\ ChildData'
    BY <1>4, TableStutter, ChildStays DEF Shutdown, StopRequest, tableVars
  <2>2. UploaderData'
    BY <1>4
    DEF Shutdown, StopRequest, UploaderData, UploaderDataOK, UploaderControl,
        Holding
  <2> QED
    BY <1>0, <1>4, <2>1, <2>2 DEF Shutdown
<1>5. CASE ChildCrash
  BY <1>0, <1>5, TableStutter, EndChildTyped, UploaderStays, ConstantTypes
  DEF ChildCrash, ChildDies
<1>6. CASE DeviceCrash
  <2>1. TableTypeOK'
    BY <1>6, TableStutter DEF DeviceCrash, UploaderDies, tableVars
  <2>2. ChildData' /\ UploaderData'
    BY <1>6, EndChildTyped, UploaderDiesTyped DEF DeviceCrash
  <2>3. (crashes \in 0..MaxCrashes)'
    BY <1>6, ConstantTypes DEF DeviceCrash
  <2> QED
    BY <1>0, <2>1, <2>2, <2>3
<1>7. CASE Exit
  BY <1>0, <1>7, TableStutter, ChildStays, UploaderDiesTyped
  DEF Exit, UploaderDies, tableVars
<1> QED
  BY <1>1, <1>2, <1>3, <1>4, <1>5, <1>6, <1>7 DEF Next

\* Every state of the pipeline is well typed: in particular no file outgrows a
\* segment and no child finishes, undoes or prunes a segment it does not have.
THEOREM TypeCorrect == Spec => []TypeOK
<1>1. Init => TypeInv
  BY TypeInit
<1>2. TypeInv /\ [Next]_vars => TypeInv'
  BY TypeStep
<1>3. TypeInv => TypeOK
  BY TypeInvImpliesTypeOK
<1> QED
  BY <1>1, <1>2, <1>3, PTL DEF Spec

-----------------------------------------------------------------------------
(* VideoPipeline implements SegmentLifecycle: with failing statements, a   *)
(* wall clock that steps back, and crashes anywhere.                       *)

\* Who may move which row.  The child alone moves the row it writes, and the
\* row is recording until it has; the uploader alone moves the row in its
\* hands, if the prune has left it; the prune's victim is never being recorded.
OwnChild ==
    /\ \A i \in DOMAIN rows : rows[i].state # "broken"
    /\ Writing => cur \in DOMAIN rows /\ rows[cur].state = "recording"
    /\ cpc \in {"unlink", "delete"} =>
          /\ victim.id \in 1..lastId
          /\ victim.id \in DOMAIN rows => rows[victim.id].state # "recording"

OwnUploader ==
    /\ Holding => seg.id \in 1..lastId
    /\ upc = "mark" =>
          (seg.id \in DOMAIN rows => rows[seg.id].state = "pending")
    /\ Holding /\ upc # "mark" =>
          (seg.id \in DOMAIN rows => rows[seg.id].state = "uploading")
    /\ upc = "uploaded" => seg.id \in Stored

OwnInv == TypeInv /\ OwnChild /\ OwnUploader

-----------------------------------------------------------------------------
(* What a statement on the table does to the lives.                        *)

Become(S, l) == LifeOf' = [i \in Id |-> IF i \in S THEN l ELSE LifeOf[i]]

LEMMA SameLives ==
    ASSUME UNCHANGED <<rows, lastId>> PROVE UNCHANGED LifeOf
BY DEF LifeOf

LEMMA RegisterLives ==
    ASSUME TableTypeOK, NEW t, lastId < MaxSegments, RegisterSegment(t)
    PROVE  /\ LifeOf[lastId + 1] = "none"
           /\ \A j \in Id : j < lastId + 1 => LifeOf[j] # "none"
           /\ Become({lastId + 1}, "recording")
BY ConstantTypes
DEF TableTypeOK, RegisterSegment, LifeOf, Become, Id, Row, SegmentState

LEMMA SetStateLives ==
    ASSUME TableTypeOK, NEW S \in SUBSET DOMAIN rows, NEW st,
           SetState(S, st), UNCHANGED lastId
    PROVE  Become(S, st)
BY ConstantTypes DEF TableTypeOK, SetState, LifeOf, Become, Id, Row

LEMMA SetStateMisses ==
    ASSUME TableTypeOK, NEW id, id \notin DOMAIN rows, NEW st,
           SetState({id}, st), UNCHANGED lastId
    PROVE  UNCHANGED LifeOf
BY ConstantTypes DEF TableTypeOK, SetState, LifeOf, Id

LEMMA UpdateLives ==
    ASSUME TableTypeOK, NEW id \in DOMAIN rows, NEW size, NEW st,
           UpdateSegment(id, size, st), UNCHANGED lastId
    PROVE  Become({id}, st)
BY ConstantTypes DEF TableTypeOK, UpdateSegment, LifeOf, Become, Id, Row

LEMMA DeleteLives ==
    ASSUME TableTypeOK, NEW id \in DOMAIN rows, DeleteSegment(id),
           UNCHANGED lastId
    PROVE  Become({id}, "deleted")
BY ConstantTypes DEF TableTypeOK, DeleteSegment, LifeOf, Become, Id

LEMMA DeleteMisses ==
    ASSUME TableTypeOK, NEW id, id \notin DOMAIN rows, DeleteSegment(id),
           UNCHANGED lastId
    PROVE  UNCHANGED LifeOf
BY ConstantTypes DEF TableTypeOK, DeleteSegment, LifeOf, Id

LEMMA LifeOfRow ==
    ASSUME TableTypeOK, NEW i \in DOMAIN rows
    PROVE  i \in Id /\ LifeOf[i] = rows[i].state
BY ConstantTypes DEF TableTypeOK, LifeOf, Id

-----------------------------------------------------------------------------
(* OwnInv is inductive.                                                    *)

LEMMA OwnInit == Init => OwnChild /\ OwnUploader
BY DEF Init, EmptyTable, ChildInit, UploaderInit, OwnChild, OwnUploader,
       Writing, Holding

LEMMA EndChildOwn ==
    ASSUME EndChild,
           \A i \in DOMAIN rows' : rows'[i].state # "broken"
    PROVE  OwnChild'
BY DEF EndChild, OwnChild, Writing

LEMMA PruneDoneOwn ==
    ASSUME PruneDone, ~Writing,
           \A i \in DOMAIN rows' : rows'[i].state # "broken"
    PROVE  OwnChild'
BY EndChildOwn DEF PruneDone, OwnChild, Writing

\* The uploader's part only asks of the table that the row in its hands keeps
\* its state or goes.
LEMMA UploaderOwnStays ==
    ASSUME OwnUploader, UNCHANGED uploaderVars, TableTypeOK,
           lastId \in Int, lastId' \in Int, lastId <= lastId',
           \A i \in DOMAIN rows' :
              i \in 1..lastId =>
                 i \in DOMAIN rows
                 /\ (rows[i].state \in {"pending", "uploading"} =>
                        rows'[i].state = rows[i].state)
    PROVE  OwnUploader'
BY DEF OwnUploader, uploaderVars, Holding, Stored

LEMMA ChildOwn ==
    ASSUME OwnInv, ChildNext, UNCHANGED uploaderVars
    PROVE  OwnChild' /\ OwnUploader'
<1> USE DEF OwnInv, TypeInv
<1>a. lastId \in Int /\ DOMAIN rows \subseteq 1..lastId
  BY ConstantTypes DEF TableTypeOK
<1>b. ASSUME UNCHANGED <<rows, lastId>> PROVE OwnUploader'
  BY <1>a, <1>b, UploaderOwnStays
<1>1. CASE ChildStart \/ BootRtmp \/ RestoreRtmp \/ RotateSegment
  BY <1>1, <1>b
  DEF ChildStart, BootRtmp, RestoreRtmp, RotateSegment, ChildData,
      ChildControl, OwnChild, Writing, tableVars
<1>2. CASE BootFile \/ LeaveLoop \/ PushRtmpFails
  BY <1>2, <1>b, EndChildOwn
  DEF BootFile, LeaveLoop, PushRtmpFails, OwnChild, Writing, tableVars
<1>3. CASE RecvFrame \/ PushRtmp \/ PushFile \/ PushFileFails
  BY <1>3, <1>b
  DEF RecvFrame, PushRtmp, PushFile, PushFileFails, OwnChild, Writing,
      tableVars
<1>4. CASE OpenSegment
  <2>1. CASE EndChild /\ UNCHANGED tableVars
    BY <2>1, <1>b, EndChildOwn DEF OwnChild, tableVars
  <2>2. CASE (\E start \in StartTimes : RegisterSegment(start))
              /\ cur' = lastId + 1 /\ cpc' = "init"
    <3>1. PICK start \in StartTimes : RegisterSegment(start)
      BY <2>2
    <3>2. OwnUploader'
      BY <1>a, <3>1, UploaderOwnStays DEF RegisterSegment
    <3>3. OwnChild'
      BY <2>2, <1>a, <3>1 DEF RegisterSegment, OwnChild, Writing
    <3> QED
      BY <3>2, <3>3
  <2> QED
    BY <1>4, <2>1, <2>2 DEF OpenSegment
<1>5. CASE InitOutput \/ InitOutputFails
  BY <1>5, <1>b DEF InitOutput, InitOutputFails, OwnChild, Writing
<1>6. CASE UndoSegment
  <2>1. CASE DeleteSegment(cur)
    <3>1. OwnUploader'
      BY <1>6, <1>a, <2>1, UploaderOwnStays DEF UndoSegment, DeleteSegment
    <3>2. OwnChild'
      BY <1>6, <2>1, EndChildOwn DEF UndoSegment, DeleteSegment, OwnChild
    <3> QED
      BY <3>1, <3>2
  <2>2. CASE UNCHANGED rows
    BY <1>6, <1>b, <2>2, EndChildOwn DEF UndoSegment, OwnChild
  <2> QED
    BY <1>6, <2>1, <2>2 DEF UndoSegment
<1>7. CASE FinishSegment
  <2>0. cpc = "close" /\ cpc' = "sum" /\ UNCHANGED lastId
    BY <1>7 DEF FinishSegment
  <2>1. CASE \E size \in 0..SegBytes : UpdateSegment(cur, size, "pending")
    <3>0. PICK size \in 0..SegBytes : UpdateSegment(cur, size, "pending")
      BY <2>1
    <3>1. mode = "file"
      BY <2>0 DEF ChildData, ChildControl
    <3>2. cur \in DOMAIN rows /\ rows[cur].state = "recording"
      BY <2>0, <3>1 DEF OwnChild, Writing
    <3>3. /\ DOMAIN rows' = DOMAIN rows
          /\ \A i \in DOMAIN rows : i # cur => rows'[i] = rows[i]
      BY <3>0 DEF UpdateSegment
    <3>4. OwnUploader'
      BY <1>a, <2>0, <3>2, <3>3, UploaderOwnStays
    <3>5. OwnChild'
      BY <2>0, <3>0 DEF UpdateSegment, OwnChild, Writing, TableTypeOK, Row
    <3> QED
      BY <3>4, <3>5
  <2>2. CASE UNCHANGED rows
    BY <1>b, <2>0, <2>2 DEF OwnChild, Writing
  <2>3. 0 \in 0..SegBytes /\ FileSize(curPath) \in 0..SegBytes
    BY ConstantTypes, FileSizeTyped
  <2> QED
    BY <1>7, <2>1, <2>2, <2>3 DEF FinishSegment
<1>8. CASE PruneSum
  BY <1>8, <1>b, PruneDoneOwn DEF PruneSum, OwnChild, Writing, tableVars
<1>9. CASE PruneFetch
  <2>1. OwnUploader' /\ UNCHANGED <<rows, lastId>> /\ cpc = "fetch"
    BY <1>9, <1>b DEF PruneFetch, tableVars
  <2>2. CASE PruneDone
    BY <2>1, <2>2, PruneDoneOwn DEF OwnChild, Writing
  <2>3. CASE ~PruneDone
    <3>1. PICK i \in OldestPrunable :
             victim' = [id |-> i, start |-> rows[i].start,
                        size |-> rows[i].size]
      BY <1>9, <2>3 DEF PruneFetch
    <3>2. i \in DOMAIN rows /\ rows[i].state # "recording"
      BY <3>1 DEF OldestPrunable, Oldest, RowsIn
    <3> QED
      BY <1>9, <1>a, <2>1, <2>3, <3>1, <3>2 DEF PruneFetch, OwnChild, Writing
  <2> QED
    BY <2>2, <2>3
<1>10. CASE PruneUnlink
  BY <1>10, <1>b, PruneDoneOwn DEF PruneUnlink, OwnChild, Writing
<1>11. CASE PruneDelete
  <2>1. CASE DeleteSegment(victim.id)
    <3>1. OwnUploader'
      BY <1>11, <1>a, <2>1, UploaderOwnStays DEF PruneDelete, DeleteSegment
    <3>2. \A i \in DOMAIN rows' : rows'[i].state # "broken"
      BY <2>1 DEF DeleteSegment, OwnChild
    <3>3. OwnChild'
      BY <1>11, <3>2, PruneDoneOwn DEF PruneDelete, OwnChild, Writing
    <3> QED
      BY <3>1, <3>3
  <2>2. CASE UNCHANGED rows /\ PruneDone
    BY <1>11, <1>b, <2>2, PruneDoneOwn DEF PruneDelete, OwnChild, Writing
  <2> QED
    BY <1>11, <2>1, <2>2 DEF PruneDelete
<1> QED
  BY <1>1, <1>2, <1>3, <1>4, <1>5, <1>6, <1>7, <1>8, <1>9, <1>10, <1>11
  DEF ChildNext, ChildWork

\* The child's part only asks of the uploader that it leaves recording rows
\* alone and makes none.
ChildRowsKept ==
    /\ UNCHANGED <<childVars, lastId>>
    /\ DOMAIN rows' = DOMAIN rows
    /\ \A i \in DOMAIN rows :
          \/ rows'[i] = rows[i]
          \/ /\ rows[i].state # "recording"
             /\ rows'[i].state \in {"pending", "uploading", "uploaded"}

LEMMA ChildOwnStays ==
    ASSUME OwnChild, ChildRowsKept
    PROVE  OwnChild'
BY DEF OwnChild, ChildRowsKept, childVars, Writing

LEMMA SetStateKept ==
    ASSUME TableTypeOK, NEW S, NEW st \in {"pending", "uploading", "uploaded"},
           SetState(S, st), UNCHANGED <<childVars, lastId>>,
           \A i \in S : i \in DOMAIN rows => rows[i].state # "recording"
    PROVE  /\ ChildRowsKept
           /\ \A i \in S : i \in DOMAIN rows' => rows'[i].state = st
BY DEF TableTypeOK, SetState, ChildRowsKept, Row

LEMMA UploaderOwn ==
    ASSUME OwnInv, UploaderNext, UNCHANGED childVars
    PROVE  OwnChild' /\ OwnUploader'
<1> USE DEF OwnInv, TypeInv
<1>a. lastId \in Int /\ DOMAIN rows \subseteq 1..lastId
  BY ConstantTypes DEF TableTypeOK
<1>b. ASSUME UNCHANGED <<rows, lastId>> PROVE OwnChild'
  BY <1>b, ChildOwnStays DEF ChildRowsKept
<1>1. CASE UploaderStart \/ UploaderWait
  BY <1>1, <1>b DEF UploaderStart, UploaderWait, OwnUploader, Holding, tableVars
<1>2. CASE UploaderReset
  <2>1. OwnUploader'
    BY <1>2 DEF UploaderReset, OwnUploader, Holding
  <2>2. CASE ResetUploading
    <3>1. \A i \in RowsIn({"uploading"}) : rows[i].state # "recording"
      BY DEF RowsIn
    <3> QED
      BY <1>2, <2>1, <2>2, <3>1, SetStateKept, ChildOwnStays
      DEF UploaderReset, ResetUploading
  <2> QED
    BY <1>2, <1>b, <2>1, <2>2 DEF UploaderReset
<1>3. CASE FetchPending
  <2>1. OwnChild' /\ UNCHANGED <<rows, lastId>>
    BY <1>3, <1>b DEF FetchPending, tableVars
  <2>2. CASE \E i \in OldestPending : seg' = [id |-> i, start |-> rows[i].start]
    <3>1. PICK i \in OldestPending : seg' = [id |-> i, start |-> rows[i].start]
      BY <2>2
    <3>2. i \in DOMAIN rows /\ rows[i].state = "pending"
      BY <3>1 DEF OldestPending, Oldest, RowsIn
    <3>3. seg'.id = i
      BY <3>1
    <3> QED
      BY <1>3, <1>a, <2>1, <3>2, <3>3 DEF FetchPending, OwnUploader, Holding
  <2>3. CASE upc' \in {"idle", "backoff"}
    BY <2>1, <2>3 DEF OwnUploader, Holding
  <2> QED
    BY <1>3, <2>2, <2>3 DEF FetchPending
<1>4. CASE ClaimSegment
  <2>1. CASE MarkUploading(seg.id) /\ upc' = "post"
    <3>1. seg.id \in DOMAIN rows => rows[seg.id].state # "recording"
      BY <1>4 DEF ClaimSegment, OwnUploader
    <3>2. OwnChild' /\ (seg.id \in DOMAIN rows' => rows'[seg.id].state = "uploading")
      BY <1>4, <2>1, <3>1, SetStateKept, ChildOwnStays
      DEF ClaimSegment, MarkUploading
    <3> QED
      BY <1>4, <2>1, <3>2 DEF ClaimSegment, OwnUploader, Holding
  <2>2. CASE UNCHANGED rows /\ upc' = "backoff"
    BY <1>4, <1>b, <2>2 DEF ClaimSegment, OwnUploader, Holding
  <2> QED
    BY <1>4, <2>1, <2>2 DEF ClaimSegment
<1>5. CASE PostFile
  BY <1>5, <1>b DEF PostFile, OwnUploader, Holding, tableVars
<1>6. CASE ServerAccepts \/ UploadFails
  <2> DEFINE u == [id |-> seg.id, by |-> body.by, size |-> body.size]
  <2>0. u.id = seg.id /\ (ServerAccepts => u \in server')
    BY DEF ServerAccepts, Accept
  <2>1. ServerAccepts => seg.id \in Stored'
    BY <2>0 DEF Stored
  <2> QED
    BY <1>6, <1>b, <2>1
    DEF ServerAccepts, UploadFails, OwnUploader, Holding, tableVars
<1>7. CASE ConfirmUpload \/ ReleaseSegment
  <2>1. OwnUploader'
    BY <1>7 DEF ConfirmUpload, ReleaseSegment, AfterUpdate, OwnUploader, Holding
  <2>2. seg.id \in DOMAIN rows => rows[seg.id].state # "recording"
    BY <1>7 DEF ConfirmUpload, ReleaseSegment, OwnUploader, Holding
  <2>3. CASE MarkUploaded(seg.id) \/ MarkRetry(seg.id)
    BY <1>7, <2>1, <2>2, <2>3, SetStateKept, ChildOwnStays
    DEF ConfirmUpload, ReleaseSegment, MarkUploaded, MarkRetry
  <2>4. CASE UNCHANGED rows
    BY <1>7, <1>b, <2>1, <2>4 DEF ConfirmUpload, ReleaseSegment
  <2> QED
    BY <1>7, <2>3, <2>4 DEF ConfirmUpload, ReleaseSegment
<1> QED
  BY <1>1, <1>2, <1>3, <1>4, <1>5, <1>6, <1>7 DEF UploaderNext, UploaderWork

LEMMA OwnStep ==
    ASSUME OwnInv, [Next]_vars
    PROVE  OwnInv'
<1> USE DEF OwnInv
<1>0. TypeInv'
  BY TypeStep
<1>1. CASE UNCHANGED vars
  BY <1>0, <1>1
  DEF vars, tableVars, childVars, uploaderVars, OwnChild, OwnUploader, Writing,
      Holding, Stored
<1>2. CASE ChildSteps
  BY <1>0, <1>2, ChildOwn DEF ChildSteps
<1>3. CASE UploaderSteps
  BY <1>0, <1>3, UploaderOwn DEF UploaderSteps
<1>4. CASE Shutdown
  BY <1>0, <1>4
  DEF Shutdown, StopRequest, tableVars, childVars, OwnChild, OwnUploader,
      Writing, Holding, Stored
<1>5. CASE ChildCrash
  <2>1. OwnChild'
    BY <1>5, EndChildOwn DEF ChildCrash, ChildDies, tableVars, OwnChild
  <2>2. OwnUploader'
    BY <1>5
    DEF ChildCrash, ChildDies, tableVars, uploaderVars, OwnUploader, Holding,
        Stored
  <2> QED
    BY <1>0, <2>1, <2>2
<1>6. CASE DeviceCrash
  <2>1. OwnChild'
    <3>1. EndChild /\ UNCHANGED rows
      BY <1>6 DEF DeviceCrash, UploaderDies, tableVars
    <3> QED
      BY <3>1, EndChildOwn DEF OwnChild
  <2>2. OwnUploader'
    BY <1>6 DEF DeviceCrash, UploaderDies, OwnUploader, Holding
  <2> QED
    BY <1>0, <2>1, <2>2
<1>7. CASE Exit
  BY <1>0, <1>7
  DEF Exit, UploaderDies, tableVars, childVars, OwnChild, OwnUploader, Writing,
      Holding
<1> QED
  BY <1>1, <1>2, <1>3, <1>4, <1>5, <1>6, <1>7 DEF Next

-----------------------------------------------------------------------------
(* The step of SegmentLifecycle that each step of the pipeline takes.      *)

LEMMA LifecycleInit == Init => Lifecycle!Init
BY DEF Init, EmptyTable, UploaderInit, Lifecycle!Init, LifeOf, Stored, Id,
       Lifecycle!Id

LEMMA LifecycleStutter ==
    ASSUME UNCHANGED <<LifeOf, Stored>> PROVE UNCHANGED Lifecycle!vars
BY DEF Lifecycle!vars

LEMMA StoredStays == UNCHANGED server => UNCHANGED Stored
BY DEF Stored

LEMMA ChildLifecycle ==
    ASSUME OwnInv, ChildNext, UNCHANGED uploaderVars
    PROVE  Lifecycle!Next \/ UNCHANGED Lifecycle!vars
<1> USE DEF OwnInv, TypeInv
<1>a. UNCHANGED Stored
  BY StoredStays DEF uploaderVars
<1>b. ASSUME UNCHANGED <<rows, lastId>> PROVE UNCHANGED Lifecycle!vars
  BY <1>a, <1>b, SameLives, LifecycleStutter
<1>1. CASE OpenSegment
  <2>1. CASE UNCHANGED tableVars
    BY <1>b, <2>1 DEF tableVars
  <2>2. CASE lastId < MaxSegments /\ \E start \in StartTimes : RegisterSegment(start)
    <3>1. lastId + 1 \in Id
      BY <2>2, ConstantTypes DEF TableTypeOK, Id
    <3>2. Lifecycle!Begin(lastId + 1)
      BY <1>a, <2>2, RegisterLives
      DEF Lifecycle!Begin, Lifecycle!Become, Lifecycle!Id, Become, Id
    <3> QED
      BY <3>1, <3>2 DEF Lifecycle!Next, Lifecycle!Id, Id
  <2> QED
    BY <1>1, <2>1, <2>2 DEF OpenSegment
<1>2. CASE UndoSegment
  <2>1. CASE UNCHANGED rows
    BY <1>2, <1>b, <2>1 DEF UndoSegment
  <2>2. CASE DeleteSegment(cur)
    <3>1. cur \in DOMAIN rows /\ rows[cur].state = "recording"
      BY <1>2 DEF UndoSegment, OwnChild, Writing
    <3>2. cur \in Id /\ LifeOf[cur] = "recording"
      BY <3>1, LifeOfRow
    <3>3. Lifecycle!Abandon(cur)
      BY <1>2, <1>a, <2>2, <3>1, <3>2, DeleteLives
      DEF UndoSegment, Lifecycle!Abandon, Lifecycle!Become, Lifecycle!Id,
          Become, Id
    <3> QED
      BY <3>2, <3>3 DEF Lifecycle!Next, Lifecycle!Id, Id
  <2> QED
    BY <1>2, <2>1, <2>2 DEF UndoSegment
<1>3. CASE FinishSegment
  <2>1. CASE UNCHANGED rows
    BY <1>3, <1>b, <2>1 DEF FinishSegment
  <2>2. CASE \E size : UpdateSegment(cur, size, "pending")
    <3>1. cur \in DOMAIN rows /\ rows[cur].state = "recording"
      BY <1>3 DEF FinishSegment, OwnChild, Writing, ChildData, ChildControl
    <3>2. cur \in Id /\ LifeOf[cur] = "recording"
      BY <3>1, LifeOfRow
    <3>3. Lifecycle!Finish(cur)
      BY <1>3, <1>a, <2>2, <3>1, <3>2, UpdateLives
      DEF FinishSegment, Lifecycle!Finish, Lifecycle!Become, Lifecycle!Id,
          Become, Id
    <3> QED
      BY <3>2, <3>3 DEF Lifecycle!Next, Lifecycle!Id, Id
  <2> QED
    BY <1>3, <2>1, <2>2 DEF FinishSegment
<1>4. CASE PruneDelete
  <2>0. UNCHANGED lastId /\ (DeleteSegment(victim.id) \/ UNCHANGED rows)
    BY <1>4 DEF PruneDelete
  <2>1. CASE UNCHANGED rows
    BY <1>b, <2>0, <2>1
  <2>2. CASE DeleteSegment(victim.id) /\ victim.id \notin DOMAIN rows
    BY <1>a, <2>0, <2>2, DeleteMisses, LifecycleStutter
  <2>3. CASE DeleteSegment(victim.id) /\ victim.id \in DOMAIN rows
    <3>1. rows[victim.id].state \in {"pending", "uploading", "uploaded"}
      BY <1>4, <2>3
      DEF PruneDelete, OwnChild, TableTypeOK, Row, SegmentState
    <3>2. victim.id \in Id /\ LifeOf[victim.id] = rows[victim.id].state
      BY <2>3, LifeOfRow
    <3>3. Lifecycle!Prune(victim.id)
      BY <1>a, <2>0, <2>3, <3>1, <3>2, DeleteLives
      DEF Lifecycle!Prune, Lifecycle!Become, Lifecycle!Id, Become, Id
    <3> QED
      BY <3>2, <3>3 DEF Lifecycle!Next, Lifecycle!Id, Id
  <2> QED
    BY <2>0, <2>1, <2>2, <2>3
<1>5. CASE ChildStart \/ RecvFrame \/ LeaveLoop \/ BootRtmp \/ BootFile
           \/ PushRtmp \/ PushRtmpFails \/ PushFile \/ PushFileFails
           \/ InitOutput \/ InitOutputFails \/ PruneSum \/ PruneFetch
           \/ PruneUnlink \/ RestoreRtmp \/ RotateSegment
  <2>1. UNCHANGED <<rows, lastId>>
    BY <1>5
    DEF ChildStart, RecvFrame, LeaveLoop, BootRtmp, BootFile, PushRtmp,
        PushRtmpFails, PushFile, PushFileFails, InitOutput, InitOutputFails,
        PruneSum, PruneFetch, PruneUnlink, RestoreRtmp, RotateSegment,
        tableVars
  <2> QED
    BY <1>b, <2>1
<1> QED
  BY <1>1, <1>2, <1>3, <1>4, <1>5 DEF ChildNext, ChildWork

LEMMA UploaderLifecycle ==
    ASSUME OwnInv, UploaderNext
    PROVE  Lifecycle!Next \/ UNCHANGED Lifecycle!vars
<1> USE DEF OwnInv, TypeInv
<1>b. ASSUME UNCHANGED <<rows, lastId, server>> PROVE UNCHANGED Lifecycle!vars
  BY <1>b, SameLives, StoredStays, LifecycleStutter
<1>1. CASE UploaderReset
  <2>1. CASE UNCHANGED rows
    BY <1>1, <1>b, <2>1 DEF UploaderReset
  <2>2. CASE ResetUploading
    <3> DEFINE S == RowsIn({"uploading"})
    <3>1. S \subseteq DOMAIN rows /\ \A i \in S : rows[i].state = "uploading"
      BY DEF RowsIn
    <3>2. S \in SUBSET Id /\ \A i \in S : LifeOf[i] = "uploading"
      BY <3>1, LifeOfRow
    <3>3. Become(S, "pending")
      BY <1>1, <2>2, <3>1, SetStateLives DEF UploaderReset, ResetUploading
    <3>4. Lifecycle!Release(S)
      BY <1>1, <3>2, <3>3, StoredStays
      DEF UploaderReset, Lifecycle!Release, Lifecycle!Become, Lifecycle!Id,
          Become, Id
    <3> QED
      BY <3>2, <3>4 DEF Lifecycle!Next, Lifecycle!Id, Id
  <2> QED
    BY <1>1, <2>1, <2>2 DEF UploaderReset
<1>2. CASE ClaimSegment
  <2>0. UNCHANGED <<lastId, server>> /\ (MarkUploading(seg.id) \/ UNCHANGED rows)
    BY <1>2 DEF ClaimSegment
  <2>1. CASE UNCHANGED rows
    BY <1>b, <2>0, <2>1
  <2>2. CASE MarkUploading(seg.id) /\ seg.id \notin DOMAIN rows
    BY <2>0, <2>2, SetStateMisses, StoredStays, LifecycleStutter
    DEF MarkUploading
  <2>3. CASE MarkUploading(seg.id) /\ seg.id \in DOMAIN rows
    <3>1. seg.id \in Id /\ LifeOf[seg.id] = "pending"
      BY <1>2, <2>3, LifeOfRow DEF ClaimSegment, OwnUploader
    <3>2. Become({seg.id}, "uploading")
      BY <2>0, <2>3, SetStateLives DEF MarkUploading
    <3>3. Lifecycle!Claim(seg.id)
      BY <2>0, <3>1, <3>2, StoredStays
      DEF Lifecycle!Claim, Lifecycle!Become, Lifecycle!Id, Become, Id
    <3> QED
      BY <3>1, <3>3 DEF Lifecycle!Next, Lifecycle!Id, Id
  <2> QED
    BY <2>0, <2>1, <2>2, <2>3
<1>3. CASE ServerAccepts \/ UploadFails
  <2>0. upc = "sending" /\ UNCHANGED <<rows, lastId>>
    BY <1>3 DEF ServerAccepts, UploadFails, tableVars
  <2>1. CASE UNCHANGED server
    BY <1>b, <2>0, <2>1
  <2>2. CASE Accept
    <3>1. seg.id \in Id /\ seg.id \in 1..lastId
      BY <2>0 DEF UploaderData, UploaderControl, OwnUploader, Holding
    <3>2. LifeOf[seg.id] \in {"uploading", "deleted"}
      BY <2>0, <3>1 DEF OwnUploader, Holding, LifeOf
    <3>3. Stored' = Stored \cup {seg.id}
      <4> DEFINE u == [id |-> seg.id, by |-> body.by, size |-> body.size]
      <4>1. server' = server \cup {u} /\ u.id = seg.id
        BY <2>2 DEF Accept
      <4> HIDE DEF u
      <4> QED
        BY <4>1 DEF Stored
    <3>4. Lifecycle!Store(seg.id)
      BY <2>0, <3>2, <3>3, SameLives DEF Lifecycle!Store
    <3> QED
      BY <3>1, <3>4 DEF Lifecycle!Next, Lifecycle!Id, Id
  <2> QED
    BY <1>3, <2>1, <2>2 DEF ServerAccepts, UploadFails
<1>4. CASE ConfirmUpload
  <2>0. UNCHANGED <<lastId, server>> /\ (MarkUploaded(seg.id) \/ UNCHANGED rows)
    BY <1>4 DEF ConfirmUpload
  <2>1. CASE UNCHANGED rows
    BY <1>b, <2>0, <2>1
  <2>2. CASE MarkUploaded(seg.id) /\ seg.id \notin DOMAIN rows
    BY <2>0, <2>2, SetStateMisses, StoredStays, LifecycleStutter
    DEF MarkUploaded
  <2>3. CASE MarkUploaded(seg.id) /\ seg.id \in DOMAIN rows
    <3>1. seg.id \in Id /\ LifeOf[seg.id] = "uploading" /\ seg.id \in Stored
      BY <1>4, <2>3, LifeOfRow DEF ConfirmUpload, OwnUploader, Holding
    <3>2. Become({seg.id}, "uploaded")
      BY <2>0, <2>3, SetStateLives DEF MarkUploaded
    <3>3. Lifecycle!Confirm(seg.id)
      BY <2>0, <3>1, <3>2, StoredStays
      DEF Lifecycle!Confirm, Lifecycle!Become, Lifecycle!Id, Become, Id
    <3> QED
      BY <3>1, <3>3 DEF Lifecycle!Next, Lifecycle!Id, Id
  <2> QED
    BY <2>0, <2>1, <2>2, <2>3
<1>5. CASE ReleaseSegment
  <2>0. UNCHANGED <<lastId, server>> /\ (MarkRetry(seg.id) \/ UNCHANGED rows)
    BY <1>5 DEF ReleaseSegment
  <2>1. CASE UNCHANGED rows
    BY <1>b, <2>0, <2>1
  <2>2. CASE MarkRetry(seg.id) /\ seg.id \notin DOMAIN rows
    BY <2>0, <2>2, SetStateMisses, StoredStays, LifecycleStutter DEF MarkRetry
  <2>3. CASE MarkRetry(seg.id) /\ seg.id \in DOMAIN rows
    <3>1. seg.id \in Id /\ LifeOf[seg.id] = "uploading"
      BY <1>5, <2>3, LifeOfRow DEF ReleaseSegment, OwnUploader, Holding
    <3>2. Become({seg.id}, "pending")
      BY <2>0, <2>3, SetStateLives DEF MarkRetry
    <3>3. Lifecycle!Release({seg.id})
      BY <2>0, <3>1, <3>2, StoredStays
      DEF Lifecycle!Release, Lifecycle!Become, Lifecycle!Id, Become, Id
    <3> QED
      BY <3>1, <3>3 DEF Lifecycle!Next, Lifecycle!Id, Id
  <2> QED
    BY <2>0, <2>1, <2>2, <2>3
<1>6. CASE UploaderStart \/ FetchPending \/ PostFile \/ UploaderWait
  BY <1>6, <1>b DEF UploaderStart, FetchPending, PostFile, UploaderWait, tableVars
<1> QED
  BY <1>1, <1>2, <1>3, <1>4, <1>5, <1>6 DEF UploaderNext, UploaderWork

LEMMA LifecycleStep ==
    ASSUME OwnInv, [Next]_vars
    PROVE  [Lifecycle!Next]_Lifecycle!vars
<1>b. ASSUME UNCHANGED <<rows, lastId, server>> PROVE UNCHANGED Lifecycle!vars
  BY <1>b, SameLives, StoredStays, LifecycleStutter
<1>1. CASE ChildSteps
  BY <1>1, ChildLifecycle DEF ChildSteps
<1>2. CASE UploaderSteps
  BY <1>2, UploaderLifecycle DEF UploaderSteps
<1>3. CASE UNCHANGED vars \/ Shutdown \/ ChildCrash \/ DeviceCrash \/ Exit
  BY <1>3, <1>b
  DEF vars, Shutdown, StopRequest, ChildCrash, ChildDies, DeviceCrash, Exit,
      UploaderDies, tableVars, uploaderVars
<1> QED
  BY <1>1, <1>2, <1>3 DEF Next

\* The two processes keep the promise of SegmentLifecycle, even when
\* statements fail, the clock steps back and either of them dies: no id is
\* used twice, nothing is offered for upload while it is recorded, nothing is
\* marked uploaded that the server has not accepted, and what is deleted or
\* uploaded is not offered again.
THEOREM PipelineImplementsLifecycle == Spec => ImplementsLifecycle
<1>1. Init => OwnInv /\ Lifecycle!Init
  BY TypeInit, OwnInit, LifecycleInit DEF OwnInv
<1>2. OwnInv /\ [Next]_vars => OwnInv'
  BY OwnStep
<1>3. OwnInv /\ [Next]_vars => [Lifecycle!Next]_Lifecycle!vars
  BY LifecycleStep
<1> QED
  BY <1>1, <1>2, <1>3, PTL DEF Spec, ImplementsLifecycle, Lifecycle!Spec
=============================================================================
