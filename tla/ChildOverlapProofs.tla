-------------------------- MODULE ChildOverlapProofs --------------------------
(***************************************************************************)
(* The old child and the new one, for any number of segments, any pair of  *)
(* water marks, any number of crashes and of killed parents, and any       *)
(* second for any segment: neither takes away what the other records, and  *)
(* the uploader takes from neither.                                        *)
(*                                                                         *)
(* The two children run the same code, so what a step of a child does to   *)
(* the table, the directory and its own memory is said once, for a memory  *)
(* c before and d after the step, and used for both.                       *)
(*                                                                         *)
(* Two invariants.  OverlapInv is about rows and holds whatever fails and  *)
(* whatever the clock does.  KnownInv adds the files and the seconds; it   *)
(* needs statements and calls that succeed, but no clock.                  *)
(***************************************************************************)
EXTENDS ChildOverlap, VideoPipelineSafety, SequenceTheorems

\* What of a child's memory decides over rows and files.
Mine ==
    [pc |-> cpc, mode |-> mode, id |-> cur, path |-> curPath, victim |-> victim]

Theirs ==
    [pc |-> oldPc, mode |-> oldMode, id |-> oldCur, path |-> oldPath,
     victim |-> oldVictim]

\* The child has a segment of its own: registered and not yet finished.
Writes(c) ==
    \/ c.pc \in {"init", "undo"}
    \/ c.mode = "file" /\ c.pc \in {"recv", "push", "close"}

Prunes(c) == c.pc \in {"unlink", "delete"}

\* The memory of a child fits the table r and the directory f: the segment it
\* writes has its row, still recording, and a push finds room in its file; the
\* victim of its prune is not being recorded, by whomever.
MemoryFits(r, f, last, c) ==
    /\ c.mode \in {"rtmp", "file"}
    /\ c.pc \in {"down", "boot"} => c.mode = "rtmp"
    /\ c.pc \in {"close", "sum", "fetch", "unlink", "delete", "restore",
                 "register", "init", "undo"} => c.mode = "file"
    /\ c.mode = "rtmp" \/ c.pc \in {"restore", "register"} => c.id = 0
    /\ c.id \in 0..last
    /\ Writes(c) =>
          /\ c.path \in Second
          /\ c.id \in DOMAIN r /\ r[c.id].state = "recording"
          /\ c.pc = "push" =>
                (c.path \in DOMAIN f /\ f[c.path].by = c.id
                    => f[c.path].size < SegBytes)
    /\ Prunes(c) =>
          /\ c.victim.id \in 1..last
          /\ c.victim.id \in DOMAIN r => r[c.victim.id].state # "recording"

MineFits == MemoryFits(rows, files, lastId, Mine)

TheirsFits == MemoryFits(rows, files, lastId, Theirs)

\* The two children never write the same segment.
Apart == Writes(Mine) /\ Writes(Theirs) => cur # oldCur

OverlapInv == OwnInv /\ MineFits /\ TheirsFits /\ Apart

-----------------------------------------------------------------------------
(* What a step of a child comes to.                                        *)

Stays(c, d) == d.mode = c.mode /\ d.id = c.id /\ d.path = c.path

Ends(d) == d.pc = "down" /\ d.mode = "rtmp" /\ d.id = 0

\* The return of the prune.
Returns(c, d) == Ends(d) \/ (d.pc = "restore" /\ d.mode = c.mode /\ d.id = 0)

\* Steps that touch neither the table nor the directory.
Moves(c, d) ==
    \/ /\ \/ c.pc \in {"boot", "register"}
          \/ c.pc \in {"recv", "push"} /\ c.mode # "file"
       /\ Ends(d)
    \/ Stays(c, d) /\ <<c.pc, d.pc>> \in
          {<<"down", "boot">>, <<"boot", "recv">>, <<"init", "undo">>,
           <<"sum", "fetch">>, <<"restore", "register">>}
    \/ /\ c.pc = "recv" /\ d.pc = "push" /\ Stays(c, d)
       /\ c.mode = "rtmp" \/ FileSize(c.path) < SegBytes
    \/ c.pc = "recv" /\ c.mode = "file" /\ d.pc = "close" /\ Stays(c, d)
    \/ c.pc = "push" /\ c.mode = "rtmp" /\ d.pc = "recv" /\ Stays(c, d)
    \/ /\ c.pc = "boot" \/ (c.pc = "push" /\ c.mode = "rtmp")
       /\ d.pc = "register" /\ d.mode = "file" /\ d.id = c.id
    \/ c.pc \in {"sum", "fetch"} /\ Returns(c, d)
    \/ /\ c.pc = "fetch" /\ d.pc = "unlink" /\ Stays(c, d)
       /\ \E i \in OldestPrunable : d.victim.id = i /\ d.victim.start = rows[i].start
    \/ c.pc = "restore" /\ d.pc = "push" /\ d.mode = "rtmp" /\ d.id = c.id

\* A statement or an unlink that fails: the child goes on without it.
Fails(c, d) ==
    /\ Faults
    /\ \/ c.pc = "undo" /\ Ends(d)
       \/ c.pc = "close" /\ d.pc = "sum" /\ Stays(c, d)
       \/ c.pc \in {"unlink", "delete"} /\ Returns(c, d)

Registers(c, d) ==
    /\ c.pc = "register" /\ lastId < MaxSegments
    /\ \E start \in Second : RegisterSegment(start) /\ d.path = start
    /\ UNCHANGED files
    /\ d.pc = "init" /\ d.mode = c.mode /\ d.id = lastId + 1

Creates(c, d) ==
    /\ c.pc = "init" /\ Stays(c, d)
    /\ d.pc \in {"push", "recv"} \/ (Faults /\ d.pc = "undo")
    /\ CreateFile(c.path, c.id) /\ UNCHANGED <<rows, lastId>>

Pushes(c, d) ==
    /\ c.pc = "push" /\ c.mode = "file" /\ Stays(c, d)
    /\ \/ AppendFile(c.path, c.id) /\ d.pc = "recv"
       \/ SpoilFile(c.path, c.id) /\ d.pc = "close"
    /\ UNCHANGED <<rows, lastId>>

Undoes(c, d) ==
    /\ c.pc = "undo" /\ Ends(d)
    /\ DeleteSegment(c.id) /\ UNCHANGED <<lastId, files>>

Finishes(c, d) ==
    /\ c.pc = "close" /\ d.pc = "sum" /\ Stays(c, d)
    /\ \E size \in 0..SegBytes : UpdateSegment(c.id, size, "pending")
    /\ UNCHANGED <<lastId, files>>

Unlinks(c, d) ==
    /\ c.pc = "unlink" /\ d.pc = "delete" /\ Stays(c, d)
    /\ d.victim = c.victim
    /\ UnlinkFile(c.victim.start) /\ UNCHANGED <<rows, lastId>>

Deletes(c, d) ==
    /\ c.pc = "delete"
    /\ (d.pc = "fetch" /\ Stays(c, d)) \/ Returns(c, d)
    /\ DeleteSegment(c.victim.id) /\ UNCHANGED <<lastId, files>>

Steps(c, d) ==
    \/ UNCHANGED tableVars /\ (Moves(c, d) \/ Fails(c, d))
    \/ Registers(c, d) \/ Creates(c, d) \/ Pushes(c, d) \/ Undoes(c, d)
    \/ Finishes(c, d) \/ Unlinks(c, d) \/ Deletes(c, d)

LEMMA OutcomeIs == \A ok \in Outcome : ok \/ (Faults /\ ~ok)
BY Zenon DEF Outcome

LEMMA EndsMine == EndChild => Ends(Mine')
BY DEF EndChild, Ends, Mine

LEMMA ReturnsMine == PruneDone => Returns(Mine, Mine')
BY EndsMine DEF PruneDone, Returns, Mine

\* The new child keeps to this.
LEMMA MineSteps ==
    ASSUME TableTypeOK, ChildNext
    PROVE  Steps(Mine, Mine')
<1>1. CASE ChildStart \/ BootRtmp \/ BootFile \/ RecvFrame \/ LeaveLoop
           \/ PushRtmp \/ PushRtmpFails \/ RestoreRtmp \/ RotateSegment
  BY <1>1, EndsMine
  DEF ChildStart, BootRtmp, BootFile, RecvFrame, LeaveLoop, PushRtmp,
      PushRtmpFails, RestoreRtmp, RotateSegment, Steps, Moves, Stays, Mine
<1>2. CASE OpenSegment
  <2>1. lastId < MaxSegments => StartTimes \subseteq Second
    BY StartTyped
  <2> QED
    BY <1>2, <2>1, EndsMine
    DEF OpenSegment, Steps, Moves, Registers, Mine, tableVars
<1>3. CASE InitOutput \/ InitOutputFails
  BY <1>3
  DEF InitOutput, InitOutputFails, Steps, Moves, Creates, Stays, Mine, tableVars
<1>4. CASE PushFile \/ PushFileFails
  BY <1>4 DEF PushFile, PushFileFails, Steps, Pushes, Stays, Mine
<1>5. CASE UndoSegment
  <2>1. DeleteSegment(cur) \/ (Faults /\ UNCHANGED rows)
    BY <1>5, OutcomeIs, Zenon DEF UndoSegment
  <2> QED
    BY <1>5, <2>1, EndsMine DEF UndoSegment, Steps, Fails, Undoes, Mine, tableVars
<1>6. CASE FinishSegment
  <2>1. \/ \E size \in {0, FileSize(curPath)} : UpdateSegment(cur, size, "pending")
        \/ Faults /\ UNCHANGED rows
    BY <1>6, OutcomeIs, Zenon DEF FinishSegment
  <2>2. {0, FileSize(curPath)} \subseteq 0..SegBytes
    BY FileSizeTyped, ConstantTypes
  <2> QED
    BY <1>6, <2>1, <2>2
    DEF FinishSegment, Steps, Fails, Finishes, Stays, Mine, tableVars
<1>7. CASE PruneSum \/ PruneFetch
  BY <1>7, ReturnsMine DEF PruneSum, PruneFetch, Steps, Moves, Stays, Mine
<1>8. CASE PruneUnlink
  BY <1>8, ReturnsMine
  DEF PruneUnlink, Steps, Fails, Unlinks, Stays, Mine, tableVars
<1>9. CASE PruneDelete
  BY <1>9, ReturnsMine
  DEF PruneDelete, Steps, Fails, Deletes, Stays, Mine, tableVars
<1> QED
  BY <1>1, <1>2, <1>3, <1>4, <1>5, <1>6, <1>7, <1>8, <1>9 DEF ChildNext, ChildWork

LEMMA EndsTheirs == Old!EndChild => Ends(Theirs')
BY DEF Old!EndChild, Ends, Theirs

LEMMA ReturnsTheirs == Old!PruneDone => Returns(Theirs, Theirs')
BY EndsTheirs DEF Old!PruneDone, Returns, Theirs

\* The old child's operators are those of the new one where they do not look at
\* the child's memory.
LEMMA SameTable ==
    /\ Old!Outcome = Outcome /\ Old!StartTimes = StartTimes
    /\ Old!OldestPrunable = OldestPrunable
    /\ \A p : Old!FileSize(p) = FileSize(p)
    /\ \A t : Old!RegisterSegment(t) <=> RegisterSegment(t)
    /\ \A i : Old!DeleteSegment(i) <=> DeleteSegment(i)
    /\ \A i, n, s : Old!UpdateSegment(i, n, s) <=> UpdateSegment(i, n, s)
    /\ \A p, i : Old!CreateFile(p, i) <=> CreateFile(p, i)
    /\ \A p, i : Old!AppendFile(p, i) <=> AppendFile(p, i)
    /\ \A p, i : Old!SpoilFile(p, i) <=> SpoilFile(p, i)
    /\ \A p : Old!UnlinkFile(p) <=> UnlinkFile(p)
    /\ Old!tableVars = tableVars
<1>1. Old!Outcome = Outcome /\ Old!StartTimes = StartTimes
  BY Zenon DEF Old!Outcome, Outcome, Old!StartTimes, StartTimes, Old!Second, Second
<1>2. Old!OldestPrunable = OldestPrunable
  BY Zenon DEF Old!OldestPrunable, OldestPrunable, Old!Oldest, Oldest,
               Old!RowsIn, RowsIn
<1>3. /\ \A p : Old!FileSize(p) = FileSize(p)
      /\ \A t : Old!RegisterSegment(t) <=> RegisterSegment(t)
      /\ \A i : Old!DeleteSegment(i) <=> DeleteSegment(i)
      /\ \A i, n, s : Old!UpdateSegment(i, n, s) <=> UpdateSegment(i, n, s)
  BY DEF Old!FileSize, FileSize, Old!RegisterSegment, RegisterSegment,
         Old!DeleteSegment, DeleteSegment, Old!UpdateSegment, UpdateSegment
<1>4. /\ \A p, i : Old!CreateFile(p, i) <=> CreateFile(p, i)
      /\ \A p, i : Old!AppendFile(p, i) <=> AppendFile(p, i)
      /\ \A p, i : Old!SpoilFile(p, i) <=> SpoilFile(p, i)
      /\ \A p : Old!UnlinkFile(p) <=> UnlinkFile(p)
  BY DEF Old!CreateFile, CreateFile, Old!AppendFile, AppendFile,
         Old!SpoilFile, SpoilFile, Old!UnlinkFile, UnlinkFile
<1>5. Old!tableVars = tableVars
  BY DEF Old!tableVars, tableVars
<1> QED
  BY <1>1, <1>2, <1>3, <1>4, <1>5

\* And so does the old one.
LEMMA TheirsSteps ==
    ASSUME TableTypeOK, Old!RecvFrame \/ Old!LeaveLoop \/ Old!ChildWork
    PROVE  Steps(Theirs, Theirs')
<1>1. CASE Old!BootRtmp \/ Old!BootFile \/ Old!RecvFrame \/ Old!LeaveLoop
           \/ Old!PushRtmp \/ Old!PushRtmpFails \/ Old!RestoreRtmp
           \/ Old!RotateSegment
  BY <1>1, EndsTheirs, SameTable
  DEF Old!BootRtmp, Old!BootFile, Old!RecvFrame, Old!LeaveLoop, Old!PushRtmp,
      Old!PushRtmpFails, Old!RestoreRtmp, Old!RotateSegment, Steps, Moves,
      Stays, Theirs, Old!tableVars, tableVars
<1>2. CASE Old!OpenSegment
  <2>1. lastId < MaxSegments => Old!StartTimes \subseteq Second
    BY StartTyped, SameTable
  <2> QED
    BY <1>2, <2>1, EndsTheirs, SameTable
    DEF Old!OpenSegment, Steps, Moves, Registers, Theirs, Old!tableVars, tableVars
<1>3. CASE Old!InitOutput \/ Old!InitOutputFails
  BY <1>3, SameTable
  DEF Old!InitOutput, Old!InitOutputFails, Steps, Moves, Creates, Stays, Theirs,
      tableVars
<1>4. CASE Old!PushFile \/ Old!PushFileFails
  BY <1>4, SameTable
  DEF Old!PushFile, Old!PushFileFails, Steps, Pushes, Stays, Theirs
<1>5. CASE Old!UndoSegment
  <2>1. Old!DeleteSegment(oldCur) \/ (Faults /\ UNCHANGED rows)
    <3>1. \A ok \in Old!Outcome : ok \/ (Faults /\ ~ok)
      BY Zenon DEF Old!Outcome
    <3> QED
      BY <1>5, <3>1, Zenon DEF Old!UndoSegment
  <2> QED
    BY <1>5, <2>1, EndsTheirs, SameTable
    DEF Old!UndoSegment, Steps, Fails, Undoes, Theirs, tableVars
<1>6. CASE Old!FinishSegment
  <2>1. \/ \E size \in {0, Old!FileSize(oldPath)} :
              Old!UpdateSegment(oldCur, size, "pending")
        \/ Faults /\ UNCHANGED rows
    <3>1. \A ok \in Old!Outcome : ok \/ (Faults /\ ~ok)
      BY Zenon DEF Old!Outcome
    <3> QED
      BY <1>6, <3>1, Zenon DEF Old!FinishSegment
  <2>2. {0, Old!FileSize(oldPath)} \subseteq 0..SegBytes
    BY FileSizeTyped, ConstantTypes, SameTable
  <2> QED
    BY <1>6, <2>1, <2>2, SameTable
    DEF Old!FinishSegment, Steps, Fails, Finishes, Stays, Theirs, tableVars
<1>7. CASE Old!PruneSum \/ Old!PruneFetch
  BY <1>7, ReturnsTheirs, SameTable
  DEF Old!PruneSum, Old!PruneFetch, Steps, Moves, Stays, Theirs,
      Old!tableVars, tableVars
<1>8. CASE Old!PruneUnlink
  BY <1>8, ReturnsTheirs, SameTable
  DEF Old!PruneUnlink, Steps, Fails, Unlinks, Stays, Theirs, tableVars
<1>9. CASE Old!PruneDelete
  BY <1>9, ReturnsTheirs, SameTable
  DEF Old!PruneDelete, Steps, Fails, Deletes, Stays, Theirs, tableVars
<1> QED
  BY <1>1, <1>2, <1>3, <1>4, <1>5, <1>6, <1>7, <1>8, <1>9 DEF Old!ChildWork

-----------------------------------------------------------------------------
(* What such a step leaves true, whichever child takes it.                 *)

Fits(c) == MemoryFits(rows, files, lastId, c)

FitsNext(d) == MemoryFits(rows', files', lastId', d)

LEMMA TableNumbers ==
    TableTypeOK => lastId \in Nat /\ DOMAIN rows \subseteq 1..lastId
BY ConstantTypes DEF TableTypeOK

LEMMA StepKeepsTable ==
    ASSUME TableTypeOK, NEW c, NEW d, Fits(c), Steps(c, d)
    PROVE  TableTypeOK'
<1>a. lastId \in Nat /\ DOMAIN rows \subseteq 1..lastId
  BY TableNumbers
<1>b. Writes(c) => c.path \in Second /\ c.id \in Id
  BY <1>a, ConstantTypes DEF Fits, MemoryFits, TableTypeOK, Id
<1>1. CASE UNCHANGED tableVars
  BY <1>1, TableStutter
<1>2. CASE Registers(c, d)
  BY <1>2, RegisterTyped DEF Registers
<1>3. CASE Creates(c, d)
  BY <1>3, <1>b, CreateTyped DEF Creates, Writes
<1>4. CASE Pushes(c, d)
  <2>1. c.path \in DOMAIN files /\ files[c.path].by = c.id
          => files[c.path].size < SegBytes
    BY <1>4 DEF Pushes, Fits, MemoryFits, Writes
  <2> QED
    BY <1>4, <2>1, AppendTyped, SpoilTyped DEF Pushes
<1>5. CASE Undoes(c, d) \/ Deletes(c, d)
  BY <1>5, DeleteTyped DEF Undoes, Deletes
<1>6. CASE Finishes(c, d)
  BY <1>6, UpdateTyped DEF Finishes, SegmentState
<1>7. CASE Unlinks(c, d)
  BY <1>7, UnlinkTyped DEF Unlinks
<1> QED
  BY <1>1, <1>2, <1>3, <1>4, <1>5, <1>6, <1>7 DEF Steps

\* The rows go the way that the uploader's part of the invariant allows.
LEMMA StepKeepsRows ==
    ASSUME TableTypeOK, NEW c, NEW d, Fits(c), Steps(c, d)
    PROVE  ChildKeepsRows
<1>a. lastId \in Nat /\ DOMAIN rows \subseteq 1..lastId
  BY TableNumbers
<1>1. CASE UNCHANGED rows
  BY <1>1 DEF ChildKeepsRows
<1>2. CASE Registers(c, d)
  BY <1>2, <1>a DEF Registers, RegisterSegment, ChildKeepsRows
<1>3. CASE Undoes(c, d) \/ Deletes(c, d)
  BY <1>3 DEF Undoes, Deletes, DeleteSegment, ChildKeepsRows
<1>4. CASE Finishes(c, d)
  <2>1. c.id \in DOMAIN rows /\ rows[c.id].state = "recording"
    BY <1>4 DEF Finishes, Fits, MemoryFits, Writes
  <2>2. rows[c.id] \in Row
    BY <2>1 DEF TableTypeOK
  <2> QED
    BY <1>4, <2>1, <2>2 DEF Finishes, UpdateSegment, ChildKeepsRows, Row
<1> QED
  BY <1>1, <1>2, <1>3, <1>4 DEF Steps, Creates, Pushes, Unlinks, tableVars

LEMMA RegisterCounts ==
    ASSUME NEW c, NEW d, Registers(c, d) PROVE lastId' = lastId + 1
BY DEF Registers, RegisterSegment

LEMMA StepNumbers ==
    ASSUME TableTypeOK, NEW c, NEW d, Steps(c, d)
    PROVE  lastId' \in Nat /\ lastId <= lastId'
<1>1. lastId' = lastId \/ lastId' = lastId + 1
  BY RegisterCounts
  DEF Steps, Creates, Pushes, Undoes, Finishes, Unlinks, Deletes, tableVars
<1> QED
  BY <1>1, TableNumbers

\* The child's own memory still fits.
LEMMA EndedFits ==
    ASSUME NEW c, NEW d, Ends(d) \/ (Returns(c, d) /\ c.mode = "file"),
           lastId' \in Nat
    PROVE  FitsNext(d)
BY DEF Ends, Returns, FitsNext, MemoryFits, Writes, Prunes

LEMMA StepFits ==
    ASSUME TableTypeOK, NEW c, NEW d, Fits(c), Steps(c, d)
    PROVE  FitsNext(d)
<1>a. lastId \in Nat /\ DOMAIN rows \subseteq 1..lastId
  BY TableNumbers
<1>b. lastId' \in Nat /\ lastId <= lastId'
  BY StepNumbers
<1>1. CASE UNCHANGED tableVars /\ Moves(c, d)
  <2>0. UNCHANGED <<rows, lastId, files>>
    BY <1>1 DEF tableVars
  <2>1. CASE Ends(d) \/ (c.pc \in {"sum", "fetch"} /\ Returns(c, d))
    BY <1>b, <2>1, EndedFits DEF Fits, MemoryFits
  <2>2. CASE c.pc = "fetch" /\ d.pc = "unlink" /\ Stays(c, d)
    <3>1. CASE \E i \in OldestPrunable : d.victim.id = i /\ d.victim.start = rows[i].start
      <4>1. d.victim.id \in DOMAIN rows /\ rows[d.victim.id].state # "recording"
        BY <3>1 DEF OldestPrunable, Oldest, RowsIn
      <4> QED
        BY <2>0, <2>2, <4>1, <1>a
        DEF Fits, FitsNext, MemoryFits, Writes, Prunes, Stays
    <3> QED
      BY <1>1, <2>1, <2>2, <3>1 DEF Moves
  <2>3. CASE Stays(c, d) /\ <<c.pc, d.pc>> \in
          {<<"down", "boot">>, <<"boot", "recv">>, <<"init", "undo">>,
           <<"sum", "fetch">>, <<"restore", "register">>}
    BY <2>0, <2>3 DEF Fits, FitsNext, MemoryFits, Writes, Prunes, Stays
  <2>4. CASE /\ c.pc = "recv" /\ d.pc = "push" /\ Stays(c, d)
             /\ c.mode = "rtmp" \/ FileSize(c.path) < SegBytes
    BY <2>0, <2>4 DEF Fits, FitsNext, MemoryFits, Writes, Prunes, Stays, FileSize
  <2>5. CASE \/ c.pc = "recv" /\ c.mode = "file" /\ d.pc = "close" /\ Stays(c, d)
             \/ c.pc = "push" /\ c.mode = "rtmp" /\ d.pc = "recv" /\ Stays(c, d)
    BY <2>0, <2>5 DEF Fits, FitsNext, MemoryFits, Writes, Prunes, Stays
  <2>6. CASE /\ c.pc = "boot" \/ (c.pc = "push" /\ c.mode = "rtmp")
             /\ d.pc = "register" /\ d.mode = "file" /\ d.id = c.id
    BY <2>0, <2>6 DEF Fits, FitsNext, MemoryFits, Writes, Prunes
  <2>7. CASE c.pc = "restore" /\ d.pc = "push" /\ d.mode = "rtmp" /\ d.id = c.id
    BY <2>0, <2>7 DEF Fits, FitsNext, MemoryFits, Writes, Prunes
  <2> QED
    BY <1>1, <2>1, <2>2, <2>3, <2>4, <2>5, <2>6, <2>7 DEF Moves
<1>2. CASE Registers(c, d)
  <2>1. lastId + 1 \in DOMAIN rows' /\ rows'[lastId + 1].state = "recording"
    BY <1>2 DEF Registers, RegisterSegment
  <2> QED
    BY <1>2, <1>a, <2>1, RegisterCounts
    DEF Registers, Fits, FitsNext, MemoryFits, Writes, Prunes
<1>3. CASE Creates(c, d)
  <2>1. /\ c.mode = "file" /\ c.path \in Second /\ c.id \in 0..lastId
        /\ c.id \in DOMAIN rows /\ rows[c.id].state = "recording"
    BY <1>3 DEF Creates, Fits, MemoryFits, Writes
  <2>2. c.path \in DOMAIN files' /\ files'[c.path].size = 0 /\ UNCHANGED <<rows, lastId>>
    BY <1>3 DEF Creates, CreateFile
  <2>3. files'[c.path].size < SegBytes
    BY <2>2, ConstantTypes
  <2> QED
    BY <1>3, <2>1, <2>2, <2>3 DEF Creates, Stays, FitsNext, MemoryFits, Writes, Prunes
<1>4. CASE Pushes(c, d)
  <2>1. UNCHANGED <<rows, lastId>>
    BY <1>4 DEF Pushes
  <2> QED
    BY <1>4, <2>1
    DEF Pushes, Stays, Fits, FitsNext, MemoryFits, Writes, Prunes
<1>5. CASE Undoes(c, d) \/ (UNCHANGED tableVars /\ Fails(c, d))
  <2>1. CASE c.pc = "close" /\ d.pc = "sum" /\ Stays(c, d) /\ UNCHANGED tableVars
    BY <2>1 DEF Stays, Fits, FitsNext, MemoryFits, Writes, Prunes, tableVars
  <2>2. CASE Ends(d) \/ (c.pc \in {"unlink", "delete"} /\ Returns(c, d))
    BY <1>b, <2>2, EndedFits DEF Fits, MemoryFits
  <2> QED
    BY <1>5, <2>1, <2>2 DEF Undoes, Fails
<1>6. CASE Finishes(c, d)
  BY <1>6, <1>b DEF Finishes, Stays, Fits, FitsNext, MemoryFits, Writes, Prunes
<1>7. CASE Unlinks(c, d)
  BY <1>7 DEF Unlinks, Stays, Fits, FitsNext, MemoryFits, Writes, Prunes
<1>8. CASE Deletes(c, d)
  <2>1. CASE Returns(c, d)
    BY <1>8, <1>b, <2>1, EndedFits DEF Deletes, Fits, MemoryFits
  <2>2. CASE d.pc = "fetch" /\ Stays(c, d)
    BY <1>8, <2>2 DEF Deletes, Stays, Fits, FitsNext, MemoryFits, Writes, Prunes
  <2> QED
    BY <1>8, <2>1, <2>2 DEF Deletes
<1> QED
  BY <1>1, <1>2, <1>3, <1>4, <1>5, <1>6, <1>7, <1>8 DEF Steps

-----------------------------------------------------------------------------
(* What it leaves alone.                                                   *)

\* Other is what the two know of each other: they do not write one segment.
Other(c, e) == Writes(c) /\ Writes(e) => c.id # e.id

\* A push changes no file but the child's own, and that one stays its own.
LEMMA PushFiles ==
    ASSUME TableTypeOK, NEW c, NEW d, Pushes(c, d)
    PROVE  /\ DOMAIN files' = DOMAIN files
           /\ \A p \in DOMAIN files :
                 /\ files'[p].by = files[p].by
                 /\ files[p].by # c.id => files'[p] = files[p]
BY DEF Pushes, AppendFile, SpoilFile, TableTypeOK, Content

\* No step of the child touches the row that another child writes, or makes
\* its file longer, and none records a victim again.
LEMMA StepSpares ==
    ASSUME TableTypeOK, NEW c, NEW d, NEW e, Fits(c), Fits(e), Steps(c, d),
           Other(c, e)
    PROVE  FitsNext(e)
<1>a. lastId \in Nat /\ DOMAIN rows \subseteq 1..lastId
  BY TableNumbers
<1>b. lastId' \in Nat /\ lastId <= lastId'
  BY StepNumbers
<1>1. ASSUME Writes(e)
      PROVE  e.id \in DOMAIN rows' /\ rows'[e.id].state = "recording"
  <2>0. e.id \in DOMAIN rows /\ rows[e.id].state = "recording"
    BY <1>1 DEF Fits, MemoryFits
  <2>1. CASE UNCHANGED rows
    BY <2>0, <2>1
  <2>2. CASE Registers(c, d)
    BY <2>0, <2>2, <1>a DEF Registers, RegisterSegment
  <2>3. CASE Undoes(c, d) \/ Finishes(c, d)
    <3>1. c.id # e.id
      BY <1>1, <2>3 DEF Undoes, Finishes, Fits, MemoryFits, Writes, Other
    <3> QED
      BY <2>0, <2>3, <3>1 DEF Undoes, Finishes, DeleteSegment, UpdateSegment
  <2>4. CASE Deletes(c, d)
    <3>1. c.victim.id # e.id
      BY <2>0, <2>4 DEF Deletes, Fits, MemoryFits, Prunes
    <3> QED
      BY <2>0, <2>4, <3>1 DEF Deletes, DeleteSegment
  <2> QED
    BY <2>1, <2>2, <2>3, <2>4 DEF Steps, Creates, Pushes, Unlinks, tableVars
<1>2. ASSUME Writes(e), e.path \in DOMAIN files', files'[e.path].by = e.id
      PROVE  /\ e.path \in DOMAIN files /\ files[e.path].by = e.id
             /\ files'[e.path].size = files[e.path].size
  <2>1. CASE UNCHANGED files
    BY <1>2, <2>1
  <2>2. CASE Creates(c, d) \/ Pushes(c, d)
    <3>1. c.id # e.id
      BY <1>2, <2>2 DEF Creates, Pushes, Writes, Other
    <3>2. CASE Creates(c, d)
      BY <1>2, <3>1, <3>2 DEF Creates, CreateFile
    <3>3. CASE Pushes(c, d)
      BY <1>2, <3>1, <3>3, PushFiles
    <3> QED
      BY <2>2, <3>2, <3>3
  <2>3. CASE Unlinks(c, d)
    BY <1>2, <2>3 DEF Unlinks, UnlinkFile
  <2> QED
    BY <2>1, <2>2, <2>3
    DEF Steps, Registers, Undoes, Finishes, Deletes, tableVars
<1>3. ASSUME Prunes(e)
      PROVE  e.victim.id \in DOMAIN rows' => rows'[e.victim.id].state # "recording"
  <2>0. /\ e.victim.id \in 1..lastId
        /\ e.victim.id \in DOMAIN rows => rows[e.victim.id].state # "recording"
    BY <1>3 DEF Fits, MemoryFits
  <2> QED
    BY <2>0, StepKeepsRows DEF ChildKeepsRows
<1> QED
  BY <1>a, <1>b, <1>1, <1>2, <1>3 DEF Fits, FitsNext, MemoryFits, Prunes

\* A segment that the child begins is no one else's.
LEMMA StepApart ==
    ASSUME TableTypeOK, NEW c, NEW d, NEW e, Fits(c), Fits(e), Steps(c, d),
           Other(c, e)
    PROVE  Other(d, e)
<1> SUFFICES ASSUME Writes(d), Writes(e)
             PROVE  d.id # e.id
  BY DEF Other
<1>a. lastId \in Nat /\ DOMAIN rows \subseteq 1..lastId
  BY TableNumbers
<1>1. CASE Registers(c, d)
  BY <1>1, <1>a DEF Registers, Fits, MemoryFits
<1>2. CASE ~Registers(c, d)
  <2>1. Writes(c) /\ d.id = c.id
    BY <1>2
    DEF Steps, Moves, Fails, Creates, Pushes, Undoes, Finishes, Unlinks,
        Deletes, Stays, Ends, Returns, Writes, Fits, MemoryFits
  <2> QED
    BY <2>1 DEF Other
<1> QED
  BY <1>1, <1>2

\* The uploader moves rows between the finished states only.
LEMMA UploaderRows ==
    ASSUME OwnInv, UploaderNext
    PROVE  /\ UNCHANGED <<lastId, files>> /\ DOMAIN rows' = DOMAIN rows
           /\ \A i \in DOMAIN rows :
                 /\ rows'[i].start = rows[i].start
                 /\ rows'[i].state = "recording" <=> rows[i].state = "recording"
<1>1. UploaderKeepsRows
  BY UploaderKeeps
<1>2. UNCHANGED <<lastId, files>>
  BY UploaderKeepsFiles
  DEF UploaderNext, UploaderWork, UploaderStart, UploaderReset, FetchPending,
      ClaimSegment, PostFile, ServerAccepts, UploadFails, ConfirmUpload,
      ReleaseSegment, UploaderWait, tableVars
<1>3. \/ UNCHANGED rows
      \/ \E S : \E st \in {"pending", "uploading", "uploaded"} : SetState(S, st)
  BY DEF UploaderNext, UploaderWork, UploaderStart, UploaderReset, FetchPending,
         ClaimSegment, PostFile, ServerAccepts, UploadFails, ConfirmUpload,
         ReleaseSegment, UploaderWait, ResetUploading, MarkUploading,
         MarkUploaded, MarkRetry, tableVars
<1>4. \A i \in DOMAIN rows' :
         rows[i].state # "recording" => rows'[i].state # "recording"
  BY <1>3 DEF SetState, OwnInv, TypeInv, TableTypeOK, Row
<1> QED
  BY <1>1, <1>2, <1>4 DEF UploaderKeepsRows

LEMMA UploaderSpares ==
    ASSUME OwnInv, UploaderNext, NEW e, Fits(e)
    PROVE  FitsNext(e)
BY UploaderRows DEF Fits, FitsNext, MemoryFits, Writes, Prunes

-----------------------------------------------------------------------------
(* OverlapInv is inductive, whatever fails.                                *)

\* OwnInv, read for the new child, is its memory's and the table's.
LEMMA OldKeepsOwn ==
    ASSUME OwnInv, TableTypeOK', MineFits', ChildKeepsRows,
           lastId' \in Nat, lastId <= lastId', crashes' \in 0..MaxCrashes,
           UNCHANGED <<childVars, uploaderVars>>
    PROVE  OwnInv'
<1> USE DEF OwnInv
<1>a. lastId \in Nat /\ DOMAIN rows \subseteq 1..lastId
  BY TableNumbers DEF TypeInv
<1>b. UNCHANGED <<cpc, mode, cur, curPath, victim, Mine>>
  BY DEF childVars, Mine
<1>c. Writing <=> Writes(Mine)
  BY DEF Writing, Writes, Mine
<1>d. MemoryFits(rows', files', lastId', Mine)
  BY <1>b DEF MineFits
<1>1. TypeInv'
  <2>1. ChildDataOK'
    BY DEF TypeInv, ChildData, ChildDataOK, childVars
  <2>2. ChildControl'
    BY <1>b, <1>d
    DEF TypeInv, ChildData, ChildControl, MemoryFits, Mine, Writing, Writes
  <2>3. UploaderData'
    BY UploaderStays DEF TypeInv
  <2>4. Flags'
    BY Zenon DEF TypeInv, Flags, childVars, uploaderVars
  <2> QED
    BY <2>1, <2>2, <2>3, <2>4 DEF TypeInv, ChildData
<1>2. OwnChild'
  <2>1. \A i \in DOMAIN rows' : rows'[i].state # "broken"
    BY DEF OwnChild, ChildKeepsRows
  <2> QED
    BY <1>b, <1>c, <1>d, <2>1
    DEF OwnChild, MemoryFits, Writes, Prunes, Mine, Writing
<1>3. OwnUploader'
  <2>1. \A i \in DOMAIN rows' :
           i \in 1..lastId =>
              i \in DOMAIN rows
              /\ (rows[i].state \in {"pending", "uploading"} =>
                     rows'[i].state = rows[i].state)
    BY DEF ChildKeepsRows
  <2> QED
    BY <1>a, <2>1, UploaderOwnStays DEF TypeInv
<1> QED
  BY <1>1, <1>2, <1>3

\* So is it when the new child and its parent die together.
LEMMA KillKeepsOwn ==
    ASSUME OwnInv, EndChild, UploaderDies, UNCHANGED crashes
    PROVE  OwnInv'
<1> USE DEF OwnInv
<1>a. UNCHANGED tableVars
  BY DEF UploaderDies
<1>1. TypeInv'
  <2>1. TableTypeOK' /\ ChildData' /\ UploaderData'
    BY <1>a, TableStutter, EndChildTyped, UploaderDiesTyped DEF TypeInv
  <2>2. Flags'
    BY Zenon DEF Flags, EndChild, UploaderDies
  <2> QED
    BY <2>1, <2>2 DEF TypeInv
<1>2. OwnChild'
  BY <1>a, EndChildOwn DEF OwnChild, tableVars
<1>3. OwnUploader'
  BY DEF UploaderDies, OwnUploader, Holding
<1> QED
  BY <1>1, <1>2, <1>3

LEMMA OverlapInitInv == OverlapInit => OverlapInv
<1> SUFFICES ASSUME OverlapInit PROVE OverlapInv
  OBVIOUS
<1>1. OwnInv
  BY TypeInit, OwnInit DEF OverlapInit, OwnInv
<1>2. Ends(Mine) /\ Ends(Theirs)
  BY DEF OverlapInit, Init, ChildInit, Old!ChildInit, Ends, Mine, Theirs
<1> QED
  BY <1>1, <1>2
  DEF OverlapInit, Init, EmptyTable, OverlapInv, MineFits, TheirsFits,
      MemoryFits, Apart, Ends, Writes, Prunes

\* Between the two spellings of the memory's part.
LEMMA Spellings ==
    /\ MineFits <=> Fits(Mine)
    /\ TheirsFits <=> Fits(Theirs)
    /\ MineFits' <=> FitsNext(Mine')
    /\ TheirsFits' <=> FitsNext(Theirs')
    /\ Apart <=> Other(Mine, Theirs)
    /\ Apart' <=> Other(Mine', Theirs')
    /\ \A c, e : Other(c, e) <=> Other(e, c)
<1>1. (MineFits <=> Fits(Mine)) /\ (TheirsFits <=> Fits(Theirs))
  BY DEF MineFits, TheirsFits, Fits
<1>2. (MineFits' <=> FitsNext(Mine')) /\ (TheirsFits' <=> FitsNext(Theirs'))
  BY DEF MineFits, TheirsFits, FitsNext
<1>3. Apart <=> Other(Mine, Theirs)
  BY DEF Apart, Other, Mine, Theirs
<1>4. Apart' <=> Other(Mine', Theirs')
  BY DEF Apart, Other, Mine, Theirs
<1>5. \A c, e : Other(c, e) <=> Other(e, c)
  BY DEF Other
<1> QED
  BY <1>1, <1>2, <1>3, <1>4, <1>5

\* A step of the pipeline that is none of the child's and none of the uploader's
\* leaves the table as it is; the child's memory stays or goes.
LEMMA QuietSteps ==
    ASSUME Shutdown \/ Exit \/ ChildCrash
    PROVE  /\ UNCHANGED <<rows, lastId, files>>
           /\ Ends(Mine') \/ Mine' = Mine
BY EndsMine
DEF Shutdown, StopRequest, Exit, UploaderDies, ChildCrash, ChildDies, tableVars,
    childVars, Mine

LEMMA NewStepsKeep ==
    ASSUME OverlapInv, NewSteps
    PROVE  OverlapInv'
<1> USE DEF OverlapInv
<1>1. OwnInv'
  BY OwnStep DEF NewSteps, Next
<1>2. TableTypeOK /\ lastId \in Nat /\ Theirs' = Theirs
  BY TableNumbers DEF OwnInv, TypeInv, NewSteps, oldVars, oldMemory, Theirs
<1>3. Fits(Mine) /\ Fits(Theirs) /\ Other(Mine, Theirs)
  BY Spellings
<1>4. FitsNext(Mine') /\ FitsNext(Theirs) /\ Other(Mine', Theirs)
  <2>1. CASE ChildSteps
    <3>1. Steps(Mine, Mine')
      BY <1>2, <2>1, MineSteps DEF ChildSteps
    <3> QED
      BY <1>2, <1>3, <3>1, StepFits, StepSpares, StepApart
  <2>2. CASE UploaderSteps
    <3>1. UploaderNext /\ Mine' = Mine
      BY <2>2 DEF UploaderSteps, childVars, Mine
    <3> QED
      BY <1>2, <1>3, <3>1, UploaderSpares
  <2>3. CASE Shutdown \/ Exit \/ ChildCrash
    <3>1. UNCHANGED <<rows, lastId, files>> /\ (Ends(Mine') \/ Mine' = Mine)
      BY <2>3, QuietSteps
    <3>2. Ends(Mine') => FitsNext(Mine') /\ ~Writes(Mine')
      BY <1>2, <3>1, EndedFits DEF Ends, Writes
    <3> QED
      BY <1>3, <3>1, <3>2 DEF Fits, FitsNext, Other
  <2> QED
    BY <2>1, <2>2, <2>3 DEF NewSteps
<1> QED
  BY <1>1, <1>2, <1>4, Spellings

LEMMA OldStepsKeep ==
    ASSUME OverlapInv, OldReceives \/ OldLeaves \/ OldWorks
    PROVE  OverlapInv'
<1> USE DEF OverlapInv
<1>1. TableTypeOK /\ crashes \in 0..MaxCrashes
  BY DEF OwnInv, TypeInv
<1>2. Fits(Mine) /\ Fits(Theirs) /\ Other(Theirs, Mine)
  BY Spellings
<1>3. /\ Old!RecvFrame \/ Old!LeaveLoop \/ Old!ChildWork
      /\ UNCHANGED <<childVars, uploaderVars, crashes>>
  BY DEF OldReceives, OldLeaves, OldWorks
<1>4. Steps(Theirs, Theirs') /\ Mine' = Mine
  BY <1>1, <1>3, TheirsSteps DEF childVars, Mine
<1>5. FitsNext(Theirs') /\ FitsNext(Mine) /\ Other(Theirs', Mine)
  BY <1>1, <1>2, <1>4, StepFits, StepSpares, StepApart
<1>6. MineFits' /\ TheirsFits' /\ Apart'
  BY <1>4, <1>5, Spellings
<1>7. /\ TableTypeOK' /\ ChildKeepsRows
      /\ lastId' \in Nat /\ lastId <= lastId'
  BY <1>1, <1>2, <1>4, StepKeepsTable, StepKeepsRows, StepNumbers
<1>8. OwnInv'
  BY <1>1, <1>3, <1>6, <1>7, OldKeepsOwn
<1> QED
  BY <1>6, <1>8

\* The end of the old child, alone or with the device, and the start of one.
LEMMA EndsKeep ==
    ASSUME OverlapInv, ParentKill \/ OldDies \/ PowerLoss
    PROVE  OverlapInv'
<1> USE DEF OverlapInv
<1>1. TableTypeOK
  BY DEF OwnInv, TypeInv
<1>2. Fits(Mine) /\ Fits(Theirs)
  BY Spellings
<1>3. lastId \in Nat /\ UNCHANGED <<rows, lastId, files>>
  BY <1>1, TableNumbers
  DEF ParentKill, OldDies, PowerLoss, DeviceCrash, UploaderDies,
      Old!ChildDies, Old!tableVars, tableVars
<1>4. CASE ParentKill
  <2>1. Theirs' = Mine /\ Ends(Mine')
    BY <1>4, EndsMine DEF ParentKill, Inherit, Theirs, Mine
  <2>2. FitsNext(Theirs') /\ FitsNext(Mine') /\ ~Writes(Mine')
    BY <1>2, <1>3, <2>1, EndedFits DEF Fits, FitsNext, Ends, Writes
  <2>3. OwnInv'
    BY <1>4, KillKeepsOwn DEF ParentKill
  <2> QED
    BY <2>2, <2>3, Spellings DEF Other
<1>5. CASE OldDies
  <2>1. /\ Ends(Theirs') /\ Mine' = Mine
        /\ UNCHANGED <<childVars, uploaderVars>>
    BY <1>5, EndsTheirs DEF OldDies, Old!ChildDies, childVars, Mine
  <2>2. FitsNext(Theirs') /\ FitsNext(Mine') /\ ~Writes(Theirs')
    BY <1>2, <1>3, <2>1, EndedFits DEF Fits, FitsNext, Ends, Writes
  <2>3. MineFits' /\ TheirsFits' /\ Apart'
    BY <2>2, Spellings DEF Other
  <2>4. TableTypeOK' /\ ChildKeepsRows /\ lastId' \in Nat /\ lastId <= lastId'
    BY <1>1, <1>3, TableStutter, TableNumbers DEF ChildKeepsRows, tableVars
  <2>5. crashes' \in 0..MaxCrashes
    BY <1>5, ConstantTypes DEF OldDies, OwnInv, TypeInv
  <2>6. OwnInv'
    BY <2>1, <2>3, <2>4, <2>5, OldKeepsOwn
  <2> QED
    BY <2>3, <2>6
<1>6. CASE PowerLoss
  <2>1. Ends(Theirs') /\ Ends(Mine')
    BY <1>6, EndsTheirs, EndsMine DEF PowerLoss, DeviceCrash
  <2>2. FitsNext(Theirs') /\ FitsNext(Mine') /\ ~Writes(Mine')
    BY <1>3, <2>1, EndedFits DEF Ends, Writes
  <2>3. OwnInv'
    BY <1>6, OwnStep DEF PowerLoss, Next
  <2> QED
    BY <2>2, <2>3, Spellings DEF Other
<1> QED
  BY <1>4, <1>5, <1>6

LEMMA OverlapStep ==
    ASSUME OverlapInv, [OverlapNext]_overlapVars
    PROVE  OverlapInv'
<1>1. CASE UNCHANGED overlapVars
  <2>1. /\ UNCHANGED vars /\ UNCHANGED <<rows, lastId, files>>
        /\ Mine' = Mine /\ Theirs' = Theirs /\ cur' = cur /\ oldCur' = oldCur
    BY <1>1
    DEF overlapVars, oldVars, oldMemory, vars, childVars, tableVars, Mine, Theirs
  <2>2. OwnInv'
    BY <2>1, OwnStep DEF OverlapInv
  <2> QED
    BY <2>1, <2>2 DEF OverlapInv, MineFits, TheirsFits, Apart
<1>2. CASE OverlapNext
  BY <1>2, NewStepsKeep, OldStepsKeep, EndsKeep DEF OverlapNext
<1> QED
  BY <1>1, <1>2

LEMMA OverlapInvariant == OverlapSpec => []OverlapInv
<1>1. OverlapInv /\ [OverlapNext]_overlapVars => OverlapInv'
  BY OverlapStep
<1> QED
  BY OverlapInitInv, <1>1, PTL DEF OverlapSpec

-----------------------------------------------------------------------------
(* The step of SegmentLifecycle that each step of the two children takes.  *)

\* A child's statement on the table moves one segment along its life, from
\* where the child's memory says that it is.
LEMMA StepLifecycle ==
    ASSUME TableTypeOK, NEW c, NEW d, Fits(c), Steps(c, d),
           UNCHANGED uploaderVars, \A i \in DOMAIN rows : rows[i].state # "broken"
    PROVE  Lifecycle!Next \/ UNCHANGED Lifecycle!vars
<1>a. UNCHANGED Stored
  BY StoredStays DEF uploaderVars
<1>b. ASSUME UNCHANGED <<rows, lastId>> PROVE UNCHANGED Lifecycle!vars
  BY <1>a, <1>b, SameLives, LifecycleStutter
<1>1. CASE Registers(c, d)
  <2>1. PICK start \in Second : lastId < MaxSegments /\ RegisterSegment(start)
    BY <1>1 DEF Registers
  <2>2. lastId + 1 \in Id
    BY <2>1, ConstantTypes DEF TableTypeOK, Id
  <2>3. Lifecycle!Begin(lastId + 1)
    BY <1>a, <2>1, RegisterLives
    DEF Lifecycle!Begin, Lifecycle!Become, Lifecycle!Id, Become, Id
  <2> QED
    BY <2>2, <2>3 DEF Lifecycle!Next, Lifecycle!Id, Id
<1>2. CASE Undoes(c, d)
  <2>1. /\ c.id \in DOMAIN rows /\ rows[c.id].state = "recording"
        /\ DeleteSegment(c.id) /\ UNCHANGED lastId
    BY <1>2 DEF Undoes, Fits, MemoryFits, Writes
  <2>2. c.id \in Id /\ LifeOf[c.id] = "recording"
    BY <2>1, LifeOfRow
  <2>3. Become({c.id}, "deleted")
    BY <2>1, DeleteLives
  <2>4. Lifecycle!Abandon(c.id)
    BY <1>a, <2>2, <2>3
    DEF Lifecycle!Abandon, Lifecycle!Become, Lifecycle!Id, Become, Id
  <2> QED
    BY <2>2, <2>4 DEF Lifecycle!Next, Lifecycle!Id, Id
<1>3. CASE Finishes(c, d)
  <2>1. PICK size \in 0..SegBytes :
           /\ c.id \in DOMAIN rows /\ rows[c.id].state = "recording"
           /\ UpdateSegment(c.id, size, "pending") /\ UNCHANGED lastId
    BY <1>3 DEF Finishes, Fits, MemoryFits, Writes
  <2>2. c.id \in Id /\ LifeOf[c.id] = "recording"
    BY <2>1, LifeOfRow
  <2>3. Become({c.id}, "pending")
    BY <2>1, UpdateLives
  <2>4. Lifecycle!Finish(c.id)
    BY <1>a, <2>2, <2>3
    DEF Lifecycle!Finish, Lifecycle!Become, Lifecycle!Id, Become, Id
  <2> QED
    BY <2>2, <2>4 DEF Lifecycle!Next, Lifecycle!Id, Id
<1>4. CASE Deletes(c, d)
  <2> DEFINE v == c.victim.id
  <2>0. DeleteSegment(v) /\ UNCHANGED lastId
    BY <1>4 DEF Deletes
  <2>1. CASE v \notin DOMAIN rows
    BY <1>a, <2>0, <2>1, DeleteMisses, LifecycleStutter
  <2>2. CASE v \in DOMAIN rows
    <3>1. rows[v].state \in {"pending", "uploading", "uploaded"}
      <4>1. rows[v].state # "recording"
        BY <1>4, <2>2 DEF Deletes, Fits, MemoryFits, Prunes
      <4>2. rows[v].state \in SegmentState /\ rows[v].state # "broken"
        BY <2>2 DEF TableTypeOK, Row
      <4> QED
        BY <4>1, <4>2 DEF SegmentState
    <3>2. v \in Id /\ LifeOf[v] = rows[v].state
      BY <2>2, LifeOfRow
    <3>3. Become({v}, "deleted")
      BY <2>0, <2>2, DeleteLives
    <3>4. Lifecycle!Prune(v)
      BY <1>a, <3>1, <3>2, <3>3
      DEF Lifecycle!Prune, Lifecycle!Become, Lifecycle!Id, Become, Id
    <3> QED
      BY <3>2, <3>4 DEF Lifecycle!Next, Lifecycle!Id, Id
  <2> QED
    BY <2>1, <2>2
<1> QED
  BY <1>b, <1>1, <1>2, <1>3, <1>4
  DEF Steps, Creates, Pushes, Unlinks, tableVars

LEMMA OverlapLifecycle ==
    ASSUME OverlapInv, [OverlapNext]_overlapVars
    PROVE  [Lifecycle!Next]_Lifecycle!vars
<1>a. /\ OwnInv /\ TableTypeOK /\ Fits(Theirs)
      /\ \A i \in DOMAIN rows : rows[i].state # "broken"
  BY Spellings DEF OverlapInv, OwnInv, OwnChild, TypeInv
<1>b. ASSUME UNCHANGED <<rows, lastId, server>> PROVE UNCHANGED Lifecycle!vars
  BY <1>b, SameLives, StoredStays, LifecycleStutter
<1>1. CASE NewSteps \/ PowerLoss
  <2>1. Next
    BY <1>1 DEF NewSteps, PowerLoss, Next
  <2> QED
    BY <1>a, <2>1, LifecycleStep
<1>2. CASE OldReceives \/ OldLeaves \/ OldWorks
  <2>1. Steps(Theirs, Theirs') /\ UNCHANGED uploaderVars
    BY <1>a, <1>2, TheirsSteps DEF OldReceives, OldLeaves, OldWorks
  <2> QED
    BY <1>a, <2>1, StepLifecycle
<1>3. CASE ParentKill \/ OldDies \/ UNCHANGED overlapVars
  <2>1. UNCHANGED <<rows, lastId, server>>
    BY <1>3
    DEF ParentKill, UploaderDies, OldDies, Old!ChildDies, Old!tableVars,
        uploaderVars, overlapVars, vars, tableVars
  <2> QED
    BY <1>b, <2>1
<1> QED
  BY <1>1, <1>2, <1>3 DEF OverlapNext

\* Two children and a restarted uploader keep the promise of SegmentLifecycle,
\* too, whatever fails and whatever the clock says: whichever of them registers,
\* an id is used once; no segment is offered for upload before the child that
\* records it has closed it; and of two prunes with the same victim, the second
\* finds nothing to delete.
THEOREM OverlapImplementsLifecycle == OverlapSpec => ImplementsLifecycle
<1>1. OverlapInit => Lifecycle!Init
  BY LifecycleInit DEF OverlapInit
<1>2. OverlapInv /\ [OverlapNext]_overlapVars => [Lifecycle!Next]_Lifecycle!vars
  BY OverlapLifecycle
<1> QED
  BY <1>1, <1>2, OverlapInvariant, PTL
  DEF OverlapSpec, ImplementsLifecycle, Lifecycle!Spec

-----------------------------------------------------------------------------
(* The files, by the seconds at which the segments were registered.  From  *)
(* here on statements and unlinks succeed; two segments may still get the  *)
(* same second, and then have one path.                                    *)

History == starts \in Seq(Second) /\ Len(starts) = lastId

\* Row, file and history agree: every file is at the path of the segment whose
\* output created it, and that segment has its row.
TableKnown ==
    /\ \A i \in DOMAIN rows : rows[i].start = starts[i]
    /\ \A p \in DOMAIN files : files[p].by \in DOMAIN rows /\ starts[files[p].by] = p

\* What a child can rely on: its segment has no file before its output is
\* opened and, when the second is its own, has it from then on; after the close
\* the row is finished; after the unlink the victim has no file.
Knows(r, f, alone, st, c) ==
    /\ Writes(c) => c.path = st[c.id]
    /\ c.pc \in {"init", "undo"} => \A p \in DOMAIN f : f[p].by # c.id
    /\ Writes(c) /\ c.pc \notin {"init", "undo"} /\ c.id \in alone =>
          c.path \in DOMAIN f /\ f[c.path].by = c.id
    /\ c.pc \in {"sum", "fetch", "unlink", "delete"} /\ c.id \in DOMAIN r =>
          r[c.id].state # "recording"
    /\ Prunes(c) => c.victim.start = st[c.victim.id]
    /\ c.pc = "delete" => \A p \in DOMAIN f : f[p].by # c.victim.id

MineKnown == Knows(rows, files, Alone, starts, Mine)

TheirsKnown == Knows(rows, files, Alone, starts, Theirs)

\* What the uploader sends is of the second of the row that it took.
UploaderKnown ==
    /\ Holding => seg.start = starts[seg.id]
    /\ ~Holding => seg = NoSegment
    /\ upc = "sending" => body.by \in 1..lastId /\ starts[body.by] = seg.start
    /\ upc # "sending" => body = NoBody

KnownInv == History /\ TableKnown /\ MineKnown /\ TheirsKnown /\ UploaderKnown

Known(c) == Knows(rows, files, Alone, starts, c)

KnownNext(d) == Knows(rows', files', Alone', starts', d)

-----------------------------------------------------------------------------
(* The history.                                                            *)

\* Seconds once given stay what they were; and a second that is a segment's
\* own may be shared later, never the other way round.
SameSeconds ==
    /\ lastId' \in Nat /\ lastId <= lastId'
    /\ \A i \in 1..lastId : starts'[i] = starts[i]
    /\ \A i \in 1..lastId : i \in Alone' => i \in Alone

LEMMA SecondsKept ==
    ASSUME lastId \in Nat, lastId' \in Nat, lastId <= lastId',
           \A i \in 1..lastId : starts'[i] = starts[i]
    PROVE  SameSeconds
<1> SUFFICES ASSUME NEW i \in 1..lastId, i \in Alone'
             PROVE  i \in Alone
  BY DEF SameSeconds
<1>1. \A j \in (1..lastId') \ {i} : starts'[j] # starts'[i]
  BY DEF Alone
<1>2. \A j \in 1..lastId : j \in 1..lastId'
  OBVIOUS
<1> QED
  BY <1>1, <1>2 DEF Alone

LEMMA NothingNew ==
    ASSUME lastId \in Nat, UNCHANGED <<lastId, starts>>
    PROVE  SameSeconds /\ Alone' = Alone
<1>1. Alone' = Alone
  BY DEF Alone
<1> QED
  BY <1>1, SecondsKept

LEMMA StepSeconds ==
    ASSUME TableTypeOK, History, NEW c, NEW d, Steps(c, d), Remember
    PROVE  /\ History' /\ SameSeconds
           /\ Registers(c, d) => starts'[lastId + 1] = d.path
           /\ ~Registers(c, d) => UNCHANGED <<lastId, starts>> /\ Alone' = Alone
<1>a. lastId \in Nat
  BY TableNumbers
<1>1. CASE Registers(c, d)
  <2>1. PICK start \in Second : RegisterSegment(start) /\ d.path = start
    BY <1>1 DEF Registers
  <2>2. lastId' = lastId + 1 /\ rows'[lastId + 1].start = start
    BY <2>1 DEF RegisterSegment
  <2>3. starts' = Append(starts, start)
    BY <1>a, <2>2 DEF Remember
  <2>4. /\ starts' \in Seq(Second) /\ Len(starts') = lastId + 1
        /\ \A i \in 1..lastId : starts'[i] = starts[i]
        /\ starts'[lastId + 1] = start
    BY <2>3, AppendProperties DEF History
  <2>5. History'
    BY <2>2, <2>4 DEF History
  <2>6. SameSeconds
    BY <1>a, <2>2, <2>4, SecondsKept
  <2> QED
    BY <1>1, <2>1, <2>4, <2>5, <2>6
<1>2. CASE ~Registers(c, d)
  <2>1. lastId' = lastId
    BY <1>2 DEF Steps, Creates, Pushes, Undoes, Finishes, Unlinks, Deletes, tableVars
  <2>2. starts' = starts
    BY <2>1 DEF Remember
  <2> QED
    BY <1>2, <1>a, <2>1, <2>2, NothingNew DEF History
<1> QED
  BY <1>1, <1>2

-----------------------------------------------------------------------------
(* A child's step, when nothing fails.                                     *)

\* A new segment's row is the only one that changes, and no file is its.
LEMMA RegisterKnows ==
    ASSUME TableTypeOK, TableKnown, NEW c, NEW d, Registers(c, d)
    PROVE  /\ lastId \in Nat /\ lastId + 1 \notin DOMAIN rows
           /\ DOMAIN rows' = DOMAIN rows \cup {lastId + 1}
           /\ \A i \in DOMAIN rows : rows'[i] = rows[i]
           /\ rows'[lastId + 1].start = d.path
           /\ rows'[lastId + 1].state = "recording"
           /\ UNCHANGED files
           /\ \A p \in DOMAIN files : files[p].by # lastId + 1
           /\ d.id = lastId + 1 /\ d.pc = "init"
<1>1. lastId \in Nat /\ DOMAIN rows \subseteq 1..lastId
  BY TableNumbers
<1>2. lastId + 1 \notin DOMAIN rows
  BY <1>1
<1> QED
  BY <1>1, <1>2 DEF Registers, RegisterSegment, TableKnown

LEMMA StepKnowsTable ==
    ASSUME ~Faults, TableTypeOK, History, TableKnown, NEW c, NEW d, Fits(c),
           Known(c), Steps(c, d), Remember
    PROVE  TableKnown'
<1>a. lastId \in Nat /\ DOMAIN rows \subseteq 1..lastId
  BY TableNumbers
<1>b. ~Registers(c, d) => UNCHANGED starts
  BY StepSeconds
<1>1. CASE UNCHANGED tableVars
  <2>1. ~Registers(c, d)
    BY <1>a, <1>1, RegisterCounts DEF tableVars
  <2> QED
    BY <1>1, <1>b, <2>1 DEF TableKnown, tableVars
<1>2. CASE Registers(c, d)
  <2>1. /\ \A i \in 1..lastId : starts'[i] = starts[i]
        /\ starts'[lastId + 1] = d.path
    BY <1>2, StepSeconds DEF SameSeconds
  <2> QED
    BY <1>2, <1>a, <2>1, RegisterKnows DEF TableKnown
<1>3. CASE Creates(c, d)
  <2>1. /\ c.id \in DOMAIN rows /\ c.path = starts[c.id]
        /\ UNCHANGED <<rows, starts>>
    BY <1>3, <1>b DEF Creates, Registers, Fits, MemoryFits, Known, Knows, Writes
  <2> QED
    BY <1>3, <2>1 DEF Creates, CreateFile, TableKnown
<1>4. CASE Pushes(c, d)
  <2>1. UNCHANGED <<rows, starts>>
    BY <1>4, <1>b DEF Pushes, Registers
  <2> QED
    BY <1>4, <2>1, PushFiles DEF TableKnown
<1>5. CASE Undoes(c, d) \/ Deletes(c, d)
  <2>1. PICK i : /\ DeleteSegment(i) /\ UNCHANGED <<starts, files>>
                 /\ \A p \in DOMAIN files : files[p].by # i
    BY <1>5, <1>b DEF Undoes, Deletes, Registers, Known, Knows
  <2> QED
    BY <2>1 DEF DeleteSegment, TableKnown
<1>6. CASE Finishes(c, d)
  <2>1. UNCHANGED <<starts, files>>
    BY <1>6, <1>b DEF Finishes, Registers
  <2>2. /\ DOMAIN rows' = DOMAIN rows
        /\ \A i \in DOMAIN rows : rows'[i].start = rows[i].start
    BY <1>6 DEF Finishes, UpdateSegment, TableTypeOK, Row
  <2> QED
    BY <2>1, <2>2 DEF TableKnown
<1>7. CASE Unlinks(c, d)
  <2>1. UNCHANGED <<rows, starts>>
    BY <1>7, <1>b DEF Unlinks, Registers
  <2> QED
    BY <1>7, <2>1 DEF Unlinks, UnlinkFile, TableKnown
<1> QED
  BY <1>1, <1>2, <1>3, <1>4, <1>5, <1>6, <1>7 DEF Steps

\* The child itself.
LEMMA EndedKnows ==
    ASSUME NEW c, NEW d, Ends(d) \/ Returns(c, d)
    PROVE  KnownNext(d)
BY DEF Ends, Returns, KnownNext, Knows, Writes, Prunes

LEMMA StepKnows ==
    ASSUME ~Faults, TableTypeOK, History, TableKnown, NEW c, NEW d, Fits(c),
           Known(c), Steps(c, d), Remember
    PROVE  KnownNext(d)
<1>b. ~Registers(c, d) => UNCHANGED starts /\ Alone' = Alone
  BY StepSeconds
<1>1. CASE UNCHANGED tableVars /\ Moves(c, d)
  <2>0. UNCHANGED <<rows, files, starts>> /\ Alone' = Alone
    <3>1. ~Registers(c, d)
      BY <1>1, TableNumbers, RegisterCounts DEF tableVars
    <3> QED
      BY <1>1, <1>b, <3>1 DEF tableVars
  <2>1. CASE Ends(d) \/ Returns(c, d)
    BY <2>1, EndedKnows
  <2>2. CASE c.pc = "fetch" /\ d.pc = "unlink" /\ Stays(c, d)
             /\ \E i \in OldestPrunable : d.victim.id = i /\ d.victim.start = rows[i].start
    <3>1. d.victim.start = starts[d.victim.id]
      BY <2>2 DEF OldestPrunable, Oldest, RowsIn, TableKnown
    <3> QED
      BY <2>0, <2>2, <3>1 DEF Known, KnownNext, Knows, Writes, Prunes, Stays
  <2>3. CASE Stays(c, d) /\ <<c.pc, d.pc>> \in
          {<<"down", "boot">>, <<"boot", "recv">>, <<"init", "undo">>,
           <<"sum", "fetch">>, <<"restore", "register">>}
    BY <2>0, <2>3 DEF Fits, MemoryFits, Known, KnownNext, Knows, Writes, Prunes, Stays
  <2>4. CASE /\ c.pc = "recv" /\ d.pc \in {"push", "close"} /\ Stays(c, d)
             /\ d.pc = "close" => c.mode = "file"
    BY <2>0, <2>4 DEF Known, KnownNext, Knows, Writes, Prunes, Stays
  <2>5. CASE c.pc = "push" /\ c.mode = "rtmp" /\ d.pc = "recv" /\ Stays(c, d)
    BY <2>0, <2>5 DEF Known, KnownNext, Knows, Writes, Prunes, Stays
  <2>6. CASE \/ d.pc = "register"
             \/ d.pc = "push" /\ d.mode = "rtmp"
    BY <2>6 DEF KnownNext, Knows, Writes, Prunes
  <2> QED
    BY <1>1, <2>1, <2>2, <2>3, <2>4, <2>5, <2>6 DEF Moves
<1>2. CASE Registers(c, d)
  <2>1. starts'[lastId + 1] = d.path
    BY <1>2, StepSeconds
  <2> QED
    BY <1>2, <2>1, RegisterKnows DEF KnownNext, Knows, Writes, Prunes
<1>3. CASE Creates(c, d)
  <2>1. c.path = starts[c.id] /\ UNCHANGED starts
    BY <1>3, <1>b DEF Creates, Registers, Known, Knows, Writes
  <2>2. c.path \in DOMAIN files' /\ files'[c.path].by = c.id
    BY <1>3 DEF Creates, CreateFile
  <2> QED
    BY <1>3, <2>1, <2>2 DEF Creates, Stays, KnownNext, Knows, Writes, Prunes
<1>4. CASE Pushes(c, d)
  <2>1. UNCHANGED starts /\ Alone' = Alone
    BY <1>4, <1>b DEF Pushes, Registers
  <2>2. /\ c.path = starts[c.id]
        /\ c.id \in Alone => c.path \in DOMAIN files' /\ files'[c.path].by = c.id
    BY <1>4, PushFiles DEF Pushes, Known, Knows, Writes
  <2> QED
    BY <1>4, <2>1, <2>2 DEF Pushes, Stays, KnownNext, Knows, Writes, Prunes
<1>5. CASE Undoes(c, d)
  BY <1>5, EndedKnows DEF Undoes
<1>6. CASE Finishes(c, d)
  <2>1. c.id \in DOMAIN rows' => rows'[c.id].state = "pending"
    BY <1>6 DEF Finishes, UpdateSegment, TableTypeOK, Row
  <2> QED
    BY <1>6, <2>1 DEF Finishes, Stays, KnownNext, Knows, Writes, Prunes
<1>7. CASE Unlinks(c, d)
  <2>1. UNCHANGED <<rows, starts>>
    BY <1>7, <1>b DEF Unlinks, Registers
  <2>2. c.victim.start = starts[c.victim.id]
    BY <1>7 DEF Unlinks, Known, Knows, Prunes
  <2>3. \A p \in DOMAIN files' : files'[p].by # c.victim.id
    BY <1>7, <2>2 DEF Unlinks, UnlinkFile, TableKnown
  <2> QED
    BY <1>7, <2>1, <2>2, <2>3
    DEF Unlinks, Stays, Known, KnownNext, Knows, Writes, Prunes
<1>8. CASE Deletes(c, d)
  <2>1. CASE Returns(c, d)
    BY <2>1, EndedKnows
  <2>2. CASE d.pc = "fetch" /\ Stays(c, d)
    BY <1>8, <2>2
    DEF Deletes, DeleteSegment, Stays, Known, KnownNext, Knows, Writes, Prunes
  <2> QED
    BY <1>8, <2>1, <2>2 DEF Deletes
<1> QED
  BY <1>1, <1>2, <1>3, <1>4, <1>5, <1>6, <1>7, <1>8 DEF Steps, Fails

\* And the other child: what it wrote is not touched unless the second is
\* shared, and what it has unlinked does not come back.
LEMMA StepLetsKnow ==
    ASSUME ~Faults, TableTypeOK, History, TableKnown, NEW c, NEW d, NEW e,
           Fits(c), Fits(e), Known(c), Known(e), Other(c, e), Steps(c, d),
           Remember
    PROVE  KnownNext(e)
<1>a. lastId \in Nat /\ DOMAIN rows \subseteq 1..lastId
  BY TableNumbers
<1>b. SameSeconds
  BY StepSeconds
<1>c. Writes(e) => e.id \in 1..lastId /\ e.id \in DOMAIN rows
                   /\ rows[e.id].state = "recording"
  BY <1>a DEF Fits, MemoryFits
<1>d. Prunes(e) => e.victim.id \in 1..lastId
                   /\ (e.victim.id \in DOMAIN rows
                          => rows[e.victim.id].state # "recording")
  BY DEF Fits, MemoryFits
<1>e. \A i : \/ \A p \in DOMAIN files' : files'[p].by = i =>
                   p \in DOMAIN files /\ files[p].by = i
             \/ Creates(c, d) /\ i = c.id
  <2>1. CASE Creates(c, d)
    BY <2>1 DEF Creates, CreateFile
  <2>2. CASE Pushes(c, d)
    BY <2>2, PushFiles
  <2>3. CASE Unlinks(c, d)
    BY <2>3 DEF Unlinks, UnlinkFile
  <2>4. CASE UNCHANGED files
    BY <2>4
  <2> QED
    BY <2>1, <2>2, <2>3, <2>4
    DEF Steps, Registers, Undoes, Finishes, Deletes, tableVars
<1>f. Creates(c, d) => Writes(c) /\ c.id \in DOMAIN rows
                       /\ rows[c.id].state = "recording" /\ c.path = starts[c.id]
  BY DEF Creates, Writes, Fits, MemoryFits, Known, Knows
<1>1. Writes(e) => e.path = starts'[e.id]
  BY <1>b, <1>c DEF Known, Knows, SameSeconds
<1>2. e.pc \in {"init", "undo"} => \A p \in DOMAIN files' : files'[p].by # e.id
  BY <1>e, <1>f DEF Known, Knows, Writes, Other
<1>3. ASSUME Writes(e), e.pc \notin {"init", "undo"}, e.id \in Alone'
      PROVE  e.path \in DOMAIN files' /\ files'[e.path].by = e.id
  <2>0. /\ e.id \in Alone /\ e.path = starts[e.id]
        /\ e.path \in DOMAIN files /\ files[e.path].by = e.id
    BY <1>3, <1>b, <1>c DEF Known, Knows, SameSeconds
  <2>1. CASE Creates(c, d)
    <3>1. c.id \in 1..lastId /\ c.id # e.id
      BY <1>3, <1>a, <1>f, <2>1 DEF Other
    <3>2. c.path # e.path
      BY <1>f, <2>0, <2>1, <3>1 DEF Alone
    <3> QED
      BY <2>0, <2>1, <3>2 DEF Creates, CreateFile
  <2>2. CASE Pushes(c, d)
    BY <2>0, <2>2, PushFiles
  <2>3. CASE Unlinks(c, d)
    <3>1. /\ c.victim.id \in 1..lastId /\ c.victim.start = starts[c.victim.id]
          /\ c.victim.id # e.id
      BY <1>3, <1>c, <2>3 DEF Unlinks, Fits, MemoryFits, Known, Knows, Prunes
    <3>2. c.victim.start # e.path
      BY <2>0, <3>1 DEF Alone
    <3> QED
      BY <2>0, <2>3, <3>2 DEF Unlinks, UnlinkFile
  <2>4. CASE UNCHANGED files
    BY <2>0, <2>4
  <2> QED
    BY <2>1, <2>2, <2>3, <2>4
    DEF Steps, Registers, Undoes, Finishes, Deletes, tableVars
<1>4. ASSUME e.pc \in {"sum", "fetch", "unlink", "delete"}, e.id \in DOMAIN rows'
      PROVE  rows'[e.id].state # "recording"
  <2>1. e.id \in DOMAIN rows => rows[e.id].state # "recording"
    BY <1>4 DEF Known, Knows
  <2>2. e.id \in 1..lastId
    <3>1. DOMAIN rows' \subseteq 1..lastId'
      BY StepKeepsTable DEF TableTypeOK
    <3> QED
      BY <1>4, <1>a, <1>b, <3>1 DEF Fits, MemoryFits, SameSeconds
  <2> QED
    BY <1>4, <2>1, <2>2, StepKeepsRows DEF ChildKeepsRows
<1>5. Prunes(e) => e.victim.start = starts'[e.victim.id]
  BY <1>b, <1>d DEF Known, Knows, SameSeconds
<1>6. e.pc = "delete" => \A p \in DOMAIN files' : files'[p].by # e.victim.id
  BY <1>d, <1>e, <1>f DEF Known, Knows, Prunes
<1> QED
  BY <1>1, <1>2, <1>3, <1>4, <1>5, <1>6 DEF KnownNext, Knows

-----------------------------------------------------------------------------
(* The uploader.                                                           *)

LEMMA UploaderKnows ==
    ASSUME ~Faults, OwnInv, TableKnown, UploaderKnown, UploaderNext,
           UNCHANGED starts
    PROVE  UploaderKnown'
<1>a. UNCHANGED lastId /\ DOMAIN rows \subseteq 1..lastId
  BY UploaderRows, TableNumbers DEF OwnInv, TypeInv
<1>b. Outcome = {TRUE}
  BY Zenon DEF Outcome
<1> USE DEF UploaderKnown, Holding
<1>1. CASE UploaderStart \/ UploaderReset \/ UploaderWait
  BY <1>1, <1>a DEF UploaderStart, UploaderReset, UploaderWait
<1>2. CASE FetchPending
  <2>1. CASE \E i \in OldestPending : seg' = [id |-> i, start |-> rows[i].start]
             /\ upc' = "mark"
    <3>1. PICK i \in DOMAIN rows : seg' = [id |-> i, start |-> rows[i].start]
      BY <2>1 DEF OldestPending, Oldest, RowsIn
    <3>2. seg'.start = starts'[seg'.id]
      BY <3>1 DEF TableKnown
    <3> QED
      BY <1>2, <2>1, <3>2 DEF FetchPending
  <2>2. CASE upc' = "idle" /\ UNCHANGED seg
    BY <1>2, <2>2 DEF FetchPending
  <2> QED
    BY <1>2, <2>1, <2>2 DEF FetchPending
<1>3. CASE ClaimSegment
  <2>1. upc' = "post"
    BY <1>3, <1>b, Zenon DEF ClaimSegment
  <2> QED
    BY <1>3, <2>1 DEF ClaimSegment
<1>4. CASE PostFile
  <2>1. ASSUME seg.start \in DOMAIN files
        PROVE  /\ files[seg.start].by \in 1..lastId
               /\ starts[files[seg.start].by] = seg.start
    BY <1>a, <2>1 DEF TableKnown
  <2> QED
    BY <1>4, <1>a, <2>1 DEF PostFile
<1>5. CASE ServerAccepts \/ UploadFails
  BY <1>5 DEF ServerAccepts, UploadFails
<1>6. CASE ConfirmUpload \/ ReleaseSegment
  BY <1>6 DEF ConfirmUpload, ReleaseSegment, AfterUpdate
<1> QED
  BY <1>1, <1>2, <1>3, <1>4, <1>5, <1>6 DEF UploaderNext, UploaderWork

LEMMA UploaderKnownStays ==
    ASSUME OwnUploader, UploaderKnown, UNCHANGED uploaderVars, SameSeconds,
           lastId \in Nat
    PROVE  UploaderKnown'
<1>1. \A i \in 1..lastId : i \in 1..lastId' /\ starts'[i] = starts[i]
  <2>1. ASSUME NEW n \in Nat, NEW m \in Nat, m <= n PROVE \A i \in 1..m : i \in 1..n
    BY <2>1
  <2>2. \A i \in 1..lastId : i \in 1..lastId'
    BY <2>1 DEF SameSeconds
  <2> QED
    BY <2>2 DEF SameSeconds
<1>2. UNCHANGED <<upc, seg, body>>
  BY DEF uploaderVars
<1> QED
  BY <1>1, <1>2 DEF UploaderKnown, OwnUploader, Holding

LEMMA UploaderLetsKnow ==
    ASSUME OwnInv, UploaderNext, UNCHANGED starts, TableKnown, NEW e, Known(e)
    PROVE  TableKnown' /\ KnownNext(e)
<1>1. /\ UNCHANGED <<lastId, files>> /\ DOMAIN rows' = DOMAIN rows
      /\ \A i \in DOMAIN rows :
            /\ rows'[i].start = rows[i].start
            /\ rows'[i].state = "recording" <=> rows[i].state = "recording"
  BY UploaderRows
<1>2. Alone' = Alone
  BY <1>1 DEF Alone
<1> QED
  BY <1>1, <1>2 DEF TableKnown, Known, KnownNext, Knows

-----------------------------------------------------------------------------
(* KnownInv is inductive.                                                  *)

LEMMA KnownSpellings ==
    /\ MineKnown <=> Known(Mine)
    /\ TheirsKnown <=> Known(Theirs)
    /\ MineKnown' <=> KnownNext(Mine')
    /\ TheirsKnown' <=> KnownNext(Theirs')
<1>1. (MineKnown <=> Known(Mine)) /\ (TheirsKnown <=> Known(Theirs))
  BY DEF MineKnown, TheirsKnown, Known
<1>2. (MineKnown' <=> KnownNext(Mine')) /\ (TheirsKnown' <=> KnownNext(Theirs'))
  BY DEF MineKnown, TheirsKnown, KnownNext
<1> QED
  BY <1>1, <1>2

LEMMA KnownInit == OverlapInit => KnownInv
<1> SUFFICES ASSUME OverlapInit PROVE KnownInv
  OBVIOUS
<1>1. History
  BY DEF OverlapInit, Init, EmptyTable, History
<1>2. TableKnown
  BY DEF OverlapInit, Init, EmptyTable, TableKnown
<1>3. Ends(Mine) /\ Ends(Theirs)
  BY DEF OverlapInit, Init, ChildInit, Old!ChildInit, Ends, Mine, Theirs
<1>4. MineKnown /\ TheirsKnown
  BY <1>3 DEF MineKnown, TheirsKnown, Knows, Ends, Writes, Prunes
<1>5. UploaderKnown
  BY DEF OverlapInit, Init, UploaderInit, UploaderKnown, Holding
<1> QED
  BY <1>1, <1>2, <1>4, <1>5 DEF KnownInv

\* A step that leaves table and history alone, and of each memory either leaves
\* it alone or ends it or hands it on.
LEMMA StillKnown ==
    ASSUME KnownInv, OwnInv, UNCHANGED <<rows, lastId, files, starts>>,
           NEW e, Known(e) \/ Ends(e)
    PROVE  History' /\ TableKnown' /\ SameSeconds /\ KnownNext(e)
<1>1. SameSeconds /\ Alone' = Alone
  BY TableNumbers, NothingNew DEF OwnInv, TypeInv
<1>2. History' /\ TableKnown'
  BY DEF KnownInv, History, TableKnown
<1> QED
  BY <1>1, <1>2 DEF Known, KnownNext, Knows, Ends, Writes, Prunes

LEMMA NewStepsKnow ==
    ASSUME ~Faults, OverlapInv, KnownInv, NewSteps
    PROVE  KnownInv'
<1> USE DEF OverlapInv, KnownInv
<1>1. TableTypeOK /\ lastId \in Nat /\ OwnUploader
  BY TableNumbers DEF OwnInv, TypeInv
<1>2. /\ Fits(Mine) /\ Fits(Theirs) /\ Other(Mine, Theirs)
      /\ Known(Mine) /\ Known(Theirs)
  BY Spellings, KnownSpellings
<1>3. Theirs' = Theirs /\ Remember
  BY DEF NewSteps, oldVars, oldMemory, Theirs
<1>4. /\ History' /\ TableKnown' /\ UploaderKnown'
      /\ KnownNext(Mine') /\ KnownNext(Theirs)
  <2>1. CASE ChildSteps
    <3>1. Steps(Mine, Mine') /\ UNCHANGED uploaderVars
      BY <1>1, <2>1, MineSteps DEF ChildSteps
    <3>2. History' /\ SameSeconds
      BY <1>1, <1>3, <3>1, StepSeconds
    <3>3. UploaderKnown'
      BY <1>1, <3>1, <3>2, UploaderKnownStays
    <3>4. TableKnown' /\ KnownNext(Mine') /\ KnownNext(Theirs)
      BY <1>1, <1>2, <1>3, <3>1, StepKnowsTable, StepKnows, StepLetsKnow
    <3> QED
      BY <3>2, <3>3, <3>4
  <2>2. CASE UploaderSteps
    <3>1. UploaderNext /\ Mine' = Mine
      BY <2>2 DEF UploaderSteps, childVars, Mine
    <3>2. UNCHANGED <<lastId, starts>>
      BY <1>3, <3>1, UploaderRows DEF Remember
    <3>3. History'
      BY <3>2 DEF History
    <3> QED
      BY <1>2, <3>1, <3>2, <3>3, UploaderKnows, UploaderLetsKnow
  <2>3. CASE Shutdown \/ Exit \/ ChildCrash
    <3>1. UNCHANGED <<rows, lastId, files, starts>> /\ (Ends(Mine') \/ Mine' = Mine)
      BY <1>3, <2>3, QuietSteps DEF Remember
    <3>2. UploaderKnown'
      BY <2>3, <3>1
      DEF Shutdown, StopRequest, Exit, UploaderDies, ChildCrash, uploaderVars,
          UploaderKnown, Holding
    <3> QED
      BY <1>2, <3>1, <3>2, StillKnown
  <2> QED
    BY <2>1, <2>2, <2>3 DEF NewSteps
<1> QED
  BY <1>3, <1>4, KnownSpellings

LEMMA OldStepsKnow ==
    ASSUME ~Faults, OverlapInv, KnownInv, OldReceives \/ OldLeaves \/ OldWorks
    PROVE  KnownInv'
<1> USE DEF OverlapInv, KnownInv
<1>1. TableTypeOK /\ lastId \in Nat /\ OwnUploader
  BY TableNumbers DEF OwnInv, TypeInv
<1>2. /\ Fits(Mine) /\ Fits(Theirs) /\ Other(Theirs, Mine)
      /\ Known(Mine) /\ Known(Theirs)
  BY Spellings, KnownSpellings
<1>3. /\ Old!RecvFrame \/ Old!LeaveLoop \/ Old!ChildWork
      /\ UNCHANGED <<childVars, uploaderVars>>
  BY DEF OldReceives, OldLeaves, OldWorks
<1>4. Steps(Theirs, Theirs') /\ Mine' = Mine
  BY <1>1, <1>3, TheirsSteps DEF childVars, Mine
<1>5. Remember
  BY DEF OldReceives, OldLeaves, OldWorks, Old!RecvFrame, Old!LeaveLoop,
         Old!tableVars, Remember
<1>6. History' /\ SameSeconds
  BY <1>1, <1>4, <1>5, StepSeconds
<1>7. UploaderKnown'
  BY <1>1, <1>3, <1>6, UploaderKnownStays
<1>8. TableKnown' /\ KnownNext(Theirs') /\ KnownNext(Mine)
  BY <1>1, <1>2, <1>4, <1>5, StepKnowsTable, StepKnows, StepLetsKnow
<1> QED
  BY <1>4, <1>6, <1>7, <1>8, KnownSpellings

LEMMA EndsKnow ==
    ASSUME ~Faults, OverlapInv, KnownInv, ParentKill \/ OldDies \/ PowerLoss
    PROVE  KnownInv'
<1> USE DEF OverlapInv, KnownInv
<1>1. UNCHANGED <<rows, lastId, files, starts>>
  BY DEF ParentKill, OldDies, PowerLoss, DeviceCrash, UploaderDies,
         Old!ChildDies, Old!tableVars, tableVars
<1>0. lastId \in Nat
  BY TableNumbers DEF OwnInv, TypeInv
<1>2. Known(Mine) /\ Known(Theirs)
  BY KnownSpellings
<1>3. /\ Mine' = Mine \/ Ends(Mine')
      /\ Theirs' = Mine \/ Ends(Theirs')
  BY EndsMine, EndsTheirs
  DEF ParentKill, Inherit, OldDies, PowerLoss, DeviceCrash, Old!ChildDies,
      childVars, Mine, Theirs
<1>4. KnownNext(Mine') /\ KnownNext(Theirs') /\ History' /\ TableKnown' /\ SameSeconds
  BY <1>1, <1>2, <1>3, StillKnown
<1>5. UploaderKnown'
  <2>1. CASE UNCHANGED uploaderVars
    BY <1>0, <1>4, <2>1, UploaderKnownStays DEF OwnInv
  <2>2. CASE UploaderDies
    BY <2>2 DEF UploaderDies, UploaderKnown, Holding
  <2> QED
    BY <2>1, <2>2 DEF ParentKill, OldDies, PowerLoss, DeviceCrash
<1> QED
  BY <1>4, <1>5, KnownSpellings

LEMMA KnownStep ==
    ASSUME ~Faults, OverlapInv, KnownInv, [OverlapNext]_overlapVars
    PROVE  KnownInv'
<1>1. CASE UNCHANGED overlapVars
  <2>1. /\ UNCHANGED <<rows, lastId, files, starts, upc, seg, body>>
        /\ Mine' = Mine /\ Theirs' = Theirs
    BY <1>1
    DEF overlapVars, oldVars, oldMemory, vars, childVars, tableVars,
        uploaderVars, Mine, Theirs
  <2>2. /\ Known(Mine) /\ Known(Theirs) /\ OwnInv
    BY KnownSpellings DEF KnownInv, OverlapInv
  <2>3. History' /\ TableKnown' /\ KnownNext(Mine') /\ KnownNext(Theirs')
    BY <2>1, <2>2, StillKnown
  <2>4. UploaderKnown'
    BY <2>1 DEF KnownInv, UploaderKnown, Holding
  <2> QED
    BY <2>3, <2>4, KnownSpellings DEF KnownInv
<1>2. CASE OverlapNext
  BY <1>2, NewStepsKnow, OldStepsKnow, EndsKnow DEF OverlapNext
<1> QED
  BY <1>1, <1>2

LEMMA KnownInvariant ==
    ASSUME ~Faults PROVE OverlapSpec => []KnownInv
<1>1. OverlapInv /\ KnownInv /\ [OverlapNext]_overlapVars => KnownInv'
  BY KnownStep
<1> QED
  BY KnownInit, OverlapInvariant, <1>1, PTL DEF OverlapSpec

-----------------------------------------------------------------------------
\* Neither the other child's prune, nor its undo, nor the reset of a restarted
\* uploader takes the row from a child that is writing a segment; nor its file,
\* unless the two were given one second.
THEOREM WritersAreSafe ==
    ASSUME ~Faults PROVE OverlapSpec => []WritersKeepSegments
<1>1. ASSUME OverlapInv, KnownInv PROVE WritersKeepSegments
  <2>1. ASSUME NEW c, Fits(c), Known(c)
        PROVE  KeepsSegment(c.pc, c.mode, c.id, c.path)
    BY <2>1 DEF Fits, MemoryFits, Known, Knows, Writes, KeepsSegment, RowsIn
  <2>2. Fits(Mine) /\ Fits(Theirs) /\ Known(Mine) /\ Known(Theirs)
    BY <1>1, Spellings, KnownSpellings DEF OverlapInv, KnownInv
  <2> QED
    BY <2>1, <2>2 DEF WritersKeepSegments, Mine, Theirs
<1> QED
  BY <1>1, OverlapInvariant, KnownInvariant, PTL

\* The uploader of the restarted service takes neither the segment that the
\* new child has open nor the one that the old child still has, and reads
\* neither's file unless the row that it took is of the same second.
THEOREM NeitherIsUploaded ==
    ASSUME ~Faults PROVE OverlapSpec => []OpenSegmentsNotUploaded
<1>1. ASSUME OverlapInv, KnownInv PROVE OpenSegmentsNotUploaded
  <2>1. ASSUME NEW c, Fits(c), c.pc \in {"recv", "push", "init", "undo", "close"},
               c.id # 0
        PROVE  seg.id # c.id /\ (c.id \in Alone => body.by # c.id)
    <3>1. c.id \in DOMAIN rows /\ rows[c.id].state = "recording"
      BY <2>1 DEF Fits, MemoryFits, Writes
    <3>2. c.id \in 1..lastId
      BY <1>1, <3>1, TableNumbers DEF OverlapInv, OwnInv, TypeInv
    <3>3. seg.id # c.id
      BY <1>1, <2>1, <3>1
      DEF OverlapInv, OwnInv, OwnUploader, KnownInv, UploaderKnown, Holding,
          NoSegment
    <3>4. ASSUME c.id \in Alone, body.by = c.id PROVE FALSE
      <4>1. upc = "sending" /\ starts[c.id] = seg.start
        BY <1>1, <2>1, <3>4 DEF KnownInv, UploaderKnown, NoBody
      <4>2. seg.id \in 1..lastId /\ seg.start = starts[seg.id]
        BY <1>1, <4>1
        DEF OverlapInv, OwnInv, OwnUploader, KnownInv, UploaderKnown, Holding
      <4> QED
        BY <3>3, <3>4, <4>1, <4>2 DEF Alone
    <3> QED
      BY <3>3, <3>4
  <2>2. Fits(Mine) /\ Fits(Theirs)
    BY <1>1, Spellings DEF OverlapInv
  <2> QED
    BY <2>1, <2>2 DEF OpenSegmentsNotUploaded, Untouched, Mine, Theirs
<1> QED
  BY <1>1, OverlapInvariant, KnownInvariant, PTL

\* With two children at work, too, and although they may share a path, every
\* file has the row that will let a prune find it.
THEOREM OverlapFilesTracked ==
    ASSUME ~Faults PROVE OverlapSpec => []EveryFileTracked
<1>1. KnownInv => EveryFileTracked
  BY DEF KnownInv, TableKnown, EveryFileTracked
<1> QED
  BY <1>1, KnownInvariant, PTL

-----------------------------------------------------------------------------
(* What is left behind.                                                    *)

\* LeftBehind, for the memories c and e of the two children.
Stranded(r, f, alone, c, e, i) ==
    IF r[i].state = "recording" THEN i # c.id /\ i # e.id
    ELSE /\ i \in alone
         /\ ~ (r[i].start \in DOMAIN f /\ f[r[i].start].by = i)
         /\ ~ (c.pc = "delete" /\ c.victim.id = i)
         /\ ~ (e.pc = "delete" /\ e.victim.id = i)

LEMMA StrandedIs ==
    /\ \A i : LeftBehind(i) <=> Stranded(rows, files, Alone, Mine, Theirs, i)
    /\ \A i : LeftBehind(i)' <=> Stranded(rows', files', Alone', Mine', Theirs', i)
<1>1. \A i : LeftBehind(i) <=> Stranded(rows, files, Alone, Mine, Theirs, i)
  BY DEF LeftBehind, Stranded, Mine, Theirs
<1>2. \A i : LeftBehind(i)' <=> Stranded(rows', files', Alone', Mine', Theirs', i)
  BY DEF LeftBehind, Stranded, Mine, Theirs
<1> QED
  BY <1>1, <1>2

LEMMA StrandedSymmetric ==
    ASSUME NEW r, NEW f, NEW a, NEW c, NEW e, NEW i
    PROVE  Stranded(r, f, a, c, e, i) <=> Stranded(r, f, a, e, c, i)
BY DEF Stranded

LEMMA StepStrandsNone ==
    ASSUME ~Faults, TableTypeOK, History, TableKnown, NEW c, NEW d, NEW e,
           Fits(c), Fits(e), Known(c), Known(e), Steps(c, d), Remember,
           NEW i \in DOMAIN rows', Stranded(rows', files', Alone', d, e, i)
    PROVE  i \in DOMAIN rows /\ Stranded(rows, files, Alone, c, e, i)
<1>a. lastId \in Nat /\ DOMAIN rows \subseteq 1..lastId
  BY TableNumbers
<1>b. ~Registers(c, d) => UNCHANGED starts /\ Alone' = Alone
  BY StepSeconds
<1> USE DEF Stranded
<1>1. CASE UNCHANGED tableVars /\ Moves(c, d)
  <2>0. UNCHANGED <<rows, files>> /\ Alone' = Alone /\ c.pc # "delete"
    <3>1. ~Registers(c, d)
      BY <1>1, <1>a, RegisterCounts DEF tableVars
    <3> QED
      BY <1>1, <1>b, <3>1 DEF tableVars, Moves, Stays
  <2>1. ASSUME i = c.id, rows[i].state = "recording"
        PROVE  d.id = c.id
    <3>1. c.id # 0 /\ c.pc \notin {"sum", "fetch", "boot", "register"} /\ c.mode # "rtmp"
      BY <1>a, <2>0, <2>1 DEF Fits, MemoryFits, Known, Knows
    <3> QED
      BY <1>1, <3>1 DEF Moves, Stays, Fits, MemoryFits
  <2> QED
    BY <2>0, <2>1
<1>2. CASE Registers(c, d)
  <2>1. i # lastId + 1 /\ i \in DOMAIN rows /\ rows'[i] = rows[i] /\ UNCHANGED files
    BY <1>2, RegisterKnows
  <2>2. i \in Alone' => i \in Alone
    BY <1>a, <2>1, StepSeconds DEF SameSeconds
  <2>3. c.id = 0 /\ i # 0 /\ c.pc # "delete"
    BY <1>2, <1>a, <2>1 DEF Registers, Fits, MemoryFits
  <2> QED
    BY <2>1, <2>2, <2>3
<1>3. CASE Creates(c, d)
  <2>1. /\ UNCHANGED rows /\ Alone' = Alone /\ d.id = c.id /\ c.pc # "delete"
        /\ c.id \in DOMAIN rows /\ rows[c.id].state = "recording"
        /\ c.path = starts[c.id]
    BY <1>3, <1>b
    DEF Creates, Registers, Stays, Fits, MemoryFits, Known, Knows, Writes
  <2>2. ASSUME rows[i].state # "recording", i \in Alone
        PROVE  rows[i].start # c.path
    <3>1. i # c.id /\ i \in 1..lastId /\ c.id \in 1..lastId
      BY <1>a, <2>1, <2>2
    <3> QED
      BY <2>1, <2>2, <3>1 DEF TableKnown, Alone
  <2> QED
    BY <1>3, <2>1, <2>2 DEF Creates, CreateFile
<1>4. CASE Pushes(c, d)
  <2>1. /\ UNCHANGED rows /\ Alone' = Alone /\ d.id = c.id /\ c.pc # "delete"
    BY <1>4, <1>b DEF Pushes, Registers, Stays
  <2> QED
    BY <1>4, <2>1, PushFiles
<1>5. CASE Undoes(c, d)
  <2>1. i # c.id /\ i \in DOMAIN rows /\ rows'[i] = rows[i] /\ UNCHANGED files
        /\ Alone' = Alone /\ c.pc # "delete"
    BY <1>5, <1>b DEF Undoes, Registers, DeleteSegment
  <2> QED
    BY <2>1
<1>6. CASE Finishes(c, d)
  <2>1. /\ c.id \in DOMAIN rows /\ c.path = starts[c.id]
        /\ c.id \in Alone => c.path \in DOMAIN files /\ files[c.path].by = c.id
    BY <1>6 DEF Finishes, Fits, MemoryFits, Known, Knows, Writes
  <2>2. /\ DOMAIN rows' = DOMAIN rows /\ UNCHANGED files /\ Alone' = Alone
        /\ rows'[c.id].state = "pending" /\ rows'[c.id].start = rows[c.id].start
        /\ \A j \in DOMAIN rows : j # c.id => rows'[j] = rows[j]
        /\ d.id = c.id /\ c.pc # "delete"
    BY <1>6, <1>b, <2>1
    DEF Finishes, Registers, Stays, UpdateSegment, TableTypeOK, Row
  <2>3. i # c.id
    BY <2>1, <2>2 DEF TableKnown
  <2> QED
    BY <2>2, <2>3
<1>7. CASE Unlinks(c, d)
  <2>1. /\ UNCHANGED rows /\ Alone' = Alone /\ d.id = c.id /\ c.pc # "delete"
        /\ d.pc = "delete" /\ d.victim = c.victim
        /\ c.victim.start = starts[c.victim.id] /\ c.victim.id \in 1..lastId
    BY <1>7, <1>b
    DEF Unlinks, Registers, Stays, Fits, MemoryFits, Known, Knows, Prunes
  <2>2. ASSUME rows[i].state # "recording", i \in Alone
        PROVE  rows[i].start # c.victim.start
    <3>1. i # c.victim.id /\ i \in 1..lastId
      BY <1>a, <2>1, <2>2
    <3> QED
      BY <2>1, <2>2, <3>1 DEF TableKnown, Alone
  <2> QED
    BY <1>7, <2>1, <2>2 DEF Unlinks, UnlinkFile
<1>8. CASE Deletes(c, d)
  <2>1. /\ i \in DOMAIN rows /\ i # c.victim.id /\ rows'[i] = rows[i]
        /\ UNCHANGED files /\ Alone' = Alone
    BY <1>8, <1>b DEF Deletes, Registers, DeleteSegment
  <2>2. rows[i].state = "recording" => i # c.id
    BY <1>8, <2>1 DEF Deletes, Known, Knows
  <2> QED
    BY <2>1, <2>2
<1> QED
  BY <1>1, <1>2, <1>3, <1>4, <1>5, <1>6, <1>7, <1>8 DEF Steps, Fails

\* Killing the parent, restarting, undoing and pruning leave nothing behind,
\* though two prunes may have the same victim; a dying child leaves at most
\* the row it had in hand.
THEOREM DeathsAloneLeaveRows ==
    ASSUME ~Faults PROVE OverlapSpec => OnlyDeathsLeaveRows
<1> DEFINE Now(i) == i \in DOMAIN rows /\ Stranded(rows, files, Alone, Mine, Theirs, i)
           Then(i) == Stranded(rows', files', Alone', Mine', Theirs', i)
           Held == {cur, victim.id, oldCur, oldVictim.id}
<1>1. ASSUME OverlapInv, KnownInv, OverlapNext, NEW i \in DOMAIN rows', Then(i)
      PROVE  Now(i) \/ (crashes' # crashes /\ i \in Held)
  <2> USE <1>1 DEF OverlapInv, KnownInv
  <2>1. /\ TableTypeOK /\ lastId \in Nat /\ DOMAIN rows \subseteq 1..lastId
        /\ Fits(Mine) /\ Fits(Theirs) /\ Known(Mine) /\ Known(Theirs)
    BY Spellings, KnownSpellings, TableNumbers DEF OwnInv, TypeInv
  <2>2. ASSUME UNCHANGED <<rows, lastId, files, starts>>
        PROVE  Alone' = Alone
    BY <2>1, <2>2, NothingNew
  <2>3. CASE NewSteps
    <3>0. Theirs' = Theirs /\ Remember
      BY <2>3 DEF NewSteps, oldVars, oldMemory, Theirs
    <3>1. CASE ChildSteps
      <4>1. Steps(Mine, Mine')
        BY <2>1, <3>1, MineSteps DEF ChildSteps
      <4> QED
        BY <2>1, <3>0, <4>1, StepStrandsNone
    <3>2. CASE UploaderSteps
      <4>1. UploaderNext /\ Mine' = Mine
        BY <3>2 DEF UploaderSteps, childVars, Mine
      <4>2. /\ UNCHANGED <<lastId, files>> /\ DOMAIN rows' = DOMAIN rows
            /\ \A j \in DOMAIN rows :
                  /\ rows'[j].start = rows[j].start
                  /\ rows'[j].state = "recording" <=> rows[j].state = "recording"
        BY <4>1, UploaderRows
      <4>3. Alone' = Alone
        BY <3>0, <4>2 DEF Remember, Alone
      <4> QED
        BY <3>0, <4>1, <4>2, <4>3 DEF Stranded
    <3>3. CASE Shutdown \/ Exit \/ ChildCrash
      <4>1. UNCHANGED <<rows, lastId, files, starts>> /\ (Ends(Mine') \/ Mine' = Mine)
        BY <3>0, <3>3, QuietSteps DEF Remember
      <4>2. CASE Mine' = Mine
        BY <2>2, <3>0, <4>1, <4>2
      <4>3. CASE Ends(Mine') /\ ChildCrash
        <5>1. crashes' # crashes
          BY <4>3, ConstantTypes DEF ChildCrash, OwnInv, TypeInv
        <5> QED
          BY <2>1, <2>2, <3>0, <4>1, <4>3, <5>1 DEF Stranded, Ends, Mine
      <4>4. CASE Shutdown \/ Exit
        <5>1. Mine' = Mine
          BY <4>4 DEF Shutdown, Exit, childVars, Mine
        <5> QED
          BY <4>2, <5>1
      <4> QED
        BY <3>3, <4>1, <4>2, <4>3, <4>4
    <3> QED
      BY <2>3, <3>1, <3>2, <3>3 DEF NewSteps
  <2>4. CASE OldReceives \/ OldLeaves \/ OldWorks
    <3>1. Steps(Theirs, Theirs') /\ Mine' = Mine
      BY <2>1, <2>4, TheirsSteps DEF OldReceives, OldLeaves, OldWorks, childVars, Mine
    <3>2. Remember
      BY <2>4
      DEF OldReceives, OldLeaves, OldWorks, Old!RecvFrame, Old!LeaveLoop,
          Old!tableVars, Remember
    <3>3. Stranded(rows', files', Alone', Theirs', Mine, i)
      BY <3>1, StrandedSymmetric
    <3>4. i \in DOMAIN rows /\ Stranded(rows, files, Alone, Theirs, Mine, i)
      BY <2>1, <3>1, <3>2, <3>3, StepStrandsNone
    <3> QED
      BY <3>4, StrandedSymmetric
  <2>5. CASE ParentKill
    <3>1. /\ UNCHANGED <<rows, lastId, files, starts>>
          /\ Theirs' = Mine /\ Ends(Mine')
          /\ Theirs.pc = "down" /\ Theirs.id = 0
      BY <2>1, <2>5, EndsMine
      DEF ParentKill, Inherit, UploaderDies, tableVars, Theirs, Mine, Fits,
          MemoryFits
    <3> QED
      BY <2>1, <2>2, <3>1 DEF Stranded, Ends
  <2>6. CASE OldDies \/ PowerLoss
    <3>1. /\ UNCHANGED <<rows, lastId, files, starts>> /\ Ends(Theirs')
          /\ Ends(Mine') \/ Mine' = Mine
      BY <2>6, EndsMine, EndsTheirs
      DEF OldDies, PowerLoss, DeviceCrash, UploaderDies, Old!ChildDies,
          Old!tableVars, tableVars, childVars, Mine
    <3>2. crashes' # crashes
      BY <2>6, ConstantTypes DEF OldDies, PowerLoss, DeviceCrash, OwnInv, TypeInv
    <3> QED
      BY <2>1, <2>2, <3>1, <3>2 DEF Stranded, Ends, Mine, Theirs
  <2> QED
    BY <2>3, <2>4, <2>5, <2>6 DEF OverlapNext
<1>2. ASSUME OverlapInv, KnownInv, OverlapNext
      PROVE  \A i \in DOMAIN rows' :
                LeftBehind(i)' => \/ i \in DOMAIN rows /\ LeftBehind(i)
                                 \/ (crashes' # crashes /\ i \in Held)
  <2> TAKE i \in DOMAIN rows'
  <2> HAVE LeftBehind(i)'
  <2> HIDE DEF Held, Now, Then
  <2>1. Then(i)
    BY StrandedIs DEF Then
  <2>2. Now(i) \/ (crashes' # crashes /\ i \in Held)
    BY <1>1, <1>2, <2>1
  <2> QED
    BY <2>2, StrandedIs DEF Now
<1>3. OverlapInv /\ KnownInv /\ [OverlapNext]_overlapVars =>
        [\A i \in DOMAIN rows' :
            LeftBehind(i)' => \/ i \in DOMAIN rows /\ LeftBehind(i)
                             \/ /\ crashes' # crashes
                                /\ i \in {cur, victim.id, oldCur, oldVictim.id}
        ]_overlapVars
  BY <1>2
<1> QED
  BY <1>3, OverlapInvariant, KnownInvariant, PTL DEF OverlapSpec, OnlyDeathsLeaveRows
=============================================================================
