-------------------------- MODULE ChildOutputProofs --------------------------
(***************************************************************************)
(* The safety properties of ChildOutput, for every length of a segment,    *)
(* every back-off and any number of failing inits.                         *)
(***************************************************************************)
EXTENDS ChildOutput, TLAPS

\* What streamer_init has acquired before it comes to a place.
Acquired ==
    [p \in Parts |->
        CASE p = "fmt" -> {} [] p = "enc" -> {"fmt"}
          [] p = "frame" -> {"fmt", "enc"}
          [] p = "pb" -> {"fmt", "enc", "frame"}]

\* The place of the child decides which pointers are set.  An open output has
\* all of them, a place between two outputs none: so no memset forgets one
\* that works.
PointersInv ==
    /\ opc \in {"recv", "push", "clean"} => ready /\ header /\ s = Parts
    /\ opc \in Parts => s = Acquired[opc]
    /\ opc = "header" => s = Parts
    /\ opc \in {"start", "open", "ended"} => s = {}

Held(p) == IF p \in s THEN 1 ELSE 0

\* A pointer that is set points to an object that lives.
HeapInv ==
    \A p \in Parts : Held(p) <= heap[p] /\ heap[p] <= failures + Held(p)

ControlOK ==
    /\ opc \in OutputPC
    /\ target \in Output /\ mode \in Output
    /\ cause \in {"boot", "rotate", "push", "exit"}
    /\ s \in SUBSET Parts
    /\ heap \in [Parts -> Nat]
    /\ header \in BOOLEAN /\ ready \in BOOLEAN /\ storeReady \in BOOLEAN

TimersOK ==
    /\ age \in 0..SegmentTicks
    /\ sinceRetry \in 0..MaxTicks
    /\ backoff \in BaseTicks..MaxTicks
    /\ failures \in 0..MaxFailures

IInv == ControlOK /\ TimersOK /\ PointersInv /\ HeapInv

USE DEF Parts, Output, OutputPC

-----------------------------------------------------------------------------
LEMMA InitImpliesIInv == Init => IInv
<1> SUFFICES ASSUME Init PROVE IInv
    OBVIOUS
<1>1. ControlOK
  BY DEF Init, ControlOK
<1>2. TimersOK
  BY TicksAssumption DEF TicksAssumption, Init, TimersOK
<1>3. PointersInv
  BY DEF Init, PointersInv
<1>4. HeapInv
  BY DEF Init, HeapInv, Held
<1> QED
  BY <1>1, <1>2, <1>3, <1>4 DEF IInv

\* Acquiring what comes next.
LEMMA AcquireKeeps == IInv /\ Acquire => IInv'
<1> SUFFICES ASSUME IInv, Acquire PROVE IInv'
    OBVIOUS
<1>1. ControlOK'
  BY DEF IInv, ControlOK, Acquire, Following
<1>2. TimersOK'
  BY DEF IInv, TimersOK, Acquire, timers
<1>3. PointersInv'
  BY DEF IInv, ControlOK, PointersInv, Acquired, Acquire, Following
<1>4. HeapInv'
  <2>1. opc \notin s
    BY DEF IInv, PointersInv, Acquired, Acquire
  <2> QED
    BY <2>1, TicksAssumption
    DEF TicksAssumption, IInv, ControlOK, TimersOK, HeapInv, Held, Acquire
<1> QED
  BY <1>1, <1>2, <1>3, <1>4 DEF IInv

\* A clean takes away one object for every pointer, and the reset the pointers.
LEMMA ReleaseKeepsHeap ==
  ASSUME IInv, Release, Reset, UNCHANGED failures
  PROVE  heap' \in [Parts -> Nat] /\ HeapInv'
BY TicksAssumption
DEF TicksAssumption, IInv, ControlOK, TimersOK, HeapInv, Held, Release, Reset

\* A reset between two outputs has no pointer to forget.
LEMMA OpenKeeps == IInv /\ (StartChild \/ OpenFile) => IInv'
  BY DEF IInv, ControlOK, TimersOK, PointersInv, Acquired, HeapInv, Held,
         StartChild, OpenFile, Reset, timers

LEMMA WriteHeaderKeeps == IInv /\ WriteHeader => IInv'
  BY TicksAssumption
  DEF TicksAssumption, IInv, ControlOK, TimersOK, PointersInv, HeapInv, Held,
      WriteHeader

LEMMA InitFailsKeeps == IInv /\ InitFails => IInv'
<1> SUFFICES ASSUME IInv, InitFails PROVE IInv'
    OBVIOUS
<1>1. ControlOK'
  BY DEF IInv, ControlOK, InitFails, Reset, EnterFileMode
<1>2. TimersOK'
  BY TicksAssumption
  DEF TicksAssumption, IInv, TimersOK, InitFails, EnterFileMode, Doubled
<1>3. PointersInv'
  BY DEF IInv, PointersInv, InitFails, Reset
<1>4. HeapInv'
  BY TicksAssumption
  DEF TicksAssumption, IInv, ControlOK, TimersOK, HeapInv, Held, InitFails,
      Reset
<1> QED
  BY <1>1, <1>2, <1>3, <1>4 DEF IInv

\* Whoever cleans an output leaves none open.
LEMMA CleanKeeps ==
  IInv /\ (RestoreOrRotate \/ SwitchToFile \/ CloseAtExit) => IInv'
<1> SUFFICES ASSUME IInv, RestoreOrRotate \/ SwitchToFile \/ CloseAtExit
             PROVE  IInv'
    OBVIOUS
<1>1. Release /\ Reset /\ UNCHANGED failures
  BY DEF RestoreOrRotate, SwitchToFile, CloseAtExit, timers
<1>2. heap' \in [Parts -> Nat] /\ HeapInv'
  BY <1>1, ReleaseKeepsHeap
<1>3. ControlOK'
  BY <1>1, <1>2
  DEF IInv, ControlOK, RestoreOrRotate, SwitchToFile, CloseAtExit, Reset,
      EnterFileMode
<1>4. TimersOK'
  BY TicksAssumption
  DEF TicksAssumption, IInv, TimersOK, RestoreOrRotate, SwitchToFile,
      CloseAtExit,
      EnterFileMode, timers
<1>5. PointersInv'
  BY
  DEF PointersInv, Acquired, RestoreOrRotate, SwitchToFile, CloseAtExit, Reset
<1> QED
  BY <1>2, <1>3, <1>4, <1>5 DEF IInv

LEMMA RecvFrameKeeps ==
  ASSUME NEW ticks \in Ticks, IInv, RecvFrame(ticks)
  PROVE  IInv'
<1>1. /\ Later(age, ticks, SegmentTicks) \in 0..SegmentTicks
      /\ Later(sinceRetry, ticks, MaxTicks) \in 0..MaxTicks
  BY TicksAssumption DEF TicksAssumption, Ticks, IInv, TimersOK, Later
<1> QED
  BY <1>1
  DEF IInv, ControlOK, TimersOK, PointersInv, HeapInv, Held, RecvFrame,
      outputVars

\* The steps that only move the place.
LEMMA MoveKeeps ==
  IInv /\ (OpenFileFails \/ Push \/ PushFails \/ LeaveLoop) => IInv'
  BY DEF IInv, ControlOK, TimersOK, PointersInv, HeapInv, Held, OpenFileFails,
         Push, PushFails, LeaveLoop, outputVars, timers

LEMMA RespawnKeeps == IInv /\ Respawn => IInv'
<1> SUFFICES ASSUME Respawn PROVE IInv'
    OBVIOUS
<1>1. ControlOK'
  BY DEF ControlOK, Respawn, Reset
<1>2. TimersOK'
  BY TicksAssumption DEF TicksAssumption, TimersOK, Respawn
<1>3. PointersInv'
  BY DEF PointersInv, Respawn, Reset
<1>4. HeapInv'
  BY DEF HeapInv, Held, Respawn, Reset
<1> QED
  BY <1>1, <1>2, <1>3, <1>4 DEF IInv

LEMMA NextKeeps == IInv /\ [Next]_vars => IInv'
<1> SUFFICES ASSUME IInv, [Next]_vars PROVE IInv'
    OBVIOUS
<1>1. CASE Acquire
  BY <1>1, AcquireKeeps
<1>2. CASE StartChild \/ OpenFile
  BY <1>2, OpenKeeps
<1>3. CASE WriteHeader
  BY <1>3, WriteHeaderKeeps
<1>4. CASE InitFails
  BY <1>4, InitFailsKeeps
<1>5. CASE RestoreOrRotate \/ SwitchToFile \/ CloseAtExit
  BY <1>5, CleanKeeps
<1>6. CASE OpenFileFails \/ Push \/ PushFails \/ LeaveLoop
  BY <1>6, MoveKeeps
<1>7. CASE \E ticks \in Ticks : RecvFrame(ticks)
  BY <1>7, RecvFrameKeeps
<1>8. CASE Respawn
  BY <1>8, RespawnKeeps
<1>9. CASE UNCHANGED vars
  BY <1>9
  DEF IInv, ControlOK, TimersOK, PointersInv, HeapInv, Held, vars, outputVars,
      timers
<1> QED
  BY <1>1, <1>2, <1>3, <1>4, <1>5, <1>6, <1>7, <1>8, <1>9 DEF Next, Work

LEMMA IInvHolds == Spec => []IInv
<1>1. Init => IInv
  BY InitImpliesIInv
<1>2. IInv /\ [Next]_vars => IInv'
  BY NextKeeps
<1> QED
  BY <1>1, <1>2, PTL DEF Spec

-----------------------------------------------------------------------------
\* Every clock stays within what the code tells apart, the back-off between
\* its two constants, and no kind of object is held more often than the failed
\* inits and the open output account for.
THEOREM OutputTypeCorrect == Spec => []TypeOK
<1>1. IInv => TypeOK
  <2> SUFFICES ASSUME IInv PROVE TypeOK
    OBVIOUS
  <2>1. heap \in [Parts -> 0..MaxFailures + 1]
    BY TicksAssumption
    DEF TicksAssumption, IInv, ControlOK, TimersOK, HeapInv, Held
  <2> QED
    BY <2>1 DEF IInv, ControlOK, TimersOK, TypeOK
<1> QED
  BY <1>1, IInvHolds, PTL

\* streamer_push_zerocopy and streamer_clean never meet a muxer that
\* streamer_init did not open to its end.
THEOREM MuxerIsOpen == Spec => []OnlyOpenMuxerUsed
<1>1. IInv => OnlyOpenMuxerUsed
  BY DEF IInv, PointersInv, OnlyOpenMuxerUsed
<1> QED
  BY <1>1, IInvHolds, PTL

\* In a child of any age, what no pointer reaches is what failed inits left.
THEOREM LeakIsBounded == Spec => []OnlyFailedInitsLeak
<1>1. IInv => OnlyFailedInitsLeak
  BY DEF IInv, HeapInv, Held, OnlyFailedInitsLeak
<1> QED
  BY <1>1, IInvHolds, PTL
=============================================================================
