----------------------- MODULE StreamSupervisorProofs -----------------------
(***************************************************************************)
(* The safety properties of StreamSupervisor, for any number of process    *)
(* ids and buffers and any pair of delays.                                 *)
(***************************************************************************)
EXTENDS StreamSupervisor, TLAPS

\* What the parent knows of its child: it is online exactly with a socket,
\* which is the socket of the child it will reap.
ParentInv ==
    /\ ppc \in {"spawn", "exited"} => childPid = 0
    /\ ppc \in {"spawn", "restart", "reap", "exited"} => ~online
    /\ ppc \in {"send", "ack"} => online
    /\ online => sock = childPid /\ childPid # 0
    /\ ~online => sock = 0

\* The buffer in hand is not the driver's.
BufferInv ==
    /\ held \notin driver
    /\ ppc \in {"send", "ack", "requeue"} => held # 0

\* A frame that a child may read or is reading is the one in the parent's
\* hands, the parent waits for its ack, and the ack is not there yet.
Awaited(p) == ppc = "ack" /\ sock = p /\ ~ack[p]

FrameInv ==
    \A p \in Pid :
        /\ EndOpen(p) /\ inbox[p] # 0 =>
              Awaited(p) /\ inbox[p] = held /\ using[p] = 0
        /\ using[p] # 0 => Awaited(p) /\ using[p] = held /\ inbox[p] = 0
        /\ kids[p] = "encode" <=> using[p] # 0

IInv ==
    /\ TypeOK
    /\ ParentInv
    /\ EveryChildKnown
    /\ BufferInv
    /\ FrameInv
    /\ AckIsForFrame

\* A step of the child p.
ChildStep(p) == ChildWork(p) \/ ChildOutputs(p) \/ ChildCrashes(p)

USE SupervisorConstants DEF SupervisorConstants, Pid, Buffer

LEMMA InitImpliesIInv == Init => IInv
<1> SUFFICES ASSUME Init PROVE IInv
    OBVIOUS
<1>1. TypeOK
  <2>1. ppc \in ParentPC /\ running \in BOOLEAN /\ online \in BOOLEAN
    BY DEF Init, ParentPC
  <2>2. /\ childPid \in {0} \cup Pid /\ sock \in {0} \cup Pid
        /\ delay \in BaseDelay..MaxDelay
        /\ held \in {0} \cup Buffer /\ driver \subseteq Buffer
        /\ term \subseteq Pid
    BY DEF Init
  <2>3. kids \in [Pid -> KidState] /\ ack \in [Pid -> BOOLEAN]
    BY DEF Init, KidState
  <2>4. inbox \in [Pid -> {0} \cup Buffer] /\ using \in [Pid -> {0} \cup Buffer]
    BY DEF Init
  <2> QED
    BY <2>1, <2>2, <2>3, <2>4 DEF TypeOK
<1>2. ParentInv /\ EveryChildKnown
  BY DEF Init, ParentInv, EveryChildKnown
<1>3. BufferInv
  BY DEF Init, BufferInv
<1>4. FrameInv /\ AckIsForFrame
  BY DEF Init, FrameInv, AckIsForFrame, EndOpen
<1> QED
  BY <1>1, <1>2, <1>3, <1>4 DEF IInv

-----------------------------------------------------------------------------
(* Types.                                                                  *)

\* The delay doubles up to its limit.
LEMMA DoubledType ==
  ASSUME delay \in BaseDelay..MaxDelay
  PROVE  Doubled \in BaseDelay..MaxDelay
BY DEF Doubled

LEMMA ReapedType ==
  ASSUME TypeOK
  PROVE  Reaped \in [Pid -> KidState]
BY DEF TypeOK, Reaped, KidState

LEMMA ForkType ==
  ASSUME TypeOK, NEW table \in [Pid -> KidState], NEW p \in Pid, Fork(table, p)
  PROVE  /\ online' \in BOOLEAN
         /\ childPid' \in {0} \cup Pid /\ sock' \in {0} \cup Pid
         /\ delay' \in BaseDelay..MaxDelay
         /\ kids' \in [Pid -> KidState]
         /\ inbox' \in [Pid -> {0} \cup Buffer]
         /\ ack' \in [Pid -> BOOLEAN]
         /\ term' \subseteq Pid
BY DEF TypeOK, Fork, KidState

LEMMA MarkOfflineType ==
  ASSUME TypeOK, MarkOffline
  PROVE  /\ online' \in BOOLEAN
         /\ childPid' \in {0} \cup Pid /\ sock' \in {0} \cup Pid
         /\ delay' \in BaseDelay..MaxDelay
         /\ kids' \in [Pid -> KidState]
BY ReapedType DEF TypeOK, MarkOffline

LEMMA ParentWorkTypes ==
  ASSUME TypeOK, ParentInv, BufferInv, ParentWork
  PROVE  TypeOK'
<1> USE DEF TypeOK, ParentPC, streamVars, bufferVars, wireVars, kidVars
<1>1. CASE FirstSpawn
  BY <1>1, ForkType DEF FirstSpawn
<1>2. CASE RestartWaits
  BY <1>2 DEF RestartWaits
<1>3. CASE RestartTooEarly
  BY <1>3, ReapedType DEF RestartTooEarly, MayRestart
<1>4. CASE RestartSpawns
  BY <1>4, ReapedType, ForkType DEF RestartSpawns, MayRestart
<1>5. CASE RestartFails
  BY <1>5, ReapedType, DoubledType DEF RestartFails, MayRestart
<1>6. CASE Dequeue
  BY <1>6 DEF Dequeue
<1>7. CASE SendFrame
  BY <1>7, MarkOfflineType DEF SendFrame, ParentInv
<1>8. CASE ReadAck
  BY <1>8, MarkOfflineType DEF ReadAck, ParentInv
<1>9. CASE Requeue
  BY <1>9 DEF Requeue, BufferInv
<1>10. CASE Stop
  <2>1. term' \subseteq Pid
    BY <1>10 DEF Stop
  <2>2. running' = FALSE /\ online' = FALSE /\ sock' = 0 /\ ppc' \in ParentPC
    BY <1>10 DEF Stop
  <2>3. UNCHANGED <<childPid, delay, held, driver, kids, inbox, ack, using>>
    BY <1>10 DEF Stop
  <2> QED
    BY <2>1, <2>2, <2>3
<1>11. CASE Reap
  BY <1>11, ReapedType DEF Reap
<1> QED
  BY <1>1, <1>2, <1>3, <1>4, <1>5, <1>6, <1>7, <1>8, <1>9, <1>10, <1>11
  DEF ParentWork

\* The steps of the parent that are left to the operator or the camera.
OtherStep == LeaveCapture \/ RequeueFails \/ Boot \/ Quit

LEMMA OtherTypes ==
  ASSUME TypeOK, OtherStep
  PROVE  TypeOK'
<1> USE DEF TypeOK, ParentPC, streamVars, bufferVars, wireVars, kidVars
<1>1. CASE LeaveCapture \/ RequeueFails
  BY <1>1 DEF LeaveCapture, RequeueFails
<1>2. CASE Boot
  BY <1>2 DEF Boot
<1>3. CASE Quit
  BY <1>3 DEF Quit
<1> QED
  BY <1>1, <1>2, <1>3 DEF OtherStep

LEMMA ChildTypes ==
  ASSUME TypeOK, NEW p \in Pid, ChildStep(p)
  PROVE  TypeOK'
<1> USE DEF TypeOK, KidState, Turn, streamVars, bufferVars, wireVars
<1>1. CASE ChildBoots(p)
  BY <1>1 DEF ChildBoots
<1>2. CASE ChildReceives(p)
  BY <1>2 DEF ChildReceives
<1>3. CASE ChildLeaves(p)
  BY <1>3 DEF ChildLeaves
<1>4. CASE ChildAcks(p)
  BY <1>4 DEF ChildAcks
<1>5. CASE ChildFails(p)
  BY <1>5 DEF ChildFails
<1>6. CASE ChildCloses(p)
  BY <1>6 DEF ChildCloses
<1>7. CASE ChildExits(p)
  BY <1>7 DEF ChildExits
<1>8. CASE ChildCrashes(p)
  BY <1>8 DEF ChildCrashes
<1> QED
  BY <1>1, <1>2, <1>3, <1>4, <1>5, <1>6, <1>7, <1>8
  DEF ChildStep, ChildWork, ChildOutputs

-----------------------------------------------------------------------------
(* The child that the parent knows.                                        *)

\* Once the only child is reaped, no process is left in the table.
LEMMA ReapedIsEmpty ==
  ASSUME EveryChildKnown, childPid # 0 => kids[childPid] = "zombie"
  PROVE  \A p \in Pid : Reaped[p] = "none"
BY DEF EveryChildKnown, Reaped

LEMMA ForkKnown ==
  ASSUME NEW table, \A q \in Pid : table[q] = "none",
         DOMAIN table = Pid, NEW p \in Pid, Fork(table, p)
  PROVE  /\ EveryChildKnown'
         /\ online' /\ sock' = childPid' /\ childPid' # 0
BY DEF Fork, EveryChildKnown

LEMMA MarkOfflineKnown ==
  ASSUME TypeOK, ParentInv, EveryChildKnown, online, MarkOffline
  PROVE  EveryChildKnown' /\ ~online' /\ sock' = 0
BY DEF TypeOK, ParentInv, EveryChildKnown, MarkOffline, Reaped

LEMMA ParentWorkKnown ==
  ASSUME TypeOK, ParentInv, EveryChildKnown, ParentWork
  PROVE  ParentInv' /\ EveryChildKnown'
<1> USE DEF TypeOK, ParentInv, streamVars, bufferVars, wireVars, kidVars
<1>1. CASE FirstSpawn
  <2>1. \A q \in Pid : kids[q] = "none"
    BY <1>1 DEF FirstSpawn, EveryChildKnown
  <2>2. CASE \E p \in Pid : Fork(kids, p)
    BY <1>1, <2>1, <2>2, ForkKnown DEF FirstSpawn
  <2>3. CASE UNCHANGED <<streamVars, kids, wireVars, term>>
    BY <1>1, <2>3 DEF FirstSpawn, EveryChildKnown
  <2> QED
    BY <1>1, <2>2, <2>3 DEF FirstSpawn
<1>2. CASE RestartWaits
  BY <1>2 DEF RestartWaits, EveryChildKnown
<1>3. CASE RestartTooEarly \/ RestartFails
  BY <1>3, ReapedIsEmpty
  DEF RestartTooEarly, RestartFails, MayRestart, EveryChildKnown
<1>4. CASE RestartSpawns
  <2>1. \A q \in Pid : Reaped[q] = "none"
    BY <1>4, ReapedIsEmpty DEF RestartSpawns, MayRestart
  <2>2. DOMAIN Reaped = Pid
    BY DEF Reaped
  <2> QED
    BY <1>4, <2>1, <2>2, ForkKnown DEF RestartSpawns, MayRestart
<1>5. CASE Dequeue
  BY <1>5 DEF Dequeue, EveryChildKnown
<1>6. CASE SendFrame
  BY <1>6, MarkOfflineKnown DEF SendFrame, EveryChildKnown
<1>7. CASE ReadAck
  BY <1>7, MarkOfflineKnown DEF ReadAck, EveryChildKnown
<1>8. CASE Requeue
  BY <1>8 DEF Requeue, EveryChildKnown
<1>9. CASE Stop
  BY <1>9 DEF Stop, EveryChildKnown
<1>10. CASE Reap
  BY <1>10, ReapedIsEmpty DEF Reap, EveryChildKnown
<1> QED
  BY <1>1, <1>2, <1>3, <1>4, <1>5, <1>6, <1>7, <1>8, <1>9, <1>10
  DEF ParentWork

LEMMA OtherKnown ==
  ASSUME TypeOK, ParentInv, EveryChildKnown, OtherStep
  PROVE  ParentInv' /\ EveryChildKnown'
BY DEF TypeOK, ParentInv, EveryChildKnown, OtherStep, LeaveCapture,
       RequeueFails, Boot, Quit, streamVars, bufferVars, wireVars, kidVars

\* A child changes only itself, and only while it lives.
LEMMA ChildKnown ==
  ASSUME TypeOK, ParentInv, EveryChildKnown, NEW p \in Pid, ChildStep(p)
  PROVE  ParentInv' /\ EveryChildKnown'
<1>1. /\ kids[p] # "none"
      /\ \A q \in Pid \ {p} : kids'[q] = kids[q]
      /\ UNCHANGED <<ppc, online, childPid, sock>>
  BY DEF TypeOK, ChildStep, ChildWork, ChildOutputs, ChildBoots, ChildReceives,
         ChildLeaves, ChildAcks, ChildFails, ChildCloses, ChildExits,
         ChildCrashes, Turn, streamVars
<1> QED
  BY <1>1 DEF ParentInv, EveryChildKnown

-----------------------------------------------------------------------------
(* The buffers.                                                            *)

LEMMA BufferStep ==
  ASSUME TypeOK, ParentInv, BufferInv, Next
  PROVE  BufferInv'
<1> USE DEF TypeOK, BufferInv, streamVars, bufferVars
<1>1. CASE Dequeue
  BY <1>1 DEF Dequeue
<1>2. CASE SendFrame \/ ReadAck
  BY <1>2 DEF SendFrame, ReadAck
<1>3. CASE Requeue \/ RequeueFails
  BY <1>3 DEF Requeue, RequeueFails
<1>4. CASE Boot
  BY <1>4 DEF Boot
<1>5. CASE FirstSpawn \/ RestartWaits \/ RestartTooEarly \/ RestartSpawns
             \/ RestartFails
  BY <1>5 DEF FirstSpawn, RestartWaits, RestartTooEarly, RestartSpawns,
              RestartFails
<1>6. CASE Stop \/ Reap \/ LeaveCapture \/ Quit
  BY <1>6 DEF Stop, Reap, LeaveCapture, Quit
<1>7. CASE \E p \in Pid : ChildStep(p)
  BY <1>7 DEF ChildStep, ChildWork, ChildOutputs, ChildBoots, ChildReceives,
              ChildLeaves, ChildAcks, ChildFails, ChildCloses, ChildExits,
              ChildCrashes, Turn
<1> QED
  BY <1>1, <1>2, <1>3, <1>4, <1>5, <1>6, <1>7 DEF Next, ParentWork, ChildStep

-----------------------------------------------------------------------------
(* The frame and its ack.                                                  *)

WireInv == FrameInv /\ AckIsForFrame

\* A new child has nothing of the one before it.
LEMMA ForkWire ==
  ASSUME TypeOK, WireInv, NEW table \in [Pid -> {"none"}], NEW p \in Pid,
         Fork(table, p), \A q \in Pid : kids[q] # "encode", UNCHANGED using
  PROVE  WireInv'
BY DEF TypeOK, WireInv, FrameInv, AckIsForFrame, Awaited, EndOpen, Fork

\* A child that has closed its end has no frame any more, and a parent that
\* finds this out has no other.
LEMMA MarkOfflineWire ==
  ASSUME TypeOK, ParentInv, EveryChildKnown, WireInv, online, ~EndOpen(sock),
         MarkOffline, UNCHANGED <<inbox, using, ack>>
  PROVE  WireInv'
<1>1. \A q \in Pid : using[q] = 0 /\ kids[q] # "encode" /\ ~EndOpen(q)
  BY DEF TypeOK, ParentInv, EveryChildKnown, WireInv, FrameInv, Awaited, EndOpen
<1>2. \A q \in Pid : kids'[q] \in {kids[q], "none"}
  BY DEF TypeOK, MarkOffline, Reaped
<1>3. sock' = 0
  BY DEF MarkOffline
<1> QED
  BY <1>1, <1>2, <1>3 DEF WireInv, FrameInv, AckIsForFrame, Awaited, EndOpen

\* While the parent neither sends nor waits there is no frame and no ack.
LEMMA IdleWire ==
  ASSUME TypeOK, WireInv, ppc # "ack"
  PROVE  \A q \in Pid : /\ EndOpen(q) => inbox[q] = 0
                        /\ using[q] = 0 /\ kids[q] # "encode"
                        /\ sock = q => ~ack[q]
BY DEF WireInv, FrameInv, AckIsForFrame, Awaited

LEMMA ParentWorkWire ==
  ASSUME TypeOK, ParentInv, EveryChildKnown, BufferInv, WireInv, ParentWork
  PROVE  WireInv'
<1> USE DEF streamVars, bufferVars, wireVars, kidVars
<1>1. CASE FirstSpawn
  <2>1. kids \in [Pid -> {"none"}]
    BY <1>1 DEF FirstSpawn, TypeOK, ParentInv, EveryChildKnown
  <2>2. CASE \E p \in Pid : Fork(kids, p)
    BY <1>1, <2>1, <2>2, ForkWire DEF FirstSpawn
  <2>3. CASE UNCHANGED <<streamVars, kids, wireVars, term>>
    BY <1>1, <2>3, IdleWire
    DEF FirstSpawn, WireInv, FrameInv, AckIsForFrame, Awaited, EndOpen
  <2> QED
    BY <1>1, <2>2, <2>3 DEF FirstSpawn
<1>2. CASE RestartWaits \/ Dequeue \/ Requeue
  BY <1>2, IdleWire
  DEF RestartWaits, Dequeue, Requeue, WireInv, FrameInv, AckIsForFrame, Awaited,
      EndOpen
<1>3. CASE RestartTooEarly \/ RestartFails
  <2>1. kids' \in [Pid -> {"none"}] /\ UNCHANGED <<sock, inbox, ack, using>>
    BY <1>3, ReapedIsEmpty, ReapedType
    DEF RestartTooEarly, RestartFails, MayRestart
  <2>2. ppc # "ack"
    BY <1>3 DEF RestartTooEarly, RestartFails, MayRestart
  <2> QED
    BY <2>1, <2>2, IdleWire
    DEF WireInv, FrameInv, AckIsForFrame, Awaited, EndOpen
<1>4. CASE RestartSpawns
  <2>1. Reaped \in [Pid -> {"none"}]
    BY <1>4, ReapedIsEmpty, ReapedType DEF RestartSpawns, MayRestart
  <2>2. \A q \in Pid : kids[q] # "encode"
    BY <1>4, IdleWire DEF RestartSpawns, MayRestart
  <2> QED
    BY <1>4, <2>1, <2>2, ForkWire DEF RestartSpawns
<1>5. CASE SendFrame
  <2>1. online /\ sock \in Pid /\ held # 0 /\ ppc # "ack"
    BY <1>5 DEF SendFrame, TypeOK, ParentInv, BufferInv
  <2>2. CASE EndOpen(sock)
    <3>1. /\ inbox' = [inbox EXCEPT ![sock] = held] /\ ppc' = "ack"
          /\ UNCHANGED <<sock, kids, held, ack, using>>
      BY <1>5, <2>2 DEF SendFrame
    <3>2. \A q \in Pid : inbox'[q] = IF q = sock THEN held ELSE inbox[q]
      BY <3>1 DEF TypeOK
    <3> QED
      BY <2>1, <3>1, <3>2, IdleWire
      DEF WireInv, FrameInv, AckIsForFrame, Awaited, EndOpen
  <2>3. CASE ~EndOpen(sock)
    BY <1>5, <2>1, <2>3, MarkOfflineWire DEF SendFrame
  <2> QED
    BY <2>2, <2>3
<1>6. CASE ReadAck
  <2>1. online /\ sock \in Pid
    BY <1>6 DEF ReadAck, TypeOK, ParentInv
  <2>2. CASE ack[sock] /\ ack' = [ack EXCEPT ![sock] = FALSE]
              /\ UNCHANGED <<streamVars, kids>>
    <3>1. \A q \in Pid : using[q] = 0 /\ (EndOpen(q) => inbox[q] = 0)
      BY <2>1, <2>2 DEF TypeOK, WireInv, FrameInv, AckIsForFrame, Awaited
    <3>2. ~ack'[sock] /\ UNCHANGED <<sock, kids, inbox, using>>
      BY <1>6, <2>1, <2>2 DEF ReadAck, TypeOK
    <3> QED
      BY <3>1, <3>2 DEF WireInv, FrameInv, AckIsForFrame, Awaited, EndOpen
  <2>3. CASE ~EndOpen(sock) /\ MarkOffline /\ UNCHANGED ack
    BY <1>6, <2>1, <2>3, MarkOfflineWire DEF ReadAck
  <2> QED
    BY <1>6, <2>2, <2>3 DEF ReadAck
<1>7. CASE Stop
  BY <1>7, IdleWire
  DEF Stop, WireInv, FrameInv, AckIsForFrame, Awaited, EndOpen
<1>8. CASE Reap
  <2>1. kids' \in [Pid -> {"none"}] /\ UNCHANGED <<sock, inbox, ack, using>>
    BY <1>8, ReapedIsEmpty, ReapedType DEF Reap
  <2>2. ppc # "ack"
    BY <1>8 DEF Reap
  <2> QED
    BY <2>1, <2>2, IdleWire
    DEF WireInv, FrameInv, AckIsForFrame, Awaited, EndOpen
<1> QED
  BY <1>1, <1>2, <1>3, <1>4, <1>5, <1>6, <1>7, <1>8 DEF ParentWork

LEMMA OtherWire ==
  ASSUME TypeOK, WireInv, OtherStep
  PROVE  WireInv'
<1> USE DEF WireInv, FrameInv, AckIsForFrame, Awaited, EndOpen, streamVars,
            bufferVars, wireVars, kidVars
<1>1. CASE LeaveCapture \/ RequeueFails \/ Boot
  BY <1>1, IdleWire DEF LeaveCapture, RequeueFails, Boot
<1>2. CASE Quit
  BY <1>2 DEF Quit
<1> QED
  BY <1>1, <1>2 DEF OtherStep

\* A child reads its frame once, and acknowledges it when it is done with it.
LEMMA ChildWire ==
  ASSUME TypeOK, WireInv, NEW p \in Pid, ChildStep(p)
  PROVE  WireInv'
<1> USE DEF TypeOK, WireInv, FrameInv, AckIsForFrame, Awaited, EndOpen, Turn,
            streamVars, bufferVars, wireVars
<1>1. CASE ChildBoots(p)
  BY <1>1 DEF ChildBoots
<1>2. CASE ChildReceives(p)
  BY <1>2 DEF ChildReceives
<1>3. CASE ChildLeaves(p)
  BY <1>3 DEF ChildLeaves
<1>4. CASE ChildAcks(p)
  BY <1>4 DEF ChildAcks
<1>5. CASE ChildFails(p)
  BY <1>5 DEF ChildFails
<1>6. CASE ChildCloses(p)
  BY <1>6 DEF ChildCloses
<1>7. CASE ChildExits(p)
  BY <1>7 DEF ChildExits
<1>8. CASE ChildCrashes(p)
  BY <1>8 DEF ChildCrashes
<1> QED
  BY <1>1, <1>2, <1>3, <1>4, <1>5, <1>6, <1>7, <1>8
  DEF ChildStep, ChildWork, ChildOutputs

-----------------------------------------------------------------------------
LEMMA NextKeeps == IInv /\ [Next]_vars => IInv'
<1> SUFFICES ASSUME IInv, [Next]_vars PROVE IInv'
    OBVIOUS
<1>1. TypeOK /\ ParentInv /\ EveryChildKnown /\ BufferInv /\ WireInv
  BY DEF IInv, WireInv
<1>2. CASE ParentWork
  <2>1. TypeOK' /\ ParentInv' /\ EveryChildKnown' /\ WireInv'
    BY <1>1, <1>2, ParentWorkTypes, ParentWorkKnown, ParentWorkWire
  <2>2. BufferInv'
    BY <1>1, <1>2, BufferStep DEF Next
  <2> QED
    BY <2>1, <2>2 DEF IInv, WireInv
<1>3. CASE OtherStep
  <2>1. TypeOK' /\ ParentInv' /\ EveryChildKnown' /\ WireInv'
    BY <1>1, <1>3, OtherTypes, OtherKnown, OtherWire
  <2>2. BufferInv'
    BY <1>1, <1>3, BufferStep DEF Next, OtherStep
  <2> QED
    BY <2>1, <2>2 DEF IInv, WireInv
<1>4. ASSUME NEW p \in Pid, ChildStep(p) PROVE IInv'
  <2>1. TypeOK' /\ ParentInv' /\ EveryChildKnown' /\ WireInv'
    BY <1>1, <1>4, ChildTypes, ChildKnown, ChildWire
  <2>2. BufferInv'
    BY <1>1, <1>4, BufferStep DEF Next, ChildStep
  <2> QED
    BY <2>1, <2>2 DEF IInv, WireInv
<1>5. CASE UNCHANGED vars
  BY <1>1, <1>5
  DEF IInv, TypeOK, ParentInv, EveryChildKnown, BufferInv, WireInv, FrameInv,
      AckIsForFrame, Awaited, EndOpen, vars, streamVars, bufferVars, wireVars,
      kidVars
<1> QED
  BY <1>2, <1>3, <1>4, <1>5 DEF Next, OtherStep, ChildStep

LEMMA IInvHolds == Spec => []IInv
<1>1. Init => IInv
  BY InitImpliesIInv
<1>2. IInv /\ [Next]_vars => IInv'
  BY NextKeeps
<1> QED
  BY <1>1, <1>2, PTL DEF Spec

\* Types of the parent and of the children it sees.
THEOREM SupervisorTypeCorrect == Spec => []TypeOK
<1>1. IInv => TypeOK
  BY DEF IInv
<1> QED
  BY <1>1, IInvHolds, PTL

\* The program never runs a second streaming child beside one that it has not
\* reaped.
THEOREM NoChildUnknown == Spec => []EveryChildKnown
<1>1. IInv => EveryChildKnown
  BY DEF IInv
<1> QED
  BY <1>1, IInvHolds, PTL

\* No buffer is queued in the driver while a child may still read it.
THEOREM LentFrameIsSafe == Spec => []FrameNotShared
<1>1. IInv => FrameNotShared
  <2> SUFFICES ASSUME IInv, NEW p \in Pid
               PROVE  /\ using[p] \notin driver
                      /\ kids[p] \in {"boot", "recv"} => inbox[p] \notin driver
      BY DEF FrameNotShared
  <2>1. 0 \notin driver /\ held \notin driver
    BY DEF IInv, TypeOK, BufferInv
  <2>2. using[p] \in {0, held}
    BY DEF IInv, FrameInv
  <2>3. kids[p] \in {"boot", "recv"} => inbox[p] \in {0, held}
    BY DEF IInv, FrameInv, EndOpen
  <2> QED
    BY <2>1, <2>2, <2>3
<1> QED
  BY <1>1, IInvHolds, PTL

\* The one byte that the parent reads answers the frame it has sent last.
THEOREM AckAnswersFrame == Spec => []AckIsForFrame
<1>1. IInv => AckIsForFrame
  BY DEF IInv
<1> QED
  BY <1>1, IInvHolds, PTL

\* main does not return before its child is gone.
THEOREM ExitIsClean == Spec => []ExitLeavesNoChild
<1>1. IInv => ExitLeavesNoChild
  BY DEF IInv, ParentInv, EveryChildKnown, ExitLeavesNoChild
<1> QED
  BY <1>1, IInvHolds, PTL
=============================================================================
