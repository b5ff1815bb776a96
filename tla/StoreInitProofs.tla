--------------------------- MODULE StoreInitProofs ---------------------------
(***************************************************************************)
(* What an opener may rely on behind local_store_open, and behind its look *)
(* at a column, for any number of threads, patches, kills and failures.    *)
(***************************************************************************)
EXTENDS StoreInit, FiniteSetTheorems, TLAPS

\* The init lock works: whoever is inside has it.
LockInv == \A o \in Opener : pc[o] \in Inside => lock = o

\* The columns behind the loop variable are there, and the one it is about to
\* add is not.
ProgressInv ==
    \A o \in Opener :
        /\ pc[o] \in Inside \cup {"lock", "wait", "done"} => root
        /\ pc[o] \in {"check", "alter", "recheck", "unlock", "done"} => table
        /\ pc[o] \in {"check", "alter", "recheck"} =>
               1..(patch[o] - 1) \subseteq columns
        /\ pc[o] \in {"alter", "recheck"} => patch[o] \in Column
        /\ pc[o] = "alter" => patch[o] \notin columns
        /\ pc[o] \in {"unlock", "done"} => columns = Column

IInv == TypeOK /\ LockInv /\ ProgressInv

LEMMA InitImpliesIInv == Init => IInv
<1> SUFFICES ASSUME Init PROVE IInv
    OBVIOUS
<1>1. TypeOK
  <2>1. pc \in [Opener -> Place] /\ patch \in [Opener -> 1..(Columns + 1)]
    BY OpenerConstants DEF OpenerConstants, Init, Place
  <2>2. lock \in Opener \cup {Free, Left} /\ inherited \subseteq Threads
    BY DEF Init
  <2>3. root \in BOOLEAN /\ table \in BOOLEAN /\ parentUp \in BOOLEAN
    BY Zenon DEF Init
  <2>4. columns \subseteq Column
    BY Zenon DEF Init
  <2>5. crashes \in 0..MaxCrashes /\ faults \in 0..MaxFaults
    BY OpenerConstants DEF OpenerConstants, Init
  <2> QED
    BY <2>1, <2>2, <2>3, <2>4, <2>5 DEF TypeOK
<1>2. LockInv /\ ProgressInv
  BY DEF Init, LockInv, ProgressInv, Inside
<1> QED
  BY <1>1, <1>2 DEF IInv

-----------------------------------------------------------------------------
(* Types.                                                                  *)

AnyStep(o) == OpenSteps(o) \/ TakeLockFails(o)

LEMMA OpenStepTypes ==
  ASSUME TypeOK, ProgressInv, NEW o \in Opener, AnyStep(o)
  PROVE  TypeOK'
<1> USE OpenerConstants
    DEF OpenerConstants, TypeOK, Go, Fault, Fails, NextPatch, Place, HasFile,
        Inside, dbVars, processVars, Column
<1>1. CASE MakeRoot(o)
  <2>1. pc' \in [Opener -> Place]
    BY <1>1 DEF MakeRoot
  <2>2. root' \in BOOLEAN
    BY <1>1 DEF MakeRoot
  <2>3. faults' \in 0..MaxFaults
    BY <1>1 DEF MakeRoot
  <2>4. UNCHANGED <<patch, lock, table, columns, inherited, parentUp, crashes>>
    BY <1>1 DEF MakeRoot
  <2> QED
    BY <2>1, <2>2, <2>3, <2>4
<1>2. CASE OpenLockFile(o)
  BY <1>2 DEF OpenLockFile
<1>10. CASE TakeLockFails(o)
  BY <1>10 DEF TakeLockFails
<1>3. CASE TakeLock(o)
  BY <1>3 DEF TakeLock
<1>4. CASE OpenDatabase(o)
  BY <1>4 DEF OpenDatabase
<1>5. CASE InitSchema(o)
  <2>1. pc' \in [Opener -> Place] /\ patch' \in [Opener -> 1..(Columns + 1)]
    BY <1>5 DEF InitSchema
  <2>2. table' \in BOOLEAN
    BY <1>5 DEF InitSchema, CreateTable
  <2>3. columns' \subseteq Column
    BY <1>5 DEF InitSchema, CreateTable
  <2>4. faults' \in 0..MaxFaults
    BY <1>5 DEF InitSchema
  <2>5. UNCHANGED <<lock, root, inherited, parentUp, crashes>>
    BY <1>5 DEF InitSchema
  <2> QED
    BY <2>1, <2>2, <2>3, <2>4, <2>5
<1>6. CASE CheckColumn(o)
  BY <1>6 DEF CheckColumn, Patches
<1>7. CASE AlterTable(o)
  <2>1. pc' \in [Opener -> Place]
    BY <1>7 DEF AlterTable
  <2>2. patch[o] \in Column
    BY <1>7 DEF AlterTable, ProgressInv
  <2>3. columns' = columns \cup {patch[o]} \/ columns' = columns
    BY <1>7 DEF AlterTable
  <2>4. patch' = [patch EXCEPT ![o] = patch[o] + 1] \/ patch' = patch
    BY <1>7 DEF AlterTable
  <2>5. patch' \in [Opener -> 1..(Columns + 1)]
    BY <2>2, <2>4
  <2>6. faults' \in 0..MaxFaults
    BY <1>7 DEF AlterTable
  <2>7. UNCHANGED <<lock, root, table, inherited, parentUp, crashes>>
    BY <1>7 DEF AlterTable
  <2> QED
    BY <2>1, <2>2, <2>3, <2>5, <2>6, <2>7
<1>8. CASE RecheckColumn(o)
  BY <1>8 DEF RecheckColumn
<1>9. CASE LeaveOpen(o)
  BY <1>9 DEF LeaveOpen, Release
<1> QED
  BY <1>1, <1>2, <1>3, <1>4, <1>5, <1>6, <1>7, <1>8, <1>9, <1>10
  DEF AnyStep, OpenSteps

ProcessSteps ==
    ParentStart \/ ForkChild \/ ChildExits \/ ChildKilled \/ ParentKilled

LEMMA ProcessStepTypes ==
  ASSUME TypeOK, ProcessSteps
  PROVE  TypeOK'
<1> USE OpenerConstants
    DEF OpenerConstants, TypeOK, Place, HasFile, Inside, dbVars, Opener, Killed
<1>1. CASE ParentStart
  BY <1>1 DEF ParentStart
<1>2. CASE ForkChild
  BY <1>2 DEF ForkChild
<1>3. CASE ChildExits \/ ChildKilled
  BY <1>3 DEF ChildExits, ChildKilled, ChildEnds
<1>4. CASE ParentKilled
  <2>1. pc' \in [Opener -> Place]
    BY <1>4 DEF ParentKilled
  <2>2. patch' \in [Opener -> 1..(Columns + 1)]
    BY <1>4 DEF ParentKilled
  <2>3. lock' \in Opener \cup {Free, Left}
    BY <1>4 DEF ParentKilled
  <2>4. /\ inherited' = {} /\ parentUp' = FALSE /\ crashes' \in 0..MaxCrashes
        /\ UNCHANGED <<root, table, columns, faults>>
    BY <1>4 DEF ParentKilled
  <2> QED
    BY <2>1, <2>2, <2>3, <2>4
<1> QED
  BY <1>1, <1>2, <1>3, <1>4 DEF ProcessSteps

-----------------------------------------------------------------------------
(* The lock.                                                               *)

\* An opener comes in with the lock, and goes out when it gives it back.
LEMMA OpenStepLock ==
  ASSUME TypeOK, LockInv, NEW o \in Opener, AnyStep(o)
  PROVE  LockInv'
<1> SUFFICES ASSUME NEW q \in Opener, pc'[q] \in Inside
             PROVE  lock' = q
    BY DEF LockInv
<1> USE OpenerConstants
    DEF OpenerConstants, TypeOK, Go, Fails, Inside, LockInv, processVars
<1>1. CASE TakeLock(o)
  BY <1>1 DEF TakeLock, Opener
<1>2. CASE LeaveOpen(o)
  BY <1>2 DEF LeaveOpen, Release
<1>3. CASE MakeRoot(o) \/ OpenLockFile(o) \/ TakeLockFails(o)
  BY <1>3 DEF MakeRoot, OpenLockFile, TakeLockFails
<1>4. CASE OpenDatabase(o) \/ InitSchema(o)
  BY <1>4 DEF OpenDatabase, InitSchema
<1>5. CASE CheckColumn(o)
  BY <1>5 DEF CheckColumn
<1>6. CASE AlterTable(o) \/ RecheckColumn(o)
  BY <1>6 DEF AlterTable, RecheckColumn
<1> QED
  BY <1>1, <1>2, <1>3, <1>4, <1>5, <1>6 DEF AnyStep, OpenSteps

\* A fork copies the lock and a death takes it only from its own process.
LEMMA ProcessStepLock ==
  ASSUME TypeOK, LockInv, ProcessSteps
  PROVE  LockInv'
<1> SUFFICES ASSUME NEW q \in Opener, pc'[q] \in Inside
             PROVE  lock' = q
    BY DEF LockInv
<1> USE OpenerConstants
    DEF OpenerConstants, TypeOK, Inside, LockInv, Opener
<1>1. CASE ParentStart
  BY <1>1 DEF ParentStart
<1>2. CASE ForkChild
  BY <1>2 DEF ForkChild
<1>3. CASE ChildExits \/ ChildKilled
  BY <1>3 DEF ChildExits, ChildKilled, ChildEnds
<1>4. CASE ParentKilled
  BY <1>4 DEF ParentKilled
<1> QED
  BY <1>1, <1>2, <1>3, <1>4 DEF ProcessSteps

-----------------------------------------------------------------------------
(* The table.                                                              *)

\* No opener undoes what another has done, and only the one inside adds a
\* column.
LEMMA OthersProgress ==
  ASSUME TypeOK, LockInv, ProgressInv, NEW o \in Opener, AnyStep(o)
  PROVE  /\ root => root'
         /\ table => table' /\ columns \subseteq columns'
         /\ columns' \subseteq Column
         /\ \A q \in Opener \ {o} : pc'[q] = pc[q] /\ patch'[q] = patch[q]
         /\ \A q \in Opener \ {o} : pc[q] = "alter" => columns' = columns
<1> USE OpenerConstants
    DEF OpenerConstants, TypeOK, Go, Fails, NextPatch, dbVars, Inside, LockInv,
        ProgressInv
<1>1. CASE MakeRoot(o) \/ OpenLockFile(o) \/ TakeLockFails(o)
  BY <1>1 DEF MakeRoot, OpenLockFile, TakeLockFails
<1>2. CASE TakeLock(o) \/ LeaveOpen(o)
  BY <1>2 DEF TakeLock, LeaveOpen
<1>3. CASE OpenDatabase(o)
  BY <1>3 DEF OpenDatabase
<1>4. CASE InitSchema(o)
  BY <1>4 DEF InitSchema, CreateTable
<1>5. CASE CheckColumn(o)
  BY <1>5 DEF CheckColumn
<1>6. CASE AlterTable(o)
  BY <1>6 DEF AlterTable
<1>7. CASE RecheckColumn(o)
  BY <1>7 DEF RecheckColumn
<1> QED
  BY <1>1, <1>2, <1>3, <1>4, <1>5, <1>6, <1>7 DEF AnyStep, OpenSteps

\* One conjunct of ProgressInv, for one opener.
ProgressOf(q) ==
    /\ pc[q] \in Inside \cup {"lock", "wait", "done"} => root
    /\ pc[q] \in {"check", "alter", "recheck", "unlock", "done"} => table
    /\ pc[q] \in {"check", "alter", "recheck"} =>
           1..(patch[q] - 1) \subseteq columns
    /\ pc[q] \in {"alter", "recheck"} => patch[q] \in Column
    /\ pc[q] = "alter" => patch[q] \notin columns
    /\ pc[q] \in {"unlock", "done"} => columns = Column

LEMMA OwnProgress ==
  ASSUME TypeOK, LockInv, NEW o \in Opener, ProgressOf(o), AnyStep(o)
  PROVE  ProgressOf(o)'
<1> USE OpenerConstants
    DEF OpenerConstants, TypeOK, Go, Fails, NextPatch, dbVars, Inside, LockInv,
        ProgressOf, Column
<1>1. CASE MakeRoot(o) \/ OpenLockFile(o) \/ TakeLockFails(o)
  BY <1>1 DEF MakeRoot, OpenLockFile, TakeLockFails
<1>2. CASE TakeLock(o) \/ LeaveOpen(o)
  BY <1>2 DEF TakeLock, LeaveOpen
<1>3. CASE OpenDatabase(o)
  BY <1>3 DEF OpenDatabase
<1>4. CASE InitSchema(o)
  BY <1>4 DEF InitSchema, CreateTable
<1>5. CASE CheckColumn(o)
  <2> /\ pc[o] = "check" /\ table /\ root /\ 1..(patch[o] - 1) \subseteq columns
      /\ UNCHANGED dbVars
    BY <1>5 DEF CheckColumn
  <2>1. CASE Go(o, "check", "alter") /\ patch[o] \in Patches \ columns
             /\ UNCHANGED patch
    BY <2>1 DEF Patches
  <2>2. CASE pc' = pc /\ patch[o] \in Patches \cap columns /\ NextPatch(o)
    <3>1. patch'[o] = patch[o] + 1 /\ pc'[o] = "check"
      BY <2>2
    <3>2. 1..(patch'[o] - 1) \subseteq columns
      BY <2>2, <3>1 DEF Patches
    <3> QED
      BY <3>1, <3>2
  <2>3. CASE Go(o, "check", "unlock") /\ patch[o] \notin Patches
             /\ UNCHANGED patch
    <3>1. patch[o] = Columns + 1
      BY <2>3 DEF Patches
    <3>2. 1..Columns \subseteq columns
      BY <3>1
    <3>3. columns = 1..Columns
      BY <3>2
    <3>4. pc'[o] = "unlock" /\ root' /\ table' /\ columns' = 1..Columns
      BY <2>3, <3>3
    <3> QED
      BY <3>4
  <2>4. CASE pc' = [pc EXCEPT ![o] = "undo"]
    BY <2>4
  <2> QED
    BY <1>5, <2>1, <2>2, <2>3, <2>4 DEF CheckColumn
<1>6. CASE AlterTable(o)
  BY <1>6 DEF AlterTable
<1>7. CASE RecheckColumn(o)
  BY <1>7 DEF RecheckColumn
<1> QED
  BY <1>1, <1>2, <1>3, <1>4, <1>5, <1>6, <1>7 DEF AnyStep, OpenSteps

LEMMA OpenStepProgress ==
  ASSUME IInv, NEW o \in Opener, AnyStep(o)
  PROVE  ProgressInv'
<1> SUFFICES ASSUME NEW q \in Opener PROVE ProgressOf(q)'
    BY DEF ProgressInv, ProgressOf
<1>1. ProgressOf(q)
  BY DEF IInv, ProgressInv, ProgressOf
<1>2. CASE q = o
  BY <1>1, <1>2, OwnProgress DEF IInv
<1>3. CASE q # o
  <2>1. TypeOK /\ LockInv /\ ProgressInv
    BY DEF IInv
  <2>2. /\ root => root'
        /\ table => table' /\ columns \subseteq columns'
        /\ columns' \subseteq Column
        /\ pc'[q] = pc[q] /\ patch'[q] = patch[q]
        /\ pc[q] = "alter" => columns' = columns
    BY <2>1, <1>3, OthersProgress
  <2> QED
    BY <1>1, <2>2 DEF ProgressOf
<1> QED
  BY <1>2, <1>3

LEMMA ProcessStepProgress ==
  ASSUME TypeOK, ProgressInv, ProcessSteps
  PROVE  ProgressInv'
<1> USE OpenerConstants
    DEF OpenerConstants, TypeOK, Inside, ProgressInv, Opener, dbVars
<1>1. CASE ParentStart
  BY <1>1 DEF ParentStart
<1>2. CASE ForkChild
  BY <1>2 DEF ForkChild
<1>3. CASE ChildExits \/ ChildKilled
  BY <1>3 DEF ChildExits, ChildKilled, ChildEnds
<1>4. CASE ParentKilled
  BY <1>4 DEF ParentKilled
<1> QED
  BY <1>1, <1>2, <1>3, <1>4 DEF ProcessSteps

-----------------------------------------------------------------------------
LEMMA NextKeeps == IInv /\ [Next]_vars => IInv'
<1> SUFFICES ASSUME IInv, [Next]_vars PROVE IInv'
    OBVIOUS
<1>1. ASSUME NEW o \in Opener, AnyStep(o) PROVE IInv'
  BY <1>1, OpenStepTypes, OpenStepLock, OpenStepProgress DEF IInv
<1>2. CASE ProcessSteps
  BY <1>2, ProcessStepTypes, ProcessStepLock, ProcessStepProgress DEF IInv
<1>3. CASE UNCHANGED vars
  BY <1>3 DEF IInv, TypeOK, LockInv, ProgressInv, vars, dbVars, processVars
<1> QED
  BY <1>1, <1>2, <1>3 DEF Next, AnyStep, ProcessSteps

LEMMA IInvHolds == Spec => []IInv
<1>1. Init => IInv
  BY InitImpliesIInv
<1>2. IInv /\ [Next]_vars => IInv'
  BY NextKeeps
<1> QED
  BY <1>1, <1>2, PTL DEF Spec

\* Types of the openers, whatever is killed or fails.
THEOREM StoreTypeCorrect == Spec => []TypeOK
<1>1. IInv => TypeOK
  BY DEF IInv
<1> QED
  BY <1>1, IInvHolds, PTL

\* local_store_open returns 0 only with every column in place.
THEOREM OpenedIsWhole == Spec => []OpenMeansWhole
<1>1. IInv => OpenMeansWhole
  BY DEF IInv, ProgressInv, OpenMeansWhole
<1> QED
  BY <1>1, IInvHolds, PTL

\* Between its look at a column and its ALTER TABLE no other opener gets in.
THEOREM CheckIsCurrent == Spec => []CheckStillHolds
<1>1. IInv => CheckStillHolds
  BY DEF IInv, ProgressInv, CheckStillHolds
<1> QED
  BY <1>1, IInvHolds, PTL

-----------------------------------------------------------------------------
(* Failures.                                                               *)

\* Those that have failed, and those that are bound to: their ALTER TABLE has
\* failed and the column is not there.
Failing ==
    {o \in Opener : \/ pc[o] \in {"undo", "failed"}
                    \/ pc[o] = "recheck" /\ patch[o] \notin columns}

\* A fault for each, though threads have no number that bounds them.
FailInv == IsFiniteSet(Failing) /\ Cardinality(Failing) <= faults

\* A step makes one opener fail and counts one fault, or makes none fail.
LEMMA FailingStep ==
  ASSUME IInv, NEW o \in Opener, AnyStep(o)
  PROVE  \/ Failing' \subseteq Failing /\ faults' \in {faults, faults + 1}
         \/ Failing' \subseteq Failing \cup {o} /\ faults' = faults + 1
<1>1. TypeOK /\ LockInv /\ ProgressInv
  BY DEF IInv
<1>2. table => columns \subseteq columns'
  BY <1>1, OthersProgress
<1>3. \A q \in Opener \ {o} : pc'[q] = pc[q] /\ patch'[q] = patch[q]
  BY <1>1, OthersProgress
<1>4. Failing' \subseteq Failing \cup {o}
  <2>1. \A q \in Opener : pc[q] = "recheck" => table
    BY <1>1 DEF ProgressInv
  <2> QED
    BY <1>2, <1>3, <2>1 DEF Failing
<1>5. CASE Fault
  BY <1>4, <1>5 DEF Fault
<1>6. ASSUME ~Fault
      PROVE  UNCHANGED faults /\ (o \in Failing' => o \in Failing)
  <2> USE DEF TypeOK, Go, Fails, NextPatch, dbVars
  <2>1. CASE MakeRoot(o) \/ OpenLockFile(o) \/ TakeLock(o) \/ TakeLockFails(o)
    BY <1>1, <1>6, <2>1 DEF MakeRoot, OpenLockFile, TakeLock, TakeLockFails,
        Failing
  <2>2. CASE OpenDatabase(o) \/ InitSchema(o)
    BY <1>1, <1>6, <2>2 DEF OpenDatabase, InitSchema, Failing
  <2>3. CASE CheckColumn(o)
    BY <1>1, <1>6, <2>3 DEF CheckColumn, Failing
  <2>4. CASE AlterTable(o)
    BY <1>1, <1>6, <2>4 DEF AlterTable, Failing
  <2>5. CASE RecheckColumn(o)
    BY <1>1, <1>6, <2>5 DEF RecheckColumn, Failing
  <2>6. CASE LeaveOpen(o)
    <3>1. UNCHANGED faults
      BY <2>6 DEF LeaveOpen
    <3>2. \/ pc[o] = "unlock" /\ pc'[o] = "done"
          \/ pc[o] = "undo" /\ pc'[o] = "failed"
      BY <1>1, <2>6 DEF LeaveOpen
    <3> QED
      BY <3>1, <3>2 DEF Failing
  <2> QED
    BY <2>1, <2>2, <2>3, <2>4, <2>5, <2>6 DEF AnyStep, OpenSteps
<1> QED
  BY <1>4, <1>5, <1>6

\* Starts, ends and kills make no opener fail.
LEMMA FailingProcessStep ==
  ASSUME IInv, ProcessSteps
  PROVE  Failing' \subseteq Failing /\ UNCHANGED faults
<1>1. TypeOK
  BY DEF IInv
<1> USE DEF TypeOK, Failing, Opener, dbVars
<1>2. CASE ParentStart
  BY <1>1, <1>2 DEF ParentStart
<1>3. CASE ForkChild
  BY <1>1, <1>3 DEF ForkChild
<1>4. CASE ChildExits \/ ChildKilled
  BY <1>1, <1>4 DEF ChildExits, ChildKilled, ChildEnds
<1>5. CASE ParentKilled
  BY <1>1, <1>5 DEF ParentKilled
<1> QED
  BY <1>2, <1>3, <1>4, <1>5 DEF ProcessSteps

LEMMA FailStep == IInv /\ FailInv /\ [Next]_vars => FailInv'
<1> SUFFICES ASSUME IInv, FailInv, [Next]_vars PROVE FailInv'
    OBVIOUS
<1>1. faults \in Nat /\ Cardinality(Failing) \in Nat
  BY OpenerConstants, FS_CardinalityType
  DEF OpenerConstants, IInv, TypeOK, FailInv
<1>2. ASSUME Failing' \subseteq Failing, faults' \in {faults, faults + 1}
      PROVE  FailInv'
  <2>1. /\ IsFiniteSet(Failing') /\ Cardinality(Failing') \in Nat
        /\ Cardinality(Failing') <= Cardinality(Failing)
    BY <1>2, FS_Subset, FS_CardinalityType DEF FailInv
  <2> QED
    BY <1>1, <1>2, <2>1 DEF FailInv
<1>3. ASSUME NEW o, Failing' \subseteq Failing \cup {o}, faults' = faults + 1
      PROVE  FailInv'
  <2>1. /\ IsFiniteSet(Failing \cup {o})
        /\ Cardinality(Failing \cup {o}) =
              IF o \in Failing THEN Cardinality(Failing)
                               ELSE Cardinality(Failing) + 1
    BY FS_AddElement DEF FailInv
  <2>2. /\ IsFiniteSet(Failing') /\ Cardinality(Failing') \in Nat
        /\ Cardinality(Failing') <= Cardinality(Failing \cup {o})
    BY <1>3, <2>1, FS_Subset, FS_CardinalityType
  <2> QED
    BY <1>1, <1>3, <2>1, <2>2 DEF FailInv
<1>4. ASSUME NEW o \in Opener, AnyStep(o) PROVE FailInv'
  BY <1>2, <1>3, <1>4, FailingStep
<1>5. CASE ProcessSteps
  BY <1>2, <1>5, FailingProcessStep
<1>6. CASE UNCHANGED vars
  BY <1>6 DEF FailInv, Failing, vars, dbVars
<1> QED
  BY <1>4, <1>5, <1>6 DEF Next, AnyStep, ProcessSteps

LEMMA FailInit == Init => FailInv
<1> SUFFICES ASSUME Init PROVE FailInv
    OBVIOUS
<1>1. Failing = {}
  BY DEF Init, Failing
<1> QED
  BY <1>1, FS_EmptySet DEF Init, FailInv

\* No opener fails because of what another is doing: two openers that alter
\* one table, a lock that is held, a kill in the middle of an upgrade make none
\* fail, whatever the number of threads; each failure has a fault of its own.
THEOREM FailureNeedsFault == Spec => []FailsOnlyByFault
<1>1. FailInv /\ IInv => FailsOnlyByFault
  <2> SUFFICES ASSUME FailInv, IInv PROVE FailsOnlyByFault
      OBVIOUS
  <2> DEFINE failed == {o \in Opener : pc[o] \in {"undo", "failed"}}
  <2>1. failed \in SUBSET Failing
    <3> SUFFICES ASSUME NEW o \in failed PROVE o \in Failing
        OBVIOUS
    <3> QED
      BY DEF Failing
  <2>2. /\ IsFiniteSet(failed)
        /\ Cardinality(failed) <= Cardinality(Failing)
        /\ Cardinality(failed) \in Nat /\ Cardinality(Failing) \in Nat
    BY <2>1, FS_Subset, FS_CardinalityType DEF FailInv
  <2>3. faults \in Nat /\ Cardinality(Failing) <= faults
    BY OpenerConstants DEF OpenerConstants, IInv, TypeOK, FailInv
  <2> HIDE DEF failed
  <2>4. Cardinality(failed) <= faults
    BY <2>2, <2>3
  <2> QED
    BY <2>4 DEF failed, FailsOnlyByFault
<1> QED
  BY <1>1, FailInit, FailStep, IInvHolds, PTL DEF Spec
=============================================================================
