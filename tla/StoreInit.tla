------------------------------ MODULE StoreInit ------------------------------
(***************************************************************************)
(* local_store_open of local_store.c, called by the MQTT thread and the    *)
(* uploader thread of the parent and by the streaming child, each for a    *)
(* connection of its own to one database file.                             *)
(*                                                                         *)
(* The init lock is a flock(2): it belongs to the open file, which a fork  *)
(* gives to the child as well.  LOCK_UN in either process releases it; a   *)
(* close or a death releases it only with the last copy.                   *)
(*                                                                         *)
(* A database is the set of columns of video_segments, for the columns     *)
(* that an older version of the program may not have created.              *)
(***************************************************************************)
EXTENDS Integers, FiniteSets

CONSTANTS
    Threads,        \* the threads of the parent that open the store
    Child,          \* the streaming child
    Columns,        \* number of patches
    MaxCrashes,     \* bound: processes killed
    MaxFaults       \* bound: calls and statements that fail

Free == "free"      \* no one has the lock
Left == "left"      \* a dead thread's lock, kept by the child's copy alone

ASSUME OpenerConstants ==
    /\ Child \notin Threads
    /\ {Free, Left} \cap (Threads \cup {Child}) = {}
    /\ Columns \in Nat \ {0}
    /\ MaxCrashes \in Nat
    /\ MaxFaults \in Nat

VARIABLES
    pc,             \* where each opener is
    patch,          \* i of local_store_ensure_video_segments_columns
    lock,           \* the opener whose open file has the lock, Free, or Left
    inherited,      \* the threads whose open lock file the child has a copy of
    root,           \* the root directory exists
    table,          \* video_segments exists
    columns,        \* its columns, of those that may be missing
    parentUp,
    crashes,        \* history: processes killed so far
    faults          \* history: failures so far

dbVars == <<root, table, columns>>
processVars == <<inherited, parentUp, crashes>>
vars == <<pc, patch, lock, dbVars, processVars, faults>>

Opener == Threads \cup {Child}
Column == 1..Columns

\* The places in which an opener has the init lock.
Inside == {"open", "schema", "check", "alter", "recheck", "undo", "unlock"}

\* The places in which an opener has the lock file open.
HasFile == Inside \cup {"wait"}

Place == HasFile \cup {"off", "mkdirs", "lock", "done", "failed"}

TypeOK ==
    /\ pc \in [Opener -> Place]
    /\ patch \in [Opener -> 1..(Columns + 1)]
    /\ lock \in Opener \cup {Free, Left}
    /\ inherited \subseteq Threads
    /\ root \in BOOLEAN /\ table \in BOOLEAN /\ parentUp \in BOOLEAN
    /\ columns \subseteq Column
    /\ crashes \in 0..MaxCrashes
    /\ faults \in 0..MaxFaults

\* No database yet, or one that an earlier version has left.
Init ==
    /\ pc = [o \in Opener |-> "off"]
    /\ patch = [o \in Opener |-> 1]
    /\ lock = Free
    /\ inherited = {}
    /\ root \in BOOLEAN
    /\ table \in (IF root THEN BOOLEAN ELSE {FALSE})
    /\ columns \in (IF table THEN SUBSET Column ELSE {{}})
    /\ parentUp = FALSE
    /\ crashes = 0
    /\ faults = 0

-----------------------------------------------------------------------------
(* local_store_open.                                                       *)

Go(o, from, to) == pc[o] = from /\ pc' = [pc EXCEPT ![o] = to]

Fault ==
    /\ faults < MaxFaults
    /\ faults' = faults + 1

\* Mutant: a directory that another opener has made is an error.
MakeRootStrict(o) ==
    /\ IF root THEN Go(o, "mkdirs", "failed") ELSE Go(o, "mkdirs", "lock")
    /\ root' = TRUE
    /\ UNCHANGED <<patch, lock, table, columns, processVars, faults>>

\* local_store_mkdirs: EEXIST is not an error.
MakeRoot(o) ==
    /\ \/ Go(o, "mkdirs", "lock") /\ root' = TRUE /\ UNCHANGED faults
       \/ Go(o, "mkdirs", "failed") /\ Fault /\ UNCHANGED root
    /\ UNCHANGED <<patch, lock, table, columns, processVars>>

\* open of the lock file; flock comes next, and waits.
OpenLockFile(o) ==
    /\ \/ Go(o, "lock", "wait") /\ UNCHANGED faults
       \/ Go(o, "lock", "failed") /\ Fault
    /\ UNCHANGED <<patch, lock, dbVars, processVars>>

\* Mutant: LOCK_SH instead of LOCK_EX.
TakeLockShared(o) ==
    /\ Go(o, "wait", "open")
    /\ lock # Left
    /\ lock' = o
    /\ UNCHANGED <<patch, dbVars, processVars, faults>>

TakeLock(o) ==
    /\ Go(o, "wait", "open")
    /\ lock = Free
    /\ lock' = o
    /\ UNCHANGED <<patch, dbVars, processVars, faults>>

\* flock fails, at once or while it waits; the lock file is closed.
TakeLockFails(o) ==
    /\ Go(o, "wait", "failed")
    /\ Fault
    /\ UNCHANGED <<patch, lock, dbVars, processVars>>

\* A step that fails leaves by local_store_close and unlock_and_exit.
Fails(o) ==
    /\ Fault
    /\ pc' = [pc EXCEPT ![o] = "undo"]

\* sqlite3_open, the busy timeout, and the two PRAGMAs.
OpenDatabase(o) ==
    /\ \/ Go(o, "open", "schema") /\ UNCHANGED faults
       \/ pc[o] = "open" /\ Fails(o)
    /\ UNCHANGED <<patch, lock, dbVars, processVars>>

\* CREATE TABLE IF NOT EXISTS with all columns; a failing exec may have run
\* some of its statements.
CreateTable ==
    /\ table' = TRUE
    /\ columns' = IF table THEN columns ELSE Column

InitSchema(o) ==
    /\ pc[o] = "schema"
    /\ \/ CreateTable /\ Go(o, "schema", "check") /\ UNCHANGED faults
       \/ CreateTable /\ Fails(o)
       \/ UNCHANGED <<table, columns>> /\ Fails(o)
    /\ patch' = [patch EXCEPT ![o] = 1]
    /\ UNCHANGED <<lock, root, processVars>>

\* The loop goes on behind the last patch.
NextPatch(o) == patch' = [patch EXCEPT ![o] = @ + 1]

\* Mutant: the last patch is left out.
PatchesOfOneLess == 1..(Columns - 1)

\* Mutant: <= instead of < in the condition of the loop.
PatchesOfOneMore == 1..(Columns + 1)

Patches == Column

CheckColumn(o) ==
    /\ pc[o] = "check"
    /\ \/ /\ patch[o] \in Patches \ columns
          /\ Go(o, "check", "alter")
          /\ UNCHANGED <<patch, faults>>
       \/ /\ patch[o] \in Patches \cap columns
          /\ NextPatch(o)
          /\ UNCHANGED <<pc, faults>>
       \/ /\ patch[o] \notin Patches
          /\ Go(o, "check", "unlock")
          /\ UNCHANGED <<patch, faults>>
       \/ /\ patch[o] \in Patches
          /\ Fails(o)
          /\ UNCHANGED patch
    /\ UNCHANGED <<lock, dbVars, processVars>>

\* ALTER TABLE fails on a column that is there; whatever fails, the column is
\* looked for again.
AlterTable(o) ==
    /\ pc[o] = "alter"
    /\ \/ /\ patch[o] \notin columns
          /\ columns' = columns \cup {patch[o]}
          /\ NextPatch(o)
          /\ Go(o, "alter", "check")
          /\ UNCHANGED faults
       \/ /\ IF patch[o] \in columns THEN UNCHANGED faults ELSE Fault
          /\ Go(o, "alter", "recheck")
          /\ UNCHANGED <<patch, columns>>
    /\ UNCHANGED <<lock, root, table, processVars>>

\* Only a column that is there, and seen to be, makes up for the failure.
RecheckColumn(o) ==
    /\ pc[o] = "recheck"
    /\ \/ /\ patch[o] \in columns
          /\ Go(o, "recheck", "check")
          /\ NextPatch(o)
          /\ UNCHANGED faults
       \/ /\ patch[o] \notin columns
          /\ Go(o, "recheck", "undo")
          /\ UNCHANGED <<patch, faults>>
       \/ /\ Fails(o)
          /\ UNCHANGED patch
    /\ UNCHANGED <<lock, dbVars, processVars>>

\* Mutant: the lock file is closed and not unlocked; the child's copy, if it
\* has one, keeps the lock.
ReleaseByClose(o) == lock' = IF o \in inherited THEN Left ELSE Free

\* local_store_close_init_lock: LOCK_UN, then close.
Release(o) == lock' = Free

LeaveOpen(o) ==
    /\ Go(o, "unlock", "done") \/ Go(o, "undo", "failed")
    /\ Release(o)
    /\ patch' = [patch EXCEPT ![o] = 1]
    /\ UNCHANGED <<dbVars, processVars, faults>>

OpenSteps(o) ==
    \/ MakeRoot(o) \/ OpenLockFile(o) \/ TakeLock(o) \/ OpenDatabase(o)
    \/ InitSchema(o) \/ CheckColumn(o) \/ AlterTable(o) \/ RecheckColumn(o)
    \/ LeaveOpen(o)

-----------------------------------------------------------------------------
(* The processes.                                                          *)

\* main starts the MQTT thread, then the uploader; the bound is that a thread
\* that has returned from local_store_open does not call it again.
ParentStart ==
    /\ ~parentUp
    /\ parentUp' = TRUE
    /\ pc' = [o \in Opener |-> IF o \in Threads THEN "mkdirs" ELSE pc[o]]
    /\ UNCHANGED <<patch, lock, dbVars, inherited, crashes, faults>>

\* The first spawn comes before the threads, a restart may come in the middle
\* of their opening.
ForkChild ==
    /\ parentUp /\ pc[Child] = "off"
    /\ pc' = [pc EXCEPT ![Child] = "mkdirs"]
    /\ inherited' = {t \in Threads : pc[t] \in HasFile}
    /\ UNCHANGED <<patch, lock, dbVars, parentUp, crashes, faults>>

\* The end of the child closes its copies and, when it is killed, its own
\* lock file.
ChildEnds ==
    /\ pc' = [pc EXCEPT ![Child] = "off"]
    /\ patch' = [patch EXCEPT ![Child] = 1]
    /\ lock' = IF lock \in {Child, Left} THEN Free ELSE lock
    /\ inherited' = {}
    /\ UNCHANGED <<dbVars, parentUp, faults>>

ChildExits ==
    /\ pc[Child] \in {"done", "failed"}
    /\ ChildEnds
    /\ UNCHANGED crashes

Killed ==
    /\ crashes < MaxCrashes
    /\ crashes' = crashes + 1

ChildKilled ==
    /\ pc[Child] # "off"
    /\ Killed
    /\ ChildEnds

\* A lock that a thread had goes with it, unless the child has a copy of the
\* open file.
ParentKilled ==
    /\ parentUp
    /\ Killed
    /\ parentUp' = FALSE
    /\ pc' = [o \in Opener |-> IF o \in Threads THEN "off" ELSE pc[o]]
    /\ patch' = [o \in Opener |-> IF o \in Threads THEN 1 ELSE patch[o]]
    /\ lock' = IF lock \in Threads
               THEN IF lock \in inherited THEN Left ELSE Free
               ELSE lock
    /\ inherited' = {}
    /\ UNCHANGED <<dbVars, faults>>

Next ==
    \/ \E o \in Opener : OpenSteps(o) \/ TakeLockFails(o)
    \/ ParentStart \/ ForkChild \/ ChildExits \/ ChildKilled \/ ParentKilled

Spec == Init /\ [][Next]_vars

\* Every process is scheduled; a blocked flock gets the lock in the end when
\* it is free now and then, since the kernel wakes the one that waits longest.
LiveSpec ==
    /\ Spec
    /\ \A o \in Opener : WF_vars(OpenSteps(o)) /\ SF_vars(TakeLock(o))

-----------------------------------------------------------------------------
(* What opening must keep to.                                              *)

\* local_store_open returns 0 only when every column that a later statement
\* names is there, whatever version or crashed upgrade it started from.
OpenMeansWhole ==
    \A o \in Opener : pc[o] = "done" => root /\ table /\ columns = Column

\* What the check of a column has found still holds when it is acted upon:
\* no second opener alters the table in between, in whatever order processes
\* are forked and killed around the lock.
CheckStillHolds ==
    \A o \in Opener : pc[o] = "alter" => patch[o] \notin columns

\* No opener fails because of what another is doing: a failure is due to a
\* call that failed, one opener for each.
FailsOnlyByFault ==
    Cardinality({o \in Opener : pc[o] \in {"undo", "failed"}}) <= faults

\* Every opener returns.  The exception: the parent is killed while one of
\* its threads has the lock and the child was forked in the middle of that.
\* The child then keeps alive the lock that it, and every opener after it,
\* waits for; nothing but the end of the child frees it.
EveryOpenReturns ==
    \A o \in Opener :
        pc[o] \notin {"off", "done", "failed"} ~>
            pc[o] \in {"off", "done", "failed"} \/ (lock = Left /\ crashes > 0)
=============================================================================
