------------------------ MODULE SensorCollectorProofs ------------------------
(***************************************************************************)
(* What a snapshot of g_sensor_data may mix, for any course of readings    *)
(* and of reads that fail.                                                 *)
(***************************************************************************)
EXTENDS SensorCollector, TLAPS

\* The alarm in the record is always what the last finished round decided, the
\* zeros of the start included; no section but Judge's touches it.
AlarmInv == record.alarm <=> IsDangerous(judged)

\* The values in the record are the ones the last round decided on, but for a
\* round that is on its way.
ValuesInv ==
    spc \notin {"temp", "alarm"} =>
        /\ record.ppm = judged.ppm
        /\ record.temp = judged.temp

IInv == TypeOK /\ AlarmInv /\ ValuesInv

-----------------------------------------------------------------------------
LEMMA InitIInv == Init => IInv
BY DEF Init, IInv, TypeOK, AlarmInv, ValuesInv, IsDangerous, NoRecord,
       Harmless, CollectorPC, Register, Record, Reading

\* A read that succeeds changes one value of the record and leaves its alarm.
LEMMA ReadStep ==
    ASSUME IInv, ReadPpm \/ ReadTemp
    PROVE  IInv'
<1> USE DEF IInv, TypeOK, CollectorPC, Register, Record, Reading
<1>1. CASE ReadPpm
  <2>1. TypeOK'
    BY <1>1 DEF ReadPpm
  <2>2. AlarmInv'
    BY <1>1 DEF ReadPpm, AlarmInv, IsDangerous
  <2>3. ValuesInv'
    BY <1>1 DEF ReadPpm, ValuesInv
  <2> QED
    BY <2>1, <2>2, <2>3
<1>2. CASE ReadTemp
  <2>1. TypeOK'
    BY <1>2 DEF ReadTemp
  <2>2. AlarmInv'
    BY <1>2 DEF ReadTemp, AlarmInv, IsDangerous
  <2>3. ValuesInv'
    BY <1>2 DEF ReadTemp, ValuesInv
  <2> QED
    BY <2>1, <2>2, <2>3
<1> QED
  BY <1>1, <1>2

\* The decision puts both in step again.
LEMMA JudgeStep ==
    ASSUME IInv, Judge
    PROVE  IInv'
<1> USE DEF IInv, TypeOK, CollectorPC, Register, Record, Reading
<1>1. judged' \in Reading /\ IsDangerous(judged') \in BOOLEAN
  BY DEF Judge, IsDangerous
<1>2. record' = [record EXCEPT !.alarm = IsDangerous(judged')]
  BY DEF Judge
<1>3. TypeOK'
  BY <1>1, <1>2 DEF Judge
<1>4. AlarmInv'
  BY <1>1, <1>2 DEF AlarmInv, IsDangerous
<1>5. ValuesInv'
  BY <1>1, <1>2 DEF ValuesInv, Judge
<1> QED
  BY <1>3, <1>4, <1>5

\* The other steps leave the record and the last decision alone.  A round
\* starts, and the thread ends, with the values of the decision.
LEMMA OtherStep ==
    ASSUME IInv,
           \/ Connect \/ ReadPpmFails \/ ReadTempFails \/ NextRound
           \/ TakeSnapshot \/ DeviceChanges \/ Quit \/ UNCHANGED vars
    PROVE  IInv'
<1> USE DEF Connect, ReadPpmFails, ReadTempFails, NextRound, TakeSnapshot,
            DeviceChanges, Quit, vars
<1>1. TypeOK'
  <2>1. spc' \in CollectorPC /\ hwAlarm' \in Register
    BY DEF IInv, TypeOK, CollectorPC, Register
  <2>2. running' \in BOOLEAN
    BY Zenon DEF IInv, TypeOK
  <2>3. record' \in Record /\ snapshot' \in Record
    BY Zenon DEF IInv, TypeOK
  <2>4. device' \in Reading /\ judged' \in Reading
    BY Zenon DEF IInv, TypeOK
  <2> QED
    BY <2>1, <2>2, <2>3, <2>4 DEF TypeOK
<1>2. record' = record /\ judged' = judged
  OBVIOUS
<1>3. AlarmInv'
  BY <1>2 DEF IInv, AlarmInv, IsDangerous
<1>4. ValuesInv'
  BY <1>2 DEF IInv, ValuesInv
<1> QED
  BY <1>1, <1>3, <1>4 DEF IInv

LEMMA IInvHolds == Spec => []IInv
<1>1. IInv /\ [Next]_vars => IInv'
  BY ReadStep, JudgeStep, OtherStep DEF Next, Collect
<1> QED
  BY InitIInv, <1>1, PTL DEF Spec

-----------------------------------------------------------------------------
\* Every place of the collector and every value of the record is in its type,
\* whatever the device answers and whichever read fails: a round that cannot
\* read the alarm register decides with the zero it was reset to.
THEOREM CollectorTypeCorrect == Spec => []TypeOK
BY IInvHolds, PTL DEF IInv

\* A copy taken between the critical sections of a round mixes the values of
\* two rounds with the alarm of one, never more: where they contradict each
\* other, the last decision was about the other values.
THEOREM SnapshotOfTwoRounds == Spec => TornByOneRound
<1> DEFINE Torn ==
      snapshot' # snapshot =>
         /\ (snapshot'.ppm \/ snapshot'.temp) /\ ~snapshot'.alarm =>
               ~judged.ppm /\ ~judged.temp /\ spc # "wait"
         /\ ~(snapshot'.ppm \/ snapshot'.temp) /\ snapshot'.alarm =>
               IsDangerous(judged)
               /\ (judged.hw # 1 => spc # "wait")
<1>1. IInv /\ [Next]_vars => [Torn]_vars
  <2> SUFFICES ASSUME IInv, Next, snapshot' # snapshot
               PROVE  Torn
    OBVIOUS
  <2>1. snapshot' = record
    BY DEF Next, Connect, Collect, ReadPpm, ReadPpmFails, ReadTemp,
           ReadTempFails, Judge, NextRound, TakeSnapshot, DeviceChanges, Quit
  <2>2. AlarmInv /\ ValuesInv
    BY DEF IInv
  <2>3. ASSUME record.ppm \/ record.temp, ~record.alarm
        PROVE  ~judged.ppm /\ ~judged.temp /\ spc # "wait"
    BY <2>2, <2>3 DEF AlarmInv, ValuesInv, IsDangerous
  <2>4. ASSUME ~(record.ppm \/ record.temp), record.alarm
        PROVE  IsDangerous(judged) /\ (judged.hw # 1 => spc # "wait")
    BY <2>2, <2>4 DEF AlarmInv, ValuesInv, IsDangerous
  <2> QED
    BY <2>1, <2>3, <2>4
<1> QED
  BY IInvHolds, <1>1, PTL DEF Spec, TornByOneRound
=============================================================================
