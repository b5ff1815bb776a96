--------------------------- MODULE SensorCollector ---------------------------
(***************************************************************************)
(* The collector thread of sensor_modbus.c and the MQTT thread that reads  *)
(* the record g_sensor_data.  A round of the collector updates the record  *)
(* in one critical section for each register block and one more for the    *)
(* alarm; the reader copies it in one, between any two of them.            *)
(*                                                                         *)
(* A concentration is over 300 or not, a temperature over 55 or not, the   *)
(* alarm register 0, 1 or anything else.  run_status and humi decide       *)
(* nothing and are left out, and with them the section of 0x001C.  The     *)
(* Modbus device is external: any read may fail.                           *)
(***************************************************************************)
EXTENDS Integers

VARIABLES
    spc,            \* where the collector is
    running,        \* is_running
    hwAlarm,        \* hw_alarm, a local of the round
    record,         \* g_sensor_data
    snapshot,       \* the copy that the MQTT thread took last
    device,         \* external: what the registers hold
    judged          \* history: what the last finished round decided on

vars == <<spc, running, hwAlarm, record, snapshot, device, judged>>

CollectorPC == {"connect", "ppm", "temp", "alarm", "wait", "ended"}
Register == 0..2
Record == [ppm : BOOLEAN, temp : BOOLEAN, alarm : BOOLEAN]
Reading == [ppm : BOOLEAN, temp : BOOLEAN, hw : Register]

NoRecord == [ppm |-> FALSE, temp |-> FALSE, alarm |-> FALSE]
Harmless == [ppm |-> FALSE, temp |-> FALSE, hw |-> 0]

TypeOK ==
    /\ spc \in CollectorPC
    /\ running \in BOOLEAN
    /\ hwAlarm \in Register
    /\ record \in Record
    /\ snapshot \in Record
    /\ device \in Reading
    /\ judged \in Reading

Init ==
    /\ spc = "connect"
    /\ running = TRUE
    /\ hwAlarm = 0
    /\ record = NoRecord
    /\ snapshot = NoRecord
    /\ device \in Reading
    /\ judged = Harmless

-----------------------------------------------------------------------------
(* sensor_thread_func.                                                     *)

\* modbus_new_rtu and modbus_connect.  Without a port the thread ends, and the record keeps its zeros.
Connect ==
    /\ spc = "connect"
    /\ spc' \in IF running THEN {"ppm", "ended"} ELSE {"ended"}
    /\ UNCHANGED <<running, hwAlarm, record, snapshot, device, judged>>

\* Registers 0x0016 to 0x001B; hw_alarm is 0 in a round that cannot read it.
ReadPpm ==
    /\ spc = "ppm"
    /\ record' = [record EXCEPT !.ppm = device.ppm]
    /\ hwAlarm' = device.hw
    /\ spc' = "temp"
    /\ UNCHANGED <<running, snapshot, device, judged>>

\* Mutant: the failed read clears the concentration.
ReadPpmFailsClears ==
    /\ spc = "ppm"
    /\ record' = [record EXCEPT !.ppm = FALSE]
    /\ hwAlarm' = 0
    /\ spc' = "temp"
    /\ UNCHANGED <<running, snapshot, device, judged>>

\* Mutant: the -1 that the failed read returned is taken for the alarm.
ReadPpmFailsKeepsRc ==
    /\ spc = "ppm"
    /\ hwAlarm' = -1
    /\ spc' = "temp"
    /\ UNCHANGED <<running, record, snapshot, device, judged>>

\* The last concentration stays in the record.
ReadPpmFails ==
    /\ spc = "ppm"
    /\ hwAlarm' = 0
    /\ spc' = "temp"
    /\ UNCHANGED <<running, record, snapshot, device, judged>>

\* Registers 0x001E and 0x001F.
ReadTemp ==
    /\ spc = "temp"
    /\ record' = [record EXCEPT !.temp = device.temp]
    /\ spc' = "alarm"
    /\ UNCHANGED <<running, hwAlarm, snapshot, device, judged>>

ReadTempFails ==
    /\ spc = "temp"
    /\ spc' = "alarm"
    /\ UNCHANGED <<running, hwAlarm, record, snapshot, device, judged>>

\* Mutant: an alarm once raised is not taken back.
IsDangerousLatched(r) == record.alarm \/ r.temp \/ r.ppm \/ r.hw = 1

\* temp > 55.0 || ppm > 300 || hw_alarm == 1
IsDangerous(r) == r.temp \/ r.ppm \/ r.hw = 1

Judge ==
    /\ spc = "alarm"
    /\ judged' = [ppm |-> record.ppm, temp |-> record.temp, hw |-> hwAlarm]
    /\ record' = [record EXCEPT !.alarm = IsDangerous(judged')]
    /\ spc' = "wait"
    /\ UNCHANGED <<running, hwAlarm, snapshot, device>>

\* The poll of 500 ms, then the condition of the loop.
NextRound ==
    /\ spc = "wait"
    /\ spc' = IF running THEN "ppm" ELSE "ended"
    /\ hwAlarm' = 0
    /\ UNCHANGED <<running, record, snapshot, device, judged>>

-----------------------------------------------------------------------------
\* read_sensor_snapshot, once a period of the MQTT thread.
TakeSnapshot ==
    /\ running
    /\ snapshot' = record
    /\ UNCHANGED <<spc, running, hwAlarm, record, device, judged>>

\* The air changes.
DeviceChanges ==
    /\ device' \in Reading
    /\ UNCHANGED <<spc, running, hwAlarm, record, snapshot, judged>>

Quit ==
    /\ running
    /\ running' = FALSE
    /\ UNCHANGED <<spc, hwAlarm, record, snapshot, device, judged>>

Collect ==
    \/ ReadPpm \/ ReadPpmFails \/ ReadTemp \/ ReadTempFails
    \/ Judge \/ NextRound

Next == Connect \/ Collect \/ TakeSnapshot \/ DeviceChanges \/ Quit

Spec == Init /\ [][Next]_vars

\* Opening a serial port returns, every read has a response time-out of 500 ms
\* and the wait is a poll, so the rounds go on; a block of registers read again and again is read in the end;
\* the MQTT thread has its timer.
Fairness ==
    /\ WF_vars(Connect) /\ WF_vars(Collect)
    /\ SF_vars(ReadPpm) /\ SF_vars(ReadTemp)
    /\ WF_vars(TakeSnapshot)

LiveSpec == Spec /\ Fairness

-----------------------------------------------------------------------------
(* What the reader may rely on.                                            *)

\* The values of a snapshot and its alarm may be of two rounds, never of more:
\* values that are dangerous without an alarm, or harmless with one, mean that
\* the last finished round had it the other way.  No danger in the record
\* outlasts a round without its alarm, and no alarm its cause.
TornByOneRound ==
    [][snapshot' # snapshot =>
         /\ (snapshot'.ppm \/ snapshot'.temp) /\ ~snapshot'.alarm =>
               ~judged.ppm /\ ~judged.temp /\ spc # "wait"
         /\ ~(snapshot'.ppm \/ snapshot'.temp) /\ snapshot'.alarm =>
               IsDangerous(judged)
               /\ (judged.hw # 1 => spc # "wait")]_vars

\* Gas or heat that stays is reported: from some period on every snapshot has
\* the alarm, though reads fail in between, because a failed read leaves the
\* last value in the record.  This is not so for the alarm of the sensor
\* itself: a round that cannot read its register takes it for none.
DangerSettles ==
    /\ <>[](device.ppm /\ running /\ spc # "ended") => <>[](snapshot.alarm)
    /\ <>[](device.temp /\ running /\ spc # "ended") => <>[](snapshot.alarm)
=============================================================================
