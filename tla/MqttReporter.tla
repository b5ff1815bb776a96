---------------------------- MODULE MqttReporter ----------------------------
(***************************************************************************)
(* The MQTT thread of aliyun_mqtt.c over the table offline_queue of        *)
(* local_store.c.  Every period it takes one sample of the sensors,        *)
(* replays stored samples while the broker takes them, then publishes the  *)
(* new sample or stores it.                                                *)
(*                                                                         *)
(* A sample is named by the number of the period in which it was taken.    *)
(* The table is a sequence in the order of its AUTOINCREMENT ids; a sample *)
(* is inserted at most once, so its number stands for the id of its row.   *)
(* The MQTT client is external: any publish and any connect may fail, and  *)
(* a lost connection shows only in the next publish.  Messages have QoS 0, *)
(* so "sent" is what the client library took, not what the broker got; and *)
(* as a publish is two calls, one that takes the message and one that      *)
(* waits, it may be reported as failed although the message was taken.     *)
(***************************************************************************)
EXTENDS Integers, Sequences, SequencesExt

CONSTANTS
    MaxRows,        \* LOCAL_STORE_MAX_ROWS
    BatchSize,      \* MQTT_OFFLINE_FLUSH_BATCH
    MaxSamples,     \* bound: samples taken; later periods come without one
    MaxCrashes,     \* bound: crashes of the process
    MaxFaults       \* bound: failing statements and faulty starts

ASSUME ReporterConstants ==
    /\ MaxRows \in Nat \ {0}
    /\ BatchSize \in Nat \ {0}
    /\ MaxSamples \in Nat
    /\ MaxCrashes \in Nat
    /\ MaxFaults \in Nat

VARIABLES
    mpc,            \* where the thread is; "off" when the process does not run
    running,        \* is_running
    stopFd,         \* g_mqtt_stop_fd has been written
    client,         \* client # NULL
    storeReady,     \* store_ready
    connected,      \* mqtt_connected
    sample,         \* snapshot, created_at_ms, payload; 0 when there is none
    records,        \* records of flush_offline_records, from the next one on
    queue,          \* the rows of offline_queue, oldest first
    taken,          \* history: samples taken
    sent,           \* history: the samples that the client library took
    confirmed,      \* history: the samples whose publish was a success
    pruned,         \* history: the samples that local_store_prune deleted
    crashes,        \* history: crashes so far
    faults          \* history: failing statements and faulty starts so far

threadVars == <<client, storeReady, connected, sample, records>>
history == <<taken, sent, confirmed, pruned, crashes, faults>>
vars == <<mpc, running, stopFd, threadVars, queue, history>>

Sample == 1..MaxSamples
MqttPC == {"off", "poll", "connect", "fetch", "replay", "delete", "send",
           "publish", "enqueue", "prune", "returned"}
Queued == Range(queue)

Fault ==
    /\ faults < MaxFaults
    /\ faults' = faults + 1

TypeOK ==
    /\ mpc \in MqttPC
    /\ running \in BOOLEAN /\ stopFd \in BOOLEAN
    /\ client \in BOOLEAN /\ storeReady \in BOOLEAN /\ connected \in BOOLEAN
    /\ sample \in {0} \cup Sample
    /\ records \in Seq(Sample) /\ Len(records) <= BatchSize
    /\ queue \in Seq(Sample)
    /\ taken \in 0..MaxSamples
    /\ sent \subseteq 1..taken
    /\ confirmed \subseteq sent
    /\ pruned \subseteq 1..taken
    /\ crashes \in 0..MaxCrashes
    /\ faults \in 0..MaxFaults

Forget ==
    /\ client' = FALSE
    /\ storeReady' = FALSE
    /\ connected' = FALSE
    /\ sample' = 0
    /\ records' = <<>>

Init ==
    /\ mpc = "off"
    /\ running = TRUE
    /\ stopFd = FALSE
    /\ client = FALSE
    /\ storeReady = FALSE
    /\ connected = FALSE
    /\ sample = 0
    /\ records = <<>>
    /\ queue = <<>>
    /\ taken = 0
    /\ sent = {}
    /\ confirmed = {}
    /\ pruned = {}
    /\ crashes = 0
    /\ faults = 0

-----------------------------------------------------------------------------
(* mqtt_thread_func.                                                       *)

\* local_store_open, MQTTClient_create, then the timer; without a timer the
\* thread returns, without the others it goes on.
ThreadStart ==
    /\ mpc = "off"
    /\ \/ /\ storeReady' = TRUE /\ client' = TRUE
          /\ mpc' = "poll"
          /\ UNCHANGED faults
       \/ /\ Fault
          /\ storeReady' \in BOOLEAN /\ client' \in BOOLEAN
          /\ mpc' \in {"poll", "returned"}
    /\ UNCHANGED <<running, stopFd, connected, sample, records, queue, taken,
                   sent, confirmed, pruned, crashes>>

\* poll returns with the stop event: it is looked at before the timer.
PollStop ==
    /\ mpc = "poll" /\ stopFd
    /\ mpc' = "returned"
    /\ Forget
    /\ UNCHANGED <<running, stopFd, queue, history>>

\* Mutant: the timer wins over the stop event and is_running is not looked at.
PollTimerBlind ==
    /\ mpc = "poll"
    /\ mpc' = "connect"
    /\ IF taken < MaxSamples
       THEN sample' = taken + 1 /\ taken' = taken + 1
       ELSE UNCHANGED <<sample, taken>>
    /\ UNCHANGED <<running, stopFd, client, storeReady, connected, records,
                   queue, sent, confirmed, pruned, crashes, faults>>

\* poll returns with the timer: one period begins, with a sample of its own
\* up to the bound and without one beyond it.
PollTimer ==
    /\ mpc = "poll" /\ ~stopFd
    /\ IF running
       THEN /\ mpc' = "connect"
            /\ IF taken < MaxSamples
               THEN sample' = taken + 1 /\ taken' = taken + 1
               ELSE UNCHANGED <<sample, taken>>
            /\ UNCHANGED <<client, storeReady, connected, records>>
       ELSE /\ mpc' = "returned"
            /\ Forget
            /\ UNCHANGED taken
    /\ UNCHANGED <<running, stopFd, queue, sent, confirmed, pruned, crashes,
                   faults>>

\* mqtt_connect_client where client # NULL && !mqtt_connected.
TryConnect ==
    IF client /\ ~connected THEN connected' \in BOOLEAN ELSE UNCHANGED connected

\* Mutant: the backlog is replayed only in the period that connects.
ConnectThenFlushOnce ==
    /\ mpc = "connect"
    /\ TryConnect
    /\ mpc' = IF connected' /\ ~connected /\ storeReady THEN "fetch" ELSE "send"
    /\ UNCHANGED <<running, stopFd, client, storeReady, sample, records, queue,
                   history>>

Connect ==
    /\ mpc = "connect"
    /\ TryConnect
    /\ mpc' = IF connected' /\ storeReady THEN "fetch" ELSE "send"
    /\ UNCHANGED <<running, stopFd, client, storeReady, sample, records, queue,
                   history>>

-----------------------------------------------------------------------------
(* flush_offline_records.                                                  *)

\* Mutant: the batch is read newest first.
NewestRows ==
    [i \in 1..(IF Len(queue) < BatchSize THEN Len(queue) ELSE BatchSize) |->
        queue[Len(queue) + 1 - i]]

\* Mutant: the SELECT has no limit.
AllRows == queue

\* ORDER BY id ASC LIMIT BatchSize
OldestRows ==
    SubSeq(queue, 1, IF Len(queue) < BatchSize THEN Len(queue) ELSE BatchSize)

\* A failed SELECT counts as nothing to replay.
FetchBatch ==
    /\ mpc = "fetch"
    /\ \/ /\ records' = OldestRows
          /\ mpc' = "replay"
          /\ UNCHANGED faults
       \/ /\ Fault
          /\ mpc' = "send"
          /\ UNCHANGED records
    /\ UNCHANGED <<running, stopFd, client, storeReady, connected, sample,
                   queue, taken, sent, confirmed, pruned, crashes>>

ReplayDone ==
    /\ mpc = "replay" /\ records = <<>>
    /\ mpc' = "send"
    /\ UNCHANGED <<running, stopFd, threadVars, queue, history>>

ReplayRecord ==
    /\ mpc = "replay" /\ records # <<>>
    /\ sent' = sent \cup {Head(records)}
    /\ confirmed' = confirmed \cup {Head(records)}
    /\ mpc' = "delete"
    /\ UNCHANGED <<running, stopFd, threadVars, queue, taken, pruned, crashes,
                   faults>>

\* publish_payload fails, in MQTTClient_publishMessage or, with the message
\* taken, in MQTTClient_waitForCompletion: flush_offline_records returns -1 and
\* the thread disconnects; this record and those after it wait for the next
\* period, to be sent from this one on.
ReplayFails ==
    /\ mpc = "replay" /\ records # <<>>
    /\ sent' \in {sent, sent \cup {Head(records)}}
    /\ connected' = FALSE
    /\ records' = <<>>
    /\ mpc' = "send"
    /\ UNCHANGED <<running, stopFd, client, storeReady, sample, queue, taken,
                   confirmed, pruned, crashes, faults>>

\* Mutant: the id is not bound, the DELETE meets no row.
DeleteNothing(q, s) == q

\* DELETE WHERE id = ?, which meets one row at most.
DeleteRow(q, s) ==
    IF s \in Range(q) THEN RemoveAt(q, CHOOSE i \in DOMAIN q : q[i] = s) ELSE q

\* A failed DELETE ends the flush, with the connection up.
DeleteReplayed ==
    /\ mpc = "delete"
    /\ \/ /\ queue' = DeleteRow(queue, Head(records))
          /\ records' = Tail(records)
          /\ mpc' = "replay"
          /\ UNCHANGED faults
       \/ /\ Fault
          /\ records' = <<>>
          /\ mpc' = "send"
          /\ UNCHANGED queue
    /\ UNCHANGED <<running, stopFd, client, storeReady, connected, sample,
                   taken, sent, confirmed, pruned, crashes>>

-----------------------------------------------------------------------------
(* send_or_enqueue_payload.                                                *)

\* It connects once more when the flush, or the connect before it, has left
\* the thread without a connection.
SendOrEnqueue ==
    /\ mpc = "send" /\ sample # 0
    /\ TryConnect
    /\ mpc' = IF connected' THEN "publish" ELSE "enqueue"
    /\ UNCHANGED <<running, stopFd, client, storeReady, sample, records, queue,
                   history>>

EndPeriod ==
    /\ mpc' = "poll"
    /\ sample' = 0
    /\ records' = <<>>

\* Beyond the bound MaxSamples: a period without a sample.
NothingToSend ==
    /\ mpc = "send" /\ sample = 0
    /\ EndPeriod
    /\ UNCHANGED <<running, stopFd, client, storeReady, connected, queue,
                   history>>

PublishSample ==
    /\ mpc = "publish"
    /\ sent' = sent \cup {sample}
    /\ confirmed' = confirmed \cup {sample}
    /\ EndPeriod
    /\ UNCHANGED <<running, stopFd, client, storeReady, connected, queue, taken,
                   pruned, crashes, faults>>

\* Mutant: a failed publish is reported, the sample is not stored.
PublishFailsForgets ==
    /\ mpc = "publish"
    /\ sent' \in {sent, sent \cup {sample}}
    /\ connected' = FALSE
    /\ EndPeriod
    /\ UNCHANGED <<running, stopFd, client, storeReady, queue, taken, confirmed,
                   pruned, crashes, faults>>

\* Again whether or not the message was taken.
PublishFails ==
    /\ mpc = "publish"
    /\ sent' \in {sent, sent \cup {sample}}
    /\ connected' = FALSE
    /\ mpc' = "enqueue"
    /\ UNCHANGED <<running, stopFd, client, storeReady, sample, records, queue,
                   taken, confirmed, pruned, crashes, faults>>

\* The INSERT of local_store_enqueue; without a store, or when it fails, the
\* sample is gone.
Enqueue ==
    /\ mpc = "enqueue"
    /\ \/ /\ storeReady
          /\ queue' = Append(queue, sample)
          /\ mpc' = "prune"
          /\ UNCHANGED <<sample, records, faults>>
       \/ /\ IF storeReady THEN Fault ELSE UNCHANGED faults
          /\ EndPeriod
          /\ UNCHANGED queue
    /\ UNCHANGED <<running, stopFd, client, storeReady, connected, taken, sent,
                   confirmed, pruned, crashes>>

\* Mutant: the limit is never reached.
ExcessNone == 0

\* count - max_rows
Excess == IF Len(queue) > MaxRows THEN Len(queue) - MaxRows ELSE 0

\* local_store_prune, right behind the INSERT.
PruneQueue ==
    /\ mpc = "prune"
    /\ \/ /\ queue' = SubSeq(queue, Excess + 1, Len(queue))
          /\ pruned' = pruned \cup Range(SubSeq(queue, 1, Excess))
          /\ UNCHANGED faults
       \/ /\ Fault
          /\ UNCHANGED <<queue, pruned>>
    /\ EndPeriod
    /\ UNCHANGED <<running, stopFd, client, storeReady, connected, taken, sent,
                   confirmed, crashes>>

-----------------------------------------------------------------------------
(* The rest of the process.                                                *)

\* SIGINT, SIGTERM, or the end of the capture loop.
Quit ==
    /\ running
    /\ running' = FALSE
    /\ UNCHANGED <<mpc, stopFd, threadVars, queue, history>>

\* stop_mqtt_reporter up to its pthread_join.
StopReporter ==
    /\ mpc # "off" /\ ~running /\ ~stopFd
    /\ stopFd' = TRUE
    /\ UNCHANGED <<mpc, running, threadVars, queue, history>>

ProcessEnds ==
    /\ mpc' = "off"
    /\ running' = TRUE
    /\ stopFd' = FALSE
    /\ Forget

\* After the join; the next boot finds the table.
Exit ==
    /\ mpc = "returned" /\ stopFd
    /\ ProcessEnds
    /\ UNCHANGED <<queue, history>>

Crash ==
    /\ mpc # "off" /\ crashes < MaxCrashes
    /\ ProcessEnds
    /\ crashes' = crashes + 1
    /\ UNCHANGED <<queue, taken, sent, confirmed, pruned, faults>>

ThreadWork ==
    \/ PollStop \/ PollTimer \/ Connect
    \/ FetchBatch \/ ReplayDone \/ ReplayRecord \/ ReplayFails \/ DeleteReplayed
    \/ SendOrEnqueue \/ NothingToSend \/ PublishSample \/ PublishFails
    \/ Enqueue \/ PruneQueue

Next == ThreadStart \/ ThreadWork \/ Quit \/ StopReporter \/ Exit \/ Crash

Spec == Init /\ [][Next]_vars

\* The timer expires every period, poll has no other wait, and every call of
\* the MQTT client has a time-out; main starts the thread at every boot.
Fairness == WF_vars(ThreadStart) /\ WF_vars(ThreadWork)

\* A network that comes back: a connect or a replay tried again and again
\* succeeds in the end.
NetworkFairness ==
    /\ SF_vars(Connect /\ connected')
    /\ SF_vars(ReplayRecord)

LiveSpec == Spec /\ Fairness /\ NetworkFairness

-----------------------------------------------------------------------------
(* What the thread must keep to.                                           *)

Lost == (1..taken) \ (sent \cup Queued \cup pruned \cup {sample})

\* A sample is published, stored, or given up to the limit of the table.  It
\* is lost only in hand: by a crash, by an INSERT that fails, or because the
\* store could not be opened; never by a failed publish, a flush cut short, a
\* lost connection, a stop, or what happens to other samples.
OnlyFaultsLose ==
    [][Lost' # Lost =>
         /\ Lost' \ Lost = {sample}
         /\ \/ crashes' # crashes
            \/ mpc = "enqueue" /\ (faults' # faults \/ ~storeReady)]_vars

\* A stored sample whose publish was a success is deleted before anything else
\* happens, and one that was published at once is never stored: a crash between
\* publish and DELETE, or a DELETE that fails, leaves at most one to be sent
\* again.  One whose publish is reported as failed stays, or is stored, and is
\* sent again without any fault.
ResentOncePerFault ==
    Cardinality((confirmed \cap Queued)
                  \ (IF mpc = "delete" THEN {Head(records)} ELSE {}))
        <= crashes + faults

\* The table keeps to its limit, but for the row whose INSERT the prune has
\* not followed yet; a crash or a failure in between makes it one row more
\* each time, until the next prune takes them all.
QueueBounded ==
    Len(queue) <= MaxRows + crashes + faults + (IF mpc = "prune" THEN 1 ELSE 0)

\* The thread runs with all it needs to replay.
Equipped == mpc # "off" => mpc # "returned" /\ client /\ storeReady

\* While the network comes back now and then, a stored sample leaves the
\* table, though each period replays only a batch and adds a sample.
BacklogDrains ==
    \A s \in Sample : s \in Queued ~> s \notin Queued \/ ~running \/ ~Equipped

\* stop_mqtt_reporter returns, unless the process dies first.
StopEventuallyReturns == stopFd ~> mpc \in {"returned", "off"}

-----------------------------------------------------------------------------
(* The thread, statement by statement, keeps the promise of                *)
(* StoreAndForward.  Behind the INSERT a sample is kept, though it is      *)
(* still in the hands of the thread.                                       *)
Promise == INSTANCE StoreAndForward
             WITH made <- taken,
                  held <- IF mpc = "prune" THEN 0 ELSE sample,
                  kept <- Queued, delivered <- sent, givenUp <- pruned

\* Through outages, failing statements and crashes, and though the thread does
\* not know whether a failed publish was one, stored samples are sent oldest
\* first, leave the table only when sent or given up, and are given up
\* oldest first and no more than the excess, though the replay works from a
\* copy of the table made before its first publish.
ImplementsStoreAndForward == Promise!Spec
=============================================================================
