# A TLA+ model of the edge camera program

The repository is a C program for a camera board.  One parent process captures
frames, reports sensor readings over MQTT and uploads recorded video; a forked
child encodes the frames, pushes them to RTMP and, when RTMP is down, records
them into local segment files.  Two processes and three threads meet in one
SQLite database, one directory and one socket pair.

The models are about the parts where those actors meet.  All file references
are to `src/`.

## 1. The system

| component | state it keeps | operations | meets |
|---|---|---|---|
| **Segment table** (`local_store.c`, table `video_segments`) | a row per segment: start, size, state (`recording`, `pending`, `uploading`, `uploaded`, `broken`) | one SQL statement per function, no transactions | child, uploader |
| **Segment directory** (`video_store.c`) | `.ts` files named by start second; high and low water | build path, finish, broken, stat, prune | child writes and prunes, uploader reads |
| **Streaming child** (`main.c:417-529` and callees) | output mode, open segment, RTMP back-off | receive a frame, push, switch, rotate, restore, close, prune, ack | supervisor by socket; table and directory |
| **Uploader thread** (`video_uploader.c`) | fetched record, back-off, stop event | reset, fetch, claim, post, confirm or release, wait, stop | table, directory, HTTP server |
| **Stream supervisor** (`main.c:212-244, 531-763`) | `StreamState`, the dequeued buffer | dequeue, send, wait for ack, requeue, restart, stop | child, camera driver |
| **MQTT reporter** (`aliyun_mqtt.c`) | connection flag, batch in hand, stop event | period: sample, connect, replay, publish or store | table `offline_queue`, MQTT client, sensor record |
| **Offline queue** (`local_store.c`, table `offline_queue`) | rows by AUTOINCREMENT id, at most `LOCAL_STORE_MAX_ROWS` | insert and prune, fetch batch, delete | MQTT reporter |
| **Sensor collector** (`sensor_modbus.c`) | shared record under a mutex | four locked updates a round | MQTT reporter |
| **Store opening** (`local_store.c:79-113, 228-342, 388-463`) | init lock, schema | open, create, alter | both threads, the child |
| **Encoder and muxer** (`encoder.c`) | FFmpeg and MPP contexts of one output | init, push, clean | child |
| **Camera** (`camera.c`) | driver queue | device calls | supervisor |
| **Debug programs** | none of their own | manual drivers of the functions above | |

What is hard in it:

* *Interleaving.* The prune of the child and the upload of the thread work on
  the same rows and files with no lock and no transaction; each holds copies of
  rows that the other may change or delete.
* *Crashes.* Every pair of statements (insert a row and create its file, unlink
  and delete, claim and confirm, publish and delete) has a crash between them,
  and the reset at the start of the uploader is the only repair.
* *Answers that are lost.* An upload or a publish may have happened although
  the caller is told that it failed, and is then done again.
* *Two processes and one byte.* The ack of a frame is one anonymous byte; the
  parent waits for it with no time-out.  A child closes its last segment and
  prunes (`main.c:517-523`) before it closes its socket (`main.c:551`), so the
  parent may wait for an ack that does not come, find the socket closed, and
  still have to wait for the child to be gone.
* *Processes that outlive each other.* Nothing ends a child with its parent; a
  restarted program meets the old child at the table and the directory.  The
  two read the clock each for itself and name a file by the second alone, so
  they may choose the same path.  A
  fork in the middle of another thread's work gives the child a copy of what
  that thread had open, its lock file included.
* *Half a set-up.* A database may be absent, old or left in the middle of an
  upgrade; a muxer may have been opened half-way.
* *Liveness.* Pending segments, stored samples, a stream that went offline and
  two stop functions that join a thread must all get on.

What makes each part correct is listed with the runs in section 4.

## 2. Modules

| module | models | how state and actions correspond |
|---|---|---|
| `SegmentTable` | the table and the directory | `rows` maps ids to rows, `files` maps start seconds to contents, `lastId` is the AUTOINCREMENT counter.  One operator per SQL statement, one per file operation. |
| `ChildRecorder` | the streaming child | `cpc` is the place between two statements or system calls that another process can see; `mode`, `cur`, `curPath`, `storeReady` are the fields of `ChildOutputCtx`; `total` and `victim` are the locals of `video_store_prune`. |
| `VideoUploader` | the uploader thread | `upc` is the place; `seg` the fetched record; `body` the file curl has opened; `server` what the external server has accepted; `stop` the stop event. |
| `VideoPipeline` | both over the shared state | interleaves their steps, adds crashes of the child and of the device, shutdown and the next boot. |
| `SegmentLifecycle` | the abstract specification | the life of a segment id and the set the server has, with no processes. |
| `ChildOverlap` | the pipeline with a parent that can be killed | `VideoPipeline` and a second instance `Old` of `ChildRecorder` for the child that is left; `Inherit` hands it the memory of the first; `starts` records the second of every segment, for the properties. |
| `MCChildOverlap` | nothing of its own | the bound `SecondsOnward` and the `View` of the run `pipeline_overlap` |
| `StoreAndForward` | the abstract specification of the reporter | samples made, held, kept, delivered and given up; no thread and no connection. |
| `StoreInit` | `local_store_open` by the two threads and the child | `pc` is the place of each opener, `patch` the loop variable, `lock` the open file that has the flock, `inherited` the lock files a fork has copied, `columns` the table as far as it may be incomplete. |
| `SensorCollector` | the collector and the reader of its record | `spc` is the critical section that comes next; `record` is `g_sensor_data`; `judged` remembers what the last round decided on. |
| `ChildOutput` | `encoder.c` and the child's use of it | `s` is the set of pointers in the `FFmpegStreamer`, `heap` counts the objects that live; `age`, `sinceRetry`, `backoff` are the clocks of `ChildOutputCtx`. |
| `MqttReporter` | the MQTT thread and the offline queue | a sample is the number of its period; `queue` is the table in id order; `records` is the batch in hand; `mpc` is the place. |
| `StreamSupervisor` | the parent's capture loop and its children | `streamVars` are the fields of `StreamState`; `held` and `driver` are the buffers; `kids`, `inbox`, `ack`, `using` are the children as the kernel and the socket show them. |
| `VideoPipelineProofs`, `VideoPipelineSafety` | theorems about `VideoPipeline` | section 5 |
| `ChildOverlapProofs` | theorems about `ChildOverlap`, from those about the pipeline | section 5 |
| `MqttReporterProofs`, `StreamSupervisorProofs`, `StoreInitProofs`, `ChildOutputProofs`, `SensorCollectorProofs` | theorems about the module of that name | section 5 |

`ChildRecorder` and `VideoUploader` EXTEND `SegmentTable`; `VideoPipeline`
EXTENDS both and INSTANCEs `SegmentLifecycle` under the mapping `LifeOf`,
`Stored`; `ChildOverlap` EXTENDS `VideoPipeline` and INSTANCEs `ChildRecorder`
once more; `MqttReporter` INSTANCEs `StoreAndForward`.  `StreamSupervisor`,
`MqttReporter`, `StoreInit` and `SensorCollector` share no state with the
pipeline beyond "a child runs", "the process runs" and "the store is open", and
are checked on their own.  `ChildOutput` looks at the loop of `ChildRecorder`
from its other side: the contexts and clocks, without the segments.
`PROJECT.json` maps each definition to its lines.

A definition that carries the comment *Mutant* is no part of any
specification.  It is a plausible wrong version of the definition behind it,
kept to show that a property can tell the two apart.

What the models abstract:

* *Time.* A segment's duration, an RTMP retry, a restart delay or a poll
  time-out has elapsed whenever the environment says so.  The delay of a
  restart is kept as a number, for the doubling and its limit.  Only
  `ChildOutput` counts ticks, because its liveness depends on how two periods
  meet.
* *The wall clock.* A segment starts at `lastId + 1` when `SteadyClock` is
  TRUE: the segments of one child last at least a second, and a clock that moves
  forward gives each a second of its own.  With FALSE it starts at any second,
  one that another segment has included; `ChildOverlap` is checked and proved
  about in that way, since a steady clock does not keep two children apart.
* *Data.* A file is the id of the segment whose output created it, what that
  output has written to it in units, and whether a write failed; what an output
  goes on writing to a file that another has truncated or unlinked counts for
  nothing.  A sample is its number; frames are buffers.
* *Failures.* `Faults` in the pipeline, `MaxFaults` in `MqttReporter` and
  `StoreInit`, decide whether SQL statements, `stat`, `unlink`, a wait of the
  uploader and set-up calls may fail, and how often.  What the program is
  written to survive (RTMP, a push, the network, the server, fork, a child's
  end) may fail in every run.
* *Bounds.* `MaxSegments`, `SegBytes`, `MaxSamples`, `Pids`, `MaxCrashes`,
  `MaxFaults` and `MaxFailures` bound what is infinite; reaching `MaxSegments`
  looks to the child like an INSERT that fails, reaching `MaxSamples` like a
  period without a sample.

## 3. External parts

The HTTP server accepts, refuses, or accepts with its answer lost.  The MQTT
client's connect and publish may fail at any time; messages have QoS 0, so
`sent` is what the client library took.  `publish_payload` publishes and then
waits (`aliyun_mqtt.c:118-124`): when the wait fails the message may have been
taken, and is in `sent`, although the caller stores it and sends it again;
`confirmed` is what was reported as a success.  The camera gives any buffer it has
queued.  A Modbus read may fail at any time.  fork, flock, waitpid and the
socket pair behave as POSIX and Linux have them: the peer's end closes at the
latest when the process dies, and `waitpid` finds a child only after that.

## 4. What TLC checks

Deadlock is checked in every run but `store_init`, where the program really
stops in one case (below).

### Recording and upload (`VideoPipeline`, `ChildOverlap`)

| run | instance | properties |
|---|---|---|
| `pipeline` | 3 segments of 2 units, both water marks 1, no crash, fair | `TypeOK`, `ServerHoldsSegment`, `NeverUploadOpenSegment`, `UploadingIsCurrent`, `DiskBounded`, `PruneNeverOverdeletes`, `PendingEventuallyServed`, `StopEventuallyJoins` |
| `pipeline_faults` | 2 segments, every fault, any clock, 1 crash | `ImplementsLifecycle` |
| `pipeline_overlap` | 2 segments of 1 unit, both water marks 0, any clock, the parent killed any number of times, 1 crash of a child or the device | `WritersKeepSegments`, `OpenSegmentsNotUploaded`, `EveryFileTracked`, `OnlyDeathsLeaveRows`, `ImplementsLifecycle` |

Bounds.  Every finished segment passes the high water of one, so that the prune
runs while one segment is being uploaded and meets rows that are pending,
uploading and uploaded.  With water marks of zero every close runs the prune:
two children may prune at once, meet the same victim, and a crash may fall
between any two of their statements.  Two segments are one for each child; a
third would only wait for its turn.  `SecondsOnward` numbers the seconds of
`pipeline_overlap` in the order in which they are first given, so that a second
segment has either a new second or the first one's; the `View` drops what
neither a property of the run nor a later step looks at (`whole`, and `lastId`,
which is the length of `starts`).  Two segments with every fault are enough
for two segments at one path and for every statement to fail beside each step
of the other process.

`DiskBounded` allows two segments beyond the high water: the total of
`local_store_video_total_size` counts the open segment as zero and leaves out
the one that is being uploaded.  With the bounds of `pipeline` that is five of
the six units that the segments can take, so the limit can be broken.  A child
that dies leaves its row `recording`
with size zero, never prunable, its file outside the limit; `README.md:113` and
`:569` promise about 3 GB in all, which holds for as long as children do not
die.  `OnlyDeathsLeaveRows` says that a death leaves only rows the process had
in hand, and that killing the parent leaves none.

The two children of `pipeline_overlap` may be given the same second
(`main.c:453` and `:460` read the clock, `video_store.c:203` makes a path of
whole seconds), for instance when the stream server goes away under both.  Then
the second `avio_open` truncates the file of the first, a prune or an undo of one
unlinks what the other writes, and of two rows with one path one is left without
its file though nobody died.  Nothing in the code prevents it and no document
speaks of it, so no property claims the contrary: what
`WritersKeepSegments`, `OpenSegmentsNotUploaded` and `OnlyDeathsLeaveRows` say
of a file they say of the segments whose second is their own (`Alone`), and what
they say of rows, of all.  `EveryFileTracked` and `ImplementsLifecycle` need no
such restriction.

In `pipeline_overlap` the old child finishes its call and its frame, takes at
most the one frame that was already sent, and ends; the model leaves open
whether the camera driver keeps the new parent out until then.  Two prunes at
once each work from a total of their own and may together delete up to twice
the excess; no comment speaks of that, so no property does.

### Sensor reports (`MqttReporter`, `SensorCollector`)

| run | instance | properties |
|---|---|---|
| `mqtt` | table of 3, batch of 2, 5 samples, 1 crash, 1 fault, fair | `TypeOK`, `OnlyFaultsLose`, `ResentOncePerFault`, `QueueBounded`, `ImplementsStoreAndForward`, `BacklogDrains`, `StopEventuallyReturns` |
| `sensor` | every reading of two thresholds and three alarm values | `TypeOK`, `TornByOneRound`, `DangerSettles` |

Five samples overfill a table of three while a batch of two is replayed; the
crash and the fault may fall between a publish and its DELETE or between an
INSERT and its prune.  `ResentOncePerFault` counts stored samples whose publish
was a success.  One whose publish was reported as failed may have been taken all
the same; it is stored and sent twice without any fault, which the program
cannot know, and `StoreAndForward` has the step `DeliverUnseen` for it.  `SensorCollector` needs no bound: it has no counter, and
its data are the outcomes of the three comparisons.

`TornByOneRound` says how far a report can be from consistent: values with a
danger but no alarm mean that the last finished round saw none, and an alarm
without a cause that it saw one.  `DangerSettles` holds for gas and heat and
not for the alarm register of the sensor itself, which a failed read takes for
zero (`sensor_modbus.c:53`).  A sensor that stops answering has its last values
reported for ever.

### Capture, the child and its output (`StreamSupervisor`, `ChildOutput`)

| run | instance | properties |
|---|---|---|
| `supervisor` | 3 pids, 3 buffers, delays 1 to 5, fair | `TypeOK`, `EveryChildKnown`, `FrameNotShared`, `AckIsForFrame`, `ExitLeavesNoChild`, `StreamComesBack`, `ShutdownCompletes` |
| `output` | segments of 2 ticks, back-off 1 to 5, 4 failed inits, fair | `TypeOK`, `OnlyOpenMuxerUsed`, `OnlyFailedInitsLeak`, `RtmpComesBack` |

Three pids let an old child live on beside a new one, which is what
`EveryChildKnown` excludes; three buffers let the driver hold some while a
child holds another.  `StreamComesBack` and `ShutdownCompletes` hold under the
assumption that the child's calls into its output return (below).  A delay limit of five is not a power of two, so that the
doubling has to be cut off.  Three failures bring the back-off of `output` to
its limit, beyond two segments, so that rotations pass it over.  Any number of
ticks may pass between two frames, as when an attempt at RTMP blocks for long.

`streamer_init` frees nothing when it fails, and `child_reset_streamer` forgets
the pointers.  `OnlyFailedInitsLeak` says that this is the only leak: while the
stream server is away, each attempt costs an output context, a hardware encoder
and a frame, until the child ends.  With the default constants (segments of
30 s, back-off at most 30 s) the back-off never postpones an attempt, since it
is asked only at a rotation.

### Opening the store (`StoreInit`)

| run | instance | properties |
|---|---|---|
| `store_init` | 2 threads and a child, 3 columns to patch, 2 kills, 1 fault, fair | `TypeOK`, `OpenMeansWhole`, `CheckStillHolds`, `FailsOnlyByFault`, `EveryOpenReturns` |

Every call may fail, `flock` included.  Three columns let a kill fall before, between and after two patches.  Two kills
are enough for the parent to die in the middle of an upgrade and for what comes
next to be interrupted once more.

The case in which an open does not return: the child is forked while a thread
of the parent has the init lock, so that it has a copy of the open lock file;
then the parent is killed.  The copy keeps the lock, the child waits for it
itself, and so does every opener after it, until someone ends the child.
`LOCK_UN` before the `close` (`local_store.c:111`) is what keeps this to a kill:
with the close alone, the mutant of `EveryOpenReturns`, an ordinary restart of
the stream would be enough.

### Fairness

* The scheduler runs both processes and all threads: weak fairness of the
  steps that end by themselves.  In the pipeline these are the uploader's, whose
  transfer has a time-out, and of the child's only those of a prune
  (`ChildPrunes`), which calls SQLite and the file system; any other step of the
  child may be held for ever by a call to the stream server.  Nothing is assumed
  of the camera in the pipeline or of the operator, and no crash or stop is ever
  forced.
* `ServerFairness` (strong): an upload tried again and again is accepted in
  the end.  The thread retries for ever, so this says only that the server
  does not refuse for ever.  `pipeline_stop_hangs` shows what is lost without.
* `NetworkFairness` (strong): a connect and a replay tried again and again
  succeed in the end, with outages in between.
* In `StreamSupervisor`, weak fairness of the parent rests on a camera that
  delivers frames and on local calls that return; strong fairness of
  `RestartSpawns` says that a delay passes and a fork succeeds in the end.
  `OutputReturns` is kept apart because the code has nothing that ensures it:
  it is weak fairness of the steps in which the child is inside a call into its
  output, the RTMP open at its start (`encoder.c:88`), a push, and the trailer
  and close at its end.  None of these has a time-out, nor has the read of the
  ack (`main.c:739`) or the wait for the child at shutdown (`main.c:239`).
  Without it the parent stays in that read for as long as the push of its child
  does, although `main.c:746` has it that a failed push must not hold up the
  capture, and a child stuck in its RTMP open holds the parent's `waitpid`, so
  that the program does not end.
* In `StoreInit`, strong fairness of `TakeLock`: the kernel gives a flock to
  the process that has waited for it.
* In `SensorCollector`, strong fairness of the successful reads: a register
  block read again and again is read in the end.
* In `ChildOutput`, weak fairness of the calls into FFmpeg and strong fairness
  of a frame before which the clock has moved.  The bound on failed inits says
  that the outage ends.

### Where the code and its documents part

Each of these runs states what a comment, a message or the repository's README
says, and TLC finds it violated by what the code does.

| run | says | does |
|---|---|---|
| `pipeline_low_water` | `video_store.c:323`: delete until below the low water | the loop condition (line 326) stops at the high water, so near the limit every new segment deletes one |
| `pipeline_failed_write` | `video_store.c:274`: a failed write makes a broken segment, not uploaded | every caller passes `broken = 0` (`main.c:394`, `main.c:518`) |
| `pipeline_stop_hangs` | `video_uploader.c:298`, `video_uploader_debug.c:394-397`: stop ends an uploader whose uploads fail | a refused upload returns 0 and the next starts at once; the stop event is not polled and the progress callback has no uploader to look at |
| `pipeline_orphan_blocks` | `README.md:567`: pending segments are uploaded | a row whose file is gone is the oldest for ever |

Three more, seen while modelling and in no run of their own.
`aliyun_mqtt.c:464` reports that after a connection lost in the replay the
current sample goes to the offline cache; `send_or_enqueue_payload` connects
again and publishes it, ahead of the backlog.  `README.md:54-63` has the order of
a period as backlog first, then the live sample; the code replays one batch of
it, and none when the replay fails, and then sends the live sample.
`StoreAndForward` follows the code and promises no order between the two.
`README.md:74` has the delay
between restarts grow; `main.c:559` resets it whenever `fork` succeeds, which is
a restart that succeeds in the sense of `README.md:87` only if the child lives.
`README.md:96` and `:562` say that a failed RTMP write ends the child;
`README.md:104` and the code say that it switches to files.  The model follows
the code.

## 5. What is proved

### The pipeline

The theorems hold for every number of segments, every pair of water marks and
every number of crashes.

| theorem | states | assumes |
|---|---|---|
| `TypeCorrect` | `Spec => []TypeOK` | |
| `PipelineImplementsLifecycle` | `Spec => ImplementsLifecycle` | |
| `UploadedIsHeld` | `Spec => []ServerHoldsSegment` | `Healthy` |
| `OpenSegmentIsSafe` | `Spec => []NeverUploadOpenSegment` | `Healthy` |
| `NoneLeftUploading` | `Spec => []UploadingIsCurrent` | `Healthy` |
| `FilesAreTracked` | `Spec => []EveryFileTracked` | `Healthy` |
| `DirectoryIsBounded` | `Spec => []DiskBounded` | `Healthy`, `LowWater <= HighWater` |
| `PruneIsJustified` | `Spec => PruneNeverOverdeletes` | `Healthy`, `LowWater <= HighWater` |

`Healthy` is a clock that moves forward and statements that succeed; crashes of
the child and of the device may happen anywhere.  Without it the properties
fail: two segments share a file under a clock set back, and a failed UPDATE
leaves a row as it was.

The order of the water marks is the operator's to keep: `video_store_init`
takes both from the environment and compares them with nothing
(`video_store.c:143-148`).  With the low water above the high one a prune ends
after its first deletion (line 352), even where that one segment was small, so
that the directory grows, and it has deleted below the low water.  TLC finds
both with four segments of 2, `HighWater = 1` and `LowWater = 6`.

The argument is one inductive invariant in four layers.

* `TypeInv` (`VideoPipelineProofs`): the types, and with them which program
  counters come with a segment (`Writing`, `Holding`) and that a push finds
  room in its file.  `TypeOK` alone is not inductive: a push could make a file
  longer than its bound, and a registered id could be zero.
* `OwnInv` (`VideoPipelineProofs`): who may move which row.  The row the
  child writes is there and in state `recording`; the victim of a prune is not
  being recorded; the row in the uploader's hands, if the prune has left it, is
  pending until it is claimed and uploading from then on, and before it is
  confirmed the server has it.  This is what each step needs to be a step of
  `SegmentLifecycle`.  It holds under faults and clock steps.
* `SafetyInv` (`VideoPipelineSafety`): `OwnInv`, with `FileInv` (row, file and
  records in memory name the same segment; a file is absent before its output
  is opened and after its unlink; a finished row has the length of its file)
  and `HandInv` (what the uploader holds and sends is what it claimed).
  TLC checked `SafetyInv` as an invariant before it was proved.
* `BytesInv` (`VideoPipelineSafety`): how many bytes the rows and files have.
  `DiskBounded` is far from inductive, since the prune sees neither the files nor
  all rows, and works on a total that it read some steps ago.  `RowBytes`, the
  sizes of all rows with the one being uploaded, is what the invariant is
  about.  `RecordInv` has an open segment count as zero and one row at most
  uploading; `TotalInv` has the total of a running prune at most one segment
  behind `RowBytes`; `CrashInv` charges to the crashes the rows left recording
  (`Lost`, whose files no row counts) and those left without their file
  (`Ghosts`, whose bytes are not there); `BoundInv` limits `RowBytes` with the
  lost segments, and allows for one more segment from a close to the end of the
  prune behind it.  `DiskBounded` then adds the segment being written, and
  `PruneNeverOverdeletes` follows from `TotalInv` and the number of `Ghosts`.
  TLC checked `BytesInv` with four segments and two crashes before it was proved.

The sums are `MapThenSumSet`, which picks its elements by CHOOSE.  The lemmas in
front of `BytesInv` show it equal to `Total`, a sum that does not depend on the
order, and say how `Total` changes with its function.  Their inductions are
over finite sets: a smallest counterexample exists (`SmallestSubset`), because
strict inclusion is well-founded among the finite subsets, and that needs no
theorem with an operator for a parameter.

Every step lemma has one case per action and, below it, one per conjunct that
the action can disturb.

### Two children

The theorems hold for every number of segments, of crashes and of killed
parents, and for every clock: any segment may get any second, another's
included.

| theorem | states | assumes |
|---|---|---|
| `OverlapImplementsLifecycle` | `OverlapSpec => ImplementsLifecycle` | |
| `WritersAreSafe` | `OverlapSpec => []WritersKeepSegments` | `~Faults` |
| `NeitherIsUploaded` | `OverlapSpec => []OpenSegmentsNotUploaded` | `~Faults` |
| `OverlapFilesTracked` | `OverlapSpec => []EveryFileTracked` | `~Faults` |
| `DeathsAloneLeaveRows` | `OverlapSpec => OnlyDeathsLeaveRows` | `~Faults` |

Both children run the same code, so the proof says once what a step of a child
does, for its memory `c` before and `d` after, the table and the directory, and
derives it from each of the two instances of `ChildRecorder`.  Two invariants:

* `OverlapInv` is about rows.  `OwnInv` of the pipeline has the new child and
  the uploader; `MemoryFits` says of each child that the segment it writes has
  its row, still recording, and that the victim of its prune is recorded by
  nobody; `Apart` that the two never write the same segment.  It holds under
  faults and any clock, and is what makes a step of either one a step in the
  life of a segment.  A step of one child has two cases to answer for: its own
  memory, and that of the other, from which `Apart` and the state of the
  victim's row keep it.
* `KnownInv` adds files and seconds, for statements and calls that succeed.
  `History` ties `starts` to the table; `TableKnown` has every file at the path
  of the segment whose output created it, and that segment's row there; `Knows`
  says of each child that the segment it writes has no file before its output is
  opened and, when its second is its own, has it from then on, and that a victim
  has none after the unlink; `UploaderKnown` has what is sent at the second of
  the row that was taken.  A segment can lose its second to a later one but never
  gain it (`SameSeconds`), which is why the claims about files survive a step
  that registers another segment.

The victims of two prunes may well be the same; `Stranded` says for the action
property which rows are out of reach, as a function of the two memories in
either order, so that one lemma for each kind of step serves both children.
`ServerHoldsSegment` is not among these theorems: where two segments share a
path, the content uploaded for a row may be the other's.

### The reporter

The theorems hold for every limit of the table, every size of a batch, every
number of samples, crashes and failing statements (`ReporterConstants`).

| theorem | states |
|---|---|
| `ReporterTypeCorrect` | `Spec => []TypeOK` |
| `TableIsBounded` | `Spec => []QueueBounded` |
| `OneResentPerFault` | `Spec => []ResentOncePerFault` |
| `LossNeedsFault` | `Spec => OnlyFaultsLose` |
| `ReporterKeepsPromise` | `Spec => ImplementsStoreAndForward` |

`CoreInv` has the table in ascending order (`QueueInv`), the sample in hand
neither stored nor sent before its own step (`HandInv`), and what is left of
the batch in hand as the front of the table (`BatchInv`).  Only `BatchInv` makes
a DELETE by id the removal of the oldest sample, which is what a step of
`StoreAndForward` may do; it holds because no other thread trims the table while
a batch is replayed.  `QueueBounded` and
`ResentOncePerFault` are inductive on top of it: a row beyond the limit, and a
stored sample whose publish was a success, are each charged to a fault or a
crash.  Nothing in the proofs supposes that a failed publish was not taken.  The module starts
with lemmas about ascending sequences (append, cut off in front, remove one)
and about the cardinality of the samples they hold.

### The supervisor

The theorems hold for every number of process ids and buffers and every pair of
delays (`SupervisorConstants`).

| theorem | states |
|---|---|
| `SupervisorTypeCorrect` | `Spec => []TypeOK` |
| `NoChildUnknown` | `Spec => []EveryChildKnown` |
| `LentFrameIsSafe` | `Spec => []FrameNotShared` |
| `AckAnswersFrame` | `Spec => []AckIsForFrame` |
| `ExitIsClean` | `Spec => []ExitLeavesNoChild` |

`FrameNotShared` is not inductive, since it says nothing of the frame that lies
in the socket.  `FrameInv` says where a frame can be: in the socket of a child
or under its eyes, not both, and then the parent waits for the ack of that very
frame, which has not come.  `ParentInv` ties the socket to the child that the
parent will reap, which is what excludes a second child, and `BufferInv` has
the buffer in hand apart from the driver's.

### The collector

`CollectorTypeCorrect` (`Spec => []TypeOK`) and `SnapshotOfTwoRounds`
(`Spec => TornByOneRound`), for any course of readings and failures and without
an assumption.  `AlarmInv` has the alarm of the record as the last finished
round decided it, `ValuesInv` the values, except while a round is on its way.

### Opening the store

The theorems hold for every number of threads, of columns to patch, of kills and
of failures.  They assume only `OpenerConstants`: the child is no thread, and
the names of the two states of the lock are no names of openers.

| theorem | states |
|---|---|
| `StoreTypeCorrect` | `Spec => []TypeOK` |
| `OpenedIsWhole` | `Spec => []OpenMeansWhole` |
| `CheckIsCurrent` | `Spec => []CheckStillHolds` |
| `FailureNeedsFault` | `Spec => []FailsOnlyByFault` |

The invariant is `TypeOK` with two parts.  `LockInv`: whoever is between the
`flock` and the `LOCK_UN` has the lock, so there is one of them at most; a fork
leaves that alone, and a death takes the lock only from its own process.
`ProgressInv`: the columns behind the loop variable are there, and at an ALTER
TABLE the next one is not.  One opener keeps its own part (`OwnProgress`) and
takes nothing from the part of another (`OthersProgress`), which needs
`LockInv` for the column that the other is about to add.  `TypeOK` needs
`ProgressInv` in turn, since it bounds the loop variable.

`FailureNeedsFault` counts: the openers that have failed, and those whose ALTER
TABLE has failed and whose column is still missing, are finitely many and no
more than the failures so far (`FailInv`).  An opener that lost the race for a
column finds it at its second look and is not among them.

### The output of the child

The theorems hold for every length of a segment, every pair of back-offs and
every number of failed inits (`TicksAssumption`).

| theorem | states |
|---|---|
| `OutputTypeCorrect` | `Spec => []TypeOK` |
| `MuxerIsOpen` | `Spec => []OnlyOpenMuxerUsed` |
| `LeakIsBounded` | `Spec => []OnlyFailedInitsLeak` |

`PointersInv` says which pointers of the `FFmpegStreamer` are set at each place
of the child, so that no `memset` forgets an object that works; `HeapInv` that
an object is either behind its pointer or charged to an init that failed.

### What stays with TLC

Every safety invariant and action property that a passing run checks is a
theorem.  What is not:

* Every liveness property: `PendingEventuallyServed`, `StopEventuallyJoins`,
  `BacklogDrains`, `StopEventuallyReturns`, `DangerSettles`, `StreamComesBack`,
  `ShutdownCompletes`, `RtmpComesBack`, `EveryOpenReturns`.  They rest on
  fairness and ENABLED, which the provers here do not treat.  `StreamComesBack`
  and `ShutdownCompletes` rest on `OutputReturns` besides.
* The runs that expect a violation: a counterexample is their result.
* The bytes with two children.  Two prunes at once work from totals of their
  own, so `DiskBounded` and `PruneNeverOverdeletes` are stated for one child
  only (section 4).

## 6. What is not modelled

* What a child inherits of the C library's and SQLite's own locks when it is
  forked from a parent with threads; the init lock alone is modelled.
* The camera beyond its queue of buffers: set-up and memory mapping are I/O.
* Loss of the last committed statements at a power failure (WAL with
  `synchronous=NORMAL` allows it): every completed write counts as stored.
* Files removed or changed by hand, and a second copy of the program.
* The payload of a sample that does not fit its buffer (`aliyun_mqtt.c:450`):
  the thread would drop the sample, but the format bounds the length.
* JSON, MIME and payload texts, FFmpeg, MPP and V4L2 set-up, and the debug
  programs.

## 7. Plan

Done: the recording and upload pipeline with its abstract life of a segment;
the killed parent beside it; the reporter with its abstract queue; the
supervisor; the opening of the store and the child's output; the collector.
The safety properties of all of them are proved.

Next, in this order:

1. How far the directory may exceed its limit while the prunes of two children
   run at once: a bound for `ChildOverlap`, checked by TLC first, then proved
   from `BytesInv` with a total for each child.
2. What two children at one path leave of each other's file: a bound on the
   rows without a file by the number of seconds that two segments share.
3. The safety halves of the liveness properties, such as that a pending row
   older than the fetched one is never passed over, from which the arguments
   under fairness would start.
