# TLA+ verification of xtcp2

xtcp2 reads the TCP sockets of every network namespace of a host through
netlink `inet_diag` dumps, turns each socket into a record, batches the records
in an envelope and hands the envelopes to a destination. Beside it a link monitor
keeps an inventory of the host's network devices and compares the number of
links that are up with a baseline on disk. This directory models the concurrent
core of the daemon (`pkg/xtcp`) and of the link monitor (`pkg/linkmonitor`),
model-checks both with TLC, and proves with TLAPS, for every value of the
constants, all the safety properties, action properties and refinements that TLC
checks on small instances, and some that no run checks.

All paths below are relative to the repository root.

## The system

| Part | State | Operations | Interacts with |
|---|---|---|---|
| Receive pipeline (`netlinker.go`, `deserialize.go`) | `packetCh`, `dumpTracker`, `dumpState{total, decoded, signaled}` | `netlinkReceiver`, `assign`, `netlinkDecoder`, `packetDecoded`, `signalNetlinkerDone` | kernel socket, poller through `netlinkerDoneCh`, envelope |
| Poller and envelope (`poller.go`, `deserialize.go`) | `count`, ticker, `pollTimeoutTimer`, `currentEnvelope` under `envelopeMu` | `Poller`'s select cases, `pollAllNetlinkSockets`, `flushEnvelope`, the append in `processInetDiagRecord` | pipelines, `nsMap`, destination |
| Namespace lifecycle (`ns_*.go`) | `nsMap`, `fdToNsMap`, counters, one context, thread and socket per namespace | `reconcile`, `nsAdd`, `nsDelete`, `netNamespaceInstance`, `createNetlinkersAndStore` | `/proc` scan, poller, pipelines |
| Poll control (`poller.go`, `grpc_configService.go`) | `pollRequestCh`, `pollBurstCh`, `changePollFrequencyCh`, configuration | ticks, `TriggerPoll`, `TriggerPollBurst`, `pollBurstRunner`, `SetPollFrequency` | poller |
| Destinations (`destinations_*.go`) | queues, upload worker, timers | `Send`, `Close`, S3 worker, Kafka callbacks | poller and decoders |
| Link inventory (`pkg/linkmonitor`: `reconcile*.go`, `scheduler_loop.go`, `scheduler_inventory.go`, `reducer.go`) | epoch, inbox of events, candidate, dirty devices, inventory | event reader, inventory executor, the owner's `before`, `event`, `advance`, `commit` | kernel, link lifecycle |
| Link lifecycle (`pkg/linkmonitor`: `monitor.go`, `lifecycle*.go`, `internal/baseline`) | control counters, baseline in memory and on disk, the save under way | `Submit`, `Await`, `control`, `learn`, `verify`, `Save`, `saved`, `publish`, shutdown | callers, link inventory, file system |
| Record streams (`grpc_flatRecordService.go`) | map of streams, a mutex per stream | subscribe, fan-out with a blocking `stream.Send` | decoders |
| io_uring path (`netlinker_iouring.go`) | ring, pending reads | submit, complete, drain | pipeline |
| Message walk (`deserialize.go`, `pkg/xtcpnl`) | offset, counter | `Deserialize`, `packetHasDone`, `DeserializeAttributes` | pipeline |
| Run and shutdown (`xtcp.go`) | workers group, root context | `Run`, `closeDestination`, `closeEnrichers` | everything |

What makes it hard: decoders of all namespaces share one envelope and finish a
dump's packets in any order; the poll timeout races late done signals; a done
signal names a socket and not a cycle; decisions taken under `envelopeMu` are
carried out after it is released; namespaces are deleted and found again while
their goroutine is still inside `setns`; every step of a namespace's set-up can
fail; socket numbers are reused; an upload that reports an error may have stored
its object; `Close` races `Send`. In the link monitor a dump takes time and
devices change meanwhile; events can be lost in two places; requests arrive while
the work they ask for is under way; a machine can stop between the rename and the
sync of a file. `PROJECT.json` lists these hazards at their lines.

## Modules

| Module | Models | Relation |
|---|---|---|
| `DumpService` | what a socket's pipeline promises: packets join a dump, each is processed once, a dump is reported once after all of them | |
| `Netlinker` | one socket's receiver and decoders | refines `DumpService` |
| `NetlinkerOrder`, `NetlinkerProofs` | the TLAPS proofs about `Netlinker`: the order of packets and of a decoder's steps; the counts and the theorems | the second extends the first, the first `Netlinker` |
| `PollCycle` | poller, envelope, all sockets' decoders, shutdown flush | assumes `DumpService`'s promise for each socket; refines `RowDelivery` |
| `PollCycleProofs` | the TLAPS proofs about `PollCycle` | extends it |
| `NsLifecycle` | reconcile and the namespace goroutines | |
| `NsLifecycleProofs` | the TLAPS proofs about `NsLifecycle` | extends it |
| `RowDelivery` | what a stage that buffers rows promises: a row is taken once and settled once, delivered or given up | |
| `S3Parquet` | the s3parquet destination: senders, queue, worker, uploads, `Close` | refines `RowDelivery` |
| `S3ParquetProofs` | the TLAPS proofs about `S3Parquet` | extends it |
| `ResyncCycle` | what the link monitor's reconciler promises: one resynchronisation is wanted or under way at most | |
| `LinkInventory` | the event reader, the inventory executor and the owner's reconciler | refines `ResyncCycle` |
| `LinkInventoryShape`, `LinkInventoryProofs` | the TLAPS proofs about `LinkInventory`: the epochs, the refinement and the shape of the state; what a step can do to it and what the inventory is worth | the second extends the first, the first `LinkInventory` |
| `LinkLifecycle` | control requests, learning and the durable baseline, stops, crashes, restarts | uses the actions of `ResyncCycle` for the reconciler |
| `LinkLifecycleProofs` | the TLAPS proofs about `LinkLifecycle` | extends it |
| `MCNetlinker`, `MCPollCycle`, `MCNsLifecycle`, `MCS3Parquet`, `MCLinkInventory`, `MCLinkLifecycle` | the instances for TLC; `MCPollCycle` defines the symmetry of the sockets | |

Definitions whose comment starts with "Mutant" are deliberately wrong variants
of the definition that follows. No specification uses them. They show that
each property can fail when the code is changed in a plausible way.

### Netlinker

`rpc` and `dpc` are the program counters of the receiver and the decoders.
`tracker`, `total`, `decoded` and `signaled` are the fields of `dumpTracker` and
`dumpState`, one `dumpState` per dump number. A packet is its arrival number,
and whether it holds `NLMSG_DONE` is chosen when it arrives. The expression
`d.decoded.Add(1) == d.total.Load() && d.signaled.CompareAndSwap(false, true)`
is three steps, since other decoders and the receiver run between them. The
blocking send on `netlinkerDoneCh` waits for room. `deserialized`, `counted` and
`signals` are history variables.

### PollCycle

`ppc` says where the poller is in its select loop. `TerminalFlush` is
`flushEnvelope` with `poll_end`, `poll_timeout` or `shutdown`; `CapFlush` is the
same function with `rows_cap` or `size_cap`. Both take the envelope in one step
(the critical section) and are inside `dest.Send` until `PollerSent` or
`DecoderSent`. `AppendRow` is the critical section of `processInetDiagRecord`;
whether the byte cap trips is chosen freely, since it depends on the sizes of
the rows. `sent`, `dropped`, `lost` and `timedOut` are history variables.
`KernelEnds` is external. `ReportDone` restates `DumpService`'s report: a dump is
reported once, after all of it is processed. `NetlinkerProofs` proves that of the
pipeline, but the step from there to `PollCycle` is an argument in words: the two
modules are not composed in TLA+. The timer may fire in a cycle that has
completed: `poll_end` does not stop it.

### NsLifecycle

One process is `reconcile` (`reconcileMu` makes its two callers one), one per
instance is `netNamespaceInstance`, and one per instance is its netlinker. Each
`Load`, `Store` and `Delete` on `nsMap` is a step. A scan returns any set of
inodes. `setns`, `Socket`, `Bind` and the restore of the thread may each fail. A
socket number is reused once it is closed. The load and the `LoadOrStore` of
adding an inode are one step: an entry that appears or disappears between them
leads to the same outcome as one of the two orders. `fdToNsMap` (read by a log
line), `pollTime` (a histogram and a timestamp) and the counters behind the
namespace gauge are left out. A failed `Socket` or `Bind` leaves the entry
reserved with fd -1, and later passes find the inode tracked; the model has that
state and no property speaks of it.

### S3Parquet

`spc` and `wpc` are the program counters of the senders and of the worker. `Send`
is three steps, one for each of its selects; `processItem` is a step per row,
because a row that reaches the threshold makes the worker upload the file in the
middle of an envelope and come back (`back`). A write may fail and drops its
row. `PutFails` is an attempt that reports an error: it may have stored the object
all the same (`PutStores`), and a retry goes to the same key. `Abandon` is the
backoff cut short by the end of the upload's context, the path that counts
nothing. `ApplyControl` is `SetS3Upload`, which changes the threshold of the
builders to come; the flush timer, which it may set again, fires at any time in
the model. `CloseReturns` ends Close's wait for the worker, at the latest after
`s3ParquetWorkerDrainTimeout` (30 s; one upload may take 60 s). `ProcessExits` is
the end of the process: the signal handler waits for `Run` to return or for
`cancelSleepTimeCst` (5 s), so it may come at any step of the shutdown, and nothing
moves after it. `accepted`, `late`, `acked`, `dropped` and `abandoned` are
history variables; the refinement maps `acked` to delivered rows and the other two
outcomes to rows given up. Parquet and protobuf encoding are left out: an envelope
is a number of rows and a row has a size.

### LinkInventory

Three goroutines: the event reader (`reader`), the inventory executor (`job`) and
the owner (`pc`), whose turn is `StartTurn` (with `before`), any number of
`HandleEvent` up to the budget, `Advance` and `AdvanceInventory`. A device's state
in the kernel carries the number of the change that led to it; the code does not
see it, and `CommitNeverGoesBack` compares it.

- A dump reads the devices one after the other, so it is no snapshot.
- `produced`, `processed`, `watermark` and the versions of dirty devices are kept
  as what they decide: `ahead` is the number of events that a result still has to
  wait for, `job.stale` says that the device of a query had an event since.
- The code compares a request's token to tell whether a result is still wanted;
  here that is `job.current`.
- `push` is one step. Between its check of the epoch and its send only the loss
  of the same epoch can happen, and the event is then thrown away by the owner.
- A deadline is in `future` until it is seen to have passed. `nextResync` has no
  variable: it is set whenever there is no resynchronisation to join.
- A failed query and an invalid answer both end in `fail`; a query for a device
  that is gone answers with its absence.
- Left out: RDMA, statistics, the reasons kept for diagnostics, the limits on the
  number of devices, and counters at their maximum.

### LinkLifecycle

The owner's turn is `StartTurn` (events and losses), `Drain` (`drainControl` and
`drainStorage`), `Reconcile` (the reconciler's `advance`) and `Publish`
(`lifecycle.advance`, `publish` and `controls.complete`). Callers are in `client`;
`Broadcast` is what `controls.broadcast` and the loop of `await` do together. The
storage executor is `save`; `disk` is the file a process finds, `durable` the set
of records that a reboot may leave there: a rename adds one, the directory's sync
leaves one. `Crash` with a reboot picks one of them.

- Of the reconciler only `ResyncCycle` is used, with the serial number of its
  dumps. The code counts queries too; only the order of dumps is compared.
- A record stands for the session, dump and revision it was taken from.
- `count` is "none" without an inventory in this epoch, "partial" with a device
  whose state is unknown, RDMA events that are not covered or an overdue
  resynchronisation, else "ready" (`countReady`). A commit may leave it "partial"
  with or without a change of the revision.
- A deadline may pass whenever it is looked at, and has passed when its timer
  started the turn (`due`).
- `askedAt`, `sinceAt`, `joined`, `steady`, `confirmed` and `ownSave` are history.
- Left out: the grace period after which shutdown stops waiting for a save, which
  ends the call of `Run` and changes nothing that a caller or the file can see; a
  file that cannot be read or parsed, which ends `Run` at once; counters at their
  maximum.

## Runs

| Run | Bounds |
|---|---|
| `netlinker` | 2 decoders, 4 packets, done channel of 1 |
| `pollcycle_safety` | 2 sockets with 1 decoder each, 1 row per dump, 2 polls, row cap 2, done channel of 1 |
| `pollcycle_live` | 1 socket with 2 decoders, 1 row per dump, 2 polls, row cap 2, done channel of 1 |
| `namespace` | the own inode and one more, added up to twice, 3 passes, 3 socket numbers |
| `s3parquet` | 2 senders, envelopes of 1 and 2 rows, queue of 1, thresholds 2 and 3 with jitter, 2 upload attempts |
| `linkinventory` | 2 devices, 2 changes, socket of 1, inbox of 2, turns of 1 event, 1 failure or ethtool notification |
| `linklifecycle` | 2 callers, 2 inputs (a request, event, loss, failure, stop, crash or a count that becomes unready each), periodic dumps for an unready count up to the second dump |

`netlinker` checks that a dump's done signal is not sent before every one of its
packets is decoded (`DoneAfterAllDecoded`), not twice (`DoneSignalledOnce`) and
not never (`NoLostDone`, `EveryDumpSignalled`), that a canceled pipeline ends
(`PipelineEnds`), and that it implements `DumpService`. Four packets allow two
dumps of two packets, so a decoder of one dump overlaps with the next one.

`pollcycle_safety` checks that a row is in one place only (`RowInOnePlace`), that
the poller's count is the number of dumps outstanding as long as no cycle timed
out (`CountIsOutstanding`), that `poll_end` then leaves nothing behind
(`PollEndComplete`), that rows are dropped or lost only once a timeout or the
shutdown cut a cycle short (`LossNeedsTimeout`), and how far an envelope can
exceed its cap (`EnvelopeBounded`). Two polls are needed for a late decoder of
one cycle to meet the next; two sockets, for one to time out while the other is
done. `pollcycle_live` checks that a cycle ends without done signals
(`CycleEnds`) and that rows are delivered (`RowsDelivered`).

`namespace` checks that a deleted namespace's entry does not stay
(`CanceledEntryIsTransient`), that a published socket is open
(`PublishedSocketIsOpen`), that a running instance can be canceled through
`nsMap` as long as earlier instances of the inode opened no socket (`NoOrphan`),
and that a canceled instance ends and gives up its thread, socket and netlinker
(`CanceledInstanceEnds`). Three passes are the fewest that add, delete and add
again.

`s3parquet` checks that every row of an accepted envelope is in exactly one place
(`RowsAccounted`), that no row is stored in two objects (`ObjectsDisjoint`), that
pooled buffers are returned at most once (`BufferReturnedOnce`), that only a `Send` which
races `Close` can leave rows behind when the worker has exited
(`StrandedOnlyByLateSend`), that every envelope handed to `Send` ends in a
rejection, an upload or a drop (`EnvelopeEnds`), that the worker exits after
`Close` (`WorkerExits`), and that the destination implements `RowDelivery`.
`EnvelopeEnds` and `WorkerExits` hold in a process that goes on: one that exits
before its worker does leaves rows with no outcome at all, neither uploaded nor
counted, although a comment at the end of `runDaemonDefault` says that
"closeDestination have drained all buffered records, so no data is lost". With
envelopes of one and two rows an object can hold rows of both and can end in the
middle of one; a queue of one is full; two attempts are the fewest with a retry.

`linkinventory` checks that the inbox is at most one epoch ahead of the owner
(`EpochInStep`), that a wrong state of a device always has a notification on its
way or a resynchronisation ahead (`StaleIsNoticed`), that a commit does not put
back a state that an event had replaced (`CommitNeverGoesBack`), that the monitor
catches up again and again (`Settles`), and that the reconciler implements
`ResyncCycle`. Two changes let a device change during its dump and once more
during its query. The socket of one and the inbox of two overflow with them, and
these losses are not charged to the bound on failures. Deadlock is checked here:
the periodic resynchronisation keeps the owner going.

`linklifecycle` checks that every accepted request belongs to one pass and that a
caller who waits has a pass the owner works on or is about to be woken for
(`PassesCounted`), that the baseline in memory is one a restart finds
(`BaselineSurvives`), that a record is taken only for a count which a later dump
confirmed (`ConfirmedBaseline`), that a ticket is completed by work it may stand
for (`TicketsAreFresh`), and that every `Await` returns (`AwaitReturns`). For a
rebaseline this takes a count that is ready from some time on. A dump may find,
again and again, a link whose state is unknown: the count then stays unready at
the same revision, nothing is learnt, and the caller waits until its own context
ends. A resync's caller returns all the same. Two inputs put one request behind
another, or one fault at any step of a request. That the count becomes unready is
an input too; that it stays so is none, for `MaxDumps` periodic dumps, after which
it stays so for good.

The safety properties of these runs do not rest on the bounds: they are proved for
all values of the constants. The liveness properties do.

Five runs end in a counterexample. Each states what a comment or document says
and shows a behaviour of the code that contradicts it:

| Run | Statement | Behaviour |
|---|---|---|
| `drops_in_timed_out_cycle` | rows are dropped only in a cycle that timed out or at shutdown | a late done signal ends the next cycle early |
| `envelopes_are_flushed` | after a terminal flush there is no envelope until the next poll | a pending cap flush installs one, and the next poll discards its rows |
| `cancel_is_reachable` | `nsDelete` can always reach `cancel()` | an old instance's undo removes its successor's entry |
| `label_is_namespace` | `netns_inode` is the namespace the socket lives in | after a failed `setns` the socket is opened in the daemon's namespace |
| `ticket_reflects_later_work` | a completed ticket reflects work that began after `Submit` returned | a pass that begins while a dump or a save is under way is completed by it |

`TicketsAreFresh` is what does hold of tickets: the statement of the last row with
the exception named. `cmd/go-link-monitor/DETAILED-DESIGN.md` describes the
exception for rebaselines; the comment on `Submit` does not.

Deadlock is not checked except in `linkinventory`: packets, polls, passes,
envelopes and inputs are bounded, and a daemon that has been shut down stops.

## Fairness

Weak fairness of the receiver, the decoders, the namespace instances and the
poller's work inside a select case stands for the Go scheduler. `reconcile` has
no fairness condition: no property depends on its progress. `RecvTimedOut` is
fair because the socket has a receive timeout: `nl_timeout_milliseconds` is a
required field, so its validation rejects zero. One case is outside this
assumption: if `setsockopt` fails, `setSocketTimeoutViaSyscall` counts the error
and goes on, and such a receiver may never see its cancellation. `PipelineEnds`
and `CanceledInstanceEnds` say nothing about it. `PollTimeout` is fair because the timer is restarted by every poll.
`ReceiveDone` and `ReportDone` are strongly fair: Go's `select` chooses uniformly
among ready cases, and a blocked sender is served in turn. `KernelEnds` is fair:
a dump ends. Nothing forces a packet to arrive, a poll to be requested, a context
to be canceled or the poller to return.

In `S3Parquet` the senders, the worker's steps and its uploads are weakly fair:
an upload attempt ends because its context has a deadline. The cases of the
worker's select are strongly fair. For the flush timer this is an assumption on
the operator: each `SetS3Upload` with a flush interval sets the timer again, so
calls that keep coming at shorter intervals put the flush off for ever. All of
this holds while the process runs (`Running`), which the signal handler may end at
any step once the context is canceled. Nobody has to call `Send`, `SetS3Upload` or
`Close`, `Close` need not return, the process need not exit, and nothing makes an
upload succeed.

The other modules have no exit of the process. What they say of the time after a
shutdown (`PipelineEnds`, `CanceledInstanceEnds`) is about the time until then; a
namespace that is deleted is canceled in a daemon that goes on.

In `LinkInventory` the three goroutines are weakly fair and nothing else: the
kernel need not change, no request need fail, and no deadline need pass except
when the owner waits for nothing else. In `LinkLifecycle` the owner's steps, the
return of a dump, a save that is under way and the stop of a canceled owner are
weakly fair. The lifecycle's timer is strongly fair: it is set again by every turn
and the other wake-ups need not stop. The start of a dump that is wanted and the
periodic resynchronisation while the count is not ready are strongly fair: that
is what `Settles` shows of the reconciler in `LinkInventory`. Nothing makes the
count ready.

## Proofs

All theorems hold for every value of the constants that satisfies the named
assumptions. They are of the form `Spec => []P` or `Spec => A` and use no fairness.

### The receive pipeline

`NetlinkerProofs` proves, for every finite non-empty set of decoders, every
number of packets and every channel capacity above zero:

- `TypeCorrect`: `TypeOK` is invariant;
- `NoEarlyDone`, `DoneOnce`, `DoneNotLost`: the three safety properties above;
- `Refinement`: `Spec` implements `DumpService`.

`NetlinkerOrder` holds the parts of the argument that need no counting.

None of the properties is inductive. The invariant `IInv` has four parts.
`Order` gives the types, and says that exactly the packets received so far have a
dump, none later than the receiver's, that `packetCh` holds the packets after the
ones taken, and that a packet taken is counted or with one decoder that will
count it. `Counting` says that `total`, once set, is the number of
the dump's packets, and that `decoded` is the number of them that were counted.
`Adding` says that a decoder's result of `Add` is at most the dump's count, that
`signaled` is set only for a dump whose count has reached its total, and that a
dump whose count has reached it is signaled or has a decoder holding that value
which has not finished its comparison. `Sending` says that a dump marked as
signaled has had its one signal or has one decoder about to send it. A signal is
not early by `Sending`, `Adding` and `Counting`, not lost by `Adding` and
`Sending`, and not repeated by `Sending`. The refinement uses the same invariant: a
`SignalNetlinkerDone` step is a `Report`, for all packets of the dump are
processed.

The assumptions are `DecodersAssumption`, `MaxPacketsAssumption` and
`DoneChanSizeAssumption`; the code starts `max(netlinkers, 1)` decoders.

### The poll cycle and the envelope

`PollCycleProofs` proves, for any finite sets of sockets and decoders, any caps,
channel capacity, and number of rows and polls: `TypeCorrect`,
`RowsAreNotDuplicated`, `CountsTheOutstanding`, `PollEndIsComplete`,
`NothingLostWithoutTimeout`, `EnvelopeIsBounded` and `RowsAreSettledOnce`.

- `Apart` says that the places a row can be in are disjoint, each `dest.Send` in
  progress being a place of its own. A row that begins is new because of `Fresh`
  (a dump not yet asked for has not begun) and `Begun` (every row in some place
  belongs to a dump that has).
- `Working` says that what is not processed yet belongs to a dump that is not
  reported, and `Channel` that the done channel holds each reported dump once.
- `Counting` holds until a cycle times out: the dumps of earlier cycles are
  reported, every signal in the channel is one of the current cycle, and `count`
  is the number of its dumps of which the poller was not told. So `count` reaches
  zero only when the last dump is reported, that is, processed, and `poll_end`
  leaves nothing behind.
- `Flushed`, until then too, says that the envelope is there while rows can come
  and empty when the poller waits for nothing. A row that finds no envelope, or
  an envelope that a poll overwrites, therefore needs a timeout.
- `Bounded` says that the rows at and above the cap are at most the decoders that
  have appended one and have still to flush.

`RowsAreSettledOnce` is the refinement of `RowDelivery`: the rows a stage has taken
are those in some place, the delivered ones are `sent`, and those given up are
`dropped` or `lost`. `RowInOnePlace` speaks of one state; this speaks of the steps:
a row that was sent, dropped or lost is never produced, sent or given up again.
The destination `S3Parquet` refines the same module, with `accepted` in the place
of the rows it is sent. The two refinements are not composed: `sent` says that
`dest.Send` returned, and not what it returned.

The assumptions are `SocketsAssumption`, `DecodersAssumption` and
`BoundsAssumption`.

### The namespaces

`NsLifecycleProofs` proves, for any finite sets of inodes and socket numbers and
any number of instances and passes: `TypeCorrect`, `CanceledEntriesGo`,
`PolledSocketsAreOpen`, `NoRunningOrphan`, `OwnNamespaceStays` and
`NetlinkersReadTheirOwn`.

- `Opening` says what an instance owns: its own socket from `OpenSocket` to
  `CloseSocket`, whatever its number was before.
- `Entries` and `Deletion` say whose items `nsMap` and the `nsDelete` in progress
  hold: of an instance of that inode that was started, and `nsDelete` has canceled
  it before it removes the entry.
- `Generation` and `Reachable` are about an instance that runs, is not canceled
  and has no predecessor which opened a socket: no later instance of its inode was
  started, the entry is its own, and so is what `nsDelete` has loaded. Only an
  instance that opened a socket can undo an entry, which is why the predecessors
  leave it alone.

Two theorems have an invariant of their own beside `IInv`. `OwnAlone` says that no
delete is of the daemon's own inode and that no second instance of it starts; so
its entry, its socket and its context are left alone (`OwnNamespaceStays`).
`Listening` and `Within` say that the instance of a netlinker holds on until its
context is canceled, and that an open socket is in the namespace of its thread
(`NetlinkersReadTheirOwn`). This bounds the counterexample of `label_is_namespace`:
until its context is canceled, a netlinker mislabels records only if its thread
did not enter the namespace.

The assumptions are `InodesAssumption` and `InstancesAssumption`.

### The s3parquet destination

`S3ParquetProofs` proves, for all finite sets of senders and envelopes, any number
of rows, thresholds, queue capacity and attempts: `TypeCorrect`,
`EveryRowAccounted`, `NoRowStoredTwice`, `BuffersReturnedOnce`,
`OnlyLateEnvelopesStrand`, and `Refinement`, that `S3Parquet` implements
`RowDelivery`.

The invariant `IInv` follows three things. `Envs`: an envelope is unsent, with one
sender, on the queue once, or was taken by the worker, and its buffer is in the
pool only after that. `RowsOnce`: a row of an accepted envelope waits for the
worker or is in exactly one of the file and the three outcomes. `Objects`: the
object being written holds rows of the file, every older one rows that are
settled, which is why a new object never repeats a row. `Control` ties the
worker's program counter to the rest; it holds the argument about `Close`: the
worker leaves its drain when the queue is empty, and what is queued from then on
came after `closedCh` was closed. The assumptions are `SetsAssumption`,
`RowCountAssumption` and `NumbersAssumption`.

### The link monitor

The modules about `LinkInventory` prove, for any devices, capacities and numbers
of changes and failures:

- `EpochsInStep`: `EpochInStep` is invariant. It is inductive together with the
  fact that the reader's epoch is not ahead of the reducer's: a loss is reported
  for one of these two, and `lose` counts it only when the inbox is still there;
- `Refinement`: the reconciler implements `ResyncCycle`. The invariant `OneResync`
  says that a resynchronisation is never both wanted and under way, and that a
  request or a candidate which exists belongs to the one under way;
- `TypeCorrect`, with the capacities of the socket, the inbox and the statuses;
- `NoStaleDeviceGoesUnnoticed` (`StaleIsNoticed`) and `CommitsForward`
  (`CommitNeverGoesBack`).

`Shape` is what the last three start from: the types, what a request's data covers
(`Holding`), what the owner's belief in its subscription means (`Reading`), and
that nothing is under way without one (`Disconnected`). `EveryKind` then says that
a step does one of eight things to the devices' states: nothing, giving up,
applying an event, reading a device, taking a dump or an answer, starting a
request, committing. The argument about the inventory is made for these:

- `PastDevices`, `PastEvents`: every state that is kept, read or on its way was
  the device's once, so a read is never older than an event handled before it;
- `NotOlder`: what a dump or a query has read is not older than the inventory,
  unless the device is dirty or the query stale. `commit` waits until nothing is
  dirty, hence `CommitsForward`;
- `Tracked`: while nothing is lost, what was read and is no longer the device's
  state has a notification on its way, or is dirty or stale. A change of the
  kernel puts its notification in the socket (`ChangeIsNotified`) and it stays
  on its way until the owner handles it (`StaysNotified`), which marks the device
  dirty. At the commit nothing is dirty, so what differs is notified:
  `StaleIsNoticed`.

`LinkLifecycleProofs` proves, for any set of callers and any number of requests,
events, losses, failures, stops, crashes and reboots: `TypeCorrect`,
`EveryPassCounted`, `NoCallerForgotten`, `BaselineIsDurable`, `BaselineIsConfirmed`
and `TicketsStandForLaterWork`. The invariant has these parts:

- `Passes`, `FinishedInTurn`: the counters count, per kind, what is pending and in
  flight, and what is in flight is what the lifecycle works on;
- `Saving`, `BaselineSurvives`, `SavedTicket`: the storage executor holds the
  intended record and reports what it did to the file, so a durable save leaves
  nothing else on disk, and a failed one leaves the old record or the intended one;
- `Serials`, `ResyncLater`, `RebaselineLater`: what a pass that joined nothing
  waits for is later than the dump under way when it was submitted;
- `Verification`: while the count under verification has not changed, a dump sent
  since the verification began saw no other.

`Shape` adds the types of the variables this argument does not need. The lemmas
about steps rest on a few that say what each group of actions leaves alone.

`NoCallerForgotten` needs two facts more. `WakeKept`: what is wanted and not in
flight has a wake-up on its way, for the end of a pass puts one in for what came
meanwhile. `Tickets`: a caller's generation is requested and not completed. By
`Passes` it is then wanted or in flight. That the owner gets there is liveness
(`AwaitReturns`) and is only model-checked.

The two modules fit together through `ResyncCycle`: `LinkLifecycle` takes the
steps of its reconciler from that module, and `LinkInventory` is proved to take no
others. `KeepsTheCycle` adds that stops, crashes and restarts keep `LinkLifecycle`
in the cycle too. What is not covered by this argument is the content of a dump: in
`LinkLifecycle` a commit may change the count in any way.

The assumptions these proofs use are `BoundsAssumption` of `LinkInventory` (the
capacities are numbers above zero) and `NoneAssumption` of `LinkLifecycle` (the
value for "no record" is not a record).

### Only model-checked

The liveness properties (`EveryDumpSignalled`, `PipelineEnds`, `CycleEnds`,
`RowsDelivered`, `CanceledInstanceEnds`, `EnvelopeEnds`, `WorkerExits`, `Settles`,
`AwaitReturns`): fairness is beyond the prover.

## Not modelled

The repository has about 148,000 lines. The map of `PROJECT.json` covers the
concurrent core of the daemon and of the link monitor, about two percent of
them. Most of the rest is generated protobuf code, encoders and decoders of
kernel structures, command line tools that format their output, and tables:
sequential code for which a model would be a transliteration.

What is left of the concurrent code, with the reason:

- Poll requests (ticker, `TriggerPoll`, `TriggerPollBurst`, `SetPollFrequency`):
  they decide when a poll is asked for, and `PollCycle` lets one be asked for at
  any time. Queue bounds and the completion of bursts are not checked.
- Record streams: a stream whose client does not read blocks the decoders that
  serve it. `PollCycle` lets a decoder be slow; it does not have the streams.
- The io_uring path: a second implementation of `DumpService`, not modelled.
- The message walk (`Deserialize`, `packetHasDone`, attributes): sequential; a
  packet is a number.
- Kafka's produce callbacks, and the destinations that write inside `Send`.
- The link monitor's statistics, settings, on-demand collection and RDMA: worker
  pools and schedules that share the owner's loop.

`PROJECT.json` gives the reason for every other component.
