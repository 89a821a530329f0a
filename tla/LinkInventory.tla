---------------------------- MODULE LinkInventory ----------------------------
(***************************************************************************)
(* The link monitor's inventory of network devices (pkg/linkmonitor,       *)
(* reconcile*.go, scheduler_loop.go, scheduler_inventory.go, reducer.go).  *)
(*                                                                         *)
(* Three goroutines share it.  The event reader subscribes to the kernel's *)
(* link notifications and pushes them into a bounded inbox.  The inventory *)
(* executor runs one dump or one query at a time.  The owner, the          *)
(* scheduler's loop, applies events as they come, and replaces the whole   *)
(* inventory with a dump once every device that had an event during the    *)
(* dump was queried again.  When events may be missing, the inbox's epoch  *)
(* is advanced: the owner drops what it was doing, subscribes again and    *)
(* dumps again.                                                            *)
(*                                                                         *)
(* Time is left out: a deadline is in the set future until it is seen to   *)
(* have passed.  RDMA, statistics and the reasons kept for diagnostics are *)
(* left out.  Sequence numbers of events are kept as what they decide: how *)
(* many events a result still has to wait for, and whether a device had an *)
(* event since its query was sent.  A device's state carries the number of *)
(* kernel changes that led to it, as history.                              *)
(***************************************************************************)
EXTENDS Integers, Sequences, Functions

CONSTANTS
  Keys,          \* device keys (interface indexes)
  NoKey,         \* no device
  Names,         \* interface names
  SocketCap,     \* notifications the netlink socket can hold
  InboxCap,      \* eventQueueCapacity
  EventBudget,   \* events handled in a turn
  MaxChanges,    \* bound: changes in the kernel
  MaxFaults      \* bound: failures and ethtool notifications

Absent == [name |-> "", up |-> FALSE]
Links == [name : Names, up : BOOLEAN] \cup {Absent}
States == [link : Links, ver : Nat]

Unknown == [link |-> Absent, ver |-> 0]
NoData == [k \in {} |-> Unknown]   \* nothing read; no candidate

ASSUME KeysAssumption == Keys # {} /\ NoKey \notin Keys
ASSUME NamesAssumption == Names # {} /\ "" \notin Names
ASSUME BoundsAssumption ==
  /\ {SocketCap, InboxCap, EventBudget} \subseteq Nat \ {0}
  /\ {MaxChanges, MaxFaults} \subseteq Nat

VARIABLES
  kernel,       \* the state of each device in the kernel
  changes,      \* changes in the kernel so far
  socket,       \* notifications waiting in the reader's socket
  overrun,      \* the socket lost a notification; the next read fails
  reader,       \* the event reader: "none", "starting", "running" or "ending"
  readerEpoch,  \* the epoch of its subscription
  statuses,     \* eventExecutor.results
  inbox,        \* eventInbox.events
  inboxEpoch,   \* eventInbox.epoch
  wake,         \* a token is in eventInbox.wake
  pc,           \* where the owner is in its turn
  handled,      \* events handled in this turn
  due,          \* the deadline whose timer started this turn
  future,       \* deadlines that are set and have not been seen to pass
  epoch,        \* reducer.epoch
  routeEvents,  \* reducer.routeEvents
  inventory,    \* the devices of the reducer
  resyncEpoch,  \* reducer.resyncEpoch, 0 before the first commit
  pending,      \* reconciler.pending
  job,          \* the request of the inventory executor, until it was accepted
  ahead,        \* events up to reconciler.watermark that were not handled yet
  candidate,    \* reconciler.candidate
  active,       \* reconciler.dirty is not nil: a resynchronisation is under way
  dirty,        \* the devices that had an event since
  queries,      \* dirty devices that wait for a query
  faults        \* failures and ethtool notifications so far

readerVars == <<reader, readerEpoch>>
inboxVars  == <<inbox, inboxEpoch>>
resyncVars == <<job, ahead, candidate, active, dirty, queries>>
deviceVars == <<epoch, routeEvents, inventory, resyncEpoch>>
turnVars   == <<pc, handled, due>>
vars == <<kernel, changes, socket, overrun, readerVars, statuses, inboxVars, wake,
          turnVars, future, deviceVars, pending, resyncVars,
          faults>>

NoJob == [st |-> "none", current |-> FALSE, query |-> FALSE, key |-> NoKey,
          stale |-> FALSE, data |-> NoData, err |-> FALSE]

(* eventExecutor.busy: from subscribe until the final status was consumed. *)
EventsBusy == reader # "none" \/ \E i \in 1 .. Len(statuses) : ~statuses[i].ready

(* reconciler.request # nil.                                               *)
Requested == job.current

Lost == inboxEpoch # epoch

Fault ==
  /\ faults < MaxFaults
  /\ faults' = faults + 1

------------------------------------------------------------------------------
(* The kernel: a device appears, goes away, is renamed, goes up or down.   *)
(* The notification carries the state after the change.                    *)

Message(kind, k, s) == [kind |-> kind, key |-> k, state |-> s]

Change(k) ==
  /\ changes < MaxChanges
  /\ changes' = changes + 1
  /\ \E l \in Links \ {kernel[k].link} :
       LET s == [link |-> l, ver |-> changes'] IN
       /\ kernel' = [kernel EXCEPT ![k] = s]
       /\ IF reader # "running" \/ overrun
          THEN UNCHANGED <<socket, overrun>>
          ELSE IF Len(socket) < SocketCap
          THEN /\ socket' = Append(socket,
                              Message(IF l = Absent THEN "remove" ELSE "link", k, s))
               /\ UNCHANGED overrun
          ELSE overrun' = TRUE /\ UNCHANGED socket
  /\ UNCHANGED <<readerVars, statuses, inboxVars, wake, turnVars, future,
                 deviceVars, pending, resyncVars, faults>>

------------------------------------------------------------------------------
(* The event reader.                                                       *)

(* Mutant: every loss of an epoch counts.                                  *)
EveryLossCounts(e) == inboxEpoch + 1

(* eventInbox.lose: only the first loss of an epoch counts.                *)
AfterLoss(e) == IF inboxEpoch = e THEN e + 1 ELSE inboxEpoch

Lose(e) ==
  /\ inboxEpoch' = AfterLoss(e)
  /\ wake' = (wake \/ inboxEpoch = e)

(* notify.                                                                 *)
Notify(isReady) ==
  statuses' = Append(statuses, [epoch |-> readerEpoch, ready |-> isReady])

ReaderOpen ==
  /\ reader = "starting"
  /\ reader' = "running"
  /\ Notify(TRUE)
  /\ wake' = TRUE
  /\ UNCHANGED <<kernel, changes, socket, overrun, readerEpoch, inboxVars, turnVars, future,
                 deviceVars, pending, resyncVars, faults>>

(* Mutant: a full inbox takes one more event.                              *)
PushUnbounded(m) ==
  IF inboxEpoch = readerEpoch /\ Len(inbox) <= InboxCap
  THEN /\ inbox' = Append(inbox, [msg |-> m, epoch |-> readerEpoch])
       /\ UNCHANGED <<inboxEpoch, wake, reader>>
  ELSE /\ Lose(readerEpoch)
       /\ reader' = "ending"
       /\ UNCHANGED inbox

(* eventInbox.push.  When it returns FALSE the reader gives up.            *)
Push(m) ==
  IF inboxEpoch = readerEpoch /\ Len(inbox) < InboxCap
  THEN /\ inbox' = Append(inbox, [msg |-> m, epoch |-> readerEpoch])
       /\ UNCHANGED <<inboxEpoch, wake, reader>>
  ELSE /\ Lose(readerEpoch)
       /\ reader' = "ending"
       /\ UNCHANGED inbox

ReadRoute ==
  /\ reader = "running" /\ ~overrun /\ socket # <<>>
  /\ Push(Head(socket))
  /\ socket' = IF reader' = "ending" THEN <<>> ELSE Tail(socket)
  /\ UNCHANGED <<kernel, changes, overrun, readerEpoch, statuses, turnVars, future,
                 deviceVars, pending, resyncVars, faults>>

(* The ethtool subscription asks for a refresh of one device, or, when     *)
(* it was just opened or missed something, for a new dump.                 *)
ReadEthtool ==
  /\ reader = "running"
  /\ Fault
  /\ \E m \in {Message("refresh", k, Unknown) : k \in Keys}
               \cup {Message("resync", NoKey, Unknown)} : Push(m)
  /\ IF reader' = "ending" THEN socket' = <<>> /\ overrun' = FALSE
     ELSE UNCHANGED <<socket, overrun>>
  /\ UNCHANGED <<kernel, changes, readerEpoch, statuses, turnVars, future,
                 deviceVars, pending, resyncVars>>

(* The subscription could not be opened, or the source's Run returned: a   *)
(* read failed or the owner canceled the subscription.                     *)
Canceled == readerEpoch # epoch
ReaderEnds ==
  /\ reader \in {"starting", "running"}
  /\ IF overrun \/ Canceled THEN UNCHANGED faults ELSE Fault
  /\ reader' = "ending"
  /\ Lose(readerEpoch)
  /\ socket' = <<>> /\ overrun' = FALSE
  /\ UNCHANGED <<kernel, changes, readerEpoch, statuses, inbox, turnVars, future,
                 deviceVars, pending, resyncVars>>

(* run reports the loss once more before it reports the end.               *)
ReaderReports ==
  /\ reader = "ending"
  /\ reader' = "none"
  /\ inboxEpoch' = AfterLoss(readerEpoch)
  /\ Notify(FALSE)
  /\ wake' = TRUE
  /\ UNCHANGED <<kernel, changes, socket, overrun, readerEpoch, inbox, turnVars, future,
                 deviceVars, pending, resyncVars, faults>>

------------------------------------------------------------------------------
(* The inventory executor.  A dump reads the devices one after the other.  *)

Read(k) ==
  /\ job.st = "run" /\ job.current
  /\ IF job.query THEN k = job.key ELSE k \notin DOMAIN job.data
  /\ LET data == [x \in DOMAIN job.data \cup {k} |->
                    IF x = k THEN kernel[k] ELSE job.data[x]] IN
     job' = [job EXCEPT !.data = data,
                        !.st = IF job.query \/ DOMAIN data = Keys THEN "done" ELSE "run"]
  /\ UNCHANGED <<kernel, changes, socket, overrun, readerVars, statuses, inboxVars, wake,
                 turnVars, future, deviceVars, pending, ahead,
                 candidate, active, dirty, queries, faults>>

(* The dump or query fails, or returns to an owner that has canceled it.   *)
JobEnds ==
  /\ job.st = "run"
  /\ IF job.current
     THEN /\ Fault
          /\ job' = [job EXCEPT !.st = "done", !.data = NoData, !.err = TRUE]
     ELSE job' = [job EXCEPT !.st = "done"] /\ UNCHANGED faults
  /\ UNCHANGED <<kernel, changes, socket, overrun, readerVars, statuses, inboxVars, wake,
                 turnVars, future, deviceVars, pending, ahead,
                 candidate, active, dirty, queries>>

------------------------------------------------------------------------------
(* The owner's turn.                                                       *)

(* drainInventory, result: a completed request leaves the executor and     *)
(* waits until the events that are in the inbox now were handled.          *)
Received ==
  IF job.st # "done" THEN job
  ELSE IF job.current THEN [job EXCEPT !.st = "waiting"] ELSE NoJob
ReceivedAhead == IF job.st = "done" /\ job.current THEN Len(inbox) ELSE ahead

(* reconciler.abort.  The executor stays busy until it has returned.       *)
Abort(j) ==
  /\ job' = IF j.st \in {"run", "done"} THEN [NoJob EXCEPT !.st = j.st] ELSE NoJob
  /\ ahead' = 0
  /\ candidate' = NoData
  /\ active' = FALSE
  /\ dirty' = {}
  /\ queries' = <<>>

(* syncLoss, when the inbox's epoch was advanced.                          *)
SyncLoss(j) ==
  /\ epoch' = epoch + 1
  /\ routeEvents' = FALSE
  /\ Abort(j)
  /\ pending' = TRUE
  /\ future' = future \cup {"reconnect"}
  /\ UNCHANGED <<inventory, resyncEpoch>>

(* Mutant: a request joins one that is pending only.                       *)
JoinsPending == pending

(* requestReason: a request joins the resynchronisation under way.         *)
Joins == pending \/ Requested \/ active

(* Mutant: the device that had an event is not noted.                      *)
MarkDirtyNot(k) == UNCHANGED <<dirty, queries>>

(* markDirty.                                                              *)
MarkDirty(k) ==
  /\ dirty' = dirty \cup {k}
  /\ queries' = IF k \in Range(queries) THEN queries ELSE Append(queries, k)

(* One event less before the watermark is reached.                         *)
AheadAfter == IF ahead = 0 THEN 0 ELSE ahead - 1

(* arm: the deadlines the coordinator's timer is set for.  nextResync is   *)
(* set by a commit and taken back by the request it makes, so it is set    *)
(* whenever there is no resynchronisation to join.                         *)
Armed ==
  IF ~routeEvents
  THEN IF EventsBusy THEN {d \in {"subscribe"} : readerEpoch = epoch} ELSE future \cap {"reconnect"}
  ELSE IF ~Joins THEN {"resync"}
  ELSE IF pending THEN future \cap {"retry"} ELSE {}

(* schedulerLoop.run waits for an event, a result, a notice or the timer.  *)
WokenBy(d) ==
  \/ d = "none" /\ (inbox # <<>> \/ job.st = "done") /\ UNCHANGED <<wake, faults>>
  \/ d = "none" /\ wake /\ wake' = FALSE /\ UNCHANGED faults
  \/ /\ d \in Armed
     /\ IF d = "subscribe" THEN Fault ELSE UNCHANGED faults
     /\ UNCHANGED wake

(* before, which consumes the statuses of the reader.                      *)
Before ==
  /\ statuses' = <<>>
  /\ IF Lost
     THEN SyncLoss(job)
     ELSE /\ routeEvents' = (routeEvents \/ \E i \in 1 .. Len(statuses) :
                               statuses[i] = [epoch |-> epoch, ready |-> TRUE])
          /\ UNCHANGED <<epoch, inventory, resyncEpoch, pending, future, resyncVars>>

StartTurn(d) ==
  /\ pc = "wait"
  /\ WokenBy(d)
  /\ due' = d
  /\ pc' = "events"
  /\ handled' = 0
  /\ Before
  /\ UNCHANGED <<kernel, changes, socket, overrun, readerVars, inboxVars>>

(* knownLink and applyEvent.                                               *)
Applied(m) ==
  CASE m.kind = "link" /\ inventory[m.key].link.name = m.state.link.name -> m.state
    [] m.kind = "remove" -> m.state
    [] OTHER -> inventory[m.key]

(* reconciler.event, for an event of the current epoch.  A message that    *)
(* cannot be a device's state ends the epoch.                              *)
Apply(m) ==
  /\ IF m.kind = "resync"
     THEN /\ Abort(job)
          /\ pending' = TRUE
          /\ wake' = (wake \/ ~pending)
          /\ UNCHANGED inventory
     ELSE /\ pending' = (pending \/ ~Joins)
          /\ wake' = (wake \/ ~Joins)
          /\ inventory' = [inventory EXCEPT ![m.key] = Applied(m)]
          /\ IF active THEN MarkDirty(m.key) ELSE UNCHANGED <<dirty, queries>>
          /\ job' = [job EXCEPT !.stale = @ \/ (job.query /\ job.key = m.key)]
          /\ ahead' = AheadAfter
          /\ UNCHANGED <<candidate, active>>
  /\ UNCHANGED <<inboxEpoch, epoch, routeEvents, resyncEpoch, future, faults>>

Invalid ==
  /\ Fault
  /\ Lose(epoch)
  /\ SyncLoss(job)

HandleEvent ==
  /\ pc = "events" /\ handled < EventBudget /\ inbox # <<>>
  /\ LET e == Head(inbox) IN
     \/ Lost /\ SyncLoss(job) /\ UNCHANGED <<inboxEpoch, wake, faults>>
     \/ /\ ~Lost /\ e.epoch # epoch
        /\ ahead' = AheadAfter
        /\ UNCHANGED <<inboxEpoch, wake, future, deviceVars, pending, job, candidate,
                       active, dirty, queries, faults>>
     \/ ~Lost /\ e.epoch = epoch /\ (Apply(e.msg) \/ Invalid)
  /\ inbox' = Tail(inbox)
  /\ handled' = handled + 1
  /\ UNCHANGED <<kernel, changes, socket, overrun, readerVars, statuses, pc, due>>

EventsDrained ==
  /\ pc = "events"
  /\ handled = EventBudget \/ inbox = <<>>
  /\ pc' = "advance"
  /\ handled' = 0
  /\ UNCHANGED <<kernel, changes, socket, overrun, readerVars, statuses, inboxVars,
                 wake, due, future, deviceVars, pending, resyncVars, faults>>

(* acceptResult.                                                           *)
Accepts == Received.st = "waiting" /\ ReceivedAhead = 0

(* fail: the dump or the query reported an error.                          *)
Fail ==
  /\ Accepts /\ job.err /\ ~job.stale
  /\ Abort(Received)
  /\ pending' = TRUE
  /\ future' = future \cup {"retry"}
  /\ pc' = "wait"

AcceptDump ==
  /\ Accepts /\ ~job.query /\ ~job.err
  /\ candidate' = job.data
  /\ job' = NoJob /\ ahead' = 0
  /\ pc' = "inventory"
  /\ UNCHANGED <<pending, future, active, dirty, queries>>

(* The queue without the device, which is in it at most once.              *)
Unqueued(k) ==
  IF k \in Range(queries)
  THEN LET i == CHOOSE i \in 1 .. Len(queries) : queries[i] = k
       IN  SubSeq(queries, 1, i - 1) \o SubSeq(queries, i + 1, Len(queries))
  ELSE queries

(* Mutant: the answer to a query is taken whatever came meanwhile.         *)
AcceptQueryLate ==
  /\ Accepts /\ job.query /\ (job.stale \/ ~job.err)
  /\ IF job.err
     THEN MarkDirty(job.key) /\ UNCHANGED candidate
     ELSE /\ candidate' = [candidate EXCEPT ![job.key] = job.data[job.key]]
          /\ dirty' = dirty \ {job.key}
          /\ queries' = Unqueued(job.key)
  /\ job' = NoJob /\ ahead' = 0
  /\ pc' = "inventory"
  /\ UNCHANGED <<pending, future, active>>

(* Mutant: the answer to a query is always found stale.                    *)
AcceptQueryNever ==
  /\ Accepts /\ job.query /\ (job.stale \/ ~job.err)
  /\ MarkDirty(job.key)
  /\ job' = NoJob /\ ahead' = 0
  /\ pc' = "inventory"
  /\ UNCHANGED <<pending, future, candidate, active>>

(* acceptQuery: an event that came after the query was sent makes its      *)
(* answer worthless.                                                       *)
AcceptQuery ==
  /\ Accepts /\ job.query /\ (job.stale \/ ~job.err)
  /\ IF job.stale
     THEN MarkDirty(job.key) /\ UNCHANGED candidate
     ELSE /\ candidate' = [candidate EXCEPT ![job.key] = job.data[job.key]]
          /\ dirty' = dirty \ {job.key}
          /\ queries' = Unqueued(job.key)
  /\ job' = NoJob /\ ahead' = 0
  /\ pc' = "inventory"
  /\ UNCHANGED <<pending, future, active>>

AcceptNothing(requests) ==
  /\ ~Accepts
  /\ pending' = (pending \/ requests)
  /\ job' = Received /\ ahead' = ReceivedAhead
  /\ pc' = "inventory"
  /\ UNCHANGED <<future, candidate, active, dirty, queries>>

(* subscribe, after the pause that follows a loss, which may have passed.  *)
Subscribe ==
  /\ ~EventsBusy
  /\ future' = future \ {"reconnect"}
  /\ reader' = "starting"
  /\ readerEpoch' = epoch

(* The subscription did not become ready in time.                          *)
SubscribeTimeout == due = "subscribe" /\ readerEpoch = epoch /\ ~routeEvents

(* advance, up to advanceInventory.                                        *)
AdvanceLost ==
  /\ Lost \/ SubscribeTimeout
  /\ Lose(epoch)
  /\ SyncLoss(Received)
  /\ pc' = "wait"
  /\ UNCHANGED readerVars

AdvanceClosed ==
  /\ ~Lost /\ ~routeEvents /\ ~SubscribeTimeout
  /\ job' = Received /\ ahead' = ReceivedAhead
  /\ \/ Subscribe
     \/ /\ EventsBusy \/ ("reconnect" \in future /\ due # "reconnect")
        /\ UNCHANGED <<readerVars, future>>
  /\ pc' = "wait"
  /\ UNCHANGED <<inboxEpoch, wake, deviceVars, pending, candidate, active, dirty, queries>>

AdvanceOpen(asked) ==
  LET requests == (asked \/ due = "resync") /\ ~Joins IN
  /\ ~Lost /\ routeEvents
  /\ Fail \/ AcceptDump \/ AcceptQuery \/ AcceptNothing(requests)
  /\ wake' = (wake \/ requests)
  /\ UNCHANGED <<inboxEpoch, deviceVars, readerVars>>

(* The lifecycle's control hook, which runs before advance, may ask for a  *)
(* resynchronisation; one is pending already while there are no events.    *)
Advance ==
  /\ pc = "advance"
  /\ \/ AdvanceLost
     \/ AdvanceClosed
     \/ \E asked \in BOOLEAN : AdvanceOpen(asked)
  /\ due' = IF pc' = "wait" \/ due # "retry" THEN "none" ELSE due
  /\ UNCHANGED <<kernel, changes, socket, overrun, statuses, inbox, handled, faults>>

(* submit.                                                                 *)
Submit(isQuery, k) ==
  job' = [NoJob EXCEPT !.st = "run", !.current = TRUE, !.query = isQuery, !.key = k]

(* nextQuery.                                                              *)
NextQuery ==
  /\ candidate # NoData /\ dirty # {}
  /\ IF queries = <<>> THEN UNCHANGED <<job, queries>>
     ELSE Submit(TRUE, Head(queries)) /\ queries' = Tail(queries)
  /\ UNCHANGED <<future, deviceVars, pending, ahead, candidate, active, dirty>>

(* commit.                                                                 *)
Commit ==
  /\ candidate # NoData /\ dirty = {}
  /\ IF Lost
     THEN SyncLoss(job)
     ELSE /\ inventory' = candidate
          /\ resyncEpoch' = epoch
          /\ Abort(job)
          /\ pending' = FALSE
          /\ future' = future \ {"retry"}
          /\ UNCHANGED <<epoch, routeEvents>>

(* The pause that follows a failed dump may have passed.                   *)
StartDump ==
  /\ candidate = NoData /\ pending
  /\ active' = TRUE
  /\ dirty' = {}
  /\ pending' = FALSE
  /\ future' = future \ {"retry"}
  /\ Submit(FALSE, NoKey)
  /\ UNCHANGED <<deviceVars, ahead, candidate, queries>>

(* advanceInventory: nothing starts while events wait in the inbox.        *)
MayAdvance == job = NoJob /\ inbox = <<>>

AdvanceInventory ==
  /\ pc = "inventory"
  /\ pc' = "wait"
  /\ due' = "none"
  /\ \/ MayAdvance /\ (NextQuery \/ Commit \/ StartDump)
     \/ /\ \/ ~MayAdvance
           \/ candidate = NoData /\ (pending => "retry" \in future /\ due # "retry")
        /\ UNCHANGED <<future, deviceVars, pending, resyncVars>>
  /\ UNCHANGED <<kernel, changes, socket, overrun, readerVars, statuses, inboxVars,
                 wake, handled, faults>>

------------------------------------------------------------------------------
Up(n) == [link |-> [name |-> n, up |-> TRUE], ver |-> 0]

(* newReconciler; the first turn needs no wake-up.                         *)
Init ==
  /\ kernel \in [Keys -> {Up(n) : n \in Names}]
  /\ changes = 0
  /\ socket = <<>> /\ overrun = FALSE
  /\ reader = "none" /\ readerEpoch = 0
  /\ statuses = <<>>
  /\ inbox = <<>> /\ inboxEpoch = 1
  /\ wake = TRUE
  /\ pc = "wait" /\ handled = 0 /\ due = "none"
  /\ future = {}
  /\ epoch = 1 /\ routeEvents = FALSE
  /\ inventory = [k \in Keys |-> Unknown]
  /\ resyncEpoch = 0
  /\ pending = TRUE
  /\ job = NoJob /\ ahead = 0
  /\ candidate = NoData /\ active = FALSE
  /\ dirty = {} /\ queries = <<>>
  /\ faults = 0

Turn == \E d \in {"none", "subscribe", "reconnect", "resync", "retry"} : StartTurn(d)

Next ==
  \/ \E k \in Keys : Change(k) \/ Read(k)
  \/ ReaderOpen \/ ReadRoute \/ ReadEthtool \/ ReaderEnds \/ ReaderReports
  \/ JobEnds
  \/ Turn \/ HandleEvent \/ EventsDrained
  \/ Advance \/ AdvanceInventory

Spec == Init /\ [][Next]_vars

(* Each goroutine goes on while it can.  Nothing makes the kernel change   *)
(* a device or a request fail.                                             *)
ReaderStep ==
  \/ ReaderOpen \/ ReadRoute \/ ReaderReports
  \/ ReaderEnds /\ (overrun \/ Canceled)
ExecutorStep == \/ \E k \in Keys : Read(k)
                \/ JobEnds /\ ~job.current
OwnerStep == Turn \/ HandleEvent \/ EventsDrained \/ Advance \/ AdvanceInventory

Fairness == WF_vars(ReaderStep) /\ WF_vars(ExecutorStep) /\ WF_vars(OwnerStep)
FairSpec == Spec /\ Fairness

------------------------------------------------------------------------------
Messages == [kind : {"link", "remove", "refresh", "resync"},
             key : Keys \cup {NoKey}, state : States]
Jobs(K) == [st : {"none", "run", "done", "waiting"}, current : BOOLEAN, query : BOOLEAN,
            key : Keys \cup {NoKey}, stale : BOOLEAN, data : [K -> States], err : BOOLEAN]

(* The types.  The bounds are the capacities of the socket, of the inbox   *)
(* and of eventExecutor.results: the reader never blocks when it reports.  *)
TypeOK ==
  /\ kernel \in [Keys -> States]
  /\ changes \in Nat
  /\ socket \in Seq(Messages) /\ Len(socket) <= SocketCap
  /\ overrun \in BOOLEAN
  /\ reader \in {"none", "starting", "running", "ending"} /\ readerEpoch \in Nat
  /\ statuses \in Seq([epoch : Nat, ready : BOOLEAN]) /\ Len(statuses) <= 2
  /\ inbox \in Seq([msg : Messages, epoch : Nat]) /\ Len(inbox) <= InboxCap
  /\ inboxEpoch \in Nat
  /\ wake \in BOOLEAN
  /\ pc \in {"wait", "events", "advance", "inventory"}
  /\ handled \in Nat
  /\ due \in {"none", "subscribe", "reconnect", "resync", "retry"}
  /\ future \subseteq {"reconnect", "retry"}
  /\ epoch \in Nat /\ routeEvents \in BOOLEAN
  /\ inventory \in [Keys -> States] /\ resyncEpoch \in Nat
  /\ pending \in BOOLEAN
  /\ \E K \in SUBSET Keys : job \in Jobs(K)
  /\ ahead \in Nat
  /\ candidate \in [Keys -> States] \cup {NoData}
  /\ active \in BOOLEAN
  /\ dirty \subseteq Keys /\ queries \in Seq(Keys)
  /\ faults \in Nat

(* The inbox is never more than one epoch before the reducer, whoever      *)
(* reports the loss and however often: syncLoss would stop the monitor     *)
(* with errSequenceExhausted.                                              *)
EpochInStep == inboxEpoch \in {epoch, epoch + 1}

Notified(k) ==
  \/ \E i \in 1 .. Len(socket) : socket[i].key = k
  \/ \E i \in 1 .. Len(inbox) : inbox[i].epoch = epoch /\ inbox[i].msg.key = k

Behind == Lost \/ ~routeEvents \/ overrun \/ pending \/ active

(* A device whose state differs from the kernel's has a notification on    *)
(* its way, or the owner is going to resynchronise: no order of dumps,     *)
(* queries, events and losses leaves a wrong state that nothing corrects   *)
(* (commit, markDirty, acceptQuery).                                       *)
StaleIsNoticed ==
  \A k \in Keys : inventory[k].link # kernel[k].link => Behind \/ Notified(k)

(* commit never replaces the state of a device by one that an event had    *)
(* already replaced.                                                       *)
CommitNeverGoesBack ==
  [][active /\ ~active' /\ ~pending'
       => \A k \in Keys : inventory'[k].ver >= inventory[k].ver]_vars

(* Whatever was lost, failed or canceled, the monitor catches up again:    *)
(* no wake-up is lost between the goroutines.                              *)
Settled == ~Behind /\ socket = <<>> /\ inbox = <<>>
Settles == []<>Settled

(* The reconciler is the resynchronisation cycle the lifecycle relies on.  *)
Cycle == INSTANCE ResyncCycle
ImplementsResyncCycle == Cycle!Spec
==============================================================================
