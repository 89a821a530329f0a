---------------------------- MODULE LinkLifecycle ----------------------------
(***************************************************************************)
(* The link monitor's control requests and its durable baseline, the       *)
(* number of links expected to be up (pkg/linkmonitor, monitor.go,         *)
(* lifecycle*.go, internal/baseline/store.go).                             *)
(*                                                                         *)
(* Clients submit a resync or a rebaseline and wait for its ticket.  The   *)
(* owner, the scheduler's loop, takes requests, asks the reconciler for    *)
(* resynchronisations, learns the count, hands it to the storage executor  *)
(* and completes the tickets when it publishes.  The process may be        *)
(* stopped or may crash at any step, and starts again from the file.       *)
(*                                                                         *)
(* Of the reconciler only what ResyncCycle promises is used, with the      *)
(* serial number of the dump that is under way and of the one that was     *)
(* committed last.  LinkInventory implements ResyncCycle.  A record stands *)
(* for the session, the dump and the revision of the count it was taken    *)
(* from.  Time is left out: a deadline may pass whenever it is looked at,  *)
(* and has passed when its timer started the turn.                         *)
(***************************************************************************)
EXTENDS Integers, FiniteSets

CONSTANTS
  Clients,       \* callers of Submit and Await
  None,          \* no record
  MaxInputs,     \* bound: calls of Submit, events, losses, failures, stops and crashes
  MaxDumps       \* bound: dumps of a session after which the periodic resynchronisation
                 \*   looks no more for a ready count, which then stays unready

ASSUME NoneAssumption == None \notin [session : Nat, dump : Nat, rev : Nat]
ASSUME InputsAssumption == MaxInputs \in Nat /\ MaxDumps \in Nat

Kinds == {"resync", "rebaseline"}
Records == [session : Nat, dump : Nat, rev : Nat]

VARIABLES
  up,           \* the process: "run", "canceled", "stopping" or "down"
  session,      \* sessions before this one
  wanted,       \* controls.pending
  inFlight,     \* controls.active
  wake,         \* a token is in controls.wake
  requested,    \* controls.requested
  begun,        \* controls.begun
  completed,    \* controls.completed
  client,       \* the callers
  pc,           \* where the owner is in its turn
  due,          \* the lifecycle's timer started this turn
  lost,         \* the inbox's epoch is ahead of the reducer's
  queued,       \* events in the inbox
  pending,      \* reconciler.pending
  active,       \* a resynchronisation is under way
  answer,       \* its dump and queries have returned
  serial,       \* reconciler.dumpSerial
  committed,    \* reconciler.committedSerial
  rev,          \* reducer.countRevision
  count,        \* no inventory in this epoch, or with unknown links, or a ready count
  resync, resyncAfter, rebaseline,    \* of lifecycle
  learning,     \* settling, verifying, and verifyAfter, stableRevision while they mean something
  intended, expected, provisional,
  finished,     \* lifecycle.completed
  save,         \* the storage executor
  disk,         \* the record a process that starts finds
  durable,      \* the records that may be found after a reboot
  askedAt,      \* history: serial at the last Submit of the requests wanted,
  sinceAt,      \*   and of those in flight
  joined,       \* history: kinds that began while older work was under way
  steady,       \* history: rev did not change since the last dump was sent,
  confirmed,    \*   since the one committed last was sent
  ownSave,      \* history: expected was saved by this process
  inputs        \* calls of Submit, events, losses, failures, stops and crashes so far

controlVars   == <<wanted, inFlight, wake, requested, begun, completed>>
cycleVars     == <<pending, active, answer, serial, committed>>
countVars     == <<rev, count>>
passVars      == <<resync, resyncAfter, rebaseline, finished>>
baselineVars  == <<intended, expected, provisional, ownSave>>
fileVars      == <<disk, durable>>
ticketHistory == <<askedAt, sinceAt, joined>>
dumpHistory   == <<steady, confirmed>>
vars == <<up, session, controlVars, client, pc, due, lost, queued, cycleVars, countVars, learning,
          passVars, baselineVars, save, fileVars, ticketHistory, dumpHistory, inputs>>

Cycle == INSTANCE ResyncCycle

Idle == [st |-> "idle", kind |-> "resync", gen |-> 0]
NotLearning == [settling |-> FALSE, verifying |-> FALSE, verifyAfter |-> 0, stableRevision |-> 0]
NoSave == [st |-> "none", rec |-> None, outcome |-> "failed"]

Input ==
  /\ inputs < MaxInputs
  /\ inputs' = inputs + 1

------------------------------------------------------------------------------
(* The callers.                                                            *)

(* controls.request.  A request joins one of its kind that is pending.     *)
Request(k) ==
  /\ up = "run"
  /\ wanted' = wanted \cup {k}
  /\ requested' = IF k \in wanted THEN requested ELSE [requested EXCEPT ![k] = @ + 1]
  /\ wake' = (wake \/ k \notin wanted)

Submit(c, k) ==
  /\ client[c].st = "idle"
  /\ Input
  /\ Request(k)
  /\ client' = [client EXCEPT ![c] = [st |-> "wait", kind |-> k, gen |-> requested'[k]]]
  /\ askedAt' = [askedAt EXCEPT ![k] = serial]
  /\ UNCHANGED <<up, session, inFlight, begun, completed, pc, due, lost, queued, cycleVars, countVars,
                 learning, passVars, baselineVars, save, fileVars, sinceAt, joined,
                 dumpHistory>>

(* The caller's context ends.                                              *)
AwaitEnds(c) ==
  /\ client[c].st = "wait"
  /\ client' = [client EXCEPT ![c] = Idle]
  /\ UNCHANGED <<up, session, controlVars, pc, due, lost, queued, cycleVars, countVars, learning,
                 passVars, baselineVars, save, fileVars, ticketHistory, dumpHistory, inputs>>

(* controls.broadcast.  await looks at the generation and takes the channel *)
(* that broadcast closes under one lock, so a waiter misses no change: it  *)
(* returns when its pass is completed, or when the owner has stopped.      *)
Broadcast ==
  client' = [c \in Clients |->
               IF client[c].st = "wait" /\ (completed'[client[c].kind] >= client[c].gen \/ up' = "stopping")
               THEN Idle ELSE client[c]]

------------------------------------------------------------------------------
(* The world around the owner: the reader of link events, the inventory    *)
(* executor and the clock.                                                 *)

EventArrives ==
  /\ up = "run"
  /\ Input
  /\ queued' = queued + 1
  /\ UNCHANGED <<up, session, controlVars, client, pc, due, lost, cycleVars, countVars, learning,
                 passVars, baselineVars, save, fileVars, ticketHistory, dumpHistory>>

EventsLost ==
  /\ up = "run" /\ ~lost
  /\ Input
  /\ lost' = TRUE
  /\ UNCHANGED <<up, session, controlVars, client, pc, due, queued, cycleVars, countVars, learning,
                 passVars, baselineVars, save, fileVars, ticketHistory, dumpHistory>>

DumpReturns ==
  /\ up = "run" /\ active /\ ~answer
  /\ answer' = TRUE
  /\ UNCHANGED <<up, session, controlVars, client, pc, due, lost, queued, pending, active, serial,
                 committed, countVars, learning, passVars, baselineVars, save, fileVars,
                 ticketHistory, dumpHistory, inputs>>

------------------------------------------------------------------------------
(* The storage executor.                                                   *)

(* submit, unless the session's context has ended.                         *)
SubmitSave(record) ==
  save' = IF save.st = "none" /\ up = "run"
          THEN [st |-> "queued", rec |-> record, outcome |-> "failed"]
          ELSE save

(* Save fails before the rename.  A stopping session makes it fail.        *)
SaveFails ==
  /\ save.st = "queued"
  /\ \/ up = "run" /\ Input
     \/ up \in {"canceled", "stopping"} /\ UNCHANGED inputs
  /\ save' = [save EXCEPT !.st = "done", !.outcome = "failed"]
  /\ UNCHANGED <<up, session, controlVars, client, pc, due, lost, queued, cycleVars, countVars,
                 learning, passVars, baselineVars, fileVars, ticketHistory, dumpHistory>>

(* run may see that its context ended before it takes the record.          *)
SaveDropped ==
  /\ save.st = "queued" /\ up \in {"canceled", "stopping"}
  /\ save' = [save EXCEPT !.st = "dropped"]
  /\ UNCHANGED <<up, session, controlVars, client, pc, due, lost, queued, cycleVars, countVars,
                 learning, passVars, baselineVars, fileVars, ticketHistory, dumpHistory, inputs>>

SaveRenames ==
  /\ save.st = "queued"
  /\ save' = [save EXCEPT !.st = "renamed"]
  /\ disk' = save.rec
  /\ durable' = durable \cup {save.rec}
  /\ UNCHANGED <<up, session, controlVars, client, pc, due, lost, queued, cycleVars, countVars,
                 learning, passVars, baselineVars, ticketHistory, dumpHistory, inputs>>

(* The directory is synchronised, which settles what a reboot finds, or    *)
(* that fails and nobody knows.                                            *)
SaveSyncs ==
  /\ save.st = "renamed"
  /\ \/ /\ save' = [save EXCEPT !.st = "done", !.outcome = "durable"]
        /\ durable' = {save.rec}
        /\ UNCHANGED inputs
     \/ /\ Input
        /\ save' = [save EXCEPT !.st = "done", !.outcome = "indeterminate"]
        /\ UNCHANGED durable
  /\ UNCHANGED <<up, session, controlVars, client, pc, due, lost, queued, cycleVars, countVars,
                 learning, passVars, baselineVars, disk, ticketHistory, dumpHistory>>

------------------------------------------------------------------------------
(* The owner's turn.                                                       *)

(* requestReason: a request joins the resynchronisation that is wanted or  *)
(* under way.                                                              *)
RequestResync ==
  IF pending \/ active THEN UNCHANGED <<pending, active>> ELSE Cycle!Request

(* syncLoss: what was under way is wanted again.  The events left in the   *)
(* inbox are of the old epoch and mean nothing.                            *)
SyncLoss ==
  /\ IF active THEN Cycle!GiveUp ELSE RequestResync
  /\ answer' = FALSE
  /\ lost' = FALSE /\ queued' = 0
  /\ rev' = rev + 1
  /\ count' = "none"
  /\ steady' = FALSE /\ confirmed' = FALSE

(* event: it may change the count, or make a link's state unknown, and     *)
(* asks for a resynchronisation.                                           *)
Events ==
  /\ queued' \in 0 .. queued - 1
  /\ \/ UNCHANGED <<countVars, dumpHistory>>
     \/ /\ rev' = rev + 1
        /\ steady' = FALSE /\ confirmed' = FALSE
        /\ count' \in IF count = "none" THEN {"none"} ELSE {"partial", "ready"}
  /\ RequestResync
  /\ UNCHANGED <<lost, answer>>

(* The lifecycle's deadline is retryAt or settleAt.                        *)
TimerArmed == save.st = "none" /\ (intended # None \/ (learning.settling /\ ~learning.verifying))

(* The learn deadline may let the owner take a provisional baseline.       *)
LearnTimer == expected = None /\ count = "partial"

(* The reconciler's nextResync, which is set when nothing is under way.    *)
ResyncTimer ==
  /\ ~pending /\ ~active
  /\ IF count = "ready" THEN inputs < MaxInputs ELSE serial < MaxDumps

Woken(timer) ==
  IF timer THEN TimerArmed
  ELSE \/ wake \/ save.st = "done" \/ lost \/ queued > 0 \/ answer \/ pending
       \/ LearnTimer \/ ResyncTimer

StartTurn(timer) ==
  /\ up = "run" /\ pc = "wait"
  /\ Woken(timer)
  /\ pc' = "drain"
  /\ due' = timer
  /\ IF lost THEN SyncLoss
     ELSE IF queued > 0 THEN Events
     ELSE UNCHANGED <<lost, queued, pending, active, answer, countVars, dumpHistory>>
  /\ UNCHANGED <<up, session, controlVars, client, serial, committed, learning, passVars,
                 baselineVars, save, fileVars, ticketHistory, inputs>>

(* controls.begin.                                                         *)
Begin(work) ==
  /\ wanted' = wanted \ work
  /\ inFlight' = inFlight \cup work
  /\ begun' = [k \in Kinds |-> IF k \in work THEN requested[k] ELSE begun[k]]
  /\ sinceAt' = [k \in Kinds |-> IF k \in work THEN askedAt[k] ELSE sinceAt[k]]
  /\ askedAt' = [k \in Kinds |-> IF k \in work THEN 0 ELSE askedAt[k]]

(* Mutant: the dump that is under way counts.                              *)
BeginVerificationCommitted(settling) ==
  learning' = [settling |-> settling, verifying |-> TRUE,
               verifyAfter |-> committed, stableRevision |-> rev]

(* beginVerification, but for the resynchronisation it asks for.           *)
BeginVerification(settling) ==
  learning' = [settling |-> settling, verifying |-> TRUE,
               verifyAfter |-> serial, stableRevision |-> rev]

OlderWork(k) == IF k = "resync" THEN active ELSE intended # None

(* Mutant: the dump that was committed last counts.                        *)
ControlInclusive(work) ==
  LET verifies == "rebaseline" \in work /\ intended = None IN
  /\ Begin(work)
  /\ joined' = (joined \ work) \cup {k \in work : OlderWork(k)}
  /\ resync' = (resync \/ "resync" \in work)
  /\ resyncAfter' = IF "resync" \in work THEN committed - 1 ELSE resyncAfter
  /\ IF verifies THEN BeginVerification(learning.settling) ELSE UNCHANGED learning
  /\ IF verifies \/ "resync" \in work THEN RequestResync ELSE UNCHANGED <<pending, active>>

(* control, with the work that a token lets begin.                         *)
Control(work) ==
  LET verifies == "rebaseline" \in work /\ intended = None IN
  /\ Begin(work)
  /\ joined' = (joined \ work) \cup {k \in work : OlderWork(k)}
  /\ resync' = (resync \/ "resync" \in work)
  /\ resyncAfter' = IF "resync" \in work THEN committed ELSE resyncAfter
  /\ IF verifies THEN BeginVerification(learning.settling) ELSE UNCHANGED learning
  /\ IF verifies \/ "resync" \in work THEN RequestResync ELSE UNCHANGED <<pending, active>>

(* Mutant: a save that may be lost counts as done.                         *)
SavedUnlessFailed(asked) ==
  /\ save' = NoSave
  /\ IF save.outcome # "failed"
     THEN /\ expected' = intended
          /\ provisional' = FALSE
          /\ intended' = None
          /\ ownSave' = TRUE
          /\ rebaseline' = FALSE
     ELSE rebaseline' = asked /\ UNCHANGED baselineVars

(* saved: a record that is not known to be durable is saved again.  asked  *)
(* is lifecycle.rebaseline.                                                *)
Saved(asked) ==
  /\ save' = NoSave
  /\ IF save.outcome = "durable"
     THEN /\ expected' = intended
          /\ provisional' = FALSE
          /\ intended' = None
          /\ ownSave' = TRUE
          /\ rebaseline' = FALSE
     ELSE rebaseline' = asked /\ UNCHANGED baselineVars

(* drainControl, drainStorage.                                             *)
Drain ==
  LET work == IF wake THEN wanted \ inFlight ELSE {}
      asked == rebaseline \/ "rebaseline" \in work
  IN
  /\ pc = "drain"
  /\ pc' = "reconcile"
  /\ wake' = FALSE
  /\ Control(work)
  /\ IF save.st = "done" THEN Saved(asked)
     ELSE rebaseline' = asked /\ UNCHANGED <<save, baselineVars>>
  /\ finished' = finished \cup {k \in {"rebaseline"} : asked /\ ~rebaseline'}
  /\ UNCHANGED <<up, session, requested, completed, client, due, lost, queued, answer, serial,
                 committed, countVars, fileVars, dumpHistory, inputs>>

(* expire: no resynchronisation was committed for two intervals.           *)
Overdue ==
  /\ pc = "reconcile" /\ count = "ready" /\ (pending \/ active)
  /\ Input
  /\ count' = "partial"
  /\ UNCHANGED <<up, session, controlVars, client, pc, due, lost, queued, cycleVars, rev, learning,
                 passVars, baselineVars, save, fileVars, ticketHistory, dumpHistory>>

(* The reconciler's advance: the periodic resynchronisation,               *)
Periodic ==
  /\ pc = "reconcile" /\ ~lost
  /\ Cycle!Request
  /\ IF count = "ready" THEN Input ELSE serial < MaxDumps /\ UNCHANGED inputs
  /\ UNCHANGED <<up, session, controlVars, client, pc, due, lost, queued, answer, serial, committed,
                 countVars, learning, passVars, baselineVars, save, fileVars,
                 ticketHistory, dumpHistory>>

(* the start of a dump,                                                    *)
StartDump ==
  /\ ~lost /\ queued = 0
  /\ Cycle!Start
  /\ serial' = serial + 1
  /\ steady' = TRUE
  /\ UNCHANGED <<lost, queued, answer, committed, countVars, confirmed, inputs>>

(* its commit, or its failure.  The commit changes the revision where the  *)
(* inventory was wrong.  The count is not ready after it when a link's     *)
(* state is unknown or RDMA events are not covered (countReady), which may *)
(* come, stay or go with no change of the revision.  A change of an        *)
(* inventory that was there, and a count that becomes unready, are inputs. *)
Commit ==
  /\ ~lost /\ queued = 0 /\ answer
  /\ answer' = FALSE
  /\ \/ /\ Cycle!Finish
        /\ committed' = serial
        /\ rev' \in {rev, rev + 1} /\ count' \in {"partial", "ready"}
        /\ IF count' \in {count, "ready"} /\ (count = "none" \/ rev' = rev)
           THEN UNCHANGED inputs ELSE Input
        /\ steady' = (steady /\ rev' = rev)
        /\ confirmed' = steady'
     \/ /\ Cycle!GiveUp
        /\ Input
        /\ UNCHANGED <<committed, dumpHistory, countVars>>
  /\ UNCHANGED <<lost, queued, serial>>

Reconcile ==
  /\ pc = "reconcile"
  /\ pc' = "publish"
  /\ \/ lost /\ SyncLoss /\ UNCHANGED <<serial, committed, inputs>>
     \/ StartDump
     \/ Commit
     \/ /\ ~lost /\ ~(answer /\ queued = 0)
        /\ UNCHANGED <<lost, queued, cycleVars, countVars, dumpHistory, inputs>>
  /\ UNCHANGED <<up, session, controlVars, client, due, learning, passVars, baselineVars, save,
                 fileVars, ticketHistory>>

------------------------------------------------------------------------------
(* The lifecycle's advance.                                                *)

CountReady == count = "ready" /\ ~lost
Record == [session |-> session, dump |-> committed, rev |-> rev]

(* learn without a ready count.  The learn deadline may have passed: the   *)
(* count that is visible is then published, never written.                 *)
LearnLater ==
  /\ ~CountReady
  /\ learning' = NotLearning
  /\ UNCHANGED <<intended, ownSave, save, pending, active>>
  /\ \/ UNCHANGED <<expected, provisional>>
     \/ /\ expected = None /\ count # "none" /\ ~lost
        /\ expected' = Record
        /\ provisional' = TRUE

(* Mutant: the dump that was under way when the verification began counts. *)
VerifiedAny == committed >= learning.verifyAfter

(* verify: a dump sent after the verification began has confirmed the      *)
(* count.                                                                  *)
Verified == committed > learning.verifyAfter
Stable == learning.stableRevision = rev

Verify ==
  /\ CountReady /\ learning.verifying /\ Stable
  /\ \/ /\ ~Verified
        /\ RequestResync
        /\ UNCHANGED <<learning, baselineVars, save>>
     \/ /\ Verified /\ queued > 0
        /\ UNCHANGED <<learning, baselineVars, save, pending, active>>
     \/ /\ Verified /\ queued = 0
        /\ intended' = Record
        /\ learning' = NotLearning
        /\ SubmitSave(Record)
        /\ UNCHANGED <<expected, provisional, ownSave, pending, active>>

(* learn, otherwise: a rebaseline is verified at once, a count that is     *)
(* learnt once it has not changed for a while, which may be no time.       *)
Settle ==
  /\ CountReady /\ (learning.verifying => ~Stable)
  /\ \/ /\ BeginVerification(~rebaseline \/ (learning.settling /\ ~learning.verifying))
        /\ RequestResync
     \/ /\ ~rebaseline /\ ~(due /\ learning.settling /\ Stable)
        /\ learning' = [settling |-> TRUE, verifying |-> FALSE,
                        verifyAfter |-> 0, stableRevision |-> rev]
        /\ UNCHANGED <<pending, active>>
  /\ UNCHANGED <<baselineVars, save>>

(* A save that failed is sent again when its pause has passed.             *)
Retry ==
  /\ SubmitSave(intended) \/ (~due /\ UNCHANGED save)
  /\ UNCHANGED <<learning, baselineVars, pending, active>>

Wanting == rebaseline \/ expected = None \/ provisional

(* Mutants: a request that came meanwhile is completed too; the owner is   *)
(* not woken for it.                                                       *)
CompleteRequested(work) ==
  IF work = {} THEN UNCHANGED <<inFlight, completed, wake, client>>
  ELSE /\ inFlight' = inFlight \ work
       /\ completed' = [k \in Kinds |-> IF k \in work THEN requested[k] ELSE completed[k]]
       /\ wake' = (wake \/ wanted # {})
       /\ Broadcast

CompleteSilently(work) ==
  IF work = {} THEN UNCHANGED <<inFlight, completed, wake, client>>
  ELSE /\ inFlight' = inFlight \ work
       /\ completed' = [k \in Kinds |-> IF k \in work THEN begun[k] ELSE completed[k]]
       /\ UNCHANGED wake
       /\ Broadcast

(* controls.complete.                                                      *)
Complete(work) ==
  IF work = {} THEN UNCHANGED <<inFlight, completed, wake, client>>
  ELSE /\ inFlight' = inFlight \ work
       /\ completed' = [k \in Kinds |-> IF k \in work THEN begun[k] ELSE completed[k]]
       /\ wake' = (wake \/ wanted # {})
       /\ Broadcast

(* advance, then publish with controls.complete.                           *)
Publish ==
  LET reconciled == resync /\ committed > resyncAfter
      done == finished \cup {k \in {"resync"} : reconciled}
  IN
  /\ pc = "publish"
  /\ pc' = "wait"
  /\ resync' = (resync /\ ~reconciled)
  /\ resyncAfter' = IF reconciled THEN 0 ELSE resyncAfter
  /\ \/ intended # None /\ Retry
     \/ intended = None /\ Wanting /\ (LearnLater \/ Verify \/ Settle)
     \/ /\ intended = None /\ ~Wanting
        /\ UNCHANGED <<learning, baselineVars, save, pending, active>>
  /\ UNCHANGED up
  /\ Complete(done \cap inFlight)
  /\ finished' = {}
  /\ sinceAt' = [k \in Kinds |-> IF k \in done THEN 0 ELSE sinceAt[k]]
  /\ joined' = joined \ done
  /\ due' = FALSE
  /\ UNCHANGED <<session, wanted, requested, begun, lost, queued, answer, serial, committed,
                 countVars, rebaseline, fileVars, askedAt, dumpHistory, inputs>>

------------------------------------------------------------------------------
(* The session's start and end.                                            *)

(* What the process holds is gone; the first turn needs no wake-up.        *)
Fresh(record) ==
  /\ wanted' = {} /\ inFlight' = {} /\ wake' = FALSE
  /\ requested' = [k \in Kinds |-> 0]
  /\ begun' = [k \in Kinds |-> 0]
  /\ completed' = [k \in Kinds |-> 0]
  /\ pc' = "wait" /\ due' = FALSE
  /\ lost' = FALSE /\ queued' = 0
  /\ pending' = TRUE /\ active' = FALSE /\ answer' = FALSE
  /\ serial' = 0 /\ committed' = 0
  /\ rev' = 0 /\ count' = "none"
  /\ resync' = FALSE /\ resyncAfter' = 0 /\ rebaseline' = FALSE /\ finished' = {}
  /\ learning' = NotLearning
  /\ intended' = None /\ expected' = record /\ provisional' = FALSE /\ ownSave' = FALSE
  /\ save' = NoSave
  /\ askedAt' = [k \in Kinds |-> 0] /\ sinceAt' = [k \in Kinds |-> 0] /\ joined' = {}
  /\ steady' = FALSE /\ confirmed' = FALSE

(* The context ends: no request is accepted any more.                      *)
Cancel ==
  /\ up = "run"
  /\ Input
  /\ up' = "canceled"
  /\ UNCHANGED <<session, controlVars, client, pc, due, lost, queued, cycleVars, countVars, learning,
                 passVars, baselineVars, save, fileVars, ticketHistory, dumpHistory>>

(* The loop has ended; controls.stop.                                      *)
Stop ==
  /\ up = "canceled" /\ pc = "wait"
  /\ up' = "stopping"
  /\ wanted' = {} /\ inFlight' = {}
  /\ UNCHANGED completed
  /\ Broadcast
  /\ UNCHANGED <<session, wake, requested, begun, pc, due, lost, queued, cycleVars,
                 countVars, learning, passVars, baselineVars, save, fileVars,
                 ticketHistory, dumpHistory, inputs>>

(* shutdown, finish: the storage executor has ended, its result is         *)
(* published, and the lock is released.                                    *)
Finish ==
  /\ up = "stopping" /\ save.st \in {"none", "done", "dropped"}
  /\ up' = "down"
  /\ IF save.st = "done" THEN Saved(rebaseline)
     ELSE UNCHANGED <<save, baselineVars, rebaseline>>
  /\ finished' = {}
  /\ UNCHANGED <<session, controlVars, client, pc, due, lost, queued, cycleVars, countVars, learning,
                 resync, resyncAfter, fileVars, ticketHistory, dumpHistory, inputs>>

(* The process ends at any step.  A reboot may undo a rename that was not  *)
(* synchronised.                                                           *)
Crash ==
  /\ up # "down"
  /\ Input
  /\ up' = "down"
  /\ UNCHANGED session
  /\ Fresh(None)
  /\ client' = [c \in Clients |-> Idle]
  /\ \/ UNCHANGED fileVars
     \/ disk' \in durable /\ durable' = {disk'}

(* Run, in a new process: LoadAndLock, prepare.                            *)
Run ==
  /\ up = "down"
  /\ up' = "run"
  /\ session' = session + 1
  /\ Fresh(disk)
  /\ client' = [c \in Clients |-> Idle]
  /\ UNCHANGED <<fileVars, inputs>>

Old == [session |-> 0, dump |-> 0, rev |-> 0]

Init ==
  /\ up = "run" /\ session = 1
  /\ wanted = {} /\ inFlight = {} /\ wake = FALSE
  /\ requested = [k \in Kinds |-> 0]
  /\ begun = [k \in Kinds |-> 0]
  /\ completed = [k \in Kinds |-> 0]
  /\ client = [c \in Clients |-> Idle]
  /\ pc = "wait" /\ due = FALSE
  /\ lost = FALSE /\ queued = 0
  /\ Cycle!Init /\ answer = FALSE /\ serial = 0 /\ committed = 0
  /\ rev = 0 /\ count = "none"
  /\ resync = FALSE /\ resyncAfter = 0 /\ rebaseline = FALSE /\ finished = {}
  /\ learning = NotLearning
  /\ disk \in {None, Old} /\ durable = {disk}
  /\ intended = None /\ expected = disk /\ provisional = FALSE /\ ownSave = FALSE
  /\ save = NoSave
  /\ askedAt = [k \in Kinds |-> 0] /\ sinceAt = [k \in Kinds |-> 0] /\ joined = {}
  /\ steady = FALSE /\ confirmed = FALSE
  /\ inputs = 0

Turn == \/ \E timer \in BOOLEAN : StartTurn(timer)
        \/ Drain \/ Reconcile \/ Publish

Next ==
  \/ \E c \in Clients : AwaitEnds(c) \/ \E k \in Kinds : Submit(c, k)
  \/ EventArrives \/ EventsLost \/ DumpReturns
  \/ SaveFails \/ SaveDropped \/ SaveRenames \/ SaveSyncs
  \/ Turn \/ Overdue \/ Periodic
  \/ Cancel \/ Stop \/ Finish \/ Crash \/ Run

Spec == Init /\ [][Next]_vars

(* The goroutines go on while they can, the lifecycle's timer fires, and   *)
(* the reconciler gets to its dump (Settles of LinkInventory).             *)
Fairness ==
  /\ WF_vars(Turn)
  /\ SF_vars(StartTurn(TRUE))
  /\ SF_vars(Reconcile /\ StartDump)
  /\ SF_vars(Periodic /\ count # "ready")
  /\ WF_vars(DumpReturns)
  /\ WF_vars(SaveRenames \/ SaveSyncs)
  /\ WF_vars(Stop)
FairSpec == Spec /\ Fairness

------------------------------------------------------------------------------
(* The types; resyncAfter and verifyAfter are serial numbers.              *)
TypeOK ==
  /\ up \in {"run", "canceled", "stopping", "down"} /\ session \in Nat
  /\ wanted \subseteq Kinds /\ inFlight \subseteq Kinds /\ wake \in BOOLEAN
  /\ requested \in [Kinds -> Nat] /\ begun \in [Kinds -> Nat] /\ completed \in [Kinds -> Nat]
  /\ client \in [Clients -> [st : {"idle", "wait"}, kind : Kinds, gen : Nat]]
  /\ pc \in {"wait", "drain", "reconcile", "publish"}
  /\ due \in BOOLEAN
  /\ lost \in BOOLEAN /\ queued \in Nat
  /\ pending \in BOOLEAN /\ active \in BOOLEAN /\ answer \in BOOLEAN
  /\ serial \in Nat /\ committed \in Nat /\ rev \in Nat
  /\ count \in {"none", "partial", "ready"}
  /\ resync \in BOOLEAN /\ resyncAfter \in Nat /\ rebaseline \in BOOLEAN
  /\ finished \subseteq Kinds
  /\ learning \in [settling : BOOLEAN, verifying : BOOLEAN,
                   verifyAfter : Nat, stableRevision : Nat]
  /\ intended \in Records \cup {None} /\ expected \in Records \cup {None}
  /\ provisional \in BOOLEAN /\ ownSave \in BOOLEAN
  /\ save \in [st : {"none", "queued", "renamed", "done", "dropped"},
               rec : Records \cup {None}, outcome : {"failed", "indeterminate", "durable"}]
  /\ disk \in Records \cup {None} /\ durable \subseteq Records \cup {None}
  /\ askedAt \in [Kinds -> Nat] /\ sinceAt \in [Kinds -> Nat] /\ joined \subseteq Kinds
  /\ steady \in BOOLEAN /\ confirmed \in BOOLEAN
  /\ inputs \in Nat

(* No caller is forgotten: one that waits waits for a pass that is not     *)
(* completed, that is in flight, or that is pending with a wake-up on its  *)
(* way to an owner that has not stopped (controls.request, controls.begin, *)
(* controls.complete, controls.stop).                                      *)
CallersServed ==
  \A c \in Clients : client[c].st = "wait" =>
    LET k == client[c].kind IN
    /\ up \in {"run", "canceled"}
    /\ client[c].gen > completed[k]
    /\ k \in inFlight \/ (k \in wanted /\ wake)

(* Every accepted request belongs to exactly one pass, which is pending,   *)
(* in flight or completed, so at most one of a kind is in flight and one   *)
(* pending however many requests come (docs/design-admin-access.md); what  *)
(* is in flight the lifecycle works on, and no caller is forgotten.        *)
Bit(b) == IF b THEN 1 ELSE 0
PassesCounted ==
  /\ up \in {"run", "canceled"} =>
       /\ \A k \in Kinds :
            requested[k] = completed[k] + Bit(k \in wanted) + Bit(k \in inFlight)
       /\ inFlight = finished \cup {k \in {"resync"} : resync}
                              \cup {k \in {"rebaseline"} : rebaseline}
  /\ CallersServed

(* The baseline in memory is never one that a restart would not find, but  *)
(* for the one being saved: only a durable save replaces it (Store.Save).  *)
BaselineSurvives ==
  expected # None /\ ~provisional =>
    /\ disk \in {expected, intended} \ {None}
    /\ ownSave => durable \subseteq {expected, intended} \ {None}

(* A baseline is taken only when a dump that was sent after the count last *)
(* changed has confirmed it (verify).                                      *)
ConfirmedBaseline ==
  [][intended' \notin {intended, None} => confirmed /\ intended'.rev = rev]_vars

(* The dump that a completed ticket stands for.                            *)
Reflects(k) == IF k = "resync" THEN committed ELSE expected.dump

(* A ticket that is completed stands for a dump sent after Submit, unless  *)
(* older work was under way when its pass began; a rebaseline's is on disk *)
(* for good.                                                               *)
TicketsAreFresh ==
  [][\A k \in inFlight : completed'[k] > completed[k] =>
       /\ k \in joined \/ Reflects(k) > sinceAt[k]
       /\ k = "rebaseline" => durable = {expected} /\ ~provisional]_vars

(* "a completed ticket always reflects work that began after Submit        *)
(* returned" (Monitor.Submit).                                             *)
TicketReflectsLaterWork ==
  [][\A k \in inFlight : completed'[k] > completed[k] => Reflects(k) > sinceAt[k]]_vars

(* Await returns: no completion and no follow-up pass is forgotten.  A     *)
(* resync's returns when its dump is committed, whatever the count.  A     *)
(* rebaseline's waits until the count is ready and stays so long enough to *)
(* be confirmed and saved, so it may wait for ever where that never        *)
(* happens (learn).                                                        *)
AwaitReturns ==
  \A c \in Clients :
    client[c].st = "wait" ~>
      \/ client[c].st = "idle"
      \/ client[c].kind = "rebaseline" /\ []<>(count # "ready")
==============================================================================
