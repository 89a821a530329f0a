------------------------- MODULE LinkLifecycleProofs -------------------------
(***************************************************************************)
(* What LinkLifecycle guarantees for any number of callers, requests,      *)
(* events, failures and restarts: its inductive invariant IInv, and the    *)
(* theorems that follow from it.                                           *)
(***************************************************************************)
EXTENDS LinkLifecycle, TLAPS

(* The types of what is counted, compared or saved.                        *)
Counters ==
  /\ wanted \subseteq Kinds /\ inFlight \subseteq Kinds
  /\ requested \in [Kinds -> Nat] /\ begun \in [Kinds -> Nat] /\ completed \in [Kinds -> Nat]
Numbers ==
  /\ session \in Nat /\ serial \in Nat /\ committed \in Nat /\ rev \in Nat /\ resyncAfter \in Nat
  /\ learning.verifyAfter \in Nat /\ learning.stableRevision \in Nat
  /\ askedAt \in [Kinds -> Nat] /\ sinceAt \in [Kinds -> Nat]
Baselines ==
  /\ intended \in Records \cup {None} /\ expected \in Records \cup {None}
  /\ disk \in Records \cup {None} /\ durable \subseteq Records \cup {None}
  /\ save \in [st : {"none", "queued", "renamed", "done", "dropped"},
               rec : Records \cup {None}, outcome : {"failed", "indeterminate", "durable"}]

(* A pass is counted once when it begins and once when it is completed, and *)
(* completed is filled and emptied in the same turn.                       *)
Passes ==
  up \in {"run", "canceled"} =>
    /\ \A k \in Kinds : requested[k] = begun[k] + Bit(k \in wanted)
    /\ \A k \in Kinds : begun[k] = completed[k] + Bit(k \in inFlight)
    /\ inFlight = finished \cup {k \in {"resync"} : resync}
                           \cup {k \in {"rebaseline"} : rebaseline}

FinishedInTurn ==
  /\ finished \subseteq {"rebaseline"}
  /\ rebaseline => finished = {}
  /\ pc \in {"wait", "drain"} => finished = {}

(* The storage executor holds the intended record, and what it reports is  *)
(* what it did to the file.                                                *)
Saving ==
  /\ save.st # "none" => intended # None /\ save.rec = intended
  /\ save.st = "renamed" => disk = intended
  /\ save.st = "done" /\ save.outcome = "durable" => disk = intended /\ durable = {intended}

SavedTicket ==
  "rebaseline" \in finished =>
    intended = None /\ expected # None /\ ~provisional /\ durable = {expected}

(* What a request that joined nothing is waiting for is later than the     *)
(* dump under way when it was submitted.                                   *)
Serials ==
  /\ committed <= serial
  /\ \A k \in Kinds : askedAt[k] <= serial /\ sinceAt[k] <= serial

ResyncLater ==
  resync /\ "resync" \notin joined =>
    /\ active => serial > sinceAt["resync"]
    /\ committed > resyncAfter => committed > sinceAt["resync"]

RebaselineLater ==
  /\ rebaseline /\ "rebaseline" \notin joined =>
       /\ intended # None => intended.dump > sinceAt["rebaseline"]
       /\ learning.verifying => learning.verifyAfter >= sinceAt["rebaseline"]
  /\ "rebaseline" \in finished \ joined => expected.dump > sinceAt["rebaseline"]

(* While the count under verification has not changed, no dump sent since  *)
(* the verification began has seen another one.                            *)
Verification ==
  learning.verifying =>
    /\ learning.stableRevision <= rev /\ learning.verifyAfter <= serial
    /\ Stable /\ serial > learning.verifyAfter => steady
    /\ Stable /\ committed > learning.verifyAfter => confirmed

IInv ==
  /\ Counters /\ Numbers /\ Baselines
  /\ Passes /\ FinishedInTurn /\ Saving /\ BaselineSurvives /\ SavedTicket
  /\ Serials /\ ResyncLater /\ RebaselineLater /\ Verification

------------------------------------------------------------------------------
(* What the steps leave alone.  Most steps touch one part of the state.    *)
ControlsStill == UNCHANGED <<wanted, inFlight, requested, begun, completed>>
PassesStill   == UNCHANGED <<resync, resyncAfter, rebaseline, finished>>
TicketsStill  == UNCHANGED <<askedAt, sinceAt, joined>>
BaselineStill == UNCHANGED <<intended, expected, provisional, ownSave>>
DumpsStill    == UNCHANGED <<active, serial, committed, rev, steady, confirmed>>
FilesStill    == UNCHANGED <<save, disk, durable>>

(* The steps of the world around the owner, and of the storage executor.   *)
Surroundings ==
  \/ EventArrives \/ EventsLost \/ DumpReturns \/ Overdue \/ Periodic \/ Cancel
  \/ \E c \in Clients : AwaitEnds(c)
Storage == SaveFails \/ SaveDropped \/ SaveRenames \/ SaveSyncs
Submits == \E c \in Clients, k \in Kinds : Submit(c, k)
Starts  == \E timer \in BOOLEAN : StartTurn(timer)

(* A step is one of these.                                                 *)
LEMMA Steps ==
  ASSUME Next
  PROVE  \/ Surroundings \/ Storage \/ Submits \/ Starts \/ Drain \/ Reconcile \/ Publish
         \/ Stop \/ Finish \/ Crash \/ Run
  BY Zenon DEF Next, Turn, Surroundings, Storage, Submits, Starts

(* The world around the owner leaves what the owner holds alone; the       *)
(* context may end.                                                        *)
LEMMA SurroundingsFrame ==
  ASSUME Surroundings
  PROVE  /\ ControlsStill /\ PassesStill /\ TicketsStill /\ BaselineStill /\ DumpsStill /\ FilesStill
         /\ UNCHANGED <<session, learning, pc, wake, due>>
         /\ UNCHANGED up \/ (up = "run" /\ up' = "canceled")
<1> USE DEF ControlsStill, PassesStill, TicketsStill, BaselineStill, DumpsStill, FilesStill,
            controlVars, cycleVars, countVars, passVars, baselineVars, fileVars, ticketHistory,
            dumpHistory
<1>1. CASE EventArrives
  BY <1>1, Zenon DEF EventArrives
<1>2. CASE EventsLost
  BY <1>2, Zenon DEF EventsLost
<1>3. CASE DumpReturns
  BY <1>3, Zenon DEF DumpReturns
<1>4. CASE Overdue
  BY <1>4, Zenon DEF Overdue
<1>5. CASE Periodic
  BY <1>5, Zenon DEF Periodic, Cycle!Request
<1>6. CASE Cancel
  BY <1>6, Zenon DEF Cancel
<1>7. ASSUME NEW c \in Clients, AwaitEnds(c)
      PROVE  /\ ControlsStill /\ PassesStill /\ TicketsStill /\ BaselineStill /\ DumpsStill
             /\ FilesStill /\ UNCHANGED <<session, learning, pc, wake, due, up>>
  BY <1>7, Zenon DEF AwaitEnds
<1> HIDE DEF ControlsStill, PassesStill, TicketsStill, BaselineStill, DumpsStill, FilesStill
<1> QED
  BY <1>1, <1>2, <1>3, <1>4, <1>5, <1>6, <1>7, Zenon DEF Surroundings

(* The storage executor touches the file and its own state.                *)
LEMMA StorageFrame ==
  ASSUME Storage
  PROVE  /\ ControlsStill /\ PassesStill /\ TicketsStill /\ BaselineStill /\ DumpsStill
         /\ UNCHANGED <<session, learning, pc, wake, due, up, client>>
<1> USE DEF ControlsStill, PassesStill, TicketsStill, BaselineStill, DumpsStill,
            controlVars, cycleVars, countVars, passVars, baselineVars, ticketHistory, dumpHistory
<1>1. CASE SaveFails
  BY <1>1, Zenon DEF SaveFails
<1>2. CASE SaveDropped
  BY <1>2, Zenon DEF SaveDropped
<1>3. CASE SaveRenames
  BY <1>3, Zenon DEF SaveRenames
<1>4. CASE SaveSyncs
  BY <1>4, Zenon DEF SaveSyncs
<1> HIDE DEF ControlsStill, PassesStill, TicketsStill, BaselineStill, DumpsStill
<1> QED
  BY <1>1, <1>2, <1>3, <1>4, Zenon DEF Storage

(* A caller touches the controls.                                          *)
LEMMA SubmitFrame ==
  ASSUME NEW c, NEW k, Submit(c, k)
  PROVE  /\ PassesStill /\ BaselineStill /\ DumpsStill /\ FilesStill
         /\ UNCHANGED <<inFlight, begun, completed, sinceAt, joined, session, learning, pc, due, up>>
  BY Zenon DEF Submit, PassesStill, BaselineStill, DumpsStill, FilesStill, cycleVars, countVars,
       passVars, baselineVars, fileVars, dumpHistory

(* The start of a turn and the reconciler touch the dumps and the count.   *)
LEMMA StartFrame ==
  ASSUME NEW timer, StartTurn(timer)
  PROVE  /\ ControlsStill /\ PassesStill /\ TicketsStill /\ BaselineStill /\ FilesStill
         /\ UNCHANGED <<session, learning, up, wake, serial, committed, client, inputs>>
         /\ pc = "wait" /\ pc' = "drain"
  BY Zenon DEF StartTurn, ControlsStill, PassesStill, TicketsStill, BaselineStill, FilesStill,
       controlVars, passVars, baselineVars, fileVars, ticketHistory

LEMMA ReconcileFrame ==
  ASSUME Reconcile
  PROVE  /\ ControlsStill /\ PassesStill /\ TicketsStill /\ BaselineStill /\ FilesStill
         /\ UNCHANGED <<session, learning, up, wake, due, client>>
         /\ pc = "reconcile" /\ pc' = "publish"
  BY Zenon DEF Reconcile, ControlsStill, PassesStill, TicketsStill, BaselineStill, FilesStill,
       controlVars, passVars, baselineVars, fileVars, ticketHistory

(* The end of the loop clears the controls.                                *)
LEMMA StopFrame ==
  ASSUME Stop
  PROVE  /\ PassesStill /\ TicketsStill /\ BaselineStill /\ DumpsStill /\ FilesStill
         /\ UNCHANGED <<session, learning, pc, due, wake, requested, begun, completed>>
         /\ wanted' = {} /\ inFlight' = {} /\ up' = "stopping" /\ Broadcast
  BY Zenon DEF Stop, PassesStill, TicketsStill, BaselineStill, DumpsStill, FilesStill, cycleVars,
       countVars, passVars, baselineVars, fileVars, ticketHistory, dumpHistory

(* The end of the session publishes what the storage executor returned.    *)
LEMMA FinishFrame ==
  ASSUME Finish
  PROVE  /\ ControlsStill /\ TicketsStill /\ DumpsStill
         /\ UNCHANGED <<session, learning, pc, due, wake, resync, resyncAfter, disk, durable, client>>
         /\ up' = "down" /\ finished' = {}
         /\ \/ save.st = "done" /\ Saved(rebaseline)
            \/ UNCHANGED <<save, rebaseline>> /\ BaselineStill
  BY Zenon DEF Finish, ControlsStill, TicketsStill, DumpsStill, BaselineStill, controlVars, cycleVars,
       countVars, baselineVars, fileVars, ticketHistory, dumpHistory

(* A process that ends or begins holds nothing.                            *)
LEMMA RestartFrame ==
  ASSUME Crash \/ Run
  PROVE  /\ \E record \in {None, disk} : Fresh(record)
         /\ client' = [c \in Clients |-> Idle]
         /\ session' \in {session, session + 1}
         /\ UNCHANGED fileVars \/ (disk' \in durable /\ durable' = {disk'})
  BY Zenon DEF Crash, Run

(* The counters stay numbers.                                              *)
LEMMA CountersStep == Counters /\ Next => Counters'
<1> SUFFICES ASSUME Counters, Next PROVE Counters'
  OBVIOUS
<1>1. ASSUME NEW c \in Clients, NEW k \in Kinds, Submit(c, k) PROVE Counters'
  <2>1. /\ wanted' = wanted \cup {k} /\ UNCHANGED <<inFlight, begun, completed>>
        /\ requested' = requested \/ requested' = [requested EXCEPT ![k] = @ + 1]
    BY <1>1, Zenon DEF Submit, Request
  <2> QED
    BY <2>1 DEF Counters
<1>2. CASE Drain
  <2> DEFINE work == IF wake THEN wanted \ inFlight ELSE {}
  <2>1. Begin(work) /\ UNCHANGED <<requested, completed>>
    BY <1>2, Zenon DEF Drain, Control
  <2>2. work \subseteq wanted
    OBVIOUS
  <2> HIDE DEF work
  <2> QED
    BY <2>1, <2>2 DEF Counters, Begin
<1>3. CASE Publish
  <2>1. PICK work : Complete(work) /\ UNCHANGED <<wanted, requested, begun>>
    BY <1>3, Zenon DEF Publish
  <2> QED
    BY <2>1 DEF Counters, Complete
<1>4. CASE Stop
  BY <1>4, StopFrame DEF Counters
<1>5. CASE Crash \/ Run
  <2>1. /\ wanted' = {} /\ inFlight' = {}
        /\ requested' = [k \in Kinds |-> 0] /\ begun' = [k \in Kinds |-> 0]
        /\ completed' = [k \in Kinds |-> 0]
    BY <1>5, RestartFrame, Zenon DEF Fresh
  <2> QED
    BY <2>1 DEF Counters
<1>6. CASE ControlsStill
  BY <1>6 DEF Counters, ControlsStill
<1> QED
  BY <1>1, <1>2, <1>3, <1>4, <1>5, <1>6, Steps, SurroundingsFrame, StorageFrame, StartFrame,
     ReconcileFrame, FinishFrame, Zenon DEF Submits, Starts

(* The serial numbers and revisions stay numbers.                          *)
LEMMA NumbersStep == Numbers /\ Next => Numbers'
<1> SUFFICES ASSUME Numbers, Next PROVE Numbers'
  OBVIOUS
<1>1. ASSUME NEW c \in Clients, NEW k \in Kinds, Submit(c, k) PROVE Numbers'
  <2>1. askedAt' = [askedAt EXCEPT ![k] = serial]
    BY <1>1, Zenon DEF Submit
  <2> QED
    BY <1>1, <2>1, SubmitFrame DEF Numbers, PassesStill, DumpsStill
<1>2. ASSUME NEW timer \in BOOLEAN, StartTurn(timer) PROVE Numbers'
  <2>1. rev' \in {rev, rev + 1}
    BY <1>2, Zenon DEF StartTurn, SyncLoss, Events, countVars
  <2> QED
    BY <1>2, <2>1, StartFrame DEF Numbers, PassesStill, TicketsStill
<1>3. CASE Drain
  <2>1. PICK work : Control(work) /\ UNCHANGED <<session, serial, committed, rev>>
    BY <1>3, Zenon DEF Drain, countVars
  <2>2. /\ UNCHANGED learning \/ \E settling : BeginVerification(settling)
        /\ resyncAfter' \in {resyncAfter, committed}
        /\ sinceAt' = [k \in Kinds |-> IF k \in work THEN askedAt[k] ELSE sinceAt[k]]
        /\ askedAt' = [k \in Kinds |-> IF k \in work THEN 0 ELSE askedAt[k]]
    BY <2>1, Zenon DEF Control, Begin
  <2> QED
    BY <2>1, <2>2 DEF Numbers, BeginVerification
<1>4. CASE Reconcile
  <2>1. /\ serial' \in {serial, serial + 1} /\ committed' \in {committed, serial}
        /\ rev' \in {rev, rev + 1}
    BY <1>4 DEF Reconcile, SyncLoss, StartDump, Commit, cycleVars, countVars
  <2> QED
    BY <1>4, <2>1, ReconcileFrame DEF Numbers, PassesStill, TicketsStill
<1>5. CASE Publish
  <2>1. /\ UNCHANGED <<session, serial, committed, rev, askedAt>>
        /\ resyncAfter' \in {resyncAfter, 0}
        /\ \E done : sinceAt' = [k \in Kinds |-> IF k \in done THEN 0 ELSE sinceAt[k]]
    BY <1>5, Zenon DEF Publish, countVars
  <2>2. learning' = learning \/ learning' = NotLearning \/ (\E s : BeginVerification(s))
        \/ learning' = [settling |-> TRUE, verifying |-> FALSE, verifyAfter |-> 0, stableRevision |-> rev]
    BY <1>5, Zenon DEF Publish, Retry, LearnLater, Verify, Settle
  <2> QED
    BY <2>1, <2>2 DEF Numbers, NotLearning, BeginVerification
<1>6. CASE Crash \/ Run
  <2>1. /\ session' \in {session, session + 1} /\ serial' = 0 /\ committed' = 0 /\ rev' = 0
        /\ resyncAfter' = 0 /\ learning' = NotLearning
        /\ askedAt' = [k \in Kinds |-> 0] /\ sinceAt' = [k \in Kinds |-> 0]
    BY <1>6, RestartFrame, Zenon DEF Fresh
  <2> QED
    BY <2>1 DEF Numbers, NotLearning
<1>7. CASE TicketsStill /\ DumpsStill /\ UNCHANGED <<session, learning, resyncAfter>>
  BY <1>7 DEF Numbers, TicketsStill, DumpsStill
<1> QED
  BY <1>1, <1>2, <1>3, <1>4, <1>5, <1>6, <1>7, Steps, SurroundingsFrame, StorageFrame, StopFrame,
     FinishFrame, Zenon DEF Submits, Starts, PassesStill

(* What advance may do to the baseline.                                    *)
Keeps == UNCHANGED <<intended, expected, provisional, ownSave, save>>
Retries == intended # None /\ SubmitSave(intended) /\ UNCHANGED baselineVars
Provides ==
  /\ intended = None /\ expected = None /\ expected' = Record /\ provisional' = TRUE
  /\ UNCHANGED <<intended, ownSave, save>>
Takes ==
  /\ CountReady /\ learning.verifying /\ Stable /\ Verified
  /\ intended = None /\ intended' = Record /\ SubmitSave(Record)
  /\ learning' = NotLearning
  /\ UNCHANGED <<expected, provisional, ownSave>>

(* A turn ends in one of these ways.                                       *)
LEMMA PublishBaseline ==
  ASSUME Publish
  PROVE  /\ Keeps \/ Retries \/ Provides \/ Takes
         /\ UNCHANGED <<rebaseline, fileVars>> /\ finished' = {}
  BY DEF Publish, Retry, LearnLater, Verify, Settle, Keeps, Retries, Provides, Takes, baselineVars

(* A record of the state is a record.                                      *)
LEMMA RecordType == Numbers => Record \in Records
  BY DEF Numbers, Record, Records

(* A save that returns: what was intended is expected, or nothing changes. *)
LEMMA SavedFacts ==
  ASSUME NEW asked, Saved(asked)
  PROVE  /\ save' = NoSave
         /\ \/ /\ save.outcome = "durable"
               /\ expected' = intended /\ provisional' = FALSE /\ intended' = None
               /\ ownSave' = TRUE /\ rebaseline' = FALSE
            \/ /\ save.outcome # "durable"
               /\ rebaseline' = asked /\ UNCHANGED <<intended, expected, provisional, ownSave>>
  BY DEF Saved, baselineVars

(* The records stay records, and the executor's state a state.             *)
LEMMA BaselinesStep == Numbers /\ Baselines /\ Next => Baselines'
<1> SUFFICES ASSUME Numbers, Baselines, Next PROVE Baselines'
  OBVIOUS
<1>1. CASE Storage
  <2>1. UNCHANGED <<intended, expected>>
    BY <1>1, StorageFrame, Zenon DEF BaselineStill
  <2>2. CASE SaveFails
    BY <2>1, <2>2, Zenon DEF Baselines, SaveFails, fileVars
  <2>3. CASE SaveDropped
    BY <2>1, <2>3 DEF Baselines, SaveDropped, fileVars
  <2>4. CASE SaveRenames
    BY <2>1, <2>4 DEF Baselines, SaveRenames
  <2>5. CASE SaveSyncs
    BY <2>1, <2>5, Zenon DEF Baselines, SaveSyncs
  <2> QED
    BY <1>1, <2>2, <2>3, <2>4, <2>5, Zenon DEF Storage
<1>2. CASE Drain \/ Finish
  <2>1. UNCHANGED <<disk, durable>>
    BY <1>2, Zenon DEF Drain, Finish, fileVars
  <2>2. ASSUME NEW asked, Saved(asked) PROVE Baselines'
    <3>1. /\ save' = NoSave
          /\ \/ expected' = intended /\ intended' = None
             \/ UNCHANGED <<expected, intended>>
      BY <2>2, SavedFacts, Zenon
    <3> QED
      BY <2>1, <3>1 DEF Baselines, NoSave
  <2>3. CASE UNCHANGED <<save, expected, intended>>
    BY <2>1, <2>3 DEF Baselines
  <2> QED
    BY <1>2, <2>2, <2>3, Zenon DEF Drain, Finish, baselineVars
<1>3. CASE Publish
  <2>1. /\ intended' \in {intended, Record} /\ expected' \in {expected, Record}
        /\ UNCHANGED <<disk, durable>>
        /\ \/ UNCHANGED save
           \/ save' = [st |-> "queued", rec |-> intended, outcome |-> "failed"]
           \/ save' = [st |-> "queued", rec |-> Record, outcome |-> "failed"]
    BY <1>3, PublishBaseline, Zenon DEF Keeps, Retries, Provides, Takes, SubmitSave, baselineVars, fileVars
  <2>2. Record \in Records
    BY RecordType, Zenon
  <2> HIDE DEF Record
  <2> QED
    BY <2>1, <2>2 DEF Baselines
<1>4. CASE Crash \/ Run
  <2>1. /\ intended' = None /\ expected' \in {None, disk} /\ save' = NoSave
        /\ \/ UNCHANGED <<disk, durable>>
           \/ disk' \in durable /\ durable' = {disk'}
    BY <1>4, RestartFrame, Zenon DEF Fresh, fileVars
  <2> QED
    BY <2>1 DEF Baselines, NoSave
<1>5. CASE BaselineStill /\ FilesStill
  BY <1>5 DEF Baselines, BaselineStill, FilesStill
<1> QED
  BY <1>1, <1>2, <1>3, <1>4, <1>5, Steps, SurroundingsFrame, SubmitFrame, StartFrame, ReconcileFrame,
     StopFrame, Zenon DEF Submits, Starts

------------------------------------------------------------------------------
(* What the steps of the storage executor do to its state.                 *)
LEMMA SaveFacts ==
  ASSUME Baselines, SaveFails \/ SaveDropped \/ SaveRenames \/ SaveSyncs
  PROVE  /\ save.st \in {"queued", "renamed"} /\ save'.rec = save.rec
         /\ UNCHANGED <<baselineVars, finished>>
         /\ \/ /\ save'.st = "dropped" \/ (save'.st = "done" /\ save'.outcome = "failed")
               /\ UNCHANGED fileVars
            \/ /\ save'.st = "renamed" /\ disk' = save.rec /\ durable' = durable \cup {save.rec}
            \/ /\ save.st = "renamed" /\ save'.st = "done" /\ save'.outcome = "durable"
               /\ durable' = {save.rec} /\ UNCHANGED disk
            \/ /\ save'.st = "done" /\ save'.outcome = "indeterminate"
               /\ UNCHANGED fileVars
<1> USE DEF baselineVars, fileVars, passVars
<1>1. CASE SaveFails
  BY <1>1 DEF SaveFails, Baselines
<1>2. CASE SaveDropped
  BY <1>2 DEF SaveDropped, Baselines
<1>3. CASE SaveRenames
  BY <1>3 DEF SaveRenames, Baselines
<1>4. CASE SaveSyncs
  BY <1>4, Zenon DEF SaveSyncs, Baselines
<1> QED
  BY <1>1, <1>2, <1>3, <1>4

(* What the owner and the file say of the baseline goes together.          *)
Durability == Saving /\ BaselineSurvives /\ SavedTicket

(* No step, a crash included, separates the baseline the owner believes in *)
(* from what the file can hold (saved, save, load).                        *)
LEMMA DurabilityStep == IInv /\ Next => Durability'
<1> SUFFICES ASSUME IInv, Next PROVE Durability'
  OBVIOUS
<1>0. Baselines /\ Numbers /\ FinishedInTurn /\ Saving /\ BaselineSurvives /\ SavedTicket
  BY DEF IInv
<1> USE DEF Durability, Saving, BaselineSurvives, SavedTicket
<1>1. CASE SaveFails \/ SaveDropped \/ SaveRenames \/ SaveSyncs
  BY <1>0, <1>1, SaveFacts DEF baselineVars, fileVars
<1>2. CASE Drain \/ Finish
  <2>0. UNCHANGED fileVars
    BY <1>2 DEF Drain, Finish
  <2>1. ASSUME NEW asked, save.st = "done", Saved(asked) PROVE Durability'
    <3>1. CASE save.outcome = "durable"
      <4>1. /\ expected' = intended /\ provisional' = FALSE /\ intended' = None
            /\ save' = NoSave
        BY <2>1, <3>1, SavedFacts, Zenon
      <4> QED
        BY <1>0, <2>0, <2>1, <3>1, <4>1 DEF fileVars, NoSave
    <3>2. CASE save.outcome # "durable"
      <4>1. /\ UNCHANGED <<intended, expected, provisional, ownSave>> /\ save' = NoSave
            /\ rebaseline' = asked
        BY <2>1, <3>2, SavedFacts, Zenon
      <4>2. finished' \subseteq finished
        BY <1>2, <2>1, <3>2, <4>1, Zenon DEF Drain, Finish, Saved
      <4> QED
        BY <1>0, <2>0, <4>1, <4>2 DEF fileVars, NoSave
    <3> QED
      BY <3>1, <3>2
  <2>2. CASE UNCHANGED <<save, baselineVars>> /\ finished' \subseteq finished
    BY <1>0, <2>0, <2>2 DEF fileVars, baselineVars
  <2> QED
    BY <1>2, <2>1, <2>2, Zenon DEF Drain, Finish
<1>3. CASE Publish
  <2>0. finished' = {} /\ UNCHANGED fileVars
    BY <1>3, PublishBaseline
  <2>1. CASE Keeps
    BY <1>0, <2>0, <2>1 DEF Keeps, fileVars
  <2>2. CASE Retries
    BY <1>0, <2>0, <2>2 DEF Retries, SubmitSave, fileVars, baselineVars
  <2>3. CASE Provides
    BY <1>0, <2>0, <2>3 DEF Provides, fileVars
  <2>4. CASE Takes
    BY <1>0, <2>0, <2>4, RecordType, NoneAssumption DEF Takes, SubmitSave, fileVars, Records
  <2> QED
    BY <1>3, <2>1, <2>2, <2>3, <2>4, PublishBaseline
<1>4. CASE Crash
  <2>1. expected' = None /\ save' = NoSave /\ finished' = {}
    BY <1>4 DEF Crash, Fresh
  <2> QED
    BY <2>1 DEF NoSave
<1>5. CASE Run
  <2>1. /\ expected' = disk /\ ownSave' = FALSE /\ save' = NoSave /\ finished' = {}
        /\ UNCHANGED fileVars
    BY <1>5 DEF Run, Fresh
  <2> QED
    BY <2>1 DEF NoSave, fileVars
<1>6. CASE BaselineStill /\ FilesStill /\ UNCHANGED finished
  BY <1>0, <1>6 DEF BaselineStill, FilesStill
<1> HIDE DEF Durability
<1> QED
  BY <1>1, <1>2, <1>3, <1>4, <1>5, <1>6, Steps, SurroundingsFrame, SubmitFrame, StartFrame,
     ReconcileFrame, StopFrame, Zenon DEF Storage, Submits, Starts, PassesStill

(* What begins in a turn, and what a save that returned does.              *)
Drains(work) ==
  /\ Control(work) /\ UNCHANGED <<up, requested, completed>>
  /\ pc = "drain" /\ pc' = "reconcile"
  /\ \/ save.st = "done" /\ expected' = intended /\ ~rebaseline'
     \/ UNCHANGED intended /\ (rebaseline' <=> rebaseline \/ "rebaseline" \in work)
  /\ finished' = finished \cup {k \in {"rebaseline"} :
                                 (rebaseline \/ "rebaseline" \in work) /\ ~rebaseline'}

(* Drain takes in some of the wanted passes, and a rebaseline pass ends    *)
(* there only when a save has returned.                                    *)
LEMMA DrainFacts ==
  ASSUME Drain
  PROVE  \E work \in SUBSET (wanted \ inFlight) : Drains(work)
<1> DEFINE work == IF wake THEN wanted \ inFlight ELSE {}
           asked == rebaseline \/ "rebaseline" \in work
<1>1. /\ Control(work) /\ UNCHANGED <<up, requested, completed>>
      /\ pc = "drain" /\ pc' = "reconcile"
      /\ \/ save.st = "done" /\ Saved(asked)
         \/ UNCHANGED intended /\ rebaseline' = asked
      /\ finished' = finished \cup {k \in {"rebaseline"} : asked /\ ~rebaseline'}
  BY DEF Drain, baselineVars
<1>2. \/ save.st = "done" /\ expected' = intended /\ rebaseline' = FALSE
      \/ UNCHANGED intended /\ rebaseline' = asked
  BY <1>1 DEF Saved, baselineVars
<1>3. work \in SUBSET (wanted \ inFlight)
  OBVIOUS
<1> QED
  BY <1>1, <1>2, <1>3, Zenon DEF Drains

(* What is completed in a turn.                                            *)
LEMMA PublishFacts ==
  ASSUME Publish
  PROVE  LET done == finished \cup {k \in {"resync"} : resync /\ committed > resyncAfter} IN
           /\ Complete(done \cap inFlight) /\ UNCHANGED <<up, wanted, requested, begun, rebaseline>>
           /\ resync' <=> resync /\ ~(committed > resyncAfter)
           /\ finished' = {} /\ pc = "publish" /\ pc' = "wait"
  BY Zenon DEF Publish

(* Every request stays with exactly one pass.                              *)
LEMMA PassesStep == IInv /\ Next => Passes' /\ FinishedInTurn'
<1> SUFFICES ASSUME IInv, Next PROVE Passes' /\ FinishedInTurn'
  OBVIOUS
<1>0. Counters /\ Passes /\ FinishedInTurn
  BY DEF IInv
<1> USE DEF Passes, FinishedInTurn
<1>1. ASSUME NEW c \in Clients, NEW k \in Kinds, Submit(c, k) PROVE Passes' /\ FinishedInTurn'
  <2>1. /\ UNCHANGED <<up, pc, inFlight, begun, completed, finished, resync, rebaseline>>
        /\ wanted' = wanted \cup {k}
        /\ requested' = IF k \in wanted THEN requested ELSE [requested EXCEPT ![k] = @ + 1]
    BY <1>1, Zenon DEF Submit, Request, passVars
  <2> QED
    BY <1>0, <2>1 DEF Counters, Bit
<1>2. CASE Drain
  <2>1. PICK work \in SUBSET (wanted \ inFlight) : Drains(work)
    BY <1>2, DrainFacts
  <2> USE DEF Drains
  <2>2. /\ wanted' = wanted \ work /\ inFlight' = inFlight \cup work
        /\ begun' = [k \in Kinds |-> IF k \in work THEN requested[k] ELSE begun[k]]
        /\ resync' <=> resync \/ "resync" \in work
    BY <2>1, Zenon DEF Control, Begin
  <2>3. FinishedInTurn'
    BY <1>0, <2>1, Zenon
  <2>4. SUFFICES ASSUME up \in {"run", "canceled"} PROVE Passes'
    BY <2>1, <2>3
  <2>5. \A k \in Kinds : /\ requested'[k] = begun'[k] + Bit(k \in wanted')
                         /\ begun'[k] = completed'[k] + Bit(k \in inFlight')
    BY <1>0, <2>1, <2>2, <2>4 DEF Counters, Bit
  <2>6. inFlight' = finished' \cup {k \in {"resync"} : resync'} \cup {k \in {"rebaseline"} : rebaseline'}
    BY <1>0, <2>1, <2>2, <2>4, Zenon DEF Counters, Kinds
  <2> QED
    BY <2>5, <2>6
<1>3. CASE Publish
  <2> DEFINE done == finished \cup {k \in {"resync"} : resync /\ committed > resyncAfter}
  <2>1. /\ Complete(done \cap inFlight) /\ UNCHANGED <<up, wanted, requested, begun, rebaseline>>
        /\ resync' <=> resync /\ ~(committed > resyncAfter)
        /\ finished' = {} /\ pc' = "wait"
    BY <1>3, PublishFacts
  <2>2. /\ inFlight' = inFlight \ done
        /\ \A k \in Kinds : completed'[k] = IF k \in done \cap inFlight THEN begun[k] ELSE completed[k]
    BY <1>0, <2>1 DEF Complete, Counters
  <2>3. SUFFICES ASSUME up \in {"run", "canceled"} PROVE Passes'
    BY <2>1
  <2>4. \A k \in Kinds : /\ requested'[k] = begun'[k] + Bit(k \in wanted')
                         /\ begun'[k] = completed'[k] + Bit(k \in inFlight')
    BY <1>0, <2>1, <2>2, <2>3 DEF Counters, Bit
  <2>5. inFlight' = finished' \cup {k \in {"resync"} : resync'} \cup {k \in {"rebaseline"} : rebaseline'}
    BY <1>0, <2>1, <2>2, <2>3
  <2> QED
    BY <2>1, <2>4, <2>5
<1>4. CASE Stop \/ Finish \/ Crash
  <2>1. up' \notin {"run", "canceled"} /\ (finished' = {} \/ UNCHANGED <<finished, rebaseline, pc>>)
    <3>1. CASE Stop
      BY <3>1, StopFrame DEF PassesStill
    <3>2. CASE Finish
      BY <3>2, FinishFrame
    <3>3. CASE Crash
      BY <3>3 DEF Crash, Fresh
    <3> QED
      BY <1>4, <3>1, <3>2, <3>3, Zenon
  <2>2. CASE finished' = {}
    BY <2>1, <2>2
  <2>3. CASE UNCHANGED <<finished, rebaseline, pc>>
    BY <1>0, <2>1, <2>3
  <2> QED
    BY <2>1, <2>2, <2>3
<1>5. CASE Run
  <2>1. /\ wanted' = {} /\ inFlight' = {} /\ finished' = {} /\ ~resync' /\ ~rebaseline'
        /\ requested' = [k \in Kinds |-> 0] /\ begun' = [k \in Kinds |-> 0]
        /\ completed' = [k \in Kinds |-> 0]
    BY <1>5, Zenon DEF Run, Fresh
  <2> QED
    BY <2>1 DEF Bit
<1>6. CASE Surroundings \/ Storage \/ Starts \/ Reconcile
  <2>1. /\ UNCHANGED <<wanted, inFlight, requested, begun, completed, finished, resync, rebaseline>>
        /\ up' = up \/ (up = "run" /\ up' = "canceled")
        /\ pc' = pc \/ pc = "wait" \/ pc' = "publish"
    BY <1>6, SurroundingsFrame, StorageFrame, StartFrame, ReconcileFrame, Zenon
       DEF Starts, ControlsStill, PassesStill
  <2>2. FinishedInTurn'
    BY <1>0, <2>1
  <2>3. up' \in {"run", "canceled"} => up \in {"run", "canceled"}
    BY <2>1
  <2> QED
    BY <1>0, <2>1, <2>2, <2>3, Zenon
<1> QED
  BY <1>1, <1>2, <1>3, <1>4, <1>5, <1>6, Steps, Zenon DEF Submits

(* Serial numbers are in order.                                            *)
LEMMA SerialsStep == IInv /\ Next => Serials'
<1> SUFFICES ASSUME IInv, Next PROVE Serials'
  OBVIOUS
<1>0. Numbers /\ Serials
  BY DEF IInv
<1> USE DEF Serials, Numbers
<1>1. ASSUME NEW c \in Clients, NEW k \in Kinds, Submit(c, k) PROVE Serials'
  <2>1. askedAt' = [askedAt EXCEPT ![k] = serial] /\ UNCHANGED <<serial, committed, sinceAt>>
    BY <1>1, Zenon DEF Submit, cycleVars
  <2> QED
    BY <1>0, <2>1
<1>2. CASE Drain
  <2>1. PICK work : Control(work) /\ UNCHANGED <<serial, committed>>
    BY <1>2, Zenon DEF Drain
  <2> QED
    BY <1>0, <2>1 DEF Control, Begin
<1>3. CASE Reconcile
  <2>1. /\ UNCHANGED <<askedAt, sinceAt>>
        /\ \/ UNCHANGED <<serial, committed>>
           \/ serial' = serial + 1 /\ UNCHANGED committed
           \/ committed' = serial /\ UNCHANGED serial
    BY <1>3 DEF Reconcile, SyncLoss, StartDump, Commit, cycleVars, ticketHistory
  <2> QED
    BY <1>0, <2>1
<1>4. CASE Publish
  <2>1. /\ UNCHANGED <<serial, committed, askedAt>>
        /\ \E done : sinceAt' = [k \in Kinds |-> IF k \in done THEN 0 ELSE sinceAt[k]]
    BY <1>4, Zenon DEF Publish
  <2> QED
    BY <1>0, <2>1
<1>5. CASE Crash \/ Run
  <2>1. /\ serial' = 0 /\ committed' = 0
        /\ askedAt' = [k \in Kinds |-> 0] /\ sinceAt' = [k \in Kinds |-> 0]
    BY <1>5, RestartFrame, Zenon DEF Fresh
  <2> QED
    BY <2>1
<1>6. CASE UNCHANGED <<serial, committed, askedAt, sinceAt>>
  BY <1>0, <1>6, Zenon
<1> HIDE DEF Serials, Numbers
<1> QED
  BY <1>1, <1>2, <1>3, <1>4, <1>5, <1>6, Steps, SurroundingsFrame, StorageFrame, StartFrame,
     StopFrame, FinishFrame, Zenon DEF Submits, Starts, DumpsStill, TicketsStill

(* What the reconciler's part of a turn does to the dump under way.        *)
LEMMA CycleFacts ==
  /\ RequestResync => UNCHANGED active
  /\ SyncLoss => (active' => active)
  BY DEF RequestResync, SyncLoss, Cycle!Request, Cycle!GiveUp

(* Reconcile starts a dump, ends one by committing it, or leaves the dump  *)
(* counts alone.                                                           *)
LEMMA ReconcileFacts ==
  ASSUME Reconcile
  PROVE  /\ UNCHANGED <<learning, passVars, baselineVars, ticketHistory>>
         /\ \/ UNCHANGED <<serial, committed>> /\ (active' => active)
            \/ serial' = serial + 1 /\ UNCHANGED committed
            \/ active /\ ~active' /\ committed' = serial /\ UNCHANGED serial
  BY CycleFacts DEF Reconcile, StartDump, Commit, Cycle!Finish, Cycle!GiveUp, cycleVars

(* A resync that joined nothing waits for a dump sent after Submit.        *)
LEMMA ResyncLaterStep == IInv /\ Next => ResyncLater'
<1> SUFFICES ASSUME IInv, Next PROVE ResyncLater'
  OBVIOUS
<1>0. Numbers /\ Serials /\ FinishedInTurn /\ ResyncLater /\ "resync" \in Kinds
  BY DEF IInv, Kinds
<1> USE DEF ResyncLater
<1>1. CASE Drain
  <2>1. PICK work : Control(work) /\ UNCHANGED <<serial, committed>>
    BY <1>1, Zenon DEF Drain
  <2>2. UNCHANGED active
    BY <2>1, CycleFacts DEF Control
  <2>3. CASE "resync" \in work
    <3>1. /\ resyncAfter' = committed /\ sinceAt'["resync"] = askedAt["resync"]
          /\ "resync" \in joined' <=> active
      BY <1>0, <2>1, <2>3 DEF Control, Begin, OlderWork
    <3> QED
      BY <1>0, <2>1, <2>2, <3>1 DEF Numbers
  <2>4. CASE "resync" \notin work
    <3>1. /\ resyncAfter' = resyncAfter /\ sinceAt'["resync"] = sinceAt["resync"]
          /\ "resync" \in joined' <=> "resync" \in joined
          /\ resync' => resync
      BY <1>0, <2>1, <2>4, Zenon DEF Control, Begin
    <3> QED
      BY <1>0, <2>1, <2>2, <3>1
  <2> QED
    BY <2>3, <2>4
<1>2. CASE Reconcile
  <2>0. UNCHANGED <<resync, resyncAfter, joined, sinceAt>> /\ sinceAt["resync"] \in Nat
        /\ sinceAt["resync"] <= serial /\ serial \in Nat /\ committed \in Nat
    BY <1>0, <1>2, ReconcileFacts DEF passVars, ticketHistory, Numbers, Serials
  <2>1. CASE UNCHANGED <<serial, committed>> /\ (active' => active)
    BY <1>0, <2>0, <2>1
  <2>2. CASE serial' = serial + 1 /\ UNCHANGED committed
    <3>1. serial' > sinceAt["resync"]
      BY <2>0, <2>2
    <3> QED
      BY <1>0, <2>0, <2>2, <3>1
  <2>3. CASE active /\ ~active' /\ committed' = serial /\ UNCHANGED serial
    BY <1>0, <2>0, <2>3
  <2> QED
    BY <1>2, <2>1, <2>2, <2>3, ReconcileFacts
<1>3. CASE Publish
  <2>1. /\ resync' => resync /\ ~(committed > resyncAfter)
        /\ UNCHANGED <<serial, committed>>
        /\ RequestResync \/ UNCHANGED active
    BY <1>3, Zenon DEF Publish, Retry, LearnLater, Verify, Settle
  <2>2. ASSUME resync' PROVE /\ resyncAfter' = resyncAfter /\ sinceAt'["resync"] = sinceAt["resync"]
                             /\ "resync" \in joined' <=> "resync" \in joined
    BY <1>0, <1>3, <2>1, <2>2 DEF Publish, FinishedInTurn
  <2> QED
    BY <1>0, <2>1, <2>2, CycleFacts
<1>4. CASE Crash \/ Run
  <2>1. ~resync'
    BY <1>4, RestartFrame, Zenon DEF Fresh
  <2> QED
    BY <2>1, Zenon
<1>5. ASSUME NEW timer, StartTurn(timer) PROVE ResyncLater'
  <2>1. SyncLoss \/ RequestResync \/ UNCHANGED active
    BY <1>5, Zenon DEF StartTurn, Events
  <2>2. active' => active
    BY <2>1, CycleFacts
  <2> QED
    BY <1>0, <1>5, <2>2, StartFrame, Zenon DEF PassesStill, TicketsStill
<1>6. CASE UNCHANGED <<active, serial, committed, resync, resyncAfter, joined, sinceAt>>
  BY <1>0, <1>6, Zenon
<1> HIDE DEF ResyncLater
<1>7. CASE Submits
  BY <1>6, <1>7, SubmitFrame, Zenon DEF Submits, DumpsStill, PassesStill
<1>8. CASE Surroundings \/ Storage \/ Stop \/ Finish
  BY <1>6, <1>8, SurroundingsFrame, StorageFrame, StopFrame, FinishFrame, Zenon
     DEF DumpsStill, PassesStill, TicketsStill
<1> QED
  BY <1>1, <1>2, <1>3, <1>4, <1>5, <1>7, <1>8, Steps, Zenon DEF Starts

(* What the lifecycle's part of a turn does to the verification.           *)
LEMMA PublishLearning ==
  ASSUME Publish
  PROVE  UNCHANGED learning \/ ~learning'.verifying \/ \E s : BeginVerification(s)
<1>1. \/ UNCHANGED learning \/ learning' = NotLearning \/ (\E s : BeginVerification(s))
      \/ learning' = [settling |-> TRUE, verifying |-> FALSE, verifyAfter |-> 0, stableRevision |-> rev]
  BY Zenon DEF Publish, Retry, LearnLater, Verify, Settle
<1>2. ~NotLearning.verifying
  BY DEF NotLearning
<1>3. ~[settling |-> TRUE, verifying |-> FALSE, verifyAfter |-> 0, stableRevision |-> rev].verifying
  OBVIOUS
<1> QED
  BY <1>1, <1>2, <1>3, Zenon

(* A rebaseline that joined nothing waits for a dump sent after Submit.    *)
LEMMA RebaselineLaterStep == IInv /\ Next => RebaselineLater'
<1> SUFFICES ASSUME IInv, Next PROVE RebaselineLater'
  OBVIOUS
<1>0. /\ Numbers /\ Baselines /\ Serials /\ Saving /\ FinishedInTurn /\ RebaselineLater
      /\ "rebaseline" \in Kinds
  BY DEF IInv, Kinds
<1> USE DEF RebaselineLater
<1>1. CASE Drain
  <2>1. PICK work \in SUBSET (wanted \ inFlight) : Drains(work)
    BY <1>1, DrainFacts
  <2> USE DEF Drains
  <2>2. finished = {}
    BY <1>0, <2>1 DEF FinishedInTurn
  <2>3. CASE "rebaseline" \in work /\ intended # None
    <3>1. "rebaseline" \in joined'
      BY <2>1, <2>3 DEF Control, OlderWork
    <3> QED
      BY <3>1
  <2>4. CASE "rebaseline" \in work /\ intended = None
    <3>1. UNCHANGED intended /\ (rebaseline' <=> TRUE)
      BY <1>0, <2>1, <2>4, Zenon DEF Saving
    <3>2. learning'.verifyAfter = serial /\ sinceAt'["rebaseline"] = askedAt["rebaseline"]
      BY <1>0, <2>1, <2>4 DEF Control, Begin, BeginVerification
    <3>3. "rebaseline" \notin finished'
      BY <2>1, <2>2, <3>1
    <3> QED
      BY <1>0, <2>4, <3>1, <3>2, <3>3 DEF Numbers, Serials
  <2>5. CASE "rebaseline" \notin work
    <3>1. /\ UNCHANGED learning /\ sinceAt'["rebaseline"] = sinceAt["rebaseline"]
          /\ "rebaseline" \in joined' <=> "rebaseline" \in joined
      BY <1>0, <2>1, <2>5 DEF Control, Begin
    <3>2. \/ save.st = "done" /\ expected' = intended /\ ~rebaseline'
          \/ UNCHANGED intended /\ (rebaseline' <=> rebaseline)
      BY <2>1, <2>5
    <3>3. CASE save.st = "done" /\ expected' = intended /\ ~rebaseline'
      <4>1. intended # None /\ ("rebaseline" \in finished' => rebaseline)
        BY <1>0, <2>1, <2>2, <2>5, <3>3 DEF Saving
      <4> QED
        BY <1>0, <3>1, <3>3, <4>1
    <3>4. CASE UNCHANGED intended /\ (rebaseline' <=> rebaseline)
      <4>1. finished' = {}
        BY <2>1, <2>2, <2>5, <3>4
      <4> QED
        BY <1>0, <3>1, <3>4, <4>1
    <3> QED
      BY <3>2, <3>3, <3>4, Zenon
  <2> QED
    BY <2>3, <2>4, <2>5
<1>2. CASE Publish
  <2>0. /\ UNCHANGED rebaseline /\ finished' = {}
        /\ rebaseline => /\ sinceAt'["rebaseline"] = sinceAt["rebaseline"]
                         /\ "rebaseline" \in joined' <=> "rebaseline" \in joined
    BY <1>0, <1>2 DEF Publish, FinishedInTurn
  <2>1. SUFFICES ASSUME rebaseline, "rebaseline" \notin joined
                 PROVE  /\ intended' # None => intended'.dump > sinceAt["rebaseline"]
                        /\ learning'.verifying => learning'.verifyAfter >= sinceAt["rebaseline"]
    BY <2>0
  <2>2. learning'.verifying => learning'.verifyAfter >= sinceAt["rebaseline"]
    BY <1>0, <1>2, <2>1, PublishLearning DEF BeginVerification, Numbers, Serials
  <2>3. CASE Keeps \/ Retries \/ Provides
    BY <1>0, <2>1, <2>2, <2>3 DEF Keeps, Retries, Provides, baselineVars
  <2>4. CASE Takes
    <3>1. learning.verifying /\ committed > learning.verifyAfter /\ intended'.dump = committed
      BY <2>4 DEF Takes, Verified, Record
    <3> QED
      BY <1>0, <2>1, <2>2, <3>1 DEF Numbers
  <2> QED
    BY <1>2, <2>3, <2>4, PublishBaseline
<1>3. CASE Finish
  <2>1. /\ finished' = {} /\ UNCHANGED <<learning, joined, sinceAt>>
        /\ Saved(rebaseline) \/ UNCHANGED <<intended, rebaseline>>
    BY <1>3, FinishFrame, Zenon DEF TicketsStill, BaselineStill
  <2>2. ~rebaseline' \/ (UNCHANGED intended /\ (rebaseline' <=> rebaseline))
    BY <2>1, Zenon DEF Saved, baselineVars
  <2> QED
    BY <1>0, <2>1, <2>2, Zenon
<1>4. CASE Crash \/ Run
  <2>1. ~rebaseline' /\ finished' = {}
    BY <1>4, RestartFrame, Zenon DEF Fresh
  <2> QED
    BY <2>1
<1>5. CASE UNCHANGED <<rebaseline, finished, joined, sinceAt, intended, expected, learning>>
  BY <1>0, <1>5, Zenon
<1> HIDE DEF RebaselineLater
<1>6. CASE Submits
  BY <1>5, <1>6, SubmitFrame, Zenon DEF Submits, BaselineStill, PassesStill
<1>7. CASE Surroundings \/ Storage \/ Stop \/ Starts \/ Reconcile
  BY <1>5, <1>7, SurroundingsFrame, StorageFrame, StopFrame, StartFrame, ReconcileFrame, Zenon
     DEF Starts, BaselineStill, PassesStill, TicketsStill
<1> QED
  BY <1>1, <1>2, <1>3, <1>4, <1>6, <1>7, Steps, Zenon

(* A count under verification changes only with its revision.              *)
LEMMA VerificationStep == IInv /\ Next => Verification'
<1> SUFFICES ASSUME IInv, Next PROVE Verification'
  OBVIOUS
<1>0. Numbers /\ Serials /\ Verification
  BY DEF IInv
<1> USE DEF Verification, Stable
<1>1. CASE UNCHANGED <<learning, serial, committed>> /\ rev' = rev + 1
  BY <1>0, <1>1 DEF Numbers
<1>2. CASE UNCHANGED <<learning, serial, committed, rev, dumpHistory>>
  BY <1>0, <1>2 DEF dumpHistory
<1>3. ASSUME NEW timer, StartTurn(timer) PROVE Verification'
  <2>1. \/ UNCHANGED <<learning, serial, committed>> /\ rev' = rev + 1
        \/ UNCHANGED <<learning, serial, committed, rev, dumpHistory>>
    BY <1>3, Zenon DEF StartTurn, SyncLoss, Events, countVars
  <2> QED
    BY <1>1, <1>2, <2>1, Zenon
<1>4. ASSUME NEW s, BeginVerification(s), UNCHANGED <<serial, committed, rev>> PROVE Verification'
  <2>1. learning'.verifyAfter = serial /\ learning'.stableRevision = rev
    BY <1>4 DEF BeginVerification
  <2> QED
    BY <1>0, <1>4, <2>1 DEF Numbers, Serials
<1>5. CASE Drain
  <2>1. /\ UNCHANGED learning \/ \E s : BeginVerification(s)
        /\ UNCHANGED <<serial, committed, rev, dumpHistory>>
    BY <1>5, Zenon DEF Drain, Control, countVars
  <2> QED
    BY <1>2, <1>4, <2>1, Zenon
<1>6. CASE Reconcile
  <2>0. UNCHANGED learning
    BY <1>6, ReconcileFrame, Zenon
  <2>1. CASE StartDump
    <3>1. /\ serial' = serial + 1 /\ steady' = TRUE /\ UNCHANGED <<committed, rev, confirmed>>
      BY <2>1 DEF StartDump, countVars
    <3> QED
      BY <1>0, <2>0, <3>1 DEF Numbers
  <2>2. CASE Commit
    <3>1. /\ UNCHANGED serial
          /\ \/ UNCHANGED <<committed, rev, dumpHistory>>
             \/ /\ committed' = serial /\ rev' \in {rev, rev + 1}
                /\ steady' = (steady /\ rev' = rev) /\ confirmed' = steady'
      BY <2>2 DEF Commit, countVars
    <3>2. CASE committed' = serial /\ rev' = rev /\ steady' = (steady /\ rev' = rev)
               /\ confirmed' = steady'
      <4>1. (steady => steady') /\ (steady => confirmed')
        BY <3>2
      <4> QED
        BY <1>0, <2>0, <3>1, <3>2, <4>1 DEF Numbers
    <3>3. CASE committed' = serial /\ rev' = rev + 1
      BY <1>0, <2>0, <3>1, <3>3 DEF Numbers
    <3> QED
      BY <1>2, <2>0, <3>1, <3>2, <3>3
  <2>3. CASE SyncLoss /\ UNCHANGED <<serial, committed>>
    <3>1. rev' = rev + 1
      BY <2>3, Zenon DEF SyncLoss
    <3> QED
      BY <1>1, <2>0, <2>3, <3>1, Zenon
  <2>4. CASE UNCHANGED <<cycleVars, countVars, dumpHistory>>
    BY <1>2, <2>0, <2>4, Zenon DEF cycleVars, countVars
  <2> QED
    BY <1>6, <2>1, <2>2, <2>3, <2>4, Zenon DEF Reconcile
<1>7. CASE Publish
  <2>1. UNCHANGED <<serial, committed, rev, dumpHistory>>
    BY <1>7, Zenon DEF Publish, countVars
  <2>2. CASE ~learning'.verifying
    BY <2>2
  <2> QED
    BY <1>2, <1>4, <1>7, <2>1, <2>2, PublishLearning, Zenon
<1>8. CASE Crash \/ Run
  <2>1. learning' = NotLearning
    BY <1>8, RestartFrame, Zenon DEF Fresh
  <2> QED
    BY <2>1 DEF NotLearning
<1> HIDE DEF Verification
<1>9. CASE UNCHANGED learning /\ DumpsStill
  BY <1>2, <1>9, Zenon DEF DumpsStill, dumpHistory
<1> QED
  BY <1>3, <1>5, <1>6, <1>7, <1>8, <1>9, Steps, SurroundingsFrame, StorageFrame, SubmitFrame,
     StopFrame, FinishFrame, Zenon DEF Submits, Starts

------------------------------------------------------------------------------
(* The invariant holds at the start,                                       *)
LEMMA InitInvariant == Init => IInv
<1> SUFFICES ASSUME Init PROVE IInv
  OBVIOUS
<1>1. Counters
  BY DEF Init, Counters
<1>2. Numbers
  BY DEF Init, Numbers, NotLearning
<1>3. Baselines
  BY DEF Init, Baselines, Records, Old, NoSave
<1>4. Passes /\ FinishedInTurn
  BY DEF Init, Passes, FinishedInTurn, Bit
<1>5. Saving /\ BaselineSurvives /\ SavedTicket
  BY DEF Init, Saving, BaselineSurvives, SavedTicket, NoSave
<1>6. Serials /\ ResyncLater /\ RebaselineLater
  BY DEF Init, Serials, ResyncLater, RebaselineLater
<1>7. Verification
  BY DEF Init, Verification, NotLearning
<1> QED
  BY <1>1, <1>2, <1>3, <1>4, <1>5, <1>6, <1>7 DEF IInv

(* and no step breaks it, a step that changes nothing included.            *)
LEMMA StepInvariant == IInv /\ [Next]_vars => IInv'
<1> SUFFICES ASSUME IInv, [Next]_vars PROVE IInv'
  OBVIOUS
<1>1. CASE Next
  <2>1. Counters' /\ Numbers' /\ Baselines'
    BY <1>1, CountersStep, NumbersStep, BaselinesStep, Zenon DEF IInv
  <2>2. Passes' /\ FinishedInTurn' /\ Durability'
    BY <1>1, PassesStep, DurabilityStep, Zenon
  <2>3. Serials' /\ ResyncLater' /\ RebaselineLater' /\ Verification'
    BY <1>1, SerialsStep, ResyncLaterStep, RebaselineLaterStep, VerificationStep, Zenon
  <2> QED
    BY <2>1, <2>2, <2>3, Zenon DEF IInv, Durability
<1>2. CASE UNCHANGED vars
  <2>1. /\ ControlsStill /\ PassesStill /\ TicketsStill /\ BaselineStill /\ DumpsStill /\ FilesStill
        /\ UNCHANGED <<session, learning, pc, up>>
    BY <1>2, Zenon DEF vars, ControlsStill, PassesStill, TicketsStill, BaselineStill, DumpsStill,
       FilesStill, controlVars, cycleVars, countVars, passVars, baselineVars, fileVars,
       ticketHistory, dumpHistory
  <2> USE <2>1
  <2>2. Counters' /\ Numbers' /\ Baselines'
    BY Zenon DEF IInv, Counters, Numbers, Baselines, ControlsStill, PassesStill, TicketsStill,
       BaselineStill, DumpsStill, FilesStill
  <2>3. Passes' /\ FinishedInTurn'
    BY Zenon DEF IInv, Passes, FinishedInTurn, ControlsStill, PassesStill
  <2>4. Saving' /\ BaselineSurvives' /\ SavedTicket'
    BY Zenon DEF IInv, Saving, BaselineSurvives, SavedTicket, PassesStill, BaselineStill, FilesStill
  <2>5. Serials' /\ ResyncLater'
    BY Zenon DEF IInv, Serials, ResyncLater, PassesStill, TicketsStill, DumpsStill
  <2>6. RebaselineLater' /\ Verification'
    BY Zenon DEF IInv, RebaselineLater, Verification, Stable, PassesStill, TicketsStill,
       BaselineStill, DumpsStill
  <2> QED
    BY <2>2, <2>3, <2>4, <2>5, <2>6, Zenon DEF IInv
<1> QED
  BY <1>1, <1>2, Zenon

(* So it holds in every state the monitor reaches.                         *)
THEOREM Invariance == Spec => []IInv
  BY InitInvariant, StepInvariant, PTL DEF Spec

(* The baseline in memory is one that a restart finds, whatever saves      *)
(* failed and whenever the process ended (saved, Store.Save).              *)
THEOREM BaselineIsDurable == Spec => []BaselineSurvives
<1>1. IInv => BaselineSurvives
  BY DEF IInv
<1> QED
  BY <1>1, Invariance, PTL

(* A baseline is taken only from a count that a dump sent after its last   *)
(* change confirmed (verify).                                              *)
THEOREM BaselineIsConfirmed == Spec => ConfirmedBaseline
<1> DEFINE Step == intended' \notin {intended, None} => confirmed /\ intended'.rev = rev
<1>1. IInv /\ [Next]_vars => [Step]_vars
  <2> SUFFICES ASSUME IInv, Next, intended' \notin {intended, None}
               PROVE  confirmed /\ intended'.rev = rev
    OBVIOUS
  <2>1. CASE Publish
    <3>1. Takes
      BY <2>1, PublishBaseline, Zenon DEF Keeps, Retries, Provides, baselineVars
    <3> QED
      BY <3>1 DEF Takes, Record, IInv, Verification, Verified
  <2>2. CASE Drain \/ Finish
    <3>1. UNCHANGED intended \/ intended' = None
      BY <2>2, Zenon DEF Drain, Finish, Saved, baselineVars
    <3> QED
      BY <3>1
  <2>3. CASE Crash \/ Run
    <3>1. intended' = None
      BY <2>3, RestartFrame, Zenon DEF Fresh
    <3> QED
      BY <3>1
  <2>4. CASE BaselineStill
    BY <2>4 DEF BaselineStill
  <2> QED
    BY <2>1, <2>2, <2>3, <2>4, Steps, SurroundingsFrame, StorageFrame, SubmitFrame, StartFrame,
       ReconcileFrame, StopFrame, Zenon DEF Submits, Starts
<1> QED
  BY <1>1, Invariance, PTL DEF Spec, ConfirmedBaseline

(* A ticket that is completed stands for a dump sent after Submit unless   *)
(* its pass began while older work was under way, and a rebaseline's       *)
(* record is the only one that a restart can find.                         *)
THEOREM TicketsStandForLaterWork == Spec => TicketsAreFresh
<1> DEFINE Step == \A k \in inFlight : completed'[k] > completed[k] =>
                     /\ k \in joined \/ Reflects(k) > sinceAt[k]
                     /\ k = "rebaseline" => durable = {expected} /\ ~provisional
<1>1. IInv /\ [Next]_vars => [Step]_vars
  <2> SUFFICES ASSUME IInv, Next, NEW k \in inFlight, completed'[k] > completed[k]
               PROVE  /\ k \in joined \/ Reflects(k) > sinceAt[k]
                      /\ k = "rebaseline" => durable = {expected} /\ ~provisional
    OBVIOUS
  <2>0. k \in Kinds /\ completed[k] \in Nat
    BY DEF IInv, Counters
  <2>9. FinishedInTurn /\ SavedTicket /\ RebaselineLater /\ ResyncLater
    BY Zenon DEF IInv
  <2>1. CASE Publish
    <3>1. k \in finished \/ (k = "resync" /\ resync /\ committed > resyncAfter)
      BY <2>0, <2>1, PublishFacts DEF Complete
    <3>2. CASE k \in finished
      BY <2>9, <3>2 DEF FinishedInTurn, SavedTicket, RebaselineLater, Reflects
    <3>3. CASE k = "resync" /\ resync /\ committed > resyncAfter
      BY <2>9, <3>3 DEF ResyncLater, Reflects
    <3> QED
      BY <3>1, <3>2, <3>3
  <2>2. CASE Crash \/ Run
    <3>1. completed' = [j \in Kinds |-> 0]
      BY <2>2, RestartFrame, Zenon DEF Fresh
    <3> QED
      BY <2>0, <3>1
  <2>3. CASE UNCHANGED completed
    BY <2>0, <2>3
  <2>4. CASE Drain \/ Submits
    BY <2>3, <2>4, SubmitFrame, Zenon DEF Drain, Submits
  <2> QED
    BY <2>1, <2>2, <2>3, <2>4, Steps, SurroundingsFrame, StorageFrame, StartFrame,
       ReconcileFrame, StopFrame, FinishFrame, Zenon DEF Starts, ControlsStill
<1> QED
  BY <1>1, Invariance, PTL DEF Spec, TicketsAreFresh
------------------------------------------------------------------------------
(* The rest of the types: where the process, the owner and the callers     *)
(* are, the flags of the owner's turn, and the verification's state.       *)
Places ==
  /\ up \in {"run", "canceled", "stopping", "down"}
  /\ pc \in {"wait", "drain", "reconcile", "publish"}
  /\ count \in {"none", "partial", "ready"}
  /\ queued \in Nat /\ inputs \in Nat /\ joined \subseteq Kinds
Callers == client \in [Clients -> [st : {"idle", "wait"}, kind : Kinds, gen : Nat]]
TurnFlags == wake \in BOOLEAN /\ due \in BOOLEAN /\ lost \in BOOLEAN /\ answer \in BOOLEAN
DumpFlags ==
  pending \in BOOLEAN /\ active \in BOOLEAN /\ steady \in BOOLEAN /\ confirmed \in BOOLEAN
PassFlags ==
  resync \in BOOLEAN /\ rebaseline \in BOOLEAN /\ provisional \in BOOLEAN /\ ownSave \in BOOLEAN
Learning ==
  learning \in [settling : BOOLEAN, verifying : BOOLEAN, verifyAfter : Nat, stableRevision : Nat]
Shape == Places /\ Callers /\ TurnFlags /\ DumpFlags /\ PassFlags /\ Learning

(* Every step leaves the process, the owner and the inbox in a place the   *)
(* code knows.                                                             *)
LEMMA PlacesStep == Counters /\ Places /\ Next => Places'
<1> SUFFICES ASSUME Counters, Places, Next PROVE Places'
  OBVIOUS
<1> USE DEF countVars, ticketHistory
<1>1. inputs' \in Nat
  <2>1. UNCHANGED inputs \/ inputs' = inputs + 1
    BY Zenon DEF Next, Turn, AwaitEnds, Submit, EventArrives, EventsLost, DumpReturns, SaveFails,
           SaveDropped, SaveRenames, SaveSyncs, StartTurn, Drain, Reconcile, StartDump, Commit,
           Publish, Overdue, Periodic, Cancel, Stop, Finish, Crash, Run, Input
  <2> QED
    BY <2>1 DEF Places
<1>2. up' \in {"run", "canceled", "stopping", "down"}
  <2>1. UNCHANGED up \/ up' = "canceled" \/ up' = "stopping" \/ up' = "down" \/ up' = "run"
    BY Zenon DEF Next, Turn, AwaitEnds, Submit, EventArrives, EventsLost, DumpReturns, SaveFails,
           SaveDropped, SaveRenames, SaveSyncs, StartTurn, Drain, Reconcile,
           Publish, Overdue, Periodic, Cancel, Stop, Finish, Crash, Run
  <2> QED
    BY <2>1 DEF Places
<1>3. pc' \in {"wait", "drain", "reconcile", "publish"}
  <2>1. UNCHANGED pc \/ pc' = "wait" \/ pc' = "drain" \/ pc' = "reconcile" \/ pc' = "publish"
    BY Zenon DEF Next, Turn, AwaitEnds, Submit, EventArrives, EventsLost, DumpReturns, SaveFails,
           SaveDropped, SaveRenames, SaveSyncs, StartTurn, Drain, Reconcile,
           Publish, Overdue, Periodic, Cancel, Stop, Finish, Crash, Run, Fresh
  <2> QED
    BY <2>1 DEF Places
<1>4. count' \in {"none", "partial", "ready"} /\ queued' \in Nat
  <2>1. CASE \E timer \in BOOLEAN : StartTurn(timer)
    <3>1. \/ UNCHANGED <<count, queued>> \/ SyncLoss
          \/ queued' \in 0 .. queued - 1 /\ (UNCHANGED count \/ count' \in {"none", "partial", "ready"})
      BY <2>1 DEF StartTurn, Events
    <3> QED
      BY <3>1 DEF Places, SyncLoss
  <2>2. CASE Reconcile
    <3>1. queued' \in {queued, 0} /\ count' \in {count, "none", "partial", "ready"}
      BY <2>2 DEF Reconcile, SyncLoss, StartDump, Commit
    <3> QED
      BY <3>1 DEF Places
  <2>3. CASE Overdue \/ EventArrives \/ Crash \/ Run
    <3>1. queued' \in {queued, 0, queued + 1} /\ count' \in {count, "none", "partial"}
      BY <2>3 DEF Overdue, EventArrives, Crash, Run, Fresh
    <3> QED
      BY <3>1 DEF Places
  <2>4. CASE \/ EventsLost \/ DumpReturns \/ SaveFails \/ SaveDropped \/ SaveRenames \/ SaveSyncs
             \/ Drain \/ Publish \/ Periodic \/ Cancel \/ Stop \/ Finish
             \/ \E c \in Clients : AwaitEnds(c) \/ \E k \in Kinds : Submit(c, k)
    <3>1. UNCHANGED <<count, queued>>
      BY <2>4, Zenon DEF EventsLost, DumpReturns, SaveFails, SaveDropped, SaveRenames, SaveSyncs,
                  Drain, Publish, Periodic, Cancel, Stop, Finish, AwaitEnds, Submit
    <3> QED
      BY <3>1 DEF Places
  <2> QED
    BY <2>1, <2>2, <2>3, <2>4, Zenon DEF Next, Turn
<1>5. joined' \subseteq Kinds
  <2>1. CASE Drain
    <3>1. PICK work : joined' = (joined \ work) \cup {k \in work : OlderWork(k)} /\ work \subseteq wanted
      BY <2>1, DrainFacts, Zenon DEF Drains, Control
    <3> QED
      BY <3>1 DEF Places, Counters
  <2>2. CASE Publish \/ Crash \/ Run
    <3>1. joined' \subseteq joined
      BY <2>2 DEF Publish, Crash, Run, Fresh
    <3> QED
      BY <3>1 DEF Places
  <2>3. CASE \/ EventArrives \/ EventsLost \/ DumpReturns \/ SaveFails \/ SaveDropped
             \/ SaveRenames \/ SaveSyncs \/ Reconcile \/ Overdue \/ Periodic \/ Cancel \/ Stop
             \/ Finish \/ (\E timer \in BOOLEAN : StartTurn(timer))
             \/ \E c \in Clients : AwaitEnds(c) \/ \E k \in Kinds : Submit(c, k)
    <3>1. UNCHANGED joined
      BY <2>3, Zenon DEF EventArrives, EventsLost, DumpReturns, SaveFails, SaveDropped, SaveRenames,
                  SaveSyncs, Reconcile, Overdue, Periodic, Cancel, Stop, Finish, StartTurn,
                  AwaitEnds, Submit
    <3> QED
      BY <3>1 DEF Places
  <2> QED
    BY <2>1, <2>2, <2>3, Zenon DEF Next, Turn
<1> QED
  BY <1>1, <1>2, <1>3, <1>4, <1>5 DEF Places

(* The callers wait for a generation that was requested, or for nothing.   *)
LEMMA CallersStep == Counters /\ Callers /\ Next => Callers'
<1> SUFFICES ASSUME Counters, Callers, Next PROVE Callers'
  OBVIOUS
<1>0. Idle \in [st : {"idle", "wait"}, kind : Kinds, gen : Nat]
  BY DEF Idle, Kinds
<1>1. ASSUME NEW c \in Clients, NEW k \in Kinds, Submit(c, k) PROVE Callers'
  <2>1. requested'[k] \in Nat
    BY <1>1 DEF Submit, Request, Counters
  <2>2. client' = [client EXCEPT ![c] = [st |-> "wait", kind |-> k, gen |-> requested'[k]]]
    BY <1>1 DEF Submit
  <2> QED
    BY <2>1, <2>2 DEF Callers
<1>2. ASSUME NEW c \in Clients, AwaitEnds(c) PROVE Callers'
  BY <1>0, <1>2 DEF Callers, AwaitEnds
<1>3. CASE Broadcast
  BY <1>0, <1>3 DEF Callers, Broadcast
<1>4. CASE Publish \/ Stop \/ Crash \/ Run
  <2>1. UNCHANGED client \/ Broadcast \/ client' = [c \in Clients |-> Idle]
    BY <1>4, Zenon DEF Publish, Stop, Crash, Run, Complete
  <2> QED
    BY <1>0, <1>3, <2>1 DEF Callers
<1>5. CASE \/ EventArrives \/ EventsLost \/ DumpReturns \/ SaveFails \/ SaveDropped
           \/ SaveRenames \/ SaveSyncs \/ Reconcile \/ Overdue \/ Periodic \/ Cancel
           \/ Finish \/ Drain \/ \E timer \in BOOLEAN : StartTurn(timer)
  <2>1. UNCHANGED client
    BY <1>5, Zenon DEF EventArrives, EventsLost, DumpReturns, SaveFails, SaveDropped, SaveRenames,
                SaveSyncs, Reconcile, Overdue, Periodic, Cancel, Finish, Drain, StartTurn
  <2> QED
    BY <2>1 DEF Callers
<1> QED
  BY <1>1, <1>2, <1>4, <1>5, Zenon DEF Next, Turn

(* The flags of the turn stay flags.                                       *)
LEMMA TurnFlagsStep == TurnFlags /\ Next => TurnFlags'
<1> SUFFICES ASSUME TurnFlags, Next PROVE TurnFlags'
  OBVIOUS
<1> USE DEF controlVars, cycleVars
<1>1. wake' \in BOOLEAN
  <2>1. \/ UNCHANGED wake \/ wake' = FALSE \/ (\E k : wake' = (wake \/ k \notin wanted))
        \/ wake' = (wake \/ wanted # {})
    BY Zenon DEF Next, Turn, AwaitEnds, Submit, Request, EventArrives, EventsLost, DumpReturns,
           SaveFails, SaveDropped, SaveRenames, SaveSyncs, StartTurn, Drain, Reconcile, Publish,
           Complete, Overdue, Periodic, Cancel, Stop, Finish, Crash, Run, Fresh
  <2> QED
    BY <2>1, Zenon DEF TurnFlags
<1>2. due' \in BOOLEAN
  <2>1. UNCHANGED due \/ due' = FALSE \/ \E timer \in BOOLEAN : due' = timer
    BY Zenon DEF Next, Turn, AwaitEnds, Submit, EventArrives, EventsLost, DumpReturns, SaveFails,
           SaveDropped, SaveRenames, SaveSyncs, StartTurn, Drain, Reconcile, Publish, Overdue,
           Periodic, Cancel, Stop, Finish, Crash, Run, Fresh
  <2> QED
    BY <2>1, Zenon DEF TurnFlags
<1>3. lost' \in BOOLEAN
  <2>1. UNCHANGED lost \/ lost' = FALSE \/ lost' = TRUE
    BY Zenon DEF Next, Turn, AwaitEnds, Submit, EventArrives, EventsLost, DumpReturns, SaveFails,
           SaveDropped, SaveRenames, SaveSyncs, StartTurn, SyncLoss, Events, Drain, Reconcile,
           StartDump, Commit, Publish, Overdue, Periodic, Cancel, Stop, Finish, Crash, Run, Fresh
  <2> QED
    BY <2>1, Zenon DEF TurnFlags
<1>4. answer' \in BOOLEAN
  <2>1. UNCHANGED answer \/ answer' = FALSE \/ answer' = TRUE
    BY Zenon DEF Next, Turn, AwaitEnds, Submit, EventArrives, EventsLost, DumpReturns, SaveFails,
           SaveDropped, SaveRenames, SaveSyncs, StartTurn, SyncLoss, Events, Drain, Reconcile,
           StartDump, Commit, Publish, Overdue, Periodic, Cancel, Stop, Finish, Crash, Run, Fresh
  <2> QED
    BY <2>1, Zenon DEF TurnFlags
<1> QED
  BY <1>1, <1>2, <1>3, <1>4, Zenon DEF TurnFlags

(* A request for a resynchronisation, a loss and the reconciler leave the  *)
(* cycle's state Boolean.                                                  *)
Cycling == UNCHANGED <<pending, active>> \/ Cycle!Request \/ Cycle!Start \/ Cycle!Finish \/ Cycle!GiveUp

LEMMA CyclingStep ==
  ASSUME DumpFlags, Cycling
  PROVE  pending' \in BOOLEAN /\ active' \in BOOLEAN
  BY Zenon DEF DumpFlags, Cycling, Cycle!Request, Cycle!Start, Cycle!Finish, Cycle!GiveUp

(* The state of the cycle and the history of the dumps stay Boolean.       *)
LEMMA DumpFlagsStep == DumpFlags /\ Next => DumpFlags'
<1> SUFFICES ASSUME DumpFlags, Next PROVE DumpFlags'
  OBVIOUS
<1> USE DEF cycleVars, dumpHistory
<1>1. pending' \in BOOLEAN /\ active' \in BOOLEAN
  <2>1. RequestResync => Cycling
    BY Zenon DEF RequestResync, Cycling
  <2>2. CASE \E timer \in BOOLEAN : StartTurn(timer)
    <3>1. Cycling
      BY <2>1, <2>2, Zenon DEF StartTurn, SyncLoss, Events, Cycling
    <3> QED
      BY <3>1, CyclingStep
  <2>3. CASE Reconcile
    <3>1. Cycling
      BY <2>1, <2>3, Zenon DEF Reconcile, SyncLoss, StartDump, Commit, Cycling
    <3> QED
      BY <3>1, CyclingStep
  <2>4. CASE Drain
    <3>1. Cycling
      BY <2>1, <2>4, Zenon DEF Drain, Control, Cycling
    <3> QED
      BY <3>1, CyclingStep
  <2>5. CASE Publish
    <3>1. Cycling
      BY <2>1, <2>5, Zenon DEF Publish, Retry, LearnLater, Verify, Settle, Cycling
    <3> QED
      BY <3>1, CyclingStep
  <2>6. CASE Crash \/ Run
    <3>1. pending' = TRUE /\ active' = FALSE
      BY <2>6, Zenon DEF Crash, Run, Fresh
    <3> QED
      BY <3>1, Zenon
  <2>7. CASE Periodic
    BY <2>7, CyclingStep, Zenon DEF Periodic, Cycling
  <2>8. CASE \/ EventArrives \/ EventsLost \/ DumpReturns \/ SaveFails \/ SaveDropped
             \/ SaveRenames \/ SaveSyncs \/ Overdue \/ Cancel \/ Stop \/ Finish
             \/ \E c \in Clients : AwaitEnds(c) \/ \E k \in Kinds : Submit(c, k)
    <3>1. Cycling
      BY <2>8, Zenon DEF EventArrives, EventsLost, DumpReturns, SaveFails, SaveDropped, SaveRenames,
           SaveSyncs, Overdue, Cancel, Stop, Finish, AwaitEnds, Submit, Cycling
    <3> QED
      BY <3>1, CyclingStep
  <2> QED
    BY <2>2, <2>3, <2>4, <2>5, <2>6, <2>7, <2>8, Zenon DEF Next, Turn
<1>2. steady' \in BOOLEAN /\ confirmed' \in BOOLEAN
  <2>1. CASE Reconcile
    <3>1. \/ UNCHANGED <<steady, confirmed>> \/ (steady' = FALSE /\ confirmed' = FALSE)
          \/ (steady' = TRUE /\ UNCHANGED confirmed)
          \/ (steady' = (steady /\ rev' = rev) /\ confirmed' = steady')
      BY <2>1, Zenon DEF Reconcile, SyncLoss, StartDump, Commit
    <3> QED
      BY <3>1, Zenon DEF DumpFlags
  <2>2. CASE \/ EventArrives \/ EventsLost \/ DumpReturns \/ SaveFails \/ SaveDropped
             \/ SaveRenames \/ SaveSyncs \/ Overdue \/ Periodic \/ Cancel \/ Stop \/ Finish
             \/ Drain \/ Publish \/ Crash \/ Run \/ (\E timer \in BOOLEAN : StartTurn(timer))
             \/ \E c \in Clients : AwaitEnds(c) \/ \E k \in Kinds : Submit(c, k)
    <3>1. UNCHANGED <<steady, confirmed>> \/ (steady' = FALSE /\ confirmed' = FALSE)
      BY <2>2, Zenon DEF EventArrives, EventsLost, DumpReturns, SaveFails, SaveDropped, SaveRenames,
           SaveSyncs, Overdue, Periodic, Cancel, Stop, Finish, Drain, Publish, Crash, Run, Fresh,
           StartTurn, SyncLoss, Events, AwaitEnds, Submit
    <3> QED
      BY <3>1, Zenon DEF DumpFlags
  <2> QED
    BY <2>1, <2>2, Zenon DEF Next, Turn
<1> QED
  BY <1>1, <1>2, Zenon DEF DumpFlags

(* The flags of the passes and of the baseline stay flags.                 *)
LEMMA PassFlagsStep == PassFlags /\ Next => PassFlags'
<1> SUFFICES ASSUME PassFlags, Next PROVE PassFlags'
  OBVIOUS
<1> USE DEF passVars, baselineVars
<1>1. CASE Drain
  <2> DEFINE work == IF wake THEN wanted \ inFlight ELSE {}
             asked == rebaseline \/ "rebaseline" \in work
  <2>1. resync' = (resync \/ "resync" \in work)
    BY <1>1, Zenon DEF Drain, Control
  <2>2. \/ provisional' = FALSE /\ ownSave' = TRUE /\ rebaseline' = FALSE
        \/ UNCHANGED <<provisional, ownSave>> /\ rebaseline' = asked
    BY <1>1, Zenon DEF Drain, Saved
  <2> QED
    BY <2>1, <2>2, Zenon DEF PassFlags
<1>2. CASE Publish
  <2>1. resync' = (resync /\ ~(resync /\ committed > resyncAfter)) /\ UNCHANGED rebaseline
    BY <1>2, Zenon DEF Publish
  <2>2. (provisional' = TRUE \/ UNCHANGED provisional) /\ UNCHANGED ownSave
    BY <1>2, PublishBaseline, Zenon DEF Keeps, Retries, Provides, Takes
  <2> QED
    BY <2>1, <2>2, Zenon DEF PassFlags
<1>3. CASE Finish
  <2>1. /\ UNCHANGED resync
        /\ \/ provisional' = FALSE /\ ownSave' = TRUE /\ rebaseline' = FALSE
           \/ UNCHANGED <<provisional, ownSave, rebaseline>>
    BY <1>3, Zenon DEF Finish, Saved
  <2> QED
    BY <2>1, Zenon DEF PassFlags
<1>4. CASE Crash \/ Run
  <2>1. resync' = FALSE /\ rebaseline' = FALSE /\ provisional' = FALSE /\ ownSave' = FALSE
    BY <1>4, Zenon DEF Crash, Run, Fresh
  <2> QED
    BY <2>1, Zenon DEF PassFlags
<1>5. CASE \/ EventArrives \/ EventsLost \/ DumpReturns \/ SaveFails \/ SaveDropped
           \/ SaveRenames \/ SaveSyncs \/ Reconcile \/ Overdue \/ Periodic \/ Cancel \/ Stop
           \/ (\E timer \in BOOLEAN : StartTurn(timer))
           \/ \E c \in Clients : AwaitEnds(c) \/ \E k \in Kinds : Submit(c, k)
  <2>1. UNCHANGED <<resync, rebaseline, provisional, ownSave>>
    BY <1>5, Zenon DEF EventArrives, EventsLost, DumpReturns, SaveFails, SaveDropped, SaveRenames,
         SaveSyncs, Reconcile, Overdue, Periodic, Cancel, Stop, StartTurn, AwaitEnds, Submit
  <2> QED
    BY <2>1, Zenon DEF PassFlags
<1> QED
  BY <1>1, <1>2, <1>3, <1>4, <1>5, Zenon DEF Next, Turn

(* A verification that begins is a state of the verification.              *)
LEMMA BeginningStep ==
  ASSUME Numbers, NEW s \in BOOLEAN, BeginVerification(s)
  PROVE  Learning'
<1>1. serial \in Nat /\ rev \in Nat
  BY DEF Numbers
<1>2. [settling |-> s, verifying |-> TRUE, verifyAfter |-> serial, stableRevision |-> rev]
        \in [settling : BOOLEAN, verifying : BOOLEAN, verifyAfter : Nat, stableRevision : Nat]
  BY <1>1
<1> QED
  BY <1>2, Zenon DEF BeginVerification, Learning

(* The verification stays one.                                             *)
LEMMA LearningStep == Numbers /\ Learning /\ Next => Learning'
<1> SUFFICES ASSUME Numbers, Learning, Next PROVE Learning'
  OBVIOUS
<1>1. learning.settling \in BOOLEAN
  BY DEF Learning
<1>2. NotLearning \in [settling : BOOLEAN, verifying : BOOLEAN, verifyAfter : Nat, stableRevision : Nat]
  BY DEF NotLearning
<1>3. [settling |-> TRUE, verifying |-> FALSE, verifyAfter |-> 0, stableRevision |-> rev]
        \in [settling : BOOLEAN, verifying : BOOLEAN, verifyAfter : Nat, stableRevision : Nat]
  BY DEF Numbers
<1>4. CASE Drain
  <2>1. UNCHANGED learning \/ BeginVerification(learning.settling)
    BY <1>4, Zenon DEF Drain, Control
  <2> QED
    BY <1>1, <2>1, BeginningStep, Zenon DEF Learning
<1>5. CASE Publish
  <2> DEFINE settles == ~rebaseline \/ (learning.settling /\ ~learning.verifying)
  <2>1. \/ UNCHANGED learning \/ learning' = NotLearning \/ BeginVerification(settles)
        \/ learning' = [settling |-> TRUE, verifying |-> FALSE, verifyAfter |-> 0, stableRevision |-> rev]
    BY <1>5, Zenon DEF Publish, Retry, LearnLater, Verify, Settle
  <2>2. settles \in BOOLEAN
    BY Zenon
  <2> HIDE DEF settles
  <2>3. BeginVerification(settles) => Learning'
    BY <2>2, BeginningStep, Zenon
  <2> QED
    BY <1>2, <1>3, <2>1, <2>3, Zenon DEF Learning
<1>6. CASE Crash \/ Run
  <2>1. learning' = NotLearning
    BY <1>6, Zenon DEF Crash, Run, Fresh
  <2> QED
    BY <1>2, <2>1, Zenon DEF Learning
<1>7. CASE \/ EventArrives \/ EventsLost \/ DumpReturns \/ SaveFails \/ SaveDropped
           \/ SaveRenames \/ SaveSyncs \/ Reconcile \/ Overdue \/ Periodic \/ Cancel \/ Stop
           \/ Finish \/ (\E timer \in BOOLEAN : StartTurn(timer))
           \/ \E c \in Clients : AwaitEnds(c) \/ \E k \in Kinds : Submit(c, k)
  <2>1. UNCHANGED learning
    BY <1>7, Zenon DEF EventArrives, EventsLost, DumpReturns, SaveFails, SaveDropped, SaveRenames,
         SaveSyncs, Reconcile, Overdue, Periodic, Cancel, Stop, Finish, StartTurn, AwaitEnds, Submit
  <2> QED
    BY <2>1, Zenon DEF Learning
<1> QED
  BY <1>4, <1>5, <1>6, <1>7, Zenon DEF Next, Turn

(* Every variable keeps its type in every state the monitor reaches: a     *)
(* caller's generation, a serial number, a revision and what is waited for *)
(* are numbers, and every record that is written, expected or found after  *)
(* a restart is a whole record or none.                                    *)
THEOREM TypeCorrect == Spec => []TypeOK
<1>1. Init => Shape
  <2> SUFFICES ASSUME Init PROVE Shape
    OBVIOUS
  <2>1. Places
    BY DEF Init, Places
  <2>2. Callers
    BY DEF Init, Callers, Idle, Kinds
  <2>3. TurnFlags /\ PassFlags
    BY Zenon DEF Init, TurnFlags, PassFlags
  <2>4. DumpFlags
    BY Zenon DEF Init, Cycle!Init, DumpFlags
  <2>5. Learning
    BY DEF Init, Learning, NotLearning
  <2> QED
    BY <2>1, <2>2, <2>3, <2>4, <2>5 DEF Shape
<1>2. IInv /\ Shape /\ [Next]_vars => Shape'
  <2> SUFFICES ASSUME IInv, Shape, [Next]_vars PROVE Shape'
    OBVIOUS
  <2>1. CASE Next
    BY <2>1, PlacesStep, CallersStep, TurnFlagsStep, DumpFlagsStep, PassFlagsStep, LearningStep,
       Zenon DEF IInv, Shape
  <2>2. CASE UNCHANGED vars
    <3> USE <2>2 DEF vars, controlVars, cycleVars, countVars, passVars, baselineVars, ticketHistory,
                     dumpHistory, Shape
    <3>1. Places' /\ Callers' /\ Learning'
      BY DEF Places, Callers, Learning
    <3>2. TurnFlags' /\ DumpFlags'
      BY Zenon DEF TurnFlags, DumpFlags
    <3>3. PassFlags'
      BY Zenon DEF PassFlags
    <3> QED
      BY <3>1, <3>2, <3>3, Zenon
  <2> QED
    BY <2>1, <2>2, Zenon
<1>3. FinishedInTurn => finished \subseteq Kinds
  BY DEF FinishedInTurn, Kinds
<1>4. IInv /\ Shape => TypeOK
  BY <1>3, Zenon DEF IInv, Counters, Numbers, Baselines, Shape, Places, Callers, TurnFlags, DumpFlags,
         PassFlags, Learning, TypeOK
<1> QED
  BY <1>1, <1>2, <1>4, Invariance, PTL DEF Spec

------------------------------------------------------------------------------
(* Nobody is forgotten.  What is wanted and not in flight has a wake-up on *)
(* its way.                                                                *)
WakeKept == wanted \subseteq inFlight \/ wake

(* A caller's generation is requested and not completed.                   *)
Tickets ==
  \A c \in Clients : client[c].st = "wait" =>
    /\ up \in {"run", "canceled"}
    /\ client[c].gen > completed[client[c].kind]
    /\ client[c].gen <= requested[client[c].kind]

(* No step loses a wake-up: a request puts one in unless its kind is       *)
(* wanted already, the owner takes it with everything it may begin, and    *)
(* the end of a pass puts one in for what came meanwhile.                  *)
LEMMA WakeStep == WakeKept /\ Next => WakeKept'
<1> SUFFICES ASSUME WakeKept, Next PROVE WakeKept'
  OBVIOUS
<1> USE DEF WakeKept
<1>1. ASSUME NEW c \in Clients, NEW k \in Kinds, Submit(c, k) PROVE WakeKept'
  <2>1. wanted' = wanted \cup {k} /\ wake' = (wake \/ k \notin wanted) /\ UNCHANGED inFlight
    BY <1>1, Zenon DEF Submit, Request
  <2> QED
    BY <2>1, Zenon
<1>2. CASE Drain
  <2> DEFINE work == IF wake THEN wanted \ inFlight ELSE {}
  <2>1. wanted' = wanted \ work /\ inFlight' = inFlight \cup work
    BY <1>2, Zenon DEF Drain, Control, Begin
  <2> QED
    BY <2>1
<1>3. CASE Publish
  <2>1. UNCHANGED wanted
    BY <1>3, Zenon DEF Publish
  <2>2. UNCHANGED <<inFlight, wake>> \/ wake' = (wake \/ wanted # {})
    BY <1>3, Zenon DEF Publish, Complete
  <2> QED
    BY <2>1, <2>2, Zenon
<1>4. CASE Stop
  BY <1>4, StopFrame
<1>5. CASE Crash \/ Run
  <2>1. wanted' = {}
    BY <1>5, RestartFrame, Zenon DEF Fresh
  <2> QED
    BY <2>1
<1>6. CASE UNCHANGED <<wanted, inFlight, wake>>
  BY <1>6, Zenon
<1> HIDE DEF WakeKept
<1> QED
  BY <1>1, <1>2, <1>3, <1>4, <1>5, <1>6, Steps, SurroundingsFrame, StorageFrame, StartFrame,
     ReconcileFrame, FinishFrame, Zenon DEF Submits, Starts, ControlsStill

(* broadcast leaves waiting only those whose pass is not completed, and    *)
(* nobody when the owner stops.                                            *)
LEMMA BroadcastFacts ==
  ASSUME Broadcast, NEW c \in Clients, client'[c].st = "wait"
  PROVE  /\ client'[c] = client[c] /\ up' # "stopping"
         /\ ~(completed'[client[c].kind] >= client[c].gen)
<1>1. client'[c] = IF client[c].st = "wait" /\ (completed'[client[c].kind] >= client[c].gen \/ up' = "stopping")
                   THEN Idle ELSE client[c]
  BY Zenon DEF Broadcast
<1>2. Idle.st # "wait"
  BY DEF Idle
<1> QED
  BY <1>1, <1>2, Zenon

(* The world around the owner makes nobody wait.                           *)
LEMMA SurroundingsCallers ==
  ASSUME Callers, Surroundings, NEW c \in Clients, client'[c].st = "wait"
  PROVE  client'[c] = client[c]
<1>1. CASE UNCHANGED client
  BY <1>1, Zenon
<1>2. ASSUME NEW d \in Clients, AwaitEnds(d) PROVE client'[c] = client[c]
  <2>1. client' = [client EXCEPT ![d] = Idle]
    BY <1>2, Zenon DEF AwaitEnds
  <2>2. Idle.st # "wait"
    BY DEF Idle
  <2> QED
    BY <2>1, <2>2 DEF Callers
<1> QED
  BY <1>1, <1>2, Zenon DEF Surroundings, EventArrives, EventsLost, DumpReturns, Overdue, Periodic, Cancel

(* No step leaves a caller waiting for a pass that is completed or that    *)
(* nobody requested.                                                       *)
LEMMA TicketsStep == Counters /\ Passes /\ Callers /\ Tickets /\ Next => Tickets'
<1> SUFFICES ASSUME Counters, Passes, Callers, Tickets, Next,
                    NEW c \in Clients, client'[c].st = "wait"
             PROVE  /\ up' \in {"run", "canceled"}
                    /\ client'[c].gen > completed'[client'[c].kind]
                    /\ client'[c].gen <= requested'[client'[c].kind]
  BY Zenon DEF Tickets
<1>0. \A d \in Clients : client[d].kind \in Kinds /\ client[d].gen \in Nat
  BY DEF Callers
<1>1. ASSUME NEW d \in Clients, NEW k \in Kinds, Submit(d, k)
      PROVE  /\ up' \in {"run", "canceled"}
             /\ client'[c].gen > completed'[client'[c].kind]
             /\ client'[c].gen <= requested'[client'[c].kind]
  <2>1. /\ up = "run" /\ UNCHANGED <<up, completed>>
        /\ requested' = IF k \in wanted THEN requested ELSE [requested EXCEPT ![k] = @ + 1]
        /\ client' = [client EXCEPT ![d] = [st |-> "wait", kind |-> k, gen |-> requested'[k]]]
    BY <1>1, Zenon DEF Submit, Request
  <2>2. /\ requested'[k] > completed[k] /\ requested'[k] \in Nat
        /\ \A j \in Kinds : requested[j] <= requested'[j] /\ requested[j] \in Nat /\ requested'[j] \in Nat
    BY <2>1 DEF Counters, Passes, Bit
  <2>3. CASE c = d
    <3>1. client'[c] = [st |-> "wait", kind |-> k, gen |-> requested'[k]]
      BY <2>1, <2>3 DEF Callers
    <3> QED
      BY <2>1, <2>2, <3>1
  <2>4. CASE c # d
    <3>1. client'[c] = client[c]
      BY <2>1, <2>4 DEF Callers
    <3>2. client[c].gen > completed[client[c].kind] /\ client[c].gen <= requested[client[c].kind]
      BY <3>1, Zenon DEF Tickets
    <3>3. client[c].gen <= requested'[client[c].kind]
      BY <1>0, <2>2, <3>2
    <3> QED
      BY <2>1, <3>1, <3>2, <3>3
  <2> QED
    BY <2>3, <2>4
<1>2. CASE /\ client'[c] = client[c] /\ UNCHANGED <<requested, completed>>
           /\ up' \in {"run", "canceled"}
  <2>1. client[c].gen > completed[client[c].kind] /\ client[c].gen <= requested[client[c].kind]
    BY <1>2, Zenon DEF Tickets
  <2> QED
    BY <1>2, <2>1
<1>3. CASE Publish
  <2>0. UNCHANGED <<up, requested>> /\ (UNCHANGED <<completed, client>> \/ Broadcast)
    BY <1>3, Zenon DEF Publish, Complete
  <2>1. client'[c] = client[c]
    BY <2>0, BroadcastFacts, Zenon
  <2>2. up \in {"run", "canceled"} /\ client[c].gen <= requested[client[c].kind]
    BY <2>1, Zenon DEF Tickets
  <2>3. CASE UNCHANGED <<completed, client>>
    BY <1>2, <2>0, <2>1, <2>2, <2>3, Zenon
  <2>4. CASE Broadcast
    <3>1. ~(completed'[client[c].kind] >= client[c].gen)
      BY <2>4, BroadcastFacts, Zenon
    <3>2. completed'[client[c].kind] \in Nat
      BY <1>0, CountersStep DEF Counters
    <3> QED
      BY <1>0, <2>0, <2>1, <2>2, <3>1, <3>2
  <2> QED
    BY <2>0, <2>3, <2>4, Zenon
<1>4. CASE Stop
  BY <1>4, StopFrame, BroadcastFacts, Zenon
<1>5. CASE Crash \/ Run
  <2>1. client'[c] = Idle
    BY <1>5, RestartFrame, Zenon
  <2> QED
    BY <2>1 DEF Idle
<1>6. CASE Finish
  <2>1. client'[c] = client[c] /\ up = "stopping"
    BY <1>6, Zenon DEF Finish
  <2>2. up \in {"run", "canceled"}
    BY <2>1, Zenon DEF Tickets
  <2> QED
    BY <2>1, <2>2
<1>7. CASE Surroundings
  <2>1. client'[c] = client[c]
    BY <1>7, SurroundingsCallers
  <2>2. up \in {"run", "canceled"}
    BY <2>1, Zenon DEF Tickets
  <2>3. up' \in {"run", "canceled"} /\ UNCHANGED <<requested, completed>>
    BY <1>7, <2>2, SurroundingsFrame DEF ControlsStill
  <2> QED
    BY <1>2, <2>1, <2>3, Zenon
<1>8. CASE Storage \/ Starts \/ Drain \/ Reconcile
  <2>1. UNCHANGED <<client, up, requested, completed>>
    BY <1>8, StorageFrame, StartFrame, ReconcileFrame, Zenon DEF Starts, Drain, ControlsStill
  <2>2. up \in {"run", "canceled"}
    BY <2>1, Zenon DEF Tickets
  <2> QED
    BY <1>2, <2>1, <2>2, Zenon
<1> QED
  BY <1>1, <1>3, <1>4, <1>5, <1>6, <1>7, <1>8, Steps, Zenon DEF Submits

(* No caller is forgotten, however requests, passes, completions, the stop *)
(* and crashes interleave: a caller that waits has a pass that is not      *)
(* completed, and the owner works on it or is about to be woken for it.    *)
THEOREM NoCallerForgotten == Spec => []CallersServed
<1>1. Init => WakeKept /\ Tickets
  BY DEF Init, WakeKept, Tickets, Idle
<1>2. TypeOK => Callers
  BY Zenon DEF TypeOK, Callers
<1>3. IInv /\ TypeOK /\ WakeKept /\ Tickets /\ [Next]_vars => WakeKept' /\ Tickets'
  <2> SUFFICES ASSUME IInv, TypeOK, WakeKept, Tickets, [Next]_vars PROVE WakeKept' /\ Tickets'
    OBVIOUS
  <2>1. CASE Next
    BY <1>2, <2>1, WakeStep, TicketsStep, Zenon DEF IInv
  <2>2. CASE UNCHANGED vars
    BY <2>2, Zenon DEF vars, controlVars, WakeKept, Tickets
  <2> QED
    BY <2>1, <2>2, Zenon
<1>4. IInv /\ TypeOK /\ WakeKept /\ Tickets => CallersServed
  <2> SUFFICES ASSUME IInv, TypeOK, WakeKept, Tickets, NEW c \in Clients, client[c].st = "wait",
                      NEW k, k = client[c].kind
               PROVE  /\ up \in {"run", "canceled"} /\ client[c].gen > completed[k]
                      /\ k \in inFlight \/ (k \in wanted /\ wake)
    BY Zenon DEF CallersServed
  <2>1. k \in Kinds /\ client[c].gen \in Nat
    BY <1>2 DEF Callers
  <2>2. up \in {"run", "canceled"} /\ client[c].gen > completed[k] /\ client[c].gen <= requested[k]
    BY Zenon DEF Tickets
  <2>3. k \in wanted \cup inFlight
    <3>1. Counters /\ Passes
      BY Zenon DEF IInv
    <3> QED
      BY <2>1, <2>2, <3>1 DEF Counters, Passes, Bit
  <2> QED
    BY <2>2, <2>3 DEF WakeKept
<1> QED
  BY <1>1, <1>3, <1>4, Invariance, TypeCorrect, PTL DEF Spec

(* Every request that Submit accepted belongs to exactly one pass, which   *)
(* is pending, in flight or completed, the lifecycle works on every pass   *)
(* that is in flight (controls.begin, controls.complete), and no caller is *)
(* forgotten.                                                              *)
THEOREM EveryPassCounted == Spec => []PassesCounted
<1>1. IInv /\ CallersServed => PassesCounted
  BY DEF IInv, Passes, PassesCounted, Counters, Bit
<1> QED
  BY <1>1, Invariance, NoCallerForgotten, PTL

(* The owner and its reconciler keep the resynchronisation cycle that they *)
(* share with LinkInventory, restarts included: a process that ends gives  *)
(* up what was under way, and one that begins wants a resynchronisation.   *)
THEOREM KeepsTheCycle == Spec => Cycle!Spec
<1> DEFINE OneResync == ~(pending /\ active)
<1>1. Init => Cycle!Init /\ OneResync
  BY Zenon DEF Init, Cycle!Init
<1>2. DumpFlags /\ OneResync /\ [Next]_vars => [Cycle!Next]_Cycle!vars
  <2> SUFFICES ASSUME DumpFlags, OneResync, [Next]_vars PROVE Cycle!Next \/ UNCHANGED <<pending, active>>
    BY Zenon DEF Cycle!vars
  <2>1. CASE Cycling
    BY <2>1, Zenon DEF Cycling, Cycle!Next
  <2>2. RequestResync => Cycling
    BY Zenon DEF RequestResync, Cycling
  <2>3. CASE Crash \/ Run
    <3>1. pending' = TRUE /\ active' = FALSE
      BY <2>3, Zenon DEF Crash, Run, Fresh
    <3> QED
      BY <3>1, Zenon DEF DumpFlags, Cycle!Next, Cycle!Request, Cycle!GiveUp
  <2>4. CASE Starts
    BY <2>1, <2>2, <2>4, Zenon DEF Starts, StartTurn, SyncLoss, Events, Cycling
  <2>5. CASE Reconcile
    BY <2>1, <2>2, <2>5, Zenon DEF Reconcile, SyncLoss, StartDump, Commit, Cycling, cycleVars
  <2>6. CASE Drain
    BY <2>1, <2>2, <2>6, Zenon DEF Drain, Control, Cycling
  <2>7. CASE Publish
    BY <2>1, <2>2, <2>7, Zenon DEF Publish, Retry, LearnLater, Verify, Settle, Cycling
  <2>8. CASE Surroundings
    BY <2>1, <2>8, Zenon DEF Surroundings, EventArrives, EventsLost, DumpReturns, Overdue, Periodic,
       Cancel, AwaitEnds, cycleVars, Cycling
  <2>9. CASE Storage \/ Submits \/ Stop \/ Finish \/ UNCHANGED vars
    BY <2>9, Zenon DEF Storage, SaveFails, SaveDropped, SaveRenames, SaveSyncs, Submits, Submit, Stop,
       Finish, vars, cycleVars
  <2> QED
    BY <2>3, <2>4, <2>5, <2>6, <2>7, <2>8, <2>9, Steps, Zenon
<1>3. OneResync /\ [Cycle!Next]_Cycle!vars => OneResync'
  BY Zenon DEF Cycle!vars, Cycle!Next, Cycle!Request, Cycle!Start, Cycle!Finish, Cycle!GiveUp
<1>4. TypeOK => DumpFlags
  BY Zenon DEF TypeOK, DumpFlags
<1> QED
  BY <1>1, <1>2, <1>3, <1>4, TypeCorrect, PTL DEF Spec, Cycle!Spec
==============================================================================
