------------------------- MODULE LinkInventoryShape --------------------------
(***************************************************************************)
(* Proofs about the control of the link monitor's inventory, for any       *)
(* devices, capacities and numbers of faults: the epochs stay in step, the *)
(* reconciler is the resynchronisation cycle that the lifecycle relies on, *)
(* and the parts of the types, of the control state and of what the owner  *)
(* holds that every step keeps.  LinkInventoryProofs builds on it.         *)
(***************************************************************************)
EXTENDS LinkInventory, TLAPS

------------------------------------------------------------------------------
(* The epochs.  A loss is reported for the epoch of the subscription it    *)
(* concerns, which is never a later one than the reducer's: it moves the   *)
(* inbox only when the two were equal.                                     *)
Epochs ==
  /\ epoch \in Nat /\ readerEpoch \in Nat
  /\ EpochInStep
  /\ readerEpoch <= epoch

(* eventInbox.lose keeps the inbox in step, whether the owner or an older  *)
(* subscription reports the loss.                                          *)
LEMMA LossInStep ==
  ASSUME Epochs, NEW e \in Nat, e <= epoch
  PROVE  /\ AfterLoss(e) \in {epoch, epoch + 1}
         /\ AfterLoss(epoch) = epoch + 1
BY DEF Epochs, EpochInStep, AfterLoss

(* No step of the reader, the executor or the owner breaks the order of    *)
(* the epochs (lose, syncLoss, subscribe).                                 *)
LEMMA EpochsStep == Epochs /\ [Next]_vars => Epochs'
<1> SUFFICES ASSUME Epochs, [Next]_vars PROVE Epochs'
  OBVIOUS
<1> USE DEF Epochs, EpochInStep
<1> DEFINE Same == UNCHANGED <<inboxEpoch, epoch, readerEpoch>>
<1>0. Same => Epochs'
  OBVIOUS
<1>1. ASSUME inboxEpoch' = AfterLoss(readerEpoch), UNCHANGED <<epoch, readerEpoch>>
      PROVE  Epochs'
  BY <1>1, LossInStep
<1>2. ASSUME inboxEpoch' = epoch + 1, epoch' = epoch + 1, UNCHANGED readerEpoch
      PROVE  Epochs'
  BY <1>2
<1>3. ASSUME NEW m, Push(m), UNCHANGED <<epoch, readerEpoch>> PROVE Epochs'
  BY <1>0, <1>1, <1>3, SMTT(30) DEF Push, Lose
<1>4. ASSUME NEW k \in Keys, Change(k) \/ Read(k) PROVE Epochs'
  BY <1>0, <1>4 DEF Change, Read, readerVars, inboxVars, deviceVars
<1>5. CASE ReaderOpen \/ JobEnds \/ EventsDrained
  BY <1>0, <1>5, Zenon
     DEF ReaderOpen, JobEnds, EventsDrained, readerVars, inboxVars, deviceVars
<1>6. CASE ReadRoute
  BY <1>3, <1>6 DEF ReadRoute, deviceVars
<1>7. CASE ReadEthtool
  BY <1>3, <1>7 DEF ReadEthtool, deviceVars
<1>8. CASE ReaderEnds \/ ReaderReports
  BY <1>1, <1>8, Zenon DEF ReaderEnds, ReaderReports, Lose, deviceVars
<1>9. CASE Turn
  BY <1>0, <1>2, <1>9, SMTT(30)
     DEF Turn, StartTurn, Before, Lost, SyncLoss, readerVars, inboxVars, deviceVars
<1>10. CASE HandleEvent
  BY <1>0, <1>2, <1>10, LossInStep
     DEF HandleEvent, Apply, Invalid, Lost, SyncLoss, Lose, readerVars, deviceVars
<1>11. CASE Advance
  <2>1. CASE AdvanceLost
    BY <1>2, <2>1, LossInStep, SMTT(30) DEF AdvanceLost, Lose, SyncLoss, readerVars
  <2>2. CASE AdvanceClosed
    BY <2>2 DEF AdvanceClosed, Subscribe, readerVars, deviceVars
  <2>3. ASSUME NEW asked \in BOOLEAN, AdvanceOpen(asked) PROVE Epochs'
    BY <1>0, <2>3, SMTT(30) DEF AdvanceOpen, readerVars, deviceVars
  <2> QED
    BY <1>11, <2>1, <2>2, <2>3, Zenon DEF Advance
<1>12. CASE AdvanceInventory
  BY <1>0, <1>2, <1>12, Zenon
     DEF AdvanceInventory, NextQuery, Commit, StartDump, Lost, SyncLoss,
         readerVars, inboxVars, deviceVars
<1>13. CASE UNCHANGED vars
  BY <1>0, <1>13 DEF vars, readerVars, inboxVars, deviceVars
<1> QED
  BY <1>4, <1>5, <1>6, <1>7, <1>8, <1>9, <1>10, <1>11, <1>12, <1>13, SMTT(30) DEF Next

(* However losses are reported, by the reader, by run once more, by a full *)
(* inbox, an invalid event or a subscription that came too late, syncLoss  *)
(* never finds the inbox more than one epoch ahead.                        *)
THEOREM EpochsInStep == Spec => []EpochInStep
<1>1. Init => Epochs
  BY DEF Init, Epochs, EpochInStep
<1>2. Epochs => EpochInStep
  BY DEF Epochs
<1> QED
  BY <1>1, <1>2, EpochsStep, PTL DEF Spec

------------------------------------------------------------------------------
(* The resynchronisation cycle.  One that is wanted is not under way, and  *)
(* what belongs to one, a request of the executor that was not canceled    *)
(* and a candidate that waits for queries, exists only while it is: a      *)
(* result can be accepted, and an inventory committed, for no other.       *)
IsJob(j) ==
  j = [st |-> j.st, current |-> j.current, query |-> j.query, key |-> j.key,
       stale |-> j.stale, data |-> j.data, err |-> j.err]

Owned(j) ==
  /\ IsJob(j)
  /\ j.st = "waiting" => j.current
  /\ j.current => active

OneResync ==
  /\ pending \in BOOLEAN /\ active \in BOOLEAN
  /\ ~(pending /\ active)
  /\ Owned(job)
  /\ candidate # NoData => active

(* What a step of the reconciler may do to pending and active.             *)
CycleStep == [Cycle!Next]_<<pending, active>>

(* A step that changes neither, and only completes or drops the request.   *)
LEMMA NothingToCycle ==
  ASSUME OneResync, UNCHANGED <<pending, active>>, Owned(job'),
         candidate' # NoData => active
  PROVE  OneResync' /\ CycleStep
BY DEF OneResync, Owned, IsJob, CycleStep

(* abort leaves no request that could be accepted.                         *)
LEMMA AbortFacts ==
  ASSUME NEW j, Abort(j)
  PROVE  /\ IsJob(job') /\ job'.st # "waiting" /\ ~job'.current
         /\ candidate' = NoData /\ active' = FALSE
BY Zenon DEF Abort, NoJob, IsJob

(* Aborting and asking again gives up the one under way, or asks for the   *)
(* first (syncLoss, fail and a resync event).                              *)
LEMMA AbortCycles ==
  ASSUME OneResync, NEW j, Abort(j), pending' = TRUE
  PROVE  OneResync' /\ CycleStep
<1>1. OneResync'
  BY AbortFacts, Zenon DEF OneResync, Owned, IsJob
<1>2. CycleStep
  BY AbortFacts, Zenon DEF OneResync, CycleStep, Cycle!Next, Cycle!Request, Cycle!GiveUp
<1> QED
  BY <1>1, <1>2

(* A request that joins nothing is one of the cycle (requestReason).       *)
LEMMA RequestCycles ==
  ASSUME OneResync, NEW wants \in BOOLEAN, wants => ~pending /\ ~active,
         pending' = (pending \/ wants), UNCHANGED <<active, candidate>>, Owned(job')
  PROVE  OneResync' /\ CycleStep
<1>1. CASE wants
  <2>1. pending' = TRUE
    BY <1>1, Zenon
  <2> QED
    BY <1>1, <2>1 DEF OneResync, Owned, IsJob, CycleStep, Cycle!Next, Cycle!Request
<1>2. CASE ~wants
  <2>1. pending' = pending
    BY <1>2 DEF OneResync
  <2> QED
    BY <2>1, NothingToCycle DEF OneResync
<1> QED
  BY <1>1, <1>2, SMTT(30)

(* result: the request that leaves the executor is still the owner's.      *)
LEMMA ReceivedOwned ==
  ASSUME OneResync
  PROVE  /\ Owned(Received)
         /\ Accepts => job.current
BY Zenon DEF OneResync, Owned, IsJob, Received, NoJob, Accepts

(* The executor that reads, ends or fails keeps its request's owner.       *)
LEMMA ExecutorCycles ==
  ASSUME OneResync, JobEnds \/ \E k \in Keys : Read(k)
  PROVE  OneResync' /\ CycleStep
<1>1. CASE JobEnds
  <2>1. Owned(job') /\ UNCHANGED <<pending, active, candidate>>
    BY <1>1, Zenon DEF JobEnds, OneResync, Owned, IsJob
  <2> QED
    BY <2>1, NothingToCycle DEF OneResync
<1>2. ASSUME NEW k \in Keys, Read(k) PROVE OneResync' /\ CycleStep
  <2>1. Owned(job') /\ UNCHANGED <<pending, active, candidate>>
    BY <1>2, Zenon DEF Read, OneResync, Owned, IsJob
  <2> QED
    BY <2>1, NothingToCycle, SMTT(30) DEF OneResync
<1> QED
  BY <1>1, <1>2, SMTT(30)

(* An event is applied, or ends the epoch (event, syncLoss).               *)
LEMMA HandleEventCycles ==
  ASSUME OneResync, HandleEvent
  PROVE  OneResync' /\ CycleStep
<1>1. CASE SyncLoss(job)
  BY <1>1, AbortCycles DEF SyncLoss
<1>2. CASE UNCHANGED <<pending, job, candidate, active>>
  BY <1>2, NothingToCycle DEF OneResync
<1>3. ASSUME NEW m, Apply(m) PROVE OneResync' /\ CycleStep
  <2>1. CASE m.kind = "resync"
    BY <1>3, <2>1, AbortCycles DEF Apply
  <2>2. CASE m.kind # "resync"
    <3>1. /\ pending' = (pending \/ ~Joins)
          /\ job' = [job EXCEPT !.stale = @ \/ (job.query /\ job.key = m.key)]
          /\ UNCHANGED <<candidate, active>>
      BY <1>3, <2>2 DEF Apply
    <3>2. Owned(job')
      BY <3>1 DEF OneResync, Owned, IsJob
    <3>3. (~Joins) \in BOOLEAN /\ (~Joins => ~pending /\ ~active)
      BY SMTT(30) DEF Joins
    <3> QED
      BY <3>1, <3>2, <3>3, RequestCycles, Zenon
  <2> QED
    BY <2>1, <2>2
<1> QED
  BY <1>1, <1>2, <1>3, SMTT(30) DEF HandleEvent, Invalid

(* advance: a loss, a subscription, or a result that is accepted.          *)
LEMMA AdvanceCycles ==
  ASSUME OneResync, Advance
  PROVE  OneResync' /\ CycleStep
<1>1. CASE AdvanceLost
  BY <1>1, AbortCycles DEF AdvanceLost, SyncLoss
<1>2. CASE AdvanceClosed
  <2>1. job' = Received /\ UNCHANGED <<pending, active, candidate>>
    BY <1>2 DEF AdvanceClosed
  <2> QED
    BY <2>1, ReceivedOwned, NothingToCycle, SMTT(30) DEF OneResync
<1>3. ASSUME NEW asked \in BOOLEAN, AdvanceOpen(asked) PROVE OneResync' /\ CycleStep
  <2> DEFINE requests == (asked \/ due = "resync") /\ ~Joins
  <2>1. CASE Fail
    BY <2>1, AbortCycles DEF Fail
  <2>2. CASE AcceptDump \/ AcceptQuery
    <3>1. job.current /\ job' = NoJob /\ UNCHANGED <<pending, active>>
      BY <2>2, ReceivedOwned DEF AcceptDump, AcceptQuery
    <3>2. active /\ Owned(job')
      BY <3>1 DEF OneResync, Owned, IsJob, NoJob
    <3> QED
      BY <3>1, <3>2, NothingToCycle, SMTT(30)
  <2>3. CASE AcceptNothing(requests)
    <3>1. /\ pending' = (pending \/ requests) /\ job' = Received
          /\ UNCHANGED <<candidate, active>>
      BY <2>3 DEF AcceptNothing
    <3>2. requests \in BOOLEAN /\ (requests => ~pending /\ ~active)
      BY DEF Joins
    <3> QED
      BY <3>1, <3>2, ReceivedOwned, RequestCycles, Zenon
  <2> QED
    BY <1>3, <2>1, <2>2, <2>3, SMTT(30) DEF AdvanceOpen
<1> QED
  BY <1>1, <1>2, <1>3 DEF Advance

(* advanceInventory: the next query, the commit or the next dump.          *)
LEMMA AdvanceInventoryCycles ==
  ASSUME OneResync, AdvanceInventory
  PROVE  OneResync' /\ CycleStep
<1>1. CASE NextQuery
  <2>1. active /\ UNCHANGED <<pending, candidate, active>>
    BY <1>1 DEF NextQuery, OneResync
  <2>2. Owned(job')
    BY <1>1, <2>1, Zenon DEF NextQuery, Submit, OneResync, Owned, IsJob, NoJob
  <2> QED
    BY <2>1, <2>2, NothingToCycle
<1>2. CASE Commit
  <2>1. CASE Lost
    BY <1>2, <2>1, AbortCycles, SMTT(30) DEF Commit, SyncLoss
  <2>2. CASE ~Lost
    <3>1. candidate # NoData /\ Abort(job) /\ pending' = FALSE
      BY <1>2, <2>2, SMTT(30) DEF Commit
    <3>2. OneResync'
      BY <3>1, AbortFacts, Zenon DEF OneResync, Owned, IsJob
    <3>3. CycleStep
      BY <3>1, AbortFacts, Zenon DEF OneResync, CycleStep, Cycle!Next, Cycle!Finish
    <3> QED
      BY <3>2, <3>3
  <2> QED
    BY <2>1, <2>2
<1>3. CASE StartDump
  <2>1. pending /\ pending' = FALSE /\ active' = TRUE /\ UNCHANGED candidate
    BY <1>3 DEF StartDump
  <2>2. IsJob(job') /\ job'.st # "waiting"
    BY <1>3, Zenon DEF StartDump, Submit, IsJob, NoJob
  <2>3. OneResync'
    BY <2>1, <2>2, Zenon DEF OneResync, Owned, IsJob
  <2>4. CycleStep
    BY <2>1, Zenon DEF OneResync, CycleStep, Cycle!Next, Cycle!Start
  <2> QED
    BY <2>3, <2>4
<1>4. CASE UNCHANGED <<pending, resyncVars>>
  BY <1>4, NothingToCycle DEF resyncVars, OneResync
<1> QED
  BY <1>1, <1>2, <1>3, <1>4, SMTT(30) DEF AdvanceInventory

(* Every step of the monitor is a step of the cycle or leaves it alone.    *)
LEMMA OneResyncStep ==
  ASSUME OneResync, [Next]_vars
  PROVE  OneResync' /\ CycleStep
<1>1. CASE UNCHANGED <<pending, resyncVars>>
  BY <1>1, NothingToCycle, SMTT(30) DEF resyncVars, OneResync
<1>2. ASSUME NEW k \in Keys, Change(k) PROVE UNCHANGED <<pending, resyncVars>>
  BY <1>2, SMTT(30) DEF Change
<1>3. CASE ReaderOpen \/ ReadRoute \/ ReadEthtool \/ ReaderEnds \/ ReaderReports
           \/ EventsDrained
  BY <1>1, <1>3, Zenon
     DEF ReaderOpen, ReadRoute, ReadEthtool, ReaderEnds, ReaderReports, EventsDrained
<1>4. CASE Turn
  BY <1>1, <1>4, AbortCycles, Zenon DEF Turn, StartTurn, Before, SyncLoss
<1>5. CASE UNCHANGED vars
  BY <1>1, <1>5, SMTT(30) DEF vars
<1> QED
  BY <1>1, <1>2, <1>3, <1>4, <1>5, ExecutorCycles, HandleEventCycles, AdvanceCycles,
     AdvanceInventoryCycles, SMTT(30) DEF Next

(* The reconciler is the resynchronisation cycle on which the lifecycle's  *)
(* proofs rest: a request joins the one that is wanted or under way, one   *)
(* that is given up by a loss or a failure is wanted again, and only one   *)
(* that was under way commits.                                             *)
THEOREM Refinement == Spec => ImplementsResyncCycle
<1>1. Init => OneResync
  <2> SUFFICES ASSUME Init PROVE OneResync
    OBVIOUS
  <2>1. pending = TRUE /\ active = FALSE /\ job = NoJob /\ candidate = NoData
    BY DEF Init
  <2>2. Owned(job)
    BY <2>1 DEF Owned, IsJob, NoJob
  <2> QED
    BY <2>1, <2>2, Zenon DEF OneResync
<1>2. Init => Cycle!Init
  BY DEF Init, Cycle!Init
<1>3. OneResync /\ [Next]_vars => OneResync' /\ [Cycle!Next]_Cycle!vars
  BY OneResyncStep DEF CycleStep, Cycle!vars
<1> QED
  BY <1>1, <1>2, <1>3, PTL DEF Spec, ImplementsResyncCycle, Cycle!Spec

------------------------------------------------------------------------------
(* Sequences, as the socket, the inbox and the statuses use them.          *)

(* What Append does to a sequence, element by element.                     *)
LEMMA AppendElements ==
  ASSUME NEW S, NEW s \in Seq(S), NEW x \in S
  PROVE  /\ Append(s, x) \in Seq(S)
         /\ Len(Append(s, x)) = Len(s) + 1
         /\ \A i \in 1 .. Len(s) : Append(s, x)[i] = s[i]
         /\ Append(s, x)[Len(s) + 1] = x
OBVIOUS

(* What Tail does to a sequence, element by element.                       *)
LEMMA TailElements ==
  ASSUME NEW S, NEW s \in Seq(S), s # <<>>
  PROVE  /\ Tail(s) \in Seq(S)
         /\ Len(s) \in Nat /\ Len(s) > 0
         /\ Len(Tail(s)) = Len(s) - 1
         /\ \A i \in 1 .. Len(Tail(s)) : i + 1 \in 1 .. Len(s) /\ Tail(s)[i] = s[i + 1]
         /\ \A i \in 1 .. Len(s) : s[i] \in S
         /\ Head(s) = s[1]
OBVIOUS

(* Taking one element out leaves the others.                               *)
LEMMA WithoutElements ==
  ASSUME NEW S, NEW s \in Seq(S), NEW i \in 1 .. Len(s)
  PROVE  SubSeq(s, 1, i - 1) \o SubSeq(s, i + 1, Len(s)) \in Seq(S)
OBVIOUS

------------------------------------------------------------------------------
(* The kernel and the socket.                                              *)

World ==
  /\ kernel \in [Keys -> States] /\ changes \in Nat
  /\ socket \in Seq(Messages) /\ Len(socket) <= SocketCap
  /\ overrun \in BOOLEAN

(* A change in the kernel is sent on the socket, or the socket overruns.   *)
LEMMA ChangeWorld ==
  ASSUME World, NEW k \in Keys, Change(k)
  PROVE  World'
<1>1. changes \in Nat /\ changes' = changes + 1
  BY DEF World, Change
<1>2. PICK l \in Links :
        LET s == [link |-> l, ver |-> changes'] IN
        /\ kernel' = [kernel EXCEPT ![k] = s]
        /\ \/ UNCHANGED <<socket, overrun>>
           \/ /\ Len(socket) < SocketCap
              /\ socket' = Append(socket,
                             Message(IF l = Absent THEN "remove" ELSE "link", k, s))
              /\ UNCHANGED overrun
           \/ overrun' = TRUE /\ UNCHANGED socket
  BY Zenon DEF Change
<1> DEFINE s == [link |-> l, ver |-> changes']
           m == Message(IF l = Absent THEN "remove" ELSE "link", k, s)
<1>3. s \in States /\ m \in Messages
  BY <1>1 DEF States, Messages, Message
<1>4. kernel' \in [Keys -> States] /\ changes' \in Nat
  BY <1>1, <1>2, <1>3 DEF World
<1>5. socket' \in Seq(Messages) /\ Len(socket') <= SocketCap
  <2> HIDE DEF s, m
  <2>1. CASE Len(socket) < SocketCap /\ socket' = Append(socket, m)
    BY <1>3, <2>1, AppendElements, BoundsAssumption DEF World
  <2>2. CASE UNCHANGED socket
    BY <2>2 DEF World
  <2> QED
    BY <1>2, <2>1, <2>2, Zenon DEF s, m
<1>6. overrun' \in BOOLEAN
  BY <1>2, Zenon DEF World
<1> QED
  BY <1>4, <1>5, <1>6 DEF World

(* No other step touches the kernel, and the reader only takes             *)
(* notifications out of its socket.                                        *)
LEMMA ReadsWorld ==
  ASSUME [Next]_vars, \A k \in Keys : ~Change(k)
  PROVE  /\ UNCHANGED <<kernel, changes>>
         /\ \/ UNCHANGED <<socket, overrun>>
            \/ ReadRoute /\ socket # <<>> /\ socket' = Tail(socket) /\ UNCHANGED overrun
            \/ reader' = "ending" /\ socket' = <<>> /\ overrun' \in {overrun, FALSE}
<1> USE DEF readerVars, inboxVars, deviceVars, turnVars
<1> DEFINE Goal ==
      /\ UNCHANGED <<kernel, changes>>
      /\ \/ UNCHANGED <<socket, overrun>>
         \/ ReadRoute /\ socket # <<>> /\ socket' = Tail(socket) /\ UNCHANGED overrun
         \/ reader' = "ending" /\ socket' = <<>> /\ overrun' \in {overrun, FALSE}
<1>1. ASSUME NEW k \in Keys, Read(k) PROVE Goal
  BY <1>1, Zenon DEF Read
<1>2. CASE ReaderOpen \/ ReaderReports \/ JobEnds \/ EventsDrained \/ HandleEvent \/ Advance
           \/ AdvanceInventory
  BY <1>2, Zenon DEF ReaderOpen, ReaderReports, JobEnds, EventsDrained, HandleEvent, Advance,
     AdvanceInventory
<1>3. CASE ReadRoute
  BY <1>3, Zenon DEF ReadRoute
<1>4. CASE ReadEthtool
  BY <1>4, Zenon DEF ReadEthtool
<1>5. CASE ReaderEnds
  BY <1>5, Zenon DEF ReaderEnds
<1>6. CASE Turn
  BY <1>6, Zenon DEF Turn, StartTurn
<1>7. CASE UNCHANGED vars
  BY <1>7, Zenon DEF vars
<1> QED
  BY <1>1, <1>2, <1>3, <1>4, <1>5, <1>6, <1>7, Zenon DEF Next

(* Every step keeps the types, and the capacity of the socket.             *)
LEMMA WorldStep == World /\ [Next]_vars => World'
<1> SUFFICES ASSUME World, [Next]_vars PROVE World'
  OBVIOUS
<1>1. CASE \E k \in Keys : Change(k)
  BY <1>1, ChangeWorld, Zenon
<1>2. CASE ~\E k \in Keys : Change(k)
  <2>1. kernel' \in [Keys -> States] /\ changes' \in Nat
    BY <1>2, ReadsWorld, Zenon DEF World
  <2>2. overrun' \in BOOLEAN
    BY <1>2, ReadsWorld, Zenon DEF World
  <2>3. CASE UNCHANGED socket
    BY <2>1, <2>2, <2>3, Zenon DEF World
  <2>4. CASE socket # <<>> /\ socket' = Tail(socket)
    <3>1. socket' \in Seq(Messages) /\ Len(socket') <= SocketCap
      BY <2>4, TailElements, BoundsAssumption DEF World
    <3> QED
      BY <2>1, <2>2, <3>1, Zenon DEF World
  <2>5. CASE socket' = <<>>
    <3>1. socket' \in Seq(Messages) /\ Len(socket') <= SocketCap
      BY <2>5, BoundsAssumption
    <3> QED
      BY <2>1, <2>2, <3>1, Zenon DEF World
  <2> QED
    BY <1>2, <2>3, <2>4, <2>5, ReadsWorld, Zenon
<1> QED
  BY <1>1, <1>2

------------------------------------------------------------------------------
(* The reader's subscription.                                              *)

(* What the subscription means to the owner.  One that has ended has       *)
(* reported its loss, the events the owner believes in come from a         *)
(* subscription of its epoch, and only a running one has overrun.          *)
Subscription ==
  /\ reader \in {"none", "ending"} => readerEpoch < inboxEpoch
  /\ routeEvents => readerEpoch = epoch /\ reader # "starting"
  /\ \A i \in 1 .. Len(statuses) : statuses[i].epoch <= readerEpoch
  /\ overrun => reader = "running"

(* The reader has two statuses to report in its life, and starts again     *)
(* only once the owner has seen them.                                      *)
Reports ==
  /\ reader = "starting" => statuses = <<>>
  /\ reader \in {"running", "ending"} => Len(statuses) <= 1
  /\ reader = "none" /\ statuses # <<>> =>
       \E i \in 1 .. Len(statuses) : ~statuses[i].ready

Statuses == [epoch : Nat, ready : BOOLEAN]

Reading ==
  /\ reader \in {"none", "starting", "running", "ending"}
  /\ statuses \in Seq(Statuses) /\ Len(statuses) <= 2
  /\ Subscription /\ Reports

(* A loss that is reported puts the inbox after the subscription.          *)
LEMMA LossIsAfter ==
  ASSUME Epochs
  PROVE  AfterLoss(readerEpoch) > readerEpoch /\ AfterLoss(readerEpoch) >= inboxEpoch
BY DEF Epochs, EpochInStep, AfterLoss

(* The owner gives up the epoch: the subscription is not of it any more.   *)
LEMMA LossReading ==
  ASSUME Epochs, Reading, epoch' = epoch + 1, routeEvents' = FALSE,
         inboxEpoch' \in {inboxEpoch, epoch + 1}, UNCHANGED <<reader, readerEpoch, overrun>>,
         statuses' = statuses \/ statuses' = <<>>
  PROVE  Reading'
<1>1. CASE statuses' = statuses
  BY <1>1 DEF Reading, Subscription, Reports, Epochs, EpochInStep
<1>2. CASE statuses' = <<>>
  BY <1>2 DEF Reading, Subscription, Reports, Epochs, EpochInStep
<1> QED
  BY <1>1, <1>2

(* The reader ends its subscription and reports the loss.                  *)
LEMMA EndReading ==
  ASSUME Epochs, Reading, reader \in {"starting", "running"}, reader' = "ending",
         inboxEpoch' = AfterLoss(readerEpoch), overrun' = FALSE,
         UNCHANGED <<readerEpoch, statuses, epoch, routeEvents>>
  PROVE  Reading'
BY LossIsAfter DEF Reading, Subscription, Reports

(* push, whether it takes the event or ends the subscription.              *)
LEMMA PushReading ==
  ASSUME Epochs, Reading, reader = "running", NEW m, Push(m),
         IF reader' = "ending" THEN overrun' = FALSE ELSE UNCHANGED overrun,
         UNCHANGED <<readerEpoch, statuses, epoch, routeEvents>>
  PROVE  Reading'
<1>1. CASE reader' = "ending"
  <2>1. inboxEpoch' = AfterLoss(readerEpoch)
    BY <1>1 DEF Push, Lose
  <2> QED
    BY <1>1, <2>1, EndReading
<1>2. CASE reader' # "ending"
  <2>1. UNCHANGED <<reader, inboxEpoch, overrun>>
    BY <1>2 DEF Push
  <2> QED
    BY <2>1 DEF Reading, Subscription, Reports
<1> QED
  BY <1>1, <1>2

(* The reader reports that it is ready, then that it has ended (notify).   *)
LEMMA NotifyReading ==
  ASSUME Epochs, Reading, ReaderOpen \/ ReaderReports
  PROVE  Reading'
<1> USE DEF readerVars, inboxVars, deviceVars
<1>1. /\ statuses \in Seq(Statuses) /\ Len(statuses) <= 1
      /\ readerEpoch \in Nat
  <2>1. reader = "starting" \/ reader = "ending"
    BY Zenon DEF ReaderOpen, ReaderReports
  <2> QED
    BY <2>1 DEF Reading, Reports, Epochs
<1>2. CASE ReaderOpen
  <2> DEFINE s == [epoch |-> readerEpoch, ready |-> TRUE]
  <2>1. /\ reader = "starting" /\ reader' = "running" /\ statuses' = Append(statuses, s)
        /\ UNCHANGED <<readerEpoch, inboxEpoch, epoch, routeEvents, overrun>>
    BY <1>2 DEF ReaderOpen, Notify
  <2>2. s \in Statuses /\ s.epoch = readerEpoch
    BY <1>1 DEF Statuses
  <2> HIDE DEF s
  <2>3. /\ statuses' \in Seq(Statuses) /\ Len(statuses') = 1
        /\ \A i \in 1 .. Len(statuses') : statuses'[i].epoch <= readerEpoch
    BY <1>1, <2>1, <2>2, AppendElements DEF Reading, Subscription, Reports
  <2> QED
    BY <2>1, <2>3 DEF Reading, Subscription, Reports
<1>3. CASE ReaderReports
  <2> DEFINE s == [epoch |-> readerEpoch, ready |-> FALSE]
  <2>1. /\ reader = "ending" /\ reader' = "none" /\ statuses' = Append(statuses, s)
        /\ inboxEpoch' = AfterLoss(readerEpoch)
        /\ UNCHANGED <<readerEpoch, epoch, routeEvents, overrun>>
    BY <1>3 DEF ReaderReports, Notify
  <2>2. s \in Statuses /\ s.epoch = readerEpoch /\ ~s.ready
    BY <1>1 DEF Statuses
  <2> HIDE DEF s
  <2>3. /\ statuses' \in Seq(Statuses) /\ Len(statuses') <= 2
        /\ \A i \in 1 .. Len(statuses') : statuses'[i].epoch <= readerEpoch
        /\ \E i \in 1 .. Len(statuses') : ~statuses'[i].ready
    BY <1>1, <2>1, <2>2, AppendElements DEF Reading, Subscription, Reports
  <2> QED
    BY <2>1, <2>3, LossIsAfter DEF Reading, Subscription, Reports
<1> QED
  BY <1>2, <1>3

(* before: the statuses are consumed, and one that says ready opens the    *)
(* owner's events only when it is of its epoch.                            *)
LEMMA TurnReading ==
  ASSUME Epochs, Reading, routeEvents \in BOOLEAN, Turn
  PROVE  Reading'
<1> USE DEF readerVars, inboxVars, deviceVars
<1>1. Before /\ UNCHANGED <<reader, readerEpoch, inboxEpoch, overrun>>
  BY Zenon DEF Turn, StartTurn
<1>2. CASE Lost
  BY <1>1, <1>2, LossReading, Zenon DEF Before, SyncLoss
<1>3. CASE ~Lost
  <2>1. /\ statuses' = <<>> /\ UNCHANGED epoch
        /\ routeEvents' = (routeEvents \/ \E i \in 1 .. Len(statuses) :
                             statuses[i] = [epoch |-> epoch, ready |-> TRUE])
    BY <1>1, <1>3, Zenon DEF Before
  <2>2. CASE routeEvents' /\ ~routeEvents
    <3>1. PICK i \in 1 .. Len(statuses) : statuses[i] = [epoch |-> epoch, ready |-> TRUE]
      BY <2>1, <2>2, Zenon
    <3>2. statuses[i].epoch = epoch /\ statuses # <<>>
      BY <3>1 DEF Reading
    <3>3. readerEpoch = epoch /\ reader # "starting"
      BY <3>2 DEF Reading, Subscription, Reports, Epochs
    <3> QED
      BY <1>1, <2>1, <3>3 DEF Reading, Subscription, Reports
  <2>3. CASE ~routeEvents' \/ routeEvents
    <3>1. routeEvents' => routeEvents
      BY <2>3, Zenon
    <3>2. statuses' = <<>> /\ UNCHANGED <<epoch, reader, readerEpoch, inboxEpoch, overrun>>
      BY <1>1, <2>1
    <3> QED
      BY <3>1, <3>2 DEF Reading, Subscription, Reports
  <2> QED
    BY <2>2, <2>3, Zenon
<1> QED
  BY <1>2, <1>3

(* subscribe: the last reader has ended and its report was consumed.       *)
LEMMA SubscribeReading ==
  ASSUME Epochs, Reading, ~routeEvents, Subscribe,
         UNCHANGED <<inboxEpoch, epoch, routeEvents, overrun, statuses>>
  PROVE  Reading'
<1>1. reader = "none" /\ statuses = <<>>
  BY DEF Subscribe, EventsBusy, Reading, Reports
<1>2. reader' = "starting" /\ readerEpoch' = epoch
  BY DEF Subscribe
<1> QED
  BY <1>1, <1>2 DEF Reading, Subscription, Reports

(* Every step keeps what the subscription means.                           *)
LEMMA ReadingStep ==
  ASSUME Epochs, Reading, routeEvents \in BOOLEAN, [Next]_vars
  PROVE  Reading'
<1> USE DEF readerVars, inboxVars, deviceVars
<1>0. ASSUME UNCHANGED <<reader, readerEpoch, statuses, inboxEpoch, epoch, routeEvents, overrun>>
      PROVE  Reading'
  BY <1>0 DEF Reading, Subscription, Reports
<1>1. ASSUME NEW k \in Keys, Change(k) PROVE Reading'
  <2>1. /\ UNCHANGED <<reader, readerEpoch, statuses, inboxEpoch, epoch, routeEvents>>
        /\ overrun' = overrun \/ reader = "running"
    BY <1>1, Zenon DEF Change
  <2> QED
    BY <2>1 DEF Reading, Subscription, Reports
<1>2. ASSUME NEW k \in Keys, Read(k) PROVE Reading'
  BY <1>0, <1>2, Zenon DEF Read
<1>3. CASE JobEnds \/ EventsDrained
  BY <1>0, <1>3, Zenon DEF JobEnds, EventsDrained
<1>4. CASE ReaderOpen \/ ReaderReports
  BY <1>4, NotifyReading
<1>5. CASE ReadRoute
  <2>1. /\ reader = "running" /\ Push(Head(socket)) /\ ~overrun /\ UNCHANGED overrun
        /\ UNCHANGED <<readerEpoch, statuses, epoch, routeEvents>>
    BY <1>5, Zenon DEF ReadRoute
  <2>2. CASE overrun = FALSE
    BY <2>1, <2>2, PushReading, Zenon
  <2>3. CASE overrun # FALSE
    <3>1. overrun' # FALSE /\ ~overrun'
      BY <2>1, <2>3, Zenon
    <3>2. CASE reader' # "ending"
      BY <2>1, <3>2, PushReading, Zenon
    <3>3. CASE reader' = "ending"
      <4>1. inboxEpoch' = AfterLoss(readerEpoch)
        BY <2>1, <3>3 DEF Push, Lose
      <4> QED
        BY <2>1, <3>1, <3>3, <4>1, LossIsAfter DEF Reading, Subscription, Reports
    <3> QED
      BY <3>2, <3>3
  <2> QED
    BY <2>2, <2>3, Zenon
<1>6. CASE ReadEthtool
  <2>1. PICK m : Push(m)
    BY <1>6, Zenon DEF ReadEthtool
  <2>2. /\ reader = "running"
        /\ IF reader' = "ending" THEN overrun' = FALSE ELSE UNCHANGED overrun
        /\ UNCHANGED <<readerEpoch, statuses, epoch, routeEvents>>
    BY <1>6, Zenon DEF ReadEthtool
  <2> QED
    BY <2>1, <2>2, PushReading, Zenon
<1>7. CASE ReaderEnds
  BY <1>7, EndReading, Zenon DEF ReaderEnds, Lose
<1>8. CASE Turn
  BY <1>8, TurnReading
<1>9. CASE HandleEvent
  <2>1. UNCHANGED <<reader, readerEpoch, overrun, statuses>>
    BY <1>9, Zenon DEF HandleEvent
  <2>2. \/ UNCHANGED <<inboxEpoch, epoch, routeEvents>>
        \/ /\ epoch' = epoch + 1 /\ routeEvents' = FALSE
           /\ inboxEpoch' \in {inboxEpoch, AfterLoss(epoch)}
    BY <1>9, Zenon DEF HandleEvent, SyncLoss, Apply, Invalid, Lose
  <2> QED
    BY <1>0, <2>1, <2>2, LossInStep, LossReading, Zenon DEF Epochs
<1>10. CASE Advance
  <2>0. UNCHANGED <<overrun, statuses>>
    BY <1>10, Zenon DEF Advance
  <2>1. CASE AdvanceLost
    <3>1. /\ epoch' = epoch + 1 /\ routeEvents' = FALSE
          /\ inboxEpoch' = AfterLoss(epoch) /\ UNCHANGED <<reader, readerEpoch>>
      BY <2>1, Zenon DEF AdvanceLost, Lose, SyncLoss
    <3> QED
      BY <2>0, <3>1, LossInStep, LossReading, Zenon DEF Epochs
  <2>2. CASE AdvanceClosed
    <3>1. ~routeEvents /\ UNCHANGED <<inboxEpoch, epoch, routeEvents>>
      BY <2>2, Zenon DEF AdvanceClosed
    <3>2. Subscribe \/ UNCHANGED <<reader, readerEpoch>>
      BY <2>2, Zenon DEF AdvanceClosed
    <3> QED
      BY <1>0, <2>0, <3>1, <3>2, SubscribeReading, Zenon
  <2>3. ASSUME NEW asked \in BOOLEAN, AdvanceOpen(asked) PROVE Reading'
    BY <1>0, <2>0, <2>3, Zenon DEF AdvanceOpen
  <2> QED
    BY <1>10, <2>1, <2>2, <2>3, Zenon DEF Advance
<1>11. CASE AdvanceInventory
  <2>1. UNCHANGED <<reader, readerEpoch, overrun, statuses, inboxEpoch>>
    BY <1>11, Zenon DEF AdvanceInventory
  <2>2. \/ UNCHANGED <<epoch, routeEvents>>
        \/ epoch' = epoch + 1 /\ routeEvents' = FALSE
    BY <1>11, Zenon DEF AdvanceInventory, NextQuery, Commit, StartDump, SyncLoss
  <2> QED
    BY <1>0, <2>1, <2>2, LossReading, Zenon
<1>12. CASE UNCHANGED vars
  BY <1>0, <1>12, Zenon DEF vars
<1> QED
  BY <1>1, <1>2, <1>3, <1>4, <1>5, <1>6, <1>7, <1>8, <1>9, <1>10, <1>11, <1>12, Zenon DEF Next

------------------------------------------------------------------------------
(* The inbox and the owner's turn.                                         *)

Items == [msg : Messages, epoch : Nat]

Inboxing ==
  /\ inbox \in Seq(Items) /\ Len(inbox) <= InboxCap
  /\ wake \in BOOLEAN

Turning ==
  /\ pc \in {"wait", "events", "advance", "inventory"}
  /\ handled \in Nat
  /\ due \in {"none", "subscribe", "reconnect", "resync", "retry"}
  /\ future \subseteq {"reconnect", "retry"}
  /\ routeEvents \in BOOLEAN
  /\ resyncEpoch \in Nat /\ ahead \in Nat /\ faults \in Nat

(* push takes an event only while there is room.                           *)
LEMMA PushInboxing ==
  ASSUME Epochs, Inboxing, NEW m \in Messages, Push(m)
  PROVE  Inboxing'
<1>1. CASE inbox' = inbox /\ Lose(readerEpoch)
  <2>1. wake' \in BOOLEAN
    BY <1>1, Zenon DEF Lose
  <2> QED
    BY <1>1, <2>1 DEF Inboxing
<1>2. CASE /\ Len(inbox) < InboxCap /\ UNCHANGED wake
           /\ inbox' = Append(inbox, [msg |-> m, epoch |-> readerEpoch])
  <2>1. [msg |-> m, epoch |-> readerEpoch] \in Items
    BY DEF Items, Epochs
  <2>2. inbox' \in Seq(Items) /\ Len(inbox') <= InboxCap
    BY <1>2, <2>1, AppendElements, BoundsAssumption DEF Inboxing
  <2> QED
    BY <1>2, <2>2 DEF Inboxing
<1> QED
  BY <1>1, <1>2, Zenon DEF Push

(* Every step keeps the types, and the capacity of the inbox.              *)
LEMMA InboxingStep ==
  ASSUME Epochs, World, Inboxing, [Next]_vars
  PROVE  Inboxing'
<1> USE DEF readerVars, inboxVars, deviceVars
<1>0. ASSUME UNCHANGED inbox, wake' \in BOOLEAN PROVE Inboxing'
  BY <1>0, Zenon DEF Inboxing
<1>1. wake \in BOOLEAN
  BY DEF Inboxing
<1>2. ASSUME NEW k \in Keys, Change(k) \/ Read(k) PROVE Inboxing'
  BY <1>0, <1>1, <1>2, Zenon DEF Change, Read
<1>3. CASE ReaderOpen \/ ReaderReports \/ JobEnds \/ EventsDrained
  BY <1>0, <1>1, <1>3, Zenon DEF ReaderOpen, ReaderReports, JobEnds, EventsDrained
<1>4. CASE ReadRoute
  <2>1. Head(socket) \in Messages
    BY <1>4, TailElements DEF ReadRoute, World
  <2> QED
    BY <1>4, <2>1, PushInboxing, Zenon DEF ReadRoute
<1>5. CASE ReadEthtool
  <2>1. PICK m \in {Message("refresh", k, Unknown) : k \in Keys}
                     \cup {Message("resync", NoKey, Unknown)} : Push(m)
    BY <1>5, Zenon DEF ReadEthtool
  <2>2. m \in Messages
    BY <2>1 DEF Messages, Message, Unknown, States, Links
  <2> QED
    BY <2>1, <2>2, PushInboxing
<1>6. CASE ReaderEnds
  BY <1>0, <1>6, Zenon DEF ReaderEnds, Lose
<1>7. CASE Turn
  <2>1. UNCHANGED inbox /\ wake' \in BOOLEAN
    BY <1>1, <1>7, Zenon DEF Turn, StartTurn, WokenBy
  <2> QED
    BY <1>0, <2>1
<1>8. CASE HandleEvent
  <2>1. inbox # <<>> /\ inbox' = Tail(inbox)
    BY <1>8, Zenon DEF HandleEvent
  <2>2. wake' \in BOOLEAN
    BY <1>1, <1>8, Zenon DEF HandleEvent, Apply, Invalid, Lose
  <2>3. inbox' \in Seq(Items) /\ Len(inbox') <= InboxCap
    BY <2>1, TailElements, BoundsAssumption DEF Inboxing
  <2> QED
    BY <2>2, <2>3, Zenon DEF Inboxing
<1>9. CASE Advance
  <2>1. UNCHANGED inbox /\ wake' \in BOOLEAN
    BY <1>1, <1>9, Zenon DEF Advance, AdvanceLost, AdvanceClosed, AdvanceOpen, Lose
  <2> QED
    BY <1>0, <2>1
<1>10. CASE AdvanceInventory
  BY <1>0, <1>1, <1>10, Zenon DEF AdvanceInventory
<1>11. CASE UNCHANGED vars
  BY <1>0, <1>1, <1>11, Zenon DEF vars
<1> QED
  BY <1>2, <1>3, <1>4, <1>5, <1>6, <1>7, <1>8, <1>9, <1>10, <1>11, Zenon DEF Next

(* What a step may make of the owner's turn.                               *)
TurnFacts ==
  /\ pc' \in {pc, "wait", "events", "advance", "inventory"}
  /\ handled' \in {handled, 0, handled + 1}
  /\ due' \in {due, "none", "subscribe", "reconnect", "resync", "retry"}
  /\ \/ future' = future
     \/ \E d \in {"reconnect", "retry"} : future' = future \cup {d} \/ future' = future \ {d}
  /\ routeEvents' = routeEvents \/ routeEvents' \in BOOLEAN
  /\ resyncEpoch' \in {resyncEpoch, epoch}
  /\ ahead' \in {ahead, 0, AheadAfter, ReceivedAhead}
  /\ faults' \in {faults, faults + 1}

(* The owner gives up its epoch.                                           *)
LEMMA LossTurnFacts ==
  ASSUME NEW j, SyncLoss(j)
  PROVE  /\ \E d \in {"reconnect", "retry"} : future' = future \cup {d}
         /\ routeEvents' \in BOOLEAN /\ resyncEpoch' = resyncEpoch /\ ahead' = 0
BY Zenon DEF SyncLoss, Abort

(* No step makes anything else of it.                                      *)
LEMMA EveryTurnFacts ==
  ASSUME [Next]_vars
  PROVE  TurnFacts
<1> USE DEF readerVars, inboxVars, deviceVars, turnVars, resyncVars
<1>1. ASSUME NEW k \in Keys, Change(k) \/ Read(k) PROVE TurnFacts
  BY <1>1, Zenon DEF Change, Read, TurnFacts
<1>2. CASE ReaderOpen \/ ReadRoute \/ ReaderReports \/ EventsDrained
  BY <1>2, Zenon DEF ReaderOpen, ReadRoute, ReaderReports, EventsDrained, TurnFacts
<1>3. CASE ReadEthtool \/ ReaderEnds \/ JobEnds
  BY <1>3, Zenon DEF ReadEthtool, ReaderEnds, JobEnds, Fault, TurnFacts
<1>4. CASE Turn
  <2>1. PICK d \in {"none", "subscribe", "reconnect", "resync", "retry"} : StartTurn(d)
    BY <1>4, Zenon DEF Turn
  <2>2. pc' = "events" /\ handled' = 0 /\ due' = d /\ faults' \in {faults, faults + 1}
    BY <2>1, Zenon DEF StartTurn, WokenBy, Fault
  <2>3. CASE Lost
    BY <2>1, <2>2, <2>3, LossTurnFacts, Zenon DEF StartTurn, Before, TurnFacts
  <2>4. CASE ~Lost
    BY <2>1, <2>2, <2>4, Zenon DEF StartTurn, Before, TurnFacts
  <2> QED
    BY <2>3, <2>4
<1>5. CASE HandleEvent
  <2>1. UNCHANGED <<pc, due>> /\ handled' = handled + 1
    BY <1>5, Zenon DEF HandleEvent
  <2>2. CASE Lost /\ SyncLoss(job) /\ UNCHANGED faults
    BY <2>1, <2>2, LossTurnFacts, Zenon DEF TurnFacts
  <2>3. CASE ahead' = AheadAfter /\ UNCHANGED <<future, routeEvents, resyncEpoch, faults>>
    BY <2>1, <2>3, Zenon DEF TurnFacts
  <2>4. CASE Apply(Head(inbox).msg)
    BY <2>1, <2>4, Zenon DEF Apply, Abort, TurnFacts
  <2>5. CASE Invalid
    BY <2>1, <2>5, LossTurnFacts, Zenon DEF Invalid, Fault, TurnFacts
  <2> QED
    BY <1>5, <2>2, <2>3, <2>4, <2>5, Zenon DEF HandleEvent
<1>6. CASE Advance
  <2>1. /\ UNCHANGED <<handled, faults>>
        /\ due' \in {due, "none"}
    BY <1>6, Zenon DEF Advance
  <2>2. CASE AdvanceLost
    BY <2>1, <2>2, LossTurnFacts, Zenon DEF AdvanceLost, TurnFacts
  <2>3. CASE AdvanceClosed
    BY <2>1, <2>3, Zenon DEF AdvanceClosed, Subscribe, TurnFacts
  <2>4. ASSUME NEW asked \in BOOLEAN, AdvanceOpen(asked) PROVE TurnFacts
    <3>1. UNCHANGED <<routeEvents, resyncEpoch>>
      BY <2>4, Zenon DEF AdvanceOpen
    <3>2. CASE Fail
      BY <2>1, <3>1, <3>2, Zenon DEF Fail, Abort, TurnFacts
    <3>3. CASE AcceptDump \/ AcceptQuery
      BY <2>1, <3>1, <3>3, Zenon DEF AcceptDump, AcceptQuery, TurnFacts
    <3>4. ASSUME NEW r, AcceptNothing(r) PROVE TurnFacts
      BY <2>1, <3>1, <3>4, Zenon DEF AcceptNothing, TurnFacts
    <3> QED
      BY <2>4, <3>2, <3>3, <3>4, Zenon DEF AdvanceOpen
  <2> QED
    BY <1>6, <2>2, <2>3, <2>4, Zenon DEF Advance
<1>7. CASE AdvanceInventory
  <2>1. UNCHANGED <<handled, faults>> /\ due' = "none" /\ pc' = "wait"
    BY <1>7, Zenon DEF AdvanceInventory
  <2>2. CASE NextQuery \/ StartDump
    BY <2>1, <2>2, Zenon DEF NextQuery, StartDump, TurnFacts
  <2>3. CASE SyncLoss(job)
    BY <2>1, <2>3, LossTurnFacts, Zenon DEF TurnFacts
  <2>4. CASE Commit /\ ~Lost
    BY <2>1, <2>4, Zenon DEF Commit, Abort, TurnFacts
  <2>5. CASE UNCHANGED <<future, deviceVars, pending, resyncVars>>
    BY <2>1, <2>5, Zenon DEF TurnFacts
  <2> QED
    BY <1>7, <2>2, <2>3, <2>4, <2>5, Zenon DEF AdvanceInventory, Commit
<1>8. CASE UNCHANGED vars
  BY <1>8, Zenon DEF vars, TurnFacts
<1> QED
  BY <1>1, <1>2, <1>3, <1>4, <1>5, <1>6, <1>7, <1>8, Zenon DEF Next

(* Every step keeps the types of the owner's turn.                         *)
LEMMA TurningStep ==
  ASSUME Epochs, Inboxing, Turning, [Next]_vars
  PROVE  Turning'
<1> USE EveryTurnFacts DEF TurnFacts
<1>1. handled' \in Nat /\ faults' \in Nat /\ resyncEpoch' \in Nat
  BY DEF Turning, Epochs
<1>2. ahead' \in Nat
  BY DEF Turning, Inboxing, AheadAfter, ReceivedAhead
<1>3. future' \subseteq {"reconnect", "retry"}
  BY Zenon DEF Turning
<1>4. routeEvents' \in BOOLEAN
  BY Zenon DEF Turning
<1>5. /\ pc' \in {"wait", "events", "advance", "inventory"}
      /\ due' \in {"none", "subscribe", "reconnect", "resync", "retry"}
  BY Zenon DEF Turning
<1> QED
  BY <1>1, <1>2, <1>3, <1>4, <1>5, Zenon DEF Turning

------------------------------------------------------------------------------
(* What the owner holds: the inventory, the request and the candidate.     *)

(* A request's data is about devices.  A query asks for one device and     *)
(* answers for it, and a dump that has ended without an error has every    *)
(* device.                                                                 *)
Shaped(j) ==
  /\ DOMAIN j.data \subseteq Keys /\ j \in Jobs(DOMAIN j.data)
  /\ j.current /\ j.query => j.key \in Keys /\ DOMAIN j.data \subseteq {j.key}
  /\ j.current /\ j.st \in {"done", "waiting"} /\ ~j.err =>
       DOMAIN j.data = IF j.query THEN {j.key} ELSE Keys

Holding ==
  /\ inventory \in [Keys -> States]
  /\ Shaped(job)
  /\ job.current /\ job.query => candidate # NoData
  /\ candidate \in [Keys -> States] \cup {NoData}
  /\ dirty \subseteq Keys /\ queries \in Seq(Keys)

(* Without events nothing is under way and a resynchronisation is wanted.  *)
Disconnected ==
  /\ ~routeEvents => pending /\ ~active /\ candidate = NoData /\ ~job.current
  /\ pc = "inventory" => routeEvents

(* There is no request.                                                    *)
LEMMA NoJobShaped ==
  ASSUME NEW s \in {"none", "run", "done"}
  PROVE  /\ Shaped([NoJob EXCEPT !.st = s])
         /\ [NoJob EXCEPT !.st = s].current = FALSE
         /\ [NoJob EXCEPT !.st = s].data = NoData
         /\ Shaped(NoJob) /\ NoJob.current = FALSE /\ NoJob.data = NoData
<1>1. DOMAIN NoData = {} /\ NoData \in [{} -> States]
  BY DEF NoData
<1>2. /\ [NoJob EXCEPT !.st = s].current = FALSE
      /\ [NoJob EXCEPT !.st = s].data = NoData
      /\ NoJob.current = FALSE /\ NoJob.data = NoData
  BY DEF NoJob
<1>3. [NoJob EXCEPT !.st = s] \in Jobs({}) /\ NoJob \in Jobs({})
  BY <1>1, Zenon DEF NoJob, Jobs
<1> QED
  BY <1>1, <1>2, <1>3 DEF Shaped

(* submit: a new request has read nothing.                                 *)
LEMMA SubmitShaped ==
  ASSUME NEW q \in BOOLEAN, NEW k \in Keys \cup {NoKey}, q => k \in Keys, Submit(q, k)
  PROVE  /\ Shaped(job')
         /\ job'.current = TRUE /\ job'.query = q /\ job'.key = k /\ job'.stale = FALSE
         /\ job'.data = NoData /\ DOMAIN job'.data = {}
<1>1. DOMAIN NoData = {} /\ NoData \in [{} -> States]
  BY DEF NoData
<1>2. job' = [st |-> "run", current |-> TRUE, query |-> q, key |-> k,
              stale |-> FALSE, data |-> NoData, err |-> FALSE]
  BY Zenon DEF Submit, NoJob
<1>3. /\ job'.current = TRUE /\ job'.query = q /\ job'.key = k /\ job'.stale = FALSE
      /\ job'.data = NoData /\ job'.st = "run"
  BY <1>2
<1>4. job' \in Jobs({})
  BY <1>1, <1>2 DEF Jobs
<1> QED
  BY <1>1, <1>3, <1>4 DEF Shaped

(* abort leaves nothing that was read.                                     *)
LEMMA AbortHolds ==
  ASSUME NEW j, Abort(j)
  PROVE  /\ Shaped(job') /\ job'.current = FALSE /\ job'.data = NoData
         /\ candidate' = NoData /\ active' = FALSE /\ dirty' = {} /\ queries' = <<>>
<1>1. \/ job' = NoJob
      \/ \E s \in {"none", "run", "done"} : job' = [NoJob EXCEPT !.st = s]
  BY Zenon DEF Abort
<1>2. candidate' = NoData /\ active' = FALSE /\ dirty' = {} /\ queries' = <<>>
  BY Zenon DEF Abort
<1> QED
  BY <1>1, <1>2, NoJobShaped, Zenon

(* Whatever is aborted, the rest is as it should be.                       *)
LEMMA AbortHolding ==
  ASSUME Holding, NEW j, Abort(j), inventory' \in [Keys -> States]
  PROVE  Holding'
<1>1. queries' = <<>> /\ dirty' = {}
  BY AbortHolds, Zenon
<1>2. queries' \in Seq(Keys) /\ dirty' \subseteq Keys
  BY <1>1
<1> QED
  BY <1>2, AbortHolds, Zenon DEF Holding

(* The request that leaves the executor is what it was.                    *)
LEMMA ReceivedShaped ==
  ASSUME Shaped(job)
  PROVE  /\ Shaped(Received)
         /\ Received.current => Received = job \/ Received = [job EXCEPT !.st = "waiting"]
         /\ Received.current => job.current
         /\ Received.current => /\ Received.query = job.query /\ Received.key = job.key
                                /\ Received.data = job.data /\ Received.stale = job.stale
                                /\ Received.err = job.err
<1>1. CASE job.st # "done"
  BY <1>1 DEF Received
<1>2. CASE job.st = "done" /\ ~job.current
  BY <1>2, NoJobShaped, Zenon DEF Received
<1>3. CASE job.st = "done" /\ job.current
  <2>1. Received = [job EXCEPT !.st = "waiting"] /\ job \in Jobs(DOMAIN job.data)
    BY <1>3 DEF Received, Shaped
  <2>2. Received \in Jobs(DOMAIN job.data)
    BY <2>1 DEF Jobs
  <2>3. /\ Received.query = job.query /\ Received.key = job.key
        /\ Received.data = job.data /\ Received.stale = job.stale
        /\ Received.err = job.err /\ Received.current = job.current
    BY <2>1 DEF Jobs
  <2> QED
    BY <1>3, <2>1, <2>2, <2>3 DEF Shaped
<1> QED
  BY <1>1, <1>2, <1>3

(* A dump or a query reads one device more.                                *)
LEMMA ReadShaped ==
  ASSUME Holding, World, NEW k \in Keys, Read(k)
  PROVE  /\ Shaped(job')
         /\ job.current = TRUE
         /\ job'.query = job.query /\ job'.current = job.current /\ job'.key = job.key
         /\ job'.stale = job.stale
         /\ DOMAIN job'.data = DOMAIN job.data \cup {k}
         /\ \A x \in DOMAIN job'.data :
              job'.data[x] = IF x = k THEN kernel[k] ELSE job.data[x]
<1> DEFINE D == DOMAIN job.data \cup {k}
           d == [x \in D |-> IF x = k THEN kernel[k] ELSE job.data[x]]
           s == IF job.query \/ DOMAIN d = Keys THEN "done" ELSE "run"
<1>1. /\ job.st = "run" /\ job.current
      /\ IF job.query THEN k = job.key ELSE k \notin DOMAIN job.data
      /\ job' = [job EXCEPT !.data = d, !.st = s]
  BY DEF Read
<1>2. /\ DOMAIN job.data \subseteq Keys /\ job \in Jobs(DOMAIN job.data)
      /\ job.data \in [DOMAIN job.data -> States]
  BY DEF Holding, Shaped, Jobs
<1>3. DOMAIN d = D /\ d \in [D -> States] /\ s \in {"run", "done"} /\ D \subseteq Keys
  BY <1>2 DEF World
<1>4. s = "done" => job.query \/ D = Keys
  BY <1>3
<1>5. \A x \in D : d[x] = IF x = k THEN kernel[k] ELSE job.data[x]
  OBVIOUS
<1> HIDE DEF d, s
<1>6. /\ job' \in Jobs(D) /\ job'.data = d /\ job'.st = s
      /\ job'.query = job.query /\ job'.current = job.current /\ job'.key = job.key
      /\ job'.stale = job.stale
  BY <1>1, <1>2, <1>3, Zenon DEF Jobs
<1>7. job.current = TRUE
  BY <1>1, <1>2 DEF Jobs
<1>8. job.query => job.key = k /\ DOMAIN job.data \subseteq {k} /\ D = {k}
  BY <1>1, <1>7 DEF Holding, Shaped
<1>9. Shaped(job')
  BY <1>3, <1>4, <1>6, <1>8 DEF Shaped
<1> QED
  BY <1>3, <1>5, <1>6, <1>7, <1>9, Zenon

(* A dump or a query that fails has nothing, and one that was canceled     *)
(* keeps nothing that could be accepted.                                   *)
LEMMA JobEndsShaped ==
  ASSUME Holding, JobEnds
  PROVE  /\ Shaped(job')
         /\ job'.query = job.query /\ job'.current = job.current /\ job'.key = job.key
         /\ job'.stale = job.stale
         /\ job'.data = job.data \/ job'.data = NoData
<1>1. /\ DOMAIN job.data \subseteq Keys /\ job \in Jobs(DOMAIN job.data)
  BY DEF Holding, Shaped
<1>2. CASE job.current
  <2>1. job' = [job EXCEPT !.st = "done", !.data = NoData, !.err = TRUE]
    BY <1>2 DEF JobEnds
  <2>2. DOMAIN NoData = {} /\ NoData \in [{} -> States]
    BY DEF NoData
  <2>3. /\ job' \in Jobs({}) /\ job'.err = TRUE /\ job'.data = NoData
        /\ job'.query = job.query /\ job'.current = job.current /\ job'.key = job.key
        /\ job'.stale = job.stale
    BY <1>1, <2>1, <2>2, Zenon DEF Jobs
  <2> QED
    BY <2>2, <2>3, <1>1 DEF Shaped, Holding
<1>3. CASE ~job.current
  <2>1. job' = [job EXCEPT !.st = "done"]
    BY <1>3 DEF JobEnds
  <2>2. /\ job' \in Jobs(DOMAIN job.data) /\ job'.data = job.data
        /\ job'.query = job.query /\ job'.current = job.current /\ job'.key = job.key
        /\ job'.stale = job.stale
    BY <1>1, <2>1 DEF Jobs
  <2> QED
    BY <1>1, <1>3, <2>2 DEF Shaped
<1> QED
  BY <1>2, <1>3

(* markDirty: a device that is noted waits for a query.                    *)
LEMMA MarkDirtyHolds ==
  ASSUME Holding, NEW k \in Keys, MarkDirty(k)
  PROVE  /\ dirty' = dirty \cup {k} /\ dirty' \subseteq Keys
         /\ queries' \in Seq(Keys)
<1>1. dirty' = dirty \cup {k} /\ dirty' \subseteq Keys
  BY DEF MarkDirty, Holding
<1>2. queries' = queries \/ queries' = Append(queries, k)
  BY Zenon DEF MarkDirty
<1>3. queries' \in Seq(Keys)
  BY <1>2, AppendElements DEF Holding
<1> QED
  BY <1>1, <1>3

(* Taking a device out of the queue leaves a queue.                        *)
LEMMA UnqueuedHolds ==
  ASSUME Holding, NEW k
  PROVE  Unqueued(k) \in Seq(Keys)
<1>1. queries \in Seq(Keys)
  BY DEF Holding
<1>2. CASE k \in Range(queries)
  <2>1. \E i \in 1 .. Len(queries) : queries[i] = k
    BY <1>1, <1>2 DEF Range
  <2>2. (CHOOSE i \in 1 .. Len(queries) : queries[i] = k) \in 1 .. Len(queries)
    BY <2>1, Zenon
  <2>3. PICK i \in 1 .. Len(queries) :
             Unqueued(k) = SubSeq(queries, 1, i - 1) \o SubSeq(queries, i + 1, Len(queries))
    BY <1>2, <2>2, Zenon DEF Unqueued
  <2> QED
    BY <1>1, <2>3, WithoutElements, Zenon
<1>3. CASE k \notin Range(queries)
  BY <1>1, <1>3, Zenon DEF Unqueued
<1> QED
  BY <1>2, <1>3

(* An event that is not the request for a resynchronisation is about a     *)
(* device, and carries a state that was the device's once.                 *)
Known(m) ==
  \/ m.kind = "resync"
  \/ m.key \in Keys /\ m.state.ver <= kernel[m.key].ver

(* What an event makes of its device is a state.                           *)
LEMMA AppliedIsState ==
  ASSUME Holding, NEW m \in Messages, m.key \in Keys
  PROVE  Applied(m) \in States /\ Applied(m) \in {m.state, inventory[m.key]}
<1>0. m.state \in States
  BY DEF Messages
<1>1. m.state \in States /\ inventory[m.key] \in States
  BY <1>0, Zenon DEF Holding
<1>2. Applied(m) \in {m.state, inventory[m.key]}
  BY Zenon DEF Applied
<1> QED
  BY <1>1, <1>2, Zenon

(* An event changes what is noted of its request at most.                  *)
LEMMA StaleShaped ==
  ASSUME Shaped(job), NEW b,
         job' = [job EXCEPT !.stale = @ \/ b]
  PROVE  /\ Shaped(job')
         /\ job'.query = job.query /\ job'.current = job.current /\ job'.key = job.key
         /\ job'.data = job.data /\ job'.st = job.st
         /\ (job'.stale <=> job.stale \/ b)
<1>1. /\ job \in Jobs(DOMAIN job.data)
      /\ (job.stale \/ b) \in BOOLEAN
  BY DEF Shaped
<1> DEFINE v == job.stale \/ b
<1>2. job' = [job EXCEPT !.stale = v]
  OBVIOUS
<1>3. v \in BOOLEAN
  BY <1>1
<1> HIDE DEF v
<1>4. /\ job' \in Jobs(DOMAIN job.data) /\ job'.stale = v
      /\ job'.query = job.query /\ job'.current = job.current /\ job'.key = job.key
      /\ job'.data = job.data /\ job'.st = job.st /\ job'.err = job.err
  BY <1>1, <1>2, <1>3 DEF Jobs
<1>5. Shaped(job')
  BY <1>4 DEF Shaped
<1> QED
  BY <1>4, <1>5, Zenon DEF v

------------------------------------------------------------------------------
(* reconciler.event leaves what the owner holds in its shape.              *)
LEMMA ApplyHolding ==
  ASSUME Holding, NEW m \in Messages, Known(m), Apply(m)
  PROVE  Holding'
<1>1. CASE m.kind = "resync"
  <2>1. Abort(job) /\ inventory' \in [Keys -> States]
    BY <1>1 DEF Apply, Holding
  <2> QED
    BY <2>1, AbortHolding
<1>2. CASE m.kind # "resync"
  <2>1. m.key \in Keys
    BY <1>2 DEF Known
  <2>2. /\ inventory' = [inventory EXCEPT ![m.key] = Applied(m)]
        /\ IF active THEN MarkDirty(m.key) ELSE UNCHANGED <<dirty, queries>>
        /\ job' = [job EXCEPT !.stale = @ \/ (job.query /\ job.key = m.key)]
        /\ UNCHANGED candidate
    BY <1>2, Zenon DEF Apply
  <2>3. inventory' \in [Keys -> States]
    BY <2>1, <2>2, AppliedIsState DEF Holding
  <2>4. dirty' \subseteq Keys /\ queries' \in Seq(Keys)
    BY <2>1, <2>2, MarkDirtyHolds, Zenon DEF Holding
  <2>5. Shaped(job') /\ job'.current = job.current /\ job'.query = job.query
    BY <2>2, StaleShaped, Zenon DEF Holding
  <2> QED
    BY <2>2, <2>3, <2>4, <2>5, Zenon DEF Holding
<1> QED
  BY <1>1, <1>2

(* A result that is accepted is a dump of every device, or the answer to   *)
(* the query of one.                                                       *)
LEMMA AcceptedData ==
  ASSUME OneResync, Holding, Accepts, ~job.err
  PROVE  /\ job.current
         /\ DOMAIN job.data = IF job.query THEN {job.key} ELSE Keys
         /\ job.data \in [DOMAIN job.data -> States]
         /\ job.query => job.key \in Keys /\ candidate \in [Keys -> States]
<1>1. job.current
  BY ReceivedOwned
<1>2. job.st \in {"done", "waiting"}
  BY DEF Accepts, Received
<1>3. job.data \in [DOMAIN job.data -> States]
  BY DEF Holding, Shaped, Jobs
<1> QED
  BY <1>1, <1>2, <1>3 DEF Holding, Shaped

(* acceptResult.                                                           *)
LEMMA AcceptHolding ==
  ASSUME OneResync, Holding, UNCHANGED inventory, AcceptDump \/ AcceptQuery
  PROVE  Holding'
<1>0. Accepts /\ job' = NoJob
  BY Zenon DEF AcceptDump, AcceptQuery
<1>1. Shaped(job') /\ ~job'.current
  BY <1>0, NoJobShaped, Zenon
<1>2. CASE AcceptDump
  <2>1. ~job.query /\ ~job.err /\ candidate' = job.data /\ UNCHANGED <<dirty, queries>>
    BY <1>2, Zenon DEF AcceptDump
  <2>2. candidate' \in [Keys -> States]
    BY <1>0, <2>1, AcceptedData
  <2> QED
    BY <1>1, <2>1, <2>2, Zenon DEF Holding
<1>3. CASE AcceptQuery
  <2>1. CASE job.stale
    <3>1. job.query /\ MarkDirty(job.key) /\ UNCHANGED candidate
      BY <1>3, <2>1, Zenon DEF AcceptQuery
    <3>2. job.key \in Keys
      BY <1>0, <3>1, ReceivedOwned DEF Holding, Shaped
    <3> QED
      BY <1>1, <3>1, <3>2, MarkDirtyHolds, Zenon DEF Holding
  <2>2. CASE ~job.stale
    <3>1. /\ job.query /\ ~job.err
          /\ candidate' = [candidate EXCEPT ![job.key] = job.data[job.key]]
          /\ dirty' = dirty \ {job.key}
          /\ queries' = Unqueued(job.key)
      BY <1>3, <2>2, Zenon DEF AcceptQuery
    <3>2. candidate' \in [Keys -> States]
      BY <1>0, <3>1, AcceptedData
    <3>3. queries' \in Seq(Keys)
      BY <3>1, UnqueuedHolds
    <3>4. dirty' \subseteq Keys
      BY <3>1 DEF Holding
    <3> QED
      BY <1>1, <3>2, <3>3, <3>4, Zenon DEF Holding
  <2> QED
    BY <2>1, <2>2
<1> QED
  BY <1>2, <1>3

(* advanceInventory: a query for a device of the queue, a commit of the    *)
(* candidate, or a dump.                                                   *)
LEMMA AdvanceInventoryHolding ==
  ASSUME Holding, AdvanceInventory
  PROVE  Holding'
<1> USE DEF deviceVars, resyncVars
<1>1. CASE NextQuery
  <2>1. candidate # NoData /\ UNCHANGED <<inventory, candidate, dirty>>
    BY <1>1, Zenon DEF NextQuery
  <2>2. CASE queries = <<>>
    BY <1>1, <2>1, <2>2, Zenon DEF NextQuery, Holding
  <2>3. CASE queries # <<>>
    <3>1. Submit(TRUE, Head(queries)) /\ queries' = Tail(queries)
      BY <1>1, <2>3, Zenon DEF NextQuery
    <3>2. Head(queries) \in Keys /\ queries' \in Seq(Keys)
      BY <2>3, <3>1, TailElements DEF Holding
    <3>3. Shaped(job')
      BY <3>1, <3>2, SubmitShaped, Zenon
    <3> QED
      BY <2>1, <3>2, <3>3, Zenon DEF Holding
  <2> QED
    BY <2>2, <2>3
<1>2. CASE Commit
  <2>1. Abort(job) /\ candidate # NoData /\ inventory' \in {inventory, candidate}
    BY <1>2, Zenon DEF Commit, SyncLoss
  <2>2. inventory' \in [Keys -> States]
    BY <2>1, Zenon DEF Holding
  <2> QED
    BY <2>1, <2>2, AbortHolding
<1>3. CASE StartDump
  <2>1. Submit(FALSE, NoKey) /\ dirty' = {} /\ UNCHANGED <<inventory, candidate, queries>>
    BY <1>3, Zenon DEF StartDump
  <2>2. Shaped(job') /\ job'.query = FALSE
    BY <2>1, SubmitShaped, Zenon
  <2> QED
    BY <2>1, <2>2, Zenon DEF Holding
<1>4. CASE UNCHANGED <<future, deviceVars, pending, resyncVars>>
  BY <1>4, Zenon DEF Holding
<1> QED
  BY <1>1, <1>2, <1>3, <1>4, Zenon DEF AdvanceInventory

(* The event that is handled next.                                         *)
LEMMA HeadOfInbox ==
  ASSUME Inboxing, inbox # <<>>
  PROVE  /\ 1 \in 1 .. Len(inbox) /\ Head(inbox) = inbox[1]
         /\ Head(inbox).msg \in Messages /\ Head(inbox).epoch \in Nat
<1>1. 1 \in 1 .. Len(inbox) /\ Head(inbox) = inbox[1] /\ inbox[1] \in Items
  BY TailElements DEF Inboxing
<1> QED
  BY <1>1 DEF Items

(* Every step keeps the types of what the owner holds.                     *)
LEMMA HoldingStep ==
  ASSUME World, Inboxing, OneResync, Holding, [Next]_vars,
         \A i \in 1 .. Len(inbox) : Known(inbox[i].msg)
  PROVE  Holding'
<1> USE DEF deviceVars, resyncVars
<1>0. inventory \in [Keys -> States]
  BY DEF Holding
<1>1. CASE UNCHANGED <<inventory, resyncVars>>
  BY <1>1, Zenon DEF Holding
<1>2. ASSUME NEW k \in Keys, Change(k) PROVE Holding'
  BY <1>1, <1>2, Zenon DEF Change
<1>3. ASSUME NEW k \in Keys, Read(k) PROVE Holding'
  <2>1. Shaped(job') /\ job'.query = job.query /\ job'.current = job.current
    BY <1>3, ReadShaped, Zenon
  <2>2. UNCHANGED <<inventory, candidate, dirty, queries>>
    BY <1>3, Zenon DEF Read
  <2> QED
    BY <2>1, <2>2, Zenon DEF Holding
<1>4. CASE JobEnds
  <2>1. Shaped(job') /\ job'.query = job.query /\ job'.current = job.current
    BY <1>4, JobEndsShaped, Zenon
  <2>2. UNCHANGED <<inventory, candidate, dirty, queries>>
    BY <1>4, Zenon DEF JobEnds
  <2> QED
    BY <2>1, <2>2, Zenon DEF Holding
<1>5. CASE ReaderOpen \/ ReadRoute \/ ReadEthtool \/ ReaderEnds \/ ReaderReports
           \/ EventsDrained
  BY <1>1, <1>5, Zenon
     DEF ReaderOpen, ReadRoute, ReadEthtool, ReaderEnds, ReaderReports, EventsDrained
<1>6. ASSUME NEW j, SyncLoss(j) PROVE Holding'
  BY <1>0, <1>6, AbortHolding, Zenon DEF SyncLoss
<1>7. CASE Turn
  BY <1>1, <1>6, <1>7, Zenon DEF Turn, StartTurn, Before
<1>8. CASE HandleEvent
  <2>1. CASE SyncLoss(job)
    BY <1>6, <2>1
  <2>2. CASE UNCHANGED <<inventory, job, candidate, active, dirty, queries>>
    BY <2>2, Zenon DEF Holding
  <2>3. CASE Apply(Head(inbox).msg)
    <3>1. inbox # <<>>
      BY <1>8, Zenon DEF HandleEvent
    <3>2. Head(inbox).msg \in Messages /\ Known(Head(inbox).msg)
      BY <3>1, HeadOfInbox
    <3> QED
      BY <2>3, <3>2, ApplyHolding
  <2> QED
    BY <1>8, <2>1, <2>2, <2>3, Zenon DEF HandleEvent, Invalid
<1>9. ASSUME job' = Received, UNCHANGED <<inventory, candidate, dirty, queries>> PROVE Holding'
  <2>1. Shaped(job') /\ (job'.current => job.current /\ job'.query = job.query)
    BY <1>9, ReceivedShaped, Zenon DEF Holding
  <2> QED
    BY <1>9, <2>1, Zenon DEF Holding
<1>10. CASE Advance
  <2>1. CASE AdvanceLost
    BY <1>6, <2>1, Zenon DEF AdvanceLost
  <2>2. CASE AdvanceClosed
    BY <1>9, <2>2, Zenon DEF AdvanceClosed
  <2>3. ASSUME NEW asked \in BOOLEAN, AdvanceOpen(asked) PROVE Holding'
    <3>1. UNCHANGED inventory
      BY <2>3, Zenon DEF AdvanceOpen
    <3>2. CASE Fail
      BY <1>0, <3>1, <3>2, AbortHolding, Zenon DEF Fail
    <3>3. CASE AcceptDump \/ AcceptQuery
      BY <3>1, <3>3, AcceptHolding
    <3>4. ASSUME NEW r, AcceptNothing(r) PROVE Holding'
      BY <1>9, <3>1, <3>4, Zenon DEF AcceptNothing
    <3> QED
      BY <2>3, <3>2, <3>3, <3>4, Zenon DEF AdvanceOpen
  <2> QED
    BY <1>10, <2>1, <2>2, <2>3, Zenon DEF Advance
<1>11. CASE AdvanceInventory
  BY <1>11, AdvanceInventoryHolding
<1>12. CASE UNCHANGED vars
  BY <1>1, <1>12, Zenon DEF vars
<1> QED
  BY <1>2, <1>3, <1>4, <1>5, <1>7, <1>8, <1>10, <1>11, <1>12, Zenon DEF Next

(* Every step leaves a resynchronisation wanted, and nothing under way,    *)
(* while there are no events.                                              *)
LEMMA DisconnectedStep ==
  ASSUME Holding, Turning, Disconnected, [Next]_vars
  PROVE  Disconnected'
<1> USE DEF deviceVars, resyncVars, turnVars
<1>1. CASE UNCHANGED <<routeEvents, pending, active, candidate, pc>> /\ job'.current = job.current
  BY <1>1, Zenon DEF Disconnected
<1>2. ASSUME NEW k \in Keys, Change(k) PROVE Disconnected'
  BY <1>1, <1>2, Zenon DEF Change
<1>3. ASSUME NEW k \in Keys, Read(k) PROVE Disconnected'
  <2>1. job.current /\ UNCHANGED <<routeEvents, pending, active, candidate, pc>>
    BY <1>3, Zenon DEF Read
  <2> QED
    BY <2>1, Zenon DEF Disconnected
<1>4. CASE JobEnds
  <2>1. job'.current = job.current
    BY <1>4, JobEndsShaped, Zenon
  <2> QED
    BY <1>1, <1>4, <2>1, Zenon DEF JobEnds
<1>5. CASE ReaderOpen \/ ReadRoute \/ ReadEthtool \/ ReaderEnds \/ ReaderReports
  BY <1>1, <1>5, Zenon DEF ReaderOpen, ReadRoute, ReadEthtool, ReaderEnds, ReaderReports
<1>6. ASSUME pc' # "inventory", UNCHANGED <<pending, resyncVars>>, routeEvents => routeEvents'
      PROVE  Disconnected'
  BY <1>6, Zenon DEF Disconnected
<1>7. ASSUME NEW j, Abort(j), pending' = TRUE, pc' # "inventory" PROVE Disconnected'
  BY <1>7, AbortHolds, Zenon DEF Disconnected
<1>8. CASE EventsDrained
  BY <1>6, <1>8, Zenon DEF EventsDrained
<1>9. CASE Turn
  <2>1. pc' = "events" /\ Before
    BY <1>9, Zenon DEF Turn, StartTurn
  <2>2. pc' # "inventory"
    BY <2>1
  <2> QED
    BY <1>6, <1>7, <2>1, <2>2, Zenon DEF Before, SyncLoss
<1>10. CASE HandleEvent
  <2>1. pc = "events" /\ pc' = pc
    BY <1>10, Zenon DEF HandleEvent
  <2>2. pc' # "inventory"
    BY <2>1
  <2>3. CASE SyncLoss(job)
    BY <1>7, <2>2, <2>3, Zenon DEF SyncLoss
  <2>4. CASE UNCHANGED <<deviceVars, pending, job, candidate, active>>
    BY <1>1, <2>1, <2>4, Zenon
  <2>5. ASSUME NEW m, Apply(m) PROVE Disconnected'
    <3>1. CASE m.kind = "resync"
      BY <1>7, <2>2, <2>5, <3>1, Zenon DEF Apply
    <3>2. CASE m.kind # "resync"
      <4>1. /\ pending' = (pending \/ ~Joins) /\ UNCHANGED <<candidate, active, routeEvents>>
            /\ job' = [job EXCEPT !.stale = @ \/ (job.query /\ job.key = m.key)]
        BY <2>5, <3>2, Zenon DEF Apply
      <4>2. job'.current = job.current
        BY <4>1, StaleShaped, Zenon DEF Holding
      <4> QED
        BY <2>2, <4>1, <4>2, Zenon DEF Disconnected
    <3> QED
      BY <3>1, <3>2
  <2> QED
    BY <1>10, <2>3, <2>4, <2>5, Zenon DEF HandleEvent, Invalid
<1>11. CASE Advance
  <2>1. CASE AdvanceLost
    <3>1. pc' = "wait"
      BY <2>1, Zenon DEF AdvanceLost
    <3>2. pc' # "inventory"
      BY <3>1
    <3> QED
      BY <1>7, <2>1, <3>2, Zenon DEF AdvanceLost, SyncLoss
  <2>2. CASE AdvanceClosed
    <3>1. pc' = "wait" /\ job' = Received /\ UNCHANGED <<routeEvents, pending, active, candidate>>
      BY <2>2, Zenon DEF AdvanceClosed
    <3>2. pc' # "inventory"
      BY <3>1
    <3>3. job'.current => job.current
      BY <3>1, ReceivedShaped, Zenon DEF Holding
    <3> QED
      BY <3>1, <3>2, <3>3, Zenon DEF Disconnected
  <2>3. ASSUME NEW asked \in BOOLEAN, AdvanceOpen(asked) PROVE Disconnected'
    BY <2>3, Zenon DEF AdvanceOpen, Disconnected
  <2> QED
    BY <1>11, <2>1, <2>2, <2>3, Zenon DEF Advance
<1>12. CASE AdvanceInventory
  <2>1. pc = "inventory" /\ pc' = "wait" /\ routeEvents
    BY <1>12, Zenon DEF AdvanceInventory, Disconnected
  <2>2. pc' # "inventory"
    BY <2>1
  <2>3. CASE SyncLoss(job)
    BY <1>7, <2>2, <2>3, Zenon DEF SyncLoss
  <2>4. CASE UNCHANGED routeEvents
    BY <2>1, <2>2, <2>4, Zenon DEF Disconnected
  <2> QED
    BY <1>12, <2>3, <2>4, Zenon DEF AdvanceInventory, NextQuery, Commit, StartDump
<1>13. CASE UNCHANGED vars
  BY <1>1, <1>13, Zenon DEF vars
<1> QED
  BY <1>2, <1>3, <1>4, <1>5, <1>8, <1>9, <1>10, <1>11, <1>12, <1>13, Zenon DEF Next
==============================================================================
