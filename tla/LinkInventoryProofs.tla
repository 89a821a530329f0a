------------------------- MODULE LinkInventoryProofs -------------------------
(***************************************************************************)
(* What LinkInventory guarantees for any devices, capacities and numbers of *)
(* faults: its types, that a stale device never goes unnoticed and that a  *)
(* commit never goes back.  The inductive invariant adds to the control    *)
(* state (LinkInventoryShape) where every state that is kept, read or on   *)
(* its way comes from, and which of them will be read again.  First, what  *)
(* a step makes of the devices, and the way of a notification from the     *)
(* kernel to the owner.                                                    *)
(***************************************************************************)
EXTENDS LinkInventoryShape

------------------------------------------------------------------------------
(* What a step makes of the devices.  Each step of the monitor is one of   *)
(* the following kinds, whatever else it does.                             *)

Shape ==
  /\ Epochs /\ World /\ Reading /\ Inboxing /\ Turning
  /\ OneResync /\ Holding /\ Disconnected

(* The event about the device that the step takes from the inbox.          *)
Missed(k) ==
  /\ inbox # <<>> /\ Len(inbox') < Len(inbox)
  /\ Head(inbox).epoch = epoch /\ Head(inbox).msg.key = k

(* Nothing but a request that goes on, ends or is refused.                 *)
Idles ==
  /\ UNCHANGED <<inventory, candidate, active>>
  /\ dirty \subseteq dirty'
  /\ pending => pending'
  /\ job'.current =>
       /\ job.current /\ job'.query = job.query /\ job'.stale = job.stale
       /\ \A k \in DOMAIN job'.data : k \in DOMAIN job.data /\ job'.data[k] = job.data[k]
  /\ \A k : ~Missed(k)

(* A loss, a failure or a request ends the resynchronisation under way.    *)
GivesUp ==
  /\ candidate' = NoData /\ active' = FALSE /\ job'.current = FALSE /\ pending' = TRUE
  /\ UNCHANGED inventory

(* An event is applied.                                                    *)
Handles(m) ==
  /\ m \in Messages /\ m.key \in Keys /\ m = Head(inbox).msg /\ Known(m)
  /\ inventory' = [inventory EXCEPT ![m.key] = Applied(m)]
  /\ active => dirty' = dirty \cup {m.key}
  /\ pending' \/ active'
  /\ job'.current = job.current /\ job'.query = job.query /\ job'.data = job.data
  /\ (job'.stale <=> job.stale \/ (job.query /\ job.key = m.key))
  /\ UNCHANGED <<candidate, active>>

(* A device is read.                                                       *)
Reads(k) ==
  /\ k \in Keys
  /\ job.current /\ job'.query = job.query /\ job'.stale = job.stale
  /\ DOMAIN job'.data = DOMAIN job.data \cup {k}
  /\ \A x \in DOMAIN job'.data : job'.data[x] = IF x = k THEN kernel[k] ELSE job.data[x]
  /\ UNCHANGED <<inventory, candidate, active, dirty, pending, inbox>>

(* A dump becomes the candidate.                                           *)
TakesDump ==
  /\ job.current /\ ~job.query /\ DOMAIN job.data = Keys
  /\ candidate' = job.data
  /\ job'.current = FALSE
  /\ UNCHANGED <<inventory, active, dirty, pending, inbox>>

(* The answer to a query becomes the candidate's state of the device.      *)
TakesAnswer ==
  /\ job.current /\ job.query /\ ~job.stale
  /\ job.key \in Keys /\ DOMAIN job.data = {job.key}
  /\ candidate \in [Keys -> States]
  /\ candidate' = [candidate EXCEPT ![job.key] = job.data[job.key]]
  /\ dirty' = dirty \ {job.key}
  /\ job'.current = FALSE
  /\ UNCHANGED <<inventory, active, pending, inbox>>

(* A dump or a query is submitted.                                         *)
Starts ==
  /\ routeEvents /\ active' = TRUE
  /\ DOMAIN job'.data = {}
  /\ candidate # NoData => dirty' = dirty
  /\ UNCHANGED <<inventory, candidate, inbox>>

(* The candidate becomes the inventory.                                    *)
Commits ==
  /\ routeEvents /\ ~Lost
  /\ candidate # NoData /\ dirty = {} /\ inbox = <<>>
  /\ inventory' = candidate
  /\ candidate' = NoData /\ active' = FALSE /\ job'.current = FALSE
  /\ UNCHANGED inbox

Kinds ==
  \/ Idles \/ GivesUp
  \/ \E m \in Messages : Handles(m)
  \/ \E k \in Keys : Reads(k)
  \/ TakesDump \/ TakesAnswer \/ Starts \/ Commits

(* abort, when a resynchronisation is asked for.                           *)
LEMMA AbortGivesUp ==
  ASSUME NEW j, Abort(j), pending' = TRUE, UNCHANGED inventory
  PROVE  Kinds
BY AbortHolds, Zenon DEF Kinds, GivesUp

(* An inbox from which nothing is taken.                                   *)
LEMMA NothingMissed ==
  ASSUME Inboxing, inbox' = inbox \/ \E x : inbox' = Append(inbox, x)
  PROVE  \A k : ~Missed(k)
<1>1. Len(inbox') = Len(inbox) \/ Len(inbox') = Len(inbox) + 1
  BY DEF Inboxing
<1>2. Len(inbox) \in Nat
  BY DEF Inboxing
<1>3. ~(Len(inbox') < Len(inbox))
  BY <1>1, <1>2
<1> QED
  BY <1>3, Zenon DEF Missed

(* A step that leaves the request and the devices alone.                   *)
LEMMA IdleKind ==
  ASSUME Inboxing, UNCHANGED <<inventory, candidate, active, dirty, job>>,
         pending => pending', \A k : ~Missed(k)
  PROVE  Kinds
BY Zenon DEF Kinds, Idles

(* reconciler.event.                                                       *)
LEMMA HandleEventKind ==
  ASSUME Shape, HandleEvent, \A i \in 1 .. Len(inbox) : Known(inbox[i].msg)
  PROVE  Kinds
<1> USE DEF deviceVars, resyncVars
<1> DEFINE m == Head(inbox).msg
<1>1. inbox # <<>>
  BY Zenon DEF HandleEvent
<1>2. m \in Messages /\ Known(m)
  BY <1>1, HeadOfInbox DEF Shape
<1>3. CASE SyncLoss(job)
  BY <1>3, AbortGivesUp, Zenon DEF SyncLoss
<1>4. CASE /\ Head(inbox).epoch # epoch
           /\ UNCHANGED <<deviceVars, pending, job, candidate, active, dirty, queries>>
  <2>1. \A k : ~Missed(k)
    BY <1>4, Zenon DEF Missed
  <2> QED
    BY <1>4, <2>1, IdleKind, Zenon DEF Shape
<1>5. CASE Apply(m)
  <2>1. CASE m.kind = "resync"
    BY <1>5, <2>1, AbortGivesUp, Zenon DEF Apply
  <2>2. CASE m.kind # "resync"
    <3>1. m.key \in Keys
      BY <1>2, <2>2, Zenon DEF Known
    <3>2. /\ pending' = (pending \/ ~Joins)
          /\ inventory' = [inventory EXCEPT ![m.key] = Applied(m)]
          /\ IF active THEN MarkDirty(m.key) ELSE UNCHANGED <<dirty, queries>>
          /\ job' = [job EXCEPT !.stale = @ \/ (job.query /\ job.key = m.key)]
          /\ UNCHANGED <<candidate, active>>
      BY <1>5, <2>2, Zenon DEF Apply
    <3>3. active => dirty' = dirty \cup {m.key}
      BY <3>2, Zenon DEF MarkDirty
    <3>4. pending' \/ active'
      BY <3>2, Zenon DEF Joins, Requested, Shape, OneResync, Owned
    <3>5. /\ job'.current = job.current /\ job'.query = job.query /\ job'.data = job.data
          /\ (job'.stale <=> job.stale \/ (job.query /\ job.key = m.key))
      <4>1. Shaped(job)
        BY Zenon DEF Shape, Holding
      <4> QED
        BY <3>2, <4>1, StaleShaped, Zenon
    <3>6. Handles(m)
      BY <1>2, <3>1, <3>2, <3>3, <3>4, <3>5, Zenon DEF Handles
    <3> QED
      BY <1>2, <3>6, Zenon DEF Kinds
  <2> QED
    BY <2>1, <2>2
<1> QED
  BY <1>3, <1>4, <1>5, Zenon DEF HandleEvent, Invalid

(* advance.                                                                *)
LEMMA AdvanceKind ==
  ASSUME Shape, Advance
  PROVE  Kinds
<1> USE DEF deviceVars, resyncVars
<1>1. UNCHANGED inbox /\ \A k : ~Missed(k)
  <2>1. UNCHANGED inbox
    BY Zenon DEF Advance
  <2> QED
    BY <2>1, NothingMissed DEF Shape
<1>2. ASSUME job' = Received, UNCHANGED <<inventory, candidate, active, dirty>>,
             pending => pending'
      PROVE  Kinds
  <2>1. job'.current =>
          /\ job.current /\ job'.query = job.query /\ job'.stale = job.stale
          /\ job'.data = job.data
    BY <1>2, ReceivedShaped, Zenon DEF Shape, Holding
  <2> QED
    BY <1>1, <1>2, <2>1, Zenon DEF Kinds, Idles
<1>3. CASE AdvanceLost
  BY <1>3, AbortGivesUp, Zenon DEF AdvanceLost, SyncLoss
<1>4. CASE AdvanceClosed
  BY <1>2, <1>4, Zenon DEF AdvanceClosed
<1>5. ASSUME NEW asked \in BOOLEAN, AdvanceOpen(asked) PROVE Kinds
  <2>1. UNCHANGED inventory
    BY <1>5, Zenon DEF AdvanceOpen
  <2>2. CASE Fail
    BY <2>1, <2>2, AbortGivesUp, Zenon DEF Fail
  <2>3. CASE AcceptDump
    <3>1. /\ Accepts /\ ~job.query /\ ~job.err /\ candidate' = job.data /\ job' = NoJob
          /\ UNCHANGED <<active, dirty, pending>>
      BY <2>3, Zenon DEF AcceptDump
    <3>2. job.current /\ DOMAIN job.data = Keys
      BY <3>1, AcceptedData, Zenon DEF Shape
    <3>3. job'.current = FALSE
      BY <3>1, NoJobShaped, Zenon
    <3> QED
      BY <1>1, <2>1, <3>1, <3>2, <3>3, Zenon DEF Kinds, TakesDump
  <2>4. CASE AcceptQuery
    <3>0. job' = NoJob /\ Accepts /\ job.query /\ UNCHANGED <<active, pending>>
      BY <2>4, Zenon DEF AcceptQuery
    <3>1. job'.current = FALSE
      BY <3>0, NoJobShaped, Zenon
    <3>2. CASE job.stale
      <4>1. dirty' = dirty \cup {job.key} /\ UNCHANGED candidate
        BY <2>4, <3>2, Zenon DEF AcceptQuery, MarkDirty
      <4> QED
        BY <1>1, <2>1, <3>0, <3>1, <4>1, Zenon DEF Kinds, Idles
    <3>3. CASE ~job.stale
      <4>1. /\ ~job.err
            /\ candidate' = [candidate EXCEPT ![job.key] = job.data[job.key]]
            /\ dirty' = dirty \ {job.key}
        BY <2>4, <3>3, Zenon DEF AcceptQuery
      <4>2. /\ job.current /\ DOMAIN job.data = {job.key}
            /\ job.key \in Keys /\ candidate \in [Keys -> States]
        BY <3>0, <4>1, AcceptedData, Zenon DEF Shape
      <4> QED
        BY <1>1, <2>1, <3>0, <3>1, <3>3, <4>1, <4>2, Zenon DEF Kinds, TakesAnswer
    <3> QED
      BY <3>2, <3>3
  <2>5. ASSUME NEW r, AcceptNothing(r) PROVE Kinds
    BY <1>2, <2>1, <2>5, Zenon DEF AcceptNothing
  <2> QED
    BY <1>5, <2>2, <2>3, <2>4, <2>5, Zenon DEF AdvanceOpen
<1> QED
  BY <1>3, <1>4, <1>5, Zenon DEF Advance

(* advanceInventory.                                                       *)
LEMMA AdvanceInventoryKind ==
  ASSUME Shape, AdvanceInventory
  PROVE  Kinds
<1> USE DEF deviceVars, resyncVars, inboxVars
<1>1. UNCHANGED inbox /\ \A k : ~Missed(k)
  <2>1. UNCHANGED inbox
    BY Zenon DEF AdvanceInventory
  <2> QED
    BY <2>1, NothingMissed DEF Shape
<1>2. routeEvents
  BY Zenon DEF AdvanceInventory, Shape, Disconnected
<1>3. CASE NextQuery
  <2>1. candidate # NoData /\ UNCHANGED <<inventory, pending, candidate, active, dirty>>
    BY <1>3, Zenon DEF NextQuery
  <2>2. CASE queries = <<>>
    <3>1. UNCHANGED job
      BY <1>3, <2>2, Zenon DEF NextQuery
    <3> QED
      BY <1>1, <2>1, <3>1, IdleKind, Zenon DEF Shape
  <2>3. CASE queries # <<>>
    <3>1. Submit(TRUE, Head(queries))
      BY <1>3, <2>3, Zenon DEF NextQuery
    <3>2. Head(queries) \in Keys
      BY <2>3, TailElements DEF Shape, Holding
    <3>3. DOMAIN job'.data = {}
      BY <3>1, <3>2, SubmitShaped, Zenon
    <3>4. active' = TRUE
      BY <2>1, Zenon DEF Shape, OneResync
    <3> QED
      BY <1>1, <1>2, <2>1, <3>3, <3>4, Zenon DEF Kinds, Starts
  <2> QED
    BY <2>2, <2>3
<1>4. CASE Commit /\ MayAdvance
  <2>1. CASE Lost
    BY <1>4, <2>1, AbortGivesUp, Zenon DEF Commit, SyncLoss
  <2>2. CASE ~Lost
    <3>1. /\ candidate # NoData /\ dirty = {} /\ inbox = <<>>
          /\ inventory' = candidate /\ Abort(job)
      BY <1>4, <2>2, Zenon DEF Commit, MayAdvance
    <3>2. candidate' = NoData /\ active' = FALSE /\ job'.current = FALSE
      BY <3>1, AbortHolds, Zenon
    <3> QED
      BY <1>1, <1>2, <2>2, <3>1, <3>2, Zenon DEF Kinds, Commits
  <2> QED
    BY <2>1, <2>2
<1>5. CASE StartDump
  <2>1. /\ candidate = NoData /\ active' = TRUE /\ Submit(FALSE, NoKey)
        /\ UNCHANGED <<inventory, candidate>>
    BY <1>5, Zenon DEF StartDump
  <2>2. DOMAIN job'.data = {}
    BY <2>1, SubmitShaped, Zenon
  <2> QED
    BY <1>1, <1>2, <2>1, <2>2, Zenon DEF Kinds, Starts
<1>6. CASE UNCHANGED <<future, deviceVars, pending, resyncVars>>
  BY <1>1, <1>6, IdleKind, Zenon DEF Shape
<1> QED
  BY <1>3, <1>4, <1>5, <1>6, Zenon DEF AdvanceInventory

(* Every step is of one of the kinds.                                      *)
LEMMA EveryKind ==
  ASSUME Shape, [Next]_vars, \A i \in 1 .. Len(inbox) : Known(inbox[i].msg)
  PROVE  Kinds
<1> USE DEF deviceVars, resyncVars, inboxVars
<1>0. Inboxing /\ Holding /\ World
  BY Zenon DEF Shape
<1>1. CASE UNCHANGED <<inventory, pending, resyncVars, inbox>>
  BY <1>0, <1>1, NothingMissed, IdleKind, Zenon
<1>2. ASSUME NEW k \in Keys, Change(k) PROVE Kinds
  BY <1>1, <1>2, Zenon DEF Change
<1>3. ASSUME NEW k \in Keys, Read(k) PROVE Kinds
  <2>1. UNCHANGED <<inventory, candidate, active, dirty, pending, inbox>> /\ job.current
    BY <1>3, Zenon DEF Read
  <2> QED
    BY <1>0, <1>3, <2>1, ReadShaped, Zenon DEF Kinds, Reads
<1>4. CASE JobEnds
  <2>1. UNCHANGED <<inventory, candidate, active, dirty, pending, inbox>>
    BY <1>4, Zenon DEF JobEnds
  <2>2. \A k : ~Missed(k)
    BY <1>0, <2>1, NothingMissed, Zenon
  <2>3. /\ job'.current = job.current /\ job'.query = job.query /\ job'.stale = job.stale
        /\ job'.data = job.data \/ job'.data = NoData
    BY <1>0, <1>4, JobEndsShaped, Zenon
  <2>4. DOMAIN NoData = {}
    BY DEF NoData
  <2>5. \A k \in DOMAIN job'.data : k \in DOMAIN job.data /\ job'.data[k] = job.data[k]
    BY <2>3, <2>4, Zenon
  <2> QED
    BY <2>1, <2>2, <2>3, <2>5, Zenon DEF Kinds, Idles
<1>5. CASE ReaderOpen \/ ReaderEnds \/ ReaderReports \/ EventsDrained
  BY <1>1, <1>5, Zenon DEF ReaderOpen, ReaderEnds, ReaderReports, EventsDrained
<1>6. CASE ReadRoute \/ ReadEthtool
  <2>1. PICK m : Push(m)
    BY <1>6, Zenon DEF ReadRoute, ReadEthtool
  <2>2. inbox' = inbox \/ \E x : inbox' = Append(inbox, x)
    BY <2>1, Zenon DEF Push
  <2>3. UNCHANGED <<inventory, pending, resyncVars>>
    BY <1>6, Zenon DEF ReadRoute, ReadEthtool
  <2> QED
    BY <1>0, <2>2, <2>3, NothingMissed, IdleKind, Zenon
<1>7. CASE Turn
  <2>1. UNCHANGED inbox /\ Before
    BY <1>7, Zenon DEF Turn, StartTurn
  <2>2. CASE Lost
    BY <2>1, <2>2, AbortGivesUp, Zenon DEF Before, SyncLoss
  <2>3. CASE ~Lost
    BY <1>1, <2>1, <2>3, Zenon DEF Before
  <2> QED
    BY <2>2, <2>3
<1>8. CASE UNCHANGED vars
  BY <1>1, <1>8, Zenon DEF vars
<1> QED
  BY <1>2, <1>3, <1>4, <1>5, <1>6, <1>7, <1>8, HandleEventKind, AdvanceKind,
     AdvanceInventoryKind, Zenon DEF Next

------------------------------------------------------------------------------
(* The way of a notification, from the kernel through the socket and the   *)
(* inbox.                                                                  *)

(* Nothing was lost since the subscription was opened.                     *)
Connected == ~Lost /\ routeEvents /\ ~overrun

(* The owner that has lost nothing has a running reader, of its epoch.     *)
LEMMA ConnectedRuns ==
  ASSUME Epochs, Reading, Connected
  PROVE  reader = "running" /\ readerEpoch = epoch /\ inboxEpoch = epoch
BY DEF Epochs, EpochInStep, Reading, Subscription, Connected, Lost

(* What a step may make of the epochs and of the inbox.                    *)
Passes ==
  /\ inboxEpoch' = inboxEpoch \/ inboxEpoch' > inboxEpoch
  /\ routeEvents' => epoch' = epoch
  /\ \/ inbox' = inbox
     \/ inbox # <<>> /\ inbox' = Tail(inbox)
     \/ \E m \in Messages : inbox' = Append(inbox, [msg |-> m, epoch |-> readerEpoch])

(* lose only ever moves the inbox to a later epoch.                        *)
LEMMA LoseForward ==
  ASSUME Epochs, NEW e \in Nat, e <= epoch
  PROVE  AfterLoss(e) = inboxEpoch \/ AfterLoss(e) > inboxEpoch
BY DEF Epochs, EpochInStep, AfterLoss

(* No step makes anything else of them.                                    *)
LEMMA EveryPass ==
  ASSUME Shape, [Next]_vars
  PROVE  Passes
<1> USE DEF readerVars, inboxVars, deviceVars
<1>0. Epochs /\ World
  BY Zenon DEF Shape
<1>1. \A e \in {epoch, readerEpoch} : AfterLoss(e) = inboxEpoch \/ AfterLoss(e) > inboxEpoch
  BY <1>0, LoseForward DEF Epochs
<1>2. CASE UNCHANGED <<inbox, epoch>> /\ inboxEpoch' \in {inboxEpoch, AfterLoss(readerEpoch)}
  BY <1>1, <1>2, Zenon DEF Passes
<1>3. CASE UNCHANGED inbox /\ routeEvents' = FALSE /\ inboxEpoch' \in {inboxEpoch, AfterLoss(epoch)}
  BY <1>1, <1>3, Zenon DEF Passes
<1>4. ASSUME NEW k \in Keys, Change(k) \/ Read(k) PROVE Passes
  BY <1>2, <1>4, Zenon DEF Change, Read
<1>5. CASE ReaderOpen \/ ReaderEnds \/ ReaderReports \/ JobEnds \/ EventsDrained
  BY <1>2, <1>5, Zenon DEF ReaderOpen, ReaderEnds, ReaderReports, JobEnds, EventsDrained, Lose
<1>6. ASSUME NEW m \in Messages, Push(m), UNCHANGED epoch PROVE Passes
  <2>1. \/ UNCHANGED inboxEpoch /\ inbox' = Append(inbox, [msg |-> m, epoch |-> readerEpoch])
        \/ UNCHANGED inbox /\ inboxEpoch' = AfterLoss(readerEpoch)
    BY <1>6, Zenon DEF Push, Lose
  <2> QED
    BY <1>1, <1>6, <2>1, Zenon DEF Passes
<1>7. CASE ReadRoute
  <2>1. Head(socket) \in Messages
    BY <1>0, <1>7, TailElements DEF ReadRoute, World
  <2> QED
    BY <1>6, <1>7, <2>1, Zenon DEF ReadRoute
<1>8. CASE ReadEthtool
  <2>1. PICK m \in {Message("refresh", k, Unknown) : k \in Keys}
                     \cup {Message("resync", NoKey, Unknown)} : Push(m)
    BY <1>8, Zenon DEF ReadEthtool
  <2>2. m \in Messages
    BY <2>1 DEF Messages, Message, Unknown, States, Links
  <2> QED
    BY <1>6, <1>8, <2>1, <2>2, Zenon DEF ReadEthtool
<1>9. CASE Turn
  BY <1>2, <1>3, <1>9, Zenon DEF Turn, StartTurn, Before, SyncLoss
<1>10. CASE HandleEvent
  <2>1. inbox # <<>> /\ inbox' = Tail(inbox)
    BY <1>10, Zenon DEF HandleEvent
  <2>2. CASE UNCHANGED <<inboxEpoch, epoch>>
    BY <2>1, <2>2, Zenon DEF Passes
  <2>3. CASE routeEvents' = FALSE /\ inboxEpoch' \in {inboxEpoch, AfterLoss(epoch)}
    BY <1>1, <2>1, <2>3, Zenon DEF Passes
  <2> QED
    BY <1>10, <2>2, <2>3, Zenon DEF HandleEvent, SyncLoss, Apply, Invalid, Lose
<1>11. CASE Advance
  BY <1>2, <1>3, <1>11, Zenon
     DEF Advance, AdvanceLost, AdvanceClosed, AdvanceOpen, SyncLoss, Lose
<1>12. CASE AdvanceInventory
  BY <1>2, <1>3, <1>12, Zenon
     DEF AdvanceInventory, NextQuery, Commit, StartDump, SyncLoss
<1>13. CASE UNCHANGED vars
  BY <1>2, <1>13, Zenon DEF vars
<1> QED
  BY <1>4, <1>5, <1>7, <1>8, <1>9, <1>10, <1>11, <1>12, <1>13, Zenon DEF Next

(* A step after which nothing is lost found nothing lost, unless it has    *)
(* only now seen the subscription open.                                    *)
LEMMA WasConnected ==
  ASSUME Shape, Epochs', Reading', [Next]_vars, Connected'
  PROVE  epoch' = epoch /\ (routeEvents => Connected)
<1>1. reader' = "running" /\ readerEpoch' = epoch' /\ inboxEpoch' = epoch'
  <2>1. (Epochs /\ Reading /\ Connected => reader = "running" /\ readerEpoch = epoch
                                             /\ inboxEpoch = epoch)'
    BY ConnectedRuns, PTL
  <2> QED
    BY <2>1
<1>2. epoch' = epoch /\ (inboxEpoch' = inboxEpoch \/ inboxEpoch' > inboxEpoch)
  BY EveryPass DEF Passes, Connected
<1>3. ~Lost
  BY <1>1, <1>2 DEF Shape, Epochs, EpochInStep, Lost
<1>4. ~overrun
  <2>1. CASE \E k \in Keys : Change(k)
    BY <2>1, Zenon DEF Change, Connected
  <2>2. CASE ~\E k \in Keys : Change(k)
    <3>1. UNCHANGED overrun \/ reader' = "ending"
      BY <2>2, ReadsWorld, Zenon
    <3>2. reader' # "ending"
      BY <1>1
    <3> QED
      BY <3>1, <3>2, Zenon DEF Connected
  <2> QED
    BY <2>1, <2>2
<1> QED
  BY <1>2, <1>3, <1>4, Zenon DEF Connected

(* Notified(k) is spelled out: a notification is in the socket or in the   *)
(* inbox.                                                                  *)
InSocket(k) == \E i \in 1 .. Len(socket) : socket[i].key = k
InInbox(k) == \E i \in 1 .. Len(inbox) : inbox[i].epoch = epoch /\ inbox[i].msg.key = k

(* An event stays in the inbox until the owner takes it.                   *)
LEMMA StaysInInbox ==
  ASSUME Shape, Inboxing', [Next]_vars, epoch' = epoch, NEW k, InInbox(k)
  PROVE  InInbox(k)' \/ Missed(k)
<1>0. Inboxing /\ Epochs
  BY Zenon DEF Shape
<1>1. PICK i \in 1 .. Len(inbox) : inbox[i].epoch = epoch /\ inbox[i].msg.key = k
  BY Zenon DEF InInbox
<1>2. CASE inbox' = inbox
  BY <1>1, <1>2, Zenon DEF InInbox
<1>3. CASE inbox # <<>> /\ inbox' = Tail(inbox)
  <2>1. /\ Len(inbox) \in Nat /\ Len(inbox') = Len(inbox) - 1 /\ Head(inbox) = inbox[1]
        /\ \A j \in 1 .. Len(inbox') : inbox'[j] = inbox[j + 1]
    BY <1>0, <1>3, TailElements DEF Inboxing
  <2>2. CASE i = 1
    BY <1>1, <1>3, <2>1, <2>2 DEF Missed
  <2>3. CASE i # 1
    <3>1. i - 1 \in 1 .. Len(inbox') /\ (i - 1) + 1 = i
      BY <1>1, <2>1, <2>3
    <3>2. inbox'[i - 1] = inbox[i]
      BY <2>1, <3>1
    <3> QED
      BY <1>1, <3>1, <3>2, Zenon DEF InInbox
  <2> QED
    BY <2>2, <2>3
<1>4. ASSUME NEW m \in Messages, inbox' = Append(inbox, [msg |-> m, epoch |-> readerEpoch])
      PROVE  InInbox(k)'
  <2>1. [msg |-> m, epoch |-> readerEpoch] \in Items
    BY <1>0 DEF Items, Epochs
  <2>2. i \in 1 .. Len(inbox') /\ inbox'[i] = inbox[i]
    BY <1>0, <1>1, <1>4, <2>1, AppendElements DEF Inboxing
  <2> QED
    BY <1>1, <2>2, Zenon DEF InInbox
<1> QED
  BY <1>2, <1>3, <1>4, EveryPass, Zenon DEF Passes

(* push puts the notification that leaves the socket into the inbox.       *)
LEMMA ReadRouteDelivers ==
  ASSUME Shape, Epochs', Reading', ReadRoute, Connected', NEW k, k = Head(socket).key
  PROVE  InInbox(k)'
<1>0. Inboxing /\ Epochs /\ World
  BY Zenon DEF Shape
<1>1. reader' = "running" /\ readerEpoch' = epoch'
  <2>1. (Epochs /\ Reading /\ Connected => reader = "running" /\ readerEpoch = epoch
                                             /\ inboxEpoch = epoch)'
    BY ConnectedRuns, PTL
  <2> QED
    BY <2>1
<1> DEFINE x == [msg |-> Head(socket), epoch |-> readerEpoch]
<1>2. inbox' = Append(inbox, x) /\ UNCHANGED readerEpoch
  BY <1>1 DEF ReadRoute, Push
<1>3. Head(socket) \in Messages
  BY <1>0, TailElements DEF ReadRoute, World
<1>4. x \in Items /\ x.epoch = epoch' /\ x.msg.key = k
  BY <1>0, <1>1, <1>2, <1>3 DEF Items, Epochs
<1> HIDE DEF x
<1>5. Len(inbox') = Len(inbox) + 1 /\ inbox'[Len(inbox) + 1] = x /\ Len(inbox) \in Nat
  BY <1>0, <1>2, <1>4, AppendElements DEF Inboxing
<1>6. Len(inbox) + 1 \in 1 .. Len(inbox')
  BY <1>5
<1> QED
  BY <1>4, <1>5, <1>6, Zenon DEF InInbox

(* A change in the kernel is notified while nothing is lost.               *)
LEMMA ChangeIsNotified ==
  ASSUME Shape, Epochs', Reading', NEW k \in Keys, Change(k), Connected'
  PROVE  /\ InSocket(k)'
         /\ \A j : InSocket(j) => InSocket(j)'
<1>0. World
  BY Zenon DEF Shape
<1>1. reader' = "running"
  <2>1. (Epochs /\ Reading /\ Connected => reader = "running" /\ readerEpoch = epoch
                                             /\ inboxEpoch = epoch)'
    BY ConnectedRuns, PTL
  <2> QED
    BY <2>1
<1>2. UNCHANGED reader /\ ~overrun'
  BY Zenon DEF Change, Connected, readerVars
<1>3. changes \in Nat /\ changes' = changes + 1
  BY <1>0 DEF World, Change
<1>4. PICK l \in Links :
        LET s == [link |-> l, ver |-> changes']
            m == Message(IF l = Absent THEN "remove" ELSE "link", k, s) IN
        IF reader # "running" \/ overrun
        THEN UNCHANGED <<socket, overrun>>
        ELSE IF Len(socket) < SocketCap
        THEN socket' = Append(socket, m)
        ELSE overrun' = TRUE /\ UNCHANGED socket
  BY Zenon DEF Change
<1> DEFINE s == [link |-> l, ver |-> changes']
           m == Message(IF l = Absent THEN "remove" ELSE "link", k, s)
<1>5. m \in Messages /\ m.key = k
  BY <1>3 DEF States, Messages, Message
<1>6. socket' = Append(socket, m)
  <2>1. reader = "running" /\ ~overrun'
    BY <1>1, <1>2
  <2>2. IF reader # "running" \/ overrun
        THEN UNCHANGED <<socket, overrun>>
        ELSE IF Len(socket) < SocketCap
        THEN socket' = Append(socket, m)
        ELSE overrun' = TRUE /\ UNCHANGED socket
    BY <1>4, Zenon
  <2> HIDE DEF m, s
  <2>3. ~overrun
    BY <2>1, <2>2
  <2> QED
    BY <2>1, <2>2, <2>3
<1> HIDE DEF m, s
<1>7. /\ Len(socket') = Len(socket) + 1 /\ socket'[Len(socket) + 1] = m
      /\ \A i \in 1 .. Len(socket) : socket'[i] = socket[i]
      /\ Len(socket) \in Nat
  BY <1>0, <1>5, <1>6, AppendElements DEF World
<1>8. /\ Len(socket) + 1 \in 1 .. Len(socket')
      /\ \A i \in 1 .. Len(socket) : i \in 1 .. Len(socket')
  BY <1>7
<1> QED
  BY <1>5, <1>7, <1>8, Zenon DEF InSocket

(* A notification that is on its way stays on its way, until the owner     *)
(* takes it from the inbox.                                                *)
LEMMA StaysNotified ==
  ASSUME Shape, Epochs', Reading', Inboxing', [Next]_vars, Connected', NEW k
  PROVE  Notified(k) => Notified(k)' \/ Missed(k)
<1>0. World /\ epoch' = epoch
  BY WasConnected, Zenon DEF Shape
<1>1. /\ Notified(k) <=> InSocket(k) \/ InInbox(k)
      /\ Notified(k)' <=> InSocket(k)' \/ InInbox(k)'
  BY Zenon DEF Notified, InSocket, InInbox
<1>2. CASE InInbox(k)
  BY <1>0, <1>1, <1>2, StaysInInbox, Zenon
<1>3. CASE InSocket(k)
  <2>1. CASE \E j \in Keys : Change(j)
    BY <1>1, <1>3, <2>1, ChangeIsNotified, Zenon
  <2>2. CASE ~\E j \in Keys : Change(j)
    <3>1. CASE UNCHANGED socket
      BY <1>1, <1>3, <3>1, Zenon DEF InSocket
    <3>2. CASE ReadRoute /\ socket # <<>> /\ socket' = Tail(socket)
      <4>1. PICK i \in 1 .. Len(socket) : socket[i].key = k
        BY <1>3, Zenon DEF InSocket
      <4>2. /\ Len(socket) \in Nat /\ Len(socket') = Len(socket) - 1 /\ Head(socket) = socket[1]
            /\ \A j \in 1 .. Len(socket') : socket'[j] = socket[j + 1]
        BY <1>0, <3>2, TailElements DEF World
      <4>3. CASE i = 1
        <5>1. Head(socket).key = k
          BY <4>1, <4>2, <4>3
        <5> QED
          BY <1>1, <3>2, <5>1, ReadRouteDelivers, Zenon
      <4>4. CASE i # 1
        <5>1. i - 1 \in 1 .. Len(socket') /\ (i - 1) + 1 = i
          BY <4>1, <4>2, <4>4
        <5>2. socket'[i - 1] = socket[i]
          BY <4>2, <5>1
        <5> QED
          BY <1>1, <4>1, <5>1, <5>2, Zenon DEF InSocket
      <4> QED
        BY <4>3, <4>4
    <3>3. reader' # "ending"
      <4>1. (Epochs /\ Reading /\ Connected => reader = "running" /\ readerEpoch = epoch
                                                 /\ inboxEpoch = epoch)'
        BY ConnectedRuns, PTL
      <4> QED
        BY <4>1
    <3> QED
      BY <2>2, <3>1, <3>2, <3>3, ReadsWorld, Zenon
  <2> QED
    BY <2>1, <2>2
<1> QED
  BY <1>1, <1>2, <1>3, Zenon

------------------------------------------------------------------------------
(* Where the states come from.                                             *)

(* Every state that was sent was the device's once.                        *)
PastEvents ==
  /\ \A i \in 1 .. Len(socket) : Known(socket[i])
  /\ \A i \in 1 .. Len(inbox) : Known(inbox[i].msg)

(* So was every state that was read or that is kept.                       *)
PastDevices ==
  /\ \A k \in Keys : kernel[k].ver <= changes
  /\ \A k \in Keys : inventory[k].ver <= kernel[k].ver
  /\ candidate # NoData => \A k \in Keys : candidate[k].ver <= kernel[k].ver
  /\ job.current => \A k \in DOMAIN job.data : job.data[k].ver <= kernel[k].ver

(* The version of a device only grows, and the change that made it is the  *)
(* last one.                                                               *)
LEMMA KernelGrows ==
  ASSUME World, PastDevices, [Next]_vars
  PROVE  \A k \in Keys : /\ kernel[k].ver \in Nat /\ kernel'[k].ver \in Nat
                         /\ kernel[k].ver <= kernel'[k].ver /\ kernel'[k].ver <= changes'
<1>0. \A k \in Keys : kernel[k].ver \in Nat
  BY DEF World, States
<1>1. ASSUME NEW j \in Keys, Change(j)
      PROVE  \A k \in Keys : /\ kernel'[k].ver \in Nat
                             /\ kernel[k].ver <= kernel'[k].ver /\ kernel'[k].ver <= changes'
  <2>1. PICK l \in Links : kernel' = [kernel EXCEPT ![j] = [link |-> l, ver |-> changes']]
    BY <1>1, Zenon DEF Change
  <2>2. changes \in Nat /\ changes' = changes + 1
    BY <1>1 DEF Change, World
  <2>3. \A k \in Keys : kernel'[k].ver = IF k = j THEN changes' ELSE kernel[k].ver
    BY <2>1 DEF World
  <2> QED
    BY <1>0, <2>2, <2>3 DEF PastDevices
<1>2. CASE ~\E k \in Keys : Change(k)
  <2>1. UNCHANGED <<kernel, changes>>
    BY <1>2, ReadsWorld, Zenon
  <2> QED
    BY <1>0, <2>1 DEF PastDevices
<1> QED
  BY <1>0, <1>1, <1>2, Zenon

(* What was a device's state once stays so.                                *)
LEMMA StaysKnown ==
  ASSUME World, PastDevices, [Next]_vars, NEW m \in Messages, Known(m)
  PROVE  Known(m)'
<1>1. CASE m.kind = "resync"
  BY <1>1, Zenon DEF Known
<1>2. CASE m.kind # "resync"
  <2>1. m.key \in Keys /\ m.state.ver <= kernel[m.key].ver /\ m.state.ver \in Nat
    BY <1>2 DEF Known, Messages, States
  <2>2. /\ kernel[m.key].ver \in Nat /\ kernel'[m.key].ver \in Nat
        /\ kernel[m.key].ver <= kernel'[m.key].ver
    BY <2>1, KernelGrows, Zenon
  <2>3. m.state.ver <= kernel'[m.key].ver
    BY <2>1, <2>2
  <2> QED
    BY <2>1, <2>3, Zenon DEF Known
<1> QED
  BY <1>1, <1>2

(* The events of a subscription that was just pushed are known.            *)
LEMMA ChangeIsKnown ==
  ASSUME World, PastDevices, [Next]_vars, PastEvents, NEW k \in Keys, Change(k)
  PROVE  \A i \in 1 .. Len(socket') : Known(socket[i])'
<1>1. PICK l \in Links :
        LET s == [link |-> l, ver |-> changes']
            m == Message(IF l = Absent THEN "remove" ELSE "link", k, s) IN
        /\ kernel' = [kernel EXCEPT ![k] = s]
        /\ UNCHANGED socket \/ socket' = Append(socket, m)
  BY Zenon DEF Change
<1> DEFINE s == [link |-> l, ver |-> changes']
           m == Message(IF l = Absent THEN "remove" ELSE "link", k, s)
<1>2. changes' \in Nat
  BY DEF World, Change
<1>3. m \in Messages /\ m.key = k /\ m.state.ver = changes'
  BY <1>2 DEF States, Messages, Message
<1>4. kernel'[k].ver = changes'
  BY <1>1 DEF World
<1>5. m.key \in Keys /\ m.state.ver <= kernel'[m.key].ver
  BY <1>2, <1>3, <1>4
<1>6. UNCHANGED socket \/ socket' = Append(socket, m)
  BY <1>1, Zenon
<1> HIDE DEF m, s
<1>7. \A i \in 1 .. Len(socket) : socket[i] \in Messages
  BY DEF World
<1>8. \A i \in 1 .. Len(socket) : Known(socket[i]) /\ socket[i] \in Messages
  BY <1>7 DEF PastEvents
<1>9. ASSUME NEW x \in Messages, Known(x)
      PROVE  x.kind = "resync" \/ (x.key \in Keys /\ x.state.ver <= kernel'[x.key].ver)
  BY <1>9, StaysKnown, Zenon DEF Known
<1>10. SUFFICES ASSUME NEW i \in 1 .. Len(socket')
       PROVE  \/ socket'[i].kind = "resync"
              \/ socket'[i].key \in Keys /\ socket'[i].state.ver <= kernel'[socket'[i].key].ver
  BY DEF Known
<1>11. CASE i \in 1 .. Len(socket) /\ socket'[i] = socket[i]
  BY <1>8, <1>9, <1>11
<1>12. CASE socket'[i] = m
  BY <1>5, <1>12
<1>13. (i \in 1 .. Len(socket) /\ socket'[i] = socket[i]) \/ socket'[i] = m
  BY <1>3, <1>6, AppendElements DEF World
<1> QED
  BY <1>11, <1>12, <1>13

(* Every step keeps the events what they are.                              *)
LEMMA PastEventsStep ==
  ASSUME Shape, PastDevices, PastEvents, [Next]_vars
  PROVE  PastEvents'
<1>0. World /\ Inboxing /\ Epochs
  BY Zenon DEF Shape
<1>1. ASSUME NEW x \in Messages, Known(x)
      PROVE  \/ x.kind = "resync"
             \/ x.key \in Keys /\ x.state.ver <= kernel'[x.key].ver
  BY <1>0, <1>1, StaysKnown, Zenon DEF Known
<1>2. \A i \in 1 .. Len(socket) : Known(socket[i]) /\ socket[i] \in Messages
  BY <1>0 DEF World, PastEvents
<1>3. \A i \in 1 .. Len(inbox) : Known(inbox[i].msg) /\ inbox[i].msg \in Messages
  <2>1. \A i \in 1 .. Len(inbox) : inbox[i] \in Items
    BY <1>0 DEF Inboxing
  <2>2. \A x \in Items : x.msg \in Messages
    BY DEF Items
  <2> QED
    BY <2>1, <2>2, Zenon DEF PastEvents
<1>4. \A i \in 1 .. Len(socket') : Known(socket[i])'
  <2>1. CASE \E k \in Keys : Change(k)
    BY <1>0, <2>1, ChangeIsKnown
  <2>2. CASE ~\E k \in Keys : Change(k)
    <3>1. CASE UNCHANGED socket
      BY <1>1, <1>2, <3>1, Zenon DEF Known
    <3>2. CASE socket # <<>> /\ socket' = Tail(socket)
      <4>1. \A i \in 1 .. Len(socket') : i + 1 \in 1 .. Len(socket) /\ socket'[i] = socket[i + 1]
        BY <1>0, <3>2, TailElements DEF World
      <4> QED
        BY <1>1, <1>2, <4>1, Zenon DEF Known
    <3>3. CASE socket' = <<>>
      BY <3>3
    <3> QED
      BY <2>2, <3>1, <3>2, <3>3, ReadsWorld, Zenon
  <2> QED
    BY <2>1, <2>2
<1>5. \A i \in 1 .. Len(inbox') : Known(inbox[i].msg)'
  <2>1. CASE UNCHANGED inbox
    BY <1>1, <1>3, <2>1, Zenon DEF Known
  <2>2. CASE inbox # <<>> /\ inbox' = Tail(inbox)
    <3>1. \A i \in 1 .. Len(inbox') : i + 1 \in 1 .. Len(inbox) /\ inbox'[i] = inbox[i + 1]
      BY <1>0, <2>2, TailElements DEF Inboxing
    <3> QED
      BY <1>1, <1>3, <3>1, Zenon DEF Known
  <2>3. ASSUME NEW m \in Messages, Known(m), inbox' = Append(inbox, [msg |-> m, epoch |-> readerEpoch])
        PROVE  \A i \in 1 .. Len(inbox') : Known(inbox[i].msg)'
    <3> DEFINE x == [msg |-> m, epoch |-> readerEpoch]
    <3>1. x \in Items /\ x.msg = m
      BY <1>0 DEF Items, Epochs
    <3> HIDE DEF x
    <3>2. /\ Len(inbox') = Len(inbox) + 1 /\ inbox'[Len(inbox) + 1] = x /\ Len(inbox) \in Nat
          /\ \A i \in 1 .. Len(inbox) : inbox'[i] = inbox[i]
      BY <1>0, <2>3, <3>1, AppendElements DEF Inboxing, x
    <3>3. \A i \in 1 .. Len(inbox') :
            inbox'[i] = x \/ (i \in 1 .. Len(inbox) /\ inbox'[i] = inbox[i])
      BY <3>2
    <3>4. /\ m \in Messages /\ Known(m)
          /\ \A i \in 1 .. Len(inbox') :
               inbox'[i].msg = m \/ (i \in 1 .. Len(inbox) /\ inbox'[i].msg = inbox[i].msg)
      BY <2>3, <3>1, <3>3, Zenon
    <3>5. SUFFICES ASSUME NEW i \in 1 .. Len(inbox') PROVE Known(inbox[i].msg)'
      OBVIOUS
    <3>6. CASE inbox'[i].msg = m
      BY <1>1, <3>4, <3>6, Zenon DEF Known
    <3>7. CASE i \in 1 .. Len(inbox) /\ inbox'[i].msg = inbox[i].msg
      BY <1>1, <1>3, <3>7, Zenon DEF Known
    <3> QED
      BY <3>4, <3>6, <3>7, Zenon
  <2>4. ASSUME NEW m \in Messages, Push(m), Known(m)
        PROVE  \A i \in 1 .. Len(inbox') : Known(inbox[i].msg)'
    BY <2>1, <2>3, <2>4, Zenon DEF Push
  <2>5. CASE ReadRoute
    <3>1. 1 \in 1 .. Len(socket) /\ Head(socket) = socket[1]
      BY <1>0, <2>5, TailElements DEF ReadRoute, World
    <3>2. Head(socket) \in Messages /\ Known(Head(socket))
      BY <1>2, <3>1, Zenon
    <3> QED
      BY <2>4, <2>5, <3>2, Zenon DEF ReadRoute
  <2>6. CASE ReadEthtool
    <3>1. PICK m \in {Message("refresh", k, Unknown) : k \in Keys}
                       \cup {Message("resync", NoKey, Unknown)} : Push(m)
      BY <2>6, Zenon DEF ReadEthtool
    <3>2. m \in Messages
      BY <3>1 DEF Messages, Message, Unknown, States, Links
    <3>3. m.kind = "resync" \/ (m.key \in Keys /\ m.state.ver = 0)
      BY <3>1 DEF Message, Unknown
    <3>4. \A k \in Keys : kernel[k].ver \in Nat
      BY <1>0 DEF World, States
    <3>5. Known(m)
      BY <3>3, <3>4 DEF Known
    <3> QED
      BY <2>4, <3>1, <3>2, <3>5
  <2>7. ReadRoute \/ ReadEthtool \/ inbox' = inbox \/ (inbox # <<>> /\ inbox' = Tail(inbox))
    BY Zenon DEF Next, Change, Read, ReaderOpen, ReaderEnds, ReaderReports, JobEnds, Turn,
       StartTurn, HandleEvent, EventsDrained, Advance, AdvanceInventory, inboxVars, vars
  <2> QED
    BY <2>1, <2>2, <2>5, <2>6, <2>7, Zenon
<1> QED
  BY <1>4, <1>5, Zenon DEF PastEvents

(* Versions are numbers, in the inventory, in a candidate, in a result and *)
(* in an event.                                                            *)
LEMMA VersionsAreNumbers ==
  ASSUME World, Holding
  PROVE  /\ \A k \in Keys : kernel[k].ver \in Nat /\ inventory[k].ver \in Nat
         /\ candidate # NoData => candidate \in [Keys -> States]
         /\ candidate # NoData => \A k \in Keys : candidate[k].ver \in Nat
         /\ DOMAIN job.data \subseteq Keys
         /\ \A k \in DOMAIN job.data : job.data[k].ver \in Nat
         /\ \A m \in Messages : m.state.ver \in Nat
<1>1. \A s \in States : s.ver \in Nat
  BY DEF States
<1>2. /\ \A k \in Keys : kernel[k] \in States /\ inventory[k] \in States
      /\ candidate # NoData => candidate \in [Keys -> States]
  BY DEF World, Holding
<1>3. candidate # NoData => \A k \in Keys : candidate[k] \in States
  BY <1>2
<1>4. DOMAIN job.data \subseteq Keys /\ job.data \in [DOMAIN job.data -> States]
  BY DEF Holding, Shaped, Jobs
<1>5. \A k \in DOMAIN job.data : job.data[k] \in States
  BY <1>4
<1>6. \A m \in Messages : m.state \in States
  BY DEF Messages
<1> QED
  BY <1>1, <1>2, <1>3, <1>4, <1>5, <1>6, Zenon

(* Every step keeps what is read and kept a state of the past.             *)
LEMMA PastDevicesStep ==
  ASSUME Shape, PastDevices, PastEvents, [Next]_vars
  PROVE  PastDevices'
<1>0. World /\ Holding
  BY Zenon DEF Shape
<1>1. \A k \in Keys : /\ kernel[k].ver \in Nat /\ kernel'[k].ver \in Nat
                      /\ kernel[k].ver <= kernel'[k].ver /\ kernel'[k].ver <= changes'
  BY <1>0, KernelGrows
<1>2. /\ \A k \in Keys : inventory[k].ver \in Nat
      /\ candidate # NoData => \A k \in Keys : candidate[k].ver \in Nat
      /\ DOMAIN job.data \subseteq Keys
      /\ \A k \in DOMAIN job.data : job.data[k].ver \in Nat
  BY <1>0, VersionsAreNumbers, Zenon
<1> DEFINE OldInventory == \A k \in Keys : inventory[k].ver <= kernel'[k].ver
           OldCandidate == candidate # NoData => \A k \in Keys : candidate[k].ver <= kernel'[k].ver
           OldJob == job.current => \A k \in DOMAIN job.data : job.data[k].ver <= kernel'[k].ver
           NewInventory == \A k \in Keys : inventory'[k].ver <= kernel'[k].ver
           NewCandidate == candidate' # NoData => \A k \in Keys : candidate'[k].ver <= kernel'[k].ver
           NewJob == job'.current => \A k \in DOMAIN job'.data : job'.data[k].ver <= kernel'[k].ver
<1>3. OldInventory /\ OldCandidate /\ OldJob
  <2>1. OldInventory
    BY <1>1, <1>2 DEF PastDevices
  <2>2. OldCandidate
    BY <1>1, <1>2 DEF PastDevices
  <2>3. OldJob
    BY <1>1, <1>2 DEF PastDevices
  <2> QED
    BY <2>1, <2>2, <2>3
<1>4. SUFFICES NewInventory /\ NewCandidate /\ NewJob
  BY <1>1, Zenon DEF PastDevices
<1>5. CASE Idles
  BY <1>3, <1>5, Zenon DEF Idles
<1>6. CASE GivesUp
  BY <1>3, <1>6, Zenon DEF GivesUp
<1>7. ASSUME NEW m \in Messages, Handles(m) PROVE NewInventory /\ NewCandidate /\ NewJob
  <2>1. /\ m.key \in Keys /\ Known(m) /\ inventory' = [inventory EXCEPT ![m.key] = Applied(m)]
        /\ job'.current = job.current /\ job'.data = job.data /\ UNCHANGED candidate
    BY <1>7, Zenon DEF Handles
  <2>2. NewCandidate /\ NewJob
    BY <1>3, <2>1, Zenon
  <2>3. Applied(m).ver <= kernel'[m.key].ver
    <3>1. Applied(m) \in {m.state, inventory[m.key]}
      BY <1>0, <2>1, AppliedIsState
    <3>2. CASE m.kind = "resync"
      <4>1. Applied(m) = inventory[m.key]
        BY <3>2 DEF Applied
      <4> QED
        BY <1>3, <2>1, <4>1, Zenon
    <3>3. CASE m.kind # "resync"
      <4>1. m.state.ver <= kernel[m.key].ver /\ m.state.ver \in Nat
        BY <1>0, <2>1, <3>3, VersionsAreNumbers, Zenon DEF Known
      <4>2. m.state.ver <= kernel'[m.key].ver
        BY <1>1, <2>1, <4>1
      <4> QED
        BY <1>3, <2>1, <3>1, <4>2, Zenon
    <3> QED
      BY <3>2, <3>3
  <2>4. \A k \in Keys : inventory'[k] = IF k = m.key THEN Applied(m) ELSE inventory[k]
    BY <1>0, <2>1 DEF Holding
  <2>5. NewInventory
    BY <1>3, <2>3, <2>4, Zenon
  <2> QED
    BY <2>2, <2>5
<1>8. ASSUME NEW k \in Keys, Reads(k) PROVE NewInventory /\ NewCandidate /\ NewJob
  <2>1. NewInventory /\ NewCandidate
    BY <1>3, <1>8, Zenon DEF Reads
  <2>2. /\ DOMAIN job'.data = DOMAIN job.data \cup {k}
        /\ \A x \in DOMAIN job'.data : job'.data[x] = IF x = k THEN kernel[k] ELSE job.data[x]
        /\ job.current
    BY <1>8, Zenon DEF Reads
  <2>3. NewJob
    BY <1>1, <1>3, <2>2, Zenon
  <2> QED
    BY <2>1, <2>3
<1>9. CASE TakesDump
  BY <1>3, <1>9, Zenon DEF TakesDump
<1>10. CASE TakesAnswer
  <2>1. \A k \in Keys : candidate'[k] = IF k = job.key THEN job.data[job.key] ELSE candidate[k]
    BY <1>10 DEF TakesAnswer
  <2>2. candidate # NoData
    BY <1>0, <1>10, Zenon DEF TakesAnswer, Holding
  <2>3. job.data[job.key].ver <= kernel'[job.key].ver
    BY <1>3, <1>10, Zenon DEF TakesAnswer
  <2>4. NewCandidate
    BY <1>3, <2>1, <2>2, <2>3, Zenon
  <2> QED
    BY <1>3, <1>10, <2>4, Zenon DEF TakesAnswer
<1>11. CASE Starts
  BY <1>3, <1>11, Zenon DEF Starts
<1>12. CASE Commits
  BY <1>3, <1>12, Zenon DEF Commits
<1>13. Kinds
  BY EveryKind, Zenon DEF PastEvents
<1> QED
  BY <1>5, <1>6, <1>7, <1>8, <1>9, <1>10, <1>11, <1>12, <1>13, Zenon DEF Kinds

------------------------------------------------------------------------------
(* What was read is not older than what an event has made of the device,   *)
(* unless the device will be queried again or the answer dropped.          *)
Discarded(k) == IF job.query THEN job.stale ELSE k \in dirty

NotOlder ==
  /\ candidate # NoData => \A k \in Keys :
       candidate[k].ver >= inventory[k].ver \/ k \in dirty
  /\ job.current => \A k \in DOMAIN job.data :
       job.data[k].ver >= inventory[k].ver \/ Discarded(k)

(* Every step keeps it: an event marks its device, and only an answer that *)
(* no event has followed unmarks it.                                       *)
LEMMA NotOlderStep ==
  ASSUME Shape, PastDevices, PastEvents, NotOlder, [Next]_vars
  PROVE  NotOlder'
<1>0. World /\ Holding /\ OneResync
  BY Zenon DEF Shape
<1> DEFINE NewCandidate == candidate' # NoData => \A k \in Keys :
             candidate'[k].ver >= inventory'[k].ver \/ k \in dirty'
           NewJob == job'.current => \A k \in DOMAIN job'.data :
             job'.data[k].ver >= inventory'[k].ver \/ Discarded(k)'
           Goal == NewCandidate /\ NewJob
<1>1. SUFFICES Goal
  BY Zenon DEF NotOlder
<1>2. CASE Idles
  BY <1>2, Zenon DEF Idles, NotOlder, Discarded
<1>3. CASE GivesUp
  BY <1>3, Zenon DEF GivesUp
<1>4. ASSUME NEW m \in Messages, Handles(m) PROVE Goal
  <2>1. /\ m.key \in Keys /\ inventory' = [inventory EXCEPT ![m.key] = Applied(m)]
        /\ active => dirty' = dirty \cup {m.key}
        /\ job'.current = job.current /\ job'.query = job.query /\ job'.data = job.data
        /\ (job'.stale <=> job.stale \/ (job.query /\ job.key = m.key))
        /\ UNCHANGED candidate
    BY <1>4, Zenon DEF Handles
  <2>2. \A k \in Keys : k # m.key => inventory'[k] = inventory[k]
    BY <1>0, <2>1 DEF Holding
  <2>3. NewCandidate
    <3> SUFFICES ASSUME candidate # NoData PROVE NewCandidate
      BY <2>1, Zenon
    <3>1. dirty' = dirty \cup {m.key}
      BY <1>0, <2>1, Zenon DEF OneResync
    <3> QED
      BY <2>1, <2>2, <3>1, Zenon DEF NotOlder
  <2>4. NewJob
    <3> SUFFICES ASSUME job.current PROVE NewJob
      BY <2>1, Zenon
    <3>1. dirty' = dirty \cup {m.key}
      BY <1>0, <2>1, Zenon DEF OneResync, Owned
    <3>2. job.query => DOMAIN job.data \subseteq {job.key}
      BY <1>0, Zenon DEF Holding, Shaped
    <3>3. DOMAIN job.data \subseteq Keys
      BY <1>0, Zenon DEF Holding, Shaped
    <3> SUFFICES ASSUME NEW k \in DOMAIN job.data
                 PROVE  job'.data[k].ver >= inventory'[k].ver \/ Discarded(k)'
      BY <2>1, Zenon
    <3>4. CASE k = m.key
      BY <2>1, <3>1, <3>2, <3>4, Zenon DEF Discarded
    <3>5. CASE k # m.key
      BY <2>1, <2>2, <3>1, <3>3, <3>5, Zenon DEF NotOlder, Discarded
    <3> QED
      BY <3>4, <3>5
  <2> QED
    BY <2>3, <2>4
<1>5. ASSUME NEW k \in Keys, Reads(k) PROVE Goal
  <2>1. kernel[k].ver >= inventory[k].ver
    BY <1>0, VersionsAreNumbers DEF PastDevices
  <2>2. /\ DOMAIN job'.data = DOMAIN job.data \cup {k}
        /\ \A x \in DOMAIN job'.data : job'.data[x] = IF x = k THEN kernel[k] ELSE job.data[x]
        /\ job.current /\ job'.query = job.query /\ job'.stale = job.stale
        /\ UNCHANGED <<inventory, candidate, dirty>>
    BY <1>5, Zenon DEF Reads
  <2> QED
    BY <2>1, <2>2, Zenon DEF NotOlder, Discarded
<1>6. CASE TakesDump
  BY <1>6, Zenon DEF TakesDump, NotOlder, Discarded
<1>7. CASE TakesAnswer
  <2>1. \A k \in Keys : candidate'[k] = IF k = job.key THEN job.data[job.key] ELSE candidate[k]
    BY <1>7 DEF TakesAnswer
  <2>2. candidate # NoData
    BY <1>0, <1>7, Zenon DEF TakesAnswer, Holding
  <2>3. job.data[job.key].ver >= inventory[job.key].ver
    BY <1>7, Zenon DEF TakesAnswer, NotOlder, Discarded
  <2>4. /\ dirty' = dirty \ {job.key} /\ UNCHANGED inventory
        /\ job'.current = FALSE
    BY <1>7, Zenon DEF TakesAnswer
  <2> QED
    BY <2>1, <2>2, <2>3, <2>4, Zenon DEF NotOlder
<1>8. CASE Starts
  BY <1>8, Zenon DEF Starts, NotOlder
<1>9. CASE Commits
  BY <1>9, Zenon DEF Commits
<1>10. Kinds
  BY EveryKind, Zenon DEF PastEvents
<1> QED
  BY <1>2, <1>3, <1>4, <1>5, <1>6, <1>7, <1>8, <1>9, <1>10, Zenon DEF Kinds

------------------------------------------------------------------------------
(* While nothing is lost, what was read and is not the state of the device *)
(* any more will be read again: a notification is on its way, the device   *)
(* is dirty, or the answer is stale.                                       *)
Tracked ==
  Connected =>
    /\ candidate # NoData => \A k \in Keys :
         candidate[k].link = kernel[k].link \/ k \in dirty \/ Notified(k)
    /\ job.current => \A k \in DOMAIN job.data :
         job.data[k].link = kernel[k].link \/ Discarded(k) \/ Notified(k)

(* What is still true of a device, or of a state that was read, after a    *)
(* step that takes no event about it.                                      *)
LEMMA StaysTracked ==
  ASSUME Shape, Shape', [Next]_vars, Connected', NEW k \in Keys, NEW l,
         l = kernel[k].link \/ Notified(k)
  PROVE  l = kernel'[k].link \/ Notified(k)' \/ Missed(k)
<1>0. World /\ Epochs' /\ Reading' /\ Inboxing'
  BY Zenon DEF Shape
<1>1. CASE Notified(k)
  BY <1>0, <1>1, StaysNotified, Zenon
<1>2. CASE Change(k)
  BY <1>0, <1>2, ChangeIsNotified, Zenon DEF Notified, InSocket
<1>3. CASE ~Change(k)
  <2>1. kernel'[k] = kernel[k]
    <3>1. ASSUME NEW j \in Keys, Change(j) PROVE kernel'[k] = kernel[k]
      <4>1. PICK s : kernel' = [kernel EXCEPT ![j] = s]
        BY <3>1, Zenon DEF Change
      <4>2. j # k
        BY <1>3, <3>1, Zenon
      <4> QED
        BY <1>0, <4>1, <4>2 DEF World
    <3>2. CASE ~\E j \in Keys : Change(j)
      BY <3>2, ReadsWorld, Zenon
    <3> QED
      BY <3>1, <3>2, Zenon
  <2> QED
    BY <1>1, <2>1, Zenon
<1> QED
  BY <1>2, <1>3

(* Every step keeps it.                                                    *)
LEMMA TrackedStep ==
  ASSUME Shape, Shape', PastEvents, Tracked, [Next]_vars
  PROVE  Tracked'
<1>0. World /\ Holding /\ OneResync /\ Inboxing /\ Disconnected /\ Epochs' /\ Reading'
  BY Zenon DEF Shape
<1> DEFINE NewCandidate == candidate' # NoData => \A k \in Keys :
             candidate'[k].link = kernel'[k].link \/ k \in dirty' \/ Notified(k)'
           NewJob == job'.current => \A k \in DOMAIN job'.data :
             job'.data[k].link = kernel'[k].link \/ Discarded(k)' \/ Notified(k)'
           Goal == NewCandidate /\ NewJob
<1>1. SUFFICES ASSUME Connected' PROVE Goal
  BY Zenon DEF Tracked
<1>2. routeEvents => Connected
  BY <1>0, <1>1, WasConnected
<1>3. ~routeEvents => candidate = NoData /\ ~job.current
  BY <1>0, Zenon DEF Disconnected
<1>4. candidate # NoData => \A k \in Keys :
        candidate[k].link = kernel[k].link \/ k \in dirty \/ Notified(k)
  BY <1>2, <1>3, Zenon DEF Tracked
<1>5. job.current => \A k \in DOMAIN job.data :
        job.data[k].link = kernel[k].link \/ Discarded(k) \/ Notified(k)
  BY <1>2, <1>3, Zenon DEF Tracked
<1>6. \A k \in Keys : \A l : l = kernel[k].link \/ Notified(k)
        => l = kernel'[k].link \/ Notified(k)' \/ Missed(k)
  BY <1>1, StaysTracked, Zenon
<1>7. candidate # NoData => \A k \in Keys :
        candidate[k].link = kernel'[k].link \/ k \in dirty \/ Notified(k)' \/ Missed(k)
  BY <1>4, <1>6, Zenon
<1>8. DOMAIN job.data \subseteq Keys
  BY <1>0, Zenon DEF Holding, Shaped
<1>9. job.current => \A k \in DOMAIN job.data :
        job.data[k].link = kernel'[k].link \/ Discarded(k) \/ Notified(k)' \/ Missed(k)
  BY <1>5, <1>6, <1>8, Zenon
<1>10. inbox' = inbox => \A k : ~Missed(k)
  BY <1>0, NothingMissed, Zenon
<1>11. CASE Idles
  BY <1>7, <1>9, <1>11, Zenon DEF Idles, Discarded
<1>12. CASE GivesUp
  BY <1>12, Zenon DEF GivesUp
<1>13. ASSUME NEW m \in Messages, Handles(m) PROVE Goal
  <2>1. /\ m.key \in Keys /\ m = Head(inbox).msg
        /\ active => dirty' = dirty \cup {m.key}
        /\ job'.current = job.current /\ job'.query = job.query /\ job'.data = job.data
        /\ (job'.stale <=> job.stale \/ (job.query /\ job.key = m.key))
        /\ UNCHANGED candidate
    BY <1>13, Zenon DEF Handles
  <2>2. \A k : Missed(k) => k = m.key
    BY <2>1, Zenon DEF Missed
  <2>3. NewCandidate
    <3> SUFFICES ASSUME candidate # NoData PROVE NewCandidate
      BY <2>1, Zenon
    <3>1. dirty' = dirty \cup {m.key}
      BY <1>0, <2>1, Zenon DEF OneResync
    <3> QED
      BY <1>7, <2>1, <2>2, <3>1, Zenon
  <2>4. NewJob
    <3> SUFFICES ASSUME job.current PROVE NewJob
      BY <2>1, Zenon
    <3>1. dirty' = dirty \cup {m.key}
      BY <1>0, <2>1, Zenon DEF OneResync, Owned
    <3>2. job.query => DOMAIN job.data \subseteq {job.key}
      BY <1>0, Zenon DEF Holding, Shaped
    <3> SUFFICES ASSUME NEW k \in DOMAIN job.data
                 PROVE  job'.data[k].link = kernel'[k].link \/ Discarded(k)' \/ Notified(k)'
      BY <2>1, Zenon
    <3>4. CASE k = m.key
      BY <2>1, <3>1, <3>2, <3>4, Zenon DEF Discarded
    <3>5. CASE k # m.key
      BY <1>9, <2>1, <2>2, <3>1, <3>5, Zenon DEF Discarded
    <3> QED
      BY <3>4, <3>5
  <2> QED
    BY <2>3, <2>4
<1>14. ASSUME NEW k \in Keys, Reads(k) PROVE Goal
  <2>1. kernel[k].link = kernel'[k].link \/ Notified(k)' \/ Missed(k)
    BY <1>6, Zenon
  <2>2. /\ DOMAIN job'.data = DOMAIN job.data \cup {k}
        /\ \A x \in DOMAIN job'.data : job'.data[x] = IF x = k THEN kernel[k] ELSE job.data[x]
        /\ job.current /\ job'.query = job.query /\ job'.stale = job.stale
        /\ UNCHANGED <<inventory, candidate, dirty, inbox>>
    BY <1>14, Zenon DEF Reads
  <2> QED
    BY <1>7, <1>9, <1>10, <2>1, <2>2, Zenon DEF Discarded
<1>15. CASE TakesDump
  BY <1>9, <1>10, <1>15, Zenon DEF TakesDump, Discarded
<1>16. CASE TakesAnswer
  <2>0. PICK q \in Keys : q = job.key
    BY <1>16, Zenon DEF TakesAnswer
  <2>1. \A k \in Keys : candidate'[k] = IF k = q THEN job.data[q] ELSE candidate[k]
    BY <1>16, <2>0 DEF TakesAnswer
  <2>2. candidate # NoData
    BY <1>0, <1>16, Zenon DEF TakesAnswer, Holding
  <2>3. dirty' = dirty \ {q} /\ UNCHANGED inbox /\ job'.current = FALSE
    BY <1>16, <2>0, Zenon DEF TakesAnswer
  <2>4. job.data[q].link = kernel'[q].link \/ Notified(q)'
    <3>1. q \in DOMAIN job.data /\ ~Discarded(q) /\ job.current
      BY <1>16, <2>0, Zenon DEF TakesAnswer, Discarded
    <3> QED
      BY <1>9, <1>10, <2>3, <3>1, Zenon
  <2>5. ASSUME NEW k \in Keys
        PROVE  candidate'[k].link = kernel'[k].link \/ k \in dirty' \/ Notified(k)'
    <3>1. CASE k = q
      BY <2>1, <2>4, <3>1, Zenon
    <3>2. CASE k # q
      BY <1>7, <1>10, <2>1, <2>2, <2>3, <3>2, Zenon
    <3> QED
      BY <3>1, <3>2
  <2> QED
    BY <2>3, <2>5, Zenon
<1>17. CASE Starts
  BY <1>7, <1>10, <1>17, Zenon DEF Starts
<1>18. CASE Commits
  BY <1>18, Zenon DEF Commits
<1>19. Kinds
  BY EveryKind, Zenon DEF PastEvents
<1> QED
  BY <1>11, <1>12, <1>13, <1>14, <1>15, <1>16, <1>17, <1>18, <1>19, Zenon DEF Kinds

------------------------------------------------------------------------------
(* A device that is stale is noticed.  The events are all handled and no   *)
(* device is dirty when a candidate is committed, so what is stale in it   *)
(* has a notification in the socket; an event that is applied asks for a   *)
(* resynchronisation.                                                      *)
LEMMA StaleStep ==
  ASSUME Shape, Shape', PastEvents, Tracked, StaleIsNoticed, [Next]_vars
  PROVE  StaleIsNoticed'
<1>0. Holding /\ OneResync /\ Inboxing /\ Disconnected /\ Epochs' /\ Reading'
  BY Zenon DEF Shape
<1>1. SUFFICES ASSUME Connected', ~pending', ~active'
               PROVE  \A k \in Keys : inventory'[k].link = kernel'[k].link \/ Notified(k)'
  BY Zenon DEF StaleIsNoticed, Behind, Connected, Lost
<1>2. routeEvents => Connected
  BY <1>0, <1>1, WasConnected
<1>3. ~routeEvents => pending /\ candidate = NoData
  BY <1>0, Zenon DEF Disconnected
<1>4. \A k \in Keys : \A l : l = kernel[k].link \/ Notified(k)
        => l = kernel'[k].link \/ Notified(k)' \/ Missed(k)
  BY <1>1, StaysTracked, Zenon
<1>5. inbox' = inbox => \A k : ~Missed(k)
  BY <1>0, NothingMissed, Zenon
<1>6. ~pending /\ ~active => \A k \in Keys : inventory[k].link = kernel[k].link \/ Notified(k)
  BY <1>2, <1>3, Zenon DEF StaleIsNoticed, Behind, Connected, Lost
<1>7. CASE Idles
  BY <1>1, <1>4, <1>6, <1>7, Zenon DEF Idles
<1>8. CASE GivesUp
  BY <1>1, <1>8, Zenon DEF GivesUp
<1>9. ASSUME NEW m \in Messages, Handles(m) PROVE FALSE
  BY <1>1, <1>9, Zenon DEF Handles
<1>10. ASSUME NEW k \in Keys, Reads(k) PROVE FALSE
  BY <1>0, <1>1, <1>10, Zenon DEF Reads, OneResync, Owned
<1>11. CASE TakesDump \/ TakesAnswer
  BY <1>0, <1>1, <1>11, Zenon DEF TakesDump, TakesAnswer, OneResync, Owned
<1>12. CASE Starts
  BY <1>1, <1>12, Zenon DEF Starts
<1>13. CASE Commits
  <2>1. /\ Connected /\ candidate # NoData /\ dirty = {} /\ inventory' = candidate
        /\ UNCHANGED inbox
    BY <1>2, <1>13, Zenon DEF Commits
  <2>2. \A k \in Keys : candidate[k].link = kernel[k].link \/ Notified(k)
    BY <2>1, Zenon DEF Tracked
  <2> QED
    BY <1>4, <1>5, <2>1, <2>2, Zenon
<1>14. Kinds
  BY EveryKind, Zenon DEF PastEvents
<1> QED
  BY <1>7, <1>8, <1>9, <1>10, <1>11, <1>12, <1>13, <1>14, Zenon DEF Kinds

(* A step that ends a resynchronisation without asking for another is a    *)
(* commit, of a candidate that is nowhere older than the inventory.        *)
LEMMA CommitStep ==
  ASSUME Shape, PastEvents, NotOlder, [Next]_vars, active, ~active', ~pending'
  PROVE  \A k \in Keys : inventory'[k].ver >= inventory[k].ver
<1>1. CASE Idles \/ GivesUp \/ TakesDump \/ TakesAnswer \/ Starts
           \/ (\E m \in Messages : Handles(m)) \/ \E k \in Keys : Reads(k)
  BY <1>1, Zenon DEF Idles, GivesUp, TakesDump, TakesAnswer, Starts, Handles, Reads
<1>2. CASE Commits
  BY <1>2, Zenon DEF Commits, NotOlder
<1>3. Kinds
  BY EveryKind, Zenon DEF PastEvents
<1> QED
  BY <1>1, <1>2, <1>3, Zenon DEF Kinds

------------------------------------------------------------------------------
(* The inductive invariant.                                                *)
IInv ==
  /\ Shape
  /\ PastDevices /\ PastEvents /\ NotOlder
  /\ Tracked /\ StaleIsNoticed

(* The parts of the shape are the types, and more.                         *)
LEMMA ShapeTyped == Shape => TypeOK
<1> SUFFICES ASSUME Shape PROVE TypeOK
  OBVIOUS
<1>1. /\ kernel \in [Keys -> States] /\ changes \in Nat
      /\ socket \in Seq(Messages) /\ Len(socket) <= SocketCap /\ overrun \in BOOLEAN
  BY Zenon DEF Shape, World
<1>2. /\ reader \in {"none", "starting", "running", "ending"}
      /\ statuses \in Seq([epoch : Nat, ready : BOOLEAN]) /\ Len(statuses) <= 2
  BY Zenon DEF Shape, Reading, Statuses
<1>3. epoch \in Nat /\ readerEpoch \in Nat /\ inboxEpoch \in Nat
  BY DEF Shape, Epochs, EpochInStep
<1>4. /\ inbox \in Seq([msg : Messages, epoch : Nat]) /\ Len(inbox) <= InboxCap
      /\ wake \in BOOLEAN
  BY Zenon DEF Shape, Inboxing, Items
<1>5. /\ pc \in {"wait", "events", "advance", "inventory"}
      /\ handled \in Nat
      /\ due \in {"none", "subscribe", "reconnect", "resync", "retry"}
      /\ future \subseteq {"reconnect", "retry"}
      /\ routeEvents \in BOOLEAN
      /\ resyncEpoch \in Nat /\ ahead \in Nat /\ faults \in Nat
  BY Zenon DEF Shape, Turning
<1>6. pending \in BOOLEAN /\ active \in BOOLEAN
  BY Zenon DEF Shape, OneResync
<1>7. /\ inventory \in [Keys -> States]
      /\ \E K \in SUBSET Keys : job \in Jobs(K)
      /\ candidate \in [Keys -> States] \cup {NoData}
      /\ dirty \subseteq Keys /\ queries \in Seq(Keys)
  BY Zenon DEF Shape, Holding, Shaped
<1> QED
  BY <1>1, <1>2, <1>3, <1>4, <1>5, <1>6, <1>7, Zenon DEF TypeOK

(* It holds before the first turn.                                         *)
LEMMA InitIInv == Init => IInv
<1> SUFFICES ASSUME Init PROVE IInv
  OBVIOUS
<1> USE DEF Init
<1>0. job = NoJob /\ Shaped(job) /\ job.current = FALSE /\ job.data = NoData
  <2>1. job = NoJob
    BY Zenon
  <2> QED
    BY <2>1, NoJobShaped, Zenon
<1>1. Epochs
  BY DEF Epochs, EpochInStep
<1>2. Unknown \in States /\ Unknown.ver = 0
  BY DEF Unknown, States, Links
<1>3. \A n \in Names : Up(n) \in States /\ Up(n).ver = 0
  BY DEF Up, States, Links
<1>4. /\ kernel \in [Keys -> States] /\ \A k \in Keys : kernel[k].ver = 0
      /\ inventory \in [Keys -> States] /\ \A k \in Keys : inventory[k].ver = 0
  BY <1>2, <1>3
<1>5. World
  <2>1. socket = <<>> /\ changes = 0 /\ overrun = FALSE
    BY Zenon
  <2> HIDE DEF Init
  <2>2. SocketCap \in Nat
    BY BoundsAssumption
  <2>3. socket \in Seq(Messages) /\ Len(socket) <= SocketCap /\ changes \in Nat
    BY <2>1, <2>2
  <2>4. overrun \in BOOLEAN
    BY <2>1, Zenon
  <2> QED
    BY <1>4, <2>3, <2>4, Zenon DEF World
<1>6. Reading
  BY DEF Reading, Subscription, Reports
<1>7. Inboxing
  BY BoundsAssumption DEF Inboxing
<1>8. Turning
  BY Zenon DEF Turning
<1>9. OneResync
  <2>1. Owned(job)
    BY <1>0 DEF Owned, IsJob, NoJob
  <2> QED
    BY <2>1, Zenon DEF OneResync
<1>10. Holding
  <2>1. candidate = NoData /\ dirty = {} /\ queries = <<>>
    BY Zenon
  <2> HIDE DEF Init
  <2>2. dirty \subseteq Keys /\ queries \in Seq(Keys)
    BY <2>1
  <2> QED
    BY <1>0, <1>4, <2>1, <2>2, Zenon DEF Holding
<1>11. Disconnected
  BY <1>0 DEF Disconnected
<1>12. PastDevices /\ PastEvents
  BY <1>0, <1>4 DEF PastDevices, PastEvents
<1>13. NotOlder /\ Tracked /\ StaleIsNoticed
  BY <1>0, Zenon DEF NotOlder, Tracked, StaleIsNoticed, Behind
<1> QED
  BY <1>1, <1>5, <1>6, <1>7, <1>8, <1>9, <1>10, <1>11, <1>12, <1>13, Zenon DEF IInv, Shape

(* Every step keeps it.                                                    *)
LEMMA IInvStep == IInv /\ [Next]_vars => IInv'
<1> SUFFICES ASSUME IInv, [Next]_vars PROVE IInv'
  OBVIOUS
<1>1. /\ Shape /\ Epochs /\ World /\ Reading /\ Inboxing /\ Turning
      /\ OneResync /\ Holding /\ Disconnected
      /\ PastDevices /\ PastEvents /\ NotOlder /\ Tracked /\ StaleIsNoticed
  BY Zenon DEF IInv, Shape
<1>2. routeEvents \in BOOLEAN
  BY <1>1, Zenon DEF Turning
<1>3. \A i \in 1 .. Len(inbox) : Known(inbox[i].msg)
  BY <1>1, Zenon DEF PastEvents
<1>4. Epochs' /\ World'
  BY <1>1, EpochsStep, WorldStep, Zenon
<1>5. Reading'
  BY <1>1, <1>2, ReadingStep, Zenon
<1>6. Inboxing' /\ Turning'
  BY <1>1, InboxingStep, TurningStep, Zenon
<1>7. OneResync'
  BY <1>1, OneResyncStep, Zenon
<1>8. Holding'
  BY <1>1, <1>3, HoldingStep, Zenon
<1>9. Disconnected'
  BY <1>1, DisconnectedStep, Zenon
<1>10. Shape'
  BY <1>4, <1>5, <1>6, <1>7, <1>8, <1>9, Zenon DEF Shape
<1>11. PastDevices' /\ PastEvents' /\ NotOlder'
  BY <1>1, PastDevicesStep, PastEventsStep, NotOlderStep, Zenon
<1>12. Tracked' /\ StaleIsNoticed'
  BY <1>1, <1>10, TrackedStep, StaleStep, Zenon
<1> QED
  BY <1>10, <1>11, <1>12, Zenon DEF IInv

(* The invariant holds in every state of the monitor.                      *)
THEOREM Invariance == Spec => []IInv
BY InitIInv, IInvStep, PTL DEF Spec

(* The types, for any devices and capacities.  The socket and the inbox    *)
(* are never fuller than they can be, and the reader, which has at most    *)
(* two statuses to report, never waits for the owner (notify).             *)
THEOREM TypeCorrect == Spec => []TypeOK
BY Invariance, ShapeTyped, PTL DEF IInv

(* Whatever is lost, read, answered too late or committed, a device whose  *)
(* state is not the kernel's has a notification on its way, or the owner   *)
(* is going to resynchronise (commit, markDirty, acceptQuery).             *)
THEOREM NoStaleDeviceGoesUnnoticed == Spec => []StaleIsNoticed
BY Invariance, PTL DEF IInv

(* commit never replaces the state of a device by one that an event had    *)
(* already replaced.                                                       *)
THEOREM CommitsForward == Spec => CommitNeverGoesBack
<1>1. IInv /\ [Next]_vars =>
        [active /\ ~active' /\ ~pending' => \A k \in Keys : inventory'[k].ver >= inventory[k].ver]_vars
  BY CommitStep, Zenon DEF IInv
<1> QED
  BY <1>1, Invariance, PTL DEF Spec, CommitNeverGoesBack
==============================================================================
