--------------------------- MODULE S3ParquetProofs ---------------------------
(***************************************************************************)
(* What S3Parquet guarantees for any senders, envelopes, row counts,       *)
(* capacities, thresholds and numbers of attempts.                         *)
(*                                                                         *)
(* The inductive invariant follows an envelope (Envs: it is unsent, with   *)
(* one sender, on the queue once, or taken), the worker (Control), every   *)
(* row (RowsOnce: pending, or in exactly one of the file and the outcomes) *)
(* and the objects of the bucket (Objects).                                *)
(***************************************************************************)
EXTENDS S3Parquet, TLAPS

Uploading == wpc \in {"finalize", "put", "backoff"}
InQueue(e) == \E k \in 1 .. Len(queue) : queue[k] = e

(* Row k of envelope e still waits for the worker.                         *)
Pending(e, k) == InQueue(e) \/ (e = item /\ k >= next)

(* An envelope is unsent, or with one sender, or on the queue once, or     *)
(* done with; its buffer is in the pool in the last case only.             *)
Held ==
  /\ \A s \in Senders : spc[s] # "idle" <=> senv[s] # None
  /\ \A s, t \in Senders : s # t /\ senv[s] # None => senv[s] # senv[t]
  /\ \A s \in Senders : senv[s] # None =>
        senv[s] \notin unsent /\ senv[s] \notin accepted /\ pool[senv[s]] = 0
  /\ \A e \in unsent : e \notin accepted /\ pool[e] = 0

Queued ==
  /\ \A j, k \in 1 .. Len(queue) : queue[j] = queue[k] => j = k
  /\ \A k \in 1 .. Len(queue) : queue[k] \in accepted /\ pool[queue[k]] = 0
  /\ \A e \in Envelopes : pool[e] <= 1

Taken == item # None => item \in accepted /\ ~InQueue(item)

Envs == Held /\ Queued /\ Taken

Control ==
  /\ item # None <=> wpc = "rows" \/ (Uploading /\ back = "rows")
  /\ item # None => next \in 1 .. RowCount[item]
  /\ back # "select" => Uploading
  /\ wpc = "exited" \/ back = "exited" =>
        draining /\ \A k \in 1 .. Len(queue) : queue[k] \in late
  /\ draining => closed
  /\ wpc = "exited" => file = {}
  /\ wpc = "backoff" => attempt < MaxAttempts
  /\ wpc \in {"put", "backoff"} => Len(store) > 0 /\ attempt > 0

RowsOnce ==
  \A e \in Envelopes : \A k \in 1 .. RowCount[e] :
    LET r == <<e, k>>
    IN /\ e \in accepted /\ ~Pending(e, k) <=>
             r \in file \/ r \in acked \/ r \in dropped \/ r \in abandoned
       /\ r \in file => r \notin acked /\ r \notin dropped /\ r \notin abandoned
       /\ r \in acked => r \notin dropped /\ r \notin abandoned
       /\ r \in dropped => r \notin abandoned

Objects ==
  /\ \A j \in 1 .. Len(store) :
        store[j] \subseteq IF j = Len(store) /\ wpc \in {"put", "backoff"}
                           THEN file ELSE Settled
  /\ ObjectsDisjoint

IInv == TypeOK /\ Envs /\ Control /\ RowsOnce /\ Objects

------------------------------------------------------------------------------
(* TypeOK, by the parts of the state it speaks of.                         *)
SendTypes ==
  /\ spc \in [Senders -> {"idle", "try", "wait"}]
  /\ senv \in [Senders -> Envelopes \cup {None}]
  /\ unsent \subseteq Envelopes
  /\ queue \in Seq(Envelopes) /\ Len(queue) <= QueueCap
  /\ pool \in [Envelopes -> Nat]
  /\ accepted \subseteq Envelopes /\ late \subseteq accepted

WorkTypes ==
  /\ cpc \in {"open", "wait", "done", "timedOut", "gone"}
  /\ wpc \in {"select", "rows", "finalize", "put", "backoff", "exited"}
  /\ back \in {"select", "rows", "exited"}
  /\ item \in Envelopes \cup {None} /\ next \in Nat \ {0}
  /\ attempt \in 0 .. MaxAttempts

FileTypes ==
  /\ file \subseteq Rows /\ bytes \in Nat /\ target \in Int
  /\ threshold \in Thresholds
  /\ store \in Seq(SUBSET Rows)
  /\ acked \subseteq Rows /\ dropped \subseteq Rows /\ abandoned \subseteq Rows

FlagTypes == ctxDone \in BOOLEAN /\ draining \in BOOLEAN

(* The type invariant is the conjunction of its parts.                     *)
LEMMA TypeParts == TypeOK <=> SendTypes /\ WorkTypes /\ FileTypes /\ FlagTypes
BY Zenon DEF TypeOK, SendTypes, WorkTypes, FileTypes, FlagTypes

(* The same for the next state.                                            *)
LEMMA TypePartsNext == SendTypes' /\ WorkTypes' /\ FileTypes' /\ FlagTypes' => TypeOK'
BY Zenon DEF TypeOK, SendTypes, WorkTypes, FileTypes, FlagTypes

(* What Append does, for the queue and the store.                          *)
LEMMA AppendFacts ==
  ASSUME NEW S, NEW q \in Seq(S), NEW e \in S
  PROVE  /\ Append(q, e) \in Seq(S)
         /\ Len(q) \in Nat
         /\ Len(Append(q, e)) = Len(q) + 1
         /\ \A k \in 1 .. Len(q) : Append(q, e)[k] = q[k]
         /\ Append(q, e)[Len(q) + 1] = e
OBVIOUS

(* What Head and Tail do, for the queue.                                   *)
LEMMA TailFacts ==
  ASSUME NEW S, NEW q \in Seq(S), q # <<>>
  PROVE  /\ Tail(q) \in Seq(S)
         /\ Len(q) \in Nat \ {0}
         /\ Len(Tail(q)) = Len(q) - 1
         /\ Head(q) = q[1] /\ Head(q) \in S
         /\ \A k \in 1 .. Len(q) - 1 : Tail(q)[k] = q[k + 1]
OBVIOUS

(* A row number of an envelope makes a row.                                *)
LEMMA RowMember ==
  ASSUME NEW e \in Envelopes, NEW k \in 1 .. RowCount[e]
  PROVE  <<e, k>> \in Rows
BY DEF Rows, RowsOf

(* Every row is a row number of some envelope.                             *)
LEMMA RowShape ==
  ASSUME NEW r \in Rows
  PROVE  \E e \in Envelopes : \E k \in 1 .. RowCount[e] : r = <<e, k>> /\ r \in RowsOf(e)
BY DEF Rows, RowsOf

(* An envelope's rows are rows.                                            *)
LEMMA RowsOfSubset == ASSUME NEW e \in Envelopes PROVE RowsOf(e) \subseteq Rows
BY DEF Rows

(* A row belongs to one envelope only.                                     *)
LEMMA RowsOfMember ==
  ASSUME NEW d \in Envelopes, NEW e, NEW k
  PROVE  <<e, k>> \in RowsOf(d) <=> e = d /\ k \in 1 .. RowCount[d]
BY DEF RowsOf

(* A builder starts with an integer target.                                *)
LEMMA JitterInt ==
  ASSUME NEW t \in Nat PROVE JitteredThreshold(t) \subseteq Int
<1> DEFINE limit == (t * JitterPct) \div 100
<1>1. limit \in Int
  BY NumbersAssumption
<1> QED
  BY <1>1 DEF JitteredThreshold

------------------------------------------------------------------------------
(* The invariant holds when the destination was created, before the first  *)
(* Send.                                                                   *)
THEOREM InitInv == Init => IInv
<1> SUFFICES ASSUME Init PROVE IInv
  OBVIOUS
<1> USE DEF Init
<1>1. target \in Int /\ threshold \in Thresholds
  BY JitterInt, SetsAssumption
<1>2. TypeOK
  <2>1. senv \in [Senders -> Envelopes \cup {None}] /\ item \in Envelopes \cup {None}
    OBVIOUS
  <2>2. queue \in Seq(Envelopes) /\ Len(queue) <= QueueCap /\ store \in Seq(SUBSET Rows)
    BY NumbersAssumption
  <2>3. attempt \in 0 .. MaxAttempts
    BY NumbersAssumption
  <2>4. draining \in BOOLEAN /\ ctxDone \in BOOLEAN
    BY Zenon
  <2>5. file \subseteq Rows /\ acked \subseteq Rows /\ dropped \subseteq Rows /\ abandoned \subseteq Rows
    BY Zenon
  <2> QED
    BY <1>1, <2>1, <2>2, <2>3, <2>4, <2>5 DEF TypeOK
<1>3. Envs
  BY DEF Envs, Held, Queued, Taken, InQueue
<1>4. Control
  BY DEF Control, Uploading, closed
<1>5. RowsOnce
  BY DEF RowsOnce
<1>6. Objects
  BY DEF Objects, ObjectsDisjoint
<1> QED
  BY <1>2, <1>3, <1>4, <1>5, <1>6 DEF IInv

------------------------------------------------------------------------------
(* What the shared parts of actions do.                                    *)

(* A sender inside Send holds an envelope that nobody else has taken and   *)
(* whose buffer was not returned.                                          *)
LEMMA HeldEnvelope ==
  ASSUME SendTypes, Envs, NEW s \in Senders, spc[s] # "idle"
  PROVE  /\ senv[s] \in Envelopes /\ senv[s] # None
         /\ senv[s] \notin unsent /\ senv[s] \notin accepted /\ pool[senv[s]] = 0
BY DEF SendTypes, Envs, Held

(* After an upload, successful or given up, startBuilder has left an empty *)
(* file and the worker is where it was.                                    *)
LEMMA ReturnTypes ==
  ASSUME FileTypes, Return
  PROVE  /\ file' = {} /\ bytes' = 0 /\ target' \in Int
         /\ wpc' = back /\ back' = "select" /\ attempt' = 0
<1>1. threshold \in Nat
  BY SetsAssumption DEF FileTypes
<1> QED
  BY <1>1, JitterInt DEF Return, StartBuilder

(* A new key in the bucket leaves the objects there are.                   *)
LEMMA StoreAppend ==
  ASSUME FileTypes
  PROVE  /\ Append(store, {}) \in Seq(SUBSET Rows)
         /\ Len(store) \in Nat
         /\ Len(Append(store, {})) = Len(store) + 1
         /\ \A k \in 1 .. Len(store) : Append(store, {})[k] = store[k]
         /\ Append(store, {})[Len(store) + 1] = {}
BY AppendFacts DEF FileTypes

(* A put changes the object of the current key only.                       *)
LEMMA StorePut ==
  ASSUME FileTypes, Len(store) > 0, PutStores
  PROVE  /\ store' \in Seq(SUBSET Rows)
         /\ Len(store') = Len(store) /\ Len(store) \in Nat
         /\ \A k \in 1 .. Len(store) :
               store'[k] = IF k = Len(store) THEN file ELSE store[k]
BY DEF FileTypes, PutStores

(* What one step of Send can do: queue the envelope, reject it, or go on   *)
(* waiting.                                                                *)
LEMMA SendFacts ==
  ASSUME NEW s \in Senders, Send(s)
  PROVE  /\ spc[s] # "idle"
         /\ \/ Enqueue(s)
            \/ (closed \/ ctxDone) /\ Reject(s)
            \/ spc' = [spc EXCEPT ![s] = "wait"] /\ UNCHANGED <<senv, queue, pool, accepted, late>>
         /\ UNCHANGED <<unsent, ctxDone, cpc, workVars, buildVars, threshold, store,
                        histVars>>
BY DEF Send, SendTry, SendWait

(* The flags stay Boolean.                                                 *)
LEMMA FlagNext == IInv /\ Next => FlagTypes'
<1> SUFFICES ASSUME IInv, Next PROVE FlagTypes'
  OBVIOUS
<1>1. FlagTypes
  BY TypeParts DEF IInv
<1>2. ctxDone' \in {ctxDone, TRUE}
  BY SendFacts, ZenonT(60) DEF Next, Step, Worker, Upload, CallSend, Cancel, CallClose,
    CloseReturns, ProcessExits, WorkerTake,
     WriteRow, FlushTimer, StartDrain, EndDrain, Finalize, PutSucceeds, PutFails, Retry,
     Abandon, ApplyControl
<1>3. draining' \in {draining, TRUE}
  BY SendFacts, ZenonT(60) DEF Next, Step, Worker, Upload, CallSend, Cancel, CallClose,
    CloseReturns, ProcessExits, WorkerTake,
     WriteRow, FlushTimer, StartDrain, EndDrain, Finalize, PutSucceeds, PutFails, Retry,
     Abandon, ApplyControl, workVars
<1> QED
  BY <1>1, <1>2, <1>3, Zenon DEF FlagTypes

(* Send and Close keep the types of the queue and the pool.                *)
LEMMA SendTypesNext == IInv /\ Next => SendTypes'
<1> SUFFICES ASSUME IInv, Next PROVE SendTypes'
  OBVIOUS
<1>0. SendTypes /\ Envs
  BY TypeParts DEF IInv
<1>1. ASSUME NEW s \in Senders, Send(s) PROVE SendTypes'
  <2>0. spc[s] # "idle" /\ senv[s] \in Envelopes
    BY <1>0, <1>1, SendFacts, HeldEnvelope
  <2>1. CASE Enqueue(s)
    <3>1. queue' \in Seq(Envelopes) /\ Len(queue') <= QueueCap
      BY <1>0, <2>0, <2>1, AppendFacts, NumbersAssumption DEF SendTypes, Enqueue
    <3>2. accepted' \subseteq Envelopes /\ late' \subseteq accepted'
      BY <1>0, <2>0, <2>1 DEF SendTypes, Enqueue
    <3>3. spc' \in [Senders -> {"idle", "try", "wait"}] /\ senv' \in [Senders -> Envelopes \cup {None}]
      BY <1>0, <2>1 DEF SendTypes, Enqueue
    <3> QED
      BY <1>0, <1>1, <2>1, <3>1, <3>2, <3>3, SendFacts, Zenon DEF SendTypes, Enqueue
  <2>2. CASE Reject(s)
    <3>1. spc' \in [Senders -> {"idle", "try", "wait"}] /\ senv' \in [Senders -> Envelopes \cup {None}]
      BY <1>0, <2>2 DEF SendTypes, Reject
    <3>2. pool' \in [Envelopes -> Nat]
      BY <1>0, <2>0, <2>2 DEF SendTypes, Reject
    <3> QED
      BY <1>0, <1>1, <2>2, <3>1, <3>2, SendFacts, Zenon DEF SendTypes, Reject
  <2>3. CASE spc' = [spc EXCEPT ![s] = "wait"] /\ UNCHANGED <<senv, queue, pool, accepted, late>>
    BY <1>0, <1>1, <2>3, SendFacts DEF SendTypes
  <2> QED
    BY <1>1, <2>1, <2>2, <2>3, SendFacts
<1>2. ASSUME NEW s \in Senders, NEW e \in Envelopes, CallSend(s, e) PROVE SendTypes'
  <2>1. spc' \in [Senders -> {"idle", "try", "wait"}] /\ senv' \in [Senders -> Envelopes \cup {None}]
    BY <1>0, <1>2 DEF SendTypes, CallSend
  <2>2. pool' \in [Envelopes -> Nat]
    BY <1>0, <1>2, SMTT(30) DEF SendTypes, CallSend
  <2> QED
    BY <1>0, <1>2, <2>1, <2>2 DEF SendTypes, CallSend
<1>3. CASE WorkerTake
  <2>1. /\ queue' \in Seq(Envelopes) /\ Len(queue') <= QueueCap
        /\ Head(queue) \in Envelopes
    BY <1>0, <1>3, TailFacts, NumbersAssumption DEF SendTypes, WorkerTake
  <2> QED
    BY <1>0, <1>3, <2>1 DEF SendTypes, WorkerTake, sendVars
<1>4. CASE UNCHANGED <<sendVars, queue, pool, accepted, late>>
  BY <1>0, <1>4 DEF SendTypes, sendVars
<1> QED
  BY <1>1, <1>2, <1>3, <1>4, Zenon DEF Next, Step, Worker, Upload, Cancel, CallClose,
    CloseReturns, ProcessExits, WriteRow,
     FlushTimer, StartDrain, EndDrain, Finalize, PutSucceeds, PutFails, Retry, Abandon, ApplyControl

(* The worker keeps the types of its own state.                            *)
LEMMA WorkTypesNext == IInv /\ Next => WorkTypes'
<1> SUFFICES ASSUME IInv, Next PROVE WorkTypes'
  OBVIOUS
<1>0. SendTypes /\ WorkTypes /\ FileTypes /\ Control
  BY TypeParts DEF IInv
<1>1. CASE UNCHANGED <<cpc, workVars>>
  BY <1>0, <1>1 DEF WorkTypes, workVars
<1>2. CASE CallClose \/ CloseReturns \/ ProcessExits
  BY <1>0, <1>2 DEF WorkTypes, CallClose, CloseReturns, ProcessExits, workVars
<1>3. CASE WorkerTake
  <2>1. Head(queue) \in Envelopes
    BY <1>0, <1>3, TailFacts DEF SendTypes, WorkerTake
  <2> QED
    BY <1>0, <1>3, <2>1 DEF WorkTypes, WorkerTake
<1>4. CASE WriteRow
  <2>1. item \in Envelopes /\ next \in 1 .. RowCount[item] /\ RowCount[item] \in Nat
    BY <1>0, <1>4, RowCountAssumption DEF WorkTypes, Control, WriteRow
  <2>2. item' \in Envelopes \cup {None} /\ next' \in Nat \ {0}
    BY <1>0, <1>4, <2>1 DEF WorkTypes, WriteRow, AdvanceRow
  <2> QED
    BY <1>0, <1>4, <2>2 DEF WorkTypes, WriteRow, AfterRow
<1>5. CASE FlushTimer \/ StartDrain \/ EndDrain
  BY <1>0, <1>5 DEF WorkTypes, FlushTimer, StartDrain, EndDrain
<1>6. CASE Retry
  BY <1>0, <1>6, NumbersAssumption DEF WorkTypes, Control, Retry
<1>7. CASE Return /\ UNCHANGED <<cpc, item, next>>
  BY <1>0, <1>7, ReturnTypes, NumbersAssumption DEF WorkTypes
<1>8. CASE Finalize /\ ~Return
  BY <1>0, <1>8, NumbersAssumption DEF WorkTypes, Finalize
<1>9. CASE PutFails /\ ~Return
  BY <1>0, <1>9 DEF WorkTypes, PutFails
<1>10. ASSUME NEW s \in Senders, Send(s) PROVE WorkTypes'
  BY <1>1, <1>10, SendFacts
<1> QED
  BY <1>1, <1>2, <1>3, <1>4, <1>5, <1>6, <1>7, <1>8, <1>9, <1>10, ZenonT(60)
  DEF Next, Step, Worker, Upload, CallSend, Cancel, ApplyControl, Finalize, PutSucceeds,
    PutFails, Abandon

(* The worker keeps the types of the file, of the bucket and of the        *)
(* counts.                                                                 *)
LEMMA FileTypesNext == IInv /\ Next => FileTypes'
<1> SUFFICES ASSUME IInv, Next PROVE FileTypes'
  OBVIOUS
<1>0. SendTypes /\ WorkTypes /\ FileTypes /\ Control
  BY TypeParts DEF IInv
<1>1. CASE UNCHANGED <<buildVars, threshold, store, histVars>>
  BY <1>0, <1>1 DEF FileTypes, buildVars, histVars
<1>2. CASE WorkerTake
  <2>1. RowsOf(Head(queue)) \subseteq Rows
    BY <1>0, <1>2, TailFacts, RowsOfSubset DEF SendTypes, WorkerTake
  <2> QED
    BY <1>0, <1>2, <2>1 DEF FileTypes, WorkerTake, buildVars
<1>3. CASE WriteRow
  <2>1. item \in Envelopes /\ next \in 1 .. RowCount[item]
    BY <1>0, <1>3 DEF WorkTypes, Control, WriteRow
  <2>2. <<item, next>> \in Rows
    BY <2>1, RowMember
  <2>3. bytes' \in Nat
    BY <1>0, <1>3, SetsAssumption DEF FileTypes, WriteRow
  <2> QED
    BY <1>0, <1>3, <2>2, <2>3 DEF FileTypes, WriteRow
<1>4. ASSUME NEW t \in Thresholds, ApplyControl(t) PROVE FileTypes'
  BY <1>0, <1>4 DEF FileTypes, ApplyControl, buildVars, histVars
<1>5. CASE Finalize
  <2>1. CASE Return
    BY <1>0, <1>5, <2>1, ReturnTypes DEF FileTypes, Finalize
  <2>2. CASE ~Return
    BY <1>0, <1>5, <2>2, StoreAppend DEF FileTypes, Finalize, buildVars
  <2> QED
    BY <2>1, <2>2
<1>6. CASE PutSucceeds
  BY <1>0, <1>6, ReturnTypes, StorePut DEF FileTypes, Control, PutSucceeds
<1>7. CASE PutFails
  <2>1. store' \in Seq(SUBSET Rows)
    BY <1>0, <1>7, StorePut DEF FileTypes, Control, PutFails
  <2>2. CASE Return
    BY <1>0, <1>7, <2>1, <2>2, ReturnTypes DEF FileTypes, PutFails
  <2>3. CASE ~Return
    BY <1>0, <1>7, <2>1, <2>3 DEF FileTypes, PutFails, buildVars
  <2> QED
    BY <2>2, <2>3
<1>8. CASE Abandon
  BY <1>0, <1>8, ReturnTypes DEF FileTypes, Abandon
<1>9. ASSUME NEW s \in Senders, Send(s) PROVE FileTypes'
  BY <1>1, <1>9, SendFacts, SMTT(30)
<1> QED
  BY <1>1, <1>2, <1>3, <1>4, <1>5, <1>6, <1>7, <1>8, <1>9, ZenonT(60)
  DEF Next, Step, Worker, Upload, CallSend, Cancel, CallClose, CloseReturns, ProcessExits,
    FlushTimer, StartDrain,
      EndDrain, Retry

------------------------------------------------------------------------------
(* No step gives an envelope two holders or returns a buffer twice (Send,  *)
(* worker).                                                                *)
LEMMA EnvsNext == IInv /\ Next => Envs'
<1> SUFFICES ASSUME IInv, Next PROVE Envs'
  OBVIOUS
<1>0. SendTypes /\ WorkTypes /\ Held /\ Queued /\ Taken /\ Envs /\ Control /\ Len(queue) \in Nat
  BY TypeParts DEF IInv, Envs, SendTypes
<1>1. ASSUME NEW s \in Senders, Send(s) PROVE Envs'
  <2>0. /\ spc[s] # "idle" /\ senv[s] \in Envelopes /\ senv[s] # None
        /\ senv[s] \notin unsent /\ senv[s] \notin accepted /\ pool[senv[s]] = 0
        /\ unsent' = unsent /\ item' = item
    <3>1. spc[s] # "idle" /\ UNCHANGED <<unsent, workVars>>
      BY <1>1, SendFacts, Zenon
    <3> QED
      BY <1>0, <3>1, HeldEnvelope, Zenon DEF workVars
  <2>1. CASE Enqueue(s)
    <3>0. /\ Len(queue') = Len(queue) + 1
          /\ \A k \in 1 .. Len(queue) : queue'[k] = queue[k]
          /\ queue'[Len(queue) + 1] = senv[s]
      <4>1. queue \in Seq(Envelopes) /\ queue' = Append(queue, senv[s])
        BY <1>0, <2>1, Zenon DEF SendTypes, Enqueue
      <4> QED
        BY <2>0, <4>1, SMTT(30)
    <3>1. Held'
      BY <1>0, <2>0, <2>1 DEF Held, SendTypes, Enqueue
    <3>2. Queued'
      BY <1>0, <2>0, <2>1, <3>0, SMTT(30) DEF Queued, SendTypes, Enqueue
    <3>3. Taken'
      BY <1>0, <2>0, <2>1, <3>0 DEF Taken, InQueue, Enqueue
    <3> QED
      BY <3>1, <3>2, <3>3, SMTT(30) DEF Envs
  <2>2. CASE Reject(s)
    <3>1. Held'
      BY <1>0, <2>0, <2>2 DEF Held, SendTypes, Reject
    <3>2. Queued'
      BY <1>0, <2>0, <2>2 DEF Queued, SendTypes, Reject
    <3>3. Taken'
      BY <1>0, <2>0, <2>2 DEF Taken, InQueue, Reject
    <3> QED
      BY <3>1, <3>2, <3>3 DEF Envs
  <2>3. CASE spc' = [spc EXCEPT ![s] = "wait"] /\ UNCHANGED <<senv, queue, pool, accepted, late>>
    BY <1>0, <2>0, <2>3 DEF Envs, Held, Queued, Taken, InQueue, SendTypes
  <2> QED
    BY <1>1, <2>1, <2>2, <2>3, SendFacts, SMTT(30)
<1>2. ASSUME NEW s \in Senders, NEW e \in Envelopes, CallSend(s, e) PROVE Envs'
  <2>0. e # None /\ senv[s] = None
    BY <1>0, <1>2, SetsAssumption DEF Held, CallSend
  <2>1. Held'
    <3>1. CASE closed
      BY <1>0, <1>2, <2>0, <3>1 DEF Held, SendTypes, CallSend
    <3>2. CASE ~closed
      BY <1>0, <1>2, <2>0, <3>2, SMTT(30) DEF Held, SendTypes, CallSend
    <3> QED
      BY <3>1, <3>2
  <2>2. Queued'
    <3>1. UNCHANGED <<queue, accepted>> /\ e \in unsent
      BY <1>2, Zenon DEF CallSend
    <3>2. pool[e] = 0 /\ \A k \in 1 .. Len(queue) : queue[k] # e
      BY <1>0, <3>1 DEF Held, Queued
    <3>3. \A d \in Envelopes : pool'[d] = pool[d] \/ (d = e /\ pool'[d] = pool[d] + 1)
      BY <1>0, <1>2 DEF SendTypes, CallSend
    <3>4. \A k \in 1 .. Len(queue) : queue[k] \in Envelopes
      BY <1>0 DEF SendTypes
    <3> QED
      BY <1>0, <3>1, <3>2, <3>3, <3>4 DEF Queued
  <2>3. Taken'
    BY <1>0, <1>2 DEF Taken, InQueue, CallSend, workVars
  <2> QED
    BY <2>1, <2>2, <2>3 DEF Envs
<1>3. CASE WorkerTake
  <2>0. /\ Len(queue) \in Nat \ {0} /\ Len(queue') = Len(queue) - 1
        /\ Head(queue) = queue[1] /\ Head(queue) \in Envelopes
        /\ \A k \in 1 .. Len(queue) - 1 : queue'[k] = queue[k + 1]
    BY <1>0, <1>3, TailFacts DEF SendTypes, WorkerTake
  <2>1. Held'
    BY <1>0, <1>3, <2>0 DEF Held, Queued, SendTypes, WorkerTake, sendVars
  <2>2. Queued'
    <3>1. \A e \in Envelopes : pool'[e] = IF e = queue[1] THEN pool[e] + 1 ELSE pool[e]
      BY <1>0, <1>3, <2>0 DEF SendTypes, WorkerTake
    <3>2. \A k \in 1 .. Len(queue') : k + 1 \in 1 .. Len(queue) /\ queue'[k] = queue[k + 1] /\ queue'[k] # queue[1]
      BY <1>0, <2>0 DEF Queued
    <3>3. \A j, k \in 1 .. Len(queue') : queue'[j] = queue'[k] => j = k
      BY <1>0, <2>0, <3>2 DEF Queued
    <3>4. \A k \in 1 .. Len(queue') : queue'[k] \in accepted' /\ pool'[queue'[k]] = 0
      BY <1>0, <1>3, <3>1, <3>2 DEF Queued, SendTypes, WorkerTake
    <3>5. \A e \in Envelopes : pool'[e] <= 1
      BY <1>0, <2>0, <3>1 DEF Queued, SendTypes
    <3> QED
      BY <3>3, <3>4, <3>5 DEF Queued
  <2>3. Taken'
    <3>1. item = None
      BY <1>0, <1>3 DEF Control, Uploading, WorkerTake
    <3> QED
      BY <1>0, <1>3, <2>0, <3>1 DEF Taken, Queued, InQueue, WorkerTake
  <2> QED
    BY <2>1, <2>2, <2>3 DEF Envs
<1>4. CASE UNCHANGED <<sendVars, queue, pool, accepted>> /\ item' \in {item, None}
  BY <1>0, <1>4 DEF Envs, Held, Queued, Taken, InQueue, sendVars
<1>5. CASE WriteRow
  BY <1>4, <1>5, SMTT(30) DEF WriteRow, AdvanceRow
<1> QED
  BY <1>1, <1>2, <1>3, <1>4, <1>5, Zenon DEF Next, Step, Worker, Upload, Cancel, CallClose,
    CloseReturns, ProcessExits,
     FlushTimer, StartDrain, EndDrain, Finalize, PutSucceeds, PutFails, Retry, Abandon,
     ApplyControl, workVars

(* The worker leaves only once the queue holds nothing but envelopes that  *)
(* came after Close, and with no row in the builder (worker).              *)
LEMMA ControlNext == IInv /\ Next => Control'
<1> SUFFICES ASSUME IInv, Next PROVE Control'
  OBVIOUS
<1>0. SendTypes /\ WorkTypes /\ FileTypes /\ Control /\ Len(queue) \in Nat
  BY TypeParts DEF IInv, SendTypes
<1>1. ASSUME NEW s \in Senders, Send(s) PROVE Control'
  <2>0. UNCHANGED <<cpc, workVars, buildVars, store>> /\ senv[s] \in Envelopes
    <3>1. spc[s] # "idle" /\ UNCHANGED <<cpc, workVars, buildVars, store>>
      BY <1>1, SendFacts, Zenon
    <3> QED
      BY <1>0, <3>1, HeldEnvelope, Zenon DEF IInv
  <2>1. CASE Enqueue(s)
    <3>0. /\ Len(queue') = Len(queue) + 1
          /\ \A k \in 1 .. Len(queue) : queue'[k] = queue[k]
          /\ queue'[Len(queue) + 1] = senv[s]
      <4>1. queue \in Seq(Envelopes) /\ queue' = Append(queue, senv[s])
        BY <1>0, <2>1, SMTT(30) DEF SendTypes, Enqueue
      <4> QED
        BY <2>0, <4>1, SMTT(30)
    <3>1. wpc = "exited" \/ back = "exited" =>
             draining /\ \A k \in 1 .. Len(queue') : queue'[k] \in late'
      BY <1>0, <2>1, <3>0, SMTT(30) DEF Control, Enqueue
    <3> QED
      BY <1>0, <2>0, <3>1, SMTT(30) DEF Control, Uploading, closed, workVars, buildVars
  <2>2. CASE UNCHANGED <<queue, late>>
    BY <1>0, <2>0, <2>2 DEF Control, Uploading, closed, workVars, buildVars
  <2> QED
    BY <1>1, <2>1, <2>2, SendFacts, SMTT(30) DEF Reject
<1>2. CASE UNCHANGED <<queue, cpc, workVars, buildVars, store, late>>
  BY <1>0, <1>2 DEF Control, Uploading, closed, workVars, buildVars
<1>3. CASE CallClose \/ CloseReturns \/ ProcessExits
  BY <1>0, <1>3 DEF Control, Uploading, closed, CallClose, CloseReturns, ProcessExits, workVars,
    buildVars
<1>4. CASE WorkerTake
  <2>1. Head(queue) \in Envelopes
    BY <1>0, <1>4, TailFacts DEF SendTypes, WorkerTake
  <2>2. Head(queue) # None /\ 1 \in 1 .. RowCount[Head(queue)]
    BY <2>1, SetsAssumption, RowCountAssumption
  <2> QED
    BY <1>0, <1>4, <2>1, <2>2 DEF Control, Uploading, closed, WorkerTake, buildVars
<1>5. CASE WriteRow
  <2>1. item \in Envelopes /\ next \in 1 .. RowCount[item] /\ RowCount[item] \in Nat /\ item # None
    BY <1>0, <1>5, RowCountAssumption, SMTT(30) DEF WorkTypes, Control, WriteRow
  <2>2. item' # None <=> next # RowCount[item]
    BY <1>5, <2>1 DEF WriteRow, AdvanceRow
  <2>3. item' # None => next' \in 1 .. RowCount[item']
    BY <1>5, <2>1 DEF WriteRow, AdvanceRow
  <2>4. back = "select"
    BY <1>0, <1>5, SMTT(30) DEF Control, Uploading, WriteRow
  <2> QED
    BY <1>0, <1>5, <2>2, <2>3, <2>4 DEF Control, Uploading, closed, WriteRow, AfterRow
<1>6. CASE FlushTimer \/ StartDrain \/ EndDrain \/ Retry
  BY <1>0, <1>6, SMTT(30) DEF Control, Uploading, closed, WorkTypes, FlushTimer, StartDrain,
    EndDrain, Retry,
     buildVars
<1>7. ASSUME NEW t \in Thresholds, ApplyControl(t) PROVE Control'
  BY <1>2, <1>7 DEF ApplyControl
<1>8. CASE Return /\ Uploading /\ UNCHANGED <<queue, cpc, draining, item, next, late>>
  <2>1. wpc' = back /\ back' = "select" /\ file' = {}
    BY <1>0, <1>8, ReturnTypes
  <2>2. item' # None <=> wpc' = "rows"
    BY <1>0, <1>8, <2>1 DEF Control, Uploading
  <2>3. back' = "select" /\ ~Uploading'
    BY <1>0, <2>1, SMTT(30) DEF Uploading, WorkTypes
  <2> QED
    BY <1>0, <1>8, <2>1, <2>2, <2>3 DEF Control, Uploading, closed
<1>9. CASE Finalize /\ ~Return
  BY <1>0, <1>9, StoreAppend DEF Control, Uploading, closed, Finalize, buildVars
<1>10. CASE PutFails /\ ~Return
  <2>1. Len(store') > 0
    BY <1>0, <1>10, StorePut DEF Control, PutFails
  <2> QED
    BY <1>0, <1>10, <2>1 DEF Control, Uploading, closed, PutFails, buildVars
<1> QED
  BY <1>1, <1>2, <1>3, <1>4, <1>5, <1>6, <1>7, <1>8, <1>9, <1>10, Zenon
  DEF Next, Step, Worker, Upload, Uploading, CallSend, Cancel, Finalize, PutSucceeds, PutFails,
    Abandon

------------------------------------------------------------------------------
(* No step puts a row in two places or loses it (worker, uploadWithRetry). *)
LEMMA RowsOnceNext == IInv /\ Next => RowsOnce'
<1> SUFFICES ASSUME IInv, Next PROVE RowsOnce'
  OBVIOUS
<1>0. /\ SendTypes /\ WorkTypes /\ FileTypes /\ Control /\ RowsOnce /\ Held /\ Queued /\ Taken
      /\ Len(queue) \in Nat
  BY TypeParts DEF IInv, SendTypes, Envs
<1>1. ASSUME NEW s \in Senders, Send(s) PROVE RowsOnce'
  <2>0. /\ UNCHANGED <<workVars, buildVars, histVars>> /\ senv[s] \in Envelopes
        /\ senv[s] \notin accepted
    BY <1>0, <1>1, SendFacts, HeldEnvelope DEF IInv
  <2>1. CASE Enqueue(s)
    <3>0. /\ Len(queue') = Len(queue) + 1
          /\ \A k \in 1 .. Len(queue) : queue'[k] = queue[k]
          /\ queue'[Len(queue) + 1] = senv[s]
      BY <1>0, <2>0, <2>1, AppendFacts DEF SendTypes, Enqueue
    <3>1. \A e : InQueue(e)' <=> InQueue(e) \/ e = senv[s]
      BY <1>0, <3>0 DEF InQueue
    <3> QED
      BY <1>0, <2>0, <2>1, <3>1, ZenonT(60) DEF RowsOnce, Pending, Enqueue, workVars, buildVars,
        histVars
  <2>2. CASE UNCHANGED <<queue, accepted>>
    BY <1>0, <2>0, <2>2, ZenonT(60) DEF RowsOnce, Pending, InQueue, workVars, buildVars, histVars
  <2> QED
    BY <1>1, <2>1, <2>2, SendFacts DEF Reject
<1>2. CASE UNCHANGED <<queue, item, next, file, accepted, histVars>>
  BY <1>0, <1>2, ZenonT(60) DEF RowsOnce, Pending, InQueue, histVars
<1>3. CASE WorkerTake
  <2>0. /\ Len(queue) \in Nat \ {0} /\ Len(queue') = Len(queue) - 1
        /\ Head(queue) = queue[1] /\ Head(queue) \in Envelopes
        /\ \A k \in 1 .. Len(queue) - 1 : queue'[k] = queue[k + 1]
    BY <1>0, <1>3, TailFacts DEF SendTypes, WorkerTake
  <2>1. \A e : InQueue(e)' <=> InQueue(e) /\ e # Head(queue)
    <3>1. \A e : InQueue(e)' => InQueue(e) /\ e # Head(queue)
      BY <1>0, <2>0 DEF InQueue, Queued
    <3>2. ASSUME NEW e, InQueue(e), e # Head(queue) PROVE InQueue(e)'
      <4>1. PICK k \in 1 .. Len(queue) : queue[k] = e
        BY <3>2 DEF InQueue
      <4>2. k # 1 /\ k - 1 \in 1 .. Len(queue') /\ queue'[k - 1] = e
        BY <2>0, <3>2, <4>1
      <4> QED
        BY <4>2 DEF InQueue
    <3> QED
      BY <3>1, <3>2
  <2>2. item = None /\ None \notin Envelopes /\ Head(queue) \in accepted /\ InQueue(Head(queue))
    BY <1>0, <1>3, <2>0, SetsAssumption DEF Control, Uploading, Queued, InQueue, WorkerTake
  <2>3. \A e, k : <<e, k>> \in RowsOf(Head(queue)) <=> e = Head(queue) /\ k \in 1 .. RowCount[e]
    BY <2>0, RowsOfMember, Zenon
  <2>4. CASE dropped' = dropped \cup RowsOf(Head(queue)) /\ UNCHANGED <<wpc, item, next>>
    BY <1>0, <1>3, <2>1, <2>2, <2>3, <2>4, ZenonT(60) DEF RowsOnce, Pending, WorkerTake, buildVars
  <2>5. CASE item' = Head(queue) /\ next' = 1 /\ wpc' = "rows" /\ UNCHANGED dropped
    <3>1. \A e \in Envelopes : \A k \in 1 .. RowCount[e] : Pending(e, k)' <=> Pending(e, k)
      BY <2>1, <2>2, <2>5, RowCountAssumption DEF Pending
    <3> QED
      BY <1>0, <1>3, <2>5, <3>1, ZenonT(60) DEF RowsOnce, WorkerTake, buildVars
  <2> QED
    BY <1>3, <2>4, <2>5 DEF WorkerTake
<1>4. CASE WriteRow
  <2>1. item \in Envelopes /\ next \in 1 .. RowCount[item] /\ item # None /\ RowCount[item] \in Nat
    BY <1>0, <1>4, RowCountAssumption DEF WorkTypes, Control, WriteRow
  <2>2. item \in accepted /\ ~InQueue(item) /\ None \notin Envelopes
    BY <1>0, <2>1, SetsAssumption DEF Taken
  <2>3. \A e \in Envelopes : \A k \in 1 .. RowCount[e] :
           Pending(e, k)' <=> Pending(e, k) /\ <<e, k>> # <<item, next>>
    BY <1>4, <2>1, <2>2 DEF Pending, InQueue, WriteRow, AdvanceRow
  <2>4. Pending(item, next)
    BY <2>1 DEF Pending
  <2>5. CASE dropped' = dropped \cup {<<item, next>>} /\ file' = file
    BY <1>0, <1>4, <2>1, <2>2, <2>3, <2>4, <2>5, ZenonT(60) DEF RowsOnce, WriteRow
  <2>6. CASE file' = file \cup {<<item, next>>} /\ dropped' = dropped
    BY <1>0, <1>4, <2>1, <2>2, <2>3, <2>4, <2>6, ZenonT(60) DEF RowsOnce, WriteRow
  <2> QED
    BY <1>4, <2>5, <2>6 DEF WriteRow
<1>5. CASE Return /\ (Finalize \/ PutSucceeds \/ PutFails \/ Abandon)
  <2>0. UNCHANGED <<queue, item, next, accepted>>
    BY <1>5 DEF Finalize, PutSucceeds, PutFails, Abandon
  <2>00. file' = {} /\ \A e, k : Pending(e, k)' <=> Pending(e, k)
    BY <1>0, <1>5, <2>0, ReturnTypes DEF Pending, InQueue
  <2>1. CASE file = {} /\ UNCHANGED histVars
    BY <1>0, <2>0, <2>00, <2>1, ZenonT(60) DEF RowsOnce, histVars
  <2>2. CASE acked' = acked \cup file /\ UNCHANGED <<dropped, abandoned>>
    BY <1>0, <2>0, <2>00, <2>2, ZenonT(60) DEF RowsOnce
  <2>3. CASE dropped' = dropped \cup file /\ UNCHANGED <<acked, abandoned>>
    BY <1>0, <2>0, <2>00, <2>3, ZenonT(60) DEF RowsOnce
  <2>4. CASE abandoned' = abandoned \cup file /\ UNCHANGED <<acked, dropped>>
    BY <1>0, <2>0, <2>00, <2>4, ZenonT(60) DEF RowsOnce
  <2>5. wpc' \notin {"put", "backoff"}
    BY <1>0, <1>5, ReturnTypes DEF WorkTypes
  <2> QED
    BY <1>5, <2>1, <2>2, <2>3, <2>4, <2>5 DEF Finalize, PutSucceeds, PutFails, Abandon, histVars
<1>6. CASE Finalize /\ ~Return
  BY <1>2, <1>6 DEF Finalize, buildVars, histVars
<1>7. CASE PutFails /\ ~Return
  BY <1>2, <1>7 DEF PutFails, buildVars, histVars
<1> QED
  BY <1>1, <1>2, <1>3, <1>4, <1>5, <1>6, <1>7, Zenon
  DEF Next, Step, Worker, Upload, CallSend, Cancel, CallClose, CloseReturns, ProcessExits,
    FlushTimer, StartDrain,
      EndDrain, Retry, ApplyControl, Finalize, PutSucceeds, PutFails, Abandon, workVars, buildVars

(* What was acknowledged, dropped or abandoned stays so.                   *)
LEMMA SettledGrows ==
  ASSUME IInv, Next
  PROVE  Settled \subseteq Settled'
BY SendFacts, Zenon DEF Settled, Next, Step, Worker, Upload, CallSend, Cancel, CallClose,
  CloseReturns, ProcessExits, WorkerTake,
   WriteRow, FlushTimer, StartDrain, EndDrain, Finalize, PutSucceeds, PutFails, Retry, Abandon,
   ApplyControl, histVars

(* No row of the file under construction is settled.                       *)
LEMMA FileUnsettled == IInv => file \cap Settled = {}
<1> SUFFICES ASSUME IInv, NEW r \in file PROVE r \notin Settled
  OBVIOUS
<1>1. PICK e \in Envelopes : \E k \in 1 .. RowCount[e] : r = <<e, k>>
  BY RowShape, TypeParts DEF IInv, FileTypes
<1>2. PICK k \in 1 .. RowCount[e] : r = <<e, k>>
  BY <1>1
<1> QED
  BY <1>2, Zenon DEF IInv, RowsOnce, Settled

(* The shape of a step for the bucket: nothing happens, a key is drawn,    *)
(* the current object is written, or the current object is settled.        *)
LEMMA ObjectsNext == IInv /\ Next => Objects'
<1> SUFFICES ASSUME IInv, Next PROVE Objects'
  OBVIOUS
<1>0. /\ WorkTypes /\ FileTypes /\ Control /\ Objects /\ Settled \subseteq Settled'
      /\ file \cap Settled = {} /\ Len(store) \in Nat
  BY TypeParts, SettledGrows, FileUnsettled DEF IInv, FileTypes
<1> DEFINE Putting == wpc \in {"put", "backoff"}
           Settles == file \subseteq Settled' /\ ~Putting'
           Keeps   == file' = file /\ Putting'
<1>1. CASE store' = store /\ (IF Putting THEN Settles \/ Keeps ELSE ~Putting')
  BY <1>0, <1>1 DEF Objects, ObjectsDisjoint
<1>2. CASE store' = Append(store, {}) /\ ~Putting /\ Putting'
  <2>1. /\ Len(store') = Len(store) + 1 /\ store'[Len(store) + 1] = {}
        /\ \A k \in 1 .. Len(store) : store'[k] = store[k] /\ store[k] \subseteq Settled
    BY <1>0, <1>2, StoreAppend DEF Objects
  <2>2. ObjectsDisjoint'
    <3> SUFFICES ASSUME NEW j \in 1 .. Len(store'), NEW k \in 1 .. Len(store'), j # k
                 PROVE  store'[j] \cap store'[k] = {}
      BY DEF ObjectsDisjoint
    <3>1. CASE j = Len(store) + 1 \/ k = Len(store) + 1
      BY <2>1, <3>1
    <3>2. CASE j \in 1 .. Len(store) /\ k \in 1 .. Len(store)
      BY <1>0, <2>1, <3>2 DEF Objects, ObjectsDisjoint
    <3> QED
      BY <1>0, <2>1, <3>1, <3>2
  <2> QED
    BY <1>0, <1>2, <2>1, <2>2 DEF Objects
<1>3. CASE PutStores /\ Putting /\ (Settles \/ Keeps)
  <2>1. /\ Len(store') = Len(store)
        /\ \A k \in 1 .. Len(store) : store'[k] = IF k = Len(store) THEN file ELSE store[k]
    BY <1>0, <1>3, StorePut DEF Control
  <2>2. \A i \in 1 .. Len(store) : i # Len(store) => store[i] \subseteq Settled
    BY <1>0 DEF Objects
  <2>3. ObjectsDisjoint'
    <3> SUFFICES ASSUME NEW j \in 1 .. Len(store), NEW k \in 1 .. Len(store), j # k
                 PROVE  store'[j] \cap store'[k] = {}
      BY <2>1 DEF ObjectsDisjoint
    <3>1. store[j] \cap store[k] = {}
      BY <1>0 DEF Objects, ObjectsDisjoint
    <3> QED
      BY <1>0, <2>1, <2>2, <3>1
  <2> QED
    BY <1>0, <1>3, <2>1, <2>2, <2>3 DEF Objects
<1>4. CASE Upload
  <2>1. CASE Finalize
    <3>1. CASE Return
      BY <1>0, <1>1, <2>1, <3>1, ReturnTypes DEF Finalize, WorkTypes
    <3>2. CASE ~Return
      BY <1>2, <2>1, <3>2 DEF Finalize
    <3> QED
      BY <3>1, <3>2
  <2>2. CASE PutSucceeds
    BY <1>0, <1>3, <2>2, ReturnTypes DEF PutSucceeds, Settled, WorkTypes
  <2>3. CASE PutFails
    <3>1. Settles \/ Keeps
      <4>1. CASE Return /\ dropped' = dropped \cup file
        BY <1>0, <4>1, ReturnTypes DEF Settled, WorkTypes
      <4>2. CASE wpc' = "backoff" /\ UNCHANGED buildVars
        BY <4>2 DEF buildVars
      <4> QED
        BY <2>3, <4>1, <4>2 DEF PutFails
    <3>2. Putting /\ (PutStores \/ store' = store)
      BY <2>3 DEF PutFails
    <3> QED
      BY <1>1, <1>3, <3>1, <3>2
  <2>4. CASE Retry
    BY <1>1, <2>4 DEF Retry, buildVars
  <2>5. CASE Abandon
    BY <1>0, <1>1, <2>5, ReturnTypes DEF Abandon, Settled, WorkTypes
  <2> QED
    BY <1>4, <2>1, <2>2, <2>3, <2>4, <2>5 DEF Upload
<1>5. CASE UNCHANGED <<store, wpc, file>>
  BY <1>1, <1>5
<1>6. CASE WorkerTake \/ WriteRow \/ FlushTimer \/ EndDrain
  BY <1>1, <1>6 DEF WorkerTake, WriteRow, AfterRow, FlushTimer, EndDrain
<1> QED
  BY <1>4, <1>5, <1>6, SendFacts, Zenon
  DEF Next, Step, Worker, CallSend, Cancel, CallClose, CloseReturns, ProcessExits, StartDrain,
    ApplyControl, workVars, buildVars

------------------------------------------------------------------------------
(* The destination never leaves the inductive invariant.                   *)
THEOREM Invariance == Spec => []IInv
<1>1. IInv /\ [Next]_vars => IInv'
  <2> SUFFICES ASSUME IInv, [Next]_vars PROVE IInv'
    OBVIOUS
  <2>1. CASE Next
    <3>1. TypeOK'
      BY <2>1, FlagNext, SendTypesNext, WorkTypesNext, FileTypesNext, TypePartsNext
    <3> QED
      BY <2>1, <3>1, EnvsNext, ControlNext, RowsOnceNext, ObjectsNext DEF IInv
  <2>2. CASE UNCHANGED vars
    <3> USE <2>2 DEF IInv, vars, sendVars, workVars, buildVars, histVars
    <3>1. TypeOK'
      <4>1. SendTypes'
        BY TypeParts, Zenon DEF SendTypes
      <4>2. WorkTypes' /\ FlagTypes'
        BY TypeParts, Zenon DEF WorkTypes, FlagTypes
      <4>3. FileTypes'
        BY TypeParts, Zenon DEF FileTypes
      <4> QED
        BY <4>1, <4>2, <4>3, TypePartsNext, Zenon
    <3>2. Envs'
      BY Zenon DEF Envs, Held, Queued, Taken, InQueue
    <3>3. Control'
      BY Zenon DEF Control, Uploading, closed
    <3>4. RowsOnce'
      BY ZenonT(60) DEF RowsOnce, Pending, InQueue
    <3>5. Objects'
      BY Zenon DEF Objects, ObjectsDisjoint, Settled
    <3> QED
      BY <3>1, <3>2, <3>3, <3>4, <3>5
  <2> QED
    BY <2>1, <2>2
<1> QED
  BY <1>1, InitInv, PTL DEF Spec

(* Every variable has its type; queueCh never exceeds its capacity.        *)
THEOREM TypeCorrect == Spec => []TypeOK
<1>1. IInv => TypeOK
  BY DEF IInv
<1> QED
  BY <1>1, Invariance, PTL

(* No row is in two objects of the bucket, however often PutObject stores  *)
(* the object and reports an error.                                        *)
THEOREM NoRowStoredTwice == Spec => []ObjectsDisjoint
<1>1. IInv => ObjectsDisjoint
  BY DEF IInv, Objects
<1> QED
  BY <1>1, Invariance, PTL

(* A pooled buffer is returned at most once, by Send or by the worker, and *)
(* not before its last user is done.                                       *)
THEOREM BuffersReturnedOnce == Spec => []BufferReturnedOnce
<1>1. IInv => BufferReturnedOnce
  BY Zenon DEF IInv, Envs, Held, Queued, BufferReturnedOnce
<1> QED
  BY <1>1, Invariance, PTL

(* A row waits in the queue when its envelope does.                        *)
LEMMA QueueRowMember ==
  ASSUME IInv, NEW e \in Envelopes, NEW k \in 1 .. RowCount[e]
  PROVE  <<e, k>> \in QueueRows <=> InQueue(e)
<1>1. \A j \in 1 .. Len(queue) : queue[j] \in Envelopes
  BY TypeParts DEF IInv, SendTypes
<1>2. <<e, k>> \in QueueRows <=> \E j \in 1 .. Len(queue) : <<e, k>> \in RowsOf(queue[j])
  BY DEF QueueRows
<1>3. ASSUME NEW j \in 1 .. Len(queue) PROVE <<e, k>> \in RowsOf(queue[j]) <=> queue[j] = e
  <2>1. queue[j] \in Envelopes
    BY <1>1
  <2>2. <<e, k>> \in RowsOf(queue[j]) <=> e = queue[j] /\ k \in 1 .. RowCount[queue[j]]
    BY <2>1, RowsOfMember, Zenon
  <2> QED
    BY <2>2
<1> QED
  BY <1>2, <1>3 DEF InQueue

(* A row was accepted when its envelope was.                               *)
LEMMA AcceptedRowMember ==
  ASSUME IInv, NEW e \in Envelopes, NEW k \in 1 .. RowCount[e]
  PROVE  <<e, k>> \in AcceptedRows <=> e \in accepted
<1>1. accepted \subseteq Envelopes
  BY TypeParts DEF IInv, SendTypes
<1>2. <<e, k>> \in AcceptedRows <=> \E d \in accepted : <<e, k>> \in RowsOf(d)
  BY DEF AcceptedRows
<1> QED
  BY <1>1, <1>2, RowsOfMember, Zenon

(* A row of the envelope in hand waits from the next one on.               *)
LEMMA ItemRowMember ==
  ASSUME IInv, NEW e \in Envelopes, NEW k \in 1 .. RowCount[e]
  PROVE  <<e, k>> \in ItemRows <=> e = item /\ k >= next
<1>1. /\ item # None => item \in Envelopes /\ next \in 1 .. RowCount[item]
      /\ RowCount[e] \in Nat /\ e # None
  BY TypeParts, SetsAssumption, RowCountAssumption DEF IInv, WorkTypes, Control
<1> QED
  BY <1>1 DEF ItemRows

(* Every place holds rows only.                                            *)
LEMMA PlacesAreRows ==
  ASSUME IInv
  PROVE  /\ AcceptedRows \subseteq Rows /\ QueueRows \subseteq Rows /\ ItemRows \subseteq Rows
         /\ file \subseteq Rows /\ acked \subseteq Rows
         /\ dropped \subseteq Rows /\ abandoned \subseteq Rows
<1>1. AcceptedRows \subseteq Rows
  BY TypeParts, RowsOfSubset DEF IInv, SendTypes, AcceptedRows
<1>2. QueueRows \subseteq Rows
  <2>1. \A j \in 1 .. Len(queue) : RowsOf(queue[j]) \subseteq Rows
    BY TypeParts, RowsOfSubset DEF IInv, SendTypes
  <2> QED
    BY <2>1 DEF QueueRows
<1>3. ItemRows \subseteq Rows
  <2>1. /\ item # None => item \in Envelopes /\ next \in 1 .. RowCount[item]
    BY TypeParts DEF IInv, WorkTypes, Control
  <2>2. CASE item # None
    <3>1. ItemRows \subseteq RowsOf(item)
      BY <2>1, <2>2, RowCountAssumption DEF ItemRows, RowsOf
    <3> QED
      BY <2>1, <2>2, <3>1, RowsOfSubset
  <2>3. CASE item = None
    BY <2>3 DEF ItemRows
  <2> QED
    BY <2>2, <2>3
<1> QED
  BY <1>1, <1>2, <1>3, TypeParts DEF IInv, FileTypes

(* A row of an accepted envelope is in exactly one place: still with the   *)
(* worker, uploaded, dropped or abandoned, and never two of these.         *)
THEOREM EveryRowAccounted == Spec => []RowsAccounted
<1>1. ASSUME IInv PROVE RowsAccounted
  <2>1. ASSUME NEW r \in Rows
        PROVE  /\ r \in AcceptedRows <=>
                    \/ r \in QueueRows \/ r \in ItemRows \/ r \in file
                    \/ r \in acked \/ r \in dropped \/ r \in abandoned
               /\ r \in QueueRows => r \notin ItemRows
               /\ r \in QueueRows \/ r \in ItemRows =>
                    r \notin file /\ r \notin acked /\ r \notin dropped /\ r \notin abandoned
               /\ r \in file => r \notin acked /\ r \notin dropped /\ r \notin abandoned
               /\ r \in acked => r \notin dropped /\ r \notin abandoned
               /\ r \in dropped => r \notin abandoned
    <3>1. PICK e \in Envelopes : \E k \in 1 .. RowCount[e] : r = <<e, k>>
      BY <2>1, RowShape
    <3>2. PICK k \in 1 .. RowCount[e] : r = <<e, k>>
      BY <3>1
    <3>3. InQueue(e) \/ e = item => e \in accepted
      BY <1>1, SetsAssumption, Zenon DEF IInv, Envs, Queued, Taken, InQueue
    <3>4. ~(InQueue(e) /\ e = item)
      BY <1>1, SetsAssumption, Zenon DEF IInv, Envs, Taken
    <3>5. /\ r \in QueueRows <=> InQueue(e)
          /\ r \in ItemRows <=> e = item /\ k >= next
          /\ r \in AcceptedRows <=> e \in accepted
      BY <1>1, <3>2, QueueRowMember, ItemRowMember, AcceptedRowMember, Zenon
    <3> QED
      BY <1>1, <3>2, <3>3, <3>4, <3>5, ZenonT(60) DEF IInv, RowsOnce, Pending
  <2>2. AcceptedRows = UNION {QueueRows, ItemRows, file, acked, dropped, abandoned}
    BY <1>1, <2>1, PlacesAreRows
  <2>3. /\ QueueRows \cap ItemRows = {} /\ QueueRows \cap file = {} /\ QueueRows \cap acked = {}
        /\ QueueRows \cap dropped = {} /\ QueueRows \cap abandoned = {}
        /\ ItemRows \cap file = {} /\ ItemRows \cap acked = {} /\ ItemRows \cap dropped = {}
        /\ ItemRows \cap abandoned = {}
        /\ file \cap acked = {} /\ file \cap dropped = {} /\ file \cap abandoned = {}
        /\ acked \cap dropped = {} /\ acked \cap abandoned = {} /\ dropped \cap abandoned = {}
    BY <1>1, <2>1, PlacesAreRows
  <2> DEFINE places == <<QueueRows, ItemRows, file, acked, dropped, abandoned>>
  <2>4. {places[k] : k \in 1 .. 6} = {QueueRows, ItemRows, file, acked, dropped, abandoned}
    OBVIOUS
  <2>5. \A j, k \in 1 .. 6 : j # k => places[j] \cap places[k] = {}
    BY <2>3
  <2> QED
    BY <2>2, <2>4, <2>5 DEF RowsAccounted
<1> QED
  BY <1>1, Invariance, PTL

(* Once the worker has exited, an accepted envelope is settled or was put  *)
(* on the queue after close(closedCh).                                     *)
THEOREM OnlyLateEnvelopesStrand == Spec => []StrandedOnlyByLateSend
<1>1. ASSUME IInv PROVE StrandedOnlyByLateSend
  <2> SUFFICES ASSUME wpc = "exited", NEW e \in accepted, e \notin late
               PROVE  RowsOf(e) \subseteq Settled
    BY DEF StrandedOnlyByLateSend
  <2>1. e \in Envelopes
    BY <1>1, TypeParts DEF IInv, SendTypes
  <2>2. ~InQueue(e) /\ file = {} /\ item = None
    BY <1>1 DEF IInv, Control, Uploading, InQueue
  <2>3. ASSUME NEW k \in 1 .. RowCount[e] PROVE <<e, k>> \in Settled
    <3>1. ~Pending(e, k)
      BY <2>1, <2>2, SetsAssumption DEF Pending
    <3> QED
      BY <1>1, <2>1, <2>2, <2>3, <3>1, Zenon DEF IInv, RowsOnce, Settled
  <2> QED
    BY <2>3 DEF RowsOf
<1> QED
  BY <1>1, Invariance, PTL

------------------------------------------------------------------------------
(* The destination implements RowDelivery.                                 *)

(* A step that accepts no envelope accepts no row.                         *)
LEMMA AcceptedRowsSame == accepted' = accepted => AcceptedRows' = AcceptedRows
BY DEF AcceptedRows

(* What RowDelivery calls unsettled.                                       *)
LEMMA UnsettledIs == Delivery!Unsettled = AcceptedRows \ Settled
BY DEF Delivery!Unsettled, Settled

(* A row that still waits for the worker is unsettled.                     *)
LEMMA PendingUnsettled ==
  ASSUME IInv, NEW e \in Envelopes, e \in accepted, NEW k \in 1 .. RowCount[e], Pending(e, k)
  PROVE  <<e, k>> \in Delivery!Unsettled
<1>1. <<e, k>> \in AcceptedRows
  BY AcceptedRowMember
<1>2. <<e, k>> \notin Settled
  BY Zenon DEF IInv, RowsOnce, Settled
<1> QED
  BY <1>1, <1>2, UnsettledIs

(* The rows of the file under construction are unsettled.                  *)
LEMMA FileInUnsettled == ASSUME IInv PROVE file \subseteq Delivery!Unsettled
<1> SUFFICES ASSUME NEW r \in file PROVE r \in AcceptedRows
  BY FileUnsettled, UnsettledIs
<1>1. PICK e \in Envelopes : \E k \in 1 .. RowCount[e] : r = <<e, k>>
  BY RowShape, TypeParts DEF IInv, FileTypes
<1>2. PICK k \in 1 .. RowCount[e] : r = <<e, k>>
  BY <1>1
<1>3. e \in accepted
  BY <1>2, Zenon DEF IInv, RowsOnce
<1> QED
  BY <1>2, <1>3, AcceptedRowMember

(* Accepting, acknowledging, dropping and abandoning are the only steps a  *)
(* caller can tell apart, and each is what the buffering destination       *)
(* promises: no row is accepted or settled a second time.                  *)
THEOREM Refinement == Spec => ImplementsRowDelivery
<1>1. Init => Delivery!Init
  BY DEF Init, Delivery!Init, AcceptedRows
<1>2. IInv /\ [Next]_vars => [Delivery!Next]_Delivery!vars
  <2> SUFFICES ASSUME IInv, [Next]_vars PROVE [Delivery!Next]_Delivery!vars
    OBVIOUS
  <2>0. file \subseteq Rows /\ file \subseteq Delivery!Unsettled
    BY FileInUnsettled, PlacesAreRows
  <2>1. CASE UNCHANGED <<accepted, histVars>>
    BY <2>1, AcceptedRowsSame DEF Delivery!vars, histVars
  <2>2. ASSUME NEW R \in SUBSET Rows, R \subseteq Delivery!Unsettled,
               accepted' = accepted, acked' = acked,
               dropped' \cup abandoned' = dropped \cup abandoned \cup R
        PROVE  Delivery!Next
    BY <2>2, AcceptedRowsSame DEF Delivery!Next, Delivery!GiveUp
  <2>3. ASSUME NEW s \in Senders, Send(s) PROVE [Delivery!Next]_Delivery!vars
    <3>1. senv[s] \in Envelopes /\ senv[s] \notin accepted /\ UNCHANGED histVars
      BY <2>3, SendFacts, HeldEnvelope, TypeParts DEF IInv
    <3>2. CASE Enqueue(s)
      <4> DEFINE R == RowsOf(senv[s])
      <4>1. R \in SUBSET Rows
        BY <3>1, RowsOfSubset
      <4>2. AcceptedRows' = AcceptedRows \cup R
        BY <3>2 DEF Enqueue, AcceptedRows
      <4>3. R \cap AcceptedRows = {}
        <5>1. \A k \in 1 .. RowCount[senv[s]] : <<senv[s], k>> \notin AcceptedRows
          BY <3>1, AcceptedRowMember
        <5> QED
          BY <5>1 DEF RowsOf
      <4>4. Delivery!Accept(R)
        BY <3>1, <4>1, <4>2, <4>3 DEF Delivery!Accept, histVars
      <4> QED
        BY <4>1, <4>4 DEF Delivery!Next
    <3>3. CASE accepted' = accepted
      BY <2>1, <3>1, <3>3
    <3> QED
      BY <2>3, <3>2, <3>3, SendFacts DEF Reject
  <2>4. CASE WorkerTake
    <3> DEFINE e == Head(queue)
    <3>1. e \in Envelopes /\ InQueue(e)
      <4>1. queue \in Seq(Envelopes) /\ queue # <<>>
        BY <2>4, TypeParts, Zenon DEF IInv, SendTypes, WorkerTake
      <4>2. 1 \in 1 .. Len(queue) /\ e = queue[1] /\ e \in Envelopes
        BY <4>1, TailFacts
      <4> QED
        BY <4>2 DEF InQueue
    <3>2. e \in accepted
      BY <3>1 DEF IInv, Envs, Queued, InQueue
    <3>3. RowsOf(e) \in SUBSET Rows /\ RowsOf(e) \subseteq Delivery!Unsettled
      <4>1. \A k \in 1 .. RowCount[e] : <<e, k>> \in Delivery!Unsettled
        BY <3>1, <3>2, PendingUnsettled DEF Pending
      <4> QED
        BY <3>1, <4>1, RowsOfSubset DEF RowsOf
    <3>4. CASE dropped' = dropped \cup RowsOf(e)
      <4>1. UNCHANGED <<accepted, acked, abandoned>>
        BY <2>4 DEF WorkerTake
      <4>2. dropped' \cup abandoned' = dropped \cup abandoned \cup RowsOf(e)
        BY <3>4, <4>1
      <4> QED
        BY <2>2, <3>3, <4>1, <4>2
    <3>5. CASE dropped' = dropped
      BY <2>1, <2>4, <3>5 DEF WorkerTake, histVars
    <3> QED
      BY <2>4, <3>4, <3>5 DEF WorkerTake
  <2>5. CASE WriteRow
    <3> DEFINE r == <<item, next>>
    <3>1. item \in Envelopes /\ next \in 1 .. RowCount[item] /\ item \in accepted
      BY <2>5, TypeParts DEF IInv, WorkTypes, Control, WriteRow, Envs, Taken
    <3>2. r \in Rows /\ r \in Delivery!Unsettled
      BY <3>1, RowMember, PendingUnsettled DEF Pending
    <3>3. CASE dropped' = dropped \cup {r}
      <4>1. {r} \in SUBSET Rows /\ {r} \subseteq Delivery!Unsettled
        BY <3>2
      <4>2. UNCHANGED <<accepted, acked, abandoned>>
        BY <2>5 DEF WriteRow
      <4>3. dropped' \cup abandoned' = dropped \cup abandoned \cup {r}
        BY <3>3, <4>2
      <4> QED
        BY <2>2, <4>1, <4>2, <4>3, Zenon
    <3>4. CASE dropped' = dropped
      BY <2>1, <2>5, <3>4 DEF WriteRow, histVars
    <3> QED
      BY <2>5, <3>3, <3>4 DEF WriteRow
  <2>6. CASE PutSucceeds
    <3>1. Delivery!Deliver(file)
      BY <2>0, <2>6, AcceptedRowsSame DEF PutSucceeds, Delivery!Deliver
    <3> QED
      BY <2>0, <3>1 DEF Delivery!Next
  <2>7. CASE Finalize \/ PutFails \/ Abandon
    <3>1. CASE /\ UNCHANGED <<accepted, acked>>
               /\ dropped' \cup abandoned' = dropped \cup abandoned \cup file
      BY <2>0, <2>2, <3>1
    <3>2. CASE UNCHANGED <<accepted, histVars>>
      BY <2>1, <3>2
    <3> QED
      <4>1. CASE Finalize
        BY <3>1, <3>2, <4>1, SMTT(30) DEF Finalize, histVars
      <4>2. CASE PutFails
        BY <3>1, <3>2, <4>2, SMTT(30) DEF PutFails, histVars
      <4>3. CASE Abandon
        BY <3>1, <3>2, <4>3, SMTT(30) DEF Abandon, histVars
      <4> QED
        BY <2>7, <4>1, <4>2, <4>3, Zenon
  <2> QED
    BY <2>1, <2>3, <2>4, <2>5, <2>6, <2>7, ZenonT(60)
    DEF Next, Step, Worker, Upload, CallSend, Cancel, CallClose, CloseReturns, ProcessExits,
      FlushTimer, StartDrain,
        EndDrain, Retry, ApplyControl, vars, histVars
<1> QED
  BY <1>1, <1>2, Invariance, PTL DEF Spec, ImplementsRowDelivery, Delivery!Spec
==============================================================================
