------------------------------ MODULE S3Parquet ------------------------------
(***************************************************************************)
(* The s3parquet destination (pkg/xtcp/destinations_s3parquet.go).         *)
(*                                                                         *)
(* Send, called by the poller and the decoders, puts marshaled envelopes   *)
(* on queueCh.  One worker takes them off, writes their rows to a parquet  *)
(* file and uploads the file, with retries, when it is large enough, when  *)
(* the flush timer fires and when Close was called.  Close only closes     *)
(* closedCh: the worker drains the queue and exits.  The size threshold    *)
(* can change at run time.  The process that shuts down ends when it is    *)
(* done, or when the signal handler has waited long enough, whatever the   *)
(* worker still holds.                                                     *)
(*                                                                         *)
(* A row is <<envelope, index>>; its size in bytes is a small number.  The *)
(* object store is external: a PutObject that reports an error may have    *)
(* stored the object, whose answer was lost.                               *)
(***************************************************************************)
EXTENDS Integers, Sequences, FiniteSets

CONSTANTS
  Senders,       \* goroutines that call Send
  Envelopes,     \* the marshaled envelopes; each is handed to Send once
  RowCount,      \* number of rows of each envelope
  QueueCap,      \* s3ParquetDestQueueCapacity
  RowSizes,      \* what approxRowBytes can return
  Thresholds,    \* values of S3ParquetFlushThresholdBytes
  JitterPct,     \* thresholdJitterPct
  MaxAttempts    \* s3_upload_max_attempts

None == <<>>   \* no envelope

ASSUME SetsAssumption ==
  /\ IsFiniteSet(Senders) /\ IsFiniteSet(Envelopes) /\ None \notin Envelopes
  /\ RowSizes \subseteq Nat \ {0}
  /\ Thresholds \subseteq Nat \ {0} /\ Thresholds # {}
ASSUME RowCountAssumption == RowCount \in [Envelopes -> Nat \ {0}]
ASSUME NumbersAssumption ==
  /\ QueueCap \in Nat \ {0}
  /\ JitterPct \in 0 .. 100
  /\ MaxAttempts \in Nat \ {0}

RowsOf(e) == {e} \X (1 .. RowCount[e])
Rows == UNION {RowsOf(e) : e \in Envelopes}

VARIABLES
  spc, senv,       \* where each sender is in Send, and its envelope
  unsent,          \* envelopes that were not handed to Send yet
  queue,           \* queueCh
  pool,            \* times each envelope's buffer was returned to destBytesPool
  ctxDone,         \* the daemon's context is canceled
  cpc,             \* where Close is, "open", "wait", "done" or "timedOut"; or
                   \*   "gone", the process has ended
  wpc, back,       \* where the worker is, and where finalize returns to
  draining,        \* the worker took the closedCh case
  item, next,      \* the envelope in processItem and its next row
  file, bytes,     \* rows and accumBytes of the parquet builder
  target,          \* effectiveThreshold of the builder
  threshold,       \* d.threshold
  attempt,         \* upload attempt
  store,           \* the objects of the bucket, in the order their keys were drawn
  accepted,        \* history: envelopes Send returned (1, nil) for
  late,            \* history: those put on the queue after close(closedCh)
  acked,           \* history: rows counted as uploadRows
  dropped,         \* history: rows counted as lost (upload, write, unmarshal)
  abandoned        \* history: rows of an upload whose backoff was cut short

sendVars  == <<spc, senv, unsent>>
buildVars == <<file, bytes, target>>
workVars  == <<wpc, back, draining, item, next, attempt>>
histVars  == <<acked, dropped, abandoned>>
vars == <<sendVars, queue, pool, ctxDone, cpc, workVars, buildVars,
          threshold, store, accepted, late, histVars>>

closed == cpc # "open"

------------------------------------------------------------------------------
(* Send.                                                                   *)

(* refundOnReject.                                                         *)
Reject(s) ==
  /\ pool' = [pool EXCEPT ![senv[s]] = @ + 1]
  /\ spc' = [spc EXCEPT ![s] = "idle"]
  /\ senv' = [senv EXCEPT ![s] = None]
  /\ UNCHANGED <<queue, accepted, late>>

(* Mutant: a full queue takes one more envelope.                           *)
EnqueueUnbounded(s) ==
  /\ queue' = Append(queue, senv[s])
  /\ accepted' = accepted \cup {senv[s]}
  /\ late' = IF closed THEN late \cup {senv[s]} ELSE late
  /\ spc' = [spc EXCEPT ![s] = "idle"]
  /\ senv' = [senv EXCEPT ![s] = None]
  /\ UNCHANGED pool

(* queueCh <- envelopeBytes{...}: Send returns (1, nil).                   *)
Enqueue(s) ==
  /\ Len(queue) < QueueCap
  /\ queue' = Append(queue, senv[s])
  /\ accepted' = accepted \cup {senv[s]}
  /\ late' = IF closed THEN late \cup {senv[s]} ELSE late
  /\ spc' = [spc EXCEPT ![s] = "idle"]
  /\ senv' = [senv EXCEPT ![s] = None]
  /\ UNCHANGED pool

(* flushEnvelope marshals an envelope that has rows and calls Send; its    *)
(* first select looks at closedCh.                                         *)
CallSend(s, e) ==
  /\ spc[s] = "idle"
  /\ e \in unsent
  /\ unsent' = unsent \ {e}
  /\ IF closed
     THEN pool' = [pool EXCEPT ![e] = @ + 1] /\ UNCHANGED <<spc, senv>>
     ELSE /\ spc' = [spc EXCEPT ![s] = "try"]
          /\ senv' = [senv EXCEPT ![s] = e]
          /\ UNCHANGED pool
  /\ UNCHANGED <<queue, ctxDone, cpc, workVars, buildVars, threshold, store,
                 accepted, late, histVars>>

(* Its second, with a default: a full queue makes it wait.                 *)
SendTry(s) ==
  /\ spc[s] = "try"
  /\ \/ Enqueue(s)
     \/ closed /\ Reject(s)
     \/ /\ Len(queue) >= QueueCap /\ ~closed
        /\ spc' = [spc EXCEPT ![s] = "wait"]
        /\ UNCHANGED <<senv, queue, pool, accepted, late>>
  /\ UNCHANGED <<unsent, ctxDone, cpc, workVars, buildVars, threshold, store,
                 histVars>>

(* Its third, blocking.                                                    *)
SendWait(s) ==
  /\ spc[s] = "wait"
  /\ \/ Enqueue(s)
     \/ (closed \/ ctxDone) /\ Reject(s)
  /\ UNCHANGED <<unsent, ctxDone, cpc, workVars, buildVars, threshold, store,
                 histVars>>

------------------------------------------------------------------------------
(* The daemon's shutdown: the context is canceled, Run calls               *)
(* closeDestination, and the process ends.                                 *)

Cancel ==
  /\ ~ctxDone
  /\ ctxDone' = TRUE
  /\ UNCHANGED <<sendVars, queue, pool, cpc, workVars, buildVars, threshold,
                 store, accepted, late, histVars>>

CallClose ==
  /\ ctxDone
  /\ cpc = "open"
  /\ cpc' = "wait"
  /\ UNCHANGED <<sendVars, queue, pool, ctxDone, workVars, buildVars, threshold,
                 store, accepted, late, histVars>>

(* The worker is done, or s3ParquetWorkerDrainTimeout is over.             *)
CloseReturns ==
  /\ cpc = "wait"
  /\ \/ wpc = "exited" /\ cpc' = "done"
     \/ cpc' = "timedOut"
  /\ UNCHANGED <<sendVars, queue, pool, ctxDone, workVars, buildVars,
                 threshold, store, accepted, late, histVars>>

(* awaitSignalAndShutdown: os.Exit, when Run has returned or after         *)
(* cancelSleepTimeCst, which does not wait for the drain; or finishMain.   *)
ProcessExits ==
  /\ ctxDone
  /\ cpc' = "gone"
  /\ UNCHANGED <<sendVars, queue, pool, ctxDone, workVars, buildVars,
                 threshold, store, accepted, late, histVars>>

------------------------------------------------------------------------------
(* The worker.                                                             *)

(* ScaleIntPct, JitterIntN and jitteredThreshold: a size at or below t.    *)
JitteredThreshold(t) ==
  LET limit == (t * JitterPct) \div 100
  IN {t - j : j \in 0 .. (IF limit = 0 THEN 0 ELSE limit - 1)}

StartBuilder ==
  /\ file' = {}
  /\ bytes' = 0
  /\ target' \in JitteredThreshold(threshold)

(* finalize returns to its caller with a new builder.                      *)
Return ==
  /\ StartBuilder
  /\ wpc' = back
  /\ back' = "select"
  /\ attempt' = 0

(* Mutant: the buffer of an envelope that does not unmarshal is returned   *)
(* on the error path and once more after it.                               *)
WorkerTakeReturningTwice ==
  /\ wpc = "select"
  /\ queue # <<>>
  /\ queue' = Tail(queue)
  /\ pool' = [pool EXCEPT ![Head(queue)] = @ + 2]
  /\ dropped' = dropped \cup RowsOf(Head(queue))
  /\ UNCHANGED <<sendVars, ctxDone, cpc, workVars, buildVars, threshold, store,
                 accepted, late, acked, abandoned>>

(* case item := <-queueCh, in the main loop or in the drain: an envelope   *)
(* that does not unmarshal is counted; the buffer goes back to the pool.   *)
WorkerTake ==
  /\ wpc = "select"
  /\ queue # <<>>
  /\ queue' = Tail(queue)
  /\ pool' = [pool EXCEPT ![Head(queue)] = @ + 1]
  /\ \/ /\ dropped' = dropped \cup RowsOf(Head(queue))
        /\ UNCHANGED <<wpc, item, next>>
     \/ /\ item' = Head(queue)
        /\ next' = 1
        /\ wpc' = "rows"
        /\ UNCHANGED dropped
  /\ UNCHANGED <<sendVars, ctxDone, cpc, back, draining, attempt, buildVars, threshold,
                 store, accepted, late, acked, abandoned>>

(* The range over env.Row goes on with the next row or ends.               *)
AdvanceRow ==
  LET last == next = RowCount[item]
  IN /\ item' = IF last THEN None ELSE item
     /\ next' = IF last THEN 1 ELSE next + 1

AfterRow == IF next = RowCount[item] THEN "select" ELSE "rows"

(* One row of processItem: a row that cannot be written is counted; a file *)
(* that reached its target is finalized before the next row.               *)
WriteRow ==
  /\ wpc = "rows"
  /\ AdvanceRow
  /\ \/ /\ dropped' = dropped \cup {<<item, next>>}
        /\ wpc' = AfterRow
        /\ UNCHANGED <<back, file, bytes>>
     \/ \E size \in RowSizes :
          /\ file' = file \cup {<<item, next>>}
          /\ bytes' = bytes + size
          /\ IF bytes + size >= target
             THEN wpc' = "finalize" /\ back' = AfterRow
             ELSE wpc' = AfterRow /\ UNCHANGED back
          /\ UNCHANGED dropped
  /\ UNCHANGED <<sendVars, queue, pool, ctxDone, cpc, draining, attempt, target,
                 threshold, store, accepted, late, acked, abandoned>>

(* Mutant: the timer flushes a full file only.                             *)
FlushTimerWhenFull ==
  /\ wpc = "select"
  /\ ~draining
  /\ bytes >= target
  /\ wpc' = "finalize"
  /\ back' = "select"
  /\ UNCHANGED <<sendVars, queue, pool, ctxDone, cpc, draining, item, next, attempt,
                 buildVars, threshold, store, accepted, late, histVars>>

(* case <-flushCh (the timer is always armed; it is set again after).      *)
FlushTimer ==
  /\ wpc = "select"
  /\ ~draining
  /\ wpc' = "finalize"
  /\ back' = "select"
  /\ UNCHANGED <<sendVars, queue, pool, ctxDone, cpc, draining, item, next, attempt,
                 buildVars, threshold, store, accepted, late, histVars>>

(* case <-closedCh: from here on only the queue is looked at.              *)
StartDrain ==
  /\ wpc = "select"
  /\ closed
  /\ ~draining
  /\ draining' = TRUE
  /\ UNCHANGED <<sendVars, queue, pool, ctxDone, cpc, wpc, back, item, next, attempt,
                 buildVars, threshold, store, accepted, late, histVars>>

(* Mutant: the worker exits on closedCh without draining the queue.        *)
EndDrainAtOnce ==
  /\ wpc = "select"
  /\ draining
  /\ wpc' = "finalize"
  /\ back' = "exited"
  /\ UNCHANGED <<sendVars, queue, pool, ctxDone, cpc, draining, item, next, attempt,
                 buildVars, threshold, store, accepted, late, histVars>>

(* The drain found the queue empty: finalize and return.                   *)
EndDrain ==
  /\ wpc = "select"
  /\ draining
  /\ queue = <<>>
  /\ wpc' = "finalize"
  /\ back' = "exited"
  /\ UNCHANGED <<sendVars, queue, pool, ctxDone, cpc, draining, item, next, attempt,
                 buildVars, threshold, store, accepted, late, histVars>>

(* finalize: nothing to upload, a writer that fails to close (counted), or *)
(* an upload under a fresh object key.                                     *)
Finalize ==
  /\ wpc = "finalize"
  /\ \/ /\ file = {}
        /\ Return
        /\ UNCHANGED <<store, dropped>>
     \/ /\ file # {}
        /\ dropped' = dropped \cup file
        /\ Return
        /\ UNCHANGED store
     \/ /\ file # {}
        /\ attempt' = 1
        /\ store' = Append(store, {})
        /\ wpc' = "put"
        /\ UNCHANGED <<buildVars, back, dropped>>
  /\ UNCHANGED <<sendVars, queue, pool, ctxDone, cpc, draining, item, next,
                 threshold, accepted, late, acked, abandoned>>

PutStores == store' = [store EXCEPT ![Len(store)] = file]

(* PutObject succeeded.                                                    *)
PutSucceeds ==
  /\ wpc = "put"
  /\ PutStores
  /\ acked' = acked \cup file
  /\ Return
  /\ UNCHANGED <<sendVars, queue, pool, ctxDone, cpc, draining, item, next,
                 threshold, accepted, late, dropped, abandoned>>

(* Mutant: the last failed attempt keeps the file for the next object.     *)
PutFailsKeepingFile ==
  /\ wpc = "put"
  /\ PutStores \/ UNCHANGED store
  /\ \/ /\ attempt < MaxAttempts
        /\ wpc' = "backoff"
        /\ UNCHANGED <<dropped, buildVars>>
     \/ /\ attempt = MaxAttempts
        /\ dropped' = dropped \cup file
        /\ wpc' = back
        /\ UNCHANGED buildVars
  /\ UNCHANGED <<sendVars, queue, pool, ctxDone, cpc, back, draining, item, next,
                 attempt, threshold, accepted, late, acked, abandoned>>

(* PutObject failed, or its answer was lost.  The last attempt counts the  *)
(* rows as dropped.                                                        *)
PutFails ==
  /\ wpc = "put"
  /\ PutStores \/ UNCHANGED store
  /\ \/ /\ attempt < MaxAttempts
        /\ wpc' = "backoff"
        /\ UNCHANGED <<dropped, back, attempt, buildVars>>
     \/ /\ attempt = MaxAttempts
        /\ dropped' = dropped \cup file
        /\ Return
  /\ UNCHANGED <<sendVars, queue, pool, ctxDone, cpc, draining, item, next,
                 threshold, accepted, late, acked, abandoned>>

(* Mutant: a retry draws a new object key.                                 *)
RetryUnderNewKey ==
  /\ wpc = "backoff"
  /\ attempt' = attempt + 1
  /\ wpc' = "put"
  /\ store' = Append(store, {})
  /\ UNCHANGED <<sendVars, queue, pool, ctxDone, cpc, back, draining, item, next,
                 buildVars, threshold, accepted, late, histVars>>

(* Mutant: the retries are not counted.                                    *)
RetryForever ==
  /\ wpc = "backoff"
  /\ wpc' = "put"
  /\ UNCHANGED <<sendVars, queue, pool, ctxDone, cpc, back, draining, item, next,
                 attempt, buildVars, threshold, store, accepted, late, histVars>>

(* The backoff sleep is over: same key, from the start of the body.        *)
Retry ==
  /\ wpc = "backoff"
  /\ attempt' = attempt + 1
  /\ wpc' = "put"
  /\ UNCHANGED <<sendVars, queue, pool, ctxDone, cpc, back, draining, item, next,
                 buildVars, threshold, store, accepted, late, histVars>>

(* The upload context's deadline cuts the sleep short: the batch is gone   *)
(* and no counter says so.                                                 *)
Abandon ==
  /\ wpc = "backoff"
  /\ abandoned' = abandoned \cup file
  /\ Return
  /\ UNCHANGED <<sendVars, queue, pool, ctxDone, cpc, draining, item, next,
                 threshold, store, accepted, late, acked, dropped>>

(* case ctrl := <-setS3FlushCh: the next object has the new threshold.  A  *)
(* new flush interval sets the timer again, which puts off FlushTimer; see *)
(* Fairness.                                                               *)
ApplyControl(t) ==
  /\ wpc = "select"
  /\ ~draining
  /\ threshold' = t
  /\ UNCHANGED <<sendVars, queue, pool, ctxDone, cpc, workVars, buildVars, store,
                 accepted, late, histVars>>

------------------------------------------------------------------------------
Init ==
  /\ spc = [s \in Senders |-> "idle"]
  /\ senv = [s \in Senders |-> None]
  /\ unsent = Envelopes
  /\ queue = <<>>
  /\ pool = [e \in Envelopes |-> 0]
  /\ ctxDone = FALSE
  /\ cpc = "open"
  /\ wpc = "select" /\ back = "select" /\ draining = FALSE
  /\ item = None /\ next = 1 /\ attempt = 0
  /\ threshold \in Thresholds
  /\ file = {} /\ bytes = 0 /\ target \in JitteredThreshold(threshold)
  /\ store = <<>>
  /\ accepted = {} /\ late = {}
  /\ acked = {} /\ dropped = {} /\ abandoned = {}

Send(s) == SendTry(s) \/ SendWait(s)

Upload == Finalize \/ PutSucceeds \/ PutFails \/ Retry \/ Abandon

Worker ==
  \/ WorkerTake \/ WriteRow \/ FlushTimer \/ StartDrain \/ EndDrain
  \/ Upload
  \/ \E t \in Thresholds : ApplyControl(t)

Step ==
  \/ \E s \in Senders : Send(s) \/ \E e \in Envelopes : CallSend(s, e)
  \/ Cancel \/ CallClose \/ CloseReturns \/ ProcessExits
  \/ Worker

Running == cpc # "gone"
Next == Running /\ Step

Spec == Init /\ [][Next]_vars

(* Goroutines that can run do run, as long as the process does, and timers *)
(* fire.  A Go select chooses among its ready cases at random, so a case   *)
(* that is ready time and again is taken.  For FlushTimer this takes that  *)
(* SetS3Upload is not called for ever at shorter intervals than the timer  *)
(* has, which each call sets again.  Nobody has to call Send, SetS3Upload  *)
(* or Close, and the process need not end.                                 *)
Fairness ==
  /\ \A s \in Senders : WF_vars(Running /\ Send(s))
  /\ WF_vars(Running /\ WriteRow) /\ WF_vars(Running /\ Upload)
  /\ SF_vars(Running /\ WorkerTake) /\ SF_vars(Running /\ FlushTimer)
  /\ SF_vars(Running /\ StartDrain) /\ WF_vars(Running /\ EndDrain)

FairSpec == Spec /\ Fairness

------------------------------------------------------------------------------
QueueRows == UNION {RowsOf(queue[k]) : k \in 1 .. Len(queue)}
ItemRows  == IF item = None THEN {} ELSE {item} \X (next .. RowCount[item])
AcceptedRows == UNION {RowsOf(e) : e \in accepted}
Settled == acked \cup dropped \cup abandoned

(* Every variable has its type and no channel exceeds its capacity.        *)
TypeOK ==
  /\ spc \in [Senders -> {"idle", "try", "wait"}]
  /\ senv \in [Senders -> Envelopes \cup {None}]
  /\ unsent \subseteq Envelopes
  /\ queue \in Seq(Envelopes) /\ Len(queue) <= QueueCap
  /\ pool \in [Envelopes -> Nat]
  /\ ctxDone \in BOOLEAN /\ draining \in BOOLEAN
  /\ cpc \in {"open", "wait", "done", "timedOut", "gone"}
  /\ wpc \in {"select", "rows", "finalize", "put", "backoff", "exited"}
  /\ back \in {"select", "rows", "exited"}
  /\ item \in Envelopes \cup {None} /\ next \in Nat \ {0}
  /\ file \subseteq Rows /\ bytes \in Nat /\ target \in Int
  /\ threshold \in Thresholds
  /\ attempt \in 0 .. MaxAttempts
  /\ store \in Seq(SUBSET Rows)
  /\ accepted \subseteq Envelopes /\ late \subseteq accepted
  /\ acked \subseteq Rows /\ dropped \subseteq Rows /\ abandoned \subseteq Rows

(* No row falls between two places or is handled twice: each row of an     *)
(* accepted envelope is in exactly one of the queue, the envelope being    *)
(* processed, the file being built and the three outcomes (uploaded,       *)
(* counted as dropped, or abandoned, which no counter of the code shows),  *)
(* through write errors, mid-envelope uploads, retries and the drain.      *)
RowsAccounted ==
  LET places == <<QueueRows, ItemRows, file, acked, dropped, abandoned>>
  IN /\ AcceptedRows = UNION {places[k] : k \in 1 .. 6}
     /\ \A j, k \in 1 .. 6 : j # k => places[j] \cap places[k] = {}

(* A retry after a PutObject whose answer was lost does not store the rows *)
(* a second time: no row is in two objects of the bucket (uploadWithRetry  *)
(* keeps the key over its attempts).                                       *)
ObjectsDisjoint ==
  \A j, k \in 1 .. Len(store) : j # k => store[j] \cap store[k] = {}

(* The pooled buffer of an envelope is returned at most once, by Send when *)
(* it rejects it or by the worker when it takes it, and never while a      *)
(* sender or the queue still refers to it.                                 *)
BufferReturnedOnce ==
  /\ \A e \in Envelopes : pool[e] <= 1
  /\ \A s \in Senders : spc[s] # "idle" => pool[senv[s]] = 0
  /\ \A k \in 1 .. Len(queue) : pool[queue[k]] = 0

(* Close races Send.  Once the worker has exited, every row that was       *)
(* accepted is settled, except those of an envelope a concurrent Send put  *)
(* on the queue after close(closedCh).                                     *)
StrandedOnlyByLateSend ==
  wpc = "exited" =>
    \A e \in accepted : RowsOf(e) \subseteq Settled \/ e \in late

(* The process ended before the envelope: with a Send under way, or before *)
(* the worker was done.                                                    *)
CutOff(e) ==
  /\ cpc = "gone"
  /\ (\E s \in Senders : senv[s] = e) \/ wpc # "exited"

(* An envelope handed to Send ends well or is given up: Send rejects it,   *)
(* or its rows are uploaded or given up in the end, however rarely new     *)
(* envelopes arrive (the flush timer) and however uploads fail, unless its *)
(* Send raced Close.  Only an exit of the process while the envelope is on *)
(* its way cuts this off: a worker that was done has left nothing behind.  *)
EnvelopeEnds ==
  \A e \in Envelopes :
    e \notin unsent ~> \/ e \notin accepted /\ pool[e] = 1
                       \/ RowsOf(e) \subseteq Settled
                       \/ e \in late
                       \/ CutOff(e)

(* After Close the worker drains and exits, through full queues and failed *)
(* uploads, in a process that is not ended first.  Close itself and the    *)
(* signal handler stop waiting for it.                                     *)
WorkerExits == cpc = "wait" ~> wpc = "exited" \/ cpc = "gone"

(* The destination implements the promise of a buffering destination.      *)
Delivery == INSTANCE RowDelivery WITH
              accepted  <- AcceptedRows,
              delivered <- acked,
              givenUp   <- dropped \cup abandoned

ImplementsRowDelivery == Delivery!Spec
==============================================================================
