------------------------------ MODULE PollCycle ------------------------------
(***************************************************************************)
(* Poll cycles and the envelope (pkg/xtcp/poller.go, deserialize.go).      *)
(*                                                                         *)
(* The poller installs an envelope, asks every socket for a dump, counts   *)
(* the done signals down and flushes the envelope when the count reaches   *)
(* zero, when the poll timeout fires or when it returns.  Meanwhile the    *)
(* decoders of every socket append rows to the shared envelope under       *)
(* envelopeMu, and flush it themselves when it is full.  dest.Send is      *)
(* called with the mutex released.                                         *)
(*                                                                         *)
(* A socket's receive pipeline is the abstract DumpService that Netlinker  *)
(* implements: rows of a dump are processed in any order by the socket's   *)
(* decoders, and the dump is reported once all of them are.  A row is      *)
(* <<socket, poll, index>>; its contents do not matter here.               *)
(***************************************************************************)
EXTENDS Integers, Sequences, FiniteSets

CONSTANTS
  Sockets,       \* the netlink sockets with an open fd in nsMap
  DecoderIds,    \* the decoders of each socket
  RowCap,        \* EnvelopeFlushThresholdRows
  DoneChanSize,  \* capacity of netlinkerDoneCh
  MaxRows,       \* bound on the rows of one dump
  MaxPolls       \* bound on the polls

ASSUME SocketsAssumption == IsFiniteSet(Sockets) /\ Sockets # {}
ASSUME DecodersAssumption == IsFiniteSet(DecoderIds) /\ DecoderIds # {}
ASSUME BoundsAssumption ==
  /\ RowCap \in Nat \ {0}
  /\ DoneChanSize \in Nat \ {0}
  /\ MaxRows \in Nat
  /\ MaxPolls \in Nat

Polls    == 1 .. MaxPolls
Decoders == Sockets \X DecoderIds
Dumps    == Sockets \X Polls
Rows     == Sockets \X Polls \X (1 .. MaxRows)
DumpOf(row) == <<row[1], row[2]>>

VARIABLES
  ppc,         \* where the poller is
  count,       \* done signals the poller still waits for
  polls,       \* polls issued so far; the last one is the current cycle
  toPoll,      \* sockets pollAllNetlinkSockets has still to ask
  timer,       \* pollTimeoutTimer is armed (or has fired and was not read)
  psend,       \* rows the poller is handing to dest.Send
  envOpen,     \* currentEnvelope # nil
  env,         \* currentEnvelope.Row
  dump,        \* state of each dump: "none", "open", "ended" or "reported"
  todo,        \* rows of open or ended dumps no decoder has processed yet
  dpc,         \* where each decoder is: "idle", "flush" or "send"
  drow,        \* the row whose append made each decoder flush
  dsend,       \* rows each decoder is handing to dest.Send
  doneCh,      \* netlinkerDoneCh
  closed,      \* Run has returned from workers.Wait and closed the destination
  sent,        \* history: rows handed to the destination
  dropped,     \* history: rows dropped and counted as envelopePostFlushDrop
  lost,        \* history: rows of an envelope that was overwritten
  timedOut     \* history: polls that ended by the poll timeout

pollVars == <<ppc, count, polls, toPoll, timer, psend>>
envVars  == <<envOpen, env>>
decVars  == <<dpc, drow, dsend>>
dumpVars == <<dump, todo, doneCh>>
histVars == <<sent, dropped, lost, timedOut>>
vars == <<pollVars, envVars, decVars, dumpVars, closed, histVars>>

(* The poller is about to poll for the first time; pollTimeoutTimer is     *)
(* restarted before it is first read.                                      *)
Init ==
  /\ ppc = "select" /\ count = 0 /\ polls = 0 /\ toPoll = {}
  /\ timer = FALSE /\ psend = {}
  /\ envOpen = FALSE /\ env = {}
  /\ dump = [d \in Dumps |-> "none"] /\ todo = {} /\ doneCh = <<>>
  /\ dpc = [i \in Decoders |-> "idle"]
  /\ drow = [i \in Decoders |-> <<>>]
  /\ dsend = [i \in Decoders |-> {}]
  /\ closed = FALSE
  /\ sent = {} /\ dropped = {} /\ lost = {} /\ timedOut = {}

------------------------------------------------------------------------------
(* The poller.                                                             *)

(* Mutant: a terminal flush discards the rows it takes.                    *)
TerminalFlushDiscarding(after) ==
  /\ envOpen' = FALSE
  /\ env' = {}
  /\ psend' = {}
  /\ ppc' = after[2]

(* flushEnvelope with a terminal reason: take the rows and leave           *)
(* currentEnvelope nil; an empty envelope is not sent.                     *)
TerminalFlush(after) ==
  /\ envOpen' = FALSE
  /\ env' = {}
  /\ psend' = env
  /\ ppc' = IF env = {} THEN after[2] ELSE after[1]

(* handlePollRequest with no dump in flight (one in flight leaves all as   *)
(* it is): pollAllNetlinkSockets installs a fresh envelope over whatever   *)
(* currentEnvelope was.                                                    *)
StartPoll ==
  /\ ppc = "select"
  /\ count <= 0
  /\ polls < MaxPolls
  /\ polls' = polls + 1
  /\ envOpen' = TRUE
  /\ env' = {}
  /\ lost' = lost \cup env
  /\ toPoll' = Sockets
  /\ ppc' = "polling"
  /\ UNCHANGED <<count, timer, psend, decVars, dumpVars, closed, sent, dropped, timedOut>>

(* poll(fd): the kernel refuses a dump while another runs on the socket,   *)
(* and a Sendto error is only counted.                                     *)
PollSocket(s) ==
  /\ ppc = "polling"
  /\ s \in toPoll
  /\ toPoll' = toPoll \ {s}
  /\ \/ /\ \A c \in Polls : dump[<<s, c>>] # "open"
        /\ dump' = [dump EXCEPT ![<<s, polls>>] = "open"]
        /\ \E n \in 0 .. MaxRows : todo' = todo \cup {<<s, polls, k>> : k \in 1 .. n}
     \/ UNCHANGED <<dump, todo>>
  /\ UNCHANGED <<ppc, count, polls, timer, psend, envVars, decVars, doneCh, closed, histVars>>

(* Mutant: a reserved entry, whose socket is not open, is counted as well. *)
FinishPollCountingReserved ==
  /\ ppc = "polling"
  /\ toPoll = {}
  /\ timer' = TRUE
  /\ count' = Cardinality(Sockets) + 1
  /\ ppc' = "select"
  /\ UNCHANGED <<polls, toPoll, psend, envVars, decVars, dumpVars, closed, histVars>>

(* Mutant: the poll timeout is not restarted.                              *)
FinishPollWithoutTimer ==
  /\ ppc = "polling"
  /\ toPoll = {}
  /\ timer' = timer
  /\ count' = Cardinality(Sockets)
  /\ ppc' = "select"
  /\ UNCHANGED <<polls, toPoll, psend, envVars, decVars, dumpVars, closed, histVars>>

(* Every socket asked: restart the timer; count what was asked.            *)
FinishPoll ==
  /\ ppc = "polling"
  /\ toPoll = {}
  /\ timer' = TRUE
  /\ count' = Cardinality(Sockets)
  /\ ppc' = "select"
  /\ UNCHANGED <<polls, toPoll, psend, envVars, decVars, dumpVars, closed, histVars>>

(* <-netlinkerDoneCh: the signal names the fd only, so any dump of the     *)
(* socket, whatever its cycle, counts.                                     *)
ReceiveDone ==
  /\ ppc = "select"
  /\ doneCh # <<>>
  /\ doneCh' = Tail(doneCh)
  /\ count' = count - 1
  /\ IF count - 1 = 0
     THEN TerminalFlush(<<"send", "select">>)
     ELSE UNCHANGED <<ppc, psend, envVars>>
  /\ UNCHANGED <<polls, toPoll, timer, decVars, dump, todo, closed, histVars>>

(* <-pollTimeoutTimer.C: the timer is not stopped by poll_end, so it may   *)
(* fire in a cycle that has completed.                                     *)
PollTimeout ==
  /\ ppc = "select"
  /\ timer
  /\ timer' = FALSE
  /\ count' = 0
  /\ timedOut' = IF count > 0 THEN timedOut \cup {polls} ELSE timedOut
  /\ TerminalFlush(<<"send", "select">>)
  /\ UNCHANGED <<polls, toPoll, decVars, dumpVars, closed, sent, dropped, lost>>

(* <-ctx.Done() or MaxLoops: the deferred shutdown flush.                  *)
PollerReturn ==
  /\ ppc = "select"
  /\ TerminalFlush(<<"lastsend", "returned">>)
  /\ UNCHANGED <<count, polls, toPoll, timer, decVars, dumpVars, closed, histVars>>

(* dest.Send returned to the poller's flushEnvelope.                       *)
PollerSent ==
  /\ ppc \in {"send", "lastsend"}
  /\ sent' = sent \cup psend
  /\ psend' = {}
  /\ ppc' = IF ppc = "send" THEN "select" ELSE "returned"
  /\ UNCHANGED <<count, polls, toPoll, timer, envVars, decVars, dumpVars, closed,
                 dropped, lost, timedOut>>

(* Run: workers.Wait (netlinkers and decoders are not workers), then       *)
(* closeDestination and closeEnrichers.                                    *)
RunCloses ==
  /\ ppc = "returned"
  /\ ~closed
  /\ closed' = TRUE
  /\ UNCHANGED <<pollVars, envVars, decVars, dumpVars, histVars>>

------------------------------------------------------------------------------
(* The decoders of a socket.                                               *)

(* Mutant: no cap is checked when a row is appended.                       *)
AppendRowWithoutCap(i, row) ==
  /\ dpc[i] = "idle"
  /\ row[1] = i[1]
  /\ row \in todo
  /\ todo' = todo \ {row}
  /\ IF envOpen
     THEN env' = env \cup {row} /\ UNCHANGED dropped
     ELSE dropped' = dropped \cup {row} /\ UNCHANGED env
  /\ UNCHANGED <<pollVars, envOpen, decVars, dump, doneCh, closed, sent, lost, timedOut>>

(* processInetDiagRecord under envelopeMu: drop the row when there is no   *)
(* envelope, otherwise append it and decide whether a cap was reached.     *)
(* Whether the byte cap trips depends on the rows' sizes.                  *)
AppendRow(i, row) ==
  /\ dpc[i] = "idle"
  /\ row[1] = i[1]
  /\ row \in todo
  /\ todo' = todo \ {row}
  /\ \/ /\ ~envOpen
        /\ dropped' = dropped \cup {row}
        /\ UNCHANGED <<env, dpc, drow>>
     \/ /\ envOpen
        /\ env' = env \cup {row}
        /\ \E bytesCap \in BOOLEAN :
             IF Cardinality(env) + 1 >= RowCap \/ bytesCap
             THEN /\ dpc' = [dpc EXCEPT ![i] = "flush"]
                  /\ drow' = [drow EXCEPT ![i] = row]
             ELSE UNCHANGED <<dpc, drow>>
        /\ UNCHANGED dropped
  /\ UNCHANGED <<pollVars, envOpen, dsend, dump, doneCh, closed, sent, lost, timedOut>>

(* Mutant: a cap flush leaves the rows in the envelope it sends.           *)
CapFlushKeepingRows(i) ==
  /\ dpc[i] = "flush"
  /\ dsend' = [dsend EXCEPT ![i] = env]
  /\ dpc' = [dpc EXCEPT ![i] = IF env = {} THEN "idle" ELSE "send"]
  /\ drow' = [drow EXCEPT ![i] = IF env = {} THEN <<>> ELSE @]
  /\ UNCHANGED <<pollVars, envVars, dumpVars, closed, histVars>>

(* Mutant: a cap flush does not install a fresh envelope.                  *)
CapFlushWithoutReacquire(i) ==
  /\ dpc[i] = "flush"
  /\ envOpen' = FALSE
  /\ env' = {}
  /\ dsend' = [dsend EXCEPT ![i] = env]
  /\ dpc' = [dpc EXCEPT ![i] = IF env = {} THEN "idle" ELSE "send"]
  /\ drow' = [drow EXCEPT ![i] = IF env = {} THEN <<>> ELSE @]
  /\ UNCHANGED <<pollVars, dumpVars, closed, histVars>>

(* flushEnvelope with a cap reason: take the rows, install a fresh one.    *)
CapFlush(i) ==
  /\ dpc[i] = "flush"
  /\ envOpen' = TRUE
  /\ env' = {}
  /\ dsend' = [dsend EXCEPT ![i] = env]
  /\ dpc' = [dpc EXCEPT ![i] = IF env = {} THEN "idle" ELSE "send"]
  /\ drow' = [drow EXCEPT ![i] = IF env = {} THEN <<>> ELSE @]
  /\ UNCHANGED <<pollVars, dumpVars, closed, histVars>>

(* dest.Send returned to a decoder's flushEnvelope.                        *)
DecoderSent(i) ==
  /\ dpc[i] = "send"
  /\ sent' = sent \cup dsend[i]
  /\ dsend' = [dsend EXCEPT ![i] = {}]
  /\ dpc' = [dpc EXCEPT ![i] = "idle"]
  /\ drow' = [drow EXCEPT ![i] = <<>>]
  /\ UNCHANGED <<pollVars, envVars, dumpVars, closed, dropped, lost, timedOut>>

------------------------------------------------------------------------------
(* The dump service of each socket (external: the kernel, and Netlinker).  *)

(* The kernel has sent the dump's NLMSG_DONE and takes new requests.       *)
KernelEnds(d) ==
  /\ dump[d] = "open"
  /\ dump' = [dump EXCEPT ![d] = "ended"]
  /\ UNCHANGED <<pollVars, envVars, decVars, todo, doneCh, closed, histVars>>

(* Mutant: a decoder that is still flushing does not delay the signal.     *)
ProcessedIgnoringFlush(d) == \A row \in todo : DumpOf(row) # d

(* Every row of the dump is deserialized, and a flush it caused is over.   *)
Processed(d) ==
  /\ \A row \in todo : DumpOf(row) # d
  /\ \A i \in Decoders : dpc[i] # "idle" => DumpOf(drow[i]) # d

(* Mutant: a full channel does not block.                                  *)
ReportDoneUnbounded(d) ==
  /\ dump[d] = "ended"
  /\ Processed(d)
  /\ doneCh' = Append(doneCh, d)
  /\ dump' = [dump EXCEPT ![d] = "reported"]
  /\ UNCHANGED <<pollVars, envVars, decVars, todo, closed, histVars>>

(* DumpService!Report: the done signal, after the last row is processed.   *)
ReportDone(d) ==
  /\ dump[d] = "ended"
  /\ Processed(d)
  /\ Len(doneCh) < DoneChanSize
  /\ doneCh' = Append(doneCh, d)
  /\ dump' = [dump EXCEPT ![d] = "reported"]
  /\ UNCHANGED <<pollVars, envVars, decVars, todo, closed, histVars>>

Poller ==
  \/ StartPoll
  \/ \E s \in Sockets : PollSocket(s)
  \/ FinishPoll
  \/ ReceiveDone
  \/ PollTimeout
  \/ PollerSent

Decoder(i) ==
  \/ \E row \in todo : AppendRow(i, row)
  \/ CapFlush(i)
  \/ DecoderSent(i)

Next ==
  \/ Poller
  \/ PollerReturn
  \/ RunCloses
  \/ \E i \in Decoders : Decoder(i)
  \/ \E d \in Dumps : KernelEnds(d) \/ ReportDone(d)

Spec == Init /\ [][Next]_vars

(* Goroutines that can run do run, the kernel finishes its dumps and the   *)
(* poll timeout fires; nothing forces a poll request or the shutdown.      *)
Fairness ==
  /\ WF_vars(\E s \in Sockets : PollSocket(s))
  /\ WF_vars(FinishPoll)
  /\ WF_vars(PollerSent)
  /\ WF_vars(PollTimeout)
  /\ SF_vars(ReceiveDone)
  /\ \A i \in Decoders : WF_vars(Decoder(i))
  /\ \A d \in Dumps : WF_vars(KernelEnds(d)) /\ SF_vars(ReportDone(d))

FairSpec == Spec /\ Fairness

------------------------------------------------------------------------------
InFlight == psend \cup UNION {dsend[i] : i \in Decoders}
Stopped  == ppc \in {"lastsend", "returned"}

(* Every variable has its type; netlinkerDoneCh does not overflow.         *)
TypeOK ==
  /\ ppc \in {"select", "polling", "send", "lastsend", "returned"}
  /\ count \in Int
  /\ polls \in 0 .. MaxPolls
  /\ toPoll \subseteq Sockets
  /\ timer \in BOOLEAN /\ envOpen \in BOOLEAN /\ closed \in BOOLEAN
  /\ dump \in [Dumps -> {"none", "open", "ended", "reported"}]
  /\ dpc \in [Decoders -> {"idle", "flush", "send"}]
  /\ drow \in [Decoders -> Rows \cup {<<>>}]
  /\ dsend \in [Decoders -> SUBSET Rows]
  /\ doneCh \in Seq(Dumps) /\ Len(doneCh) <= DoneChanSize
  /\ timedOut \subseteq Polls
  /\ \A S \in {psend, env, todo, sent, dropped, lost} : S \subseteq Rows

(* No row is duplicated: a row is waiting for a decoder, in the envelope,  *)
(* in the hands of exactly one dest.Send, sent, dropped or lost, and       *)
(* flushing by the poller and by several decoders never sends one twice.   *)
RowInOnePlace ==
  LET places == <<todo, env, psend, sent, dropped, lost>>
  IN /\ \A j, k \in 1 .. 6 : j # k => places[j] \cap places[k] = {}
     /\ \A i \in Decoders :
          /\ \A k \in 1 .. 6 : dsend[i] \cap places[k] = {}
          /\ \A j \in Decoders \ {i} : dsend[i] \cap dsend[j] = {}

(* While no cycle has timed out, the poller waits for exactly the dumps of *)
(* the current cycle it has not been told of: one signal per socket asked. *)
CountIsOutstanding ==
  timedOut = {} /\ ppc = "select" /\ polls > 0 =>
    count = Cardinality({s \in Sockets :
               \/ dump[<<s, polls>>] # "reported"
               \/ \E k \in 1 .. Len(doneCh) : doneCh[k] = <<s, polls>>})

(* poll_end is complete: while no cycle has timed out, a poller that waits *)
(* for nothing has flushed every row of every dump.                        *)
PollEndComplete ==
  timedOut = {} /\ ppc = "select" /\ count = 0 =>
    todo = {} /\ env = {} /\ InFlight = {}

(* A row is dropped after a flush, or lost with an overwritten envelope,   *)
(* only once a poll timeout or the shutdown flush has cut a cycle short    *)
(* (flushEnvelope's comment).                                              *)
LossNeedsTimeout ==
  dropped \cup lost # {} => timedOut # {} \/ Stopped

(* The envelope exceeds its row cap by at most the decoders that appended  *)
(* before the first of them took it.                                       *)
EnvelopeBounded == Cardinality(env) < RowCap + Cardinality(Decoders)

(* A cycle ends even if done signals never come: the timeout ends it.      *)
CycleEnds == count > 0 ~> (count <= 0 \/ Stopped)

(* Every row a dump produced reaches the destination, unless a cycle timed *)
(* out or the poller returned.                                             *)
RowsDelivered ==
  \A row \in Rows : row \in todo ~> (row \in sent \/ timedOut # {} \/ Stopped)

------------------------------------------------------------------------------
(* What the comments of the code say of it.                                *)

(* poller.go, flushEnvelope: a row is dropped only for decoders racing the *)
(* shutdown flush or a poll_timeout; poll_end waits for every dump.        *)
DropsOnlyInTimedOutCycle ==
  \A row \in dropped : row[2] \in timedOut \/ Stopped

(* poller.go, flushEnvelope: a terminal flush leaves currentEnvelope nil   *)
(* until the next poll re-acquires one, so a poll never overwrites rows.   *)
EnvelopesAreFlushed == lost = {}
==============================================================================
