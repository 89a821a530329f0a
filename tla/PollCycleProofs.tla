--------------------------- MODULE PollCycleProofs ---------------------------
(***************************************************************************)
(* Proofs about the poll cycles and the envelope, for any sockets,         *)
(* decoders, caps, channel capacity, rows and polls.  The inductive        *)
(* invariant says where every row is (Apart), which dumps the rows at work *)
(* belong to (Fresh, Begun, Working), what the done signals stand for      *)
(* (Channel, Counting), when the envelope is empty or missing (Flushed)    *)
(* and how far it can grow (Bounded).                                      *)
(***************************************************************************)
EXTENDS PollCycle, FiniteSetTheorems, TLAPS

(* A cycle that is being started or waited for has a number.               *)
Numbered == ppc = "polling" \/ count > 0 => polls \in Polls

(* The rows the decoders are handing to dest.Send.                         *)
Sending == UNION {dsend[i] : i \in Decoders}

(* A row is in one place only, the hands of each dest.Send being a place.  *)
Apart ==
  /\ \A row \in Rows :
       /\ row \in todo => row \notin env \cup psend \cup sent \cup dropped \cup lost \cup Sending
       /\ row \in env => row \notin psend \cup sent \cup dropped \cup lost \cup Sending
       /\ row \in psend => row \notin sent \cup dropped \cup lost \cup Sending
       /\ row \in sent => row \notin dropped \cup lost \cup Sending
       /\ row \in dropped => row \notin lost \cup Sending
       /\ row \in lost => row \notin Sending
  /\ \A i, j \in Decoders : i # j => dsend[i] \cap dsend[j] = {}

(* A dump that has not been asked for has not begun, and no row exists of  *)
(* one that has not: its rows are new when it begins.                      *)
Fresh ==
  /\ \A s \in Sockets, c \in Polls : c > polls => dump[<<s, c>>] = "none"
  /\ ppc = "polling" => \A s \in toPoll : dump[<<s, polls>>] = "none"

Placed == todo \cup env \cup psend \cup sent \cup dropped \cup lost \cup Sending
Begun  == \A row \in Placed : dump[DumpOf(row)] # "none"

(* What is not processed yet belongs to a dump that is not reported yet.   *)
Working ==
  /\ \A row \in todo : dump[DumpOf(row)] # "reported"
  /\ \A i \in Decoders : dpc[i] # "idle" =>
       drow[i] \in Rows /\ dump[DumpOf(drow[i])] \in {"open", "ended"}
  /\ \A i \in Decoders : dpc[i] # "send" => dsend[i] = {}
  /\ ppc \notin {"send", "lastsend"} => psend = {}

(* A dump is reported once.                                                *)
Channel ==
  /\ \A k \in 1 .. Len(doneCh) : dump[doneCh[k]] = "reported"
  /\ \A j, k \in 1 .. Len(doneCh) : j # k => doneCh[j] # doneCh[k]

(* The sockets whose dump of the current cycle the poller was not told of. *)
Outstanding ==
  {s \in Sockets :
     \/ dump[<<s, polls>>] # "reported"
     \/ \E k \in 1 .. Len(doneCh) : doneCh[k] = <<s, polls>>}

(* While no cycle has timed out, earlier cycles are over: every signal is  *)
(* one of the current cycle, and count is the number of those to come.     *)
Counting ==
  timedOut = {} =>
    /\ \A s \in Sockets, c \in Polls : c < polls => dump[<<s, c>>] = "reported"
    /\ \A k \in 1 .. Len(doneCh) : doneCh[k][2] = polls
    /\ ppc = "polling" => Outstanding = Sockets
    /\ ppc # "polling" /\ polls > 0 => count = Cardinality(Outstanding)
    /\ polls = 0 => count = 0

(* ... and the envelope is there while rows can come, and empty when the   *)
(* poller waits for nothing.                                               *)
Flushed ==
  timedOut = {} =>
    /\ ppc # "polling" /\ count = 0 => env = {}
    /\ ~Stopped /\ ~envOpen => ppc # "polling" /\ count = 0

(* Every row at or above the cap was appended by a decoder that has still  *)
(* to flush.                                                               *)
Flushing == {i \in Decoders : dpc[i] = "flush"}
Bounded ==
  IsFiniteSet(env) /\ Cardinality(env) < RowCap + Cardinality(Flushing)

IInv ==
  /\ TypeOK /\ Numbered
  /\ Apart /\ Fresh /\ Begun /\ Working
  /\ Channel /\ Counting /\ Flushed /\ LossNeedsTimeout
  /\ Bounded

------------------------------------------------------------------------------
(* The dumps and their rows, as pairs and triples.                         *)
LEMMA DumpFacts ==
  /\ \A s \in Sockets, c \in Polls : <<s, c>> \in Dumps
  /\ \A d \in Dumps : d[1] \in Sockets /\ d[2] \in Polls /\ d = <<d[1], d[2]>>
BY DEF Dumps

LEMMA RowFacts ==
  /\ \A row \in Rows : DumpOf(row) \in Dumps /\ row[1] \in Sockets /\ row[2] \in Polls
  /\ \A s \in Sockets, c \in Polls, k \in 1 .. MaxRows :
       <<s, c, k>> \in Rows /\ DumpOf(<<s, c, k>>) = <<s, c>>
BY DEF Rows, Dumps, DumpOf

(* The types of the sets of rows.                                          *)
LEMMA RowSets ==
  ASSUME TypeOK
  PROVE  /\ psend \subseteq Rows /\ env \subseteq Rows /\ todo \subseteq Rows
         /\ sent \subseteq Rows /\ dropped \subseteq Rows /\ lost \subseteq Rows
         /\ \A i \in Decoders : dsend[i] \subseteq Rows
BY DEF TypeOK

(* A cycle that is being started or waited for has a number.               *)
LEMMA NumberedStep == TypeOK /\ Numbered /\ [Next]_vars => Numbered'
<1> SUFFICES ASSUME TypeOK, Numbered, [Next]_vars PROVE Numbered'
  OBVIOUS
<1>0. count \in Int /\ polls \in 0 .. MaxPolls /\ MaxPolls \in Nat
  BY BoundsAssumption DEF TypeOK
<1>1. CASE StartPoll
  BY <1>0, <1>1 DEF StartPoll, Numbered, Polls
<1>2. CASE FinishPoll
  BY <1>0, <1>2 DEF FinishPoll, Numbered, Polls
<1>3. CASE ReceiveDone
  BY <1>0, <1>3 DEF ReceiveDone, TerminalFlush, Numbered, Polls
<1>4. CASE PollTimeout
  BY <1>0, <1>4 DEF PollTimeout, TerminalFlush, Numbered, Polls
<1>5. CASE PollerReturn
  BY <1>0, <1>5 DEF PollerReturn, TerminalFlush, Numbered, Polls
<1>6. CASE PollerSent
  BY <1>0, <1>6 DEF PollerSent, Numbered, Polls
<1>7. CASE UNCHANGED <<ppc, count, polls>>
  BY <1>7, Zenon DEF Numbered
<1>8. ASSUME NEW s \in Sockets, PollSocket(s) PROVE Numbered'
  BY <1>7, <1>8, Zenon DEF PollSocket
<1>9. ASSUME NEW i \in Decoders, Decoder(i) PROVE Numbered'
  BY <1>7, <1>9, Zenon DEF Decoder, AppendRow, CapFlush, DecoderSent, pollVars
<1>10. ASSUME NEW d \in Dumps, KernelEnds(d) \/ ReportDone(d) PROVE Numbered'
  BY <1>7, <1>10, Zenon DEF KernelEnds, ReportDone, pollVars
<1>11. CASE RunCloses \/ UNCHANGED vars
  BY <1>7, <1>11, Zenon DEF RunCloses, vars, pollVars
<1> QED
  BY <1>1, <1>2, <1>3, <1>4, <1>5, <1>6, <1>8, <1>9, <1>10, <1>11, Zenon DEF Next, Poller

(* The variables start with their types.                                   *)
LEMMA TypeInit == Init => TypeOK /\ Numbered
<1> SUFFICES ASSUME Init PROVE TypeOK /\ Numbered
  OBVIOUS
<1>1. polls \in 0 .. MaxPolls /\ count \in Int /\ Numbered
  BY BoundsAssumption DEF Init, Numbered
<1>2. /\ dump \in [Dumps -> {"none", "open", "ended", "reported"}]
      /\ dpc \in [Decoders -> {"idle", "flush", "send"}]
      /\ drow \in [Decoders -> Rows \cup {<<>>}]
      /\ dsend \in [Decoders -> SUBSET Rows]
  BY DEF Init
<1>3. doneCh \in Seq(Dumps) /\ Len(doneCh) <= DoneChanSize
  BY BoundsAssumption DEF Init
<1>4. \A S \in {psend, env, todo, sent, dropped, lost} : S \subseteq Rows
  BY DEF Init
<1> QED
  BY <1>1, <1>2, <1>3, <1>4, Zenon DEF Init, TypeOK

(* No step changes a type, and netlinkerDoneCh does not overflow.          *)
LEMMA TypeStep == TypeOK /\ Numbered /\ [Next]_vars => TypeOK'
<1> SUFFICES ASSUME TypeOK, Numbered, [Next]_vars PROVE TypeOK'
  OBVIOUS
<1> DEFINE PCs == {"select", "polling", "send", "lastsend", "returned"}
           DumpStates == {"none", "open", "ended", "reported"}
           RowsOK == \A S \in {psend, env, todo, sent, dropped, lost} : S \subseteq Rows
<1>0. /\ ppc \in PCs /\ count \in Int /\ polls \in 0 .. MaxPolls /\ MaxPolls \in Nat
      /\ dump \in [Dumps -> DumpStates]
      /\ dpc \in [Decoders -> {"idle", "flush", "send"}]
      /\ drow \in [Decoders -> Rows \cup {<<>>}]
      /\ dsend \in [Decoders -> SUBSET Rows]
      /\ doneCh \in Seq(Dumps) /\ Len(doneCh) <= DoneChanSize
  BY BoundsAssumption DEF TypeOK
<1>1. CASE StartPoll
  <2>1. ppc' \in PCs /\ polls' \in 0 .. MaxPolls /\ toPoll' \subseteq Sockets /\ envOpen' \in BOOLEAN
    BY <1>0, <1>1 DEF StartPoll
  <2>2. RowsOK'
    BY <1>1, RowSets DEF StartPoll, dumpVars
  <2> QED
    BY <1>1, <2>1, <2>2, Zenon DEF TypeOK, StartPoll, decVars, dumpVars
<1>2. ASSUME NEW s \in Sockets, PollSocket(s) PROVE TypeOK'
  <2>1. polls \in Polls
    BY <1>2 DEF PollSocket, Numbered
  <2>2. /\ dump' \in [Dumps -> DumpStates]
        /\ toPoll' \subseteq Sockets
    BY <1>0, <1>2, Zenon DEF PollSocket, TypeOK
  <2>3. todo' \subseteq Rows
    BY <1>2, <2>1, RowSets, RowFacts, BoundsAssumption DEF PollSocket
  <2>4. RowsOK'
    BY <1>2, <2>3, RowSets DEF PollSocket, envVars, histVars
  <2> QED
    BY <1>2, <2>2, <2>4, Zenon DEF TypeOK, PollSocket, envVars, decVars, histVars
<1>3. CASE FinishPoll
  <2>1. ppc' \in PCs /\ count' \in Int /\ timer' \in BOOLEAN
    BY <1>3, SocketsAssumption, FS_CardinalityType DEF FinishPoll
  <2> QED
    BY <1>3, <2>1, Zenon DEF TypeOK, FinishPoll, envVars, decVars, dumpVars, histVars
<1>4. CASE ReceiveDone
  <2>1. count' \in Int /\ ppc' \in PCs
    BY <1>0, <1>4 DEF ReceiveDone, TerminalFlush
  <2>4. envOpen' \in BOOLEAN
    BY <1>4, Zenon DEF ReceiveDone, TerminalFlush, envVars, TypeOK
  <2>2. doneCh' \in Seq(Dumps) /\ Len(doneCh') <= DoneChanSize
    BY <1>0, <1>4, BoundsAssumption DEF ReceiveDone
  <2>3. RowsOK'
    BY <1>4, RowSets DEF ReceiveDone, TerminalFlush, envVars, histVars
  <2> QED
    BY <1>4, <2>1, <2>2, <2>3, <2>4, Zenon DEF TypeOK, ReceiveDone, decVars, histVars
<1>5. CASE PollTimeout
  <2>1. count' \in Int /\ ppc' \in PCs
    BY <1>5 DEF PollTimeout, TerminalFlush
  <2>4. timer' \in BOOLEAN /\ envOpen' \in BOOLEAN
    BY <1>5, Zenon DEF PollTimeout, TerminalFlush
  <2>3. timedOut' \subseteq Polls
    BY <1>0, <1>5, Zenon DEF PollTimeout, TypeOK, Numbered
  <2>2. RowsOK'
    BY <1>5, RowSets DEF PollTimeout, TerminalFlush, dumpVars
  <2> QED
    BY <1>5, <2>1, <2>2, <2>3, <2>4, Zenon DEF TypeOK, PollTimeout, decVars, dumpVars
<1>6. CASE PollerReturn
  <2>1. ppc' \in PCs /\ envOpen' \in BOOLEAN
    BY <1>6, Zenon DEF PollerReturn, TerminalFlush
  <2>2. RowsOK'
    BY <1>6, RowSets DEF PollerReturn, TerminalFlush, dumpVars, histVars
  <2> QED
    BY <1>6, <2>1, <2>2, Zenon DEF TypeOK, PollerReturn, decVars, dumpVars, histVars
<1>7. CASE PollerSent
  <2>1. ppc' \in PCs
    BY <1>7 DEF PollerSent
  <2>2. RowsOK'
    BY <1>7, RowSets DEF PollerSent, dumpVars, envVars
  <2> QED
    BY <1>7, <2>1, <2>2, Zenon DEF TypeOK, PollerSent, envVars, decVars, dumpVars
<1>8. CASE RunCloses
  BY <1>8, Zenon DEF TypeOK, RunCloses, pollVars, envVars, decVars, dumpVars, histVars
<1>9. ASSUME NEW i \in Decoders, NEW row \in todo, AppendRow(i, row) PROVE TypeOK'
  <2>1. /\ dpc' \in [Decoders -> {"idle", "flush", "send"}]
        /\ drow' \in [Decoders -> Rows \cup {<<>>}]
    BY <1>0, <1>9, RowSets DEF AppendRow
  <2>2. RowsOK'
    BY <1>9, RowSets DEF AppendRow, pollVars
  <2> QED
    BY <1>9, <2>1, <2>2, Zenon DEF TypeOK, AppendRow, pollVars
<1>10. ASSUME NEW i \in Decoders, CapFlush(i) PROVE TypeOK'
  <2>1. /\ dpc' \in [Decoders -> {"idle", "flush", "send"}]
        /\ drow' \in [Decoders -> Rows \cup {<<>>}]
        /\ dsend' \in [Decoders -> SUBSET Rows]
        /\ envOpen' \in BOOLEAN
    BY <1>0, <1>10, RowSets DEF CapFlush
  <2>2. RowsOK'
    BY <1>10, RowSets DEF CapFlush, pollVars, dumpVars, histVars
  <2> QED
    BY <1>10, <2>1, <2>2, Zenon DEF TypeOK, CapFlush, pollVars, dumpVars, histVars
<1>11. ASSUME NEW i \in Decoders, DecoderSent(i) PROVE TypeOK'
  <2>1. /\ dpc' \in [Decoders -> {"idle", "flush", "send"}]
        /\ drow' \in [Decoders -> Rows \cup {<<>>}]
        /\ dsend' \in [Decoders -> SUBSET Rows]
    BY <1>0, <1>11 DEF DecoderSent
  <2>2. RowsOK'
    BY <1>11, RowSets DEF DecoderSent, pollVars, envVars, dumpVars
  <2> QED
    BY <1>11, <2>1, <2>2, Zenon DEF TypeOK, DecoderSent, pollVars, envVars, dumpVars
<1>12. ASSUME NEW d \in Dumps, KernelEnds(d) PROVE TypeOK'
  <2>1. dump' \in [Dumps -> DumpStates]
    BY <1>0, <1>12 DEF KernelEnds
  <2> QED
    BY <1>12, <2>1, Zenon DEF TypeOK, KernelEnds, pollVars, envVars, decVars, histVars
<1>13. ASSUME NEW d \in Dumps, ReportDone(d) PROVE TypeOK'
  <2>1. dump' \in [Dumps -> DumpStates]
    BY <1>0, <1>13 DEF ReportDone
  <2>2. doneCh' \in Seq(Dumps) /\ Len(doneCh') <= DoneChanSize
    BY <1>0, <1>13, BoundsAssumption DEF ReportDone
  <2> QED
    BY <1>13, <2>1, <2>2, Zenon DEF TypeOK, ReportDone, pollVars, envVars, decVars, histVars
<1>14. CASE UNCHANGED vars
  BY <1>14, Zenon DEF TypeOK, vars, pollVars, envVars, decVars, dumpVars, histVars
<1> QED
  BY <1>1, <1>2, <1>3, <1>4, <1>5, <1>6, <1>7, <1>8, <1>9, <1>10, <1>11, <1>12, <1>13,
     <1>14, Zenon DEF Next, Poller, Decoder

------------------------------------------------------------------------------
(* The dumps.                                                              *)

(* A dump begins when its socket is asked (poll), ends when the kernel     *)
(* says so, and is reported once it is processed: it never goes back.      *)
LEMMA DumpProgress ==
  ASSUME TypeOK, Numbered, Fresh, [Next]_vars, NEW d \in Dumps
  PROVE  \/ dump'[d] = dump[d]
         \/ /\ dump[d] = "none" /\ dump'[d] = "open"
            /\ ppc = "polling" /\ polls \in Polls
            /\ d[2] = polls /\ d[1] \in toPoll /\ d[1] \notin toPoll'
            /\ UNCHANGED <<polls, timedOut>>
         \/ dump[d] = "open" /\ dump'[d] = "ended"
         \/ /\ dump[d] = "ended" /\ dump'[d] = "reported" /\ Processed(d)
            /\ UNCHANGED <<todo, decVars>>
<1> DEFINE Goal ==
             \/ dump'[d] = dump[d]
             \/ /\ dump[d] = "none" /\ dump'[d] = "open"
                /\ ppc = "polling" /\ polls \in Polls
                /\ d[2] = polls /\ d[1] \in toPoll /\ d[1] \notin toPoll'
                /\ UNCHANGED <<polls, timedOut>>
             \/ dump[d] = "open" /\ dump'[d] = "ended"
             \/ /\ dump[d] = "ended" /\ dump'[d] = "reported" /\ Processed(d)
                /\ UNCHANGED <<todo, decVars>>
<1>0. dump \in [Dumps -> {"none", "open", "ended", "reported"}]
  BY DEF TypeOK
<1>1. ASSUME NEW s \in Sockets, PollSocket(s) PROVE Goal
  <2>1. ppc = "polling" /\ s \in toPoll /\ polls \in Polls /\ dump[<<s, polls>>] = "none"
        /\ toPoll' = toPoll \ {s} /\ UNCHANGED <<polls, timedOut>>
    BY <1>1 DEF PollSocket, Numbered, Fresh, histVars
  <2>2. dump' = [dump EXCEPT ![<<s, polls>>] = "open"] \/ dump' = dump
    BY <1>1, Zenon DEF PollSocket
  <2> QED
    BY <1>0, <2>1, <2>2, DumpFacts
<1>2. ASSUME NEW e \in Dumps, KernelEnds(e) PROVE Goal
  BY <1>0, <1>2 DEF KernelEnds
<1>3. ASSUME NEW e \in Dumps, ReportDone(e) PROVE Goal
  BY <1>0, <1>3 DEF ReportDone
<1>4. CASE UNCHANGED dump
  BY <1>4
<1>5. ASSUME NEW i \in Decoders, Decoder(i) PROVE Goal
  BY <1>4, <1>5, Zenon DEF Decoder, AppendRow, CapFlush, DecoderSent, dumpVars
<1>6. CASE StartPoll \/ FinishPoll \/ ReceiveDone \/ PollTimeout \/ PollerSent
  BY <1>4, <1>6, Zenon DEF StartPoll, FinishPoll, ReceiveDone, PollTimeout, PollerSent, dumpVars
<1>7. CASE PollerReturn \/ RunCloses \/ UNCHANGED vars
  BY <1>4, <1>7, Zenon DEF PollerReturn, RunCloses, vars, dumpVars
<1> QED
  BY <1>1, <1>2, <1>3, <1>5, <1>6, <1>7, Zenon DEF Next, Poller

(* How a step moves the poller from cycle to cycle.                        *)
LEMMA CycleFacts ==
  ASSUME [Next]_vars
  PROVE  \/ StartPoll
         \/ \E s \in toPoll : ppc = "polling" /\ toPoll' = toPoll \ {s} /\ UNCHANGED <<ppc, polls>>
         \/ UNCHANGED <<polls, toPoll>> /\ (ppc' = "polling" => ppc = "polling")
<1> DEFINE Goal ==
             \/ StartPoll
             \/ \E s \in toPoll : ppc = "polling" /\ toPoll' = toPoll \ {s} /\ UNCHANGED <<ppc, polls>>
             \/ UNCHANGED <<polls, toPoll>> /\ (ppc' = "polling" => ppc = "polling")
<1>1. ASSUME NEW s \in Sockets, PollSocket(s) PROVE Goal
  BY <1>1, Zenon DEF PollSocket
<1>2. CASE FinishPoll \/ ReceiveDone \/ PollTimeout \/ PollerSent \/ PollerReturn
  BY <1>2 DEF FinishPoll, ReceiveDone, PollTimeout, PollerSent, PollerReturn, TerminalFlush
<1>3. CASE UNCHANGED pollVars
  BY <1>3, Zenon DEF pollVars
<1>4. ASSUME NEW i \in Decoders, Decoder(i) PROVE Goal
  BY <1>3, <1>4, Zenon DEF Decoder, AppendRow, CapFlush, DecoderSent
<1>5. ASSUME NEW d \in Dumps, KernelEnds(d) \/ ReportDone(d) PROVE Goal
  BY <1>3, <1>5, Zenon DEF KernelEnds, ReportDone
<1>6. CASE RunCloses \/ UNCHANGED vars
  BY <1>3, <1>6, Zenon DEF RunCloses, vars
<1> QED
  BY <1>1, <1>2, <1>4, <1>5, <1>6, Zenon DEF Next, Poller

(* A dump that has not been asked for has not begun.                       *)
LEMMA FreshStep == TypeOK /\ Numbered /\ Fresh /\ [Next]_vars => Fresh'
<1> SUFFICES ASSUME TypeOK, Numbered, Fresh, [Next]_vars PROVE Fresh'
  OBVIOUS
<1>0. polls \in 0 .. MaxPolls /\ MaxPolls \in Nat /\ toPoll \subseteq Sockets
  BY BoundsAssumption DEF TypeOK
<1>1. polls' \in {polls, polls + 1}
  BY CycleFacts, Zenon DEF StartPoll
<1>2. ASSUME NEW s \in Sockets, NEW c \in Polls, c > polls' PROVE dump'[<<s, c>>] = "none"
  <2>1. c > polls
    BY <1>0, <1>1, <1>2 DEF Polls
  <2>2. dump[<<s, c>>] = "none" /\ <<s, c>> \in Dumps /\ <<s, c>>[2] # polls
    BY <1>0, <2>1, DumpFacts DEF Fresh, Polls
  <2> QED
    BY <2>2, DumpProgress
<1>3. ASSUME ppc' = "polling", NEW s \in toPoll' PROVE dump'[<<s, polls'>>] = "none"
  <2>1. CASE StartPoll
    <3>1. UNCHANGED dump /\ polls' = polls + 1 /\ polls' \in Polls /\ s \in Sockets
      BY <1>0, <1>3, <2>1 DEF StartPoll, dumpVars, Polls
    <3> QED
      BY <1>0, <3>1 DEF Fresh, Polls
  <2>2. CASE ~StartPoll
    <3>1. ppc = "polling" /\ polls' = polls /\ s \in toPoll /\ polls \in Polls
      BY <1>3, <2>2, CycleFacts DEF Numbered
    <3>2. dump[<<s, polls>>] = "none" /\ <<s, polls>> \in Dumps /\ <<s, polls>>[1] = s
      BY <1>0, <3>1, DumpFacts DEF Fresh
    <3> QED
      BY <1>3, <3>1, <3>2, DumpProgress
  <2> QED
    BY <2>1, <2>2
<1> QED
  BY <1>2, <1>3 DEF Fresh

------------------------------------------------------------------------------
(* The rows and the decoders.                                              *)

(* A row a decoder can take was there before, or its dump begins now.      *)
LEMMA TodoFacts ==
  ASSUME TypeOK, Numbered, [Next]_vars, NEW row \in todo'
  PROVE  \/ row \in todo
         \/ /\ row \in Rows /\ row \notin todo /\ dump'[DumpOf(row)] = "open"
            /\ \E s \in toPoll : ppc = "polling" /\ polls \in Polls /\ DumpOf(row) = <<s, polls>>
<1> DEFINE Goal ==
             \/ row \in todo
             \/ /\ row \in Rows /\ row \notin todo /\ dump'[DumpOf(row)] = "open"
                /\ \E s \in toPoll : ppc = "polling" /\ polls \in Polls /\ DumpOf(row) = <<s, polls>>
<1>1. ASSUME NEW s \in Sockets, PollSocket(s), row \notin todo PROVE Goal
  <2>1. ppc = "polling" /\ s \in toPoll /\ polls \in Polls
    BY <1>1 DEF PollSocket, Numbered
  <2>2. PICK n \in 0 .. MaxRows : /\ dump' = [dump EXCEPT ![<<s, polls>>] = "open"]
                                  /\ todo' = todo \cup {<<s, polls, k>> : k \in 1 .. n}
    BY <1>1, Zenon DEF PollSocket
  <2>3. PICK k \in 1 .. n : row = <<s, polls, k>>
    BY <1>1, <2>2
  <2>4. row \in Rows /\ DumpOf(row) = <<s, polls>> /\ <<s, polls>> \in Dumps
    BY <2>1, <2>2, <2>3, RowFacts, DumpFacts, BoundsAssumption
  <2> QED
    BY <1>1, <2>1, <2>2, <2>4 DEF TypeOK
<1>2. CASE todo' \subseteq todo
  BY <1>2
<1>3. ASSUME NEW i \in Decoders, Decoder(i) PROVE Goal
  BY <1>2, <1>3, Zenon DEF Decoder, AppendRow, CapFlush, DecoderSent, dumpVars
<1>4. CASE StartPoll \/ FinishPoll \/ ReceiveDone \/ PollTimeout \/ PollerSent
  BY <1>2, <1>4, Zenon DEF StartPoll, FinishPoll, ReceiveDone, PollTimeout, PollerSent, dumpVars
<1>5. CASE PollerReturn \/ RunCloses \/ UNCHANGED vars
  BY <1>2, <1>5, Zenon DEF PollerReturn, RunCloses, vars, dumpVars
<1>6. ASSUME NEW d \in Dumps, KernelEnds(d) \/ ReportDone(d) PROVE Goal
  BY <1>2, <1>6, Zenon DEF KernelEnds, ReportDone
<1> QED
  BY <1>1, <1>3, <1>4, <1>5, <1>6, Zenon DEF Next, Poller

(* A decoder at work has its row from before, or takes it now; it hands    *)
(* rows to dest.Send only from a flush on.                                 *)
LEMMA DecoderFacts ==
  ASSUME TypeOK, [Next]_vars, NEW j \in Decoders
  PROVE  /\ dpc'[j] # "idle" =>
              \/ dpc[j] # "idle" /\ drow'[j] = drow[j]
              \/ dpc[j] = "idle" /\ drow'[j] \in todo /\ UNCHANGED dump
         /\ (dpc[j] # "send" => dsend[j] = {}) => (dpc'[j] # "send" => dsend'[j] = {})
<1> DEFINE Goal ==
             /\ dpc'[j] # "idle" =>
                  \/ dpc[j] # "idle" /\ drow'[j] = drow[j]
                  \/ dpc[j] = "idle" /\ drow'[j] \in todo /\ UNCHANGED dump
             /\ (dpc[j] # "send" => dsend[j] = {}) => (dpc'[j] # "send" => dsend'[j] = {})
<1>0. /\ dpc \in [Decoders -> {"idle", "flush", "send"}]
      /\ drow \in [Decoders -> Rows \cup {<<>>}]
      /\ dsend \in [Decoders -> SUBSET Rows]
  BY DEF TypeOK
<1>1. ASSUME NEW i \in Decoders, NEW row \in todo, AppendRow(i, row) PROVE Goal
  BY <1>0, <1>1 DEF AppendRow
<1>2. ASSUME NEW i \in Decoders, CapFlush(i) PROVE Goal
  BY <1>0, <1>2 DEF CapFlush
<1>3. ASSUME NEW i \in Decoders, DecoderSent(i) PROVE Goal
  BY <1>0, <1>3 DEF DecoderSent
<1>4. CASE UNCHANGED decVars
  BY <1>4 DEF decVars
<1>5. CASE Poller
  BY <1>4, <1>5, Zenon DEF Poller, StartPoll, PollSocket, FinishPoll, ReceiveDone, PollTimeout,
     PollerSent
<1>6. CASE PollerReturn \/ RunCloses \/ UNCHANGED vars
  BY <1>4, <1>6, Zenon DEF PollerReturn, RunCloses, vars
<1>7. ASSUME NEW d \in Dumps, KernelEnds(d) \/ ReportDone(d) PROVE Goal
  BY <1>4, <1>7, Zenon DEF KernelEnds, ReportDone
<1> QED
  BY <1>1, <1>2, <1>3, <1>5, <1>6, <1>7, Zenon DEF Next, Decoder

(* The poller hands rows to dest.Send only in its own flush.               *)
LEMMA PollerSendFacts ==
  ASSUME [Next]_vars, ppc \notin {"send", "lastsend"} => psend = {}
  PROVE  ppc' \notin {"send", "lastsend"} => psend' = {}
<1> DEFINE Goal == ppc' \notin {"send", "lastsend"} => psend' = {}
<1>1. CASE StartPoll \/ FinishPoll \/ PollerSent
  BY <1>1 DEF StartPoll, FinishPoll, PollerSent
<1>2. CASE ReceiveDone
  BY <1>2 DEF ReceiveDone, TerminalFlush
<1>3. CASE PollTimeout
  BY <1>3 DEF PollTimeout, TerminalFlush
<1>4. CASE PollerReturn
  BY <1>4 DEF PollerReturn, TerminalFlush
<1>5. CASE UNCHANGED <<ppc, psend>>
  BY <1>5
<1>6. ASSUME NEW s \in Sockets, PollSocket(s) PROVE Goal
  BY <1>5, <1>6, Zenon DEF PollSocket
<1>7. ASSUME NEW i \in Decoders, Decoder(i) PROVE Goal
  BY <1>5, <1>7, Zenon DEF Decoder, AppendRow, CapFlush, DecoderSent, pollVars
<1>8. ASSUME NEW d \in Dumps, KernelEnds(d) \/ ReportDone(d) PROVE Goal
  BY <1>5, <1>8, Zenon DEF KernelEnds, ReportDone, pollVars
<1>9. CASE RunCloses \/ UNCHANGED vars
  BY <1>5, <1>9, Zenon DEF RunCloses, vars, pollVars
<1> QED
  BY <1>1, <1>2, <1>3, <1>4, <1>6, <1>7, <1>8, <1>9, Zenon DEF Next, Poller

(* What is not processed yet belongs to a dump that is not reported yet:   *)
(* ReportDone waits for its rows and for the flushes they caused.          *)
LEMMA WorkingStep == TypeOK /\ Numbered /\ Fresh /\ Begun /\ Working /\ [Next]_vars => Working'
<1> SUFFICES ASSUME TypeOK, Numbered, Fresh, Begun, Working, [Next]_vars PROVE Working'
  OBVIOUS
<1>0. dump \in [Dumps -> {"none", "open", "ended", "reported"}]
  BY DEF TypeOK
<1>1. ASSUME NEW row \in todo' PROVE dump'[DumpOf(row)] # "reported"
  <2>1. CASE row \in todo
    <3>1. dump[DumpOf(row)] # "reported" /\ DumpOf(row) \in Dumps
      BY <2>1, RowSets, RowFacts DEF Working
    <3>2. ~Processed(DumpOf(row))
      BY <2>1 DEF Processed
    <3> QED
      BY <3>1, <3>2, DumpProgress
  <2> QED
    BY <2>1, TodoFacts
<1>2. ASSUME NEW i \in Decoders, dpc'[i] # "idle"
      PROVE  drow'[i] \in Rows /\ dump'[DumpOf(drow'[i])] \in {"open", "ended"}
  <2>1. CASE dpc[i] = "idle"
    <3>1. drow'[i] \in todo /\ UNCHANGED dump
      BY <1>2, <2>1, DecoderFacts
    <3>2. drow'[i] \in Rows /\ DumpOf(drow'[i]) \in Dumps
      BY <3>1, RowSets, RowFacts
    <3>3. dump[DumpOf(drow'[i])] \notin {"none", "reported"}
      BY <3>1 DEF Begun, Placed, Working
    <3> QED
      BY <1>0, <3>1, <3>2, <3>3
  <2>2. CASE dpc[i] # "idle"
    <3>1. drow'[i] = drow[i] /\ drow[i] \in Rows /\ dump[DumpOf(drow[i])] \in {"open", "ended"}
      BY <1>2, <2>2, DecoderFacts DEF Working
    <3>2. DumpOf(drow[i]) \in Dumps /\ ~Processed(DumpOf(drow[i]))
      BY <2>2, <3>1, RowFacts DEF Processed
    <3> QED
      BY <3>1, <3>2, DumpProgress
  <2> QED
    BY <2>1, <2>2
<1>3. ASSUME NEW i \in Decoders PROVE dpc'[i] # "send" => dsend'[i] = {}
  BY DecoderFacts DEF Working
<1>4. ppc' \notin {"send", "lastsend"} => psend' = {}
  BY PollerSendFacts DEF Working
<1> QED
  BY <1>1, <1>2, <1>3, <1>4, Zenon DEF Working

------------------------------------------------------------------------------
(* Where the rows are.                                                     *)

(* The hands of the decoders' flushes: taken from the envelope by one,     *)
(* emptied when its dest.Send returns.                                     *)
LEMMA SendingFacts ==
  ASSUME TypeOK, Working, NEW i \in Decoders
  PROVE  /\ CapFlush(i) => /\ Sending' = Sending \cup env
                           /\ \A j \in Decoders \ {i} : dsend'[j] = dsend[j]
                           /\ dsend'[i] = env
         /\ DecoderSent(i) => /\ Sending' \subseteq Sending
                              /\ dsend'[i] = {}
                              /\ \A j \in Decoders \ {i} : dsend'[j] = dsend[j]
<1>0. dsend \in [Decoders -> SUBSET Rows]
  BY DEF TypeOK
<1>1. ASSUME CapFlush(i)
      PROVE  /\ Sending' = Sending \cup env
             /\ \A j \in Decoders \ {i} : dsend'[j] = dsend[j]
             /\ dsend'[i] = env
  <2>1. dsend[i] = {}
    BY <1>1 DEF CapFlush, Working
  <2>2. /\ \A j \in Decoders \ {i} : dsend'[j] = dsend[j]
        /\ dsend'[i] = env
    BY <1>0, <1>1 DEF CapFlush
  <2>3. ASSUME NEW row PROVE row \in Sending' <=> row \in Sending \cup env
    <3>1. row \in Sending' <=> \E j \in Decoders : row \in dsend'[j]
      BY DEF Sending
    <3>2. row \in Sending <=> \E j \in Decoders : row \in dsend[j]
      BY DEF Sending
    <3> QED
      BY <2>1, <2>2, <3>1, <3>2
  <2> QED
    BY <2>2, <2>3
<1>2. ASSUME DecoderSent(i)
      PROVE  /\ Sending' \subseteq Sending
             /\ dsend'[i] = {}
             /\ \A j \in Decoders \ {i} : dsend'[j] = dsend[j]
  <2>1. /\ dsend'[i] = {}
        /\ \A j \in Decoders \ {i} : dsend'[j] = dsend[j]
    BY <1>0, <1>2 DEF DecoderSent
  <2> QED
    BY <2>1 DEF Sending
<1> QED
  BY <1>1, <1>2

(* A row that is somewhere was somewhere before, or is new to the decoders.*)
LEMMA PlacedFacts ==
  ASSUME TypeOK, Working, [Next]_vars
  PROVE  Placed' \subseteq Placed \cup todo'
<1> DEFINE Goal == Placed' \subseteq Placed \cup todo'
<1>1. CASE UNCHANGED <<env, psend, sent, dropped, lost, dsend>>
  BY <1>1 DEF Placed, Sending
<1>2. CASE StartPoll
  BY <1>2 DEF StartPoll, Placed, Sending, decVars, dumpVars
<1>3. CASE ReceiveDone
  BY <1>3 DEF ReceiveDone, TerminalFlush, Placed, Sending, envVars, decVars, histVars
<1>4. CASE PollTimeout
  BY <1>4 DEF PollTimeout, TerminalFlush, Placed, Sending, decVars, dumpVars
<1>5. CASE PollerReturn
  BY <1>5 DEF PollerReturn, TerminalFlush, Placed, Sending, decVars, dumpVars, histVars
<1>6. CASE PollerSent
  BY <1>6 DEF PollerSent, Placed, Sending, envVars, decVars, dumpVars
<1>7. ASSUME NEW i \in Decoders, NEW row \in todo, AppendRow(i, row) PROVE Goal
  BY <1>7 DEF AppendRow, Placed, Sending, pollVars
<1>8. ASSUME NEW i \in Decoders, CapFlush(i) PROVE Goal
  BY <1>8, SendingFacts, Zenon DEF CapFlush, Placed, pollVars, dumpVars, histVars
<1>9. ASSUME NEW i \in Decoders, DecoderSent(i) PROVE Goal
  <2>1. dsend[i] \subseteq Sending
    BY DEF Sending
  <2> QED
    BY <1>9, <2>1, SendingFacts, Zenon DEF DecoderSent, Placed, pollVars, envVars, dumpVars
<1>10. ASSUME NEW s \in Sockets, PollSocket(s) PROVE Goal
  BY <1>1, <1>10, Zenon DEF PollSocket, envVars, decVars, histVars
<1>11. CASE FinishPoll \/ RunCloses \/ UNCHANGED vars
  BY <1>1, <1>11, Zenon DEF FinishPoll, RunCloses, vars, pollVars, envVars, decVars, histVars
<1>12. ASSUME NEW d \in Dumps, KernelEnds(d) \/ ReportDone(d) PROVE Goal
  BY <1>1, <1>12, Zenon DEF KernelEnds, ReportDone, pollVars, envVars, decVars, histVars
<1> QED
  BY <1>2, <1>3, <1>4, <1>5, <1>6, <1>7, <1>8, <1>9, <1>10, <1>11, <1>12, Zenon
  DEF Next, Poller, Decoder

(* Every row is a row.                                                     *)
LEMMA PlacedType == TypeOK => Placed \subseteq Rows
<1> SUFFICES ASSUME TypeOK PROVE Placed \subseteq Rows
  OBVIOUS
<1>1. Sending \subseteq Rows
  BY RowSets DEF Sending
<1> QED
  BY <1>1, RowSets DEF Placed

(* No row exists of a dump that has not begun.                             *)
LEMMA BegunStep == TypeOK /\ Numbered /\ Fresh /\ Begun /\ Working /\ [Next]_vars => Begun'
<1> SUFFICES ASSUME TypeOK, Numbered, Fresh, Begun, Working, [Next]_vars, NEW row \in Placed'
             PROVE  dump'[DumpOf(row)] # "none"
  BY DEF Begun
<1>1. CASE row \in Placed
  <2>1. DumpOf(row) \in Dumps /\ dump[DumpOf(row)] # "none"
    BY <1>1, PlacedType, RowFacts DEF Begun
  <2> QED
    BY <2>1, DumpProgress
<1>2. CASE row \notin Placed
  BY <1>2, PlacedFacts, TodoFacts DEF Placed
<1> QED
  BY <1>1, <1>2

(* A row that becomes available to the decoders was nowhere: a dump begins *)
(* once, and its rows with it.                                             *)
LEMMA NewRows ==
  ASSUME TypeOK, Numbered, Fresh, Begun, NEW s \in Sockets, PollSocket(s)
  PROVE  \A row \in todo' : row \in todo \/ row \notin Placed
<1> SUFFICES ASSUME NEW row \in todo', row \notin todo PROVE row \notin Placed
  OBVIOUS
<1>1. [Next]_vars
  BY Zenon DEF Next, Poller
<1>2. PICK r \in toPoll : ppc = "polling" /\ polls \in Polls /\ DumpOf(row) = <<r, polls>>
  BY <1>1, TodoFacts
<1> QED
  BY <1>2 DEF Fresh, Begun

(* Every step keeps every row in one place: a flush takes the envelope's   *)
(* rows with it, so no other flush, whoever makes it, finds them.          *)
LEMMA ApartStep ==
  TypeOK /\ Numbered /\ Fresh /\ Begun /\ Working /\ Apart /\ [Next]_vars => Apart'
<1> SUFFICES ASSUME TypeOK, Numbered, Fresh, Begun, Working, Apart, [Next]_vars PROVE Apart'
  OBVIOUS
<1>0. ASSUME NEW row \in Rows
      PROVE  row \in Sending <=> \E i \in Decoders : row \in dsend[i]
  BY DEF Sending
<1>1. CASE StartPoll
  <2>1. UNCHANGED <<todo, psend, sent, dropped, dsend, Sending>> /\ env' = {} /\ lost' = lost \cup env
    BY <1>1, Zenon DEF StartPoll, decVars, dumpVars, Sending
  <2> QED
    BY <2>1 DEF Apart
<1>2. CASE ReceiveDone \/ PollTimeout \/ PollerReturn
  <2>1. UNCHANGED <<todo, sent, dropped, lost, dsend, Sending>>
    BY <1>2, Zenon DEF ReceiveDone, PollTimeout, PollerReturn, decVars, dumpVars, histVars, Sending
  <2>2. psend = {}
    BY <1>2 DEF ReceiveDone, PollTimeout, PollerReturn, Working
  <2>3. UNCHANGED <<env, psend>> \/ (env' = {} /\ psend' = env)
    BY <1>2, Zenon DEF ReceiveDone, PollTimeout, PollerReturn, TerminalFlush, envVars
  <2> QED
    BY <2>1, <2>2, <2>3 DEF Apart
<1>3. CASE PollerSent
  <2>1. UNCHANGED <<todo, env, dropped, lost, dsend, Sending>> /\ psend' = {} /\ sent' = sent \cup psend
    BY <1>3, Zenon DEF PollerSent, envVars, decVars, dumpVars, Sending
  <2> QED
    BY <2>1 DEF Apart
<1>4. ASSUME NEW s \in Sockets, PollSocket(s) PROVE Apart'
  <2>1. UNCHANGED <<env, psend, sent, dropped, lost, dsend, Sending>>
    BY <1>4, Zenon DEF PollSocket, envVars, decVars, histVars, Sending
  <2>2. \A row \in todo' : row \in todo \/ row \notin Placed
    BY <1>4, NewRows
  <2> QED
    BY <2>1, <2>2 DEF Apart, Placed
<1>5. ASSUME NEW i \in Decoders, NEW row \in todo, AppendRow(i, row) PROVE Apart'
  <2>1. UNCHANGED <<psend, sent, lost, dsend, Sending>> /\ todo' = todo \ {row}
    BY <1>5, Zenon DEF AppendRow, pollVars, Sending
  <2>2. \/ env' = env \cup {row} /\ UNCHANGED dropped
        \/ dropped' = dropped \cup {row} /\ UNCHANGED env
    BY <1>5, Zenon DEF AppendRow
  <2> QED
    BY <2>1, <2>2 DEF Apart
<1>6. ASSUME NEW i \in Decoders, CapFlush(i) PROVE Apart'
  <2>1. UNCHANGED <<todo, psend, sent, dropped, lost>> /\ env' = {}
    BY <1>6, Zenon DEF CapFlush, pollVars, dumpVars, histVars
  <2>2. /\ Sending' = Sending \cup env /\ dsend'[i] = env
        /\ \A j \in Decoders \ {i} : dsend'[j] = dsend[j]
    BY <1>6, SendingFacts
  <2>3. \A j \in Decoders : env \cap dsend[j] = {}
    BY <1>0, RowSets DEF Apart
  <2>4. \A j, k \in Decoders : j # k => dsend'[j] \cap dsend'[k] = {}
    BY <2>2, <2>3 DEF Apart
  <2> QED
    BY <2>1, <2>2, <2>4 DEF Apart
<1>7. ASSUME NEW i \in Decoders, DecoderSent(i) PROVE Apart'
  <2>1. UNCHANGED <<todo, env, psend, dropped, lost>> /\ sent' = sent \cup dsend[i]
    BY <1>7, Zenon DEF DecoderSent, pollVars, envVars, dumpVars
  <2>2. /\ Sending' \subseteq Sending /\ dsend'[i] = {}
        /\ \A j \in Decoders \ {i} : dsend'[j] = dsend[j]
    BY <1>7, SendingFacts
  <2>3. \A row \in dsend[i] : row \in Sending /\ row \notin Sending'
    BY <2>2 DEF Sending, Apart
  <2>4. \A j, k \in Decoders : j # k => dsend'[j] \cap dsend'[k] = {}
    BY <2>2 DEF Apart
  <2> QED
    BY <2>1, <2>2, <2>3, <2>4 DEF Apart
<1>8. CASE UNCHANGED <<todo, env, psend, sent, dropped, lost, dsend>>
  BY <1>8, Zenon DEF Apart, Sending
<1>9. CASE FinishPoll \/ RunCloses \/ UNCHANGED vars
  BY <1>8, <1>9, Zenon DEF FinishPoll, RunCloses, vars, pollVars, envVars, decVars, dumpVars,
     histVars
<1>10. ASSUME NEW d \in Dumps, KernelEnds(d) \/ ReportDone(d) PROVE Apart'
  BY <1>8, <1>10, Zenon DEF KernelEnds, ReportDone, pollVars, envVars, decVars, histVars
<1> QED
  BY <1>1, <1>2, <1>3, <1>4, <1>5, <1>6, <1>7, <1>9, <1>10, Zenon DEF Next, Poller, Decoder

(* The explicit form says that every row is in one place.                  *)
LEMMA ApartIsOnePlace == TypeOK /\ Apart => RowInOnePlace
<1> SUFFICES ASSUME TypeOK, Apart PROVE RowInOnePlace
  OBVIOUS
<1> DEFINE places == <<todo, env, psend, sent, dropped, lost>>
<1>1. \A i \in Decoders : dsend[i] \subseteq Sending
  BY DEF Sending
<1>2. \A j, k \in 1 .. 6 : j # k => places[j] \cap places[k] = {}
  <2>1. /\ todo \cap env = {} /\ todo \cap psend = {} /\ todo \cap sent = {}
        /\ todo \cap dropped = {} /\ todo \cap lost = {}
        /\ env \cap psend = {} /\ env \cap sent = {} /\ env \cap dropped = {}
        /\ env \cap lost = {} /\ psend \cap sent = {} /\ psend \cap dropped = {}
        /\ psend \cap lost = {} /\ sent \cap dropped = {} /\ sent \cap lost = {}
        /\ dropped \cap lost = {}
    BY RowSets DEF Apart
  <2>2. /\ places[1] = todo /\ places[2] = env /\ places[3] = psend
        /\ places[4] = sent /\ places[5] = dropped /\ places[6] = lost
    OBVIOUS
  <2> HIDE DEF places
  <2> SUFFICES ASSUME NEW j \in 1 .. 6, NEW k \in 1 .. 6, j # k
               PROVE  places[j] \cap places[k] = {}
    OBVIOUS
  <2>3. j \in {1, 2, 3, 4, 5, 6} /\ k \in {1, 2, 3, 4, 5, 6}
    OBVIOUS
  <2> QED
    BY <2>1, <2>2, <2>3
<1>3. ASSUME NEW i \in Decoders
      PROVE  /\ \A k \in 1 .. 6 : dsend[i] \cap places[k] = {}
             /\ \A j \in Decoders \ {i} : dsend[i] \cap dsend[j] = {}
  <2>1. \A S \in {todo, env, psend, sent, dropped, lost} : dsend[i] \cap S = {}
    BY <1>1, RowSets DEF Apart
  <2>2. \A k \in 1 .. 6 : places[k] \in {todo, env, psend, sent, dropped, lost}
    OBVIOUS
  <2> QED
    BY <2>1, <2>2 DEF Apart
<1> QED
  BY <1>2, <1>3 DEF RowInOnePlace

------------------------------------------------------------------------------
(* The done signals.                                                       *)

(* netlinkerDoneCh changes when the poller receives or a dump is reported. *)
LEMMA DoneFacts ==
  ASSUME [Next]_vars
  PROVE  ReceiveDone \/ (\E d \in Dumps : ReportDone(d)) \/ UNCHANGED doneCh
<1> DEFINE Goal == ReceiveDone \/ (\E d \in Dumps : ReportDone(d)) \/ UNCHANGED doneCh
<1>1. CASE Poller
  BY <1>1, Zenon DEF Poller, StartPoll, PollSocket, FinishPoll, PollTimeout, PollerSent, dumpVars
<1>2. CASE PollerReturn \/ RunCloses \/ UNCHANGED vars
  BY <1>2, Zenon DEF PollerReturn, RunCloses, vars, dumpVars
<1>3. ASSUME NEW i \in Decoders, Decoder(i) PROVE Goal
  BY <1>3, Zenon DEF Decoder, AppendRow, CapFlush, DecoderSent, dumpVars
<1>4. ASSUME NEW d \in Dumps, KernelEnds(d) \/ ReportDone(d) PROVE Goal
  BY <1>4, Zenon DEF KernelEnds
<1> QED
  BY <1>1, <1>2, <1>3, <1>4, Zenon DEF Next

(* The signals after a receive and after a report, by their place.         *)
LEMMA ReceiveFacts ==
  ASSUME TypeOK, ReceiveDone
  PROVE  /\ Len(doneCh) \in Nat /\ Len(doneCh) > 0 /\ doneCh[1] \in Dumps
         /\ Len(doneCh') = Len(doneCh) - 1
         /\ \A k \in 1 .. Len(doneCh') : doneCh'[k] = doneCh[k + 1] /\ k + 1 \in 1 .. Len(doneCh)
         /\ \A k \in 2 .. Len(doneCh) : doneCh'[k - 1] = doneCh[k] /\ k - 1 \in 1 .. Len(doneCh')
<1>1. doneCh \in Seq(Dumps) /\ doneCh # <<>> /\ doneCh' = Tail(doneCh)
  BY DEF TypeOK, ReceiveDone
<1> QED
  BY <1>1

LEMMA ReportFacts ==
  ASSUME TypeOK, NEW d \in Dumps, ReportDone(d)
  PROVE  /\ Len(doneCh) \in Nat /\ Len(doneCh') = Len(doneCh) + 1
         /\ \A k \in 1 .. Len(doneCh) : doneCh'[k] = doneCh[k] /\ doneCh[k] \in Dumps
         /\ doneCh'[Len(doneCh')] = d
<1>1. doneCh \in Seq(Dumps) /\ doneCh' = Append(doneCh, d)
  BY DEF TypeOK, ReportDone
<1> QED
  BY <1>1

(* A dump that is reported stays reported.                                 *)
LEMMA ReportedStays ==
  ASSUME TypeOK, Numbered, Fresh, [Next]_vars, NEW d \in Dumps
  PROVE  /\ dump[d] = "reported" => dump'[d] = "reported"
         /\ dump'[d] = "reported" => dump[d] = "reported" \/ ReportDone(d)
<1>1. dump \in [Dumps -> {"none", "open", "ended", "reported"}]
  BY DEF TypeOK
<1>2. dump[d] = "reported" => dump'[d] = "reported"
  BY DumpProgress
<1>3. ASSUME NEW s \in Sockets, PollSocket(s), dump'[d] = "reported" PROVE dump[d] = "reported"
  <2>1. dump' = [dump EXCEPT ![<<s, polls>>] = "open"] \/ dump' = dump
    BY <1>3, Zenon DEF PollSocket
  <2> QED
    BY <1>1, <1>3, <2>1
<1>4. ASSUME NEW e \in Dumps, KernelEnds(e) \/ ReportDone(e), dump'[d] = "reported"
      PROVE  dump[d] = "reported" \/ ReportDone(d)
  BY <1>1, <1>4 DEF KernelEnds, ReportDone
<1>5. CASE UNCHANGED dump
  BY <1>2, <1>5
<1>6. CASE StartPoll \/ FinishPoll \/ ReceiveDone \/ PollTimeout \/ PollerSent
  BY <1>5, <1>6, Zenon DEF StartPoll, FinishPoll, ReceiveDone, PollTimeout, PollerSent, dumpVars
<1>7. CASE PollerReturn \/ RunCloses \/ UNCHANGED vars
  BY <1>5, <1>7, Zenon DEF PollerReturn, RunCloses, vars, dumpVars
<1>8. ASSUME NEW i \in Decoders, Decoder(i) PROVE dump'[d] = "reported" => dump[d] = "reported"
  BY <1>5, <1>8, Zenon DEF Decoder, AppendRow, CapFlush, DecoderSent, dumpVars
<1> QED
  BY <1>2, <1>3, <1>4, <1>6, <1>7, <1>8, Zenon DEF Next, Poller

(* No dump is signalled twice.                                             *)
LEMMA ChannelStep == TypeOK /\ Numbered /\ Fresh /\ Channel /\ [Next]_vars => Channel'
<1> SUFFICES ASSUME TypeOK, Numbered, Fresh, Channel, [Next]_vars PROVE Channel'
  OBVIOUS
<1>0. \A k \in 1 .. Len(doneCh) : doneCh[k] \in Dumps /\ dump'[doneCh[k]] = "reported"
  <2>1. ASSUME NEW k \in 1 .. Len(doneCh) PROVE doneCh[k] \in Dumps /\ dump[doneCh[k]] = "reported"
    BY DEF TypeOK, Channel
  <2> QED
    BY <2>1, ReportedStays
<1>1. CASE ReceiveDone
  <2>1. \A k \in 1 .. Len(doneCh') : dump'[doneCh'[k]] = "reported"
    BY <1>0, <1>1, ReceiveFacts
  <2>2. ASSUME NEW j \in 1 .. Len(doneCh'), NEW k \in 1 .. Len(doneCh'), j # k
        PROVE  doneCh'[j] # doneCh'[k]
    <3>1. /\ doneCh'[j] = doneCh[j + 1] /\ j + 1 \in 1 .. Len(doneCh)
          /\ doneCh'[k] = doneCh[k + 1] /\ k + 1 \in 1 .. Len(doneCh)
      BY <1>1, ReceiveFacts
    <3> QED
      BY <2>2, <3>1 DEF Channel
  <2> QED
    BY <2>1, <2>2 DEF Channel
<1>2. ASSUME NEW d \in Dumps, ReportDone(d) PROVE Channel'
  <2>1. dump[d] = "ended" /\ dump'[d] = "reported"
    BY <1>2 DEF ReportDone, TypeOK
  <2>2. \A k \in 1 .. Len(doneCh) : doneCh[k] # d
    BY <2>1 DEF Channel
  <2>3. \A k \in 1 .. Len(doneCh') : k \in 1 .. Len(doneCh) \/ k = Len(doneCh')
    BY <1>2, ReportFacts
  <2>4. \A k \in 1 .. Len(doneCh') : dump'[doneCh'[k]] = "reported"
    BY <1>0, <1>2, <2>1, <2>3, ReportFacts
  <2>5. \A j, k \in 1 .. Len(doneCh') : j # k => doneCh'[j] # doneCh'[k]
    BY <1>2, <2>2, <2>3, ReportFacts DEF Channel
  <2> QED
    BY <2>4, <2>5 DEF Channel
<1>3. CASE UNCHANGED doneCh
  BY <1>0, <1>3 DEF Channel
<1> QED
  BY <1>1, <1>2, <1>3, DoneFacts

------------------------------------------------------------------------------
(* Counting the signals of a cycle.                                        *)

(* The types and bounds the counting uses.                                 *)
LEMMA CountTypes ==
  ASSUME TypeOK
  PROVE  /\ count \in Int /\ polls \in 0 .. MaxPolls /\ MaxPolls \in Nat
         /\ polls > 0 => polls \in Polls
         /\ IsFiniteSet(Outstanding) /\ Outstanding \subseteq Sockets
         /\ Cardinality(Outstanding) \in Nat
         /\ Cardinality(Outstanding) = 0 <=> Outstanding = {}
<1>1. count \in Int /\ polls \in 0 .. MaxPolls /\ MaxPolls \in Nat
  BY BoundsAssumption DEF TypeOK
<1>2. Outstanding \subseteq Sockets
  BY DEF Outstanding
<1>3. IsFiniteSet(Outstanding)
  BY <1>2, SocketsAssumption, FS_Subset
<1>4. Cardinality(Outstanding) \in Nat /\ (Cardinality(Outstanding) = 0 <=> Outstanding = {})
  BY <1>3, FS_CardinalityType, FS_EmptySet
<1> QED
  BY <1>1, <1>2, <1>3, <1>4 DEF Polls

(* While no cycle has timed out, a poller that waits for nothing has no    *)
(* dump, no signal, no row and no decoder to wait for.                     *)
LEMMA Quiet ==
  ASSUME TypeOK, Fresh, Begun, Working, Counting,
         timedOut = {}, ppc # "polling", count = 0
  PROVE  /\ \A s \in Sockets, c \in Polls : c <= polls => dump[<<s, c>>] = "reported"
         /\ Len(doneCh) = 0
         /\ todo = {}
         /\ \A i \in Decoders : dpc[i] = "idle"
<1>0. polls \in 0 .. MaxPolls /\ MaxPolls \in Nat
  BY CountTypes
<1>1. polls > 0 => Outstanding = {}
  BY CountTypes DEF Counting
<1>2. \A s \in Sockets, c \in Polls : c <= polls => dump[<<s, c>>] = "reported"
  BY <1>0, <1>1 DEF Counting, Outstanding, Polls
<1>3. Len(doneCh) = 0
  <2> SUFFICES ASSUME Len(doneCh) # 0 PROVE FALSE
    OBVIOUS
  <2>1. 1 \in 1 .. Len(doneCh) /\ doneCh[1] \in Dumps
    BY DEF TypeOK
  <2>2. PICK s \in Sockets, c \in Polls : doneCh[1] = <<s, c>>
    BY <2>1, DumpFacts
  <2>3. c = polls
    BY <2>1, <2>2 DEF Counting
  <2> QED
    BY <1>0, <1>1, <2>1, <2>2, <2>3 DEF Outstanding, Polls
<1>4. ASSUME NEW row \in Rows PROVE dump[DumpOf(row)] \in {"none", "reported"}
  <2>1. DumpOf(row) = <<row[1], row[2]>> /\ row[1] \in Sockets /\ row[2] \in Polls
    BY RowFacts, Zenon DEF DumpOf
  <2> QED
    BY <1>0, <1>2, <2>1 DEF Fresh, Polls
<1>5. todo = {}
  BY <1>4, RowSets DEF Begun, Placed, Working
<1>6. \A i \in Decoders : dpc[i] = "idle"
  BY <1>4 DEF Working
<1> QED
  BY <1>2, <1>3, <1>5, <1>6

(* Within a cycle, only a receive changes what is outstanding: a dump that *)
(* is reported is in the channel then.                                     *)
LEMMA OutstandingStays ==
  ASSUME TypeOK, Numbered, Fresh, [Next]_vars, ~StartPoll, ~ReceiveDone
  PROVE  polls > 0 => Outstanding' = Outstanding
<1> SUFFICES ASSUME polls > 0 PROVE Outstanding' = Outstanding
  OBVIOUS
<1>0. polls' = polls /\ polls \in Polls
  BY CountTypes, CycleFacts
<1> SUFFICES ASSUME NEW s \in Sockets PROVE s \in Outstanding' <=> s \in Outstanding
  BY Zenon DEF Outstanding
<1> DEFINE d == <<s, polls>>
<1>1. d \in Dumps
  BY <1>0, DumpFacts
<1>2. s \in Outstanding <=> dump[d] # "reported" \/ \E k \in 1 .. Len(doneCh) : doneCh[k] = d
  BY DEF Outstanding
<1>3. s \in Outstanding' <=> dump'[d] # "reported" \/ \E k \in 1 .. Len(doneCh') : doneCh'[k] = d
  BY <1>0 DEF Outstanding
<1> HIDE DEF d
<1>4. ASSUME NEW e \in Dumps, ReportDone(e) PROVE s \in Outstanding' <=> s \in Outstanding
  <2>1. /\ \A k \in 1 .. Len(doneCh) : doneCh'[k] = doneCh[k] /\ k \in 1 .. Len(doneCh')
        /\ \A k \in 1 .. Len(doneCh') : k \in 1 .. Len(doneCh) \/ doneCh'[k] = e
        /\ doneCh'[Len(doneCh')] = e /\ Len(doneCh') \in 1 .. Len(doneCh')
    BY <1>4, ReportFacts
  <2>2. e = d => dump[d] # "reported"
    BY <1>4 DEF ReportDone
  <2>3. e # d => dump'[d] = dump[d]
    BY <1>1, <1>4 DEF ReportDone, TypeOK
  <2> QED
    BY <1>2, <1>3, <2>1, <2>2, <2>3
<1>5. ASSUME UNCHANGED doneCh, ~\E e \in Dumps : ReportDone(e)
      PROVE s \in Outstanding' <=> s \in Outstanding
  BY <1>1, <1>2, <1>3, <1>5, ReportedStays
<1> QED
  BY <1>4, <1>5, DoneFacts

(* The steps that change what the poller counts.                           *)
LEMMA CountFacts ==
  ASSUME [Next]_vars
  PROVE  /\ \/ StartPoll \/ FinishPoll \/ ReceiveDone \/ PollTimeout
            \/ /\ UNCHANGED <<count, polls, timedOut>>
               /\ ppc' = "polling" <=> ppc = "polling"
         /\ timedOut \subseteq timedOut'
<1> DEFINE Goal ==
             /\ \/ StartPoll \/ FinishPoll \/ ReceiveDone \/ PollTimeout
                \/ /\ UNCHANGED <<count, polls, timedOut>>
                   /\ ppc' = "polling" <=> ppc = "polling"
             /\ timedOut \subseteq timedOut'
<1>1. CASE StartPoll \/ FinishPoll \/ ReceiveDone \/ PollTimeout
  <2>1. timedOut \subseteq timedOut'
    BY <1>1, Zenon DEF StartPoll, FinishPoll, ReceiveDone, PollTimeout, histVars
  <2> QED
    BY <1>1, <2>1
<1>2. CASE PollerSent \/ PollerReturn
  BY <1>2 DEF PollerSent, PollerReturn, TerminalFlush, histVars
<1>3. CASE UNCHANGED <<count, polls, timedOut, ppc>>
  BY <1>3
<1>4. ASSUME NEW s \in Sockets, PollSocket(s) PROVE Goal
  BY <1>3, <1>4, Zenon DEF PollSocket, histVars
<1>5. ASSUME NEW i \in Decoders, Decoder(i) PROVE Goal
  BY <1>3, <1>5, Zenon DEF Decoder, AppendRow, CapFlush, DecoderSent, pollVars, histVars
<1>6. ASSUME NEW d \in Dumps, KernelEnds(d) \/ ReportDone(d) PROVE Goal
  BY <1>3, <1>6, Zenon DEF KernelEnds, ReportDone, pollVars, histVars
<1>7. CASE RunCloses \/ UNCHANGED vars
  BY <1>3, <1>7, Zenon DEF RunCloses, vars, pollVars, histVars
<1> QED
  BY <1>1, <1>2, <1>4, <1>5, <1>6, <1>7, Zenon DEF Next, Poller

(* A poll that starts finds nothing left of the cycle before it.           *)
LEMMA CountingStart ==
  ASSUME TypeOK, Numbered, Fresh, Begun, Working, Counting, StartPoll, timedOut = {}
  PROVE  /\ \A s \in Sockets, c \in Polls : c < polls' => dump'[<<s, c>>] = "reported"
         /\ Len(doneCh') = 0
         /\ Outstanding' = Sockets
<1>0. polls \in 0 .. MaxPolls /\ MaxPolls \in Nat /\ polls' = polls + 1 /\ polls < MaxPolls
  BY CountTypes DEF StartPoll
<1>1. UNCHANGED <<dump, doneCh>>
  BY Zenon DEF StartPoll, dumpVars
<1>2. count = 0 /\ ppc # "polling"
  BY CountTypes DEF StartPoll, Counting
<1>3. Len(doneCh) = 0 /\ \A s \in Sockets, c \in Polls : c <= polls => dump[<<s, c>>] = "reported"
  BY <1>2, Quiet
<1>4. \A s \in Sockets : dump'[<<s, polls'>>] = "none"
  BY <1>0, <1>1 DEF Fresh, Polls
<1>5. Outstanding' = Sockets
  BY <1>4 DEF Outstanding
<1> QED
  BY <1>0, <1>1, <1>3, <1>5 DEF Polls

(* A signal the poller takes is one of the current cycle, and the last of  *)
(* its socket.                                                             *)
LEMMA CountingReceive ==
  ASSUME TypeOK, Numbered, Fresh, Channel, Counting, ReceiveDone, timedOut = {}
  PROVE  /\ polls' = polls /\ polls > 0 /\ ppc # "polling"
         /\ count' = Cardinality(Outstanding')
<1>0. polls' = polls /\ UNCHANGED dump /\ ppc = "select" /\ count' = count - 1
  BY DEF ReceiveDone
<1>1. /\ doneCh[1] \in Dumps /\ 1 \in 1 .. Len(doneCh) /\ Len(doneCh) \in Nat
      /\ \A k \in 1 .. Len(doneCh') : doneCh'[k] = doneCh[k + 1] /\ k + 1 \in 1 .. Len(doneCh)
      /\ \A k \in 2 .. Len(doneCh) : doneCh'[k - 1] = doneCh[k] /\ k - 1 \in 1 .. Len(doneCh')
  BY ReceiveFacts
<1>2. PICK s \in Sockets, c \in Polls : doneCh[1] = <<s, c>>
  BY <1>1, DumpFacts
<1>3. c = polls /\ polls > 0
  BY <1>1, <1>2, CountTypes DEF Counting, Polls
<1>4. s \in Outstanding
  BY <1>1, <1>2, <1>3 DEF Outstanding
<1>5. Outstanding' = Outstanding \ {s}
  <2>1. \A k \in 1 .. Len(doneCh') : doneCh'[k] # <<s, polls>>
    <3> SUFFICES ASSUME NEW k \in 1 .. Len(doneCh') PROVE doneCh'[k] # <<s, polls>>
      OBVIOUS
    <3>1. doneCh'[k] = doneCh[k + 1] /\ k + 1 \in 1 .. Len(doneCh) /\ k + 1 # 1
      BY <1>1
    <3> QED
      BY <1>1, <1>2, <1>3, <3>1, Zenon DEF Channel
  <2>2. dump[<<s, polls>>] = "reported"
    BY <1>1, <1>2, <1>3 DEF Channel
  <2>3. s \notin Outstanding'
    BY <1>0, <2>1, <2>2 DEF Outstanding
  <2>4. ASSUME NEW r \in Sockets \ {s} PROVE r \in Outstanding' <=> r \in Outstanding
    <3>1. <<r, polls>> # doneCh[1]
      BY <1>2
    <3>2. (\E k \in 1 .. Len(doneCh) : doneCh[k] = <<r, polls>>) =>
             \E k \in 2 .. Len(doneCh) : doneCh[k] = <<r, polls>>
      BY <1>1, <3>1
    <3>3. (\E k \in 1 .. Len(doneCh) : doneCh[k] = <<r, polls>>) <=>
             \E k \in 1 .. Len(doneCh') : doneCh'[k] = <<r, polls>>
      BY <1>1, <3>2, Zenon
    <3>4. r \in Outstanding <=> \/ dump[<<r, polls>>] # "reported"
                                \/ \E k \in 1 .. Len(doneCh) : doneCh[k] = <<r, polls>>
      BY DEF Outstanding
    <3>5. r \in Outstanding' <=> \/ dump[<<r, polls>>] # "reported"
                                 \/ \E k \in 1 .. Len(doneCh') : doneCh'[k] = <<r, polls>>
      BY <1>0 DEF Outstanding
    <3> QED
      BY <3>3, <3>4, <3>5
  <2>5. Outstanding' \subseteq Sockets /\ Outstanding \subseteq Sockets
    BY DEF Outstanding
  <2> QED
    BY <2>3, <2>4, <2>5
<1>6. count = Cardinality(Outstanding)
  BY <1>0, <1>3 DEF Counting
<1>7. Cardinality(Outstanding \ {s}) = Cardinality(Outstanding) - 1
  BY <1>4, CountTypes, FS_RemoveElement, Zenon
<1> QED
  BY <1>0, <1>3, <1>5, <1>6, <1>7

(* While no cycle has timed out, the poller waits for the dumps of the     *)
(* current cycle and for nothing else.                                     *)
LEMMA CountingStep ==
  /\ TypeOK /\ Numbered /\ Fresh /\ Begun /\ Working /\ Channel /\ Counting
  /\ [Next]_vars
  => Counting'
<1> SUFFICES ASSUME TypeOK, Numbered, Fresh, Begun, Working, Channel, Counting, [Next]_vars,
                    timedOut' = {}
             PROVE  Counting'
  BY DEF Counting
<1>0. timedOut = {} /\ polls \in 0 .. MaxPolls /\ MaxPolls \in Nat /\ count \in Int
  BY CountFacts, CountTypes
<1>1. CASE StartPoll
  <2>1. ppc' = "polling" /\ polls' # 0
    BY <1>0, <1>1 DEF StartPoll
  <2>2. /\ \A s \in Sockets, c \in Polls : c < polls' => dump'[<<s, c>>] = "reported"
        /\ Len(doneCh') = 0 /\ Outstanding' = Sockets
    BY <1>0, <1>1, CountingStart
  <2>3. \A k \in 1 .. Len(doneCh') : doneCh'[k][2] = polls'
    BY <2>2
  <2> QED
    BY <2>1, <2>2, <2>3 DEF Counting
<1>2. CASE ~StartPoll
  <2>1. polls' = polls
    BY <1>2, CycleFacts
  <2>2. ASSUME NEW s \in Sockets, NEW c \in Polls, c < polls' PROVE dump'[<<s, c>>] = "reported"
    <3>1. <<s, c>> \in Dumps /\ dump[<<s, c>>] = "reported"
      BY <1>0, <2>1, <2>2, DumpFacts DEF Counting
    <3> QED
      BY <3>1, ReportedStays
  <2>3. ASSUME NEW k \in 1 .. Len(doneCh') PROVE doneCh'[k][2] = polls'
    <3>1. CASE ReceiveDone
      BY <1>0, <2>1, <3>1, ReceiveFacts DEF Counting
    <3>2. ASSUME NEW d \in Dumps, ReportDone(d) PROVE doneCh'[k][2] = polls'
      <4>1. dump[d] = "ended" /\ d[1] \in Sockets /\ d[2] \in Polls /\ d = <<d[1], d[2]>>
        BY <3>2, DumpFacts DEF ReportDone
      <4>2. d[2] = polls
        BY <1>0, <4>1 DEF Counting, Fresh, Polls
      <4> QED
        BY <1>0, <2>1, <3>2, <4>2, ReportFacts DEF Counting
    <3>3. CASE UNCHANGED doneCh
      BY <1>0, <2>1, <3>3 DEF Counting
    <3> QED
      BY <3>1, <3>2, <3>3, DoneFacts
  <2>4. ~ReceiveDone /\ polls > 0 => Outstanding' = Outstanding
    BY <1>2, OutstandingStays
  <2>5. ppc' = "polling" => Outstanding' = Sockets
    <3> SUFFICES ASSUME ppc' = "polling" PROVE Outstanding' = Sockets
      OBVIOUS
    <3>1. ppc = "polling" /\ polls > 0
      BY <1>2, CycleFacts DEF Numbered, Polls
    <3> QED
      BY <1>0, <2>4, <3>1 DEF Counting, ReceiveDone
  <2>6. /\ ppc' # "polling" /\ polls' > 0 => count' = Cardinality(Outstanding')
        /\ polls' = 0 => count' = 0
    <3>1. CASE FinishPoll
      <4>1. ppc = "polling" /\ polls > 0 /\ count' = Cardinality(Sockets)
        BY <3>1 DEF FinishPoll, Numbered, Polls
      <4> QED
        BY <1>0, <2>1, <2>4, <4>1 DEF Counting, ReceiveDone
    <3>2. CASE ReceiveDone
      BY <1>0, <3>2, CountingReceive
    <3>3. CASE PollTimeout
      <4>1. ppc = "select" /\ count' = 0 /\ ~(count > 0) /\ ~ReceiveDone
        BY <1>0, <3>3, Zenon DEF PollTimeout, ReceiveDone, dumpVars
      <4>2. polls > 0 => count = Cardinality(Outstanding) /\ Cardinality(Outstanding) \in Nat
        BY <1>0, <4>1, CountTypes DEF Counting
      <4> QED
        BY <1>0, <2>1, <2>4, <4>1, <4>2
    <3>4. CASE /\ UNCHANGED <<count, polls, timedOut>>
               /\ ppc' = "polling" <=> ppc = "polling"
               /\ ~ReceiveDone
      BY <1>0, <2>4, <3>4 DEF Counting
    <3> QED
      BY <1>2, <3>1, <3>2, <3>3, <3>4, CountFacts
  <2> QED
    BY <2>2, <2>3, <2>5, <2>6 DEF Counting
<1> QED
  BY <1>1, <1>2

------------------------------------------------------------------------------
(* The envelope.                                                           *)

(* While no cycle has timed out, the count is not negative when the poller *)
(* is not asking the sockets.                                              *)
LEMMA CountIsNatural ==
  ASSUME TypeOK, Counting, timedOut = {}, ppc # "polling"
  PROVE  count \in Nat
<1>1. polls \in 0 .. MaxPolls /\ MaxPolls \in Nat /\ Cardinality(Outstanding) \in Nat
  BY CountTypes
<1> QED
  BY <1>1 DEF Counting

(* The envelope is open while rows can come, and the flush of the last     *)
(* signal leaves nothing in it.                                            *)
LEMMA FlushedStep ==
  /\ TypeOK /\ Numbered /\ Fresh /\ Begun /\ Working /\ Counting /\ Flushed
  /\ [Next]_vars
  => Flushed'
<1> SUFFICES ASSUME TypeOK, Numbered, Fresh, Begun, Working, Counting, Flushed, [Next]_vars,
                    timedOut' = {}
             PROVE  /\ ppc' # "polling" /\ count' = 0 => env' = {}
                    /\ ~Stopped' /\ ~envOpen' => ppc' # "polling" /\ count' = 0
  BY DEF Flushed
<1> DEFINE Goal == /\ ppc' # "polling" /\ count' = 0 => env' = {}
                   /\ ~Stopped' /\ ~envOpen' => ppc' # "polling" /\ count' = 0
<1>0. /\ timedOut = {}
      /\ ppc # "polling" /\ count = 0 => env = {}
      /\ ~Stopped /\ ~envOpen => ppc # "polling" /\ count = 0
      /\ ppc # "polling" /\ count = 0 =>
           Len(doneCh) = 0 /\ todo = {} /\ \A i \in Decoders : dpc[i] = "idle"
  BY CountFacts, Quiet DEF Flushed
<1>1. CASE StartPoll
  BY <1>1 DEF StartPoll
<1>2. ASSUME NEW s \in Sockets, PollSocket(s) PROVE Goal
  BY <1>0, <1>2, Zenon DEF PollSocket, envVars, Stopped
<1>3. CASE FinishPoll
  <2>1. count' # 0
    BY <1>3, SocketsAssumption, FS_EmptySet, Zenon DEF FinishPoll
  <2>2. ppc = "polling" /\ ppc' = "select" /\ UNCHANGED envOpen
    BY <1>3, Zenon DEF FinishPoll, envVars
  <2> QED
    BY <1>0, <2>1, <2>2 DEF Stopped
<1>4. CASE ReceiveDone
  <2>1. Len(doneCh) # 0 /\ ppc = "select" /\ count' = count - 1
    BY <1>4, ReceiveFacts DEF ReceiveDone
  <2>2. CASE count - 1 = 0
    BY <1>4, <2>1, <2>2 DEF ReceiveDone, TerminalFlush
  <2>3. CASE count - 1 # 0
    <3>1. UNCHANGED <<ppc, envOpen>>
      BY <1>4, <2>3, Zenon DEF ReceiveDone, envVars
    <3> QED
      BY <1>0, <2>1, <2>3, <3>1 DEF Stopped
  <2> QED
    BY <2>2, <2>3
<1>5. CASE PollTimeout
  <2>1. env' = {} /\ count' = 0
    BY <1>5, Zenon DEF PollTimeout, TerminalFlush
  <2>2. ppc' # "polling"
    BY <1>5 DEF PollTimeout, TerminalFlush
  <2> QED
    BY <2>1, <2>2
<1>6. CASE PollerReturn
  <2>1. env' = {} /\ ppc' \in {"lastsend", "returned"}
    BY <1>6 DEF PollerReturn, TerminalFlush
  <2> QED
    BY <2>1 DEF Stopped
<1>7. CASE PollerSent
  <2>1. /\ UNCHANGED <<envOpen, env, count>>
        /\ \/ ppc = "send" /\ ppc' = "select"
           \/ ppc = "lastsend" /\ ppc' = "returned"
    BY <1>7 DEF PollerSent, envVars
  <2> QED
    BY <1>0, <2>1 DEF Stopped
<1>8. ASSUME NEW i \in Decoders, NEW row \in todo, AppendRow(i, row) PROVE Goal
  <2>1. UNCHANGED <<ppc, count, envOpen>>
    BY <1>8, Zenon DEF AppendRow, pollVars
  <2> QED
    BY <1>0, <2>1 DEF Stopped
<1>9. ASSUME NEW i \in Decoders, CapFlush(i) PROVE Goal
  BY <1>9, Zenon DEF CapFlush
<1>10. CASE UNCHANGED <<ppc, count, envOpen, env>>
  BY <1>0, <1>10, Zenon DEF Stopped
<1>11. ASSUME NEW i \in Decoders, DecoderSent(i) PROVE Goal
  BY <1>10, <1>11, Zenon DEF DecoderSent, pollVars, envVars
<1>12. ASSUME NEW d \in Dumps, KernelEnds(d) \/ ReportDone(d) PROVE Goal
  BY <1>10, <1>12, Zenon DEF KernelEnds, ReportDone, pollVars, envVars
<1>13. CASE RunCloses \/ UNCHANGED vars
  BY <1>10, <1>13, Zenon DEF RunCloses, vars, pollVars, envVars
<1> QED
  BY <1>1, <1>2, <1>3, <1>4, <1>5, <1>6, <1>7, <1>8, <1>9, <1>11, <1>12, <1>13, Zenon
  DEF Next, Poller, Decoder

(* The poller does not come back from its shutdown.                        *)
LEMMA StoppedStays == ASSUME Stopped, [Next]_vars PROVE Stopped'
<1>1. CASE PollerSent
  BY <1>1 DEF PollerSent, Stopped
<1>2. CASE UNCHANGED ppc
  BY <1>2 DEF Stopped
<1>3. CASE StartPoll \/ FinishPoll \/ ReceiveDone \/ PollTimeout \/ PollerReturn
  BY <1>3 DEF StartPoll, FinishPoll, ReceiveDone, PollTimeout, PollerReturn, Stopped
<1>4. ASSUME NEW s \in Sockets, PollSocket(s) PROVE Stopped'
  BY <1>2, <1>4, Zenon DEF PollSocket
<1>5. ASSUME NEW i \in Decoders, Decoder(i) PROVE Stopped'
  BY <1>2, <1>5, Zenon DEF Decoder, AppendRow, CapFlush, DecoderSent, pollVars
<1>6. ASSUME NEW d \in Dumps, KernelEnds(d) \/ ReportDone(d) PROVE Stopped'
  BY <1>2, <1>6, Zenon DEF KernelEnds, ReportDone, pollVars
<1>7. CASE RunCloses \/ UNCHANGED vars
  BY <1>2, <1>7, Zenon DEF RunCloses, vars, pollVars
<1> QED
  BY <1>1, <1>3, <1>4, <1>5, <1>6, <1>7, Zenon DEF Next, Poller

(* Rows are dropped by a decoder that finds no envelope, and lost by a     *)
(* poll that overwrites one.                                               *)
LEMMA LossFacts ==
  ASSUME [Next]_vars
  PROVE  \/ UNCHANGED <<dropped, lost>>
         \/ StartPoll
         \/ todo # {} /\ ~envOpen
<1> DEFINE Goal == UNCHANGED <<dropped, lost>> \/ StartPoll \/ (todo # {} /\ ~envOpen)
<1>1. CASE Poller
  BY <1>1, Zenon DEF Poller, PollSocket, FinishPoll, ReceiveDone, PollTimeout, PollerSent, histVars
<1>2. CASE PollerReturn \/ RunCloses \/ UNCHANGED vars
  BY <1>2, Zenon DEF PollerReturn, RunCloses, vars, histVars
<1>3. ASSUME NEW i \in Decoders, Decoder(i) PROVE Goal
  BY <1>3, Zenon DEF Decoder, AppendRow, CapFlush, DecoderSent, histVars
<1>4. ASSUME NEW d \in Dumps, KernelEnds(d) \/ ReportDone(d) PROVE Goal
  BY <1>4, Zenon DEF KernelEnds, ReportDone, histVars
<1> QED
  BY <1>1, <1>2, <1>3, <1>4, Zenon DEF Next

LEMMA LossStep ==
  /\ TypeOK /\ Fresh /\ Begun /\ Working /\ Counting /\ Flushed /\ LossNeedsTimeout
  /\ [Next]_vars
  => LossNeedsTimeout'
<1> SUFFICES ASSUME TypeOK, Fresh, Begun, Working, Counting, Flushed, LossNeedsTimeout,
                    [Next]_vars, timedOut' = {}, ~Stopped'
             PROVE  dropped' \cup lost' = {}
  BY DEF LossNeedsTimeout
<1>1. timedOut = {} /\ ~Stopped
  BY CountFacts, StoppedStays
<1>2. dropped = {} /\ lost = {}
  BY <1>1 DEF LossNeedsTimeout
<1>3. CASE StartPoll
  <2>1. count = 0 /\ ppc # "polling"
    BY <1>1, <1>3, CountIsNatural DEF StartPoll
  <2>2. env = {}
    BY <1>1, <2>1 DEF Flushed
  <2> QED
    BY <1>2, <1>3, <2>2 DEF StartPoll
<1>4. ~(todo # {} /\ ~envOpen)
  BY <1>1, Quiet DEF Flushed
<1> QED
  BY <1>2, <1>3, <1>4, LossFacts

(* The decoders that have still to flush are finitely many.                *)
LEMMA FlushingFinite ==
  /\ IsFiniteSet(Flushing) /\ Cardinality(Flushing) \in Nat
  /\ IsFiniteSet(Decoders) /\ Cardinality(Decoders) \in Nat
  /\ Cardinality(Flushing) <= Cardinality(Decoders)
<1>1. IsFiniteSet(Decoders)
  BY SocketsAssumption, DecodersAssumption, FS_Product DEF Decoders
<1>2. Flushing \subseteq Decoders
  BY DEF Flushing
<1>3. IsFiniteSet(Flushing) /\ Cardinality(Flushing) <= Cardinality(Decoders)
  BY <1>1, <1>2, FS_Subset
<1> QED
  BY <1>1, <1>3, FS_CardinalityType

(* An envelope that is taken leaves nothing, and a decoder that reaches    *)
(* the cap joins those that have still to flush.                           *)
LEMMA BoundedStep == TypeOK /\ Bounded /\ [Next]_vars => Bounded'
<1> SUFFICES ASSUME TypeOK, Bounded, [Next]_vars PROVE Bounded'
  OBVIOUS
<1>0. /\ RowCap \in Nat \ {0} /\ IsFiniteSet(env) /\ Cardinality(env) \in Nat
      /\ Cardinality(env) < RowCap + Cardinality(Flushing)
  BY BoundsAssumption, FS_CardinalityType DEF Bounded
<1>1. Cardinality(Flushing) \in Nat /\ Cardinality(Flushing)' \in Nat /\ IsFiniteSet(Flushing)
  <2>1. IsFiniteSet(Flushing)'
    <3>1. Flushing' \subseteq Decoders
      BY DEF Flushing
    <3> QED
      BY <3>1, FlushingFinite, FS_Subset
  <2> QED
    BY <2>1, FlushingFinite, FS_CardinalityType
<1>2. CASE env' = {}
  BY <1>0, <1>1, <1>2, FS_EmptySet DEF Bounded
<1>3. CASE UNCHANGED <<env, Flushing>>
  BY <1>3, Zenon DEF Bounded
<1>4. ASSUME NEW i \in Decoders, NEW row \in todo, AppendRow(i, row) PROVE Bounded'
  <2>1. CASE UNCHANGED <<env, dpc>>
    BY <1>3, <2>1, Zenon DEF Flushing
  <2>2. CASE ~UNCHANGED <<env, dpc>>
    <3>1. /\ env' = env \cup {row} /\ dpc[i] = "idle"
          /\ \/ dpc' = [dpc EXCEPT ![i] = "flush"]
             \/ Cardinality(env) + 1 < RowCap
      BY <1>0, <1>4, <2>2 DEF AppendRow
    <3>2. IsFiniteSet(env') /\ Cardinality(env') \in {Cardinality(env), Cardinality(env) + 1}
      <4>1. /\ IsFiniteSet(env \cup {row})
            /\ Cardinality(env \cup {row}) \in {Cardinality(env), Cardinality(env) + 1}
        BY <1>0, FS_AddElement, Zenon
      <4> QED
        BY <3>1, <4>1
    <3>3. CASE dpc' = [dpc EXCEPT ![i] = "flush"]
      <4>1. Flushing' = Flushing \cup {i} /\ i \notin Flushing
        BY <3>1, <3>3 DEF Flushing, TypeOK
      <4>2. Cardinality(Flushing') = Cardinality(Flushing) + 1
        BY <1>1, <4>1, FS_AddElement, Zenon
      <4> QED
        BY <1>0, <1>1, <3>2, <4>2 DEF Bounded
    <3> QED
      BY <1>0, <1>1, <3>1, <3>2, <3>3 DEF Bounded
  <2> QED
    BY <2>1, <2>2
<1>5. ASSUME NEW i \in Decoders, DecoderSent(i) PROVE Bounded'
  <2>1. Flushing' = Flushing
    BY <1>5 DEF DecoderSent, Flushing, TypeOK
  <2> QED
    BY <1>3, <1>5, <2>1, Zenon DEF DecoderSent, envVars
<1>6. ASSUME NEW i \in Decoders, CapFlush(i) PROVE Bounded'
  BY <1>2, <1>6, Zenon DEF CapFlush
<1>7. CASE UNCHANGED <<env, dpc>>
  BY <1>3, <1>7, Zenon DEF Flushing
<1>8. CASE Poller
  BY <1>2, <1>7, <1>8, Zenon DEF Poller, StartPoll, PollSocket, FinishPoll, ReceiveDone, PollTimeout,
     PollerSent, TerminalFlush, envVars, decVars
<1>9. CASE PollerReturn \/ RunCloses \/ UNCHANGED vars
  BY <1>2, <1>7, <1>9, Zenon DEF PollerReturn, TerminalFlush, RunCloses, vars, envVars, decVars
<1>10. ASSUME NEW d \in Dumps, KernelEnds(d) \/ ReportDone(d) PROVE Bounded'
  BY <1>7, <1>10, Zenon DEF KernelEnds, ReportDone, envVars, decVars
<1> QED
  BY <1>4, <1>5, <1>6, <1>8, <1>9, <1>10, Zenon DEF Next, Decoder

------------------------------------------------------------------------------
(* The first poll finds nothing anywhere.                                  *)
LEMMA InitInv == Init => IInv
<1> SUFFICES ASSUME Init PROVE IInv
  OBVIOUS
<1>1. TypeOK /\ Numbered
  BY TypeInit
<1>2. Sending = {} /\ Placed = {}
  BY DEF Init, Sending, Placed
<1>3. Apart
  BY <1>2 DEF Init, Apart
<1>4. Fresh
  BY DumpFacts DEF Init, Fresh
<1>5. Begun
  BY <1>2 DEF Begun
<1>6. Working
  BY DEF Init, Working
<1>7. Channel
  BY DEF Init, Channel
<1>8. Counting
  BY DEF Init, Counting, Polls
<1>9. Flushed /\ LossNeedsTimeout
  BY DEF Init, Flushed, LossNeedsTimeout
<1>10. Bounded
  BY BoundsAssumption, FlushingFinite, FS_EmptySet DEF Init, Bounded
<1> QED
  BY <1>1, <1>3, <1>4, <1>5, <1>6, <1>7, <1>8, <1>9, <1>10 DEF IInv

(* The invariant holds throughout every run of the poller and its          *)
(* decoders (poller.go, deserialize.go).                                   *)
THEOREM Invariance == Spec => []IInv
<1>1. IInv /\ [Next]_vars => IInv'
  <2> SUFFICES ASSUME IInv, [Next]_vars PROVE IInv'
    OBVIOUS
  <2> USE DEF IInv
  <2>1. TypeOK' /\ Numbered'
    BY TypeStep, NumberedStep
  <2>2. Apart' /\ Fresh' /\ Begun' /\ Working'
    BY ApartStep, FreshStep, BegunStep, WorkingStep
  <2>3. Channel' /\ Counting'
    BY ChannelStep, CountingStep
  <2>4. Flushed' /\ LossNeedsTimeout' /\ Bounded'
    BY FlushedStep, LossStep, BoundedStep
  <2> QED
    BY <2>1, <2>2, <2>3, <2>4
<1> QED
  BY <1>1, InitInv, PTL DEF Spec

(* Every variable keeps its type, and netlinkerDoneCh never holds more     *)
(* than its capacity (netlinker.go).                                       *)
THEOREM TypeCorrect == Spec => []TypeOK
<1>1. IInv => TypeOK
  BY DEF IInv
<1> QED
  BY <1>1, Invariance, PTL

(* Flushing by the poller and by any number of decoders at once never      *)
(* duplicates a row (flushEnvelope, processInetDiagRecord).                *)
THEOREM RowsAreNotDuplicated == Spec => []RowInOnePlace
<1>1. IInv => RowInOnePlace
  BY ApartIsOnePlace DEF IInv
<1> QED
  BY <1>1, Invariance, PTL

(* Until a cycle times out, count is exactly the number of dumps of the    *)
(* current cycle the poller has not been told of (handlePollRequest,       *)
(* handleNetlinkerDone).                                                   *)
THEOREM CountsTheOutstanding == Spec => []CountIsOutstanding
<1>1. IInv => CountIsOutstanding
  BY DEF IInv, Counting, CountIsOutstanding, Outstanding
<1> QED
  BY <1>1, Invariance, PTL

(* Until a cycle times out, a poller that waits for nothing has flushed    *)
(* every row of every dump (handleNetlinkerDone, flushEnvelope).           *)
THEOREM PollEndIsComplete == Spec => []PollEndComplete
<1>1. IInv => PollEndComplete
  <2> SUFFICES ASSUME IInv, timedOut = {}, ppc = "select", count = 0
               PROVE  todo = {} /\ env = {} /\ InFlight = {}
    BY DEF PollEndComplete
  <2>1. todo = {} /\ \A i \in Decoders : dpc[i] = "idle"
    BY Quiet DEF IInv
  <2>2. env = {} /\ psend = {} /\ \A i \in Decoders : dsend[i] = {}
    BY <2>1 DEF IInv, Flushed, Working
  <2> QED
    BY <2>1, <2>2 DEF InFlight
<1> QED
  BY <1>1, Invariance, PTL

(* No row is dropped or lost before a timeout or the shutdown flush cuts a *)
(* cycle short (flushEnvelope, processInetDiagRecord).                     *)
THEOREM NothingLostWithoutTimeout == Spec => []LossNeedsTimeout
<1>1. IInv => LossNeedsTimeout
  BY DEF IInv
<1> QED
  BY <1>1, Invariance, PTL

(* However many decoders race for the envelope, it exceeds its row cap by  *)
(* less than their number (processInetDiagRecord).                         *)
THEOREM EnvelopeIsBounded == Spec => []EnvelopeBounded
<1>1. IInv => EnvelopeBounded
  <2> SUFFICES ASSUME IInv PROVE EnvelopeBounded
    OBVIOUS
  <2>1. IsFiniteSet(env) /\ Cardinality(env) < RowCap + Cardinality(Flushing)
    BY DEF IInv, Bounded
  <2>2. Cardinality(env) \in Nat /\ RowCap \in Nat
    BY <2>1, BoundsAssumption, FS_CardinalityType
  <2> QED
    BY <2>1, <2>2, FlushingFinite DEF EnvelopeBounded
<1> QED
  BY <1>1, Invariance, PTL

------------------------------------------------------------------------------
(* The pipeline keeps the promise of RowDelivery, which the destination    *)
(* behind it keeps as well: a row is produced once and settled once.       *)
Delivery == INSTANCE RowDelivery WITH
              accepted  <- Placed,
              delivered <- sent,
              givenUp   <- dropped \cup lost

(* The rows on their way, which a step may settle.                         *)
LEMMA OnTheWay ==
  ASSUME TypeOK, Apart
  PROVE  todo \cup env \cup psend \cup Sending \subseteq Delivery!Unsettled
<1> SUFFICES ASSUME NEW row \in todo \cup env \cup psend \cup Sending
             PROVE  row \in Placed /\ row \notin sent \cup (dropped \cup lost)
  BY DEF Delivery!Unsettled
<1>1. row \in Placed
  BY DEF Placed
<1>2. row \in Rows
  BY <1>1, PlacedType
<1> QED
  BY <1>1, <1>2 DEF Apart

(* Every step of the poller and of its decoders produces rows that did not *)
(* exist, hands rows to the destination, gives rows up, or moves them.     *)
LEMMA DeliveryStep ==
  TypeOK /\ Numbered /\ Fresh /\ Begun /\ Working /\ Apart /\ [Next]_vars
    => [Delivery!Next]_Delivery!vars
<1> DEFINE Goal == Delivery!Next \/ UNCHANGED <<Placed, sent, dropped \cup lost>>
<1> SUFFICES ASSUME TypeOK, Numbered, Fresh, Begun, Working, Apart, [Next]_vars PROVE Goal
  BY Zenon DEF Delivery!vars
<1>0. ASSUME NEW R, R \subseteq Placed,
             Delivery!Deliver(R) \/ Delivery!GiveUp(R)
      PROVE  Goal
  <2>1. R \in SUBSET Rows
    BY <1>0, PlacedType
  <2> QED
    BY <1>0, <2>1, Zenon DEF Delivery!Next
<1>1. CASE StartPoll
  <2>1. UNCHANGED <<todo, psend, sent, dropped, Sending>> /\ env' = {} /\ lost' = lost \cup env
    BY <1>1, Zenon DEF StartPoll, decVars, dumpVars, Sending
  <2>2. UNCHANGED <<Placed, sent>> /\ (dropped \cup lost)' = (dropped \cup lost) \cup env
    BY <2>1 DEF Placed
  <2>3. env \subseteq Delivery!Unsettled /\ env \subseteq Placed
    BY OnTheWay DEF Placed
  <2> QED
    BY <1>0, <2>2, <2>3, Zenon DEF Delivery!GiveUp
<1>2. CASE ReceiveDone \/ PollTimeout \/ PollerReturn
  <2>1. UNCHANGED <<todo, sent, dropped, lost, Sending>>
    BY <1>2, Zenon DEF ReceiveDone, PollTimeout, PollerReturn, decVars, dumpVars, histVars, Sending
  <2>2. psend = {}
    BY <1>2 DEF ReceiveDone, PollTimeout, PollerReturn, Working
  <2>3. UNCHANGED <<env, psend>> \/ (env' = {} /\ psend' = env)
    BY <1>2, Zenon DEF ReceiveDone, PollTimeout, PollerReturn, TerminalFlush, envVars
  <2> QED
    BY <2>1, <2>2, <2>3 DEF Placed
<1>3. CASE PollerSent
  <2>1. UNCHANGED <<todo, env, dropped, lost, Sending>> /\ psend' = {} /\ sent' = sent \cup psend
    BY <1>3, Zenon DEF PollerSent, envVars, decVars, dumpVars, Sending
  <2>2. UNCHANGED <<Placed, dropped \cup lost>>
    BY <2>1 DEF Placed
  <2>3. psend \subseteq Delivery!Unsettled /\ psend \subseteq Placed
    BY OnTheWay DEF Placed
  <2> QED
    BY <1>0, <2>1, <2>2, <2>3, Zenon DEF Delivery!Deliver
<1>4. ASSUME NEW s \in Sockets, PollSocket(s) PROVE Goal
  <2>1. UNCHANGED <<env, psend, sent, dropped, lost, Sending>> /\ todo \subseteq todo'
    BY <1>4, Zenon DEF PollSocket, envVars, decVars, histVars, Sending
  <2>2. \A row \in todo' : row \in todo \/ row \notin Placed
    BY <1>4, NewRows
  <2>3. todo' \subseteq Rows
    BY TypeStep DEF TypeOK
  <2>4. /\ todo' \ todo \subseteq Rows \ Placed
        /\ Placed' = Placed \cup (todo' \ todo)
    BY <2>1, <2>2, <2>3 DEF Placed
  <2>5. todo' \ todo \in SUBSET Rows
    BY <2>3
  <2>6. Delivery!Accept(todo' \ todo)
    BY <2>1, <2>4, Zenon DEF Delivery!Accept
  <2> QED
    BY <2>5, <2>6, Zenon DEF Delivery!Next
<1>5. ASSUME NEW i \in Decoders, NEW row \in todo, AppendRow(i, row) PROVE Goal
  <2>1. UNCHANGED <<psend, sent, lost, Sending>> /\ todo' = todo \ {row}
    BY <1>5, Zenon DEF AppendRow, pollVars, Sending
  <2>2. \/ env' = env \cup {row} /\ UNCHANGED dropped
        \/ dropped' = dropped \cup {row} /\ UNCHANGED env
    BY <1>5, Zenon DEF AppendRow
  <2>3. UNCHANGED Placed
    BY <2>1, <2>2 DEF Placed
  <2>4. CASE UNCHANGED dropped
    BY <2>1, <2>3, <2>4, Zenon
  <2>5. CASE dropped' = dropped \cup {row}
    <3>1. (dropped \cup lost)' = (dropped \cup lost) \cup {row}
      BY <2>1, <2>5
    <3>2. {row} \subseteq Delivery!Unsettled /\ {row} \subseteq Placed
      BY OnTheWay DEF Placed
    <3> QED
      BY <1>0, <2>1, <2>3, <3>1, <3>2, Zenon DEF Delivery!GiveUp
  <2> QED
    BY <2>2, <2>4, <2>5, Zenon
<1>6. ASSUME NEW i \in Decoders, CapFlush(i) PROVE Goal
  <2>1. UNCHANGED <<todo, psend, sent, dropped, lost>> /\ env' = {}
    BY <1>6, Zenon DEF CapFlush, pollVars, dumpVars, histVars
  <2>2. Sending' = Sending \cup env
    BY <1>6, SendingFacts
  <2> QED
    BY <2>1, <2>2 DEF Placed
<1>7. ASSUME NEW i \in Decoders, DecoderSent(i) PROVE Goal
  <2>1. UNCHANGED <<todo, env, psend, dropped, lost>> /\ sent' = sent \cup dsend[i]
    BY <1>7, Zenon DEF DecoderSent, pollVars, envVars, dumpVars
  <2>2. dsend[i] \subseteq Sending
    BY DEF Sending
  <2>3. Sending' \cup dsend[i] = Sending
    BY <1>7, <2>2, SendingFacts DEF Sending
  <2>4. UNCHANGED <<Placed, dropped \cup lost>>
    BY <2>1, <2>3 DEF Placed
  <2>5. dsend[i] \subseteq Delivery!Unsettled /\ dsend[i] \subseteq Placed
    BY <2>2, OnTheWay DEF Placed
  <2> QED
    BY <1>0, <2>1, <2>4, <2>5, Zenon DEF Delivery!Deliver
<1>8. CASE UNCHANGED <<todo, env, psend, sent, dropped, lost, dsend>>
  BY <1>8 DEF Placed, Sending
<1>9. CASE FinishPoll \/ RunCloses \/ UNCHANGED vars
  BY <1>8, <1>9, Zenon DEF FinishPoll, RunCloses, vars, pollVars, envVars, decVars, dumpVars,
     histVars
<1>10. ASSUME NEW d \in Dumps, KernelEnds(d) \/ ReportDone(d) PROVE Goal
  BY <1>8, <1>10, Zenon DEF KernelEnds, ReportDone, pollVars, envVars, decVars, histVars
<1> HIDE DEF Goal
<1>11. ASSUME NEW i \in Decoders, Decoder(i) PROVE Goal
  BY <1>5, <1>6, <1>7, <1>11, Zenon DEF Decoder
<1> QED
  BY <1>1, <1>2, <1>3, <1>4, <1>9, <1>10, <1>11, Zenon DEF Next, Poller

(* From the socket to the destination a row is settled at most once, and   *)
(* for good: the poll cycles, with their cap flushes, timeouts and late    *)
(* dumps, implement RowDelivery (flushEnvelope, processInetDiagRecord).    *)
THEOREM RowsAreSettledOnce == Spec => Delivery!Spec
<1>1. Init => Delivery!Init
  BY DEF Init, Delivery!Init, Placed, Sending
<1>2. IInv /\ [Next]_vars => [Delivery!Next]_Delivery!vars
  BY DeliveryStep DEF IInv
<1> QED
  BY <1>1, <1>2, Invariance, PTL DEF Spec, Delivery!Spec
==============================================================================
