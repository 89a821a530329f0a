------------------------------ MODULE Netlinker ------------------------------
(***************************************************************************)
(* The receive and decode pipeline of one netlink socket                   *)
(* (pkg/xtcp/netlinker.go): one receiver goroutine reads the socket,       *)
(* numbers the packets of each dump and feeds them through packetCh to the *)
(* decoders.  A dump is a dumpState of three atomics (total, decoded,      *)
(* signaled) that the decoders share; whoever decodes the last packet of a *)
(* dump sends the done signal the poller counts.                           *)
(*                                                                         *)
(* A packet is its number in the order of arrival; whether it holds        *)
(* NLMSG_DONE is chosen when it is received (the byte walk that finds out  *)
(* is a pure function).  Every atomic operation and every channel          *)
(* operation is a step of its own.                                         *)
(***************************************************************************)
EXTENDS Naturals, Sequences, FiniteSets

CONSTANTS
  Decoders,      \* the decoder goroutines of the socket
  MaxPackets,    \* bound on the packets received on the socket
  DoneChanSize   \* capacity of netlinkerDoneCh

ASSUME DecodersAssumption == IsFiniteSet(Decoders) /\ Decoders # {}
ASSUME MaxPacketsAssumption == MaxPackets \in Nat
ASSUME DoneChanSizeAssumption == DoneChanSize \in Nat \ {0}

Packets == 1 .. MaxPackets
Dumps   == 1 .. MaxPackets + 1

VARIABLES
  rpc,          \* where the receiver is: "check", "recv", "send" or "closed"
  received,     \* number of packets received so far
  tracker,      \* dumpTracker: the current dump and its number of packets
  dumpOf,       \* dumpOf[p]: the dump packet p was assigned to (dumpPacket.dump)
  packetCh,     \* the channel from the receiver to the decoders
  total,        \* dumpState.total
  decoded,      \* dumpState.decoded
  signaled,     \* dumpState.signaled
  dpc,          \* where each decoder is
  pkt,          \* the packet each decoder works on
  added,        \* what decoded.Add(1) returned to each decoder
  doneCh,       \* netlinkerDoneCh (the fd is the same; the dump is kept)
  ctxDone,      \* the namespace's context is canceled
  pollerGone,   \* the poller has returned and no longer drains doneCh
  deserialized, \* history: packets Deserialize has returned for
  counted,      \* history: packets whose decoded.Add(1) has happened
  signals       \* history: number of done signals sent for each dump

dumpVars == <<total, decoded, signaled>>
rcvVars  == <<rpc, received, tracker, dumpOf>>
decVars  == <<dpc, pkt, added>>
histVars == <<deserialized, counted, signals>>
vars == <<rcvVars, packetCh, dumpVars, decVars, doneCh, ctxDone, pollerGone,
          histVars>>

PacketsOf(d) == {p \in Packets : dumpOf[p] = d}

Init ==
  /\ rpc = "check"
  /\ received = 0
  /\ tracker = [dump |-> 1, packets |-> 0]
  /\ dumpOf = [p \in Packets |-> 0]
  /\ packetCh = <<>>
  /\ total = [d \in Dumps |-> 0]
  /\ decoded = [d \in Dumps |-> 0]
  /\ signaled = [d \in Dumps |-> FALSE]
  /\ dpc = [i \in Decoders |-> "idle"]
  /\ pkt = [i \in Decoders |-> 0]
  /\ added = [i \in Decoders |-> 0]
  /\ doneCh = <<>>
  /\ ctxDone = FALSE
  /\ pollerGone = FALSE
  /\ deserialized = {}
  /\ counted = {}
  /\ signals = [d \in Dumps |-> 0]

------------------------------------------------------------------------------
(* The receiver: netlinkReceiver.                                          *)

(* Mutant: the loop never looks at the context.                            *)
ReceiverCheckDoneIgnoringCtx ==
  /\ rpc = "check"
  /\ rpc' = "recv"
  /\ UNCHANGED <<received, tracker, dumpOf, packetCh, dumpVars, decVars,
                 doneCh, ctxDone, pollerGone, histVars>>

(* checkDoneNonBlocking; on cancellation the deferred close(packetCh).     *)
ReceiverCheckDone ==
  /\ rpc = "check"
  /\ rpc' = IF ctxDone THEN "closed" ELSE "recv"
  /\ UNCHANGED <<received, tracker, dumpOf, packetCh, dumpVars, decVars,
                 doneCh, ctxDone, pollerGone, histVars>>

(* recvOneFromKernel returned retry: SO_RCVTIMEO expired.                  *)
RecvTimedOut ==
  /\ rpc = "recv"
  /\ rpc' = "check"
  /\ UNCHANGED <<received, tracker, dumpOf, packetCh, dumpVars, decVars,
                 doneCh, ctxDone, pollerGone, histVars>>

(* Mutant: the total is stored before the DONE packet itself is counted.   *)
AssignOffByOne(hasDone) ==
  LET d == tracker.dump
      n == tracker.packets + 1
  IN /\ dumpOf' = [dumpOf EXCEPT ![received + 1] = d]
     /\ \/ /\ hasDone
           /\ total' = [total EXCEPT ![d] = tracker.packets]
           /\ tracker' = [dump |-> d + 1, packets |-> 0]
        \/ /\ ~hasDone
           /\ tracker' = [dump |-> d, packets |-> n]
           /\ UNCHANGED total

(* Mutant: the packet count is not reset for the new dump.                 *)
AssignWithoutReset(hasDone) ==
  LET d == tracker.dump
      n == tracker.packets + 1
  IN /\ dumpOf' = [dumpOf EXCEPT ![received + 1] = d]
     /\ \/ /\ hasDone
           /\ total' = [total EXCEPT ![d] = n]
           /\ tracker' = [dump |-> d + 1, packets |-> n]
        \/ /\ ~hasDone
           /\ tracker' = [dump |-> d, packets |-> n]
           /\ UNCHANGED total

(* dumpTracker.assign: number the packet; if it holds NLMSG_DONE, store    *)
(* the dump's total and start a new dump.                                  *)
Assign(hasDone) ==
  LET d == tracker.dump
      n == tracker.packets + 1
  IN /\ dumpOf' = [dumpOf EXCEPT ![received + 1] = d]
     /\ \/ /\ hasDone
           /\ total' = [total EXCEPT ![d] = n]
           /\ tracker' = [dump |-> d + 1, packets |-> 0]
        \/ /\ ~hasDone
           /\ tracker' = [dump |-> d, packets |-> n]
           /\ UNCHANGED total

(* Recvfrom returned a packet, and assign numbered it.                     *)
RecvOneFromKernel ==
  /\ rpc = "recv"
  /\ received < MaxPackets
  /\ received' = received + 1
  /\ \E hasDone \in BOOLEAN : Assign(hasDone)
  /\ rpc' = "send"
  /\ UNCHANGED <<packetCh, decoded, signaled, decVars, doneCh, ctxDone,
                 pollerGone, histVars>>

(* packetCh <- dumpPacket{...}: the channel holds one packet per decoder.  *)
ReceiverSend ==
  /\ rpc = "send"
  /\ Len(packetCh) < Cardinality(Decoders)
  /\ packetCh' = Append(packetCh, received)
  /\ rpc' = "check"
  /\ UNCHANGED <<received, tracker, dumpOf, dumpVars, decVars, doneCh,
                 ctxDone, pollerGone, histVars>>

------------------------------------------------------------------------------
(* A decoder: netlinkDecoder and packetDecoded.                            *)

DecoderReceive(i) ==
  /\ dpc[i] = "idle"
  /\ packetCh # <<>>
  /\ pkt' = [pkt EXCEPT ![i] = Head(packetCh)]
  /\ packetCh' = Tail(packetCh)
  /\ dpc' = [dpc EXCEPT ![i] = "decode"]
  /\ UNCHANGED <<rcvVars, dumpVars, added, doneCh, ctxDone, pollerGone,
                 histVars>>

(* range over a closed and drained packetCh ends the decoder.              *)
DecoderStop(i) ==
  /\ dpc[i] = "idle"
  /\ packetCh = <<>>
  /\ rpc = "closed"
  /\ dpc' = [dpc EXCEPT ![i] = "stopped"]
  /\ UNCHANGED <<rcvVars, packetCh, dumpVars, pkt, added, doneCh, ctxDone,
                 pollerGone, histVars>>

(* Mutant: a packet that failed to decode is not counted.                  *)
DecoderDeserializeSkippingErrors(i) ==
  /\ dpc[i] = "decode"
  /\ deserialized' = deserialized \cup {pkt[i]}
  /\ \E err \in BOOLEAN : dpc' = [dpc EXCEPT ![i] = IF err THEN "idle" ELSE "add"]
  /\ UNCHANGED <<rcvVars, packetCh, dumpVars, pkt, added, doneCh, ctxDone,
                 pollerGone, counted, signals>>

(* Deserialize returned, with or without an error: both are counted.       *)
DecoderDeserialize(i) ==
  /\ dpc[i] = "decode"
  /\ deserialized' = deserialized \cup {pkt[i]}
  /\ dpc' = [dpc EXCEPT ![i] = "add"]
  /\ UNCHANGED <<rcvVars, packetCh, dumpVars, pkt, added, doneCh, ctxDone,
                 pollerGone, counted, signals>>

(* d.decoded.Add(1).                                                       *)
PacketDecodedAdd(i) ==
  LET d == dumpOf[pkt[i]]
  IN /\ dpc[i] = "add"
     /\ decoded' = [decoded EXCEPT ![d] = @ + 1]
     /\ added' = [added EXCEPT ![i] = decoded[d] + 1]
     /\ counted' = counted \cup {pkt[i]}
     /\ dpc' = [dpc EXCEPT ![i] = "load"]
     /\ UNCHANGED <<rcvVars, packetCh, total, signaled, pkt, doneCh, ctxDone,
                    pollerGone, deserialized, signals>>

(* ... == d.total.Load() decides whether this was the dump's last packet.  *)
PacketDecodedLoad(i) ==
  /\ dpc[i] = "load"
  /\ dpc' = [dpc EXCEPT ![i] =
               IF added[i] = total[dumpOf[pkt[i]]] THEN "cas" ELSE "idle"]
  /\ UNCHANGED <<rcvVars, packetCh, dumpVars, pkt, added, doneCh, ctxDone,
                 pollerGone, histVars>>

(* ... && d.signaled.CompareAndSwap(false, true).                          *)
PacketDecodedCAS(i) ==
  LET d == dumpOf[pkt[i]]
  IN /\ dpc[i] = "cas"
     /\ signaled' = [signaled EXCEPT ![d] = TRUE]
     /\ dpc' = [dpc EXCEPT ![i] = IF signaled[d] THEN "idle" ELSE "signal"]
     /\ UNCHANGED <<rcvVars, packetCh, total, decoded, pkt, added, doneCh,
                    ctxDone, pollerGone, histVars>>

(* Mutant: a full channel does not block.                                  *)
SignalNetlinkerDoneUnbounded(i) ==
  LET d == dumpOf[pkt[i]]
  IN /\ dpc[i] = "signal"
     /\ doneCh' = Append(doneCh, d)
     /\ signals' = [signals EXCEPT ![d] = @ + 1]
     /\ dpc' = [dpc EXCEPT ![i] = "idle"]
     /\ UNCHANGED <<rcvVars, packetCh, dumpVars, pkt, added, ctxDone,
                    pollerGone, deserialized, counted>>

(* Mutant: the non-blocking attempt is followed by the blocking one even   *)
(* when it succeeded.                                                      *)
SignalNetlinkerDoneFallsThrough(i) ==
  LET d == dumpOf[pkt[i]]
  IN /\ dpc[i] = "signal"
     /\ Len(doneCh) < DoneChanSize
     /\ doneCh' = Append(doneCh, d)
     /\ signals' = [signals EXCEPT ![d] = @ + 1]
     /\ dpc' = [dpc EXCEPT ![i] = IF signals[d] = 0 THEN "signal" ELSE "idle"]
     /\ UNCHANGED <<rcvVars, packetCh, dumpVars, pkt, added, ctxDone,
                    pollerGone, deserialized, counted>>

(* signalNetlinkerDone: a full channel blocks the decoder (the first,      *)
(* non-blocking attempt only counts that it was full).                     *)
SignalNetlinkerDone(i) ==
  LET d == dumpOf[pkt[i]]
  IN /\ dpc[i] = "signal"
     /\ Len(doneCh) < DoneChanSize
     /\ doneCh' = Append(doneCh, d)
     /\ signals' = [signals EXCEPT ![d] = @ + 1]
     /\ dpc' = [dpc EXCEPT ![i] = "idle"]
     /\ UNCHANGED <<rcvVars, packetCh, dumpVars, pkt, added, ctxDone,
                    pollerGone, deserialized, counted>>

------------------------------------------------------------------------------
(* The other side: the poller drains doneCh until it returns, and nsDelete *)
(* or shutdown cancels the context.                                        *)

PollerReceivesDone ==
  /\ ~pollerGone
  /\ doneCh # <<>>
  /\ doneCh' = Tail(doneCh)
  /\ UNCHANGED <<rcvVars, packetCh, dumpVars, decVars, ctxDone, pollerGone,
                 histVars>>

PollerReturns ==
  /\ ~pollerGone
  /\ pollerGone' = TRUE
  /\ UNCHANGED <<rcvVars, packetCh, dumpVars, decVars, doneCh, ctxDone,
                 histVars>>

Cancel ==
  /\ ~ctxDone
  /\ ctxDone' = TRUE
  /\ UNCHANGED <<rcvVars, packetCh, dumpVars, decVars, doneCh, pollerGone,
                 histVars>>

Receiver == ReceiverCheckDone \/ RecvTimedOut \/ RecvOneFromKernel \/ ReceiverSend

Decoder(i) ==
  \/ DecoderReceive(i)
  \/ DecoderStop(i)
  \/ DecoderDeserialize(i)
  \/ PacketDecodedAdd(i)
  \/ PacketDecodedLoad(i)
  \/ PacketDecodedCAS(i)
  \/ SignalNetlinkerDone(i)

Next ==
  \/ Receiver
  \/ \E i \in Decoders : Decoder(i)
  \/ PollerReceivesDone
  \/ PollerReturns
  \/ Cancel

Spec == Init /\ [][Next]_vars

(* The Go scheduler runs every goroutine that can run; the timeout of a    *)
(* blocked Recvfrom expires.  Nothing forces the poller to return, a       *)
(* context to be canceled or a packet to arrive.                           *)
Fairness ==
  /\ WF_vars(ReceiverCheckDone)
  /\ WF_vars(RecvTimedOut)
  /\ WF_vars(ReceiverSend)
  /\ \A i \in Decoders : WF_vars(Decoder(i))
  /\ WF_vars(PollerReceivesDone)

FairSpec == Spec /\ Fairness
------------------------------------------------------------------------------
(* Every variable has its type and no channel exceeds its capacity.        *)
TypeOK ==
  /\ rpc \in {"check", "recv", "send", "closed"}
  /\ received \in 0 .. MaxPackets
  /\ tracker \in [dump : Dumps, packets : 0 .. MaxPackets]
  /\ dumpOf \in [Packets -> Dumps \cup {0}]
  /\ packetCh \in Seq(Packets) /\ Len(packetCh) <= Cardinality(Decoders)
  /\ total \in [Dumps -> 0 .. MaxPackets]
  /\ decoded \in [Dumps -> 0 .. MaxPackets]
  /\ signaled \in [Dumps -> BOOLEAN]
  /\ dpc \in [Decoders -> {"idle", "decode", "add", "load", "cas", "signal",
                           "stopped"}]
  /\ pkt \in [Decoders -> Packets \cup {0}]
  /\ added \in [Decoders -> Nat]
  /\ doneCh \in Seq(Dumps) /\ Len(doneCh) <= DoneChanSize
  /\ ctxDone \in BOOLEAN /\ pollerGone \in BOOLEAN
  /\ deserialized \subseteq Packets
  /\ counted \subseteq Packets
  /\ signals \in [Dumps -> Nat]

(* The done signal of a dump is sent only once its DONE packet has fixed   *)
(* the total and Deserialize has returned for every one of its packets     *)
(* (dumpState's comment: poll_end must not run while records of the dump   *)
(* are still being decoded by other goroutines).                           *)
DoneAfterAllDecoded ==
  \A d \in Dumps : signals[d] > 0 =>
     /\ total[d] = Cardinality(PacketsOf(d))
     /\ PacketsOf(d) \subseteq deserialized

(* However the decoders interleave, a dump is signalled at most once: the  *)
(* poller decrements its count of outstanding namespaces once per dump.    *)
DoneSignalledOnce == \A d \in Dumps : signals[d] <= 1

(* The signal cannot fall between two decoders: whenever nothing is left   *)
(* in the pipeline, every dump whose DONE packet arrived was signalled,    *)
(* decode errors and concurrent Add/Load pairs notwithstanding.            *)
Quiescent ==
  /\ packetCh = <<>>
  /\ rpc # "send"
  /\ \A i \in Decoders : dpc[i] \in {"idle", "stopped"}

NoLostDone ==
  Quiescent => \A d \in Dumps : total[d] > 0 => signals[d] = 1

(* A dump whose DONE packet was received is eventually signalled, even if  *)
(* the namespace is deleted meanwhile, unless the poller has returned.     *)
EveryDumpSignalled ==
  \A d \in Dumps : total[d] > 0 ~> (signals[d] = 1 \/ pollerGone)

(* A canceled namespace's goroutines all end (the receiver notices within  *)
(* one receive timeout, the decoders drain packetCh and stop) unless the   *)
(* poller has returned and left a decoder blocked on netlinkerDoneCh.      *)
PipelineEnds ==
  ctxDone ~> (pollerGone \/ (rpc = "closed" /\ \A i \in Decoders : dpc[i] = "stopped"))

(* The pipeline implements the abstract dump service: packets join a dump  *)
(* that has not ended, each is processed once, and a dump is reported once *)
(* after all of its packets are processed.                                 *)
Service == INSTANCE DumpService WITH
             ended     <- {d \in Dumps : total[d] > 0},
             processed <- deserialized,
             reported  <- {d \in Dumps : signals[d] > 0}

ImplementsDumpService == Service!Spec
==============================================================================
