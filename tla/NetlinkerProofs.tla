--------------------------- MODULE NetlinkerProofs ---------------------------
(***************************************************************************)
(* Proofs about the receive and decode pipeline, for any number of         *)
(* decoders, packets and channel slots.  The inductive invariant has four  *)
(* parts: where every packet is (Order), what the counters count           *)
(* (Counting), who will complete a dump (Adding) and who sends its done    *)
(* signal (Sending).                                                       *)
(***************************************************************************)
EXTENDS NetlinkerOrder, FiniteSetTheorems

(* Initially no packet has been received and both channels are empty.      *)
LEMMA OrderInit == Init => Order
<1> SUFFICES ASSUME Init PROVE Order
  OBVIOUS
<1>1. Cardinality(Decoders) \in Nat
  BY FS_CardinalityType, DecodersAssumption
<1>2. ChannelTypes
  BY <1>1, DoneChanSizeAssumption DEF Init, ChannelTypes
<1>3. Types
  <2>1. received \in 0 .. MaxPackets /\ tracker \in [dump : Nat, packets : Nat]
    BY MaxPacketsAssumption DEF Init
  <2>2. rpc \in {"check", "recv", "send", "closed"}
    BY DEF Init
  <2> QED BY <2>1, <2>2, Zenon DEF Init, Types
<1>4. Assigned
  BY MaxPacketsAssumption DEF Init, Assigned, Packets
<1>5. Taken = 0
  <2>1. Len(packetCh) = 0
    BY DEF Init
  <2>2. Taken = received - 0 - Len(packetCh)
    BY DEF Init, Taken
  <2> QED BY <2>1, <2>2 DEF Init
<1>6. Fifo /\ Located
  BY <1>5 DEF Init, Fifo, Located
<1> QED
  BY <1>2, <1>3, <1>4, <1>6 DEF Order

------------------------------------------------------------------------------
(* What the counters count.                                                *)
Counted(d) == {p \in counted : dumpOf[p] = d}

Counting ==
  /\ tracker.packets = Cardinality(PacketsOf(tracker.dump))
  /\ \A d \in Dumps : total[d] # 0 =>
        d < tracker.dump /\ total[d] = Cardinality(PacketsOf(d))
  /\ \A d \in Dumps : decoded[d] = Cardinality(Counted(d))

(* A set of packets is finite, and so is each part of it.                  *)
LEMMA PacketSets ==
  ASSUME NEW S \in SUBSET Packets
  PROVE IsFiniteSet(S) /\ Cardinality(S) \in Nat /\ Cardinality(S) <= MaxPackets
<1>1. IsFiniteSet(Packets) /\ Cardinality(Packets) = MaxPackets
  BY FS_Interval, MaxPacketsAssumption DEF Packets
<1> QED
  BY <1>1, FS_Subset, FS_CardinalityType

(* A packet that a decoder still owes an increment keeps decoded below the *)
(* size of its dump; once equal, every packet of the dump is counted.      *)
LEMMA DecodedBounded ==
  ASSUME Order, Counting
  PROVE /\ \A d \in Dumps : /\ decoded[d] <= Cardinality(PacketsOf(d))
                            /\ decoded[d] = Cardinality(PacketsOf(d)) => PacketsOf(d) \subseteq counted
        /\ \A i \in Decoders : dpc[i] = "add" =>
              decoded[DumpOfDecoder(i)] < Cardinality(PacketsOf(DumpOfDecoder(i)))
<1>1. ASSUME NEW d \in Dumps
      PROVE /\ Counted(d) \subseteq PacketsOf(d)
            /\ PacketsOf(d) \in SUBSET Packets
            /\ Counted(d) \in SUBSET Packets
            /\ decoded[d] = Cardinality(Counted(d))
  BY DEF Counted, PacketsOf, Order, Types, Counting
<1>2. ASSUME NEW d \in Dumps
      PROVE /\ decoded[d] <= Cardinality(PacketsOf(d))
            /\ decoded[d] = Cardinality(PacketsOf(d)) => PacketsOf(d) \subseteq counted
  <2>1. IsFiniteSet(PacketsOf(d))
    BY <1>1, PacketSets
  <2>2. /\ Cardinality(Counted(d)) <= Cardinality(PacketsOf(d))
        /\ Cardinality(Counted(d)) = Cardinality(PacketsOf(d)) => Counted(d) = PacketsOf(d)
    BY <1>1, <2>1, FS_Subset
  <2> QED
    BY <1>1, <2>2 DEF Counted
<1>3. ASSUME NEW i \in Decoders, dpc[i] = "add"
      PROVE decoded[DumpOfDecoder(i)] < Cardinality(PacketsOf(DumpOfDecoder(i)))
  <2> DEFINE d == DumpOfDecoder(i)
  <2>1. Taken \in Nat /\ Taken <= received /\ received \in 0 .. MaxPackets
    BY MaxPacketsAssumption DEF Order, Taken, Types, ChannelTypes, Fifo
  <2>2. pkt[i] \in 1 .. Taken /\ pkt[i] \notin counted
    BY <1>3 DEF Order, Located
  <2>3. pkt[i] \in Packets /\ pkt[i] <= received
    BY <2>1, <2>2, MaxPacketsAssumption DEF Packets
  <2>4. d \in 1 .. tracker.dump /\ tracker.dump \in 1 .. received + 1
    BY <2>3 DEF Order, Assigned, DumpOfDecoder
  <2>5. d \in Dumps
    BY <2>1, <2>4, MaxPacketsAssumption DEF Dumps
  <2>6. ~(PacketsOf(d) \subseteq counted)
    BY <2>2, <2>3 DEF PacketsOf, DumpOfDecoder
  <2>7. Cardinality(PacketsOf(d)) \in Nat /\ Cardinality(Counted(d)) \in Nat
    BY <1>1, <2>5, PacketSets
  <2> QED
    BY <1>1, <1>2, <2>5, <2>6, <2>7
<1> QED
  BY <1>2, <1>3

(* So the counters are bounded the way the steps rely on.                  *)
LEMMA CountingBounds == Order /\ Counting => Bounded
<1> SUFFICES ASSUME Order, Counting PROVE Bounded
  OBVIOUS
<1>1. tracker.dump \in Dumps
  BY MaxPacketsAssumption DEF Order, Types, Assigned, Dumps
<1>2. total[tracker.dump] = 0
  BY <1>1 DEF Counting, Dumps
<1>3. decoded[tracker.dump] <= tracker.packets
  BY <1>1, DecodedBounded DEF Counting
<1>4. \A d \in Dumps : total[d] # 0 => total[d] = Cardinality(PacketsOf(d))
  BY Zenon DEF Counting
<1> QED
  BY <1>2, <1>3, <1>4, DecodedBounded, Zenon DEF Bounded

(* Initially all counters are zero, and there is nothing to count.         *)
LEMMA CountingInit == Init => Counting
<1> SUFFICES ASSUME Init PROVE Counting
  OBVIOUS
<1>1. 1 \notin {0}
  OBVIOUS
<1>2. \A d \in Dumps : PacketsOf(d) = {} /\ Counted(d) = {}
  BY DEF Init, PacketsOf, Counted, Dumps
<1>3. tracker.dump = 1 /\ tracker.packets = 0 /\ 1 \in Dumps
  BY MaxPacketsAssumption DEF Init, Dumps
<1>4. Cardinality({}) = 0
  BY FS_EmptySet
<1>5. tracker.packets = Cardinality(PacketsOf(tracker.dump))
  BY <1>2, <1>3, <1>4
<1>6. \A d \in Dumps : total[d] = 0 /\ decoded[d] = Cardinality(Counted(d))
  BY <1>2, <1>4, Zenon DEF Init
<1> QED
  BY <1>5, <1>6 DEF Counting

(* Every step keeps total and decoded equal to what they count; assign and *)
(* decoded.Add are the ones that change them.                              *)
LEMMA CountingStep == Order /\ Order' /\ Counting /\ [Next]_vars => Counting'
<1> SUFFICES ASSUME Order, Order', Counting, [Next]_vars PROVE Counting'
  OBVIOUS
<1>t. received \in Nat /\ tracker.dump \in Dumps /\ tracker.packets \in Nat
  BY MaxPacketsAssumption DEF Order, Types, Assigned, Dumps
<1>1. CASE RecvOneFromKernel
  <2> PICK t \in Dumps : t = tracker.dump
    BY <1>t
  <2> PICK n \in Nat : n = received + 1
    BY <1>t
  <2> PICK hasDone \in BOOLEAN : Assign(hasDone)
    BY <1>1 DEF RecvOneFromKernel
  <2>1. n \in Packets /\ dumpOf[n] = 0
    BY <1>1, <1>t, MaxPacketsAssumption DEF RecvOneFromKernel, Packets, Order, Assigned
  <2>2. dumpOf' = [dumpOf EXCEPT ![n] = t]
    BY DEF Assign
  <2>3. \A p \in Packets : dumpOf'[p] = IF p = n THEN t ELSE dumpOf[p]
    BY <2>1, <2>2 DEF Order, Types
  <2>4. n \notin counted /\ counted' = counted /\ decoded' = decoded
    <3>1. \A p \in counted : p <= Taken
      BY DEF Order, Located
    <3>2. Taken \in Nat /\ Taken <= received
      <4>1. Len(packetCh) \in Nat /\ Taken >= 0
        BY DEF Order, ChannelTypes, Fifo
      <4> QED BY <4>1, <1>t DEF Taken
    <3> QED BY <3>1, <3>2, <1>1, <1>t DEF RecvOneFromKernel, histVars
  <2>5. PacketsOf(t)' = PacketsOf(t) \cup {n} /\ n \notin PacketsOf(t)
    <3>1. t # 0
      BY DEF Dumps
    <3>2. ASSUME NEW p PROVE p \in PacketsOf(t)' <=> p \in PacketsOf(t) \cup {n}
      BY <2>1, <2>3, Zenon DEF PacketsOf
    <3>3. n \notin PacketsOf(t)
      BY <3>1, <2>1 DEF PacketsOf
    <3> QED BY <3>2, <3>3
  <2>6. \A d \in Dumps : d # t => PacketsOf(d)' = PacketsOf(d)
    <3>1. \A d \in Dumps : d # 0
      BY DEF Dumps
    <3>2. ASSUME NEW d \in Dumps, d # t, NEW p
          PROVE p \in PacketsOf(d)' <=> p \in PacketsOf(d)
      BY <3>1, <3>2, <2>1, <2>3, Zenon DEF PacketsOf
    <3> QED BY <3>2, Zenon
  <2>7. \A d \in Dumps : Counted(d)' = Counted(d)
    BY <2>3, <2>4 DEF Counted, Order, Types
  <2>8. Cardinality(PacketsOf(t)') = tracker.packets + 1
    <3>1. IsFiniteSet(PacketsOf(t)) /\ tracker.packets = Cardinality(PacketsOf(t))
      <4>1. PacketsOf(t) \in SUBSET Packets
        BY DEF PacketsOf
      <4> QED BY <4>1, PacketSets DEF Counting
    <3>2. Cardinality(PacketsOf(t) \cup {n}) = Cardinality(PacketsOf(t)) + 1
      BY <3>1, <2>5, FS_AddElement, Zenon
    <3> QED BY <3>1, <3>2, <2>5
  <2>9. \A d \in Dumps : decoded'[d] = Cardinality(Counted(d)')
    BY <2>4, <2>7 DEF Counting
  <2>10. total[t] = 0
    BY <1>t DEF Counting, Dumps
  <2>11. CASE hasDone
    <3>1. /\ total' = [total EXCEPT ![t] = tracker.packets + 1]
          /\ tracker' = [dump |-> t + 1, packets |-> 0]
      BY <2>11 DEF Assign
    <3>2. tracker'.dump = t + 1 /\ tracker'.packets = 0
      BY <3>1
    <3>3. \A p \in Packets : dumpOf'[p] # t + 1
      <4>1. ASSUME NEW p \in Packets PROVE dumpOf[p] \in Nat /\ dumpOf[p] <= t
        <5>1. CASE p <= received
          BY <5>1, <1>t DEF Order, Assigned, Dumps
        <5>2. CASE p > received
          BY <5>2, <1>t DEF Order, Assigned, Dumps
        <5> QED BY <5>1, <5>2, <1>t DEF Packets
      <4> QED BY <4>1, <2>3, <1>t DEF Dumps
    <3>5. tracker'.packets = Cardinality(PacketsOf(tracker.dump)')
      <4>1. PacketsOf(tracker.dump)' = {p \in Packets : dumpOf'[p] = tracker'.dump}
        BY DEF PacketsOf
      <4>2. PacketsOf(tracker.dump)' = {}
        BY <4>1, <3>2, <3>3
      <4> QED BY <4>2, <3>2, FS_EmptySet
    <3>6. ASSUME NEW d \in Dumps, total'[d] # 0
          PROVE d < tracker'.dump /\ total'[d] = Cardinality(PacketsOf(d)')
      <4>1. CASE d = t
        BY <4>1, <3>1, <3>2, <2>8, <1>t, MaxPacketsAssumption DEF Order, Types, Dumps
      <4>2. CASE d # t
        <5>1. total'[d] = total[d] /\ PacketsOf(d)' = PacketsOf(d)
          BY <4>2, <3>1, <2>6 DEF Order, Types
        <5> QED BY <5>1, <3>6, <3>2, <1>t DEF Counting, Dumps
      <4> QED BY <4>1, <4>2
    <3> QED BY <3>5, <3>6, <2>9 DEF Counting
  <2>12. CASE ~hasDone
    <3>1. /\ total' = total
          /\ tracker' = [dump |-> t, packets |-> tracker.packets + 1]
      BY <2>12 DEF Assign
    <3>2. tracker'.dump = t /\ tracker'.packets = tracker.packets + 1
      BY <3>1
    <3>3. tracker'.packets = Cardinality(PacketsOf(tracker.dump)')
      <4>1. PacketsOf(tracker.dump)' = PacketsOf(t)'
        BY <3>2 DEF PacketsOf
      <4> QED BY <4>1, <3>2, <2>8
    <3>4. ASSUME NEW d \in Dumps, total'[d] # 0
          PROVE d < tracker'.dump /\ total'[d] = Cardinality(PacketsOf(d)')
      <4>1. d # t
        BY <3>4, <3>1, <2>10
      <4> QED BY <4>1, <3>4, <3>1, <3>2, <2>6 DEF Counting
    <3> QED BY <3>3, <3>4, <2>9 DEF Counting
  <2> QED BY <2>11, <2>12
<1>2. ASSUME NEW i \in Decoders, PacketDecodedAdd(i) PROVE Counting'
  <2> DEFINE p == pkt[i]
             e == dumpOf[p]
  <2>1. /\ counted' = counted \cup {p}
        /\ decoded' = [decoded EXCEPT ![e] = @ + 1]
        /\ UNCHANGED <<dumpOf, tracker, total>>
    BY <1>2 DEF PacketDecodedAdd, rcvVars
  <2>2. p \notin counted
    BY <1>2 DEF PacketDecodedAdd, Order, Located
  <2>3. \A d : PacketsOf(d)' = PacketsOf(d)
    BY <2>1 DEF PacketsOf
  <2>4. ASSUME NEW d \in Dumps PROVE decoded'[d] = Cardinality(Counted(d)')
    <3>1. IsFiniteSet(Counted(d)) /\ decoded[d] = Cardinality(Counted(d))
      BY PacketSets DEF Counted, Order, Types, Counting
    <3>2. CASE d = e
      <4>1. Counted(d)' = Counted(d) \cup {p} /\ p \notin Counted(d)
        BY <3>2, <2>1, <2>2 DEF Counted
      <4>2. decoded'[d] = decoded[d] + 1
        BY <3>2, <2>1 DEF Order, Types
      <4> QED BY <4>1, <4>2, <3>1, FS_AddElement, Zenon
    <3>3. CASE d # e
      <4>1. Counted(d)' = Counted(d)
        BY <3>3, <2>1 DEF Counted
      <4>2. decoded'[d] = decoded[d]
        BY <3>3, <2>1 DEF Order, Types
      <4> QED BY <4>1, <4>2, <3>1
    <3> QED BY <3>2, <3>3
  <2> QED
    BY <2>1, <2>3, <2>4 DEF Counting, PacketsOf
<1>3. CASE UNCHANGED <<dumpOf, tracker, total, decoded, counted>>
  BY <1>3 DEF Counting, PacketsOf, Counted
<1>4. CASE ReceiverCheckDone \/ RecvTimedOut \/ ReceiverSend
  BY <1>3, <1>4 DEF ReceiverCheckDone, RecvTimedOut, ReceiverSend, dumpVars, histVars
<1>5. ASSUME NEW i \in Decoders,
             \/ DecoderReceive(i) \/ DecoderStop(i) \/ DecoderDeserialize(i)
             \/ PacketDecodedLoad(i) \/ PacketDecodedCAS(i) \/ SignalNetlinkerDone(i)
      PROVE Counting'
  BY <1>3, <1>5 DEF DecoderReceive, DecoderStop, DecoderDeserialize, PacketDecodedLoad,
     PacketDecodedCAS, SignalNetlinkerDone, rcvVars, dumpVars, histVars
<1>6. CASE PollerReceivesDone \/ PollerReturns \/ Cancel \/ UNCHANGED vars
  BY <1>3, <1>6 DEF PollerReceivesDone, PollerReturns, Cancel, vars, rcvVars, dumpVars, histVars
<1> QED
  BY <1>1, <1>2, <1>4, <1>5, <1>6 DEF Next, Receiver, Decoder

------------------------------------------------------------------------------
IInv == Order /\ Counting /\ Adding /\ Sending

(* The inductive invariant holds in every reachable state.                 *)
THEOREM Invariance == Spec => []IInv
<1>1. Init => IInv
  BY OrderInit, CountingInit, SignallingInit DEF IInv
<1>2. IInv /\ [Next]_vars => IInv'
  BY OrderStep, CountingStep, CountingBounds, AddingStep, SendingStep, Zenon DEF IInv
<1> QED
  BY <1>1, <1>2, PTL DEF Spec

(* Type correctness, channel capacities included, for any number of        *)
(* decoders and packets: no counter of a dump exceeds the packets received *)
(* and neither packetCh nor netlinkerDoneCh overflows.                     *)
THEOREM TypeCorrect == Spec => []TypeOK
<1>1. IInv => TypeOK
  <2> SUFFICES ASSUME IInv PROVE TypeOK
    OBVIOUS
  <2>1. /\ received \in 0 .. MaxPackets
        /\ tracker \in [dump : Nat, packets : Nat]
        /\ tracker.dump \in 1 .. received + 1
    BY DEF IInv, Order, Types, Assigned
  <2>2. tracker.dump \in Dumps
    BY <2>1, MaxPacketsAssumption DEF Dumps
  <2>3. \A d : PacketsOf(d) \in SUBSET Packets /\ Counted(d) \in SUBSET Packets
    BY DEF PacketsOf, Counted, IInv, Order, Types
  <2>4. \A d : Cardinality(PacketsOf(d)) \in 0 .. MaxPackets /\ Cardinality(Counted(d)) \in 0 .. MaxPackets
    BY <2>3, PacketSets, MaxPacketsAssumption
  <2>5. tracker.packets \in 0 .. MaxPackets
    BY <2>4 DEF IInv, Counting
  <2>6. \A d \in Dumps : total[d] \in 0 .. MaxPackets /\ decoded[d] \in 0 .. MaxPackets
    BY <2>4, MaxPacketsAssumption DEF IInv, Counting
  <2>7. \A p \in Packets : dumpOf[p] \in Dumps \cup {0}
    <3> SUFFICES ASSUME NEW p \in Packets PROVE dumpOf[p] \in Dumps \cup {0}
      OBVIOUS
    <3>1. CASE p <= received
      <4>1. dumpOf[p] \in 1 .. tracker.dump
        BY <3>1 DEF IInv, Order, Assigned
      <4> QED BY <4>1, <2>1, <2>2, MaxPacketsAssumption DEF Dumps
    <3>2. CASE p > received
      BY <3>2 DEF IInv, Order, Assigned
    <3> QED BY <3>1, <3>2, <2>1 DEF Packets
  <2>8. tracker \in [dump : Dumps, packets : 0 .. MaxPackets]
    BY <2>1, <2>2, <2>5
  <2>9. /\ total \in [Dumps -> 0 .. MaxPackets]
        /\ decoded \in [Dumps -> 0 .. MaxPackets]
        /\ dumpOf \in [Packets -> Dumps \cup {0}]
    BY <2>6, <2>7 DEF IInv, Order, Types
  <2> QED
    BY <2>1, <2>8, <2>9, Zenon DEF IInv, Order, Types, ChannelTypes, TypeOK
<1> QED
  BY <1>1, Invariance, PTL

(* No early done: a dump is signalled only after every packet of it has    *)
(* been deserialized.                                                      *)
THEOREM NoEarlyDone == Spec => []DoneAfterAllDecoded
<1>1. IInv => DoneAfterAllDecoded
  <2> SUFFICES ASSUME IInv, NEW d \in Dumps, signals[d] > 0
               PROVE total[d] = Cardinality(PacketsOf(d)) /\ PacketsOf(d) \subseteq deserialized
    BY DEF DoneAfterAllDecoded
  <2>1. signaled[d]
    BY DEF IInv, Order, Types, Sending
  <2>2. total[d] # 0 /\ decoded[d] = total[d]
    BY <2>1 DEF IInv, Adding
  <2>3. total[d] = Cardinality(PacketsOf(d))
    BY <2>2 DEF IInv, Counting
  <2>4. PacketsOf(d) \subseteq counted
    BY <2>2, <2>3, DecodedBounded DEF IInv
  <2> QED
    BY <2>3, <2>4 DEF IInv, Order, Located
<1> QED
  BY <1>1, Invariance, PTL

(* A dump is signalled at most once.                                       *)
THEOREM DoneOnce == Spec => []DoneSignalledOnce
<1>1. IInv => DoneSignalledOnce
  BY DEF IInv, Order, Types, Sending, DoneSignalledOnce
<1> QED
  BY <1>1, Invariance, PTL

(* The done signal cannot be lost: when the pipeline is empty, every dump  *)
(* whose DONE packet arrived has been signalled.                           *)
THEOREM DoneNotLost == Spec => []NoLostDone
<1>1. IInv => NoLostDone
  <2> SUFFICES ASSUME IInv, Quiescent, NEW d \in Dumps, total[d] > 0
               PROVE signals[d] = 1
    BY DEF NoLostDone
  <2>1. Taken = received /\ received \in Nat
    <3>1. Len(packetCh) = 0 /\ received \in Nat
      BY DEF Quiescent, IInv, Order, Types
    <3>2. Taken = received - 0 - Len(packetCh)
      BY DEF Taken, Quiescent
    <3> QED BY <3>1, <3>2
  <2>2. \A p \in 1 .. Taken : p \in counted
    BY DEF IInv, Order, Located, Quiescent
  <2>3. \A p \in PacketsOf(d) : p \in counted
    <3> SUFFICES ASSUME NEW p \in Packets, dumpOf[p] = d PROVE p \in counted
      BY DEF PacketsOf
    <3>1. ~(p > received)
      BY DEF IInv, Order, Assigned, Dumps
    <3> QED BY <3>1, <2>1, <2>2 DEF Packets
  <2>4. Counted(d) = PacketsOf(d)
    BY <2>3 DEF Counted, PacketsOf, IInv, Order, Types
  <2>5. decoded[d] = total[d] /\ total[d] # 0
    BY <2>4 DEF IInv, Counting, Order, Types
  <2>6. signaled[d]
    BY <2>5 DEF IInv, Adding, Quiescent
  <2> QED
    BY <2>6 DEF IInv, Sending, Quiescent
<1> QED
  BY <1>1, Invariance, PTL

(* The pipeline implements the dump service: every step of it is a step of *)
(* the service or changes nothing the service shows.                       *)
THEOREM Refinement == Spec => ImplementsDumpService
<1>1. Init => Service!Init
  BY DEF Init, Service!Init, Service!Packets, Packets
<1>2. IInv /\ [Next]_vars => [Service!Next]_Service!vars
  BY ServiceStep, CountingBounds, Zenon DEF IInv
<1> QED
  BY <1>1, <1>2, Invariance, PTL DEF Spec, ImplementsDumpService, Service!Spec
==============================================================================
