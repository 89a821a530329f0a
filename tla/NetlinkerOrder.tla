--------------------------- MODULE NetlinkerOrder ----------------------------
(***************************************************************************)
(* Proofs about the steps of the receive and decode pipeline, for any      *)
(* number of decoders, packets and channel slots: where every packet is    *)
(* (Order), who will complete a dump (Adding), who sends its done signal   *)
(* (Sending), and which step of the dump service each step is.             *)
(* NetlinkerProofs adds what the counters count.                           *)
(***************************************************************************)
EXTENDS Netlinker, TLAPS

(* Packets the decoders have taken: packetCh is FIFO and has one producer. *)
Taken == received - (IF rpc = "send" THEN 1 ELSE 0) - Len(packetCh)

ChannelTypes ==
  /\ Cardinality(Decoders) \in Nat
  /\ packetCh \in Seq(Packets)
  /\ Len(packetCh) <= Cardinality(Decoders)
  /\ doneCh \in Seq(Dumps)
  /\ Len(doneCh) <= DoneChanSize

Types ==
  /\ rpc \in {"check", "recv", "send", "closed"}
  /\ received \in 0 .. MaxPackets
  /\ tracker \in [dump : Nat, packets : Nat]
  /\ dumpOf \in [Packets -> Nat]
  /\ total \in [Dumps -> Nat]
  /\ decoded \in [Dumps -> Nat]
  /\ signaled \in [Dumps -> BOOLEAN]
  /\ dpc \in [Decoders -> {"idle", "decode", "add", "load", "cas", "signal",
                           "stopped"}]
  /\ pkt \in [Decoders -> Packets \cup {0}]
  /\ added \in [Decoders -> Nat]
  /\ ctxDone \in BOOLEAN
  /\ pollerGone \in BOOLEAN
  /\ deserialized \subseteq Packets
  /\ counted \subseteq Packets
  /\ signals \in [Dumps -> Nat]

(* The packets received are exactly those assigned to a dump, in order.    *)
Assigned ==
  /\ tracker.dump \in 1 .. received + 1
  /\ \A p \in Packets : p <= received => dumpOf[p] \in 1 .. tracker.dump
  /\ \A p \in Packets : p > received => dumpOf[p] = 0

(* packetCh holds the packets after the taken ones.                        *)
Fifo ==
  /\ Taken >= 0
  /\ \A k \in 1 .. Len(packetCh) : packetCh[k] = Taken + k

(* A taken packet is with one decoder or counted.                          *)
Located ==
  /\ counted \subseteq deserialized
  /\ \A p \in deserialized : p <= Taken
  /\ \A i \in Decoders : dpc[i] \in {"decode", "add"} =>
        pkt[i] \in 1 .. Taken /\ pkt[i] \notin counted
  /\ \A i \in Decoders : dpc[i] = "decode" => pkt[i] \notin deserialized
  /\ \A i \in Decoders : dpc[i] = "add" => pkt[i] \in deserialized
  /\ \A i \in Decoders : dpc[i] \in {"load", "cas", "signal"} => pkt[i] \in counted
  /\ \A i, j \in Decoders :
        /\ i # j
        /\ dpc[i] \in {"decode", "add"}
        /\ dpc[j] \in {"decode", "add"}
        => pkt[i] # pkt[j]
  /\ \A p \in 1 .. Taken : p \in counted \/
        \E i \in Decoders : pkt[i] = p /\ dpc[i] \in {"decode", "add"}

Order == ChannelTypes /\ Types /\ Assigned /\ Fifo /\ Located

DumpOfDecoder(i) == dumpOf[pkt[i]]

(* The packet of a decoder at work has been received and has a dump.       *)
LEMMA ActiveDump ==
  ASSUME Order, NEW i \in Decoders,
         dpc[i] \in {"decode", "add", "load", "cas", "signal"}
  PROVE /\ pkt[i] \in Packets
        /\ pkt[i] <= received
        /\ DumpOfDecoder(i) \in Dumps
<1>t. Taken \in Nat /\ Taken <= received /\ received \in Nat /\ received <= MaxPackets
  <2>1. Len(packetCh) \in Nat /\ Taken >= 0 /\ received \in Nat /\ received <= MaxPackets
    BY MaxPacketsAssumption DEF Order, ChannelTypes, Types, Fifo
  <2> QED BY <2>1 DEF Taken
<1>1. pkt[i] \in 1 .. Taken
  <2>1. CASE dpc[i] \in {"decode", "add"}
    BY <2>1 DEF Order, Located
  <2>2. CASE dpc[i] \in {"load", "cas", "signal"}
    BY <2>2, <1>t DEF Order, Located, Types, Packets
  <2> QED BY <2>1, <2>2
<1>2. pkt[i] \in Packets /\ pkt[i] <= received
  BY <1>1, <1>t, MaxPacketsAssumption DEF Packets
<1>3. dumpOf[pkt[i]] \in 1 .. tracker.dump /\ tracker.dump \in 1 .. received + 1
  BY <1>2 DEF Order, Assigned
<1> QED
  BY <1>2, <1>3, <1>t, MaxPacketsAssumption DEF Dumps, DumpOfDecoder

(* Every step keeps packets in order and each of them in its place.        *)
LEMMA OrderStep == Order /\ [Next]_vars => Order'
<1> SUFFICES ASSUME Order, [Next]_vars PROVE Order'
  OBVIOUS
<1> USE MaxPacketsAssumption DEF Order
<1>c. Cardinality(Decoders) \in Nat
  BY DEF ChannelTypes
<1>t. Taken \in Nat /\ Taken <= received /\ received \in Nat /\ Len(packetCh) \in Nat
  BY DEF Taken, Types, ChannelTypes, Fifo
<1>d. \A i \in Decoders : dpc[i] \in {"decode", "add", "load", "cas", "signal"} =>
        pkt[i] \in Packets /\ pkt[i] <= received /\ dumpOf[pkt[i]] \in Dumps
  BY ActiveDump DEF DumpOfDecoder
<1>1. CASE ReceiverCheckDone
  BY <1>1 DEF ReceiverCheckDone, ChannelTypes, Types, Assigned, Fifo, Located, Taken, dumpVars, decVars, histVars
<1>2. CASE RecvTimedOut
  BY <1>2 DEF RecvTimedOut, ChannelTypes, Types, Assigned, Fifo, Located, Taken, dumpVars, decVars, histVars
<1>3. CASE RecvOneFromKernel
  <2> PICK hasDone \in BOOLEAN : Assign(hasDone)
    BY <1>3 DEF RecvOneFromKernel
  <2>1. /\ received + 1 \in Packets
        /\ tracker.dump \in Dumps
        /\ tracker.dump \in Nat
        /\ tracker.packets \in Nat
        /\ received' = received + 1
    BY <1>3, <1>t DEF RecvOneFromKernel, Types, Assigned, Packets, Dumps
  <2>2. /\ dumpOf' = [dumpOf EXCEPT ![received + 1] = tracker.dump]
        /\ total' \in [Dumps -> Nat]
        /\ tracker' \in [dump : Nat, packets : Nat]
        /\ tracker'.dump \in {tracker.dump, tracker.dump + 1}
    BY <2>1 DEF Assign, Types
  <2>3. Types'
    <3>1. received' \in 0 .. MaxPackets
      BY <2>1, <1>t DEF Packets
    <3>2. dumpOf' \in [Packets -> Nat]
      BY <2>1, <2>2 DEF Types
    <3> QED
      BY <1>3, <2>2, <3>1, <3>2 DEF RecvOneFromKernel, Types, decVars, histVars
  <2>4. Assigned'
    <3>1. tracker'.dump \in 1 .. received' + 1 /\ tracker'.dump >= tracker.dump
      BY <2>1, <2>2, <1>t DEF Assigned
    <3>2. \A p \in Packets : dumpOf'[p] = IF p = received + 1 THEN tracker.dump ELSE dumpOf[p]
      BY <2>1, <2>2 DEF Types
    <3>3. \A p \in Packets : p \in Nat
      BY DEF Packets
    <3>4. ASSUME NEW p \in Packets, p <= received' PROVE dumpOf'[p] \in 1 .. tracker'.dump
      <4>1. CASE p = received + 1
        BY <4>1, <3>1, <3>2, <2>1, <2>2, <1>t DEF Assigned
      <4>2. CASE p <= received
        BY <4>2, <3>1, <3>2, <3>3, <2>1, <2>2, <1>t, SMTT(30) DEF Assigned
      <4> QED BY <3>3, <3>4, <4>1, <4>2, <2>1, <1>t
    <3>5. ASSUME NEW p \in Packets, p > received' PROVE dumpOf'[p] = 0
      BY <3>5, <3>2, <3>3, <2>1, <1>t DEF Assigned
    <3> QED BY <3>1, <3>4, <3>5 DEF Assigned
  <2>5. Taken' = Taken
    BY <1>3, <1>t DEF RecvOneFromKernel, Taken
  <2>6. ChannelTypes' /\ Fifo' /\ Located'
    BY <1>3, <2>5 DEF RecvOneFromKernel, ChannelTypes, Fifo, Located, decVars, histVars
  <2> QED BY <2>3, <2>4, <2>6
<1>4. CASE ReceiverSend
  <2>1. received \in Packets /\ Taken = received - 1 - Len(packetCh)
    BY <1>4, <1>t DEF ReceiverSend, Taken, Types, Packets
  <2>2. ChannelTypes'
    BY <1>4, <2>1, <1>c DEF ReceiverSend, ChannelTypes
  <2>3. Types' /\ Assigned'
    BY <1>4 DEF ReceiverSend, Types, Assigned, dumpVars, decVars, histVars
  <2>4. Len(packetCh') = Len(packetCh) + 1 /\ Taken' = Taken
    BY <1>4, <2>1, <1>t DEF ReceiverSend, Taken, ChannelTypes
  <2>5. Fifo'
    <3> SUFFICES ASSUME NEW k \in 1 .. Len(packetCh') PROVE packetCh'[k] = Taken + k
      BY <2>4, <1>t DEF Fifo
    <3>1. CASE k = Len(packetCh) + 1
      BY <3>1, <1>4, <2>1, <1>t DEF ReceiverSend, ChannelTypes
    <3>2. CASE k \in 1 .. Len(packetCh)
      BY <3>2, <1>4, <2>1 DEF ReceiverSend, ChannelTypes, Fifo
    <3> QED BY <3>1, <3>2, <2>4, <1>t
  <2>6. Located'
    BY <1>4, <2>4 DEF ReceiverSend, Located, decVars, histVars
  <2> QED BY <2>2, <2>3, <2>5, <2>6
<1>5. ASSUME NEW i \in Decoders, DecoderReceive(i) PROVE Order'
  <2>1. Len(packetCh) > 0 /\ Head(packetCh) = packetCh[1] /\ Head(packetCh) \in Packets
    BY <1>5, <1>t DEF DecoderReceive, ChannelTypes
  <2>2. Len(packetCh') = Len(packetCh) - 1 /\ packetCh' \in Seq(Packets)
    BY <1>5, <1>t, <2>1 DEF DecoderReceive, ChannelTypes
  <2>3. Taken' = Taken + 1 /\ Head(packetCh) = Taken + 1
    BY <1>5, <1>t, <2>1, <2>2 DEF DecoderReceive, Taken, Fifo, rcvVars
  <2>4. ChannelTypes'
    BY <1>5, <1>c, <1>t, <2>2 DEF DecoderReceive, ChannelTypes
  <2>5. Types' /\ Assigned'
    BY <1>5, <2>1 DEF DecoderReceive, Types, Assigned, rcvVars, dumpVars, histVars
  <2>6. Fifo'
    <3> SUFFICES ASSUME NEW k \in 1 .. Len(packetCh') PROVE packetCh'[k] = Taken + 1 + k
      BY <2>3, <1>t DEF Fifo
    <3>1. packetCh'[k] = packetCh[k + 1] /\ k + 1 \in 1 .. Len(packetCh)
      BY <1>5, <2>1, <2>2, <1>t DEF DecoderReceive, ChannelTypes
    <3> QED BY <3>1, <1>t DEF Fifo
  <2>7. Located'
    <3>1. /\ deserialized' = deserialized
          /\ counted' = counted
          /\ dpc' = [dpc EXCEPT ![i] = "decode"]
          /\ pkt' = [pkt EXCEPT ![i] = Taken + 1]
          /\ dpc[i] = "idle"
      BY <1>5, <2>3, Zenon DEF DecoderReceive, histVars
    <3>2. \A p \in deserialized : p <= Taken
      BY DEF Located
    <3>3. \A p \in deserialized' : p <= Taken'
      BY <3>1, <3>2, <2>3, <1>t DEF Types, Packets
    <3>4. \A j \in Decoders : dpc'[j] \in {"decode", "add"} =>
            pkt'[j] \in 1 .. Taken' /\ pkt'[j] \notin counted'
      BY <3>1, <2>3, <1>t DEF Located, Types
    <3>5. /\ \A j \in Decoders : dpc'[j] = "decode" => pkt'[j] \notin deserialized'
          /\ \A j \in Decoders : dpc'[j] = "add" => pkt'[j] \in deserialized'
          /\ \A j \in Decoders : dpc'[j] \in {"load", "cas", "signal"} => pkt'[j] \in counted'
      BY <3>1, <2>3, <1>t DEF Located, Types
    <3>6. \A j, k \in Decoders :
             j # k /\ dpc'[j] \in {"decode", "add"} /\ dpc'[k] \in {"decode", "add"}
             => pkt'[j] # pkt'[k]
      BY <3>1, <1>t DEF Located, Types
    <3>7. \A p \in 1 .. Taken' : p \in counted' \/
            \E j \in Decoders : pkt'[j] = p /\ dpc'[j] \in {"decode", "add"}
      <4> SUFFICES ASSUME NEW p \in 1 .. Taken + 1, p \notin counted
                   PROVE \E j \in Decoders : pkt'[j] = p /\ dpc'[j] \in {"decode", "add"}
        BY <3>1, <2>3
      <4>1. CASE p = Taken + 1
        BY <4>1, <3>1 DEF Types
      <4>2. CASE p \in 1 .. Taken
        <5> PICK j \in Decoders : pkt[j] = p /\ dpc[j] \in {"decode", "add"}
          BY <4>2 DEF Located
        <5> QED BY <3>1 DEF Types
      <4> QED BY <4>1, <4>2, <1>t
    <3> QED BY <3>1, <3>3, <3>4, <3>5, <3>6, <3>7 DEF Located
  <2> QED BY <2>4, <2>5, <2>6, <2>7
<1>6. ASSUME NEW i \in Decoders, DecoderStop(i) PROVE Order'
  <2>0. Taken' = Taken
    BY <1>6 DEF DecoderStop, Taken, rcvVars
  <2>1. ChannelTypes' /\ Types' /\ Assigned' /\ Fifo'
    BY <1>6, <2>0 DEF DecoderStop, ChannelTypes, Types, Assigned, Fifo, rcvVars, dumpVars, histVars
  <2>2. Located'
    <3>1. /\ \A j \in Decoders : dpc'[j] # "stopped" => dpc'[j] = dpc[j]
          /\ \A j \in Decoders : dpc[j] # "idle" => dpc'[j] = dpc[j]
      BY <1>6 DEF DecoderStop, Types
    <3> QED
      BY <1>6, <2>0, <3>1 DEF DecoderStop, Located, histVars
  <2> QED BY <2>1, <2>2
<1>7. ASSUME NEW i \in Decoders, DecoderDeserialize(i) PROVE Order'
  <2>0. Taken' = Taken /\ pkt[i] \in Packets
    BY <1>7, <1>d DEF DecoderDeserialize, Taken, rcvVars
  <2>1. ChannelTypes' /\ Types' /\ Assigned' /\ Fifo'
    BY <1>7, <2>0 DEF DecoderDeserialize, ChannelTypes, Types, Assigned, Fifo, rcvVars, dumpVars
  <2>2. Located'
    BY <1>7, <2>0, <1>t DEF DecoderDeserialize, Types, Located
  <2> QED BY <2>1, <2>2
<1>8. ASSUME NEW i \in Decoders, PacketDecodedAdd(i) PROVE Order'
  <2>0. Taken' = Taken /\ pkt[i] \in Packets /\ dumpOf[pkt[i]] \in Dumps
    BY <1>8, <1>d DEF PacketDecodedAdd, Taken, rcvVars
  <2>1. ChannelTypes' /\ Assigned' /\ Fifo'
    BY <1>8, <2>0 DEF PacketDecodedAdd, ChannelTypes, Assigned, Fifo, rcvVars
  <2>3. decoded[dumpOf[pkt[i]]] + 1 \in Nat
    BY <2>0 DEF Types
  <2>4. Types'
    BY <1>8, <2>0, <2>3 DEF PacketDecodedAdd, Types, rcvVars
  <2>2. Located'
    BY <1>8, <2>0 DEF PacketDecodedAdd, Types, Located
  <2> QED BY <2>1, <2>2, <2>4, SMTT(30)
<1>9. ASSUME NEW i \in Decoders, PacketDecodedLoad(i) PROVE Order'
  <2>0. Taken' = Taken
    BY <1>9 DEF PacketDecodedLoad, Taken, rcvVars
  <2>1. ChannelTypes' /\ Types' /\ Assigned' /\ Fifo'
    BY <1>9, <2>0, SMTT(30) DEF PacketDecodedLoad, ChannelTypes, Types, Assigned, Fifo, rcvVars, dumpVars, histVars
  <2>2. Located'
    BY <1>9, <2>0 DEF PacketDecodedLoad, Types, Located, histVars
  <2> QED BY <2>1, <2>2
<1>10. ASSUME NEW i \in Decoders, PacketDecodedCAS(i) PROVE Order'
  <2>0. Taken' = Taken
    BY <1>10 DEF PacketDecodedCAS, Taken, rcvVars
  <2>1. ChannelTypes' /\ Types' /\ Assigned' /\ Fifo'
    BY <1>10, <2>0, ZenonT(30) DEF PacketDecodedCAS, ChannelTypes, Types, Assigned, Fifo, rcvVars, dumpVars, histVars
  <2>2. Located'
    BY <1>10, <2>0 DEF PacketDecodedCAS, Types, Located, histVars
  <2> QED BY <2>1, <2>2
<1>11. ASSUME NEW i \in Decoders, SignalNetlinkerDone(i) PROVE Order'
  <2>0. Taken' = Taken /\ dumpOf[pkt[i]] \in Dumps
    BY <1>11, <1>d, SMTT(30) DEF SignalNetlinkerDone, Taken, rcvVars
  <2>1. ChannelTypes'
    BY <1>11, <2>0, DoneChanSizeAssumption DEF SignalNetlinkerDone, ChannelTypes
  <2>2. Assigned' /\ Fifo'
    BY <1>11, <2>0 DEF SignalNetlinkerDone, Assigned, Fifo, rcvVars
  <2>4. signals[dumpOf[pkt[i]]] + 1 \in Nat
    BY <2>0 DEF Types
  <2>5. Types'
    BY <1>11, <2>0, <2>4, SMTT(30) DEF SignalNetlinkerDone, Types, rcvVars, dumpVars
  <2>3. Located'
    BY <1>11, <2>0 DEF SignalNetlinkerDone, Types, Located
  <2> QED BY <2>1, <2>2, <2>3, <2>5
<1>12. CASE PollerReceivesDone
  <2>1. ChannelTypes'
    BY <1>12, DoneChanSizeAssumption DEF PollerReceivesDone, ChannelTypes
  <2>2. Types' /\ Assigned' /\ Fifo' /\ Located'
    BY <1>12 DEF PollerReceivesDone, Types, Assigned, Fifo, Located, Taken, rcvVars, dumpVars, decVars, histVars
  <2> QED BY <2>1, <2>2
<1>13. CASE PollerReturns \/ Cancel
  <2>1. Types'
    BY <1>13, Zenon DEF PollerReturns, Cancel, Types, rcvVars, dumpVars, decVars, histVars
  <2>2. ChannelTypes' /\ Assigned' /\ Fifo' /\ Located'
    BY <1>13, SMTT(30) DEF PollerReturns, Cancel, ChannelTypes, Assigned, Fifo, Located, Taken, rcvVars, decVars, histVars
  <2> QED BY <2>1, <2>2
<1>14. CASE UNCHANGED vars
  BY <1>14 DEF vars, ChannelTypes, Types, Assigned, Fifo, Located, Taken, rcvVars, dumpVars, decVars, histVars
<1> QED
  BY <1>1, <1>2, <1>3, <1>4, <1>5, <1>6, <1>7, <1>8, <1>9, <1>10, <1>11, <1>12,
     <1>13, <1>14 DEF Next, Receiver, Decoder

------------------------------------------------------------------------------
(* What the counters are bounded by: a dump that is not complete has fewer *)
(* packets decoded than counted, and one whose total is reached has no     *)
(* packet left.                                                            *)
Bounded ==
  /\ total[tracker.dump] = 0 /\ decoded[tracker.dump] <= tracker.packets
  /\ \A d \in Dumps : total[d] # 0 => decoded[d] <= total[d]
  /\ \A d \in Dumps : total[d] # 0 /\ decoded[d] = total[d] => PacketsOf(d) \subseteq counted

(* Who owes a done signal.  A decoder at "load" or "cas" remembers a value *)
(* decoded once had; the decoder whose increment completed the dump is the *)
(* one that will find it equal to total.                                   *)
Adding ==
  /\ \A i \in Decoders : dpc[i] \in {"load", "cas"} =>
        added[i] \in 1 .. decoded[DumpOfDecoder(i)]
  /\ \A i \in Decoders : dpc[i] = "cas" => added[i] = total[DumpOfDecoder(i)]
  /\ \A d \in Dumps : signaled[d] => total[d] # 0 /\ decoded[d] = total[d]
  /\ \A d \in Dumps : total[d] # 0 /\ decoded[d] = total[d] =>
        \/ signaled[d]
        \/ \E i \in Decoders : /\ dpc[i] \in {"load", "cas"}
                               /\ DumpOfDecoder(i) = d
                               /\ added[i] = total[d]

Sending ==
  /\ \A d \in Dumps : signals[d] # 0 => signaled[d] /\ signals[d] = 1
  /\ \A i \in Decoders : dpc[i] = "signal" =>
        signaled[DumpOfDecoder(i)] /\ signals[DumpOfDecoder(i)] = 0
  /\ \A i, j \in Decoders :
        i # j /\ dpc[i] = "signal" /\ dpc[j] = "signal" =>
        DumpOfDecoder(i) # DumpOfDecoder(j)
  /\ \A d \in Dumps : signaled[d] =>
        \/ signals[d] = 1
        \/ \E i \in Decoders : dpc[i] = "signal" /\ DumpOfDecoder(i) = d

(* Initially no decoder is at work and nothing is signalled.               *)
LEMMA SignallingInit == Init => Adding /\ Sending
  BY DEF Init, Adding, Sending

(* Every step leaves a completed dump signalled, or a decoder that finds   *)
(* its value equal to total.                                               *)
LEMMA AddingStep ==
  Order /\ Bounded /\ Adding /\ [Next]_vars => Adding'
<1> SUFFICES ASSUME Order, Bounded, Adding, [Next]_vars PROVE Adding'
  OBVIOUS
<1>t. /\ dpc \in [Decoders -> {"idle", "decode", "add", "load", "cas", "signal", "stopped"}]
      /\ pkt \in [Decoders -> Packets \cup {0}]
      /\ added \in [Decoders -> Nat]
      /\ total \in [Dumps -> Nat]
      /\ decoded \in [Dumps -> Nat]
      /\ signaled \in [Dumps -> BOOLEAN]
  BY DEF Order, Types
<1>a. \A i \in Decoders : dpc[i] \in {"add", "load", "cas", "signal"} => DumpOfDecoder(i) \in Dumps
  BY ActiveDump
<1>b. \A d \in Dumps : total[d] # 0 => decoded[d] <= total[d]
  BY DEF Bounded
<1>1. CASE RecvOneFromKernel
  <2> PICK t \in Dumps : t = tracker.dump
    BY MaxPacketsAssumption DEF Order, Types, Assigned, Dumps
  <2> PICK hasDone \in BOOLEAN : Assign(hasDone)
    BY <1>1 DEF RecvOneFromKernel
  <2>1. UNCHANGED <<dpc, pkt, added, decoded, signaled>>
    BY <1>1 DEF RecvOneFromKernel, decVars
  <2>2. \A i \in Decoders : dpc[i] \in {"load", "cas"} => DumpOfDecoder(i)' = DumpOfDecoder(i)
    <3>1. dumpOf' = [dumpOf EXCEPT ![received + 1] = t] /\ received \in Nat
      BY DEF Assign, Order, Types
    <3>2. \A p \in Packets : p <= received => dumpOf'[p] = dumpOf[p]
      BY <3>1 DEF Order, Types, Packets
    <3> QED
      BY <3>2, <2>1, ActiveDump DEF DumpOfDecoder
  <2>3. CASE ~hasDone
    <3>1. total' = total
      BY <2>3 DEF Assign
    <3> QED BY <3>1, <2>1, <2>2 DEF Adding
  <2>4. CASE hasDone
    <3>1. total' = [total EXCEPT ![t] = tracker.packets + 1] /\ tracker.packets \in Nat
      BY <2>4 DEF Assign, Order, Types
    <3>2. total[t] = 0 /\ decoded[t] < tracker.packets + 1
      BY <3>1, <1>t DEF Bounded
    <3>3. \A i \in Decoders : dpc[i] = "cas" => DumpOfDecoder(i) # t
      BY <3>2, <1>t, <1>a DEF Adding
    <3>4. \A i \in Decoders : dpc'[i] = "cas" => added'[i] = total'[DumpOfDecoder(i)']
      BY <3>1, <3>3, <2>1, <2>2, <1>a, <1>t DEF Adding
    <3>5. \A i \in Decoders : dpc'[i] \in {"load", "cas"} =>
             added'[i] \in 1 .. decoded'[DumpOfDecoder(i)']
      BY <2>1, <2>2 DEF Adding
    <3>6. \A d \in Dumps : signaled'[d] => total'[d] # 0 /\ decoded'[d] = total'[d]
      BY <3>1, <3>2, <2>1, <1>t DEF Adding
    <3>7. ASSUME NEW d \in Dumps, total'[d] # 0, decoded'[d] = total'[d]
          PROVE \/ signaled'[d]
                \/ \E i \in Decoders : /\ dpc'[i] \in {"load", "cas"}
                                       /\ DumpOfDecoder(i)' = d
                                       /\ added'[i] = total'[d]
      <4>1. d # t /\ total'[d] = total[d]
        BY <3>1, <3>2, <3>7, <2>1, <1>t
      <4> QED BY <4>1, <3>7, <2>1, <2>2 DEF Adding
    <3> QED BY <3>4, <3>5, <3>6, <3>7 DEF Adding
  <2> QED BY <2>3, <2>4
<1>2. ASSUME NEW i \in Decoders, PacketDecodedAdd(i) PROVE Adding'
  <2> PICK e \in Dumps : e = DumpOfDecoder(i)
    BY <1>2, <1>a DEF PacketDecodedAdd
  <2>1. /\ dpc[i] = "add"
        /\ dpc' = [dpc EXCEPT ![i] = "load"]
        /\ decoded' = [decoded EXCEPT ![e] = decoded[e] + 1]
        /\ added' = [added EXCEPT ![i] = decoded[e] + 1]
        /\ UNCHANGED <<total, signaled>>
        /\ \A j \in Decoders : DumpOfDecoder(j)' = DumpOfDecoder(j)
    BY <1>2 DEF PacketDecodedAdd, DumpOfDecoder, rcvVars
  <2>2. ~(PacketsOf(e) \subseteq counted)
    <3>1. pkt[i] \in Packets /\ pkt[i] \notin counted
      BY <2>1, ActiveDump DEF Order, Located
    <3> QED
      BY <3>1 DEF PacketsOf, DumpOfDecoder
  <2>3. ~signaled[e]
    BY <2>2 DEF Adding, Bounded
  <2>4. \A j \in Decoders : dpc'[j] \in {"load", "cas"} =>
           added'[j] \in 1 .. decoded'[DumpOfDecoder(j)']
    BY <2>1, <1>t, <1>a DEF Adding
  <2>5. \A j \in Decoders : dpc'[j] = "cas" => added'[j] = total'[DumpOfDecoder(j)']
    BY <2>1, <1>t DEF Adding
  <2>6. \A d \in Dumps : signaled'[d] => total'[d] # 0 /\ decoded'[d] = total'[d]
    BY <2>1, <2>3, <1>t DEF Adding
  <2>7. ASSUME NEW d \in Dumps, total'[d] # 0, decoded'[d] = total'[d]
        PROVE \/ signaled'[d]
              \/ \E j \in Decoders : /\ dpc'[j] \in {"load", "cas"}
                                     /\ DumpOfDecoder(j)' = d
                                     /\ added'[j] = total'[d]
    <3>1. CASE d = e
      BY <3>1, <2>1, <2>7, <1>t
    <3>2. CASE d # e
      BY <3>2, <2>1, <2>7, <1>t DEF Adding
    <3> QED BY <3>1, <3>2
  <2> QED BY <2>4, <2>5, <2>6, <2>7 DEF Adding
<1>3. ASSUME NEW i \in Decoders, PacketDecodedLoad(i) PROVE Adding'
  <2>1. /\ dpc[i] = "load"
        /\ \A j \in Decoders : j # i => dpc'[j] = dpc[j]
        /\ dpc'[i] = IF added[i] = total[DumpOfDecoder(i)] THEN "cas" ELSE "idle"
        /\ UNCHANGED <<total, decoded, signaled, added>>
        /\ \A j \in Decoders : DumpOfDecoder(j)' = DumpOfDecoder(j)
    BY <1>3, <1>t DEF PacketDecodedLoad, DumpOfDecoder, rcvVars, dumpVars
  <2>2. \A j \in Decoders : dpc'[j] \in {"load", "cas"} => dpc[j] \in {"load", "cas"}
    BY <2>1
  <2>3. \A j \in Decoders : dpc'[j] \in {"load", "cas"} =>
           added'[j] \in 1 .. decoded'[DumpOfDecoder(j)']
    BY <2>1, <2>2 DEF Adding
  <2>4. \A j \in Decoders : dpc'[j] = "cas" => added'[j] = total'[DumpOfDecoder(j)']
    BY <2>1 DEF Adding
  <2>5. \A d \in Dumps : signaled'[d] => total'[d] # 0 /\ decoded'[d] = total'[d]
    BY <2>1 DEF Adding
  <2>6. ASSUME NEW d \in Dumps, total'[d] # 0, decoded'[d] = total'[d]
        PROVE \/ signaled'[d]
              \/ \E j \in Decoders : /\ dpc'[j] \in {"load", "cas"}
                                     /\ DumpOfDecoder(j)' = d
                                     /\ added'[j] = total'[d]
    BY <2>1, <2>6 DEF Adding
  <2> QED BY <2>3, <2>4, <2>5, <2>6 DEF Adding
<1>4. ASSUME NEW i \in Decoders, PacketDecodedCAS(i) PROVE Adding'
  <2> PICK e \in Dumps : e = DumpOfDecoder(i)
    BY <1>4, <1>a DEF PacketDecodedCAS
  <2>1. /\ dpc[i] = "cas"
        /\ \A j \in Decoders : j # i => dpc'[j] = dpc[j]
        /\ dpc'[i] \in {"idle", "signal"}
        /\ \A d \in Dumps : signaled'[d] = IF d = e THEN TRUE ELSE signaled[d]
        /\ UNCHANGED <<total, decoded, added>>
        /\ \A j \in Decoders : DumpOfDecoder(j)' = DumpOfDecoder(j)
    BY <1>4, <1>t DEF PacketDecodedCAS, DumpOfDecoder, rcvVars
  <2>2. total[e] # 0 /\ decoded[e] = total[e]
    BY <2>1, <1>b, <1>t DEF Adding
  <2>3. \A j \in Decoders : dpc'[j] \in {"load", "cas"} => j # i /\ dpc'[j] = dpc[j]
    BY <2>1
  <2>4. /\ \A j \in Decoders : dpc'[j] \in {"load", "cas"} =>
              added'[j] \in 1 .. decoded'[DumpOfDecoder(j)']
        /\ \A j \in Decoders : dpc'[j] = "cas" => added'[j] = total'[DumpOfDecoder(j)']
    BY <2>1, <2>3 DEF Adding
  <2>5. \A d \in Dumps : signaled'[d] => total'[d] # 0 /\ decoded'[d] = total'[d]
    BY <2>1, <2>2, Zenon DEF Adding
  <2>6. ASSUME NEW d \in Dumps, total'[d] # 0, decoded'[d] = total'[d], ~signaled'[d]
        PROVE \E j \in Decoders : /\ dpc'[j] \in {"load", "cas"}
                                  /\ DumpOfDecoder(j)' = d
                                  /\ added'[j] = total'[d]
    <3>1. d # e /\ ~signaled[d] /\ total[d] # 0 /\ decoded[d] = total[d]
      BY <2>1, <2>6, Zenon
    <3> QED BY <3>1, <2>1 DEF Adding
  <2> QED BY <2>4, <2>5, <2>6 DEF Adding
<1>5. ASSUME UNCHANGED <<added, total, decoded, signaled>>,
             \A j \in Decoders : dpc[j] \in {"load", "cas"} \/ dpc'[j] \in {"load", "cas"} =>
                 dpc'[j] = dpc[j] /\ DumpOfDecoder(j)' = DumpOfDecoder(j)
      PROVE Adding'
  BY <1>5 DEF Adding
<1>6. ASSUME NEW i \in Decoders,
             \/ DecoderReceive(i) \/ DecoderStop(i) \/ DecoderDeserialize(i)
             \/ SignalNetlinkerDone(i)
      PROVE Adding'
  <2>1. /\ UNCHANGED <<added, total, decoded, signaled, dumpOf>>
        /\ \A j \in Decoders : j # i => dpc'[j] = dpc[j] /\ pkt'[j] = pkt[j]
        /\ dpc[i] \notin {"load", "cas"}
        /\ dpc'[i] \notin {"load", "cas"}
    BY <1>6, <1>t DEF DecoderReceive, DecoderStop, DecoderDeserialize,
       SignalNetlinkerDone, rcvVars, dumpVars
  <2>2. \A j \in Decoders : j # i => DumpOfDecoder(j)' = DumpOfDecoder(j)
    BY <2>1 DEF DumpOfDecoder
  <2>3. \A j \in Decoders : dpc[j] \in {"load", "cas"} \/ dpc'[j] \in {"load", "cas"} =>
           dpc'[j] = dpc[j] /\ DumpOfDecoder(j)' = DumpOfDecoder(j)
    BY <2>1, <2>2
  <2>4. UNCHANGED <<added, total, decoded, signaled>>
    BY <2>1
  <2> QED BY <2>3, <2>4, <1>5
<1>7. CASE ReceiverCheckDone \/ RecvTimedOut \/ ReceiverSend \/ PollerReceivesDone
           \/ PollerReturns \/ Cancel \/ UNCHANGED vars
  <2>1. UNCHANGED <<added, total, decoded, signaled, dpc, pkt, dumpOf>>
    BY <1>7 DEF ReceiverCheckDone, RecvTimedOut, ReceiverSend, PollerReceivesDone,
       PollerReturns, Cancel, vars, rcvVars, dumpVars, decVars
  <2> QED BY <2>1, <1>5 DEF DumpOfDecoder
<1> QED
  BY <1>1, <1>2, <1>3, <1>4, <1>6, <1>7 DEF Next, Receiver, Decoder

(* Every step leaves a signalled dump with one signal, sent or on its way. *)
LEMMA SendingStep == Order /\ Sending /\ [Next]_vars => Sending'
<1> SUFFICES ASSUME Order, Sending, [Next]_vars PROVE Sending'
  OBVIOUS
<1>t. /\ dpc \in [Decoders -> {"idle", "decode", "add", "load", "cas", "signal", "stopped"}]
      /\ signaled \in [Dumps -> BOOLEAN]
      /\ signals \in [Dumps -> Nat]
  BY DEF Order, Types
<1>1. ASSUME NEW i \in Decoders, PacketDecodedCAS(i) PROVE Sending'
  <2> PICK e \in Dumps : e = DumpOfDecoder(i)
    BY <1>1, ActiveDump DEF PacketDecodedCAS
  <2>1. /\ dpc[i] = "cas"
        /\ dpc' = [dpc EXCEPT ![i] = IF signaled[e] THEN "idle" ELSE "signal"]
        /\ signaled' = [signaled EXCEPT ![e] = TRUE]
        /\ UNCHANGED signals
        /\ \A j \in Decoders : DumpOfDecoder(j)' = DumpOfDecoder(j)
    BY <1>1 DEF PacketDecodedCAS, DumpOfDecoder, rcvVars, histVars
  <2>2. /\ \A j \in Decoders : j # i => dpc'[j] = dpc[j]
        /\ \A d \in Dumps : d # e => signaled'[d] = signaled[d]
        /\ signaled'[e]
    BY <2>1, <1>t
  <2>3. CASE signaled[e]
    <3>1. dpc'[i] = "idle" /\ \A d \in Dumps : signaled'[d] <=> signaled[d]
      BY <2>1, <2>2, <2>3, <1>t
    <3>2. \A j \in Decoders : dpc'[j] = "signal" <=> dpc[j] = "signal"
      BY <2>1, <2>2, <3>1
    <3>3. \A j \in Decoders : dpc'[j] = "signal" => DumpOfDecoder(j) \in Dumps
      BY <3>2, ActiveDump
    <3> QED BY <2>1, <3>1, <3>2, <3>3 DEF Sending
  <2>4. CASE ~signaled[e]
    <3>1. dpc'[i] = "signal" /\ signals[e] = 0
      BY <2>1, <2>4, <1>t DEF Sending
    <3>2. \A j \in Decoders : dpc[j] = "signal" => DumpOfDecoder(j) # e /\ DumpOfDecoder(j) \in Dumps
      BY <2>4, ActiveDump DEF Sending
    <3>3. \A d \in Dumps : signals'[d] # 0 => signaled'[d] /\ signals'[d] = 1
      BY <3>1, <2>1, <2>2 DEF Sending
    <3>4. \A j \in Decoders : dpc'[j] = "signal" =>
             signaled'[DumpOfDecoder(j)'] /\ signals'[DumpOfDecoder(j)'] = 0
      BY <3>1, <3>2, <2>1, <2>2 DEF Sending
    <3>5. \A j, k \in Decoders :
             j # k /\ dpc'[j] = "signal" /\ dpc'[k] = "signal" =>
             DumpOfDecoder(j)' # DumpOfDecoder(k)'
      BY <3>1, <3>2, <2>1, <2>2 DEF Sending
    <3>6. ASSUME NEW d \in Dumps, signaled'[d]
          PROVE \/ signals'[d] = 1
                \/ \E j \in Decoders : dpc'[j] = "signal" /\ DumpOfDecoder(j)' = d
      BY <3>1, <3>6, <2>1, <2>2 DEF Sending
    <3> QED BY <3>3, <3>4, <3>5, <3>6 DEF Sending
  <2> QED BY <2>3, <2>4
<1>2. ASSUME NEW i \in Decoders, SignalNetlinkerDone(i) PROVE Sending'
  <2> PICK e \in Dumps : e = DumpOfDecoder(i)
    BY <1>2, ActiveDump DEF SignalNetlinkerDone
  <2>1. /\ dpc[i] = "signal"
        /\ dpc' = [dpc EXCEPT ![i] = "idle"]
        /\ signals' = [signals EXCEPT ![e] = signals[e] + 1]
        /\ UNCHANGED signaled
        /\ \A j \in Decoders : DumpOfDecoder(j)' = DumpOfDecoder(j)
    BY <1>2 DEF SignalNetlinkerDone, DumpOfDecoder, rcvVars, dumpVars
  <2>2. signaled[e] /\ signals[e] = 0
    BY <2>1 DEF Sending
  <2>3. /\ \A d \in Dumps : d # e => signals'[d] = signals[d]
        /\ signals'[e] = 1
        /\ \A j \in Decoders : j # i => dpc'[j] = dpc[j]
        /\ dpc'[i] = "idle"
    BY <2>1, <2>2, <1>t
  <2>4. \A j \in Decoders : dpc'[j] = "signal" =>
           DumpOfDecoder(j) \in Dumps /\ DumpOfDecoder(j) # e /\ j # i
    BY <2>1, <2>3, ActiveDump DEF Sending
  <2> QED BY <2>1, <2>2, <2>3, <2>4 DEF Sending
<1>3. ASSUME UNCHANGED <<signals, signaled>>,
             \A j \in Decoders : dpc[j] = "signal" \/ dpc'[j] = "signal" =>
                 dpc'[j] = dpc[j] /\ DumpOfDecoder(j)' = DumpOfDecoder(j)
      PROVE Sending'
  BY <1>3 DEF Sending
<1>4. CASE RecvOneFromKernel
  <2>1. UNCHANGED <<signals, signaled, dpc, pkt>> /\ received \in Nat
    BY <1>4 DEF RecvOneFromKernel, decVars, histVars, Order, Types
  <2>2. \A p \in Packets : p <= received => dumpOf'[p] = dumpOf[p]
    <3>1. dumpOf' = [dumpOf EXCEPT ![received + 1] = tracker.dump]
      BY <1>4 DEF RecvOneFromKernel, Assign
    <3> QED BY <3>1, <2>1 DEF Order, Types, Packets
  <2>3. \A j \in Decoders : dpc[j] = "signal" => DumpOfDecoder(j)' = DumpOfDecoder(j)
    BY <2>1, <2>2, ActiveDump DEF DumpOfDecoder
  <2> QED BY <2>1, <2>3, <1>3
<1>5. ASSUME NEW i \in Decoders,
             \/ DecoderReceive(i) \/ DecoderStop(i) \/ DecoderDeserialize(i)
             \/ PacketDecodedAdd(i) \/ PacketDecodedLoad(i)
      PROVE Sending'
  <2>1. /\ UNCHANGED <<signals, signaled, dumpOf>>
        /\ \A j \in Decoders : j # i => dpc'[j] = dpc[j] /\ pkt'[j] = pkt[j]
        /\ dpc[i] # "signal"
        /\ dpc'[i] # "signal"
    BY <1>5, <1>t DEF DecoderReceive, DecoderStop, DecoderDeserialize, PacketDecodedAdd,
       PacketDecodedLoad, rcvVars, dumpVars, histVars, Order, Types
  <2>2. \A j \in Decoders : j # i => DumpOfDecoder(j)' = DumpOfDecoder(j)
    BY <2>1 DEF DumpOfDecoder
  <2> QED BY <2>1, <2>2, <1>3
<1>6. CASE ReceiverCheckDone \/ RecvTimedOut \/ ReceiverSend \/ PollerReceivesDone
           \/ PollerReturns \/ Cancel \/ UNCHANGED vars
  <2>1. UNCHANGED <<signals, signaled, dpc, pkt, dumpOf>>
    BY <1>6 DEF ReceiverCheckDone, RecvTimedOut, ReceiverSend, PollerReceivesDone,
       PollerReturns, Cancel, vars, rcvVars, dumpVars, decVars, histVars
  <2> QED BY <2>1, <1>3 DEF DumpOfDecoder
<1> QED
  BY <1>1, <1>2, <1>4, <1>5, <1>6 DEF Next, Receiver, Decoder

------------------------------------------------------------------------------
(* The service has the packets and the dumps of the pipeline.              *)
LEMMA ServiceNames == Service!Packets = Packets /\ Service!Dumps = Dumps
  BY DEF Service!Packets, Service!Dumps, Packets, Dumps

(* A packet from the kernel arrives in the receiver's dump (assign).       *)
LEMMA ReceivingArrives ==
  ASSUME Order, Bounded, RecvOneFromKernel
  PROVE  Service!Next
<1> PICK hasDone \in BOOLEAN : Assign(hasDone)
  BY DEF RecvOneFromKernel
<1> PICK t \in Dumps : t = tracker.dump
  BY MaxPacketsAssumption DEF Order, Types, Assigned, Dumps
<1> PICK n \in Packets : n = received + 1
  BY MaxPacketsAssumption DEF RecvOneFromKernel, Order, Types, Packets
<1>1. dumpOf[n] = 0 /\ total[t] = 0
  BY DEF Order, Types, Assigned, Bounded, Packets
<1>2. dumpOf' = [dumpOf EXCEPT ![n] = t]
  BY DEF Assign
<1>3. {d \in Dumps : total'[d] > 0} \in
        {{d \in Dumps : total[d] > 0}, {d \in Dumps : total[d] > 0} \cup {t}}
  <2>1. CASE hasDone
    <3>1. total' = [total EXCEPT ![t] = tracker.packets + 1] /\ tracker.packets \in Nat
      BY <2>1 DEF Assign, Order, Types
    <3>2. \A d \in Dumps : total'[d] = IF d = t THEN tracker.packets + 1 ELSE total[d]
      BY <3>1 DEF Order, Types
    <3>3. {d \in Dumps : total'[d] > 0} = {d \in Dumps : total[d] > 0} \cup {t}
      BY <3>1, <3>2
    <3> QED BY <3>3
  <2>2. CASE ~hasDone
    BY <2>2 DEF Assign
  <2> QED BY <2>1, <2>2
<1>4. UNCHANGED <<deserialized, signals>>
  BY DEF RecvOneFromKernel, histVars
<1>5. Service!Arrive(n, t)
  <2>1. t \notin {d \in Dumps : total[d] > 0}
    BY <1>1
  <2>2. UNCHANGED {d \in Dumps : signals[d] > 0}
    BY <1>4
  <2> QED BY ServiceNames, <1>1, <1>2, <1>3, <1>4, <2>1, <2>2 DEF Service!Arrive
<1> QED BY <1>5, ServiceNames DEF Service!Next

(* A packet that is deserialized is processed, once (netlinkDecoder).      *)
LEMMA DeserializingProcesses ==
  ASSUME Order, NEW i \in Decoders, DecoderDeserialize(i)
  PROVE  Service!Next
<1>1. dpc[i] = "decode"
  BY Zenon DEF DecoderDeserialize
<1> PICK n \in Packets : n = pkt[i] /\ dumpOf[n] \in Dumps
  BY <1>1, ActiveDump DEF DumpOfDecoder
<1>2. n \notin deserialized
  BY <1>1 DEF Order, Located
<1>3. dumpOf[n] # 0
  BY MaxPacketsAssumption DEF Dumps
<1>4. deserialized' = deserialized \cup {n} /\ UNCHANGED <<dumpOf, total, signals>>
  BY Zenon DEF DecoderDeserialize, rcvVars, dumpVars
<1>5. Service!Process(n)
  BY <1>2, <1>3, <1>4, Zenon DEF Service!Process
<1> QED BY <1>5, ServiceNames, Zenon DEF Service!Next

(* The done signal is the report of a dump all of whose packets are        *)
(* processed, and its only one (signalNetlinkerDone).                      *)
LEMMA SignallingReports ==
  ASSUME Order, Bounded, Adding, Sending, NEW i \in Decoders, SignalNetlinkerDone(i)
  PROVE  Service!Next
<1>0. /\ dpc[i] = "signal"
      /\ signals' = [signals EXCEPT ![DumpOfDecoder(i)] = signals[DumpOfDecoder(i)] + 1]
      /\ UNCHANGED <<dumpOf, total, deserialized>>
  BY Zenon DEF SignalNetlinkerDone, DumpOfDecoder, rcvVars, dumpVars
<1> PICK e \in Dumps : e = DumpOfDecoder(i)
  BY <1>0, ActiveDump
<1>1. signaled[e] /\ signals[e] = 0
  BY <1>0 DEF Sending
<1>2. total[e] # 0 /\ decoded[e] = total[e]
  BY <1>1, Zenon DEF Adding
<1>3. PacketsOf(e) \subseteq deserialized /\ total[e] > 0
  <2>1. PacketsOf(e) \subseteq counted
    BY <1>2, Zenon DEF Bounded
  <2>2. counted \subseteq deserialized /\ total[e] \in Nat
    BY DEF Order, Types, Located
  <2> QED BY <2>1, <2>2, <1>2
<1>4. {d \in Dumps : signals'[d] > 0} = {d \in Dumps : signals[d] > 0} \cup {e}
  BY <1>0, <1>1 DEF Order, Types
<1>5. UNCHANGED {d \in Dumps : total[d] > 0}
  BY <1>0
<1>6. Service!PacketsOf(e) = PacketsOf(e)
  BY ServiceNames, Zenon DEF Service!PacketsOf, PacketsOf
<1>7. e \in {d \in Dumps : total[d] > 0} \ {d \in Dumps : signals[d] > 0}
  BY <1>1, <1>3
<1>8. Service!Report(e)
  BY ServiceNames, <1>0, <1>3, <1>4, <1>5, <1>6, <1>7, Zenon DEF Service!Report
<1> QED BY <1>8, ServiceNames, Zenon DEF Service!Next

(* Every step is a step of the dump service or changes nothing the service *)
(* shows.                                                                  *)
LEMMA ServiceStep ==
  ASSUME Order, Bounded, Adding, Sending, [Next]_vars
  PROVE  [Service!Next]_Service!vars
<1>1. ASSUME UNCHANGED <<dumpOf, total, deserialized, signals>>
      PROVE UNCHANGED Service!vars
  BY <1>1, Zenon DEF Service!vars
<1>2. CASE ReceiverCheckDone \/ RecvTimedOut \/ ReceiverSend \/ PollerReceivesDone
           \/ PollerReturns \/ Cancel \/ UNCHANGED vars
  <2>1. UNCHANGED <<dumpOf, total, deserialized, signals>>
    BY <1>2, Zenon DEF ReceiverCheckDone, RecvTimedOut, ReceiverSend, PollerReceivesDone,
       PollerReturns, Cancel, vars, rcvVars, dumpVars, histVars
  <2> QED BY <1>1, <2>1, Zenon
<1>3. ASSUME NEW i \in Decoders,
             \/ DecoderReceive(i) \/ DecoderStop(i) \/ PacketDecodedAdd(i)
             \/ PacketDecodedLoad(i) \/ PacketDecodedCAS(i)
      PROVE UNCHANGED Service!vars
  <2>1. UNCHANGED <<dumpOf, total, deserialized, signals>>
    BY <1>3, Zenon DEF DecoderReceive, DecoderStop, PacketDecodedAdd, PacketDecodedLoad,
       PacketDecodedCAS, rcvVars, dumpVars, histVars
  <2> QED BY <1>1, <2>1, Zenon
<1> QED
  BY <1>2, <1>3, ReceivingArrives, DeserializingProcesses, SignallingReports, Zenon
     DEF Next, Receiver, Decoder
==============================================================================
