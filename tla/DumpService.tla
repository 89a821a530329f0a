----------------------------- MODULE DumpService -----------------------------
(***************************************************************************)
(* What one netlink socket promises the poller: the packets of a dump are  *)
(* processed in any order and by anyone, and the end of a dump is reported *)
(* at most once, never before every one of its packets is processed.       *)
(* Netlinker.tla (one receiver, several decoders, atomic counters) is      *)
(* shown to implement it, and PollCycle.tla is built on it.                *)
(***************************************************************************)
EXTENDS Naturals

CONSTANT MaxPackets   \* bound on the packets received on the socket

Packets == 1 .. MaxPackets
Dumps   == 1 .. MaxPackets + 1

VARIABLES
  dumpOf,     \* dumpOf[p]: the dump packet p belongs to, 0 before it arrives
  ended,      \* dumps whose NLMSG_DONE packet has arrived
  processed,  \* packets whose messages have been deserialized
  reported    \* dumps whose end has been reported

vars == <<dumpOf, ended, processed, reported>>

PacketsOf(d) == {p \in Packets : dumpOf[p] = d}

Init ==
  /\ dumpOf = [p \in Packets |-> 0]
  /\ ended = {}
  /\ processed = {}
  /\ reported = {}

(* Packet p arrives and joins a dump that has not ended; it may end it.    *)
Arrive(p, d) ==
  /\ dumpOf[p] = 0
  /\ d \in Dumps \ ended
  /\ dumpOf' = [dumpOf EXCEPT ![p] = d]
  /\ ended' \in {ended, ended \cup {d}}
  /\ UNCHANGED <<processed, reported>>

Process(p) ==
  /\ dumpOf[p] # 0
  /\ p \notin processed
  /\ processed' = processed \cup {p}
  /\ UNCHANGED <<dumpOf, ended, reported>>

Report(d) ==
  /\ d \in ended \ reported
  /\ PacketsOf(d) \subseteq processed
  /\ reported' = reported \cup {d}
  /\ UNCHANGED <<dumpOf, ended, processed>>

Next ==
  \/ \E p \in Packets, d \in Dumps : Arrive(p, d)
  \/ \E p \in Packets : Process(p)
  \/ \E d \in Dumps : Report(d)

Spec == Init /\ [][Next]_vars
==============================================================================
