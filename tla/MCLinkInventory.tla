--------------------------- MODULE MCLinkInventory ---------------------------
(***************************************************************************)
(* LinkInventory with two devices that change twice, a socket and an inbox *)
(* that overflow, turns of one event and one failure or ethtool            *)
(* notification.                                                           *)
(***************************************************************************)
EXTENDS LinkInventory
==============================================================================
