----------------------------- MODULE RowDelivery -----------------------------
(***************************************************************************)
(* What a stage that buffers rows promises for the rows it takes (the      *)
(* destination behind pkg/xtcp/destinations_core.go, Destination, and the  *)
(* envelope of pkg/xtcp/poller.go in front of it): it takes each row at    *)
(* most once, and a row it took is settled at most once, either delivered  *)
(* to the next stage or given up.  A delivered row stays delivered.        *)
(***************************************************************************)
CONSTANT Rows

VARIABLES
  accepted,   \* rows the stage took: a destination's Send reported success
  delivered,  \* rows the next stage has: the store acknowledged them
  givenUp     \* rows the stage has dropped

vars == <<accepted, delivered, givenUp>>

Init ==
  /\ accepted = {}
  /\ delivered = {}
  /\ givenUp = {}

Unsettled == accepted \ (delivered \cup givenUp)

(* Send returned (1, nil).                                                 *)
Accept(R) ==
  /\ R \subseteq Rows \ accepted
  /\ accepted' = accepted \cup R
  /\ UNCHANGED <<delivered, givenUp>>

Deliver(R) ==
  /\ R \subseteq Unsettled
  /\ delivered' = delivered \cup R
  /\ UNCHANGED <<accepted, givenUp>>

GiveUp(R) ==
  /\ R \subseteq Unsettled
  /\ givenUp' = givenUp \cup R
  /\ UNCHANGED <<accepted, delivered>>

Next == \E R \in SUBSET Rows : Accept(R) \/ Deliver(R) \/ GiveUp(R)

Spec == Init /\ [][Next]_vars
==============================================================================
