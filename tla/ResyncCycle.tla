----------------------------- MODULE ResyncCycle -----------------------------
(***************************************************************************)
(* What the link monitor's reconciler promises to the lifecycle that asks  *)
(* it for resynchronisations (pkg/linkmonitor/reconcile_diagnostics.go,    *)
(* requestReason): at most one is wanted or under way.  A request joins    *)
(* it; one that is given up is wanted again; one that commits leaves       *)
(* nothing behind.                                                         *)
(***************************************************************************)
VARIABLES
  pending,   \* a resynchronisation is wanted
  active     \* a dump was sent and has not been committed or given up

vars == <<pending, active>>

Init == pending = TRUE /\ active = FALSE

Request ==
  /\ ~pending /\ ~active
  /\ pending' = TRUE
  /\ UNCHANGED active

Start ==
  /\ pending /\ ~active
  /\ pending' = FALSE
  /\ active' = TRUE

Finish ==
  /\ active /\ ~pending
  /\ active' = FALSE
  /\ pending' = FALSE

GiveUp ==
  /\ active /\ ~pending
  /\ active' = FALSE
  /\ pending' = TRUE

Next == Request \/ Start \/ Finish \/ GiveUp
Spec == Init /\ [][Next]_vars
==============================================================================
