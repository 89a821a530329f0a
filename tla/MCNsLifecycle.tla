---------------------------- MODULE MCNsLifecycle ----------------------------
(* Model values for the inodes; there is one Self, so nothing is symmetric *)
(* unless two other inodes are configured.                                 *)
EXTENDS NsLifecycle, TLC

CONSTANTS self, a
TrackedInodes == {self, a}
==============================================================================
