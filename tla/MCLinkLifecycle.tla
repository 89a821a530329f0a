--------------------------- MODULE MCLinkLifecycle ---------------------------
(***************************************************************************)
(* LinkLifecycle with two callers.  Two inputs give two requests, with one *)
(* pending behind the other, or one request and one event, loss, failure,  *)
(* stop or crash at any step, or two of these.  A count that is not ready  *)
(* after the first dump is looked for by a periodic one.                   *)
(***************************************************************************)
EXTENDS LinkLifecycle
==============================================================================
