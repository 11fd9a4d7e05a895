--------------------------- MODULE MCDesktopExit ---------------------------
(***************************************************************************)
(* r1 runs, r2 may be started while the user decides.  The bounds separate *)
(* three questions, each small: runs that move and a Supervisor that       *)
(* restarts under one request; two requests and four decisions; a call     *)
(* that is given up and repeated.                                          *)
(***************************************************************************)
EXTENDS DesktopExit

ExitBounds ==
  {[moves |-> 1, restarts |-> 1, requests |-> 1, events |-> 1, decisions |-> 2, timeouts |-> 0],
   [moves |-> 0, restarts |-> 0, requests |-> 2, events |-> 2, decisions |-> 4, timeouts |-> 0],
   [moves |-> 1, restarts |-> 0, requests |-> 1, events |-> 1, decisions |-> 2, timeouts |-> 1]}
=============================================================================
