--------------------------- MODULE MCManagedStop ---------------------------
(***************************************************************************)
(* Instances of ManagedStop for TLC.  Runs share nothing but the set of    *)
(* operation ids and the crash, so one or two runs show every interaction; *)
(* three operations let a graceful stop be superseded and the force stop   *)
(* be followed by another request.                                         *)
(***************************************************************************)
EXTENDS StopRefinement, TLC

Symmetry == Permutations(Operations)
=============================================================================
