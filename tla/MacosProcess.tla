---------------------------- MODULE MacosProcess ----------------------------
(***************************************************************************)
(* What crates/platform-macos/src/managed.rs can observe of a managed      *)
(* process and do to it.  A managed process is the root child of a         *)
(* dedicated process group.  The evidence a control holds is either an     *)
(* owned child (with the right to wait for it) or an identity recovered    *)
(* after a restart, which has no wait right.                               *)
(***************************************************************************)

(* Where the root and its group are.  STRAYED: the root lives but has left *)
(* its group.  HEADLESS: the root is gone and descendants keep the group.  *)
(* REUSED: the pid and group id now belong to somebody else.               *)
World == {"GROUP", "HEADLESS", "STRAYED", "GONE", "REUSED"}

(* owned: the control owns the child.  confirmed: it has seen the exit, *)
(* and an owned root was reaped by seeing it.                           *)
Evidence == [owned : BOOLEAN, confirmed : BOOLEAN]

(* An owned child that was not reaped keeps its pid and group id reserved. *)
HoldsPid(evidence) == evidence.owned /\ ~evidence.confirmed

(* A stop signal: DELIVERED and UNAVAILABLE are recorded as the attempt's *)
(* disposition, the other two refuse to signal at all.  Every attempt     *)
(* revalidates boot, pid, start time and group first; a failing query is  *)
(* ORPHANED.  An owned child whose root is missing may be waited for, so  *)
(* the attempt only becomes UNAVAILABLE; a recovered one has lost its     *)
(* evidence.                                                              *)
SignalResults(evidence, world) ==
  CASE ~evidence.owned /\ evidence.confirmed -> {"UNAVAILABLE"}
    [] world = "GROUP"                       -> {"DELIVERED", "UNAVAILABLE", "ORPHANED"}
    [] world \in {"HEADLESS", "GONE"}        -> IF evidence.owned
                                                THEN {"UNAVAILABLE", "ORPHANED"}
                                                ELSE {"ORPHANED"}
    [] world = "STRAYED"                     -> {"ORPHANED"}
    [] world = "REUSED"                      -> {"IDENTITY_MISMATCH", "ORPHANED"}

FaultyPollResults(evidence, world) ==   \* waits for the root alone
  CASE evidence.confirmed               -> {"EXITED"}
    [] world \in {"GROUP", "STRAYED"}   -> {"RUNNING", "ERROR"}
    [] world \in {"HEADLESS", "GONE"}   -> {"EXITED", "ERROR"}
    [] world = "REUSED"                 -> {"RUNNING", "EXITED", "ERROR"}

(* One observation of exit.  The group must be gone before the root is  *)
(* waited for.  A recovered control only asks whether the group exists. *)
PollResults(evidence, world) ==
  CASE evidence.confirmed              -> {"EXITED"}
    [] world \in {"GROUP", "HEADLESS"} -> {"RUNNING", "ERROR"}
    [] world = "STRAYED"               -> IF evidence.owned
                                          THEN {"RUNNING", "BOUNDARY_LOST", "ERROR"}
                                          ELSE {"RUNNING", "EXITED", "ERROR"}
    [] world = "GONE"                  -> {"EXITED", "ERROR"}
    [] world = "REUSED"                -> {"RUNNING", "EXITED", "ERROR"}

(* probe_recovered_process_group on a persisted identity. *)
ProbeResults(world) ==
  CASE world = "GROUP"    -> {"RECOVERED", "ORPHANED"}
    [] world = "HEADLESS" -> {"ORPHANED"}
    [] world = "STRAYED"  -> {"ORPHANED"}
    [] world = "GONE"     -> {"EXITED_WHILE_OFFLINE", "ORPHANED"}
    [] world = "REUSED"   -> {"IDENTITY_MISMATCH", "ORPHANED"}

(* What the operating system does on its own: programs exit, leave their *)
(* group, and free pids are handed out again.                            *)
WorldStep(from, pidHeld, mayStray) ==
  CASE from = "GROUP"    -> {"HEADLESS", "GONE"}
                            \cup (IF mayStray THEN {"STRAYED"} ELSE {})
    [] from = "HEADLESS" -> {"GONE"}
    [] from = "STRAYED"  -> {"GONE"}
    [] from = "GONE"     -> IF pidHeld THEN {} ELSE {"REUSED"}
    [] from = "REUSED"   -> {"GONE"}
=============================================================================
