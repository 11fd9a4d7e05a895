---------------------------- MODULE ManagedExit ----------------------------
(***************************************************************************)
(* Stopping every managed run before the desktop quits, as the Supervisor  *)
(* does it: get_exit_impact and stop_all_for_exit of                       *)
(* crates/supervisor/src/managed_runs.rs over the ledger of                *)
(* crates/storage/src/exit_contract.rs.                                    *)
(*                                                                         *)
(* The lock of the service is taken and released for every step of a call, *)
(* so runs move between any two of them.  A run is what the exit           *)
(* assessment shows of it; ExitImpact derives that from the ledger and the *)
(* controls.                                                               *)
(***************************************************************************)
EXTENDS Naturals, FiniteSets

CONSTANTS
  None,
  Runs,
  Operations,    \* ids of stop-all operations
  Bounds         \* bounds; a behaviour keeps to one of them

ASSUME ExitNoneIsNothing  == None \notin Runs \cup Operations

(* moves: launches, natural exits and stops by others.  restarts: of the  *)
(* Supervisor.  The others bound the desktop: exit requests, their events *)
(* on the way, decisions of the user, calls it gives up.                  *)
ASSUME BoundsAreNatural ==
  Bounds \subseteq [moves : Nat, restarts : Nat, requests : Nat, events : Nat,
                    decisions : Nat, timeouts : Nat]

VARIABLES
  impact,       \* what an assessment shows of every run
  incarnation,  \* of the service: restarts so far
  exitOps,      \* durable ledger: the membership of every stop-all
  calls,        \* calls on their way, at work and answered
  asked,        \* history: <<operation, run>> stops begun by a stop-all
  moves,        \* bound on SpontaneousMove
  bounds        \* the element of Bounds that is kept

supervisorVars == <<impact, incarnation, exitOps, calls, asked, moves>>

(* New: not started.  Ended: not active any more. *)
Kinds == {"New", "Launching", "Running", "GracefulStopping", "GracefulTimedOut",
          "ForceStopping", "Retained", "Ended"}
StoppingKinds == {"GracefulStopping", "GracefulTimedOut", "ForceStopping"}

(* "Client": the id of a stop that somebody else asked for.  The child id *)
(* of a stop-all is fixed by the operation and the run.                   *)
StopIds == Operations \cup {"Client", None}
Impact  == [kind : Kinds, stop : StopIds]
Shows(kind, stop) == [kind |-> kind, stop |-> stop]

Active(i)  == {r \in Runs : i[r].kind \notin {"New", "Ended"}}
(* managed_exit_assessment_id: a digest of the incarnation and the impacts *)
Assessment == [incarnation |-> incarnation, runs |-> [r \in Active(impact) |-> impact[r]]]

Unprepared == [expected |-> None, members |-> <<>>]

(* Calls of the desktop.  epoch: who listens to the answer; 0: nobody. *)
Answer(kind, body) == [kind |-> kind, body |-> body]
NoAnswer == Answer("None", None)
Call(for, epoch, op, expected) ==
  [for |-> for, epoch |-> epoch, op |-> op, expected |-> expected, step |-> "Sent",
   needs |-> {}, run |-> None, answer |-> NoAnswer]

Replace(c, d)  == calls' = (calls \ {c}) \cup {d}
Reply(c, kind, body) ==
  Replace(c, [c EXCEPT !.step = "Answered", !.needs = {}, !.run = None,
                       !.answer = Answer(kind, body)])
----------------------------------------------------------------------------
(* get_exit_impact *)
ReadImpact(c) ==
  /\ c.for # "StopAll" /\ c.step = "Sent"
  /\ Reply(c, "Impact", Assessment)
  /\ UNCHANGED <<impact, incarnation, exitOps, asked, moves>>

FaultyMember(o, i) ==   \* a launching run is left alone
  CASE i.kind = "Running"       -> [action |-> "GracefulRequested", stop |-> o]
    [] i.kind \in StoppingKinds -> [action |-> "StopAdopted", stop |-> i.stop]
    [] OTHER                    -> [action |-> "None", stop |-> None]

(* managed_exit_operation_member *)
Member(o, i) ==
  CASE i.kind \in {"Launching", "Running"} -> [action |-> "GracefulRequested", stop |-> o]
    [] i.kind \in StoppingKinds -> [action |-> "StopAdopted", stop |-> i.stop]
    [] i.kind = "Retained"      -> [action |-> "None", stop |-> None]

FaultyPrepare(c) ==   \* the membership is what runs now
  /\ c.for = "StopAll" /\ c.step = "Sent"
  /\ exitOps' = [exitOps EXCEPT ![c.op] =
       [expected |-> c.expected, members |-> [r \in Active(impact) |-> Member(c.op, impact[r])]]]
  /\ Replace(c, [c EXCEPT !.step = "Before"])
  /\ UNCHANGED <<impact, incarnation, asked, moves>>

(* load_or_prepare_managed_exit_operation: replay, refuse, or fix the *)
(* membership; the row may be stored and the answer lost.             *)
Prepare(c) ==
  /\ c.for = "StopAll" /\ c.step = "Sent"
  /\ LET row == [expected |-> c.expected,
                 members |-> [r \in Active(impact) |-> Member(c.op, impact[r])]]
     IN \/ /\ exitOps[c.op] # Unprepared
           /\ IF exitOps[c.op].expected = c.expected
              THEN Replace(c, [c EXCEPT !.step = "Before"])
              ELSE Reply(c, "Error", None)
           /\ exitOps' = exitOps
        \/ /\ exitOps[c.op] = Unprepared /\ Assessment # c.expected
           /\ Reply(c, "Stale", Assessment)
           /\ exitOps' = exitOps
        \/ /\ exitOps[c.op] = Unprepared /\ Assessment = c.expected
           /\ exitOps' = [exitOps EXCEPT ![c.op] = row]
           /\ \/ Replace(c, [c EXCEPT !.step = "Before"])
              \/ Reply(c, "Error", None)
  /\ UNCHANGED <<impact, incarnation, asked, moves>>

(* exit_impact_needs_child_stop *)
NeedsChildStop(r, o) ==
  \/ impact[r].kind = "Running"
  \/ impact[r] \in {Shows("GracefulStopping", o), Shows("GracefulTimedOut", o)}

Requested(o) ==
  {r \in DOMAIN exitOps[o].members : exitOps[o].members[r].action = "GracefulRequested"}

ReadBefore(c) ==
  /\ c.step = "Before"
  /\ Replace(c, [c EXCEPT !.step = "Stop",
                          !.needs = {r \in Requested(c.op) : NeedsChildStop(r, c.op)}])
  /\ UNCHANGED <<impact, incarnation, exitOps, asked, moves>>

(* request_stop for one member.  A run that is over, or whose stop is this *)
(* one, needs nothing; any other stop in its way is a conflict.            *)
StopMember(c, r) ==
  /\ c.step = "Stop" /\ r \in c.needs
  /\ LET done == [c EXCEPT !.needs = @ \ {r}]
     IN \/ /\ impact[r].kind = "Running"
           /\ impact' = [impact EXCEPT ![r] = Shows("GracefulStopping", c.op)]
           /\ asked' = asked \cup {<<c.op, r>>}
           /\ Replace(c, done)
        \/ /\ impact[r].kind = "Ended" \/ impact[r].stop = c.op
           /\ Replace(c, done)
           /\ UNCHANGED <<impact, asked>>
        \/ /\ impact[r].kind \in StoppingKinds \cup {"Launching", "Retained"}
           /\ impact[r].stop # c.op
           /\ Replace(c, [c EXCEPT !.step = "Conflict", !.run = r])
           /\ UNCHANGED <<impact, asked>>
        \/ /\ Reply(c, "Error", None)     \* the storage failed
           /\ UNCHANGED <<impact, asked>>
  /\ UNCHANGED <<incarnation, exitOps, moves>>

(* After a conflict the run is looked at again. *)
ReadAfterConflict(c) ==
  /\ c.step = "Conflict"
  /\ IF NeedsChildStop(c.run, c.op)
     THEN Reply(c, "Error", None)
     ELSE Replace(c, [c EXCEPT !.step = "Stop", !.needs = @ \ {c.run}, !.run = None])
  /\ UNCHANGED <<impact, incarnation, exitOps, asked, moves>>

(* project_stop_all_for_exit_result: no run may be active that is not a *)
(* member.                                                              *)
Project(c) ==
  /\ c.step = "Stop" /\ c.needs = {}
  /\ IF Active(impact) \subseteq DOMAIN exitOps[c.op].members
     THEN Reply(c, "Result", DOMAIN exitOps[c.op].members)
     ELSE Reply(c, "Error", None)
  /\ UNCHANGED <<impact, incarnation, exitOps, asked, moves>>

CallStep(c) ==
  \/ ReadImpact(c) \/ Prepare(c) \/ ReadBefore(c) \/ ReadAfterConflict(c) \/ Project(c)
  \/ \E r \in Runs : StopMember(c, r)
----------------------------------------------------------------------------
(* What the rest of the service does to the runs. *)

MoveRun(r, to) ==
  /\ impact' = [impact EXCEPT ![r] = to]
  /\ UNCHANGED <<incarnation, exitOps, calls, asked>>

Launch(r) ==
  impact[r].kind = "New" /\ MoveRun(r, Shows("Launching", None))

LaunchEnds(r) ==
  /\ impact[r].kind = "Launching"
  /\ \E kind \in {"Running", "Retained", "Ended"} : MoveRun(r, Shows(kind, None))

RunEnds(r) ==
  /\ impact[r].kind \in {"Running", "Retained"}
  /\ MoveRun(r, Shows("Ended", None))

ClientStops(r) ==
  \/ /\ impact[r].kind = "Running"
     /\ \E kind \in {"GracefulStopping", "ForceStopping"} : MoveRun(r, Shows(kind, "Client"))
  \/ /\ impact[r].kind \in {"GracefulStopping", "GracefulTimedOut"}
     /\ MoveRun(r, Shows("ForceStopping", "Client"))

(* A graceful stop ends, is given up or times out; a force stop ends or is *)
(* given up; a run that is given up is retained in quarantine.             *)
StopProgresses(r) ==
  \/ /\ impact[r].kind = "GracefulStopping"
     /\ \/ MoveRun(r, Shows("GracefulTimedOut", impact[r].stop))
        \/ \E kind \in {"Retained", "Ended"} : MoveRun(r, Shows(kind, None))
  \/ /\ impact[r].kind = "ForceStopping"
     /\ \E kind \in {"Retained", "Ended"} : MoveRun(r, Shows(kind, None))

(* The control of a stop runs behind the ledger while the answer to a    *)
(* write is lost: the run is retained as a mismatch until it catches up. *)
ControlMismatch(r) ==
  \/ /\ impact[r].kind = "GracefulStopping"
     /\ MoveRun(r, Shows("Retained", impact[r].stop))
  \/ /\ impact[r].kind = "Retained" /\ impact[r].stop # None
     /\ MoveRun(r, Shows("GracefulStopping", impact[r].stop))

TimedOutStopEnds(r) ==
  /\ impact[r].kind = "GracefulTimedOut"
  /\ \E kind \in {"Retained", "Ended"} : MoveRun(r, Shows(kind, None))

(* Startup keeps a run it can prove and drops the others; a cleanup that *)
(* was pending for a run marked RUNNING leaves a recovered run.          *)
AfterRestart(i) ==
  CASE i.kind \in {"New", "Ended"} -> {i}
    [] i.kind = "Launching"        -> {Shows("Ended", None)}
    [] i.kind = "Retained"         -> IF i.stop = None
                                      THEN {Shows("Ended", None), Shows("Running", None)}
                                      ELSE {Shows("Ended", None), Shows("GracefulStopping", i.stop)}
    [] OTHER                       -> {Shows("Ended", None), i}

(* A new service; calls that were not answered fail. *)
Restart ==
  /\ incarnation < bounds.restarts
  /\ incarnation' = incarnation + 1
  /\ impact' \in [Runs -> UNION {AfterRestart(impact[r]) : r \in Runs}]
  /\ \A r \in Runs : impact'[r] \in AfterRestart(impact[r])
  /\ calls' = {IF c.step = "Answered" THEN c
               ELSE [c EXCEPT !.step = "Answered", !.needs = {}, !.run = None,
                              !.answer = Answer("Error", None)] : c \in calls}
  /\ UNCHANGED <<exitOps, asked, moves>>

SpontaneousMove ==
  /\ moves < bounds.moves /\ moves' = moves + 1
  /\ \E r \in Runs : Launch(r) \/ RunEnds(r) \/ ClientStops(r) \/ ControlMismatch(r)

RunMoves ==
  \/ SpontaneousMove
  \/ /\ \E r \in Runs : LaunchEnds(r) \/ StopProgresses(r) \/ TimedOutStopEnds(r)
     /\ moves' = moves
=============================================================================
