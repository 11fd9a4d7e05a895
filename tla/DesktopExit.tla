---------------------------- MODULE DesktopExit ----------------------------
(***************************************************************************)
(* Quitting the desktop: the exit request of                               *)
(* apps/desktop/src-tauri/src/app_lifecycle.rs, the dialog of              *)
(* apps/desktop/src/app/DesktopLifecycleController.tsx, and its calls to   *)
(* the Supervisor of ManagedExit.                                          *)
(*                                                                         *)
(* The dialog works in epochs: every decision of the user begins a new     *)
(* one, and an answer that belongs to an older one must change nothing.    *)
(***************************************************************************)
EXTENDS ManagedExit, Sequences

CONSTANTS
  Nonces,        \* nonces of exit requests
  StartedRuns    \* runs that are running at the start

ASSUME NoncesAreFresh     == None \notin Nonces
ASSUME StartedRunsAreRuns == StartedRuns \subseteq Runs

VARIABLES
  pendingExit,  \* Rust: the exit request that waits for a decision
  exitNonce,    \* Rust: the request that was authorized; the app quits
  events,       \* exit-requested events on their way to the webview, in order
  invokes,      \* complete and cancel commands on their way to Rust
  flow,         \* webview: the dialog
  epoch,        \* webview: epochRef
  confirmed,    \* history: the runs shown when Stop all was pressed
  requested,    \* history: nonces that were handed out
  kept,         \* history: requests for which the user chose to quit anyway
  quiet,        \* history: requests during which no run was active
  timeouts      \* bound on CallTimesOut

desktopVars == <<pendingExit, exitNonce, events, invokes, flow, epoch, confirmed,
                 requested, kept, timeouts>>
vars == <<supervisorVars, desktopVars, quiet, bounds>>

Phases == {"None", "checking", "decision", "stopping", "waiting", "blocked", "error",
           "completing"}
(* waiting: "stopping" with the progress timer running *)
NoFlow == [phase |-> "None", nonce |-> None, shown |-> None, op |-> None, expected |-> None,
           initial |-> {}, errorPhase |-> "None"]
Checking(nonce) == [NoFlow EXCEPT !.phase = "checking", !.nonce = nonce]

Init ==
  /\ bounds \in Bounds
  /\ impact = [r \in Runs |-> Shows(IF r \in StartedRuns THEN "Running" ELSE "New", None)]
  /\ incarnation = 0
  /\ exitOps = [o \in Operations |-> Unprepared]
  /\ calls = {} /\ asked = {} /\ moves = 0
  /\ pendingExit = None /\ exitNonce = None
  /\ events = <<>> /\ invokes = {}
  /\ flow = NoFlow /\ epoch = 0
  /\ confirmed = [o \in Operations |-> {}]
  /\ requested = {} /\ kept = {} /\ quiet = {}
  /\ timeouts = 0

ShownRuns(assessment) == DOMAIN assessment.runs
Send(c) == calls' = calls \cup {c}
----------------------------------------------------------------------------
(* Rust: the tray menu or the system asks to quit; a request that is *)
(* pending is announced again.                                       *)
RequestExit ==
  /\ exitNonce = None /\ Len(events) < bounds.events
  /\ pendingExit = None =>
       Cardinality(requested) < bounds.requests /\ Nonces \ requested # {}
  /\ LET n == IF pendingExit = None THEN CHOOSE fresh \in Nonces \ requested : TRUE
              ELSE pendingExit
     IN  /\ pendingExit' = n
         /\ requested' = requested \cup {n}
         /\ events' = Append(events, n)
  /\ UNCHANGED <<supervisorVars, exitNonce, invokes, flow, epoch, confirmed, kept, timeouts>>

AuthorizeExit(i) ==
  /\ i \in invokes /\ i.kind = "Complete" /\ exitNonce = None
  /\ invokes' = invokes \ {i}
  /\ IF pendingExit = i.nonce
     THEN exitNonce' = i.nonce /\ pendingExit' = None /\ calls' = calls
     ELSE /\ Send([Call("Complete", i.epoch, None, None) EXCEPT
                     !.step = "Answered", !.answer = Answer("Refused", None)])
          /\ UNCHANGED <<exitNonce, pendingExit>>
  /\ UNCHANGED <<impact, incarnation, exitOps, asked, moves, events, flow, epoch, confirmed,
                 requested, kept, timeouts>>

CancelExit(i) ==
  /\ i \in invokes /\ i.kind = "Cancel" /\ exitNonce = None
  /\ invokes' = invokes \ {i}
  /\ pendingExit' = IF pendingExit = i.nonce THEN None ELSE pendingExit
  /\ UNCHANGED <<supervisorVars, exitNonce, events, flow, epoch, confirmed, requested,
                 kept, timeouts>>
----------------------------------------------------------------------------
(* The webview.  It is gone once the exit is authorized. *)

NewEpoch == epoch' = epoch + 1
UserDecides == epoch < bounds.decisions /\ NewEpoch

AcceptExitRequest(n) ==
  /\ exitNonce = None
  /\ events # <<>> /\ n = Head(events) /\ events' = Tail(events)
  /\ IF flow.nonce = n THEN UNCHANGED <<flow, epoch, calls>>
     ELSE /\ UserDecides
          /\ flow' = Checking(n)
          /\ Send(Call("Assess", epoch', None, None))
  /\ UNCHANGED <<impact, incarnation, exitOps, asked, moves, pendingExit, exitNonce, invokes,
                 confirmed, requested, kept, timeouts>>

(* finishExit *)
Finish(next) ==
  /\ NewEpoch
  /\ flow' = [next EXCEPT !.phase = "completing", !.errorPhase = "None"]
  /\ invokes' = invokes \cup {[kind |-> "Complete", nonce |-> next.nonce, epoch |-> epoch']}

Show(next) == flow' = next /\ UNCHANGED <<epoch, invokes>>

KeepRunning ==
  /\ exitNonce = None
  /\ flow.phase \in {"decision", "stopping", "waiting", "blocked", "error"}
  /\ epoch < bounds.decisions
  /\ Finish(flow)
  /\ kept' = kept \cup {flow.nonce}
  /\ UNCHANGED <<supervisorVars, pendingExit, exitNonce, events, confirmed, requested, timeouts>>

CancelFlow ==
  /\ exitNonce = None
  /\ flow.phase \notin {"None", "completing"}
  /\ UserDecides
  /\ flow' = NoFlow
  /\ invokes' = invokes \cup {[kind |-> "Cancel", nonce |-> flow.nonce, epoch |-> epoch']}
  /\ UNCHANGED <<supervisorVars, pendingExit, exitNonce, events, confirmed, requested,
                 kept, timeouts>>

(* requestStopAll: exactly the impact on the screen is confirmed. *)
StopAll(o) ==
  /\ exitNonce = None
  /\ flow.phase = "decision"
  /\ o \in Operations /\ confirmed[o] = {}
  /\ UserDecides
  /\ flow' = [flow EXCEPT !.phase = "stopping", !.op = o, !.errorPhase = "None",
                          !.expected = flow.shown, !.initial = ShownRuns(flow.shown)]
  /\ confirmed' = [confirmed EXCEPT ![o] = ShownRuns(flow.shown)]
  /\ Send(Call("StopAll", epoch', o, flow.shown))
  /\ UNCHANGED <<impact, incarnation, exitOps, asked, moves, pendingExit, exitNonce, events,
                 invokes, requested, kept, timeouts>>

(* retryExitFlow and reassessBlockedFlow *)
Retry ==
  /\ exitNonce = None
  /\ flow.phase \in {"error", "blocked"}
  /\ UserDecides
  /\ IF flow.phase = "error" /\ flow.errorPhase = "stopping" /\ flow.op # None
     THEN /\ flow' = [flow EXCEPT !.phase = "stopping", !.errorPhase = "None"]
          /\ Send(Call("StopAll", epoch', flow.op, flow.expected))
     ELSE /\ flow' = Checking(flow.nonce)
          /\ Send(Call("Assess", epoch', None, None))
  /\ UNCHANGED <<impact, incarnation, exitOps, asked, moves, pendingExit, exitNonce, events,
                 invokes, confirmed, requested, kept, timeouts>>

(* The progress timer of the dialog. *)
Poll ==
  /\ exitNonce = None
  /\ flow.phase = "waiting"
  /\ flow' = [flow EXCEPT !.phase = "stopping"]
  /\ Send(Call("StopAll", epoch, flow.op, flow.expected))
  /\ UNCHANGED <<impact, incarnation, exitOps, asked, moves, pendingExit, exitNonce, events,
                 invokes, epoch, confirmed, requested, kept, timeouts>>
----------------------------------------------------------------------------
(* Answers.  A is the assessment an impact call brought. *)

BlockReason(a, initial) ==
  \/ ~(ShownRuns(a) \subseteq initial)
  \/ \E r \in ShownRuns(a) : a.runs[r].kind \in {"GracefulTimedOut", "Retained"}

Decide(a) ==
  LET next == [flow EXCEPT !.phase = "decision", !.shown = a, !.initial = ShownRuns(a),
                           !.op = None, !.expected = None, !.errorPhase = "None"]
  IN  IF ShownRuns(a) = {} THEN Finish(next) ELSE Show(next)

FailAs(phase) == Show([flow EXCEPT !.phase = "error", !.errorPhase = phase])

OnAssessed(c) ==
  /\ c.for = "Assess"
  /\ IF c.answer.kind = "Impact" THEN Decide(c.answer.body)
     ELSE Show([Checking(flow.nonce) EXCEPT !.phase = "error", !.errorPhase = "assessment"])
  /\ calls' = calls \ {c}

(* A result must name the runs that were confirmed; then the runs are read *)
(* once more.  An error is explained by reading them too.                  *)
OnStopAll(c) ==
  /\ c.for = "StopAll"
  /\ IF c.answer.kind = "Result" /\ c.answer.body # flow.initial
     THEN /\ Show([flow EXCEPT !.phase = "blocked"])
          /\ calls' = calls \ {c}
     ELSE /\ UNCHANGED <<flow, epoch, invokes>>
          /\ Replace(c, IF c.answer.kind = "Result"
                        THEN Call("Recheck", epoch, None, None)
                        ELSE Call("Diagnose", epoch, None, c.answer))

FaultyOnRechecked(c) ==   \* quits when the runs it stopped are gone
  /\ c.for = "Recheck" /\ c.answer.kind = "Impact"
  /\ calls' = calls \ {c}
  /\ LET a == c.answer.body IN
     IF ShownRuns(a) \cap flow.initial = {} THEN Finish([flow EXCEPT !.shown = a])
     ELSE IF BlockReason(a, flow.initial)
          THEN Show([flow EXCEPT !.phase = "blocked", !.shown = a])
     ELSE Show([flow EXCEPT !.phase = "waiting", !.shown = a])

OnRechecked(c) ==
  /\ c.for = "Recheck" /\ c.answer.kind = "Impact"
  /\ calls' = calls \ {c}
  /\ LET a == c.answer.body IN
     IF ShownRuns(a) = {} THEN Finish([flow EXCEPT !.shown = a])
     ELSE IF BlockReason(a, flow.initial)
          THEN Show([flow EXCEPT !.phase = "blocked", !.shown = a])
     ELSE Show([flow EXCEPT !.phase = "waiting", !.shown = a])

(* A failing second read is handled like a failing stop-all. *)
OnRecheckFailed(c) ==
  /\ c.for = "Recheck" /\ c.answer.kind # "Impact"
  /\ Replace(c, Call("Diagnose", epoch, None, c.answer))
  /\ UNCHANGED <<flow, epoch, invokes>>

(* isStaleExitAssessmentError: the refusal names the assessment that was *)
(* read just now.                                                        *)
OnDiagnosed(c) ==
  /\ c.for = "Diagnose"
  /\ calls' = calls \ {c}
  /\ LET a == c.answer.body IN
     IF c.answer.kind # "Impact" THEN FailAs("stopping")
     ELSE IF c.expected = Answer("Stale", a) THEN Decide(a)
     ELSE IF BlockReason(a, flow.initial)
          THEN Show([flow EXCEPT !.phase = "blocked", !.shown = a])
     ELSE Show([flow EXCEPT !.phase = "error", !.errorPhase = "stopping", !.shown = a])

OnRefused(c) ==
  /\ c.for = "Complete"
  /\ calls' = calls \ {c}
  /\ FailAs("completion")

IsCurrent(c) == c.epoch = epoch /\ flow.phase # "None"

Deliver(c) ==
  /\ exitNonce = None
  /\ c.step = "Answered"
  /\ IF IsCurrent(c)
     THEN \/ OnAssessed(c) \/ OnStopAll(c) \/ OnRechecked(c) \/ OnRecheckFailed(c)
          \/ OnDiagnosed(c) \/ OnRefused(c)
     ELSE /\ calls' = calls \ {c}
          /\ UNCHANGED <<flow, epoch, invokes>>
  /\ UNCHANGED <<impact, incarnation, exitOps, asked, moves, pendingExit, exitNonce, events,
                 confirmed, requested, kept, timeouts>>

(* The desktop stops waiting; what the Supervisor was asked goes on. *)
CallTimesOut(c) ==
  /\ exitNonce = None
  /\ c.step # "Answered" /\ c.epoch # 0 /\ timeouts < bounds.timeouts
  /\ timeouts' = timeouts + 1
  /\ LET error == [c EXCEPT !.step = "Answered", !.needs = {}, !.run = None,
                            !.answer = Answer("Error", None)]
         rest  == IF c.for = "StopAll" THEN {[c EXCEPT !.epoch = 0]} ELSE {}
     IN  calls' = (calls \ {c}) \cup rest \cup {error}
  /\ UNCHANGED <<impact, incarnation, exitOps, asked, moves, pendingExit, exitNonce, events,
                 invokes, flow, epoch, confirmed, requested, kept>>
----------------------------------------------------------------------------
(* What the Supervisor does once the desktop is gone is not followed. *)
Supervisor ==
  /\ exitNonce = None
  /\ (\E c \in calls : CallStep(c)) \/ RunMoves \/ Restart
  /\ UNCHANGED desktopVars

Desktop ==
  \/ RequestExit
  \/ \E i \in invokes : AuthorizeExit(i) \/ CancelExit(i)
  \/ \E n \in Nonces : AcceptExitRequest(n)
  \/ KeepRunning \/ CancelFlow \/ Retry \/ Poll
  \/ \E o \in Operations : StopAll(o)
  \/ \E c \in calls : Deliver(c) \/ CallTimesOut(c)

Next ==
  /\ Supervisor \/ Desktop
  /\ quiet' = IF Active(impact') = {} THEN quiet \cup requested' ELSE quiet
  /\ bounds' = bounds

(* The Supervisor serves calls, the webview handles what it gets, stops *)
(* come to an end (ManagedStop), launches too.                          *)
Fairness ==
  /\ WF_vars(Next /\ \E c \in calls : CallStep(c) /\ UNCHANGED desktopVars)
  /\ WF_vars(Next /\ (Poll \/ \E c \in calls : Deliver(c)))
  /\ \A r \in Runs :
       WF_vars(Next /\ (LaunchEnds(r) \/ StopProgresses(r)) /\ UNCHANGED desktopVars)

Spec == Init /\ [][Next]_vars /\ Fairness
----------------------------------------------------------------------------
(* A stop-all asks only runs to stop that were on the screen when the user *)
(* confirmed it, whatever started, ended, timed out or restarted since     *)
(* (expectedAssessmentId, the fixed membership of the operation).          *)
OnlyShownRunsAreStopped == \A p \in asked : p[2] \in confirmed[p[1]]

(* The desktop quits only on the request its dialog is completing, and   *)
(* only if at some moment of that request no run was active or the user  *)
(* chose to leave the runs behind: an answer to an abandoned question, a *)
(* repeated event or a late command never quits it.                      *)
ExitIsJustified ==
  exitNonce # None =>
    /\ flow.phase = "completing" /\ flow.nonce = exitNonce
    /\ exitNonce \in quiet \cup kept

(* A dialog that is busy reaches a state in which the user can decide:     *)
(* polling ends.  The exception is a run the operation has no stop for and *)
(* that a restart brought back.                                            *)
ExitFlowSettles ==
  (flow.phase \in {"checking", "stopping", "waiting"}) ~>
    \/ flow.phase \notin {"checking", "stopping", "waiting"}
    \/ \E r \in Active(impact) : impact[r].kind = "Running" /\ incarnation > 0
=============================================================================
