------------------------- MODULE DesktopExit_proofs -------------------------
(***************************************************************************)
(* A stop-all stops only what the user saw, and the desktop quits only     *)
(* when nothing ran or the user wanted it to.                              *)
(***************************************************************************)
EXTENDS DesktopExit, TLAPS

(* What EXCEPT needs to know of calls, of the dialog and of the ledger. *)
IsCall(c) ==
  c = [for |-> c.for, epoch |-> c.epoch, op |-> c.op, expected |-> c.expected,
       step |-> c.step, needs |-> c.needs, run |-> c.run, answer |-> c.answer]
IsFlow(f) ==
  f = [phase |-> f.phase, nonce |-> f.nonce, shown |-> f.shown, op |-> f.op,
       expected |-> f.expected, initial |-> f.initial, errorPhase |-> f.errorPhase]

Shapes ==
  /\ \A c \in calls : IsCall(c)
  /\ IsFlow(flow)
  /\ exitOps = [o \in Operations |-> exitOps[o]]
  /\ confirmed = [o \in Operations |-> confirmed[o]]
  /\ epoch \in Nat /\ \A c \in calls : c.epoch \in Nat
  /\ events \in Seq(requested) /\ requested \subseteq Nonces
  /\ flow.nonce \in requested \cup {None}

(* The runs of an operation are settled when the user confirms them: every *)
(* call, the dialog and the ledger keep to them.                           *)
WasConfirmed(o, assessment) ==
  /\ o \in Operations /\ confirmed[o] # {}
  /\ ShownRuns(assessment) = confirmed[o]

Confirmations ==
  /\ \A c \in calls : c.for = "StopAll" =>
       WasConfirmed(c.op, c.expected) /\ c.needs \subseteq confirmed[c.op]
  /\ \A c \in calls : c.step \in {"Before", "Stop", "Conflict"} => c.for = "StopAll"
  /\ \A o \in Operations : DOMAIN exitOps[o].members \subseteq confirmed[o]
  /\ flow.op # None => WasConfirmed(flow.op, flow.expected)
  /\ flow.phase = "decision" => ShownRuns(flow.shown) # {}
  /\ \A p \in asked : p[1] \in Operations /\ p[2] \in confirmed[p[1]]

(* The dialog waits for at most one call of its epoch. *)
OfThisEpoch(c) == c.epoch = epoch /\ epoch # 0
Epochs ==
  /\ \A c \in calls : c.epoch <= epoch
  /\ flow.phase # "None" => epoch # 0
  /\ \A c, d \in calls : OfThisEpoch(c) /\ OfThisEpoch(d) => c = d
  /\ \A c \in calls : OfThisEpoch(c) =>
       /\ flow.phase \in {"checking", "stopping", "completing"}
       /\ c.for \in {"StopAll", "Recheck", "Diagnose"} => flow.op # None
       /\ c.for = "Complete" <=> flow.phase = "completing"
  /\ flow.phase = "waiting" => flow.op # None

(* A request to quit that is on its way is justified; it is one the dialog *)
(* is completing, or one that Rust will refuse.                            *)
Completions ==
  /\ \A i \in invokes : i.kind = "Complete" =>
       /\ i.epoch \in Nat /\ i.epoch # 0 /\ i.epoch <= epoch
       /\ i.nonce \in quiet \cup kept
       /\ i.nonce = pendingExit => i.epoch = epoch
       /\ i.epoch = epoch => flow.phase = "completing" /\ i.nonce = flow.nonce
       /\ i.epoch = epoch => \A c \in calls : c.epoch # epoch
  /\ \A i, j \in invokes :
       i.kind = "Complete" /\ j.kind = "Complete" /\ i.epoch = j.epoch => i = j

(* Events arrive in order: no older one is left behind one of the pending *)
(* request, nor once the dialog is about that request.                    *)
EventsInOrder ==
  pendingExit # None =>
    /\ \A j, k \in 1..Len(events) :
         j <= k /\ events[j] = pendingExit => events[k] = pendingExit
    /\ flow.nonce = pendingExit => \A k \in 1..Len(events) : events[k] = pendingExit
Requests ==
  /\ pendingExit # None => pendingExit \in requested
  /\ \A i \in invokes : i.nonce \in requested
  /\ flow.phase # "None" => flow.nonce \in requested
  /\ EventsInOrder
  /\ \A c \in calls : OfThisEpoch(c) /\ c.for = "Complete" => flow.nonce # pendingExit

(* An answer that shows no runs was given after the request was made. *)
SawNoRuns(c) == c.answer.kind = "Impact" /\ ShownRuns(c.answer.body) = {}
QuietReads == \A c \in calls : OfThisEpoch(c) /\ SawNoRuns(c) => flow.nonce \in quiet

Waiting == Epochs /\ Completions /\ Requests /\ QuietReads
ExitInv ==
  /\ Shapes /\ Confirmations
  /\ exitNonce = None => Waiting
  /\ ExitIsJustified
------------------------------------------------------------
LEMMA CallFields ==
  ASSUME NEW for, NEW e, NEW o, NEW x
  PROVE  LET c == Call(for, e, o, x) IN
         /\ IsCall(c)
         /\ c.for = for /\ c.epoch = e /\ c.op = o /\ c.expected = x /\ c.step = "Sent"
         /\ c.needs = {} /\ c.answer.kind = "None"
BY DEF Call, IsCall, NoAnswer, Answer

LEMMA InitHolds == Init => ExitInv
<1> SUFFICES ASSUME Init PROVE ExitInv
  OBVIOUS
<1>1. Shapes
  <2>1. IsFlow(flow)
    BY DEF Init, NoFlow, IsFlow
  <2>2. exitOps = [o \in Operations |-> exitOps[o]]
    BY DEF Init
  <2>3. confirmed = [o \in Operations |-> confirmed[o]]
    BY DEF Init
  <2>4. flow.nonce = None
    BY DEF Init, NoFlow
  <2> QED
    BY <2>1, <2>2, <2>3, <2>4 DEF Init, Shapes
<1>2. Confirmations
  BY DEF Init, Unprepared, Confirmations, NoFlow
<1>3. Waiting
  BY DEF Init, Waiting, Epochs, Completions, Requests, EventsInOrder, QuietReads, NoFlow
<1> QED
  BY <1>1, <1>2, <1>3 DEF ExitInv, ExitIsJustified, Init
------------------------------------------------------------
(* Calls go on without the dialog. *)

GoesOn(c, d) ==
  /\ IsCall(d)
  /\ d.for = c.for /\ d.op = c.op /\ d.expected = c.expected
  /\ d.epoch = c.epoch \/ d.epoch = 0
  /\ c.for = "StopAll" => d.needs \subseteq confirmed[c.op]
  /\ d.step \in {"Before", "Stop", "Conflict"} => c.for = "StopAll"
  /\ SawNoRuns(d) => SawNoRuns(c) \/ Active(impact') = {}
CallsGoOn ==
  /\ \A d \in calls' : \E c \in calls : GoesOn(c, d)
  /\ \A d1, d2 \in calls' : d1.epoch = epoch /\ d2.epoch = epoch /\ epoch # 0 => d1 = d2
MembersAreConfirmed ==
  /\ exitOps' = [o \in Operations |-> exitOps'[o]]
  /\ \A o \in Operations : DOMAIN exitOps'[o].members \subseteq confirmed[o]
  /\ \A p \in asked' : p[1] \in Operations /\ p[2] \in confirmed[p[1]]
Notes == quiet' = IF Active(impact') = {} THEN quiet \cup requested' ELSE quiet

LEMMA GoingOn ==
  ASSUME ExitInv, exitNonce = None, CallsGoOn, MembersAreConfirmed, Notes,
         flow' = flow, epoch' = epoch, invokes' = invokes, pendingExit' = pendingExit,
         exitNonce' = exitNonce, events' = events, confirmed' = confirmed,
         requested' = requested, kept' = kept
  PROVE  ExitInv'
<1> USE DEF ExitInv, Waiting
<1>1. Shapes'
  BY DEF Shapes, CallsGoOn, GoesOn, MembersAreConfirmed
<1>2. Confirmations'
  <2>1. \A d \in calls' : d.for = "StopAll" =>
          WasConfirmed(d.op, d.expected)' /\ d.needs \subseteq confirmed[d.op]
    BY DEF CallsGoOn, GoesOn, Confirmations, WasConfirmed
  <2>2. \A d \in calls' : d.step \in {"Before", "Stop", "Conflict"} => d.for = "StopAll"
    BY DEF CallsGoOn, GoesOn
  <2>3. flow.op # None => WasConfirmed(flow.op, flow.expected)'
    BY DEF Confirmations, WasConfirmed
  <2> QED
    BY <2>1, <2>2, <2>3 DEF Confirmations, MembersAreConfirmed
<1>3. Epochs'
  BY DEF Shapes, Epochs, CallsGoOn, GoesOn, OfThisEpoch
<1>4. quiet \subseteq quiet'
  BY DEF Notes
<1>5. Completions'
  BY <1>4 DEF Completions, CallsGoOn, GoesOn
<1>6. Requests'
  BY DEF Requests, EventsInOrder, CallsGoOn, GoesOn, OfThisEpoch
<1>7. QuietReads'
  BY <1>4 DEF QuietReads, CallsGoOn, GoesOn, OfThisEpoch, Notes, Requests, Epochs, SawNoRuns
<1> QED
  BY <1>1, <1>2, <1>3, <1>5, <1>6, <1>7 DEF ExitIsJustified
(* A call that is replaced by its continuation. *)
LEMMA ReplacedGoesOn ==
  ASSUME ExitInv, exitNonce = None, NEW c \in calls, NEW d, GoesOn(c, d), Replace(c, d)
  PROVE  CallsGoOn
<1>1. \A e \in calls : GoesOn(e, e)
  BY DEF GoesOn, ExitInv, Shapes, Confirmations
<1>2. calls' = (calls \ {c}) \cup {d}
  BY DEF Replace
<1>3. \A e \in calls' : \E b \in calls : GoesOn(b, e)
  BY <1>1, <1>2
<1>4. ASSUME NEW d1 \in calls', NEW d2 \in calls', d1.epoch = epoch, d2.epoch = epoch, epoch # 0
      PROVE  d1 = d2
  BY <1>2, <1>4 DEF ExitInv, Waiting, Epochs, OfThisEpoch, GoesOn
<1> QED
  BY <1>3, <1>4 DEF CallsGoOn

(* A call that is answered. *)
LEMMA RepliedGoesOn ==
  ASSUME ExitInv, exitNonce = None, NEW c \in calls, NEW kind, NEW body, Reply(c, kind, body),
         kind = "Impact" /\ ShownRuns(body) = {} => Active(impact') = {}
  PROVE  CallsGoOn
<1>1. PICK d : d = [c EXCEPT !.step = "Answered", !.needs = {}, !.run = None,
                             !.answer = Answer(kind, body)]
  OBVIOUS
<1>2. IsCall(c)
  BY DEF ExitInv, Shapes
<1>3. /\ IsCall(d) /\ d.for = c.for /\ d.epoch = c.epoch /\ d.op = c.op
      /\ d.expected = c.expected /\ d.step = "Answered" /\ d.needs = {}
      /\ d.answer = Answer(kind, body)
  BY <1>1, <1>2 DEF IsCall
<1>4. GoesOn(c, d)
  BY <1>3 DEF GoesOn, SawNoRuns, Answer
<1>5. Replace(c, d)
  BY <1>1 DEF Reply
<1> QED
  BY <1>4, <1>5, ReplacedGoesOn

(* A call that has the next step to do, and members NEEDS left. *)
LEMMA AdvancedGoesOn ==
  ASSUME ExitInv, exitNonce = None, NEW c \in calls, NEW d, c.for = "StopAll",
         IsCall(d), d.for = c.for, d.epoch = c.epoch, d.op = c.op, d.expected = c.expected,
         d.answer = c.answer, d.needs \subseteq confirmed[c.op], Replace(c, d)
  PROVE  CallsGoOn
BY ReplacedGoesOn DEF GoesOn, SawNoRuns

LEMMA StepGoesOn ==
  ASSUME ExitInv, exitNonce = None, NEW c \in calls, CallStep(c)
  PROVE  CallsGoOn /\ MembersAreConfirmed
<1>0. IsCall(c) /\ (c.for = "StopAll" => WasConfirmed(c.op, c.expected) /\ c.needs \subseteq confirmed[c.op])
  BY DEF ExitInv, Shapes, Confirmations
<1>1. exitOps' = exitOps /\ asked' = asked => MembersAreConfirmed
  BY DEF MembersAreConfirmed, ExitInv, Shapes, Confirmations
<1>2. ShownRuns(Assessment) = Active(impact)
  BY DEF ShownRuns, Assessment
<1>3. CASE ReadImpact(c)
  BY <1>1, <1>2, <1>3, RepliedGoesOn DEF ReadImpact
<1>4. CASE Prepare(c)
  <2> DEFINE row == [expected |-> c.expected,
                     members |-> [r \in Active(impact) |-> Member(c.op, impact[r])]]
             d == [c EXCEPT !.step = "Before"]
  <2>1. c.for = "StopAll" /\ asked' = asked
    BY <1>4 DEF Prepare
  <2>2. /\ IsCall(d) /\ d.for = c.for /\ d.epoch = c.epoch /\ d.op = c.op
        /\ d.expected = c.expected /\ d.needs = c.needs /\ d.answer = c.answer
    BY <1>0 DEF IsCall
  <2>3. Replace(c, d) => CallsGoOn
    <3> HIDE DEF d
    <3> QED
      BY <1>0, <2>1, <2>2, AdvancedGoesOn
  <2>4. \A kind, body : kind # "Impact" /\ Reply(c, kind, body) => CallsGoOn
    BY RepliedGoesOn
  <2>5. CallsGoOn
    BY <1>4, <2>3, <2>4 DEF Prepare
  <2>6. CASE exitOps' = exitOps
    BY <1>1, <2>1, <2>5, <2>6
  <2>7. CASE Assessment = c.expected /\ exitOps' = [exitOps EXCEPT ![c.op] = row]
    <3>1. DOMAIN row.members = confirmed[c.op]
      BY <1>0, <1>2, <2>1, <2>7 DEF WasConfirmed
    <3>2. /\ exitOps' = [o \in Operations |-> exitOps'[o]]
          /\ \A o \in Operations : exitOps'[o] = IF o = c.op THEN row ELSE exitOps[o]
      <4> HIDE DEF row
      <4> QED
        BY <1>0, <2>1, <2>7 DEF ExitInv, Shapes, WasConfirmed
    <3>3. \A o \in Operations : DOMAIN exitOps'[o].members \subseteq confirmed[o]
      <4> HIDE DEF row
      <4> QED
        BY <3>1, <3>2 DEF ExitInv, Confirmations
    <3> QED
      BY <2>1, <2>5, <3>2, <3>3 DEF MembersAreConfirmed, ExitInv, Confirmations
  <2> QED
    BY <1>4, <2>6, <2>7 DEF Prepare
<1>5. CASE ReadBefore(c)
  <2>1. PICK d : d = [c EXCEPT !.step = "Stop",
                               !.needs = {r \in Requested(c.op) : NeedsChildStop(r, c.op)}]
    OBVIOUS
  <2>2. /\ IsCall(d) /\ d.for = c.for /\ d.epoch = c.epoch /\ d.op = c.op
        /\ d.expected = c.expected /\ d.answer = c.answer /\ d.needs \subseteq Requested(c.op)
    BY <1>0, <2>1 DEF IsCall
  <2>3. c.for = "StopAll"
    BY <1>5 DEF ReadBefore, ExitInv, Confirmations
  <2>4. Requested(c.op) \subseteq confirmed[c.op]
    BY <1>0, <2>3 DEF Requested, ExitInv, Confirmations, WasConfirmed
  <2>5. Replace(c, d)
    BY <1>5, <2>1 DEF ReadBefore
  <2>6. CallsGoOn
    BY <2>2, <2>3, <2>4, <2>5, AdvancedGoesOn
  <2> QED
    BY <1>1, <1>5, <2>6 DEF ReadBefore
<1>6. CASE ReadAfterConflict(c)
  <2>1. PICK d : d = [c EXCEPT !.step = "Stop", !.needs = @ \ {c.run}, !.run = None]
    OBVIOUS
  <2>2. /\ IsCall(d) /\ d.for = c.for /\ d.epoch = c.epoch /\ d.op = c.op
        /\ d.expected = c.expected /\ d.answer = c.answer /\ d.needs \subseteq c.needs
    BY <1>0, <2>1 DEF IsCall
  <2>3. c.for = "StopAll"
    BY <1>6 DEF ReadAfterConflict, ExitInv, Confirmations
  <2>4. Replace(c, d) => CallsGoOn
    BY <1>0, <2>2, <2>3, AdvancedGoesOn
  <2>5. Reply(c, "Error", None) => CallsGoOn
    BY RepliedGoesOn
  <2> QED
    BY <1>1, <1>6, <2>1, <2>4, <2>5 DEF ReadAfterConflict
<1>7. CASE Project(c)
  BY <1>1, <1>7, RepliedGoesOn DEF Project
<1>8. ASSUME NEW r \in Runs, StopMember(c, r)
      PROVE  CallsGoOn /\ MembersAreConfirmed
  <2>1. PICK d : d = [c EXCEPT !.needs = @ \ {r}]
    OBVIOUS
  <2>2. /\ IsCall(d) /\ d.for = c.for /\ d.epoch = c.epoch /\ d.op = c.op
        /\ d.expected = c.expected /\ d.answer = c.answer /\ d.needs \subseteq c.needs
    BY <1>0, <2>1 DEF IsCall
  <2>3. c.for = "StopAll" /\ r \in confirmed[c.op] /\ c.op \in Operations
    BY <1>0, <1>8 DEF StopMember, ExitInv, Confirmations, WasConfirmed
  <2>4. PICK e : e = [c EXCEPT !.step = "Conflict", !.run = r]
    OBVIOUS
  <2>5. /\ IsCall(e) /\ e.for = c.for /\ e.epoch = c.epoch /\ e.op = c.op
        /\ e.expected = c.expected /\ e.answer = c.answer /\ e.needs = c.needs
    BY <1>0, <2>4 DEF IsCall
  <2>6. Replace(c, d) => CallsGoOn
    BY <1>0, <2>2, <2>3, AdvancedGoesOn
  <2>7. Replace(c, e) => CallsGoOn
    BY <1>0, <2>3, <2>5, AdvancedGoesOn
  <2>8. Reply(c, "Error", None) => CallsGoOn
    BY RepliedGoesOn
  <2>9. CallsGoOn
    BY <1>8, <2>1, <2>4, <2>6, <2>7, <2>8 DEF StopMember
  <2>10. asked' = asked \/ asked' = asked \cup {<<c.op, r>>}
    BY <1>8 DEF StopMember
  <2>11. exitOps' = exitOps
    BY <1>8 DEF StopMember
  <2> QED
    BY <2>3, <2>9, <2>10, <2>11 DEF MembersAreConfirmed, ExitInv, Shapes, Confirmations
<1> QED
  BY <1>3, <1>4, <1>5, <1>6, <1>7, <1>8 DEF CallStep

LEMMA SupervisorHolds ==
  ASSUME ExitInv, Supervisor, Notes
  PROVE  ExitInv'
<1>1. exitNonce = None
  BY DEF Supervisor
<1> SUFFICES CallsGoOn /\ MembersAreConfirmed
  BY <1>1, GoingOn DEF Supervisor, desktopVars
<1>2. CASE \E c \in calls : CallStep(c)
  BY <1>1, <1>2, StepGoesOn
<1>3. \A c \in calls : GoesOn(c, c)
  BY DEF GoesOn, ExitInv, Shapes, Confirmations
<1>4. exitOps' = exitOps /\ asked' = asked => MembersAreConfirmed
  BY DEF MembersAreConfirmed, ExitInv, Shapes, Confirmations
<1>5. CASE RunMoves
  <2>1. calls' = calls /\ exitOps' = exitOps /\ asked' = asked
    BY <1>5 DEF RunMoves, SpontaneousMove, Launch, LaunchEnds, RunEnds, ClientStops,
                StopProgresses, ControlMismatch, TimedOutStopEnds, MoveRun
  <2>2. CallsGoOn
    BY <1>1, <1>3, <2>1 DEF CallsGoOn, ExitInv, Waiting, Epochs, OfThisEpoch
  <2> QED
    BY <1>4, <2>1, <2>2
<1>6. CASE Restart
  <2> DEFINE Failed(c) == [c EXCEPT !.step = "Answered", !.needs = {}, !.run = None,
                                    !.answer = Answer("Error", None)]
             After(c) == IF c.step = "Answered" THEN c ELSE Failed(c)
  <2>1. calls' = {After(c) : c \in calls}
    BY <1>6 DEF Restart
  <2>2. ASSUME NEW c \in calls
        PROVE  GoesOn(c, After(c)) /\ After(c).epoch = c.epoch
    <3>1. IsCall(c)
      BY DEF ExitInv, Shapes
    <3>2. PICK d : d = Failed(c)
      OBVIOUS
    <3>3. GoesOn(c, d) /\ d.epoch = c.epoch
      BY <3>1, <3>2 DEF GoesOn, IsCall, SawNoRuns, Answer
    <3> HIDE DEF Failed
    <3> QED
      BY <1>3, <3>2, <3>3
  <2> HIDE DEF After
  <2>3. CallsGoOn
    BY <1>1, <2>1, <2>2 DEF CallsGoOn, ExitInv, Waiting, Epochs, OfThisEpoch
  <2> QED
    BY <1>4, <1>6, <2>3 DEF Restart
<1> QED
  BY <1>2, <1>5, <1>6 DEF Supervisor

LEMMA CallTimesOutHolds ==
  ASSUME ExitInv, NEW c \in calls, CallTimesOut(c), Notes
  PROVE  ExitInv'
<1>1. exitNonce = None /\ c.epoch # 0
  BY DEF CallTimesOut
<1>2. \A b \in calls : GoesOn(b, b)
  BY DEF GoesOn, ExitInv, Shapes, Confirmations
<1>3. MembersAreConfirmed
  BY DEF CallTimesOut, MembersAreConfirmed, ExitInv, Shapes, Confirmations
<1>4. PICK error : error = [c EXCEPT !.step = "Answered", !.needs = {}, !.run = None,
                                     !.answer = Answer("Error", None)]
  OBVIOUS
<1>5. PICK unheard : unheard = [c EXCEPT !.epoch = 0]
  OBVIOUS
<1>6. calls' \subseteq (calls \ {c}) \cup {unheard, error}
  BY <1>4, <1>5 DEF CallTimesOut
<1>7. IsCall(c)
  BY DEF ExitInv, Shapes
<1>8. GoesOn(c, error) /\ error.epoch = c.epoch
  BY <1>4, <1>7 DEF GoesOn, IsCall, SawNoRuns, Answer
<1>9. GoesOn(c, unheard) /\ unheard.epoch = 0
  BY <1>2, <1>5, <1>7 DEF IsCall, GoesOn, SawNoRuns
<1>10. CallsGoOn
  <2>1. \A d \in calls' : \E b \in calls : GoesOn(b, d)
    BY <1>2, <1>6, <1>8, <1>9
  <2>2. \A a, b \in calls : a.epoch = epoch /\ b.epoch = epoch /\ epoch # 0 => a = b
    BY <1>1 DEF ExitInv, Waiting, Epochs, OfThisEpoch
  <2> QED
    BY <1>6, <1>8, <1>9, <2>1, <2>2 DEF CallsGoOn
<1> QED
  BY <1>1, <1>3, <1>10, GoingOn DEF CallTimesOut
------------------------------------------------------------
(* Steps of the dialog. *)

SupervisorWaits == UNCHANGED <<impact, incarnation, exitOps, asked, moves>>
Unasked == UNCHANGED <<pendingExit, exitNonce, requested>>

(* A step that begins an epoch, possibly with call C1 and with command I1. *)
LEMMA NewEpochHolds ==
  ASSUME ExitInv, exitNonce = None, Notes, SupervisorWaits, Unasked,
         NEW c1, NEW i1, NEW for \in {"Assess", "StopAll"}, NEW o, NEW x,
         c1 = Call(for, epoch + 1, o, x), i1.epoch = epoch + 1,
         epoch' = epoch + 1, calls' \subseteq calls \cup {c1}, invokes' \subseteq invokes \cup {i1},
         events' \in Seq(requested), EventsInOrder',
         confirmed' = [p \in Operations |-> confirmed'[p]], kept \subseteq kept',
         \A p \in Operations : confirmed[p] # {} => confirmed'[p] = confirmed[p],
         ~(flow.phase = "completing" /\ flow.nonce = pendingExit),
         for = "StopAll" => WasConfirmed(o, x)' /\ flow'.op # None,
         c1 \in calls' => flow'.phase \in {"checking", "stopping"},
         i1 \in invokes' => i1.nonce \in requested,
         i1 \in invokes' /\ i1.kind = "Complete" =>
           flow'.phase = "completing" /\ i1.nonce = flow'.nonce /\ i1.nonce \in quiet \cup kept'
                /\ c1 \notin calls',
         IsFlow(flow'), flow'.nonce \in requested \cup {None},
         flow'.phase # "None" => flow'.nonce \in requested,
         (flow.op # None => WasConfirmed(flow.op, flow.expected))',
         flow'.phase = "decision" => ShownRuns(flow'.shown) # {},
         flow'.phase # "waiting"
  PROVE  ExitInv'
<1> USE DEF ExitInv, Waiting
<1>0. epoch \in Nat /\ epoch' \in Nat /\ epoch' # 0 /\ epoch' # epoch
  BY DEF Shapes
<1>1. /\ IsCall(c1) /\ c1.for = for /\ c1.epoch = epoch' /\ c1.op = o /\ c1.expected = x
      /\ c1.step = "Sent" /\ c1.needs = {} /\ c1.answer.kind = "None"
  BY CallFields
<1>2. \A c \in calls : c.epoch \in Nat /\ c.epoch <= epoch /\ c.epoch # epoch'
  BY DEF Shapes, Epochs
<1>3. \A c \in calls' : c \in calls \/ c = c1
  OBVIOUS
<1>4. Shapes'
  BY <1>0, <1>1, <1>2, <1>3 DEF Shapes, SupervisorWaits, Unasked
<1>5. Confirmations'
  <2>1. \A c \in calls' : c.for = "StopAll" =>
          WasConfirmed(c.op, c.expected)' /\ c.needs \subseteq confirmed'[c.op]
    BY <1>1, <1>3 DEF Confirmations, WasConfirmed
  <2>2. \A c \in calls' : c.step \in {"Before", "Stop", "Conflict"} => c.for = "StopAll"
    BY <1>1, <1>3 DEF Confirmations
  <2>3. \A p \in Operations : DOMAIN exitOps'[p].members \subseteq confirmed'[p]
    BY DEF Confirmations, SupervisorWaits
  <2>4. \A p \in asked' : p[1] \in Operations /\ p[2] \in confirmed'[p[1]]
    BY DEF Confirmations, SupervisorWaits
  <2> QED
    BY <2>1, <2>2, <2>3, <2>4 DEF Confirmations
<1>6. \A c \in calls' : OfThisEpoch(c)' => c = c1
  BY <1>2, <1>3 DEF OfThisEpoch
<1>7. Epochs'
  BY <1>0, <1>1, <1>2, <1>3, <1>6 DEF Epochs
<1>8. quiet \subseteq quiet'
  BY DEF Notes
<1>9. Completions'
  <2>1. \A i \in invokes : i.kind = "Complete" =>
          i.epoch \in Nat /\ i.epoch # 0 /\ i.epoch <= epoch /\ i.nonce # pendingExit
    BY DEF Completions
  <2>2. \A i \in invokes' : i \in invokes \/ i = i1
    OBVIOUS
  <2>3. i1 \in invokes' /\ i1.kind = "Complete" => \A c \in calls' : c.epoch # epoch'
    BY <1>2, <1>3
  <2> QED
    BY <1>0, <1>8, <2>1, <2>2, <2>3 DEF Completions, Unasked
<1>10. Requests'
  BY <1>1, <1>6 DEF Requests, Unasked
<1>11. QuietReads'
  BY <1>1, <1>6 DEF QuietReads, SawNoRuns
<1> QED
  BY <1>4, <1>5, <1>7, <1>9, <1>10, <1>11 DEF ExitIsJustified, Unasked

(* A step within the epoch, after which no call of it is left but C1. *)
LEMMA SameEpochHolds ==
  ASSUME ExitInv, exitNonce = None, Notes, SupervisorWaits, Unasked,
         UNCHANGED <<epoch, invokes, events, confirmed, kept>>, flow.phase # "None",
         NEW c1, NEW for \in {"StopAll", "Recheck", "Diagnose"}, NEW o, NEW x,
         c1 = Call(for, epoch, o, x),
         \A c \in calls' : (c \in calls /\ c.epoch # epoch) \/ c = c1,
         flow.phase = "completing" => flow.nonce # pendingExit /\ \E c \in calls : c.epoch = epoch,
         for = "StopAll" => WasConfirmed(o, x),
         c1 \in calls' => flow'.op # None /\ flow'.phase \in {"checking", "stopping"},
         IsFlow(flow'), flow'.phase \notin {"None", "completing"}, flow'.nonce = flow.nonce,
         flow'.op # None => WasConfirmed(flow'.op, flow'.expected),
         flow'.phase = "decision" => ShownRuns(flow'.shown) # {},
         flow'.phase = "waiting" => flow'.op # None
  PROVE  ExitInv'
<1> USE DEF ExitInv, Waiting
<1>0. epoch \in Nat /\ epoch # 0
  BY DEF Shapes, Epochs
<1>1. /\ IsCall(c1) /\ c1.for = for /\ c1.epoch = epoch /\ c1.op = o /\ c1.expected = x
      /\ c1.step = "Sent" /\ c1.needs = {} /\ c1.answer.kind = "None"
  BY CallFields
<1>2. Shapes'
  BY <1>0, <1>1 DEF Shapes, SupervisorWaits, Unasked
<1>3. Confirmations'
  BY <1>1 DEF Confirmations, WasConfirmed, SupervisorWaits
<1>4. \A c \in calls' : OfThisEpoch(c)' => c = c1
  BY DEF OfThisEpoch
<1>5. Epochs'
  BY <1>0, <1>1, <1>4 DEF Shapes, Epochs
<1>6. quiet \subseteq quiet'
  BY DEF Notes
<1>7. \A i \in invokes : i.kind = "Complete" => i.epoch # epoch
  BY DEF Completions
<1>8. Completions'
  BY <1>6, <1>7 DEF Completions, Unasked
<1>9. Requests'
  BY <1>1, <1>4 DEF Requests, EventsInOrder, Unasked
<1>10. QuietReads'
  BY <1>1, <1>4 DEF QuietReads, SawNoRuns
<1> QED
  BY <1>2, <1>3, <1>5, <1>8, <1>9, <1>10 DEF ExitIsJustified, Unasked

(* The dialog has nothing more to ask. *)
LEMMA FinishHolds ==
  ASSUME ExitInv, exitNonce = None, Notes, SupervisorWaits, Unasked,
         UNCHANGED <<events, confirmed>>, kept \subseteq kept', calls' \subseteq calls,
         flow.phase \notin {"None", "completing"}, NEW next, IsFlow(next), Finish(next),
         next.nonce = flow.nonce, flow.nonce \in quiet \cup kept',
         next.op # None => WasConfirmed(next.op, next.expected)
  PROVE  ExitInv'
<1>1. PICK f : f = [next EXCEPT !.phase = "completing", !.errorPhase = "None"]
  OBVIOUS
<1>2. /\ IsFlow(f) /\ f.phase = "completing" /\ f.nonce = flow.nonce /\ f.op = next.op
      /\ f.expected = next.expected
  BY <1>1 DEF IsFlow
<1>3. PICK i : i = [kind |-> "Complete", nonce |-> flow.nonce, epoch |-> epoch + 1]
  OBVIOUS
<1>4. i.epoch = epoch + 1 /\ i.nonce = flow.nonce
  BY <1>3
<1>5. epoch' = epoch + 1 /\ flow' = f /\ invokes' = invokes \cup {i}
  BY <1>1, <1>3 DEF Finish, NewEpoch
<1>6. PICK c : c = Call("Assess", epoch + 1, None, None)
  OBVIOUS
<1>7. c \notin calls'
  BY <1>6, CallFields DEF ExitInv, Waiting, Shapes, Epochs
<1>8. events' \in Seq(requested) /\ EventsInOrder' /\ flow.nonce \in requested
  BY <1>2, <1>5 DEF ExitInv, Shapes, Waiting, Requests, EventsInOrder, Unasked
<1>9. (flow.op # None => WasConfirmed(flow.op, flow.expected))'
  BY <1>2, <1>5 DEF WasConfirmed
<1>10. confirmed' = [p \in Operations |-> confirmed'[p]]
  BY DEF ExitInv, Shapes
<1> QED
  BY <1>2, <1>4, <1>5, <1>6, <1>7, <1>8, <1>9, <1>10, NewEpochHolds

LEMMA KeepRunningHolds ==
  ASSUME ExitInv, KeepRunning, Notes
  PROVE  ExitInv'
<1>1. exitNonce = None /\ flow.phase \notin {"None", "completing"} /\ Finish(flow)
  BY DEF KeepRunning
<1>2. SupervisorWaits /\ Unasked /\ UNCHANGED <<events, confirmed, calls>>
  BY DEF KeepRunning, supervisorVars, SupervisorWaits, Unasked
<1>3. kept' = kept \cup {flow.nonce}
  BY DEF KeepRunning
<1>4. IsFlow(flow) /\ (flow.op # None => WasConfirmed(flow.op, flow.expected))
  BY DEF ExitInv, Shapes, Confirmations
<1> QED
  BY <1>1, <1>2, <1>3, <1>4, FinishHolds

(* A decision of the user that leaves the dialog about the same request, *)
(* or closes it.                                                         *)
LEMMA DecisionHolds ==
  ASSUME ExitInv, exitNonce = None, Notes, SupervisorWaits, Unasked,
         UNCHANGED <<events, kept>>, flow.phase \notin {"None", "completing"},
         epoch' = epoch + 1,
         NEW f, IsFlow(f), flow' = f, f.nonce \in {flow.nonce, None},
         f.phase \in {"None", "checking", "stopping"}, f.phase # "None" => f.nonce = flow.nonce,
         NEW i1, i1.epoch = epoch + 1, i1.nonce = flow.nonce, i1.kind = "Cancel",
         invokes' \subseteq invokes \cup {i1},
         NEW for \in {"Assess", "StopAll"}, NEW o, NEW x,
         calls' \subseteq calls \cup {Call(for, epoch + 1, o, x)},
         f.phase = "None" => calls' \subseteq calls,
         for = "StopAll" => WasConfirmed(o, x)' /\ f.op # None,
         confirmed' = [p \in Operations |-> confirmed'[p]],
         \A p \in Operations : confirmed[p] # {} => confirmed'[p] = confirmed[p],
         (flow.op # None => WasConfirmed(flow.op, flow.expected))'
  PROVE  ExitInv'
<1>1. PICK c : c = Call(for, epoch + 1, o, x)
  OBVIOUS
<1>2. c \notin calls
  BY <1>1, CallFields DEF ExitInv, Waiting, Shapes, Epochs
<1>3. events' \in Seq(requested) /\ EventsInOrder' /\ flow.nonce \in requested
  BY DEF ExitInv, Shapes, Waiting, Requests, EventsInOrder, Unasked
<1> QED
  BY <1>1, <1>2, <1>3, NewEpochHolds

LEMMA CheckingFields ==
  ASSUME NEW n
  PROVE  /\ IsFlow(Checking(n)) /\ Checking(n).phase = "checking" /\ Checking(n).nonce = n
         /\ Checking(n).op = None
<1>1. PICK f : f = NoFlow
  OBVIOUS
<1>2. IsFlow(f) /\ f.op = None
  BY <1>1 DEF NoFlow, IsFlow
<1>3. PICK g : g = [f EXCEPT !.phase = "checking", !.nonce = n]
  OBVIOUS
<1>4. IsFlow(g) /\ g.phase = "checking" /\ g.nonce = n /\ g.op = None
  BY <1>2, <1>3 DEF IsFlow
<1>5. Checking(n) = g
  BY <1>1, <1>3 DEF Checking
<1> QED
  BY <1>4, <1>5

LEMMA CancelFlowHolds ==
  ASSUME ExitInv, CancelFlow, Notes
  PROVE  ExitInv'
<1>1. /\ exitNonce = None /\ flow.phase \notin {"None", "completing"}
      /\ epoch' = epoch + 1 /\ flow' = NoFlow /\ confirmed' = confirmed
  BY DEF CancelFlow, UserDecides, NewEpoch
<1>2. SupervisorWaits /\ Unasked /\ UNCHANGED <<events, kept, calls>>
  BY DEF CancelFlow, supervisorVars, SupervisorWaits, Unasked
<1>3. PICK i : i = [kind |-> "Cancel", nonce |-> flow.nonce, epoch |-> epoch + 1]
  OBVIOUS
<1>4. i.epoch = epoch + 1 /\ i.nonce = flow.nonce /\ i.kind = "Cancel"
  BY <1>3
<1>5. invokes' = invokes \cup {i}
  BY <1>1, <1>3 DEF CancelFlow
<1>6. IsFlow(NoFlow) /\ NoFlow.phase = "None" /\ NoFlow.nonce = None /\ NoFlow.op = None
  BY DEF NoFlow, IsFlow
<1>7. confirmed' = [p \in Operations |-> confirmed'[p]]
  BY <1>1 DEF ExitInv, Shapes
<1>8. (flow.op # None => WasConfirmed(flow.op, flow.expected))'
  BY <1>1, <1>6
<1>9. calls' \subseteq calls /\ calls' \subseteq calls \cup {Call("Assess", epoch + 1, None, None)}
  BY <1>2
<1> HIDE DEF NoFlow
<1> QED
  BY <1>1, <1>2, <1>4, <1>5, <1>6, <1>7, <1>8, <1>9, DecisionHolds

LEMMA StopAllHolds ==
  ASSUME ExitInv, NEW o \in Operations, StopAll(o), Notes
  PROVE  ExitInv'
<1>0. PICK shown : shown = flow.shown
  OBVIOUS
<1>1. /\ exitNonce = None /\ flow.phase = "decision" /\ confirmed[o] = {}
      /\ epoch' = epoch + 1 /\ invokes' = invokes
      /\ calls' = calls \cup {Call("StopAll", epoch + 1, o, shown)}
  BY <1>0 DEF StopAll, UserDecides, NewEpoch, Send
<1>2. SupervisorWaits /\ Unasked /\ UNCHANGED <<events, kept>>
  BY DEF StopAll, SupervisorWaits, Unasked
<1>3. PICK f : f = [flow EXCEPT !.phase = "stopping", !.op = o, !.errorPhase = "None",
                      !.expected = shown, !.initial = ShownRuns(shown)]
  OBVIOUS
<1>4. /\ IsFlow(f) /\ f.phase = "stopping" /\ f.nonce = flow.nonce /\ f.op = o
      /\ f.expected = shown
  BY <1>3 DEF ExitInv, Shapes, IsFlow
<1>5. flow' = f
  BY <1>0, <1>3 DEF StopAll
<1>6. confirmed' = [confirmed EXCEPT ![o] = ShownRuns(shown)]
  BY <1>0 DEF StopAll
<1>7. /\ confirmed' = [p \in Operations |-> confirmed'[p]]
      /\ confirmed'[o] = ShownRuns(shown)
      /\ \A p \in Operations : confirmed[p] # {} => confirmed'[p] = confirmed[p]
  BY <1>1, <1>6 DEF ExitInv, Shapes
<1>8. ShownRuns(shown) # {}
  BY <1>0, <1>1 DEF ExitInv, Confirmations
<1>9. WasConfirmed(o, shown)'
  BY <1>7, <1>8 DEF WasConfirmed
<1>10. (flow.op # None => WasConfirmed(flow.op, flow.expected))'
  BY <1>4, <1>5, <1>9 DEF WasConfirmed
<1>11. PICK i : i = [kind |-> "Cancel", nonce |-> flow.nonce, epoch |-> epoch + 1]
  OBVIOUS
<1>12. i.epoch = epoch + 1 /\ i.nonce = flow.nonce /\ i.kind = "Cancel"
  BY <1>11
<1>13. f.op # None
  BY <1>4, ExitNoneIsNothing
<1> QED
  BY <1>1, <1>2, <1>4, <1>5, <1>7, <1>9, <1>10, <1>12, <1>13, DecisionHolds

LEMMA RetryHolds ==
  ASSUME ExitInv, Retry, Notes
  PROVE  ExitInv'
<1>1. exitNonce = None /\ flow.phase \in {"error", "blocked"} /\ epoch' = epoch + 1
  BY DEF Retry, UserDecides, NewEpoch
<1>2. /\ SupervisorWaits /\ Unasked
      /\ UNCHANGED <<events, kept, invokes>> /\ confirmed' = confirmed
  BY DEF Retry, SupervisorWaits, Unasked
<1>3. PICK i : i = [kind |-> "Cancel", nonce |-> flow.nonce, epoch |-> epoch + 1]
  OBVIOUS
<1>4. i.epoch = epoch + 1 /\ i.nonce = flow.nonce /\ i.kind = "Cancel"
  BY <1>3
<1>5. confirmed' = [p \in Operations |-> confirmed'[p]]
  BY <1>2 DEF ExitInv, Shapes
<1>6. CASE flow.phase = "error" /\ flow.errorPhase = "stopping" /\ flow.op # None
  <2>1. PICK f : f = [flow EXCEPT !.phase = "stopping", !.errorPhase = "None"]
    OBVIOUS
  <2>2. /\ IsFlow(f) /\ f.phase = "stopping" /\ f.nonce = flow.nonce /\ f.op = flow.op
        /\ f.expected = flow.expected
    BY <2>1 DEF ExitInv, Shapes, IsFlow
  <2>3. flow' = f /\ calls' = calls \cup {Call("StopAll", epoch + 1, f.op, f.expected)}
    BY <1>1, <1>6, <2>1, <2>2 DEF Retry, Send
  <2>4. WasConfirmed(f.op, f.expected)
    BY <1>6, <2>2 DEF ExitInv, Confirmations
  <2>5. WasConfirmed(f.op, f.expected)'
    BY <1>2, <2>4 DEF WasConfirmed
  <2>6. (flow.op # None => WasConfirmed(flow.op, flow.expected))'
    BY <2>3, <2>5 DEF WasConfirmed
  <2> QED
    BY <1>1, <1>2, <1>4, <1>5, <1>6, <2>2, <2>3, <2>5, <2>6, DecisionHolds
<1>7. CASE ~(flow.phase = "error" /\ flow.errorPhase = "stopping" /\ flow.op # None)
  <2>1. PICK f : f = Checking(flow.nonce)
    OBVIOUS
  <2>2. IsFlow(f) /\ f.phase = "checking" /\ f.nonce = flow.nonce /\ f.op = None
    BY <2>1, CheckingFields
  <2>3. flow' = f /\ calls' = calls \cup {Call("Assess", epoch + 1, None, None)}
    BY <1>1, <1>7, <2>1 DEF Retry, Send
  <2>4. (flow.op # None => WasConfirmed(flow.op, flow.expected))'
    BY <2>2, <2>3
  <2> QED
    BY <1>1, <1>2, <1>4, <1>5, <2>2, <2>3, <2>4, DecisionHolds
<1> QED
  BY <1>6, <1>7

LEMMA PollHolds ==
  ASSUME ExitInv, Poll, Notes
  PROVE  ExitInv'
<1>1. exitNonce = None /\ flow.phase = "waiting"
  BY DEF Poll
<1>2. /\ SupervisorWaits /\ Unasked
      /\ UNCHANGED <<epoch, invokes, events, confirmed, kept>>
  BY DEF Poll, SupervisorWaits, Unasked
<1>3. PICK f : f = [flow EXCEPT !.phase = "stopping"]
  OBVIOUS
<1>4. /\ IsFlow(f) /\ f.phase = "stopping" /\ f.nonce = flow.nonce /\ f.op = flow.op
      /\ f.expected = flow.expected
  BY <1>3 DEF ExitInv, Shapes, IsFlow
<1>5. PICK c : c = Call("StopAll", epoch, flow.op, flow.expected)
  OBVIOUS
<1>6. flow' = f /\ calls' = calls \cup {c}
  BY <1>3, <1>5 DEF Poll, Send
<1>7. \A d \in calls : d.epoch # epoch
  BY <1>1 DEF ExitInv, Waiting, Epochs, OfThisEpoch
<1>8. f.op # None /\ WasConfirmed(f.op, f.expected)
  BY <1>1, <1>4 DEF ExitInv, Waiting, Epochs, Confirmations
<1> QED
  BY <1>1, <1>2, <1>4, <1>5, <1>6, <1>7, <1>8, SameEpochHolds

(* A step that leaves the dialog where it is and asks nothing. *)
LEMMA AsideHolds ==
  ASSUME ExitInv, exitNonce = None, exitNonce' = None, Notes, SupervisorWaits,
         UNCHANGED <<flow, epoch, confirmed, kept>>,
         calls' \subseteq calls, invokes' \subseteq invokes,
         requested \subseteq requested', requested' \subseteq Nonces,
         \/ pendingExit' \in {pendingExit, None}
         \/ pendingExit' \in requested' \ requested,
         pendingExit \in requested' \cup {None}, events' \in Seq(requested'), EventsInOrder'
  PROVE  ExitInv'
<1> USE DEF ExitInv, Waiting
<1>1. Shapes'
  BY DEF Shapes, SupervisorWaits
<1>2. Confirmations'
  BY DEF Confirmations, WasConfirmed, SupervisorWaits
<1>3. Epochs'
  BY DEF Epochs, OfThisEpoch
<1>4. quiet \subseteq quiet'
  BY DEF Notes
<1>5. \A i \in invokes : i.nonce = pendingExit' => i.nonce = pendingExit
  BY NoncesAreFresh DEF Requests, Shapes
<1>6. Completions'
  BY <1>4, <1>5 DEF Completions
<1>7. Requests'
  <2>1. \A c \in calls : OfThisEpoch(c) /\ c.for = "Complete" => flow.nonce \in requested
    BY DEF Requests, Epochs
  <2>2. \A c \in calls : OfThisEpoch(c) /\ c.for = "Complete" => flow.nonce # pendingExit'
    BY <2>1, NoncesAreFresh DEF Requests, Shapes
  <2>3. \A c \in calls' : OfThisEpoch(c)' /\ c.for = "Complete" => flow'.nonce # pendingExit'
    BY <2>2 DEF OfThisEpoch
  <2>4. pendingExit' # None => pendingExit' \in requested'
    BY DEF Requests
  <2>5. \A i \in invokes' : i.nonce \in requested'
    BY DEF Requests
  <2>6. flow.phase # "None" => flow.nonce \in requested'
    BY DEF Requests
  <2> QED
    BY <2>3, <2>4, <2>5, <2>6 DEF Requests
<1>8. QuietReads'
  BY <1>4 DEF QuietReads, OfThisEpoch, SawNoRuns
<1> QED
  BY <1>1, <1>2, <1>3, <1>6, <1>7, <1>8 DEF ExitIsJustified

LEMMA AcceptExitRequestHolds ==
  ASSUME ExitInv, NEW n, AcceptExitRequest(n), Notes
  PROVE  ExitInv'
<1>1. exitNonce = None /\ events # <<>> /\ n = Head(events) /\ events' = Tail(events)
  BY DEF AcceptExitRequest
<1>2. SupervisorWaits /\ Unasked /\ UNCHANGED <<kept, invokes, confirmed>>
  BY DEF AcceptExitRequest, SupervisorWaits, Unasked
<1>3. events \in Seq(requested) /\ requested \subseteq Nonces
  BY DEF ExitInv, Shapes
<1>4. /\ Len(events) \in Nat /\ Len(events) > 0 /\ n = events[1] /\ n \in requested
      /\ events' \in Seq(requested) /\ Len(events') = Len(events) - 1
      /\ \A k \in 1..Len(events') : events'[k] = events[k + 1]
  BY <1>1, <1>3
<1>5. pendingExit # None =>
        /\ \A j, k \in 1..Len(events') :
             j <= k /\ events'[j] = pendingExit => events'[k] = pendingExit
        /\ n = pendingExit => \A k \in 1..Len(events') : events'[k] = pendingExit
        /\ flow.nonce = pendingExit => n = pendingExit
  <2>1. pendingExit # None => \A j, k \in 1..Len(events) :
          j <= k /\ events[j] = pendingExit => events[k] = pendingExit
    BY <1>1 DEF ExitInv, Waiting, Requests, EventsInOrder
  <2>2. pendingExit # None /\ flow.nonce = pendingExit =>
          \A k \in 1..Len(events) : events[k] = pendingExit
    BY <1>1 DEF ExitInv, Waiting, Requests, EventsInOrder
  <2>3. \A k \in 1..Len(events') : k + 1 \in 1..Len(events) /\ 1 <= k + 1 /\ k + 1 \in Nat
    BY <1>4
  <2>4. 1 \in 1..Len(events)
    BY <1>4
  <2>5. \A j, k \in 1..Len(events') : j <= k => j + 1 <= k + 1
    BY <1>4
  <2> QED
    BY <1>4, <2>1, <2>2, <2>3, <2>4, <2>5
<1>6. CASE flow.nonce = n
  <2>1. UNCHANGED <<flow, epoch, calls>>
    BY <1>6 DEF AcceptExitRequest
  <2>2. EventsInOrder'
    BY <1>2, <1>5, <1>6, <2>1 DEF EventsInOrder, Unasked
  <2>3. pendingExit \in requested \cup {None}
    BY <1>1 DEF ExitInv, Waiting, Requests
  <2> QED
    BY <1>1, <1>2, <1>3, <1>4, <2>1, <2>2, <2>3, AsideHolds DEF Unasked
<1>7. CASE flow.nonce # n
  <2>0. PICK c : c = Call("Assess", epoch + 1, None, None)
    OBVIOUS
  <2>1. epoch' = epoch + 1 /\ flow' = Checking(n) /\ calls' = calls \cup {c}
    BY <1>7, <2>0 DEF AcceptExitRequest, UserDecides, NewEpoch, Send
  <2>2. PICK f : f = Checking(n)
    OBVIOUS
  <2>3. IsFlow(f) /\ f.phase = "checking" /\ f.nonce = n /\ f.op = None
    BY <2>2, CheckingFields
  <2>4. flow' = f
    BY <2>1, <2>2
  <2>5. EventsInOrder'
    BY <1>2, <1>5, <2>3, <2>4 DEF EventsInOrder, Unasked
  <2>6. ~(flow.phase = "completing" /\ flow.nonce = pendingExit)
    <3>1. flow.phase = "completing" => flow.nonce \in requested
      BY <1>1 DEF ExitInv, Waiting, Requests
    <3> QED
      BY <1>3, <1>5, <1>7, <3>1, NoncesAreFresh
  <2>7. PICK i : i = [kind |-> "Cancel", nonce |-> n, epoch |-> epoch + 1]
    OBVIOUS
  <2>8. i.epoch = epoch + 1 /\ i.nonce = n /\ i.kind = "Cancel"
    BY <2>7
  <2>9. (flow.op # None => WasConfirmed(flow.op, flow.expected))'
    BY <2>3, <2>4
  <2>10. confirmed' = [p \in Operations |-> confirmed'[p]]
    BY <1>2 DEF ExitInv, Shapes
  <2>11. \A p \in Operations : confirmed[p] # {} => confirmed'[p] = confirmed[p]
    BY <1>2
  <2>12. invokes' \subseteq invokes \cup {i} /\ kept \subseteq kept'
    BY <1>2
  <2> QED
    BY <1>1, <1>2, <1>4, <2>0, <2>1, <2>3, <2>4, <2>5, <2>6, <2>8, <2>9, <2>10, <2>11, <2>12,
       NewEpochHolds
<1> QED
  BY <1>6, <1>7

LEMMA RequestExitHolds ==
  ASSUME ExitInv, RequestExit, Notes
  PROVE  ExitInv'
<1>1. exitNonce = None
  BY DEF RequestExit
<1>2. PICK n : n = IF pendingExit = None THEN CHOOSE fresh \in Nonces \ requested : TRUE
                   ELSE pendingExit
  OBVIOUS
<1>3. pendingExit' = n /\ requested' = requested \cup {n} /\ events' = Append(events, n)
  BY <1>2 DEF RequestExit
<1>4. /\ SupervisorWaits /\ exitNonce' = None
      /\ UNCHANGED <<invokes, flow, epoch, confirmed, kept, calls>>
  BY <1>1 DEF RequestExit, supervisorVars, SupervisorWaits
<1>5. pendingExit = None => n \in Nonces \ requested
  BY <1>2 DEF RequestExit
<1>6. pendingExit # None => n = pendingExit /\ n \in requested
  BY <1>1, <1>2 DEF ExitInv, Waiting, Requests
<1>7. events \in Seq(requested) /\ requested \subseteq Nonces
  BY DEF ExitInv, Shapes
<1>8. events \in Seq(requested')
  BY <1>3, <1>7
<1>9. /\ events' \in Seq(requested') /\ Len(events) \in Nat /\ Len(events') = Len(events) + 1
      /\ events'[Len(events) + 1] = n
      /\ \A k \in 1..Len(events) : events'[k] = events[k] /\ events[k] \in requested
  BY <1>3, <1>7, <1>8
<1>10. \A k \in 1..Len(events') : k \in 1..Len(events) \/ k = Len(events) + 1
  BY <1>9
<1>11. EventsInOrder'
  <2>1. CASE pendingExit = None
    <3>1. \A k \in 1..Len(events) : events'[k] # n
      BY <1>5, <1>9, <2>1
    <3>2. \A j, k \in 1..Len(events') : j <= k /\ events'[j] = n => events'[k] = n
      BY <1>9, <1>10, <3>1
    <3>3. flow.nonce # n
      BY <1>5, <2>1, NoncesAreFresh DEF ExitInv, Shapes
    <3> QED
      BY <1>3, <1>4, <3>2, <3>3 DEF EventsInOrder
  <2>2. CASE pendingExit # None
    <3>1. /\ \A j, k \in 1..Len(events) : j <= k /\ events[j] = n => events[k] = n
          /\ flow.nonce = n => \A k \in 1..Len(events) : events[k] = n
      BY <1>1, <1>6, <2>2 DEF ExitInv, Waiting, Requests, EventsInOrder
    <3>2. \A j, k \in 1..Len(events') : j <= k /\ events'[j] = n => events'[k] = n
      BY <1>9, <1>10, <3>1
    <3>3. flow.nonce = n => \A k \in 1..Len(events') : events'[k] = n
      BY <1>9, <1>10, <3>1
    <3> QED
      BY <1>3, <1>4, <3>2, <3>3 DEF EventsInOrder
  <2> QED
    BY <2>1, <2>2
<1> QED
  BY <1>1, <1>3, <1>4, <1>5, <1>6, <1>7, <1>9, <1>11, AsideHolds

LEMMA CancelExitHolds ==
  ASSUME ExitInv, NEW i, CancelExit(i), Notes
  PROVE  ExitInv'
<1>1. /\ SupervisorWaits /\ exitNonce = None /\ exitNonce' = None
      /\ UNCHANGED <<flow, epoch, confirmed, kept, calls, events, requested>>
      /\ invokes' \subseteq invokes /\ pendingExit' \in {pendingExit, None}
  BY DEF CancelExit, supervisorVars, SupervisorWaits
<1>2. /\ events \in Seq(requested) /\ requested \subseteq Nonces
      /\ EventsInOrder /\ pendingExit \in requested \cup {None}
  BY <1>1 DEF ExitInv, Shapes, Waiting, Requests
<1>3. EventsInOrder'
  BY <1>1, <1>2 DEF EventsInOrder
<1> QED
  BY <1>1, <1>2, <1>3, AsideHolds

LEMMA AuthorizeExitHolds ==
  ASSUME ExitInv, NEW i, AuthorizeExit(i), Notes
  PROVE  ExitInv'
<1> USE DEF ExitInv, Waiting
<1>1. /\ i \in invokes /\ i.kind = "Complete" /\ exitNonce = None
      /\ SupervisorWaits /\ UNCHANGED <<flow, epoch, confirmed, kept, events, requested>>
      /\ invokes' = invokes \ {i}
  BY DEF AuthorizeExit, SupervisorWaits
<1>2. quiet \subseteq quiet'
  BY DEF Notes
<1>3. /\ i.epoch \in Nat /\ i.epoch # 0 /\ i.epoch <= epoch /\ i.nonce \in quiet \cup kept
      /\ i.nonce = pendingExit => i.epoch = epoch
      /\ i.epoch = epoch => flow.phase = "completing" /\ i.nonce = flow.nonce
      /\ i.epoch = epoch => \A c \in calls : c.epoch # epoch
  BY <1>1 DEF Completions
<1>4. CASE pendingExit = i.nonce
  <2>1. exitNonce' = i.nonce /\ calls' = calls /\ exitNonce' # None
    BY <1>1, <1>4, NoncesAreFresh DEF AuthorizeExit, Requests, Shapes
  <2>2. Shapes'
    BY <1>1, <2>1 DEF Shapes, SupervisorWaits
  <2>3. Confirmations'
    BY <1>1, <2>1 DEF Confirmations, WasConfirmed, SupervisorWaits
  <2>4. ExitIsJustified'
    BY <1>1, <1>2, <1>3, <1>4, <2>1 DEF ExitIsJustified
  <2> QED
    BY <2>1, <2>2, <2>3, <2>4
<1>5. CASE pendingExit # i.nonce
  <2>1. PICK c : c = Call("Complete", i.epoch, None, None)
    OBVIOUS
  <2>2. PICK r : r = [c EXCEPT !.step = "Answered", !.answer = Answer("Refused", None)]
    OBVIOUS
  <2>0. IsCall(c) /\ c.for = "Complete" /\ c.epoch = i.epoch
    BY <2>1, CallFields
  <2>3. /\ IsCall(r) /\ r.for = "Complete" /\ r.epoch = i.epoch /\ r.step = "Answered"
        /\ r.answer.kind = "Refused"
    BY <2>0, <2>2 DEF IsCall, Answer
  <2>4. UNCHANGED <<pendingExit, exitNonce>> /\ calls' = calls \cup {r}
    BY <1>5, <2>1, <2>2 DEF AuthorizeExit, Send
  <2>5. Shapes'
    BY <1>1, <1>3, <2>3, <2>4 DEF Shapes, SupervisorWaits
  <2>6. Confirmations'
    BY <1>1, <2>3, <2>4 DEF Confirmations, WasConfirmed, SupervisorWaits
  <2>7. \A d \in calls' : OfThisEpoch(d)' => d \in calls \/ (d = r /\ i.epoch = epoch)
    BY <1>1, <2>3, <2>4 DEF OfThisEpoch
  <2>8. Epochs'
    BY <1>1, <1>3, <2>3, <2>4, <2>7 DEF Epochs, OfThisEpoch
  <2>9. \A j \in invokes' : j.kind = "Complete" => j.epoch # i.epoch
    BY <1>1 DEF Completions
  <2>10. Completions'
    BY <1>1, <1>2, <2>3, <2>4, <2>9 DEF Completions
  <2>11. Requests'
    BY <1>1, <1>3, <1>5, <2>3, <2>4, <2>7 DEF Requests, EventsInOrder, OfThisEpoch
  <2>12. QuietReads'
    BY <1>1, <1>2, <2>3, <2>4, <2>7 DEF QuietReads, OfThisEpoch, SawNoRuns
  <2> QED
    BY <1>1, <2>4, <2>5, <2>6, <2>8, <2>10, <2>11, <2>12 DEF ExitIsJustified
<1> QED
  BY <1>4, <1>5
------------------------------------------------------------
(* Answers. *)

ShowsOnly(c) ==
  UNCHANGED <<epoch, invokes>> /\ calls' = calls \ {c}

LEMMA ShowHolds ==
  ASSUME ExitInv, exitNonce = None, Notes, SupervisorWaits, Unasked,
         UNCHANGED <<events, confirmed, kept>>, NEW c \in calls, IsCurrent(c), ShowsOnly(c),
         NEW f, IsFlow(f), flow' = f, f.phase \notin {"None", "completing"},
         f.nonce = flow.nonce, f.op # None => WasConfirmed(f.op, f.expected),
         f.phase = "decision" => ShownRuns(f.shown) # {},
         f.phase = "waiting" => f.op # None
  PROVE  ExitInv'
<1>1. c.epoch = epoch /\ epoch # 0 /\ flow.phase # "None"
  BY DEF IsCurrent, ExitInv, Waiting, Epochs
<1>2. \A d \in calls' : d \in calls /\ d.epoch # epoch
  BY <1>1 DEF ShowsOnly, ExitInv, Waiting, Epochs, OfThisEpoch
<1>3. flow.phase = "completing" => flow.nonce # pendingExit
  BY <1>1 DEF ExitInv, Waiting, Epochs, Requests, OfThisEpoch
<1>4. PICK d : d = Call("Recheck", epoch, None, None)
  OBVIOUS
<1>5. d \notin calls'
  BY <1>2, <1>4, CallFields
<1> QED
  BY <1>1, <1>2, <1>3, <1>4, <1>5, SameEpochHolds DEF ShowsOnly

(* An answer that is followed by another question. *)
LEMMA AskAgainHolds ==
  ASSUME ExitInv, exitNonce = None, Notes, SupervisorWaits, Unasked,
         UNCHANGED <<events, confirmed, kept, flow, epoch, invokes>>,
         NEW c \in calls, IsCurrent(c), c.for \in {"StopAll", "Recheck"},
         NEW for \in {"Recheck", "Diagnose"}, NEW x, Replace(c, Call(for, epoch, None, x))
  PROVE  ExitInv'
<1>1. c.epoch = epoch /\ epoch # 0 /\ flow.phase # "None"
  BY DEF IsCurrent, ExitInv, Waiting, Epochs
<1>2. PICK d : d = Call(for, epoch, None, x)
  OBVIOUS
<1>3. \A e \in calls' : (e \in calls /\ e.epoch # epoch) \/ e = d
  BY <1>1, <1>2 DEF Replace, ExitInv, Waiting, Epochs, OfThisEpoch
<1>4. flow.phase \in {"checking", "stopping"} /\ flow.op # None
  BY <1>1 DEF ExitInv, Waiting, Epochs, OfThisEpoch
<1>5. IsFlow(flow) /\ (flow.op # None => WasConfirmed(flow.op, flow.expected))
  BY DEF ExitInv, Shapes, Confirmations
<1> QED
  BY <1>1, <1>2, <1>3, <1>4, <1>5, SameEpochHolds

LEMMA DecideHolds ==
  ASSUME ExitInv, exitNonce = None, Notes, SupervisorWaits, Unasked,
         UNCHANGED <<events, confirmed, kept>>, NEW c \in calls, IsCurrent(c),
         c.for # "Complete", c.answer.kind = "Impact", NEW a, a = c.answer.body, Decide(a),
         calls' = calls \ {c}
  PROVE  ExitInv'
<1>1. PICK f : f = [flow EXCEPT !.phase = "decision", !.shown = a, !.initial = ShownRuns(a),
                                !.op = None, !.expected = None, !.errorPhase = "None"]
  OBVIOUS
<1>2. /\ IsFlow(f) /\ f.phase = "decision" /\ f.shown = a /\ f.op = None
      /\ f.nonce = flow.nonce
  BY <1>1 DEF ExitInv, Shapes, IsFlow
<1>3. CASE ShownRuns(a) = {}
  <2>1. Finish(f)
    BY <1>1, <1>3 DEF Decide
  <2>2. OfThisEpoch(c) /\ flow.phase \notin {"None", "completing"}
    BY DEF IsCurrent, ExitInv, Waiting, Epochs, OfThisEpoch
  <2>3. flow.nonce \in quiet
    BY <1>3, <2>2 DEF ExitInv, Waiting, QuietReads, SawNoRuns
  <2> QED
    BY <1>2, <2>1, <2>2, <2>3, FinishHolds
<1>4. CASE ShownRuns(a) # {}
  BY <1>1, <1>2, <1>4, ShowHolds DEF Decide, Show, ShowsOnly
<1> QED
  BY <1>3, <1>4

LEMMA AnswerHolds ==
  ASSUME ExitInv, exitNonce = None, Notes, SupervisorWaits, Unasked,
         UNCHANGED <<events, confirmed, kept>>, NEW c \in calls, IsCurrent(c),
         \/ OnAssessed(c) \/ OnStopAll(c) \/ OnRechecked(c) \/ OnRecheckFailed(c)
         \/ OnDiagnosed(c) \/ OnRefused(c)
  PROVE  ExitInv'
<1>1. IsFlow(flow) /\ (flow.op # None => WasConfirmed(flow.op, flow.expected))
  BY DEF ExitInv, Shapes, Confirmations
<1>2. OfThisEpoch(c)
  BY DEF IsCurrent, ExitInv, Waiting, Epochs, OfThisEpoch
<1>3. ASSUME NEW phase \in {"blocked", "waiting", "error"}, NEW a, NEW e, ShowsOnly(c),
             phase = "waiting" => flow.op # None,
             \/ flow' = [flow EXCEPT !.phase = phase, !.shown = a]
             \/ flow' = [flow EXCEPT !.phase = phase]
             \/ flow' = [flow EXCEPT !.phase = phase, !.errorPhase = e]
             \/ flow' = [flow EXCEPT !.phase = phase, !.errorPhase = e, !.shown = a]
      PROVE  ExitInv'
  <2>1. PICK f : f = flow'
    OBVIOUS
  <2>2. IsFlow(f) /\ f.phase = phase /\ f.nonce = flow.nonce /\ f.op = flow.op
        /\ f.expected = flow.expected
    BY <1>1, <1>3, <2>1 DEF IsFlow
  <2> QED
    BY <1>1, <1>3, <2>1, <2>2, ShowHolds
<1>4. CASE OnAssessed(c)
  <2>1. CASE c.answer.kind = "Impact"
    BY <1>4, <2>1, DecideHolds DEF OnAssessed
  <2>2. CASE c.answer.kind # "Impact"
    <3>1. PICK g : g = Checking(flow.nonce)
      OBVIOUS
    <3>2. IsFlow(g) /\ g.nonce = flow.nonce /\ g.op = None
      BY <3>1, CheckingFields
    <3>3. PICK f : f = [g EXCEPT !.phase = "error", !.errorPhase = "assessment"]
      OBVIOUS
    <3>4. IsFlow(f) /\ f.phase = "error" /\ f.nonce = flow.nonce /\ f.op = None
      BY <3>2, <3>3 DEF IsFlow
    <3>5. flow' = f /\ ShowsOnly(c)
      BY <1>4, <2>2, <3>1, <3>3 DEF OnAssessed, Show, ShowsOnly
    <3> QED
      BY <3>4, <3>5, ShowHolds
  <2> QED
    BY <2>1, <2>2
<1>5. CASE OnStopAll(c)
  <2>1. CASE c.answer.kind = "Result" /\ c.answer.body # flow.initial
    BY <1>3, <1>5, <2>1 DEF OnStopAll, Show, ShowsOnly
  <2>2. CASE ~(c.answer.kind = "Result" /\ c.answer.body # flow.initial)
    BY <1>5, <2>2, AskAgainHolds DEF OnStopAll
  <2> QED
    BY <2>1, <2>2
<1>6. CASE OnRecheckFailed(c)
  BY <1>6, AskAgainHolds DEF OnRecheckFailed
<1>7. CASE OnRechecked(c)
  <2>1. PICK a : a = c.answer.body
    OBVIOUS
  <2>2. c.for = "Recheck" /\ c.answer.kind = "Impact" /\ calls' = calls \ {c}
    BY <1>7 DEF OnRechecked
  <2>3. flow.op # None /\ flow.phase \notin {"None", "completing"}
    BY <1>2, <2>2 DEF ExitInv, Waiting, Epochs
  <2>4. CASE ShownRuns(a) = {}
    <3>1. PICK f : f = [flow EXCEPT !.shown = a]
      OBVIOUS
    <3>2. IsFlow(f) /\ f.nonce = flow.nonce /\ f.op = flow.op /\ f.expected = flow.expected
      BY <1>1, <3>1 DEF IsFlow
    <3>3. Finish(f)
      BY <1>7, <2>1, <2>4, <3>1 DEF OnRechecked
    <3>4. flow.nonce \in quiet
      BY <1>2, <2>1, <2>2, <2>4 DEF ExitInv, Waiting, QuietReads, SawNoRuns
    <3> QED
      BY <1>1, <2>2, <2>3, <3>2, <3>3, <3>4, FinishHolds
  <2>5. CASE ShownRuns(a) # {}
    <3>1. \/ Show([flow EXCEPT !.phase = "blocked", !.shown = a])
          \/ Show([flow EXCEPT !.phase = "waiting", !.shown = a])
      BY <1>7, <2>1, <2>5 DEF OnRechecked
    <3> QED
      BY <1>3, <2>2, <2>3, <3>1 DEF Show, ShowsOnly
  <2> QED
    BY <2>4, <2>5
<1>8. CASE OnDiagnosed(c)
  <2>1. PICK a : a = c.answer.body
    OBVIOUS
  <2>2. c.for = "Diagnose" /\ calls' = calls \ {c}
    BY <1>8 DEF OnDiagnosed
  <2>3. \/ c.answer.kind = "Impact" /\ Decide(a)
        \/ FailAs("stopping")
        \/ Show([flow EXCEPT !.phase = "blocked", !.shown = a])
        \/ Show([flow EXCEPT !.phase = "error", !.errorPhase = "stopping", !.shown = a])
    BY <1>8, <2>1 DEF OnDiagnosed
  <2>4. CASE c.answer.kind = "Impact" /\ Decide(a)
    BY <2>1, <2>2, <2>4, DecideHolds
  <2>5. CASE ~(c.answer.kind = "Impact" /\ Decide(a))
    BY <1>3, <2>2, <2>3, <2>5 DEF FailAs, Show, ShowsOnly
  <2> QED
    BY <2>4, <2>5
<1>9. CASE OnRefused(c)
  BY <1>3, <1>9 DEF OnRefused, FailAs, Show, ShowsOnly
<1> QED
  BY <1>4, <1>5, <1>6, <1>7, <1>8, <1>9

LEMMA DeliverHolds ==
  ASSUME ExitInv, NEW c \in calls, Deliver(c), Notes
  PROVE  ExitInv'
<1>1. /\ exitNonce = None /\ SupervisorWaits /\ Unasked
      /\ UNCHANGED <<events, confirmed, kept>>
  BY DEF Deliver, SupervisorWaits, Unasked
<1>2. CASE IsCurrent(c)
  BY <1>1, <1>2, AnswerHolds DEF Deliver
<1>3. CASE ~IsCurrent(c)
  <2>1. calls' = calls \ {c} /\ UNCHANGED <<flow, epoch, invokes>>
    BY <1>3 DEF Deliver
  <2>2. /\ events \in Seq(requested) /\ requested \subseteq Nonces
        /\ EventsInOrder /\ pendingExit \in requested \cup {None}
    BY <1>1 DEF ExitInv, Shapes, Waiting, Requests
  <2>3. EventsInOrder'
    BY <1>1, <2>1, <2>2 DEF EventsInOrder, Unasked
  <2> QED
    BY <1>1, <2>1, <2>2, <2>3, AsideHolds DEF Unasked
<1> QED
  BY <1>2, <1>3
------------------------------------------------------------
THEOREM ExitInvHolds == Spec => []ExitInv
<1>1. ExitInv /\ [Next]_vars => ExitInv'
  <2> SUFFICES ASSUME ExitInv, [Next]_vars PROVE ExitInv'
    OBVIOUS
  <2>1. CASE Next
    <3>1. Notes
      BY <2>1 DEF Next, Notes
    <3>2. CASE Supervisor
      BY <3>1, <3>2, SupervisorHolds
    <3>3. CASE Desktop
      BY <3>1, <3>3, RequestExitHolds, AuthorizeExitHolds, CancelExitHolds,
         AcceptExitRequestHolds, KeepRunningHolds, CancelFlowHolds, RetryHolds, PollHolds,
         StopAllHolds, DeliverHolds, CallTimesOutHolds DEF Desktop
    <3> QED
      BY <2>1, <3>2, <3>3 DEF Next
  <2>2. CASE UNCHANGED vars
    BY <2>2 DEF vars, supervisorVars, desktopVars, ExitInv, Shapes, Confirmations, WasConfirmed,
                Waiting, Epochs, OfThisEpoch, Completions, Requests, EventsInOrder, QuietReads,
                ExitIsJustified
  <2> QED
    BY <2>1, <2>2
<1> QED
  BY <1>1, InitHolds, PTL DEF Spec

(* Only runs that were on the screen when the user pressed Stop all are *)
(* ever asked to stop by it, in any order of starts, ends, timeouts and *)
(* restarts (stop_all_for_exit, requestStopAll).                        *)
THEOREM StopsAreConfirmed == Spec => []OnlyShownRunsAreStopped
<1>1. ExitInv => OnlyShownRunsAreStopped
  BY DEF ExitInv, Confirmations, OnlyShownRunsAreStopped
<1> QED
  BY <1>1, ExitInvHolds, PTL

(* The desktop quits on the request its dialog is completing, one during  *)
(* which nothing ran or that the user wanted anyway, however events,      *)
(* answers and commands overtake each other (authorize_exit, finishExit). *)
THEOREM ExitsAreJustified == Spec => []ExitIsJustified
<1>1. ExitInv => ExitIsJustified
  BY DEF ExitInv
<1> QED
  BY <1>1, ExitInvHolds, PTL
=============================================================================
