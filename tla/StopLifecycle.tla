--------------------------- MODULE StopLifecycle ---------------------------
(***************************************************************************)
(* What the stop protocol promises a client, without the worker, the       *)
(* controls, the crashes and the recovery that provide it: the life of an  *)
(* operation id, from the request to its result.                           *)
(***************************************************************************)
EXTENDS Naturals

CONSTANTS
  Runs, Operations, None,
  BeginMayLoseReply   \* a stop request may be committed and answered with an error

VARIABLES
  stage,     \* where every operation id is in its life
  target,    \* the run it stops
  attempts   \* how many signal attempts it made

lifecycleVars == <<stage, target, attempts>>

OpenStage == {"Requested", "Reserved", "Signalled", "TimedOut"}

LifecycleInit ==
  /\ stage    = [o \in Operations |-> "Unused"]
  /\ target   = [o \in Operations |-> None]
  /\ attempts = [o \in Operations |-> 0]

Open(o) == stage[o] \in OpenStage

(* A request is taken only while its run has no other open stop.  It may *)
(* be answered with a result at once.                                    *)
Accept(o, r) ==
  /\ stage[o] = "Unused"
  /\ \A p \in Operations : target[p] = r => ~Open(p)
  /\ \E s \in {"Requested", "Resolved"} : stage' = [stage EXCEPT ![o] = s]
  /\ target' = [target EXCEPT ![o] = r]
  /\ UNCHANGED attempts

(* A force stop replaces an open stop of the same run, except one whose *)
(* attempt is made and not yet on record.                               *)
Replace(o, g) ==
  /\ stage[o] = "Unused" /\ Open(g)
  /\ stage[g] = "Reserved" => attempts[g] = 0
  /\ \E s \in {"Requested", "Resolved"} :
       stage' = [stage EXCEPT ![g] = "Replaced", ![o] = s]
  /\ target' = [target EXCEPT ![o] = target[g]]
  /\ UNCHANGED attempts

Move(o, from, to) ==
  /\ stage[o] = from
  /\ stage' = [stage EXCEPT ![o] = to]
  /\ UNCHANGED <<target, attempts>>

Reserve(o) == Move(o, "Requested", "Reserved")

(* The one signal attempt, covered by its reservation. *)
Attempt(o) ==
  /\ stage[o] = "Reserved" /\ attempts[o] = 0
  /\ attempts' = [attempts EXCEPT ![o] = 1]
  /\ UNCHANGED <<stage, target>>

(* The worker of a stop that was replaced by a request whose answer was *)
(* lost was not told, and makes the attempt it was about to make.       *)
LateAttempt(o) ==
  /\ BeginMayLoseReply
  /\ stage[o] = "Replaced" /\ attempts[o] = 0
  /\ attempts' = [attempts EXCEPT ![o] = 1]
  /\ UNCHANGED <<stage, target>>

Record(o)  == attempts[o] = 1 /\ Move(o, "Reserved", "Signalled")
TimeOut(o) == Move(o, "Signalled", "TimedOut")
Resolve(o) == \E s \in OpenStage : Move(o, s, "Resolved")

LifecycleNext ==
  \E o \in Operations :
    \/ \E r \in Runs : Accept(o, r)
    \/ \E g \in Operations : Replace(o, g)
    \/ Reserve(o)
    \/ Attempt(o)
    \/ LateAttempt(o)
    \/ Record(o)
    \/ TimeOut(o)
    \/ Resolve(o)

LifecycleSpec == LifecycleInit /\ [][LifecycleNext]_lifecycleVars

(* A run never has two open stops. *)
OneOpenStop ==
  \A o, p \in Operations : Open(o) /\ Open(p) /\ target[o] = target[p] => o = p

(* What an operation says of its signal is what happened: a stop whose *)
(* confirmation window runs has made its one attempt, a stop without a *)
(* reservation has made none.                                          *)
AttemptsAreAccountedFor ==
  \A o \in Operations :
    /\ attempts[o] <= 1
    /\ stage[o] \in {"Signalled", "TimedOut"} => attempts[o] = 1
    /\ stage[o] \in {"Unused", "Requested"} => attempts[o] = 0
=============================================================================
