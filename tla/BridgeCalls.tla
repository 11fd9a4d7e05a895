---------------------------- MODULE BridgeCalls ----------------------------
(***************************************************************************)
(* Calls over the connection of SupervisorChannel: the commands the window *)
(* gives the bridge (apps/desktop/src-tauri/src/bridge.rs), their queue,   *)
(* the table of requests that wait for an answer, and FramedIo, whose read *)
(* of a frame the bridge drops whenever something else happens first.      *)
(* What the Supervisor does with a request is not in the repository's      *)
(* sources: here it serves each and answers in any order.                  *)
(***************************************************************************)
EXTENDS SupervisorChannel

CONSTANTS
  Calls,
  KindOf,         \* what a call is: "Rpc", "Cancel" or "Reset"
  RequestId,      \* its requestId; the bridge does not rely on fresh ones
  OperationId,    \* its operationId or Nobody
  QueueCapacity   \* COMMAND_QUEUE_CAPACITY

ASSUME CallsAreDescribed ==
  /\ KindOf \in [Calls -> {"Rpc", "Cancel", "Reset"}]
  /\ DOMAIN RequestId = Calls /\ DOMAIN OperationId = Calls
  /\ \A c \in Calls : KindOf[c] = "Cancel" => OperationId[c] = Nobody
ASSUME CommandsAreQueued == QueueCapacity \in Nat \ {0}

(* asks: the calls the window makes; pending: MAX_PENDING_REQUESTS; quits: *)
(* whether the desktop may quit.                                           *)
ASSUME CallCasesAreInputs ==
  \A c \in ChannelCases :
    c.asks \subseteq Calls /\ c.pending \in Nat \ {0} /\ c.quits \in BOOLEAN

VARIABLES
  callers,  \* the commands, the pending requests, what each caller was told
  served    \* history: calls a Supervisor began to carry out

callVars == <<callers, served>>
channelVars == <<linkVars, callVars>>

CallsInit ==
  /\ callers = [queue |-> <<>>, pending |-> {}, told |-> [c \in Calls |-> "Nothing"],
                answer |-> [c \in Calls |-> Nobody]]
  /\ served = {}

ChannelInit == LinkInit /\ CallsInit

Request(c)  == [kind |-> "Request", call |-> c]
Response(c) == [kind |-> "Response", call |-> c]
Event       == [kind |-> "Event"]

Connected == bridge.at = "Connected"
Open      == bridge.at # "Closed"
----------------------------------------------------------------------------
(* The window *)

(* A oneshot: only the first word counts, and only to who still waits. *)
Told(cs, who, what) ==
  [cs EXCEPT !.told = [c \in Calls |-> IF c \in who /\ @[c] = "Asked" THEN what ELSE @[c]]]

(* enqueue: the channel is closed, it has room, or it had none for *)
(* QUEUE_WAIT                                                      *)
Ask(c) ==
  /\ c \in channelCase.asks /\ callers.told[c] = "Nothing"
  /\ LET asking == [callers EXCEPT !.told[c] = "Asked"] IN
     \/ /\ ~Open
        /\ callers' = Told(asking, {c}, "Unavailable")
     \/ /\ Open /\ Len(callers.queue) < QueueCapacity
        /\ callers' = [asking EXCEPT !.queue = Append(@, c)]
     \/ /\ Open /\ Len(callers.queue) = QueueCapacity
        /\ callers' = Told(asking, {c}, "Busy")
  /\ UNCHANGED <<linkVars, served>>

(* await_reply: the deadline of the caller, some time after the bridge's *)
CallerGivesUp(c) ==
  /\ callers.told[c] = "Asked"
  /\ callers' = Told(callers, {c}, "Timeout")
  /\ UNCHANGED <<linkVars, served>>

(* What a call hears that is not made: fail_command *)
Unmade(cs, c, error) == Told(cs, {c}, IF KindOf[c] = "Reset" THEN "Done" ELSE error)

Command == Head(callers.queue)
Taken   == [callers EXCEPT !.queue = Tail(@)]

(* Without a connection commands are answered all the same:                *)
(* wait_while_unavailable, read_token_while_serving, connect_while_serving *)
FailCommand ==
  /\ Open /\ ~Connected /\ callers.queue # <<>>
  /\ callers' = Unmade(Taken, Command, "Unavailable")
  /\ UNCHANGED <<linkVars, served>>

(* Drop of BridgeHandle: the actor returns, and with it go the connection, *)
(* the queue and the senders of every reply.                               *)
Quit ==
  /\ channelCase.quits /\ Open
  /\ links' = IF bridge.link = Nobody THEN links ELSE CloseClientEnd(links, bridge.link)
  /\ bridge' = [bridge EXCEPT !.at = "Closed", !.link = Nobody, !.version = 0]
  /\ callers' = [Told(callers, Calls, "Unavailable") EXCEPT !.queue = <<>>, !.pending = {}]
  /\ UNCHANGED <<runtime, servers, channelCase, spent, served>>
----------------------------------------------------------------------------
(* The connection ends: fail_all_pending, and the bridge begins anew. *)
EndsWith(ls, cs) ==
  /\ links' = CloseClientEnd(ls, bridge.link)
  /\ bridge' = [bridge EXCEPT !.at = "Token", !.link = Nobody, !.version = 0]
  /\ callers' = [Told(cs, cs.pending, "Unavailable") EXCEPT !.pending = {}]

FaultyDropped(got) == <<>>   \* as read_exact would

(* What is left of a frame half read when select! drops the read: FramedIo *)
(* keeps read_state outside of the future.                                 *)
Dropped(got) == got

Interrupted == [links EXCEPT ![bridge.link].gotDown = Dropped(@)]
HasCommand  == Connected /\ callers.queue # <<>>

TakeReset ==
  /\ HasCommand /\ KindOf[Command] = "Reset"
  /\ EndsWith(Interrupted, Told(Taken, {Command}, "Done"))
  /\ UNCHANGED <<runtime, servers, channelCase, spent, served>>

IsPending(id) == \E p \in callers.pending : RequestId[p] = id

Refusal ==
  IF Cardinality(callers.pending) >= channelCase.pending THEN "Busy"
  ELSE IF IsPending(RequestId[Command]) THEN "Duplicate"
  ELSE "None"

RefuseCommand ==
  /\ HasCommand /\ KindOf[Command] # "Reset" /\ Refusal # "None"
  /\ links' = Interrupted
  /\ callers' = Told(Taken, {Command}, Refusal)
  /\ UNCHANGED <<runtime, servers, bridge, channelCase, spent, served>>

(* send_request and send_cancel: the frame is written, the stream fails, *)
(* or WRITE_TIMEOUT passes with any part of it written.                  *)
SendCommand ==
  LET l == bridge.link
      ls == Interrupted
      lost == Told(Taken, {Command}, "Unavailable")
  IN
  /\ HasCommand /\ KindOf[Command] # "Reset" /\ Refusal = "None"
  /\ \/ /\ links[l].server
        /\ links' = [ls EXCEPT ![l].up = @ \o Frame(Request(Command))]
        /\ callers' = [Taken EXCEPT !.pending = @ \cup {Command}]
        /\ UNCHANGED <<bridge, spent>>
     \/ ~links[l].server /\ EndsWith(ls, lost) /\ UNCHANGED spent
     \/ /\ links[l].server /\ Spend("delays")
        /\ \E n \in 0..(FrameUnits - 1) :
             EndsWith([ls EXCEPT ![l].up = @ \o SubSeq(Frame(Request(Command)), 1, n)], lost)
  /\ UNCHANGED <<runtime, servers, channelCase, served>>

(* expire_pending *)
Expire ==
  /\ Connected
  /\ \E c \in callers.pending :
       callers' = [Told(callers, {c}, "Timeout") EXCEPT !.pending = @ \ {c}]
  /\ links' = Interrupted
  /\ UNCHANGED <<runtime, servers, bridge, channelCase, spent, served>>
----------------------------------------------------------------------------
(* The answers *)

Agrees(d, p) == OperationId[d] = OperationId[p]

(* handle_server_message.  An event goes on to the window (RevisionStream); *)
(* an answer nobody waits for any more is left alone.                       *)
Handle(m, ls) ==
  IF m.kind = "Event" \/ ~IsPending(RequestId[m.call])
  THEN links' = ls /\ UNCHANGED <<bridge, callers>>
  ELSE LET p == CHOOSE c \in callers.pending : RequestId[c] = RequestId[m.call]
           cs == [callers EXCEPT !.pending = @ \ {p}]
       IN IF Agrees(m.call, p)
          THEN /\ callers' = IF callers.told[p] = "Asked"
                             THEN [Told(cs, {p}, "Answered") EXCEPT !.answer[p] = m.call]
                             ELSE cs
               /\ links' = ls
               /\ UNCHANGED bridge
          ELSE EndsWith(ls, Told(cs, {p}, "Violation"))

(* read_payload: what has come, never beyond the end of a frame *)
ReadUnit ==
  /\ Connected /\ links[bridge.link].down # <<>>
  /\ LET l == bridge.link
         got == Append(links[l].gotDown, Head(links[l].down))
         ls == [links EXCEPT ![l].down = Tail(@), ![l].gotDown = got]
     IN IF Len(got) < FrameUnits
        THEN links' = ls /\ UNCHANGED <<bridge, callers>>
        ELSE Handle(Message(got), [ls EXCEPT ![l].gotDown = <<>>])
  /\ UNCHANGED <<runtime, servers, channelCase, spent, served>>

(* The stream ends, in a frame or between two. *)
LoseServer ==
  /\ Connected /\ links[bridge.link].down = <<>> /\ ~links[bridge.link].server
  /\ EndsWith(links, callers)
  /\ UNCHANGED <<runtime, servers, channelCase, spent, served>>
----------------------------------------------------------------------------
(* The Supervisor's end of a session *)

(* accept_client_payload: a frame that is cut short is never taken up *)
ServeRequest(l) ==
  /\ Arrived(links[l].up)
  /\ links' = [links EXCEPT ![l].up = Rest(@), ![l].work = @ \cup {Message(links[l].up).call}]
  /\ served' = served \cup {Message(links[l].up).call}
  /\ UNCHANGED spent

(* send_response_success, send_response_error *)
AnswerRequest(l) ==
  /\ links[l].writing = <<>> /\ links[l].client
  /\ \E c \in links[l].work :
       links' = [links EXCEPT ![l].work = @ \ {c}, ![l].writing = Frame(Response(c))]
  /\ UNCHANGED <<served, spent>>

SendEvent(l) ==
  /\ links[l].writing = <<>> /\ links[l].client /\ Spend("events")
  /\ links' = [links EXCEPT ![l].writing = Frame(Event)]
  /\ UNCHANGED served

WriteUnit(l) ==
  /\ links[l].writing # <<>> /\ links[l].client
  /\ links' = [links EXCEPT ![l].down = Append(@, Head(links[l].writing)), ![l].writing = Tail(@)]
  /\ UNCHANGED <<served, spent>>

Serve(i) ==
  /\ \E l \in servers[i].active :
       ServeRequest(l) \/ AnswerRequest(l) \/ SendEvent(l) \/ WriteUnit(l)
  /\ UNCHANGED <<runtime, servers, bridge, channelCase, callers>>
----------------------------------------------------------------------------
CommandStep == FailCommand \/ TakeReset \/ RefuseCommand \/ SendCommand
ReadStep    == ReadUnit \/ LoseServer
CallStep    == \E c \in Calls : Ask(c) \/ CallerGivesUp(c)

BridgeRuns    == (BridgeStep /\ UNCHANGED callVars) \/ ReadStep \/ Expire
Supervises(i) == Serve(i) \/ (ServerStep(i) /\ UNCHANGED callVars)

(* Until the window asks for more, or for ever *)
Rests ==
  /\ ~Open \/ (Connected /\ callers.queue = <<>> /\ callers.pending = {})
  /\ UNCHANGED channelVars

ChannelNext ==
  \/ \E i \in Supervisors : Supervises(i) \/ (Misfortune(i) /\ UNCHANGED callVars)
  \/ BridgeRuns \/ CommandStep \/ CallStep \/ Quit \/ Rests

(* The bridge and each Supervisor run; whether one is started, stopped or *)
(* dies, and which timer is early, is left open.                          *)
ChannelFairness ==
  /\ WF_channelVars(BridgeRuns)
  /\ WF_channelVars(CommandStep)
  /\ \A i \in Supervisors : WF_channelVars(Supervises(i))
----------------------------------------------------------------------------
(* What the desktop can rely on *)

(* The units of a stream are those of whole frames, in order; the last one *)
(* may be cut short.                                                       *)
InStep(units) ==
  \A k \in DOMAIN units :
    /\ units[k].unit = ((k - 1) % FrameUnits) + 1
    /\ units[k].unit > 1 => units[k].of = units[k - 1].of

StreamsAreInStep ==
  \A l \in Links : InStep(links[l].gotDown \o links[l].down) /\ InStep(links[l].up)

AnswersAreTheirs ==
  \A c \in Calls :
    /\ callers.told[c] = "Answered" =>
         LET d == callers.answer[c] IN
         d \in served /\ RequestId[d] = RequestId[c] /\ OperationId[d] = OperationId[c]
    /\ callers.told[c] \in {"Busy", "Duplicate"} => c \notin served

RequestsArePending ==
  /\ ~Connected => callers.pending = {}
  /\ Cardinality(callers.pending) <= channelCase.pending
  /\ \A c, d \in callers.pending : RequestId[c] = RequestId[d] => c = d

(* What passes between a window and a Supervisor is genuine, across        *)
(* restarts, crashes, other builds, reads that are dropped half-way,       *)
(* writes that time out half-way and answers that come late: the           *)
(* Supervisor in service is the one the runtime directory names, both ends *)
(* of a session proved they know its token, neither ever takes the middle  *)
(* of a frame for its beginning, an answer reaches the call with its       *)
(* request and operation and no other, a call that was refused is never    *)
(* carried out, and none is left pending on a connection that is gone.     *)
ConversationsAreGenuine ==
  ServersAreFound /\ SessionsAreMutual /\ StreamsAreInStep /\ AnswersAreTheirs /\ RequestsArePending

Compatible(i) == Common(channelCase.offers, channelCase.versions[i]) # {}

(* The bridge finds every Supervisor that stays in service and speaks one *)
(* of its versions, whatever token, socket or half a handshake an earlier *)
(* one left behind; and every call is told something.                     *)
NobodyWaitsForever ==
  /\ \A i \in Supervisors :
       (Serving(i) /\ Compatible(i)) ~> (Connected \/ ~Open \/ ~Serving(i))
  /\ \A c \in Calls : (callers.told[c] = "Asked") ~> (callers.told[c] # "Asked")
=============================================================================
