------------------------- MODULE SupervisorChannel -------------------------
(***************************************************************************)
(* How the desktop finds the Supervisor and comes to trust it: the lock,   *)
(* the session token and the endpoint of the runtime directory             *)
(* (crates/supervisor/src/lib.rs), the listeners of both platforms         *)
(* (macos_unix_socket.rs, windows_named_pipe.rs), the handshake            *)
(* (crates/protocol: handshake.rs, session.rs, async_io.rs), and the loop  *)
(* of the bridge that reads the token, connects, backs off and tries again *)
(* (bridge.rs).  What is said over an established connection is in         *)
(* BridgeCalls.                                                            *)
(***************************************************************************)
EXTENDS Naturals, FiniteSets, Sequences

CONSTANTS
  Nobody,
  Supervisors,     \* processes, in the order they are started; each names its token
  Links,           \* connections; one is used again when both ends have closed it
  FrameUnits,      \* what a frame is cut into on its way, its header among them
  MaxConnections,  \* MAX_ACTIVE_CONNECTIONS
  ChannelCases     \* a behaviour keeps to one of them

ASSUME NobodyIsElsewhere == Nobody \notin Supervisors \cup Links
ASSUME SupervisorsAreNumbered == Supervisors \subseteq Nat \ {0} /\ Links \subseteq Nat
ASSUME FramesHaveAHeader == FrameUnits \in Nat \ {0, 1}
ASSUME ConnectionsAreAllowed == MaxConnections \in Nat \ {0}

(* platform: macOS or Windows.  versions: what each Supervisor speaks, who *)
(* may be of another build; offers: what the bridge speaks.  ends,         *)
(* delays, faults and events bound how many Supervisors stop or crash, how *)
(* many timers fire, how many system calls fail and what is published.     *)
ASSUME ChannelCasesAreInputs ==
  \A c \in ChannelCases :
    /\ c.platform \in {"macOS", "Windows"}
    /\ DOMAIN c.versions \subseteq Supervisors
    /\ {c.ends, c.delays, c.faults, c.events} \subseteq Nat

VARIABLES
  runtime,       \* the runtime directory
  servers,       \* the Supervisors
  links,         \* connections
  bridge,        \* run_bridge_actor and its connector
  channelCase,
  spent          \* of the bounds

linkVars == <<runtime, servers, links, bridge, channelCase, spent>>

(* A connection: what is under way to the Supervisor and to the desktop,   *)
(* which ends are open, what the desktop's FramedIo has of its next frame, *)
(* the version of the server's session, the calls it has not answered, and *)
(* what is left to write of an answer.                                     *)
Free == [up |-> <<>>, down |-> <<>>, client |-> FALSE, server |-> FALSE,
         gotDown |-> <<>>, version |-> 0, work |-> {}, writing |-> <<>>]

Dialled == [Free EXCEPT !.client = TRUE, !.server = TRUE]

LinkInit ==
  /\ channelCase \in ChannelCases
  /\ runtime = [lock |-> Nobody, token |-> Nobody, temporary |-> Nobody, endpoint |-> Nobody]
  /\ servers = [i \in Supervisors |-> [at |-> "Off", queue |-> <<>>, link |-> Nobody, active |-> {}]]
  /\ links = [l \in Links |-> Free]
  /\ bridge = [at |-> "Token", token |-> Nobody, link |-> Nobody, version |-> 0]
  /\ spent = [ends |-> 0, delays |-> 0, faults |-> 0, events |-> 0]

Spend(what) == spent[what] < channelCase[what] /\ spent' = [spent EXCEPT ![what] = @ + 1]
----------------------------------------------------------------------------
(* Frames and messages *)

(* encode_frame *)
Frame(m) == [k \in 1..FrameUnits |-> [of |-> m, unit |-> k]]

Hello(versions) == [kind |-> "Hello", versions |-> versions]
Challenge(version, proof) == [kind |-> "Challenge", version |-> version, proof |-> proof]
ClientProof(proof) == [kind |-> "Proof", proof |-> proof]
Accepted(version) == [kind |-> "Accepted", version |-> version]
Rejected(code) == [kind |-> "Rejected", code |-> code]

(* handshake_proof.  The nonces are left out: no message of a connection *)
(* is seen on another one.                                               *)
ProofBy(token, role, version, offered) ==
  [token |-> token, role |-> role, version |-> version, offered |-> offered]

(* negotiate_version *)
Common(offered, spoken) == offered \cap spoken
Negotiated(offered, spoken) ==
  CHOOSE v \in Common(offered, spoken) : \A w \in Common(offered, spoken) : w <= v

(* During the handshake a frame is written and read as a whole. *)
Arrived(units) == Len(units) >= FrameUnits
Message(units) == units[1].of
Rest(units) == SubSeq(units, FrameUnits + 1, Len(units))

(* An end is dropped: the other one may still read what is under way. *)
CloseServerEnd(ls, gone) ==
  [l \in Links |-> IF l \notin gone THEN ls[l] ELSE IF ~ls[l].client THEN Free
                   ELSE [ls[l] EXCEPT !.server = FALSE, !.up = <<>>, !.work = {}, !.writing = <<>>]]
CloseClientEnd(ls, l) ==
  [ls EXCEPT ![l] = IF ~@.server THEN Free
                    ELSE [@ EXCEPT !.client = FALSE, !.down = <<>>, !.gotDown = <<>>]]
----------------------------------------------------------------------------
(* A Supervisor takes the runtime directory *)

Serving(i) == servers[i].at \in {"Accepting", "Hello", "Proof"}

Goes(i, at) == servers' = [servers EXCEPT ![i].at = at]

(* SupervisorInstanceGuard::acquire: try_lock, or Conflict *)
Acquire(i) ==
  /\ servers[i].at = "Off" /\ i \in DOMAIN channelCase.versions
  /\ \A j \in Supervisors : j < i => servers[j].at # "Off"
  /\ IF runtime.lock = Nobody
     THEN Goes(i, "Locked") /\ runtime' = [runtime EXCEPT !.lock = i]
     ELSE Goes(i, "Gone") /\ UNCHANGED runtime
  /\ UNCHANGED <<links, bridge, channelCase, spent>>

(* write_session_token, up to the temporary file *)
WriteTemporary(i) ==
  /\ servers[i].at = "Locked"
  /\ runtime' = [runtime EXCEPT !.temporary = i]
  /\ Goes(i, "Written")
  /\ UNCHANGED <<links, bridge, channelCase, spent>>

(* atomic_replace *)
PublishToken(i) ==
  /\ servers[i].at = "Written"
  /\ runtime' = [runtime EXCEPT !.temporary = Nobody, !.token = i]
  /\ Goes(i, "Guarded")
  /\ UNCHANGED <<links, bridge, channelCase, spent>>

(* A step of it fails: the temporary file goes, the token stays what it *)
(* was or, when only the flush of the directory failed, is the new one; *)
(* the lock goes with the file.                                         *)
TokenFails(i) ==
  /\ servers[i].at \in {"Locked", "Written"} /\ Spend("faults")
  /\ \E token \in {runtime.token} \cup (IF servers[i].at = "Written" THEN {i} ELSE {}) :
       runtime' = [runtime EXCEPT !.temporary = Nobody, !.token = token, !.lock = Nobody]
  /\ Goes(i, "Gone")
  /\ UNCHANGED <<links, bridge, channelCase>>

(* remove_stale_endpoint: a socket of a Supervisor that crashed *)
RemoveStale(i) ==
  /\ servers[i].at = "Guarded" /\ channelCase.platform = "macOS"
  /\ runtime' = [runtime EXCEPT !.endpoint = Nobody]
  /\ Goes(i, "Clear")
  /\ UNCHANGED <<links, bridge, channelCase, spent>>

(* MacOsUnixSocketListener::bind *)
BindSocket(i) ==
  /\ servers[i].at = "Clear" /\ runtime.endpoint = Nobody
  /\ runtime' = [runtime EXCEPT !.endpoint = i]
  /\ Goes(i, "Accepting")
  /\ UNCHANGED <<links, bridge, channelCase, spent>>

(* bind_current_process: the first instance of the pipe *)
BindPipe(i) ==
  /\ channelCase.platform = "Windows"
  /\ servers[i].at = "Guarded" /\ runtime.endpoint = Nobody
  /\ runtime' = [runtime EXCEPT !.endpoint = i]
  /\ Goes(i, "Accepting")
  /\ UNCHANGED <<links, bridge, channelCase, spent>>

(* The socket cannot be inspected or secured, and may stay behind. *)
BindFails(i) ==
  /\ servers[i].at = "Clear" /\ Spend("faults")
  /\ \E left \in {Nobody, i} : runtime' = [runtime EXCEPT !.endpoint = left]
  /\ Goes(i, "Closing")
  /\ UNCHANGED <<links, bridge, channelCase>>

LinksOf(s) == s.active \cup {s.queue[k] : k \in DOMAIN s.queue} \cup ({s.link} \ {Nobody})

Hangs(i, at) ==   \* and everything it had open
  /\ links' = CloseServerEnd(links, LinksOf(servers[i]))
  /\ servers' = [servers EXCEPT ![i] = [at |-> at, queue |-> <<>>, link |-> Nobody, active |-> {}]]

WithoutEndpointOf(i) == IF runtime.endpoint = i THEN Nobody ELSE runtime.endpoint

(* Drop of the listener: remove_if_matching, or the handles of the pipe *)
Retire(i) ==
  /\ Serving(i) /\ Spend("ends")
  /\ runtime' = [runtime EXCEPT !.endpoint = WithoutEndpointOf(i)]
  /\ Hangs(i, "Closing")
  /\ UNCHANGED <<bridge, channelCase>>

(* Drop of SupervisorInstanceGuard: the token goes, then the lock *)
DropGuard(i) ==
  /\ servers[i].at \in {"Closing", "Unlocking"}
  /\ IF servers[i].at = "Closing"
     THEN runtime' = [runtime EXCEPT !.token = Nobody] /\ Goes(i, "Unlocking")
     ELSE runtime' = [runtime EXCEPT !.lock = Nobody] /\ Goes(i, "Gone")
  /\ UNCHANGED <<links, bridge, channelCase, spent>>

(* The process dies: its lock, its handles and the pipe go with it; files *)
(* stay, a socket among them.                                             *)
Die(i) ==
  /\ servers[i].at \notin {"Off", "Gone"} /\ Spend("ends")
  /\ runtime' = [runtime EXCEPT
       !.lock = IF @ = i THEN Nobody ELSE @,
       !.endpoint = IF channelCase.platform = "Windows" THEN WithoutEndpointOf(i) ELSE @]
  /\ Hangs(i, "Gone")
  /\ UNCHANGED <<bridge, channelCase>>
----------------------------------------------------------------------------
(* accept_authenticated and authenticate_server, called in a loop *)

(* A permit is free: the listener takes the next connection.  On Windows *)
(* another instance of the pipe replaces the one that was taken, which   *)
(* may fail, and then the endpoint is away until the next call           *)
(* (take_connected_and_replenish, ensure_pending_instance).              *)
AcceptNext(i) ==
  LET s == servers[i] IN
  /\ s.at = "Accepting" /\ s.queue # <<>> /\ Cardinality(s.active) < MaxConnections
  /\ servers' = [servers EXCEPT ![i].at = "Hello", ![i].link = Head(s.queue), ![i].queue = Tail(@)]
  /\ UNCHANGED <<runtime, links, bridge, channelCase, spent>>

ReplenishFails(i) ==
  LET s == servers[i] IN
  /\ s.at = "Accepting" /\ s.queue # <<>> /\ Cardinality(s.active) < MaxConnections
  /\ channelCase.platform = "Windows" /\ Spend("faults")
  /\ links' = CloseServerEnd(links, {Head(s.queue)})
  /\ servers' = [servers EXCEPT ![i].queue = Tail(@)]
  /\ runtime' = [runtime EXCEPT !.endpoint = WithoutEndpointOf(i)]
  /\ UNCHANGED <<bridge, channelCase>>

(* The peer cannot be inspected or is not this user's: the connection is *)
(* closed unread.                                                        *)
RejectPeer(i) ==
  LET s == servers[i] IN
  /\ s.at = "Accepting" /\ s.queue # <<>> /\ Cardinality(s.active) < MaxConnections
  /\ Spend("faults")
  /\ links' = CloseServerEnd(links, {Head(s.queue)})
  /\ servers' = [servers EXCEPT ![i].queue = Tail(@)]
  /\ UNCHANGED <<runtime, bridge, channelCase>>

EnsurePending(i) ==
  /\ channelCase.platform = "Windows" /\ servers[i].at = "Accepting"
  /\ Cardinality(servers[i].active) < MaxConnections
  /\ runtime.endpoint = Nobody
  /\ runtime' = [runtime EXCEPT !.endpoint = i]
  /\ UNCHANGED <<servers, links, bridge, channelCase, spent>>

(* The handshake of the connection in hand ends without a session. *)
Refuses(i, ls) ==
  /\ links' = CloseServerEnd(ls, {servers[i].link})
  /\ servers' = [servers EXCEPT ![i].at = "Accepting", ![i].link = Nobody]

Sends(l, m) == [links EXCEPT ![l].down = @ \o Frame(m)]

(* ServerHandshake::accept_client_payload, create_server_challenge.  A *)
(* write to an end that is closed fails.                               *)
ReceiveHello(i) ==
  LET l == servers[i].link
      offered == Message(links[l].up).versions
      spoken == channelCase.versions[i]
      v == Negotiated(offered, spoken)
      ls == [links EXCEPT ![l].up = Rest(@)]
  IN
  /\ servers[i].at = "Hello" /\ Arrived(links[l].up)
  /\ IF ~links[l].client THEN Refuses(i, ls)
     ELSE IF Common(offered, spoken) = {}
     THEN Refuses(i, [ls EXCEPT ![l].down = @ \o Frame(Rejected("IncompatibleVersion"))])
     ELSE /\ links' = [ls EXCEPT ![l].version = v,
                         ![l].down = @ \o Frame(Challenge(v, ProofBy(i, "server", v, offered)))]
          /\ servers' = [servers EXCEPT ![i].at = "Proof"]
  /\ UNCHANGED <<runtime, bridge, channelCase, spent>>

(* verify_client_proof, over the offer the server received *)
ProvesClient(i, m, v) == m.proof = ProofBy(i, "client", v, channelCase.offers)

(* ServerAwaitingProof::accept_client_payload *)
ReceiveProof(i) ==
  LET l == servers[i].link
      v == links[l].version
      ls == [links EXCEPT ![l].up = Rest(@)]
  IN
  /\ servers[i].at = "Proof" /\ Arrived(links[l].up)
  /\ IF links[l].client /\ ProvesClient(i, Message(links[l].up), v)
     THEN /\ links' = [ls EXCEPT ![l].down = @ \o Frame(Accepted(v))]
          /\ servers' = [servers EXCEPT ![i].at = "Accepting", ![i].link = Nobody,
                                        ![i].active = @ \cup {l}]
     ELSE Refuses(i, [ls EXCEPT ![l].down = IF ls[l].client
                                            THEN @ \o Frame(Rejected("AuthenticationFailed")) ELSE @])
  /\ UNCHANGED <<runtime, bridge, channelCase, spent>>

(* The other end closed, or HANDSHAKE_TIMEOUT passed. *)
GiveUpHandshake(i) ==
  LET l == servers[i].link IN
  /\ servers[i].at \in {"Hello", "Proof"}
  /\ \/ ~links[l].client /\ ~Arrived(links[l].up) /\ UNCHANGED spent
     \/ Spend("delays")
  /\ Refuses(i, links)
  /\ UNCHANGED <<runtime, bridge, channelCase>>

(* Whoever serves a session ends when its stream does, which frees the *)
(* permit (Drop of AuthenticatedServerSocket).                         *)
SessionEnds(i) ==
  \E l \in servers[i].active :
    /\ ~links[l].client /\ ~Arrived(links[l].up)
    /\ links' = CloseServerEnd(links, {l})
    /\ servers' = [servers EXCEPT ![i].active = @ \ {l}]
    /\ UNCHANGED <<runtime, bridge, channelCase, spent>>
----------------------------------------------------------------------------
(* The bridge looks for the Supervisor *)

FaultyAfterFailure(at) == IF at \in {"Challenge", "Acceptance"} THEN "Backoff" ELSE "Waiting"

(* connect_while_serving: whatever ended the attempt, the bridge waits and *)
(* begins with the token (ConnectOutcome::Retry).                          *)
AfterFailure(at) == "Waiting"

GivesUp(ls) ==
  /\ links' = IF bridge.link = Nobody THEN ls ELSE CloseClientEnd(ls, bridge.link)
  /\ bridge' = [bridge EXCEPT !.at = AfterFailure(@), !.link = Nobody, !.version = 0]

(* read_token_while_serving: a task that may take too long *)
ReadToken ==
  /\ bridge.at = "Token"
  /\ \/ /\ bridge' = IF runtime.token = Nobody THEN [bridge EXCEPT !.at = "Waiting", !.token = Nobody]
                     ELSE [bridge EXCEPT !.at = "Connecting", !.token = runtime.token]
        /\ UNCHANGED spent
     \/ Spend("delays") /\ bridge' = [bridge EXCEPT !.at = "Waiting", !.token = Nobody]
  /\ UNCHANGED <<runtime, servers, links, channelCase>>

(* wait_while_unavailable *)
WaitIsOver ==
  /\ bridge.at = "Waiting"
  /\ bridge' = [bridge EXCEPT !.at = "Token"]
  /\ UNCHANGED <<runtime, servers, links, channelCase, spent>>

(* How many connections wait to be accepted: the pipe has one instance *)
(* that waits, the socket a backlog.                                   *)
Backlog == IF channelCase.platform = "Windows" THEN 1 ELSE 2

Reachable(i) == Serving(i) /\ runtime.endpoint = i /\ Len(servers[i].queue) < Backlog

(* connect_authenticated: once it is connected, ClientHandshake::start *)
Connect ==
  /\ bridge.at = "Connecting"
  /\ \E i \in Supervisors : \E l \in Links :
       /\ Reachable(i) /\ links[l] = Free /\ \A k \in Links : links[k] = Free => l <= k
       /\ links' = [links EXCEPT ![l] = [Dialled EXCEPT !.up = Frame(Hello(channelCase.offers))]]
       /\ servers' = [servers EXCEPT ![i].queue = Append(@, l)]
       /\ bridge' = [bridge EXCEPT !.at = "Challenge", !.link = l]
  /\ UNCHANGED <<runtime, channelCase, spent>>

(* Nobody listens or the pipe is busy: connect_authenticated tries again *)
(* after a delay.  Any other error ends it.                              *)
ConnectFails ==
  /\ bridge.at = "Connecting"
  /\ \/ /\ \A i \in Supervisors : ~Reachable(i)
        /\ bridge' = [bridge EXCEPT !.at = "Backoff"]
        /\ UNCHANGED <<links, spent>>
     \/ GivesUp(links) /\ Spend("faults")
  /\ UNCHANGED <<runtime, servers, channelCase>>

BackoffIsOver ==
  /\ bridge.at = "Backoff"
  /\ bridge' = [bridge EXCEPT !.at = "Connecting"]
  /\ UNCHANGED <<runtime, servers, links, channelCase, spent>>

(* verify_server_and_create_client_proof: a version that was offered, and *)
(* the proof of the token the bridge read                                 *)
ProvesServer(m) ==
  /\ m.version \in channelCase.offers
  /\ m.proof = ProofBy(bridge.token, "server", m.version, channelCase.offers)

(* ClientHandshake::accept_server_payload *)
ReceiveChallenge ==
  LET l == bridge.link
      m == Message(links[l].down)
      ls == [links EXCEPT ![l].down = Rest(@)]
      proof == ProofBy(bridge.token, "client", m.version, channelCase.offers)
  IN
  /\ bridge.at = "Challenge" /\ Arrived(links[l].down)
  /\ IF m.kind = "Challenge" /\ ProvesServer(m) /\ links[l].server
     THEN /\ links' = [ls EXCEPT ![l].up = @ \o Frame(ClientProof(proof))]
          /\ bridge' = [bridge EXCEPT !.at = "Acceptance", !.version = m.version]
     ELSE GivesUp(ls)
  /\ UNCHANGED <<runtime, servers, channelCase, spent>>

(* ClientAwaitingAcceptance::accept_server_payload *)
ReceiveAcceptance ==
  LET l == bridge.link
      ls == [links EXCEPT ![l].down = Rest(@)]
  IN
  /\ bridge.at = "Acceptance" /\ Arrived(links[l].down)
  /\ IF Message(links[l].down) = Accepted(bridge.version)
     THEN bridge' = [bridge EXCEPT !.at = "Connected"] /\ links' = ls
     ELSE GivesUp(ls)
  /\ UNCHANGED <<runtime, servers, channelCase, spent>>

(* The stream ended, or HANDSHAKE_TIMEOUT passed, which drops the stream. *)
LoseHandshake ==
  LET l == bridge.link IN
  /\ bridge.at \in {"Challenge", "Acceptance"}
  /\ \/ ~links[l].server /\ ~Arrived(links[l].down) /\ UNCHANGED spent
     \/ Spend("delays")
  /\ GivesUp(links)
  /\ UNCHANGED <<runtime, servers, channelCase>>
----------------------------------------------------------------------------
ServerStep(i) ==
  \/ WriteTemporary(i) \/ PublishToken(i) \/ RemoveStale(i) \/ BindSocket(i) \/ BindPipe(i) \/ DropGuard(i)
  \/ AcceptNext(i) \/ EnsurePending(i) \/ ReceiveHello(i) \/ ReceiveProof(i)
  \/ GiveUpHandshake(i) \/ SessionEnds(i)

BridgeStep ==
  \/ ReadToken \/ WaitIsOver \/ Connect \/ ConnectFails \/ BackoffIsOver
  \/ ReceiveChallenge \/ ReceiveAcceptance \/ LoseHandshake

Misfortune(i) ==
  \/ Acquire(i) \/ Retire(i) \/ Die(i) \/ TokenFails(i) \/ BindFails(i)
  \/ RejectPeer(i) \/ ReplenishFails(i)
----------------------------------------------------------------------------
(* Who may talk to whom *)

(* Whoever serves holds the lock, and nobody else's ending or beginning *)
(* took away the token or the socket by which it is found.              *)
ServersAreFound ==
  \A i \in Supervisors : Serving(i) =>
    /\ runtime.lock = i /\ runtime.token = i
    /\ runtime.endpoint = i \/ channelCase.platform = "Windows"

(* Both ends of a session made it with the token of the Supervisor that *)
(* has the connection, and in the highest version that both speak.      *)
SessionsAreMutual ==
  bridge.at = "Connected" =>
    \A i \in Supervisors : bridge.link \in LinksOf(servers[i]) =>
      /\ bridge.link \in servers[i].active
      /\ bridge.token = i
      /\ bridge.version = links[bridge.link].version
      /\ bridge.version = Negotiated(channelCase.offers, channelCase.versions[i])
=============================================================================
