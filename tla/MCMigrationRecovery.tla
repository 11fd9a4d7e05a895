------------------------ MODULE MCMigrationRecovery ------------------------
(***************************************************************************)
(* What stands between a start of the Supervisor and its first answer: its *)
(* database (MigrationRecovery), and the channel by which the desktop      *)
(* finds it, trusts it and calls it (BridgeCalls).  "part" says which      *)
(* moves.                                                                  *)
(***************************************************************************)
EXTENDS MigrationRecovery, BridgeCalls, TLC

VARIABLE part

startVars == <<vars, channelVars, part>>

InDatabase(A) == part = "Database" /\ A /\ UNCHANGED <<channelVars, part>>
InChannel(A)  == part = "Channel" /\ A /\ UNCHANGED <<vars, part>>

AnyCase == CHOOSE c \in ChannelCases : TRUE

(* The database is open, with a transaction in it. *)
OpenDatabase ==
  /\ phase = "Ready" /\ then = "Off" /\ build = Latest
  /\ dir = [EmptyDirectory EXCEPT !.main = Data(Latest, 1)]
  /\ survivors = {dir} /\ acked = 1 /\ faults = 0

StartsInit ==
  /\ ChannelInit
  /\ \/ part = "Database" /\ Init /\ channelCase = AnyCase
     \/ part = "Channel" /\ OpenDatabase
StartsNext == InDatabase(Next) \/ InChannel(ChannelNext)

(* MigrationRecovery's fairness and BridgeCalls' *)
StartsSpec ==
  /\ StartsInit /\ [][StartsNext]_startVars
  /\ WF_startVars(InDatabase(Start \/ Recover \/ Upgrade))
  /\ WF_startVars(InChannel(BridgeRuns))
  /\ WF_startVars(InChannel(CommandStep))
  /\ \A i \in Supervisors : WF_startVars(InChannel(Supervises(i)))
----------------------------------------------------------------------------
(* Two calls share a requestId, one cancels, one resets the connection. *)
ChannelKinds      == 1 :> "Rpc" @@ 2 :> "Rpc" @@ 3 :> "Cancel" @@ 4 :> "Reset"
ChannelRequests   == 1 :> 1 @@ 2 :> 1 @@ 3 :> 3 @@ 4 :> 4
ChannelOperations == 1 :> 1 @@ 2 :> 2 @@ 3 :> Nobody @@ 4 :> Nobody

One == [platform |-> "macOS", versions |-> 1 :> {1}, offers |-> {1}, ends |-> 0, delays |-> 0,
        faults |-> 0, events |-> 0, asks |-> {}, pending |-> 2, quits |-> FALSE]

(* Supervisors of several builds that stop, crash and fail, on each    *)
(* platform; late answers; a busy bridge that is reset; a desktop that *)
(* quits in the middle.                                                *)
StartCases ==
  {[One EXCEPT !.versions = 1 :> {1, 2} @@ 2 :> {2} @@ 3 :> {1}, !.ends = 2, !.delays = 1,
               !.faults = 1],
   [One EXCEPT !.platform = "Windows", !.versions = 1 :> {2} @@ 2 :> {1, 2, 3},
               !.offers = {1, 2}, !.ends = 2, !.delays = 2, !.faults = 2],
   [One EXCEPT !.asks = {1, 2}, !.ends = 1, !.delays = 1],
   [One EXCEPT !.asks = {1, 3, 4}, !.pending = 1],
   [One EXCEPT !.platform = "Windows", !.versions = 1 :> {1} @@ 2 :> {1}, !.asks = {1},
               !.ends = 1, !.events = 1, !.quits = TRUE]}
=============================================================================
