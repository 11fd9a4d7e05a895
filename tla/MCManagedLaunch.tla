-------------------------- MODULE MCManagedLaunch --------------------------
(***************************************************************************)
(* Two launches contend for one place in the table of controls; a crash    *)
(* separates them or falls inside either.  The same run takes three more   *)
(* small systems: the rows that launches, stops and restarts leave, with   *)
(* the stamps of a clock that may go backwards (RunRows), the lists that   *)
(* are read in pages (CatalogPages), and what a launch opens and closes    *)
(* (ChildHandles).  "part" says which moves.                               *)
(***************************************************************************)
EXTENDS ManagedLaunch, RunRows, CatalogPages, ChildHandles, TLC

VARIABLE part

InLaunch(A)  == part = "Launch" /\ A /\ UNCHANGED <<rowVars, pageVars, handleVars, part>>
InRows(A)    == part = "Rows" /\ A /\ UNCHANGED <<vars, pageVars, handleVars, part>>
InPages(A)   == part = "Pages" /\ A /\ UNCHANGED <<vars, rowVars, handleVars, part>>
InHandles(A) == part = "Handles" /\ A /\ UNCHANGED <<vars, rowVars, pageVars, part>>

AnyList == CHOOSE l \in Lists : TRUE
AnyMachine == CHOOSE m \in Machines : TRUE

LaunchesInit ==
  /\ Init /\ RowsInit /\ PagesInit /\ HandlesInit
  /\ part \in {"Launch", "Rows", "Pages", "Handles"}
  /\ part # "Launch" => platform = "macOS"
  /\ part # "Pages" => list = AnyList
  /\ part # "Handles" => machine = AnyMachine
LaunchesNext ==
  InLaunch(Next) \/ InRows(RowsNext) \/ InPages(PagesNext) \/ InHandles(HandlesNext)
LaunchesSpec ==
  LaunchesInit /\ [][LaunchesNext]_<<vars, rowVars, pageVars, handleVars, part>>

(* One whole cycle of the calendar, from 1970 on *)
Cycle == 0..146096

(* Names that hold a separator, begin with a digit or with a character of *)
(* two bytes; identifiers that could be the end of a name; a page that is *)
(* cut short by the most a reader shows, and one that cannot be sent.     *)
Short  == <<97>>          \* a
Double == <<97, 97>>      \* aa
Barred == <<124, 49>>     \* |1
Accent == <<195, 169>>    \* e with an acute accent
PageIds == {Short, Double, Barred}

Listing(kind, initial, keys, limit, capacity) ==
  [kind |-> kind, initial |-> initial, keys |-> keys, limit |-> limit, capacity |-> capacity,
   wire |-> 2, large |-> {}, changes |-> 2, loads |-> 1, failures |-> 0]
Names == Short :> Short @@ Double :> Barred @@ Barred :> Accent
PageLists ==
  {Listing("Projects", Names, {Short, Double, Accent}, 1, 3),
   [Listing("Projects", Names, {Short}, 2, 4) EXCEPT !.large = {Double}, !.changes = 1],
   [Listing("Profiles", Names, {Double, Barred}, 1, 2) EXCEPT !.loads = 2, !.changes = 1, !.failures = 1],
   Listing("Rules", Short :> -1 @@ Double :> 10 @@ Barred :> 10, {-1, 2, 10}, 2, 4),
   [Listing("Rules", Short :> -1 @@ Double :> 10, {-1, 10}, 1, 4) EXCEPT !.changes = 3],
   Listing("History", Short :> Short @@ Barred :> Short, {Short, Double}, 1, 2),
   [Listing("History", Short :> Short, {Short, Double}, 2, 3) EXCEPT !.loads = 2, !.failures = 1]}

LaunchMachines == [os : {"macOS", "Windows"}, stdio : {"Pipes", "Terminal"}]

Symmetry ==
  Permutations(Runs) \cup Permutations(RowStops) \cup Permutations(Children)
=============================================================================
