-------------------------- MODULE MCRevisionStream --------------------------
(***************************************************************************)
(* Instances of RevisionStream that one run takes together: snapshots of   *)
(* two pages under every kind of change, lost answers and expired sessions *)
(* over one connection; and three connections over which a store with the  *)
(* smallest buffers follows single changes.                                *)
(***************************************************************************)
EXTENDS RevisionStream, SequencesExt

Sequences3(S) == UNION {[1..n -> S] : n \in 0..3}

(* Filtered keeps what a filter keeps, in its order. *)
ASSUME FilteredIsTheFilter ==
  \A events \in Sequences3(1..3), least \in 1..3 :
    Filtered(events, {i \in DOMAIN events : events[i] >= least}) =
      SelectSeq(events, LAMBDA e : e >= least)

(* Replay is one change applied after the other, as the loop of *)
(* acceptSnapshot applies them.                                 *)
ASSUME ReplayIsTheLoop ==
  \A state \in [1..2 -> 0..1],
     changes \in Sequences3([kind : {"Upsert", "Remove"}, key : 1..2] \cup {Log}) :
    LET events == [i \in DOMAIN changes |-> [revision |-> 1 + i, change |-> changes[i]]]
    IN Replay(state, events) =
         FoldLeft(LAMBDA s, e : Apply(s, e.change, e.revision), state, events)

StreamScenarios ==
  {[changes |-> {[kind |-> "Upsert", key |-> 2], [kind |-> "Remove", key |-> 2], Log},
    pages |-> 2, revision |-> 2, capacity |-> 1, buffer |-> 2, slots |-> 2,
    generations |-> 1, faults |-> 1, inbox |-> 2],
   [changes |-> {[kind |-> "Upsert", key |-> 1]},
    pages |-> 1, revision |-> 2, capacity |-> 1, buffer |-> 1, slots |-> 2,
    generations |-> 3, faults |-> 0, inbox |-> 2]}
=============================================================================
