---------------------------- MODULE MCNetInterface ----------------------------
(* Instances of NetInterface for TLC.                                      *)
EXTENDS NetInterface

CONSTANTS A, B

Bound(starts, isArranged, ticks) ==
  [starts |-> starts, arranged |-> isArranged, ticks |-> ticks]

\* One connection while the puzzle is renewed twice, two in turn, and two
\* that are arranged.
MCScenarios == {Bound(1, 0, 2), Bound(2, 0, 0), Bound(0, 2, 0)}
=============================================================================
