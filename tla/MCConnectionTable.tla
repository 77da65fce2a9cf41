--------------------------- MODULE MCConnectionTable ---------------------------
(* An instance of ConnectionTable for TLC: addresses that meet at the end   *)
(* of the table before and after it has grown to 11 slots.                 *)
EXTENDS ConnectionTable, TLC

CONSTANTS c1, c2, c3, c4, c5

MCHash == <<9, 10, 20, 21, 24>>

\* All different, and with two connections to one address.
MCAddresses ==
  {c1 :> 1 @@ c2 :> 2 @@ c3 :> 3 @@ c4 :> 4 @@ c5 :> last : last \in {5, 1, 4}}
=============================================================================
