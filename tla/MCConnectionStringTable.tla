------------------------ MODULE MCConnectionStringTable ------------------------
(* Instances of ConnectionStringTable for TLC.                             *)
EXTENDS ConnectionStringTable, TLC

CONSTANTS a, b, c

MCInitSeq == [s \in Side |-> 0]

(* Two of the strings begin alike, and may change places.                  *)
MCPrefix(s) == IF s \in {a, b} THEN "ab" ELSE "c"

MCSymmetry == Permutations({a, b})
=============================================================================
