--------------------------- MODULE MCParallelCopy ---------------------------
(***************************************************************************)
(* Bounds for ParallelCopy: up to four Movs with any sources among five    *)
(* locations and one immediate, and five Movs that permute the locations.  *)
(* The names of locations do not matter, so Mov i writes location i.       *)
(***************************************************************************)
EXTENDS ParallelCopy

CONSTANTS Imm, s1, s2, s3, s4, s5

Locations == <<s1, s2, s3, s4, s5>>

ListOf(s) == [i \in DOMAIN s |-> [dst |-> Locations[i], src |-> s[i]]]
AnySources == UNION {[1 .. n -> Storage \cup Immediates] : n \in 1 .. 4}
Permuted == {s \in [1 .. 5 -> Storage] : \A i, j \in 1 .. 5 : s[i] = s[j] => i = j}
SmallLists == {ListOf(s) : s \in AnySources \cup Permuted}
=============================================================================
