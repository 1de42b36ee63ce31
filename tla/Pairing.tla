-------------------------------- MODULE Pairing -------------------------------
(***************************************************************************)
(* Which devices of two lists listCompare() pairs: those of the first list *)
(* in their order, each with the first of the second that is still there   *)
(* and for which compareDevice() returns 0.                                *)
(***************************************************************************)
EXTENDS Integers

\* The devices of a second list of length n left by the first m of the first.
SecondLeft(same, m, n) ==
  LET left[x \in 0..m] ==
        IF x = 0 THEN 1..n
        ELSE LET equal == {y \in left[x - 1] : <<x, y>> \in same}
             IN left[x - 1] \ {y \in equal : \A z \in equal : y <= z}
  IN left

\* The devices of the first list, and of the second, that have no other.
Unpaired1(same, m, n) ==
  {x \in 1..m : SecondLeft(same, m, n)[x] = SecondLeft(same, m, n)[x - 1]}
Unpaired2(same, m, n) == SecondLeft(same, m, n)[m]
=============================================================================
