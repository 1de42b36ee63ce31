---------------------------- MODULE DeviceMatching ----------------------------
(***************************************************************************)
(* What listCompare() promises its caller: it pairs devices of the first   *)
(* list with devices of the second that compare equal to them, each device *)
(* at most once, until no two devices left over compare equal.  The left   *)
(* over devices are what disappeared and what is new.                      *)
(***************************************************************************)
EXTENDS Integers

CONSTANTS N1, N2      \* the lengths of the two lists

VARIABLES
  same,         \* the pairs for which compareDevice() returns 0
  left1, left2, \* the devices not paired
  done

vars == <<same, left1, left2, done>>

Init ==
  /\ same \in SUBSET ((1..N1) \X (1..N2))
  /\ left1 = 1..N1 /\ left2 = 1..N2 /\ done = FALSE

Pair ==
  /\ ~done
  /\ \E x \in left1, y \in left2 :
       /\ <<x, y>> \in same
       /\ left1' = left1 \ {x} /\ left2' = left2 \ {y}
  /\ UNCHANGED <<same, done>>

Finish ==
  /\ ~done
  /\ \A x \in left1, y \in left2 : <<x, y>> \notin same
  /\ done' = TRUE
  /\ UNCHANGED <<same, left1, left2>>

Next == Pair \/ Finish

Spec == Init /\ [][Next]_vars
=============================================================================
