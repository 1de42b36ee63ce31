----------------------------- MODULE ListCompare ------------------------------
(***************************************************************************)
(* listCompare() of kudzu.c, link by link.                                 *)
(*                                                                         *)
(* The devices of list1 are 1..N1 and those of list2 are 1..N2, numbered   *)
(* in the order of the arrays; 0 is NULL.  compareDevice() depends on the  *)
(* bus, treats a missing field as equal to any, and is neither transitive  *)
(* nor, for PCI, symmetric: it is any relation here.                       *)
(***************************************************************************)
EXTENDS Pairing, Sequences

CONSTANTS N1, N2

ASSUME LengthAssumption == N1 \in Nat /\ N2 \in Nat

Null == 0

VARIABLES
  same,                     \* the pairs for which compareDevice() returns 0
  next1, next2,             \* the next fields of the devices
  head1, head2,
  curr1, prev1, curr2, prev2,
  notfound,
  ret1, ret2,               \* the arrays returned
  pc,
  matched                   \* the pairs taken off so far

lists == <<next1, next2, head1, head2>>
vars  == <<same, lists, curr1, prev1, curr2, prev2, notfound, ret1, ret2, pc, matched>>

\* A mutant: the last device points to the first.
LinkedInRing(n) == [x \in 1..n |-> IF x = n THEN 1 ELSE x + 1]

Linked(n) == [x \in 1..n |-> IF x = n THEN Null ELSE x + 1]
First(n)  == IF n = 0 THEN Null ELSE 1

Init ==
  /\ same \in SUBSET ((1..N1) \X (1..N2))
  /\ next1 = Linked(N1) /\ next2 = Linked(N2)
  /\ head1 = First(N1) /\ head2 = First(N2)
  /\ curr1 = First(N1) /\ prev1 = Null /\ curr2 = Null /\ prev2 = Null
  /\ notfound = 1
  /\ ret1 = <<>> /\ ret2 = <<>>
  /\ pc = "outer" /\ matched = {}

Equal(x, y) == <<x, y>> \in same

\* A mutant: the search goes on from where the last one stopped.
StartInnerNoReset ==
  /\ pc = "outer" /\ curr1 # Null
  /\ IF curr2 = Null THEN curr2' = head2 /\ prev2' = Null ELSE UNCHANGED <<curr2, prev2>>
  /\ pc' = "inner"
  /\ UNCHANGED <<same, lists, curr1, prev1, notfound, ret1, ret2, matched>>

StartInner ==
  /\ pc = "outer" /\ curr1 # Null
  /\ curr2' = head2 /\ prev2' = Null /\ pc' = "inner"
  /\ UNCHANGED <<same, lists, curr1, prev1, notfound, ret1, ret2, matched>>

Differ ==
  /\ pc = "inner" /\ curr2 # Null /\ ~Equal(curr1, curr2)
  /\ notfound' = 1
  /\ prev2' = curr2 /\ curr2' = next2[curr2]
  /\ UNCHANGED <<same, lists, curr1, prev1, ret1, ret2, pc, matched>>

\* A chain and its head once curr, which follows prev, is taken off.
HeadWithout(head, next, prev, curr) == IF prev = Null THEN next[curr] ELSE head

\* A mutant: the device before it still points to curr.
NextKept(next, prev, curr) == next

NextWithout(next, prev, curr) ==
  IF prev = Null THEN next ELSE [next EXCEPT ![prev] = next[curr]]

Match ==
  /\ pc = "inner" /\ curr2 # Null /\ Equal(curr1, curr2)
  /\ notfound' = 0
  /\ head1' = HeadWithout(head1, next1, prev1, curr1)
  /\ next1' = NextWithout(next1, prev1, curr1)
  /\ head2' = HeadWithout(head2, next2, prev2, curr2)
  /\ next2' = NextWithout(next2, prev2, curr2)
  /\ matched' = matched \cup {<<curr1, curr2>>}
  /\ pc' = "advance"
  /\ UNCHANGED <<same, curr1, prev1, curr2, prev2, ret1, ret2>>

EndInner ==
  /\ pc = "inner" /\ curr2 = Null
  /\ pc' = "advance"
  /\ UNCHANGED <<same, lists, curr1, prev1, curr2, prev2, notfound, ret1, ret2, matched>>

\* notfound keeps the result of the last comparison made, which is not one
\* of curr1's when the second list is empty.
Advance ==
  /\ pc = "advance"
  /\ prev1' = IF notfound # 0 THEN curr1 ELSE prev1
  /\ curr1' = next1[curr1]
  /\ pc' = "outer"
  /\ UNCHANGED <<same, lists, curr2, prev2, notfound, ret1, ret2, matched>>

StartReturn ==
  /\ pc = "outer" /\ curr1 = Null
  /\ curr1' = head1 /\ curr2' = head2 /\ pc' = "return"
  /\ UNCHANGED <<same, lists, prev1, prev2, notfound, ret1, ret2, matched>>

Return1 ==
  /\ pc = "return" /\ curr1 # Null
  /\ ret1' = Append(ret1, curr1) /\ curr1' = next1[curr1]
  /\ UNCHANGED <<same, lists, prev1, curr2, prev2, notfound, ret2, pc, matched>>

Return2 ==
  /\ pc = "return" /\ curr1 = Null /\ curr2 # Null
  /\ ret2' = Append(ret2, curr2) /\ curr2' = next2[curr2]
  /\ UNCHANGED <<same, lists, curr1, prev1, prev2, notfound, ret1, pc, matched>>

Return ==
  /\ pc = "return" /\ curr1 = Null /\ curr2 = Null
  /\ pc' = "done"
  /\ UNCHANGED <<same, lists, curr1, prev1, curr2, prev2, notfound, ret1, ret2, matched>>

Next ==
  \/ StartInner \/ Differ \/ Match \/ EndInner \/ Advance
  \/ StartReturn \/ Return1 \/ Return2 \/ Return

Spec == Init /\ [][Next]_vars /\ WF_vars(Next)

\* 1 when the lists differ.
Changed == IF head1 # Null \/ head2 # Null THEN 1 ELSE 0

-----------------------------------------------------------------------------
(* Properties *)

left1 == {x \in 1..N1 : \A y \in 1..N2 : <<x, y>> \notin matched}
left2 == {y \in 1..N2 : \A x \in 1..N1 : <<x, y>> \notin matched}

\* The links point to devices or to NULL, and only equal devices are paired.
TypeOK ==
  /\ same \subseteq (1..N1) \X (1..N2)
  /\ next1 \in [1..N1 -> 0..N1] /\ next2 \in [1..N2 -> 0..N2]
  /\ {head1, curr1, prev1} \subseteq 0..N1
  /\ {head2, curr2, prev2} \subseteq 0..N2
  /\ notfound \in {0, 1}
  /\ ret1 \in Seq(1..N1) /\ ret2 \in Seq(1..N2)
  /\ pc \in {"outer", "inner", "advance", "return", "done"}
  /\ matched \subseteq same

Increasing(s) == \A x, y \in DOMAIN s : x < y => s[x] < s[y]

\* y follows x in a chain whose members are S: the least member above x.
Follows(S, x, y) ==
  \/ y = Null /\ \A z \in S : z <= x
  \/ y \in S /\ x < y /\ \A z \in S : z <= x \/ y <= z

\* The arrays returned hold, in the order of the lists, the devices that
\* were not paired, and the lists are reported equal when there are none.
\* Taking a device off the wrong place would drop or keep another one.
ReturnedAreLeft ==
  pc = "done" =>
    /\ {ret1[x] : x \in DOMAIN ret1} = left1 /\ {ret2[x] : x \in DOMAIN ret2} = left2
    /\ Increasing(ret1) /\ Increasing(ret2)
    /\ Changed = 0 <=> left1 = {} /\ left2 = {}

\* The devices left are those that pairing first with first leaves.
PairsFirstWithFirst ==
  pc = "done" => left1 = Unpaired1(same, N1, N2) /\ left2 = Unpaired2(same, N1, N2)

\* No two of the devices returned compare equal: nothing that is still
\* there is reported both as gone and as new.
NoPairLeft ==
  pc = "done" => \A x \in DOMAIN ret1, y \in DOMAIN ret2 : <<ret1[x], ret2[y]>> \notin same

\* No device is paired twice.
PairedOnce ==
  \A p, q \in matched : p # q => p[1] # q[1] /\ p[2] # q[2]

\* listCompare() implements the pairing: each step takes two devices that
\* compare equal off both lists, or finds that there are none, or is none of
\* the pairing's business.
Matching == INSTANCE DeviceMatching WITH done <- pc \in {"return", "done"}
MatchingSpec == Matching!Spec

\* It returns, whatever compareDevice() answers.
Returns == <>(pc = "done")

\* The inductive invariant.  The links and heads chain the devices not
\* paired; prev1 and prev2 precede curr1 and curr2 in the chains.  Once the
\* second list is empty notfound is stale and prev1 stays behind, but then
\* nothing more is taken off.
Chains ==
  /\ Follows(left1, 0, head1) /\ Follows(left2, 0, head2)
  /\ \A x \in left1 : Follows(left1, x, next1[x])
  /\ \A y \in left2 : Follows(left2, y, next2[y])

Before(S, prev, curr) ==
  /\ prev = Null \/ prev \in S
  /\ \A z \in S : z <= prev \/ z >= curr
  /\ prev < curr

Outer ==
  pc \in {"outer", "inner", "advance"} =>
    /\ curr1 # Null /\ pc # "advance" => curr1 \in left1
    /\ curr1 # Null /\ left2 # {} => Before(left1, prev1, curr1)
    /\ \A x \in left1, y \in left2 : curr1 = Null \/ x < curr1 => <<x, y>> \notin same

Inner ==
  pc = "inner" =>
    /\ curr1 # Null
    /\ curr2 # Null => curr2 \in left2 /\ Before(left2, prev2, curr2)
    /\ \A y \in left2 : curr2 = Null \/ y < curr2 => <<curr1, y>> \notin same
    /\ left2 # {} /\ curr2 # head2 => notfound = 1

Advancing ==
  pc = "advance" =>
    /\ curr1 # Null /\ Follows(left1, curr1, next1[curr1])
    /\ curr1 \in left1 => /\ \A y \in left2 : <<curr1, y>> \notin same
                          /\ left2 # {} => notfound = 1
    /\ curr1 \notin left1 => notfound = 0

Copied(ret, S, curr) ==
  /\ Increasing(ret)
  /\ {ret[x] : x \in DOMAIN ret} = {z \in S : curr = Null \/ z < curr}
  /\ curr # Null => curr \in S

Returning ==
  /\ pc \in {"return", "done"} =>
       /\ \A x \in left1, y \in left2 : <<x, y>> \notin same
       /\ Copied(ret1, left1, curr1)
       /\ Copied(ret2, left2, curr2)
  /\ pc = "done" => curr1 = Null /\ curr2 = Null
  /\ pc \notin {"return", "done"} => ret1 = <<>> /\ ret2 = <<>>

IInv ==
  /\ TypeOK /\ PairedOnce
  /\ Chains /\ Outer /\ Inner /\ Advancing /\ Returning
=============================================================================
