-------------------------- MODULE ListCompareProofs ---------------------------
(***************************************************************************)
(* Proofs about listCompare() for lists of any length and any comparison:  *)
(* what it returns, and that it implements the pairing of DeviceMatching.  *)
(***************************************************************************)
EXTENDS ListCompare, Inductions

USE LengthAssumption

-----------------------------------------------------------------------------
(* Taking one member off a chain *)

Chained(S, head, next) ==
  /\ Follows(S, 0, head)
  /\ \A z \in S : Follows(S, z, next[z])

LEMMA Unlink ==
  ASSUME NEW n \in Nat, NEW S \in SUBSET (1..n),
         NEW head \in 0..n, NEW next \in [1..n -> 0..n],
         NEW prev \in 0..n, NEW c \in S,
         Chained(S, head, next), Before(S, prev, c)
  PROVE  /\ HeadWithout(head, next, prev, c) \in 0..n
         /\ NextWithout(next, prev, c) \in [1..n -> 0..n]
         /\ Chained(S \ {c}, HeadWithout(head, next, prev, c), NextWithout(next, prev, c))
         /\ NextWithout(next, prev, c)[c] = next[c]
         /\ Follows(S \ {c}, c, next[c])
<1>1. c \in 1..n /\ prev < c /\ next[c] \in 0..n /\ Follows(S, c, next[c])
  BY DEF Before, Chained
<1>2. Follows(S \ {c}, c, next[c])
  BY <1>1 DEF Follows, Null
<1>3. HeadWithout(head, next, prev, c) \in 0..n
  BY <1>1 DEF HeadWithout
<1>4. NextWithout(next, prev, c) \in [1..n -> 0..n] /\ NextWithout(next, prev, c)[c] = next[c]
  BY <1>1 DEF NextWithout
<1>5. Follows(S \ {c}, 0, HeadWithout(head, next, prev, c))
  <2>1. CASE prev = Null
    <3>1. \A z \in S \ {c} : z > c
      BY <1>1, <2>1 DEF Before, Null
    <3>2. Follows(S \ {c}, 0, next[c])
      BY <1>1, <1>2, <3>1 DEF Follows, Null
    <3>3. QED
      BY <2>1, <3>2 DEF HeadWithout
  <2>2. CASE prev # Null
    <3>1. head # c
      BY <1>1, <2>2 DEF Before, Chained, Follows, Null
    <3>2. QED
      BY <1>1, <2>2, <3>1 DEF HeadWithout, Chained, Follows, Null
  <2>3. QED
    BY <2>1, <2>2
<1>6. ASSUME NEW z \in S \ {c}
      PROVE  Follows(S \ {c}, z, NextWithout(next, prev, c)[z])
  <2>0. z \in 1..n /\ next[z] \in 0..n /\ Follows(S, z, next[z])
    BY DEF Chained
  <2>1. CASE prev = z
    <3>1. NextWithout(next, prev, c)[z] = next[c]
      BY <2>0, <2>1 DEF NextWithout, Null
    <3>2. \A y \in S \ {c} : y <= z \/ y > c
      BY <1>1, <2>0, <2>1 DEF Before
    <3>3. QED
      BY <1>1, <1>2, <2>0, <2>1, <3>1, <3>2 DEF Follows, Null
  <2>2. CASE prev # z
    <3>1. NextWithout(next, prev, c)[z] = next[z]
      BY <2>0, <2>2 DEF NextWithout
    <3>2. next[z] # c
      BY <1>1, <2>0, <2>2 DEF Before, Follows, Null
    <3>3. QED
      BY <2>0, <3>1, <3>2 DEF Follows, Null
  <2>3. QED
    BY <2>1, <2>2
<1>7. QED
  BY <1>2, <1>3, <1>4, <1>5, <1>6 DEF Chained

\* A member taken off leaves what precedes a later member as it was.
LEMMA StillBefore ==
  ASSUME NEW n \in Nat, NEW S \in SUBSET (1..n), NEW x \in S, NEW y \in 0..n,
         NEW prev \in 0..n, Before(S, prev, x), Follows(S, x, y), y # Null
  PROVE  Before(S \ {x}, prev, y) /\ Before(S, x, y)
BY DEF Before, Follows, Null

\* What is left of the lists when one more pair is matched.
LEMMA LeftAfter ==
  ASSUME TypeOK, NEW x \in 1..N1, NEW y \in 1..N2, matched' = matched \cup {<<x, y>>}
  PROVE  left1' = left1 \ {x} /\ left2' = left2 \ {y}
BY DEF TypeOK, left1, left2
-----------------------------------------------------------------------------
(* The inductive invariant *)

LEMMA LeftSets == left1 \subseteq 1..N1 /\ left2 \subseteq 1..N2
BY DEF left1, left2

LEMMA InitIInv == Init => IInv
<1> SUFFICES ASSUME Init PROVE IInv
  OBVIOUS
<1>1. left1 = 1..N1 /\ left2 = 1..N2
  BY DEF Init, left1, left2
<1>2. TypeOK /\ PairedOnce
  BY DEF Init, TypeOK, PairedOnce, Linked, First, Null
<1>3. Chains
  BY <1>1 DEF Init, Chains, Follows, Linked, First, Null
<1>4. Outer /\ Inner /\ Advancing /\ Returning
  BY <1>1 DEF Init, Outer, Inner, Advancing, Returning, Before, First, Null
<1>5. QED
  BY <1>2, <1>3, <1>4 DEF IInv

LEMMA CopyNothing ==
  ASSUME NEW n \in Nat, NEW S \in SUBSET (1..n), NEW y \in 0..n, Follows(S, 0, y)
  PROVE  Copied(<<>>, S, y)
<1>1. \A z \in S : ~(y = Null \/ z < y)
  BY DEF Follows, Null
<1>2. {z \in S : y = Null \/ z < y} = {}
  BY <1>1
<1>3. QED
  BY <1>2 DEF Copied, Increasing, Follows

\* An array that holds the members below c holds those below the next one
\* once c is appended.
LEMMA CopyNext ==
  ASSUME NEW n \in Nat, NEW S \in SUBSET (1..n), NEW ret \in Seq(1..n), NEW c \in S,
         NEW y \in 0..n, Copied(ret, S, c), Follows(S, c, y)
  PROVE  Copied(Append(ret, c), S, y)
<1> DEFINE new == Append(ret, c)
<1>1. /\ DOMAIN new = 1..(Len(ret) + 1) /\ DOMAIN ret = 1..Len(ret) /\ Len(ret) \in Nat
      /\ \A x \in DOMAIN ret : new[x] = ret[x] /\ ret[x] \in 1..n
      /\ new[Len(ret) + 1] = c
  OBVIOUS
<1> HIDE DEF new
<1>2. c # Null /\ \A x \in DOMAIN ret : ret[x] \in S /\ ret[x] < c
  BY DEF Copied, Null
<1>3. Increasing(new)
  BY <1>1, <1>2 DEF Copied, Increasing
<1>4. {new[x] : x \in DOMAIN new} = {ret[x] : x \in DOMAIN ret} \cup {c}
  BY <1>1
<1>5. {z \in S : y = Null \/ z < y} = {z \in S : z < c} \cup {c}
  <2>1. ASSUME NEW z \in S PROVE y = Null \/ z < y <=> z < c \/ z = c
    <3>1. z \in 1..n /\ c \in 1..n
      OBVIOUS
    <3>2. QED
      BY <3>1 DEF Follows, Null
  <2>2. QED
    BY <2>1
<1>6. QED
  BY <1>2, <1>3, <1>4, <1>5 DEF Copied, Follows, Null, new

LEMMA MatchStep ==
  ASSUME IInv, Match
  PROVE  IInv'
<1>1. /\ curr1 \in 1..N1 /\ curr2 \in 1..N2 /\ curr1 \in left1 /\ curr2 \in left2
      /\ <<curr1, curr2>> \in same
      /\ Before(left1, prev1, curr1) /\ Before(left2, prev2, curr2)
  BY DEF IInv, Match, Equal, Inner, Outer, TypeOK, Null
<1>2. left1' = left1 \ {curr1} /\ left2' = left2 \ {curr2}
  BY <1>1, LeftAfter DEF IInv, Match
<1>3. Chained(left1, head1, next1) /\ Chained(left2, head2, next2)
  BY DEF IInv, Chains, Chained
<1>4. /\ head1' \in 0..N1 /\ next1' \in [1..N1 -> 0..N1]
      /\ Chained(left1', head1', next1')
      /\ next1'[curr1] = next1[curr1] /\ Follows(left1', curr1, next1'[curr1])
  <2>1. /\ head1 \in 0..N1 /\ prev1 \in 0..N1 /\ next1 \in [1..N1 -> 0..N1]
        /\ head1' = HeadWithout(head1, next1, prev1, curr1)
        /\ next1' = NextWithout(next1, prev1, curr1)
    BY DEF Match, IInv, TypeOK
  <2> DEFINE h == HeadWithout(head1, next1, prev1, curr1)
             t == NextWithout(next1, prev1, curr1)
  <2>2. /\ h \in 0..N1 /\ t \in [1..N1 -> 0..N1]
        /\ Chained(left1 \ {curr1}, h, t)
        /\ t[curr1] = next1[curr1] /\ Follows(left1 \ {curr1}, curr1, next1[curr1])
    <3>1. left1 \in SUBSET (1..N1) /\ N1 \in Nat
      BY LeftSets
    <3>2. curr1 \in left1 /\ Before(left1, prev1, curr1) /\ Chained(left1, head1, next1)
      BY <1>1, <1>3
    <3>3. QED
      BY <2>1, <3>1, <3>2, Unlink
  <2>3. QED
    BY <1>2, <2>1, <2>2
<1>5. /\ head2' \in 0..N2 /\ next2' \in [1..N2 -> 0..N2]
      /\ Chained(left2', head2', next2')
  <2>1. /\ head2 \in 0..N2 /\ prev2 \in 0..N2 /\ next2 \in [1..N2 -> 0..N2]
        /\ head2' = HeadWithout(head2, next2, prev2, curr2)
        /\ next2' = NextWithout(next2, prev2, curr2)
    BY DEF Match, IInv, TypeOK
  <2> DEFINE h == HeadWithout(head2, next2, prev2, curr2)
             t == NextWithout(next2, prev2, curr2)
  <2>2. /\ h \in 0..N2 /\ t \in [1..N2 -> 0..N2]
        /\ Chained(left2 \ {curr2}, h, t)
        /\ t[curr2] = next2[curr2] /\ Follows(left2 \ {curr2}, curr2, next2[curr2])
    <3>1. left2 \in SUBSET (1..N2) /\ N2 \in Nat
      BY LeftSets
    <3>2. curr2 \in left2 /\ Before(left2, prev2, curr2) /\ Chained(left2, head2, next2)
      BY <1>1, <1>3
    <3>3. QED
      BY <2>1, <3>1, <3>2, Unlink
  <2>3. QED
    BY <1>2, <2>1, <2>2
<1>6. TypeOK'
  BY <1>1, <1>4, <1>5 DEF IInv, TypeOK, Match
<1>7. PairedOnce'
  <2>1. ASSUME NEW p \in matched
        PROVE  p[1] # curr1 /\ p[2] # curr2
    <3>1. p \in (1..N1) \X (1..N2) /\ p = <<p[1], p[2]>>
      BY DEF IInv, TypeOK
    <3>2. QED
      BY <1>1, <3>1 DEF left1, left2
  <2>2. QED
    BY <2>1 DEF IInv, PairedOnce, Match
<1>8. Chains'
  BY <1>4, <1>5 DEF Chains, Chained
<1>9. Outer'
  <2>1. Before(left1', prev1, curr1)
    BY <1>1, <1>2 DEF Before
  <2>2. QED
    BY <1>1, <1>2, <2>1 DEF IInv, Outer, Match, TypeOK, Null
<1>10. Advancing'
  BY <1>1, <1>2, <1>4 DEF Advancing, Match, Null
<1>11. Inner' /\ Returning'
  BY DEF IInv, Inner, Returning, Match
<1>12. QED
  BY <1>6, <1>7, <1>8, <1>9, <1>10, <1>11 DEF IInv

LEMMA AdvanceStep ==
  ASSUME IInv, Advance
  PROVE  IInv'
<1> USE DEF Null, lists
<1>1. left1' = left1 /\ left2' = left2
  BY DEF Advance, left1, left2
<1>2. curr1 \in 1..N1 /\ next1[curr1] \in 0..N1 /\ Follows(left1, curr1, next1[curr1])
  BY DEF IInv, Advance, Advancing, TypeOK
<1>3. TypeOK' /\ PairedOnce'
  BY <1>2 DEF IInv, TypeOK, PairedOnce, Advance
<1>4. Chains'
  BY <1>1 DEF IInv, Chains, Advance, lists
<1>5. ASSUME curr1' # Null, left2 # {}
      PROVE  Before(left1, prev1', curr1')
  <2>1. Before(left1, prev1, curr1)
    BY <1>2, <1>5 DEF IInv, Outer, Advance
  <2>2. CASE curr1 \in left1
    <3>1. prev1' = curr1
      BY <1>5, <2>2 DEF IInv, Advancing, Advance
    <3>2. QED
      BY <1>2, <1>5, <2>2, <3>1, LeftSets DEF Advance, Before, Follows
  <2>3. CASE curr1 \notin left1
    <3>1. prev1' = prev1
      BY <2>3 DEF IInv, Advancing, Advance
    <3>2. QED
      BY <1>2, <1>5, <2>1, <2>3, <3>1, LeftSets DEF Advance, Before, Follows, IInv, TypeOK
  <2>4. QED
    BY <2>2, <2>3
<1>6. ASSUME NEW x \in left1, NEW y \in left2, curr1' = Null \/ x < curr1'
      PROVE  <<x, y>> \notin same
  <2>1. x <= curr1
    BY <1>2, <1>6, LeftSets DEF Advance, Follows
  <2>2. CASE x = curr1
    BY <2>2 DEF IInv, Advancing, Advance
  <2>3. CASE x < curr1
    BY <2>3 DEF IInv, Outer, Advance
  <2>4. QED
    BY <1>2, <2>1, <2>2, <2>3, LeftSets
<1>7. Outer'
  BY <1>1, <1>2, <1>5, <1>6 DEF Outer, Advance, Follows
<1>8. Inner' /\ Advancing' /\ Returning'
  BY DEF IInv, Inner, Advancing, Returning, Advance
<1>9. QED
  BY <1>3, <1>4, <1>7, <1>8 DEF IInv

LEMMA StepIInv == IInv /\ [Next]_vars => IInv'
<1> SUFFICES ASSUME IInv, [Next]_vars PROVE IInv'
  OBVIOUS
<1> USE DEF Null, lists
<1>0. TypeOK /\ PairedOnce /\ Chains /\ Outer /\ Inner /\ Advancing /\ Returning
  BY DEF IInv
<1>1. CASE StartInner
  <2>1. left1' = left1 /\ left2' = left2
    BY <1>1 DEF StartInner, left1, left2
  <2>2. TypeOK' /\ PairedOnce' /\ Chains'
    BY <1>0, <1>1, <2>1 DEF StartInner, TypeOK, PairedOnce, Chains
  <2>3. Outer' /\ Advancing' /\ Returning'
    BY <1>0, <1>1, <2>1 DEF StartInner, Outer, Advancing, Returning
  <2>4. Inner'
    BY <1>0, <1>1, <2>1, LeftSets DEF StartInner, Inner, Chains, Follows, Before, TypeOK
  <2>5. QED
    BY <2>2, <2>3, <2>4 DEF IInv
<1>2. CASE Differ
  <2>1. left1' = left1 /\ left2' = left2
    BY <1>2 DEF Differ, left1, left2
  <2>2. /\ curr2 \in 1..N2 /\ curr2 \in left2 /\ Before(left2, prev2, curr2)
        /\ next2[curr2] \in 0..N2 /\ Follows(left2, curr2, next2[curr2])
    BY <1>0, <1>2 DEF Differ, Inner, TypeOK, Chains
  <2>3. TypeOK' /\ PairedOnce' /\ Chains'
    BY <1>0, <1>2, <2>1, <2>2 DEF Differ, TypeOK, PairedOnce, Chains
  <2>4. Outer' /\ Advancing' /\ Returning'
    BY <1>0, <1>2, <2>1 DEF Differ, Outer, Advancing, Returning
  <2>5. curr2' # Null => curr2' \in left2 /\ Before(left2, prev2', curr2')
    BY <1>2, <2>2, LeftSets DEF Differ, Follows, Before
  <2>6. ASSUME NEW y \in left2, curr2' = Null \/ y < curr2'
        PROVE  <<curr1, y>> \notin same
    <3>1. y <= curr2
      BY <1>2, <2>2, <2>6, LeftSets DEF Differ, Follows
    <3>2. CASE y = curr2
      BY <1>2, <3>2 DEF Differ, Equal
    <3>3. CASE y < curr2
      BY <1>0, <1>2, <3>3 DEF Differ, Inner
    <3>4. QED
      BY <2>2, <3>1, <3>2, <3>3, LeftSets
  <2>7. Inner'
    BY <1>0, <1>2, <2>1, <2>5, <2>6 DEF Differ, Inner
  <2>8. QED
    BY <2>3, <2>4, <2>7 DEF IInv
<1>3. CASE Match
  BY <1>3, MatchStep
<1>4. CASE EndInner
  <2>1. left1' = left1 /\ left2' = left2
    BY <1>4 DEF EndInner, left1, left2
  <2>2. TypeOK' /\ PairedOnce' /\ Chains'
    BY <1>0, <1>4, <2>1 DEF EndInner, TypeOK, PairedOnce, Chains
  <2>3. Outer' /\ Inner' /\ Returning'
    BY <1>0, <1>4, <2>1 DEF EndInner, Outer, Inner, Returning
  <2>4. ASSUME NEW y \in left2 PROVE head2 # Null
    BY <1>0, LeftSets DEF Chains, Follows
  <2>5. curr1 \in left1
    BY <1>0, <1>4 DEF EndInner, Inner, Outer
  <2>6. Follows(left1, curr1, next1[curr1])
    BY <1>0, <2>5 DEF Chains
  <2>7. Advancing'
    BY <1>0, <1>4, <2>1, <2>4, <2>5, <2>6 DEF EndInner, Inner, Advancing
  <2>8. QED
    BY <2>2, <2>3, <2>7 DEF IInv
<1>5. CASE Advance
  BY <1>5, AdvanceStep
<1>6. CASE StartReturn
  <2>1. left1' = left1 /\ left2' = left2
    BY <1>6 DEF StartReturn, left1, left2
  <2>2. TypeOK' /\ PairedOnce' /\ Chains'
    BY <1>0, <1>6, <2>1 DEF StartReturn, TypeOK, PairedOnce, Chains
  <2>3. Outer' /\ Inner' /\ Advancing'
    BY <1>6 DEF StartReturn, Outer, Inner, Advancing
  <2>4. Copied(<<>>, left1, head1) /\ Copied(<<>>, left2, head2)
    BY <1>0, LeftSets, CopyNothing DEF Chains, TypeOK
  <2>5. Returning'
    BY <1>0, <1>6, <2>1, <2>4 DEF StartReturn, Outer, Returning
  <2>6. QED
    BY <2>2, <2>3, <2>5 DEF IInv
<1>7. CASE Return1
  <2>1. left1' = left1 /\ left2' = left2
    BY <1>7 DEF Return1, left1, left2
  <2>2. curr1 \in left1 /\ next1[curr1] \in 0..N1 /\ Follows(left1, curr1, next1[curr1])
    BY <1>0, <1>7, LeftSets DEF Return1, Returning, Copied, Chains, TypeOK
  <2>3. ret1' \in Seq(1..N1) /\ curr1' \in 0..N1
    BY <1>0, <1>7, <2>2, LeftSets DEF Return1, TypeOK
  <2>4. TypeOK' /\ PairedOnce' /\ Chains'
    BY <1>0, <1>7, <2>1, <2>3 DEF Return1, TypeOK, PairedOnce, Chains
  <2>5. Copied(ret1, left1, curr1)'
    BY <1>0, <1>7, <2>1, <2>2, CopyNext, LeftSets DEF Return1, Returning, TypeOK
  <2>6. Outer' /\ Inner' /\ Advancing' /\ Returning'
    BY <1>0, <1>7, <2>1, <2>5 DEF Return1, Outer, Inner, Advancing, Returning
  <2>7. QED
    BY <2>6, <2>4 DEF IInv
<1>8. CASE Return2
  <2>1. left1' = left1 /\ left2' = left2
    BY <1>8 DEF Return2, left1, left2
  <2>2. curr2 \in left2 /\ next2[curr2] \in 0..N2 /\ Follows(left2, curr2, next2[curr2])
    BY <1>0, <1>8, LeftSets DEF Return2, Returning, Copied, Chains, TypeOK
  <2>3. ret2' \in Seq(1..N2) /\ curr2' \in 0..N2
    BY <1>0, <1>8, <2>2, LeftSets DEF Return2, TypeOK
  <2>4. TypeOK' /\ PairedOnce' /\ Chains'
    BY <1>0, <1>8, <2>1, <2>3 DEF Return2, TypeOK, PairedOnce, Chains
  <2>5. Copied(ret2, left2, curr2)'
    BY <1>0, <1>8, <2>1, <2>2, CopyNext, LeftSets DEF Return2, Returning, TypeOK
  <2>6. Outer' /\ Inner' /\ Advancing' /\ Returning'
    BY <1>0, <1>8, <2>1, <2>5 DEF Return2, Outer, Inner, Advancing, Returning
  <2>7. QED
    BY <2>6, <2>4 DEF IInv
<1>9. CASE Return
  <2>1. left1' = left1 /\ left2' = left2
    BY <1>9 DEF Return, left1, left2
  <2>2. QED
    BY <1>0, <1>9, <2>1 DEF Return, IInv, TypeOK, PairedOnce, Chains, Outer, Inner, Advancing, Returning
<1>10. CASE UNCHANGED vars
  <2>1. left1' = left1 /\ left2' = left2
    BY <1>10 DEF vars, left1, left2
  <2>2. QED
    BY <1>0, <1>10, <2>1 DEF vars, IInv, TypeOK, PairedOnce, Chains, Outer, Inner, Advancing, Returning
<1>11. QED
  BY <1>1, <1>2, <1>3, <1>4, <1>5, <1>6, <1>7, <1>8, <1>9, <1>10 DEF Next
-----------------------------------------------------------------------------
(* First with first *)

\* y is the first of the devices L that compares equal to x.
FirstEqual(s, x, L, y) ==
  /\ y \in L /\ <<x, y>> \in s
  /\ \A z \in L : <<x, z>> \in s => y <= z

\* The defining equation of SecondLeft.
LEMMA SecondLeftIs ==
  ASSUME NEW m \in Nat, NEW n \in Nat, NEW s
  PROVE  /\ SecondLeft(s, m, n)[0] = 1..n
         /\ \A x \in 1..m : /\ SecondLeft(s, m, n)[x - 1] \subseteq 1..n
                            /\ SecondLeft(s, m, n)[x] =
                                 {z \in SecondLeft(s, m, n)[x - 1] :
                                    ~FirstEqual(s, x, SecondLeft(s, m, n)[x - 1], z)}
<1> DEFINE Rest(x, L) == LET equal == {y \in L : <<x, y>> \in s}
                         IN L \ {y \in equal : \A z \in equal : y <= z}
           Left(g) == [x \in 0..m |-> IF x = 0 THEN 1..n ELSE Rest(x, g[x - 1])]
           X == SUBSET (1..n)
           start == 1..n
           step == [x \in 1..m |-> [L \in X |-> Rest(x, L)]]
           left == CHOOSE g : g = Left(g)
<1>1. start \in X /\ step \in [1..m -> [X -> X]]
  OBVIOUS
<1>2. \A x \in 1..m : \A L \in X : step[x][L] = Rest(x, L)
  OBVIOUS
<1> HIDE DEF X, start, step, Rest
<1>3. PICK f : IterateOf(f, m, X, start, step)
  BY <1>1, Recursion
<1>4. f = Left(f)
  <2>1. f \in [0..m -> X] /\ f[0] = start /\ \A x \in 1..m : f[x] = step[x][f[x - 1]]
    BY <1>3 DEF IterateOf
  <2>2. ASSUME NEW x \in 0..m
        PROVE  f[x] = Left(f)[x]
    <3>1. CASE x = 0
      BY <2>1, <3>1 DEF start
    <3>2. CASE x \in 1..m
      <4>1. f[x - 1] \in X /\ x # 0
        BY <2>1, <3>2
      <4>2. QED
        BY <1>2, <2>1, <3>2, <4>1
    <3>3. QED
      BY <3>1, <3>2
  <2> HIDE DEF Left
  <2>3. Left(f) = [x \in 0..m |-> Left(f)[x]]
    BY DEF Left
  <2>4. QED
    BY <2>1, <2>2, <2>3
<1>5. left = Left(left)
  BY <1>4
<1>6. SecondLeft(s, m, n) = left
  BY DEF SecondLeft, Rest
<1> HIDE DEF left
<1>7. left[0] = 1..n /\ \A x \in 1..m : left[x] = Rest(x, left[x - 1])
  <2>1. left[0] = 1..n
    BY <1>5
  <2>2. ASSUME NEW x \in 1..m PROVE left[x] = Rest(x, left[x - 1])
    <3>1. x \in 0..m /\ x # 0
      OBVIOUS
    <3>2. QED
      BY <1>5, <3>1
  <2>3. QED
    BY <2>1, <2>2
<1> HIDE DEF Left
<1>8. \A x \in 1..m : left[x - 1] \subseteq 1..n
  <2> DEFINE S == {x \in Nat : x <= m => left[x] \subseteq 1..n}
  <2>1. 0 \in S
    BY <1>7
  <2>2. ASSUME NEW x \in Nat, x \in S PROVE x + 1 \in S
    <3> SUFFICES ASSUME x + 1 <= m PROVE left[x + 1] \subseteq 1..n
      OBVIOUS
    <3>1. left[x] \subseteq 1..n
      BY <2>2
    <3>2. left[x + 1] = Rest(x + 1, left[x])
      BY <1>7
    <3>3. Rest(x + 1, left[x]) \subseteq left[x]
      BY DEF Rest
    <3>4. QED
      BY <3>1, <3>2, <3>3
  <2> HIDE DEF S
  <2>3. \A x \in 1..m : x - 1 \in S
    BY <2>1, <2>2, ReachedFromZero
  <2>4. QED
    BY <2>3 DEF S
<1>9. \A x, L : Rest(x, L) = {z \in L : ~FirstEqual(s, x, L, z)}
  BY DEF Rest, FirstEqual
<1>10. QED
  BY <1>6, <1>7, <1>8, <1>9

\* How many devices of the first list have been looked at.
Handled ==
  CASE pc \in {"outer", "inner"} /\ curr1 # Null -> curr1 - 1
    [] pc = "advance" -> curr1
    [] OTHER -> N1

\* So far the pairing is the one that Pairing defines.
PairInv ==
  /\ Handled \in 0..N1
  /\ left2 = SecondLeft(same, N1, N2)[Handled]
  /\ \A x \in 1..N1 :
       x \in left1 <=> x > Handled \/ SecondLeft(same, N1, N2)[x] = SecondLeft(same, N1, N2)[x - 1]

LEMMA InitPairInv == Init => PairInv
<1> SUFFICES ASSUME Init PROVE PairInv
  OBVIOUS
<1>1. left1 = 1..N1 /\ left2 = 1..N2
  BY DEF Init, left1, left2
<1>2. Handled = 0
  BY DEF Init, Handled, First, Null
<1>3. SecondLeft(same, N1, N2)[0] = 1..N2
  BY SecondLeftIs
<1>4. QED
  BY <1>1, <1>2, <1>3 DEF PairInv

\* A step that pairs nothing and goes on to no other device.
LEMMA SamePairs ==
  ASSUME PairInv, left1' = left1, left2' = left2, same' = same, Handled' = Handled
  PROVE  PairInv'
BY DEF PairInv

LEMMA StepPairInv == IInv /\ PairInv /\ [Next]_vars => PairInv'
<1> SUFFICES ASSUME IInv, PairInv, [Next]_vars PROVE PairInv'
  OBVIOUS
<1> USE DEF Null, lists
<1> DEFINE left == SecondLeft(same, N1, N2)
<1>0. TypeOK /\ Outer /\ Inner /\ Advancing /\ Returning
  BY DEF IInv
<1>l. \A x \in 1..N1 : left[x] = {z \in left[x - 1] : ~FirstEqual(same, x, left[x - 1], z)}
  BY SecondLeftIs
<1> HIDE DEF left
<1>h. /\ Handled \in 0..N1 /\ left2 = left[Handled]
      /\ \A x \in 1..N1 : x \in left1 <=> x > Handled \/ left[x] = left[x - 1]
  BY DEF PairInv, left
<1>1. CASE StartInner \/ Differ \/ Return1 \/ Return2 \/ Return \/ StartReturn \/ UNCHANGED vars
  <2>1. left1' = left1 /\ left2' = left2 /\ same' = same
    BY <1>1 DEF StartInner, Differ, Return1, Return2, Return, StartReturn, vars, left1, left2
  <2>2. Handled' = Handled
    BY <1>1 DEF StartInner, Differ, Return1, Return2, Return, StartReturn, vars, Handled
  <2>3. QED
    BY <2>1, <2>2, SamePairs
<1>2. CASE Match
  <2>1. /\ curr1 \in 1..N1 /\ curr2 \in 1..N2 /\ curr1 \in left1 /\ curr2 \in left2
        /\ <<curr1, curr2>> \in same /\ same' = same
    BY <1>0, <1>2 DEF Match, Equal, Inner, Outer, TypeOK
  <2>2. left1' = left1 \ {curr1} /\ left2' = left2 \ {curr2}
    BY <1>0, <1>2, <2>1, LeftAfter DEF Match
  <2>3. Handled = curr1 - 1 /\ Handled' = curr1
    BY <1>2, <2>1 DEF Match, Handled
  <2>4. FirstEqual(same, curr1, left2, curr2)
    <3>1. ASSUME NEW y \in left2, <<curr1, y>> \in same PROVE curr2 <= y
      <4>1. ~(y < curr2) /\ y \in 1..N2
        BY <1>0, <1>2, <3>1, LeftSets DEF Match, Inner
      <4>2. QED
        BY <2>1, <4>1
    <3>2. QED
      BY <2>1, <3>1 DEF FirstEqual
  <2>5. \A z \in left2 : FirstEqual(same, curr1, left2, z) => z = curr2
    BY <2>1, <2>4, LeftSets DEF FirstEqual
  <2>6. left[curr1 - 1] = left2 /\ left[curr1] = left2 \ {curr2}
    BY <1>h, <1>l, <2>1, <2>3, <2>4, <2>5
  <2>7. left[curr1] # left[curr1 - 1]
    BY <2>1, <2>6
  <2>8. \A x \in 1..N1 : x \in left1' <=> x > curr1 \/ left[x] = left[x - 1]
    BY <1>h, <2>1, <2>2, <2>3, <2>7
  <2>9. QED
    BY <2>1, <2>2, <2>3, <2>6, <2>8 DEF PairInv, left
<1>3. CASE EndInner
  <2>1. left1' = left1 /\ left2' = left2 /\ same' = same
    BY <1>3 DEF EndInner, left1, left2
  <2>2. curr1 \in 1..N1 /\ curr1 \in left1
    BY <1>0, <1>3 DEF EndInner, Inner, Outer, TypeOK
  <2>3. Handled = curr1 - 1 /\ Handled' = curr1
    BY <1>3, <2>2 DEF EndInner, Handled
  <2>4. \A y \in left2 : <<curr1, y>> \notin same
    BY <1>0, <1>3 DEF EndInner, Inner
  <2>5. left[curr1 - 1] = left2 /\ left[curr1] = left2
    BY <1>h, <1>l, <2>2, <2>3, <2>4 DEF FirstEqual
  <2>6. \A x \in 1..N1 : x \in left1' <=> x > curr1 \/ left[x] = left[x - 1]
    BY <1>h, <2>1, <2>2, <2>3, <2>5
  <2>7. QED
    BY <2>1, <2>2, <2>3, <2>5, <2>6 DEF PairInv, left
<1>4. CASE Advance
  <2>1. left1' = left1 /\ left2' = left2 /\ same' = same
    BY <1>4 DEF Advance, left1, left2
  <2>2. curr1 \in 1..N1 /\ Handled = curr1 /\ Follows(left1, curr1, curr1') /\ curr1' \in 0..N1
    BY <1>0, <1>4 DEF Advance, Advancing, TypeOK, Handled
  <2>3. \A x \in 1..N1 : x > curr1 => x \in left1
    BY <1>h, <2>2
  <2>4. curr1' = IF curr1 = N1 THEN Null ELSE curr1 + 1
    <3>1. CASE curr1 = N1
      BY <2>2, <3>1, LeftSets DEF Follows
    <3>2. CASE curr1 # N1
      <4>1. curr1 + 1 \in left1 /\ curr1 + 1 > curr1
        BY <2>2, <2>3, <3>2
      <4>2. curr1' \in left1 /\ curr1 < curr1' /\ curr1' <= curr1 + 1
        BY <2>2, <4>1 DEF Follows
      <4>3. QED
        BY <2>2, <3>2, <4>2
    <3>3. QED
      BY <3>1, <3>2
  <2>5. Handled' = curr1
    BY <1>4, <2>2, <2>4 DEF Advance, Handled
  <2>6. QED
    BY <2>1, <2>2, <2>5, SamePairs
<1>5. QED
  BY <1>1, <1>2, <1>3, <1>4 DEF Next

-----------------------------------------------------------------------------
(* What follows from it *)

LEMMA Invariant == Spec => []IInv
BY InitIInv, StepIInv, PTL DEF Spec

\* The links and the arrays keep their types for lists of any length.
THEOREM ListCompareTypeOK == Spec => []TypeOK
<1>1. IInv => TypeOK
  BY DEF IInv
<1>2. QED
  BY <1>1, Invariant, PTL

\* The arrays listCompare() returns hold exactly the devices it did not pair,
\* in the order of the lists, and it returns 0 just when there are none.
THEOREM ListCompareReturnsTheRest == Spec => []ReturnedAreLeft
<1>1. ASSUME IInv, pc = "done" PROVE ReturnedAreLeft
  <2>1. curr1 = Null /\ curr2 = Null /\ Copied(ret1, left1, Null) /\ Copied(ret2, left2, Null)
    BY <1>1 DEF IInv, Returning
  <2>2. {ret1[x] : x \in DOMAIN ret1} = left1 /\ {ret2[x] : x \in DOMAIN ret2} = left2
    BY <2>1 DEF Copied
  <2>3. Increasing(ret1) /\ Increasing(ret2)
    BY <2>1 DEF Copied
  <2>4. (head1 = Null <=> left1 = {}) /\ (head2 = Null <=> left2 = {})
    <3>1. Follows(left1, 0, head1) /\ Follows(left2, 0, head2)
      BY <1>1 DEF IInv, Chains
    <3>2. ASSUME NEW z \in left1 PROVE head1 # Null
      BY <3>1, LeftSets DEF Follows, Null
    <3>3. ASSUME NEW z \in left2 PROVE head2 # Null
      BY <3>1, LeftSets DEF Follows, Null
    <3>4. QED
      BY <3>1, <3>2, <3>3 DEF Follows, Null
  <2>5. QED
    BY <2>2, <2>3, <2>4 DEF ReturnedAreLeft, Changed
<1>2. IInv => ReturnedAreLeft
  BY <1>1 DEF ReturnedAreLeft
<1>3. QED
  BY <1>2, Invariant, PTL

\* Whatever the comparison, no device listCompare() reports as gone compares
\* equal to one it reports as new.
THEOREM ListCompareLeavesNoPair == Spec => []NoPairLeft
<1>1. ASSUME IInv, pc = "done", NEW x \in DOMAIN ret1, NEW y \in DOMAIN ret2
      PROVE  <<ret1[x], ret2[y]>> \notin same
  <2>1. Copied(ret1, left1, curr1) /\ Copied(ret2, left2, curr2)
    BY <1>1 DEF IInv, Returning
  <2>2. ret1[x] \in left1 /\ ret2[y] \in left2
    BY <2>1 DEF Copied
  <2>3. QED
    BY <1>1, <2>2 DEF IInv, Returning
<1>2. IInv => NoPairLeft
  BY <1>1 DEF NoPairLeft
<1>3. QED
  BY <1>2, Invariant, PTL

\* No device of either list is paired with two of the other.
THEOREM ListComparePairsOnce == Spec => []PairedOnce
<1>1. IInv => PairedOnce
  BY DEF IInv
<1>2. QED
  BY <1>1, Invariant, PTL

\* The pairing listCompare() makes by editing links while it walks them is
\* the one that takes the devices of the first list in their order and gives
\* each the first of the second that is still there and compares equal.
THEOREM ListComparePairsFirstWithFirst == Spec => []PairsFirstWithFirst
<1>1. ASSUME IInv, PairInv, pc = "done"
      PROVE  left1 = Unpaired1(same, N1, N2) /\ left2 = Unpaired2(same, N1, N2)
  <2>1. Handled = N1
    BY <1>1 DEF Handled
  <2>2. \A x \in 1..N1 : ~(x > N1)
    OBVIOUS
  <2>3. QED
    BY <1>1, <2>1, <2>2, LeftSets DEF PairInv, Unpaired1, Unpaired2
<1>2. IInv /\ PairInv => PairsFirstWithFirst
  BY <1>1 DEF PairsFirstWithFirst
<1>3. Spec => []PairInv
  BY Invariant, InitPairInv, StepPairInv, PTL DEF Spec
<1>4. QED
  BY <1>2, <1>3, Invariant, PTL

\* listCompare() implements the abstract pairing, for lists of any length and
\* any comparison.
THEOREM ListCompareImplementsMatching == Spec => MatchingSpec
<1>1. Init => Matching!Init
  BY DEF Init, Matching!Init, left1, left2
<1>2. IInv /\ [Next]_vars => [Matching!Next]_(Matching!vars)
  <2> SUFFICES ASSUME IInv, [Next]_vars PROVE [Matching!Next]_(Matching!vars)
    OBVIOUS
  <2>1. CASE Match
    <3>1. /\ curr1 \in left1 /\ curr2 \in left2 /\ <<curr1, curr2>> \in same
          /\ curr1 \in 1..N1 /\ curr2 \in 1..N2
      BY <2>1, LeftSets DEF IInv, Match, Equal, Inner, Outer, TypeOK, Null
    <3>2. left1' = left1 \ {curr1} /\ left2' = left2 \ {curr2}
      BY <2>1, <3>1, LeftAfter DEF IInv, Match
    <3>3. Matching!Pair
      BY <2>1, <3>1, <3>2 DEF Match, Matching!Pair
    <3>4. QED
      BY <3>3 DEF Matching!Next
  <2>2. CASE StartReturn
    <3>1. left1' = left1 /\ left2' = left2
      BY <2>2 DEF StartReturn, left1, left2
    <3>2. \A x \in left1, y \in left2 : <<x, y>> \notin same
      BY <2>2 DEF StartReturn, IInv, Outer, Null
    <3>3. Matching!Finish
      BY <2>2, <3>1, <3>2 DEF StartReturn, Matching!Finish
    <3>4. QED
      BY <3>3 DEF Matching!Next
  <2>3. CASE StartInner \/ Differ \/ EndInner \/ Advance \/ Return1 \/ Return2 \/ Return \/ UNCHANGED vars
    <3>1. left1' = left1 /\ left2' = left2
      BY <2>3 DEF StartInner, Differ, EndInner, Advance, Return1, Return2, Return, vars, left1, left2
    <3>2. same' = same /\ (pc' \in {"return", "done"} <=> pc \in {"return", "done"})
      BY <2>3 DEF StartInner, Differ, EndInner, Advance, Return1, Return2, Return, vars
    <3>3. QED
      BY <3>1, <3>2 DEF Matching!vars
  <2>4. QED
    BY <2>1, <2>2, <2>3 DEF Next
<1>3. QED
  BY <1>1, <1>2, Invariant, PTL DEF Spec, MatchingSpec, Matching!Spec
=============================================================================
