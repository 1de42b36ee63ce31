------------------------------ MODULE KudzuProofs -----------------------------
(***************************************************************************)
(* Proofs about the runs of kudzu, for any machines and any modprobe.conf. *)
(* First what configMenu() acts on, for lists of any lengths and any       *)
(* devices: the walks, which take devices off the lists they are on, go on *)
(* only to devices further down, and what they leave is what FilterExact   *)
(* says.  Then what a run leaves in hwconf.                                *)
(***************************************************************************)
EXTENDS Kudzu, Inductions, SequenceTheorems

-----------------------------------------------------------------------------
(* Lists: what a walk along the links meets *)

\* The lists of n devices, linked in any way.
ListsOf(n) == [head : 0..n, next : [1..n -> 0..n]]

\* The first of S after x is y, or there is none.
IsAfter(S, x, y) ==
  \/ y = Null /\ \A z \in S : z <= x
  \/ y \in S /\ x < y /\ \A z \in S : x < z => y <= z

\* The list links the devices S in their order.
Links(list, n, S) ==
  /\ list \in ListsOf(n) /\ S \subseteq 1..n
  /\ IsAfter(S, 0, list.head)
  /\ \A x \in S : IsAfter(S, x, list.next[x])

\* The defining equation of Walk.
LEMMA WalkIs ==
  ASSUME NEW n \in Nat, NEW list \in ListsOf(n)
  PROVE  /\ Walk(list) \in [0..n -> 0..n]
         /\ Walk(list)[0] = list.head
         /\ \A x \in 1..n : Walk(list)[x] = IF Walk(list)[x - 1] = Null THEN Null
                                            ELSE list.next[Walk(list)[x - 1]]
<1> DEFINE Succ(l) == IF l = Null THEN Null ELSE list.next[l]
           At(g) == [x \in 0..n |-> IF x = 0 THEN list.head ELSE Succ(g[x - 1])]
           X == 0..n
           start == list.head
           step == [x \in 1..n |-> [l \in X |-> Succ(l)]]
           at == CHOOSE g : g = At(g)
<1>0. list.head \in 0..n /\ list.next \in [1..n -> 0..n] /\ Cardinality(DOMAIN list.next) = n
  <2>1. list.head \in 0..n /\ list.next \in [1..n -> 0..n]
    BY DEF ListsOf
  <2>2. Cardinality(1..n) = n
    BY FS_Interval
  <2>3. QED
    BY <2>1, <2>2
<1>1. \A l \in 0..n : Succ(l) \in 0..n
  BY <1>0 DEF Null
<1>2. start \in X /\ step \in [1..n -> [X -> X]]
  BY <1>0, <1>1
<1>3. \A x \in 1..n : \A l \in X : step[x][l] = Succ(l)
  OBVIOUS
<1>4. Walk(list) = at
  BY <1>0 DEF Walk, Null
<1> HIDE DEF X, start, step, Succ
<1>5. PICK f : IterateOf(f, n, X, start, step)
  BY <1>2, Recursion
<1>6. f \in [0..n -> X] /\ f[0] = start /\ \A x \in 1..n : f[x] = step[x][f[x - 1]]
  BY <1>5 DEF IterateOf
<1>7. f = At(f)
  <2>1. ASSUME NEW x \in 0..n
        PROVE  f[x] = At(f)[x]
    <3>1. CASE x = 0
      BY <1>6, <3>1 DEF start
    <3>2. CASE x \in 1..n
      <4>1. f[x - 1] \in X /\ x # 0
        BY <1>6, <3>2
      <4>2. QED
        BY <1>3, <1>6, <3>2, <4>1
    <3>3. QED
      BY <3>1, <3>2
  <2> HIDE DEF At
  <2>2. At(f) = [x \in 0..n |-> At(f)[x]]
    BY DEF At
  <2>3. f = [x \in 0..n |-> f[x]]
    BY <1>6
  <2>4. QED
    BY <2>1, <2>2, <2>3
<1>8. at = At(at)
  BY <1>7
<1> HIDE DEF at
<1>9. at[0] = list.head /\ \A x \in 1..n : at[x] = Succ(at[x - 1])
  <2>1. at[0] = list.head
    BY <1>8
  <2>2. ASSUME NEW x \in 1..n PROVE at[x] = Succ(at[x - 1])
    <3>1. x \in 0..n /\ x # 0
      OBVIOUS
    <3>2. QED
      BY <1>8, <3>1
  <2>3. QED
    BY <2>1, <2>2
<1>10. at = [x \in 0..n |-> at[x]]
  BY <1>8
<1> HIDE DEF At
<1>11. \A x \in 0..n : at[x] \in 0..n
  <2> DEFINE S == {x \in Nat : x <= n => at[x] \in 0..n}
  <2>1. 0 \in S
    BY <1>0, <1>9
  <2>2. ASSUME NEW x \in Nat, x \in S PROVE x + 1 \in S
    <3> SUFFICES ASSUME x + 1 <= n PROVE at[x + 1] \in 0..n
      OBVIOUS
    <3>1. at[x] \in 0..n
      BY <2>2
    <3>2. at[x + 1] = Succ(at[x])
      BY <1>9
    <3>3. QED
      BY <1>1, <3>1, <3>2
  <2> HIDE DEF S
  <2>3. \A x \in Nat : x \in S
    BY <2>1, <2>2, ReachedFromZero
  <2>4. QED
    BY <2>3 DEF S
<1>12. at \in [0..n -> 0..n]
  BY <1>10, <1>11
<1>13. QED
  BY <1>4, <1>9, <1>12 DEF Succ

\* What the list links is what a walk meets.
LEMMA MembersAre ==
  ASSUME NEW n \in Nat, NEW list, NEW S, Links(list, n, S)
  PROVE  Members(list) = S
<1> DEFINE at == Walk(list)
<1>0. list \in ListsOf(n) /\ S \subseteq 1..n /\ IsAfter(S, 0, list.head)
      /\ \A x \in S : IsAfter(S, x, list.next[x])
  BY DEF Links
<1>1. /\ at \in [0..n -> 0..n] /\ at[0] = list.head
      /\ \A x \in 1..n : at[x] = IF at[x - 1] = Null THEN Null ELSE list.next[at[x - 1]]
  BY <1>0, WalkIs
<1> HIDE DEF at
\* The device at place x is a member that x members or more are not after, and
\* the members before it have been met.
<1> DEFINE Met(x) == {at[y] : y \in 0..x}
           Fine(x) == /\ at[x] # Null => at[x] \in S /\ at[x] > x
                      /\ \A z \in S : at[x] = Null \/ z <= at[x] => z \in Met(x)
           T == {x \in Nat : x <= n => Fine(x)}
<1>2. 0 \in T
  <2>1. at[0] \in Met(0)
    OBVIOUS
  <2>2. CASE at[0] = Null
    <3>1. \A z \in S : FALSE
      BY <1>0, <1>1, <2>2 DEF IsAfter, Null
    <3>2. QED
      BY <2>2, <3>1
  <2>3. CASE at[0] # Null
    <3>1. at[0] \in S /\ 0 < at[0] /\ \A z \in S : 0 < z => at[0] <= z
      BY <1>0, <1>1, <2>3 DEF IsAfter, Null
    <3>2. ASSUME NEW z \in S, z <= at[0] PROVE z = at[0]
      <4>1. z \in 1..n /\ at[0] \in 1..n /\ at[0] <= z
        BY <1>0, <3>1
      <4>2. QED
        BY <3>2, <4>1
    <3>3. QED
      BY <2>1, <2>3, <3>1, <3>2
  <2>4. QED
    BY <2>2, <2>3
<1>3. ASSUME NEW x \in Nat, x \in T PROVE x + 1 \in T
  <2> SUFFICES ASSUME x + 1 <= n PROVE Fine(x + 1)
    OBVIOUS
  <2>1. x \in 0..n /\ x + 1 \in 0..n /\ x + 1 \in 1..n /\ x + 1 - 1 = x
    OBVIOUS
  <2>2. Fine(x)
    BY <1>3
  <2>3. Met(x) \subseteq Met(x + 1) /\ at[x + 1] \in Met(x + 1)
    BY <2>1
  <2>4. at[x + 1] = IF at[x] = Null THEN Null ELSE list.next[at[x]]
    <3>1. \A y \in 1..n : y - 1 = x => at[y] = IF at[x] = Null THEN Null ELSE list.next[at[x]]
      BY <1>1
    <3>2. QED
      BY <2>1, <3>1
  <2> HIDE DEF Met
  <2>5. CASE at[x] = Null
    BY <2>2, <2>3, <2>4, <2>5
  <2>6. CASE at[x] # Null
    <3>1. at[x] \in S /\ at[x] > x /\ IsAfter(S, at[x], at[x + 1])
      BY <1>0, <2>2, <2>4, <2>6
    <3>2. at[x] \in 1..n /\ at[x + 1] \in 0..n
      BY <1>0, <1>1, <2>1, <3>1
    <3>3. CASE at[x + 1] = Null
      <4>1. \A z \in S : z <= at[x]
        BY <1>0, <3>1, <3>3 DEF IsAfter, Null
      <4>2. QED
        BY <2>2, <2>3, <3>3, <4>1
    <3>4. CASE at[x + 1] # Null
      <4>1. at[x + 1] \in S /\ at[x] < at[x + 1] /\ \A z \in S : at[x] < z => at[x + 1] <= z
        BY <3>1, <3>4 DEF IsAfter
      <4>2. at[x + 1] > x + 1
        BY <3>1, <3>2, <4>1
      <4>3. ASSUME NEW z \in S, z <= at[x + 1] PROVE z \in Met(x + 1)
        <5>1. z \in 1..n
          BY <1>0
        <5>2. z = at[x + 1] \/ z <= at[x]
          BY <3>2, <4>1, <4>3, <5>1
        <5>3. QED
          BY <2>2, <2>3, <5>2
      <4>4. QED
        BY <3>4, <4>1, <4>2, <4>3
    <3>5. QED
      BY <3>3, <3>4
  <2>7. QED
    BY <2>5, <2>6
<1> HIDE DEF T
<1>4. \A x \in Nat : x \in T
  BY <1>2, <1>3, ReachedFromZero
<1>5. \A x \in 0..n : Fine(x)
  BY <1>4 DEF T
<1>6. at[n] = Null
  <2>1. n \in 0..n /\ at[n] \in 0..n
    BY <1>1
  <2>2. ~(at[n] > n)
    BY <2>1
  <2>3. QED
    BY <1>5, <2>1, <2>2
<1>7. S \subseteq Met(n)
  BY <1>5, <1>6
<1>8. \A x \in 0..n : at[x] # Null => at[x] \in S
  BY <1>5
<1>9. Null \notin S
  BY <1>0 DEF Null
<1>10. Members(list) = Met(n) \ {Null}
  <2>1. DOMAIN at = 0..n
    BY <1>1
  <2>2. QED
    BY <2>1 DEF Members, at
<1>11. QED
  BY <1>7, <1>8, <1>9, <1>10

-----------------------------------------------------------------------------
(* Taking a device off *)

\* Each link goes further down the list, or ends it.
GoesForward(list, n) == \A x \in 1..n : Forward(x, list.next[x])

\* The pointers of Unlink, one by one.
LEMMA UnlinkIs ==
  ASSUME NEW n \in Nat, NEW list \in ListsOf(n), NEW e \in 1..n
  PROVE  /\ Unlink(list, e) \in ListsOf(n)
         /\ Unlink(list, e).head = IF e = list.head THEN list.next[e] ELSE list.head
         /\ \A y \in 1..n : Unlink(list, e).next[y] =
              IF e # list.head /\ y \in Members(list) /\ list.next[y] = e THEN list.next[e]
              ELSE list.next[y]
<1>1. /\ list = [head |-> list.head, next |-> list.next]
      /\ list.head \in 0..n /\ list.next \in [1..n -> 0..n] /\ list.next[e] \in 0..n
  BY DEF ListsOf
<1> DEFINE bent == [y \in 1..n |-> IF y \in Members(list) /\ list.next[y] = e THEN list.next[e]
                                   ELSE list.next[y]]
<1>2. CASE e = list.head
  <2>1. Unlink(list, e) = [head |-> list.next[e], next |-> list.next]
    BY <1>1, <1>2 DEF Unlink
  <2>2. QED
    BY <1>1, <1>2, <2>1 DEF ListsOf
<1>3. CASE e # list.head
  <2>1. Unlink(list, e) = [head |-> list.head, next |-> bent]
    BY <1>1, <1>3 DEF Unlink
  <2>2. bent \in [1..n -> 0..n]
    BY <1>1
  <2>3. \A y \in 1..n : bent[y] = IF y \in Members(list) /\ list.next[y] = e THEN list.next[e]
                                  ELSE list.next[y]
    OBVIOUS
  <2> HIDE DEF bent
  <2>4. QED
    BY <1>1, <1>3, <2>1, <2>2, <2>3 DEF ListsOf
<1>4. QED
  BY <1>2, <1>3

\* The rest of a list is linked past the device that is taken off, and that one
\* still points to the next.
LEMMA UnlinkLinks ==
  ASSUME NEW n \in Nat, NEW list, NEW S, Links(list, n, S), NEW e \in S
  PROVE  Links(Unlink(list, e), n, S \ {e}) /\ Unlink(list, e).next[e] = list.next[e]
<1>0. /\ list \in ListsOf(n) /\ S \subseteq 1..n /\ IsAfter(S, 0, list.head)
      /\ \A x \in S : IsAfter(S, x, list.next[x])
      /\ e \in 1..n /\ Members(list) = S
  BY MembersAre DEF Links
<1> DEFINE cut == Unlink(list, e)
<1>1. /\ cut \in ListsOf(n)
      /\ cut.head = IF e = list.head THEN list.next[e] ELSE list.head
      /\ \A y \in 1..n : cut.next[y] = IF e # list.head /\ y \in S /\ list.next[y] = e
                                       THEN list.next[e] ELSE list.next[y]
  BY <1>0, UnlinkIs
<1> HIDE DEF cut
<1>2. /\ list.head \in 0..n /\ \A x \in 1..n : list.next[x] \in 0..n
  BY <1>0 DEF ListsOf
<1>3. list.next[e] # e
  BY <1>0, <1>2 DEF IsAfter, Null
<1>4. cut.next[e] = list.next[e]
  BY <1>0, <1>1, <1>3
\* Whoever comes first after x once e is gone.
<1>5. ASSUME NEW x \in 0..n, IsAfter(S, x, e)
      PROVE  IsAfter(S \ {e}, x, list.next[e])
  <2>1. x < e /\ \A z \in S : x < z => e <= z
    BY <1>0, <1>5 DEF IsAfter, Null
  <2>2. CASE list.next[e] = Null
    <3>1. \A z \in S : z <= e
      BY <1>0, <2>2 DEF IsAfter, Null
    <3>2. ASSUME NEW z \in S \ {e} PROVE z <= x
      <4>1. z \in 1..n /\ z # e /\ z <= e
        BY <1>0, <3>1
      <4>2. QED
        BY <1>0, <2>1, <4>1
    <3>3. QED
      BY <2>2, <3>2 DEF IsAfter
  <2>3. CASE list.next[e] # Null
    <3>1. list.next[e] \in S /\ e < list.next[e] /\ \A z \in S : e < z => list.next[e] <= z
      BY <1>0, <2>3 DEF IsAfter
    <3>2. list.next[e] \in 1..n
      BY <1>0, <3>1
    <3>3. x < list.next[e] /\ list.next[e] # e
      BY <1>0, <2>1, <3>1, <3>2
    <3>4. ASSUME NEW z \in S \ {e}, x < z PROVE list.next[e] <= z
      <4>1. z \in 1..n /\ z # e /\ e <= z
        BY <1>0, <2>1, <3>4
      <4>2. e < z
        BY <1>0, <4>1
      <4>3. QED
        BY <3>1, <4>2
    <3>5. QED
      BY <3>1, <3>3, <3>4 DEF IsAfter
  <2>4. QED
    BY <2>2, <2>3
<1>6. ASSUME NEW x, NEW y, IsAfter(S, x, y), y # e
      PROVE  IsAfter(S \ {e}, x, y)
  BY <1>6 DEF IsAfter
<1>7. IsAfter(S \ {e}, 0, cut.head)
  <2>1. 0 \in 0..n
    OBVIOUS
  <2>2. CASE e = list.head
    BY <1>0, <1>1, <1>5, <2>1, <2>2
  <2>3. CASE e # list.head
    BY <1>0, <1>1, <1>6, <2>3
  <2>4. QED
    BY <2>2, <2>3
<1>8. ASSUME NEW x \in S \ {e}
      PROVE  IsAfter(S \ {e}, x, cut.next[x])
  <2>1. x \in 0..n /\ x \in 1..n /\ IsAfter(S, x, list.next[x])
    BY <1>0
  <2>2. CASE list.next[x] = e
    <3>1. e # list.head
      <4>1. x < e
        BY <1>0, <2>1, <2>2 DEF IsAfter, Null
      <4>2. list.head <= x
        BY <1>0, <1>2, <2>1 DEF IsAfter, Null
      <4>3. QED
        BY <1>0, <1>2, <2>1, <4>1, <4>2
    <3>2. cut.next[x] = list.next[e]
      BY <1>1, <2>1, <2>2, <3>1
    <3>3. QED
      BY <1>5, <2>1, <2>2, <3>2
  <2>3. CASE list.next[x] # e
    BY <1>1, <1>6, <2>1, <2>3
  <2>4. QED
    BY <2>2, <2>3
<1>9. QED
  BY <1>0, <1>1, <1>4, <1>7, <1>8 DEF Links, cut

\* listRemove() takes the device off, if no other compares equal to it.
LEMMA RemoveIs ==
  ASSUME NEW n \in Nat, NEW list, NEW S, Links(list, n, S), NEW devs, NEW e \in 1..n,
         \A x \in 1..n : Compare(devs[x], devs[e]) = 0 <=> x = e
  PROVE  ListRemove(list, devs, devs[e]) = IF e \in S THEN Unlink(list, e) ELSE list
<1> DEFINE at == Walk(list)
           equal == {x \in DOMAIN at : at[x] # Null /\ Compare(devs[at[x]], devs[e]) = 0}
           first == CHOOSE x \in equal : \A y \in equal : x <= y
<1>0. list \in ListsOf(n) /\ Members(list) = S
  BY MembersAre DEF Links
<1>1. at \in [0..n -> 0..n]
  BY <1>0, WalkIs
<1>2. ListRemove(list, devs, devs[e]) = IF equal = {} THEN list ELSE Unlink(list, at[first])
  BY DEF ListRemove
<1>3. S = {at[x] : x \in DOMAIN at} \ {Null}
  BY <1>0 DEF Members
<1> HIDE DEF at
<1>4. equal = {x \in 0..n : at[x] = e}
  <2>1. \A x \in 0..n : at[x] # Null => at[x] \in 1..n
    BY <1>1 DEF Null
  <2>2. e # Null
    BY DEF Null
  <2>3. ASSUME NEW x \in 0..n
        PROVE  at[x] # Null /\ Compare(devs[at[x]], devs[e]) = 0 <=> at[x] = e
    BY <2>1, <2>2
  <2>4. DOMAIN at = 0..n
    BY <1>1
  <2>5. QED
    BY ONLY <2>3, <2>4
<1> HIDE DEF equal
<1>5. e \in S <=> equal # {}
  <2>1. e # Null
    BY DEF Null
  <2>2. QED
    BY <1>1, <1>3, <1>4, <2>1
<1>6. ASSUME equal # {}
      PROVE  at[first] = e
  <2>1. PICK k \in equal : TRUE
    BY <1>6
  <2>2. k \in Nat
    BY <1>4
  <2>3. PICK x \in Nat : x \in equal /\ \A y \in 0..(x - 1) : y \notin equal
    BY <2>1, <2>2, LeastMember
  <2>4. \A y \in equal : x <= y
    <3>1. \A y \in equal : y \in Nat
      BY <1>4
    <3>2. QED
      BY <2>3, <3>1
  <2>5. first \in equal
    BY <2>3, <2>4
  <2> HIDE DEF first
  <2>6. QED
    BY <1>4, <2>5
<1>7. QED
  BY <1>2, <1>5, <1>6

\* Whatever listRemove() takes off, the links keep going forward.
LEMMA RemoveForward ==
  ASSUME NEW n \in Nat, NEW list \in ListsOf(n), GoesForward(list, n), NEW devs, NEW d
  PROVE  /\ ListRemove(list, devs, d) \in ListsOf(n)
         /\ GoesForward(ListRemove(list, devs, d), n)
<1> DEFINE at == Walk(list)
           equal == {x \in DOMAIN at : at[x] # Null /\ Compare(devs[at[x]], d) = 0}
           first == CHOOSE x \in equal : \A y \in equal : x <= y
           cut == ListRemove(list, devs, d)
<1>1. at \in [0..n -> 0..n]
  BY WalkIs
<1>2. cut = IF equal = {} THEN list ELSE Unlink(list, at[first])
  BY DEF ListRemove
<1> HIDE DEF at, cut
<1>3. CASE equal = {}
  BY <1>2, <1>3 DEF cut
<1>4. CASE equal # {}
  <2>0. \A x \in equal : x \in Nat /\ at[x] \in 1..n
    BY <1>1 DEF Null
  <2> HIDE DEF equal
  <2>1. PICK k \in equal : TRUE
    BY <1>4
  <2>2. k \in Nat
    BY <2>0
  <2>3. PICK x \in Nat : x \in equal /\ \A y \in 0..(x - 1) : y \notin equal
    BY <2>1, <2>2, LeastMember
  <2>4. \A y \in equal : x <= y
    BY <2>0, <2>3
  <2>5. first \in equal
    BY <2>3, <2>4
  <2> HIDE DEF first
  <2> DEFINE e == at[first]
  <2>6. e \in 1..n
    BY <2>0, <2>5
  <2> HIDE DEF e
  <2>7. /\ cut \in ListsOf(n)
        /\ \A y \in 1..n : cut.next[y] = list.next[y] \/ (list.next[y] = e /\ cut.next[y] = list.next[e])
    <3>1. cut = Unlink(list, e)
      BY <1>2, <1>4 DEF e
    <3>2. QED
      BY <2>6, <3>1, UnlinkIs
  <2>8. \A y \in 1..n : list.next[y] \in 0..n
    BY DEF ListsOf
  <2>9. ASSUME NEW y \in 1..n PROVE Forward(y, cut.next[y])
    <3>1. Forward(y, list.next[y]) /\ Forward(e, list.next[e])
      BY <2>6 DEF GoesForward
    <3>2. CASE cut.next[y] = list.next[y]
      BY <3>1, <3>2
    <3>3. CASE list.next[y] = e /\ cut.next[y] = list.next[e]
      <4>1. e > y /\ list.next[e] \in 0..n
        BY <2>6, <2>8, <3>1, <3>3 DEF Forward, Null
      <4>2. QED
        BY <2>6, <3>1, <3>3, <4>1 DEF Forward, Null
    <3>4. QED
      BY <2>7, <3>2, <3>3
  <2>10. QED
    BY <2>7, <2>9 DEF GoesForward, cut
<1>5. QED
  BY <1>3, <1>4

\* A list that listCompare() returned.
IsList(devs) == devs \in OldLists \cup NewLists

LEMMA ListIs ==
  ASSUME NEW devs, IsList(devs)
  PROVE  /\ Len(devs) \in Nat /\ DOMAIN devs = 1..Len(devs)
         /\ devs = <<>> <=> Len(devs) = 0
<1>1. devs \in Seq({devs[x] : x \in DOMAIN devs})
  BY ListsAssumption DEF IsList
<1> DEFINE T == {devs[x] : x \in DOMAIN devs}
<1>2. devs \in Seq(T)
  BY <1>1
<1> HIDE DEF T
<1>3. Len(devs) \in Nat /\ DOMAIN devs = 1..Len(devs)
  BY <1>2, LenProperties
<1>4. devs = <<>> <=> Len(devs) = 0
  BY <1>2, EmptySeq
<1>5. QED
  BY <1>3, <1>4

\* A device compares equal to itself.
LEMMA SameDevice ==
  ASSUME NEW devs, IsList(devs), NEW x \in DOMAIN devs
  PROVE  Compare(devs[x], devs[x]) = 0
<1> DEFINE d == devs[x]
<1>1. /\ d.bus = "PCI" => d.id \in [1..4 -> Nat] /\ d.part \in Nat
      /\ d.bus = "PCMCIA" => d.id \in [1..2 -> Nat] /\ d.part \in Nat
  BY ListsAssumption DEF IsList
<1> HIDE DEF d
<1>2. CompareDevice(d, d) = 0
  BY DEF CompareDevice, Differ
<1>3. d.bus = "PCI" => PciDevCmp(d, d) = 0
  <2> SUFFICES ASSUME d.bus = "PCI" PROVE PciDevCmp(d, d) = 0
    OBVIOUS
  <2>1. d.id[1] \in Nat /\ d.id[2] \in Nat /\ d.id[3] \in Nat /\ d.id[4] \in Nat /\ d.part \in Nat
    BY <1>1
  <2>2. d.id[1] - d.id[1] = 0 /\ d.id[2] - d.id[2] = 0 /\ d.id[3] - d.id[3] = 0
        /\ d.id[4] - d.id[4] = 0 /\ d.part - d.part = 0
    BY <2>1
  <2>3. QED
    BY <2>2 DEF PciDevCmp
<1>4. d.bus = "PCMCIA" => PcmciaDevCmp(d, d) = 0
  <2> SUFFICES ASSUME d.bus = "PCMCIA" PROVE PcmciaDevCmp(d, d) = 0
    OBVIOUS
  <2>1. d.id[1] \in Nat /\ d.id[2] \in Nat /\ d.part \in Nat
    BY <1>1
  <2>2. d.id[1] - d.id[1] = 0 /\ d.id[2] - d.id[2] = 0 /\ d.part - d.part = 0
    BY <2>1
  <2>3. QED
    BY <2>2 DEF PcmciaDevCmp
<1>5. Compare(d, d) = 0
  BY <1>2, <1>3, <1>4 DEF Compare
<1>6. QED
  BY <1>5 DEF d

\* So in an unambiguous list listRemove() finds the device it is called with.
LEMMA OnlyItself ==
  ASSUME NEW devs, IsList(devs), Unambiguous(devs), NEW e \in 1..Len(devs)
  PROVE  \A x \in 1..Len(devs) : Compare(devs[x], devs[e]) = 0 <=> x = e
BY ListIs, SameDevice DEF Unambiguous

\* The list as listCompare() linked it.
LEMMA LinkedOf ==
  ASSUME NEW devs, Len(devs) \in Nat, DOMAIN devs = 1..Len(devs), devs = <<>> <=> Len(devs) = 0
  PROVE  /\ Linked(devs) \in ListsOf(Len(devs))
         /\ GoesForward(Linked(devs), Len(devs))
         /\ Links(Linked(devs), Len(devs), 1..Len(devs))
         /\ Linked(devs).head = IF Len(devs) = 0 THEN Null ELSE 1
<1> DEFINE n == Len(devs)
           l == Linked(devs)
<1>0. n \in Nat /\ DOMAIN devs = 1..n /\ (devs = <<>> <=> n = 0)
  OBVIOUS
<1> HIDE DEF n
<1>1. /\ l.head = IF n = 0 THEN 0 ELSE 1
      /\ l.next = [x \in 1..n |-> IF x = n THEN 0 ELSE x + 1]
      /\ l = [head |-> l.head, next |-> l.next]
  BY <1>0 DEF Linked, Null, n
<1> HIDE DEF l
<1>2. l \in ListsOf(n)
  <2>1. l.head \in 0..n /\ l.next \in [1..n -> 0..n]
    BY <1>0, <1>1
  <2>2. QED
    BY <1>1, <2>1 DEF ListsOf
<1>3. \A x \in 1..n : l.next[x] = IF x = n THEN 0 ELSE x + 1
  BY <1>1
<1>4. GoesForward(l, n)
  BY <1>0, <1>3 DEF GoesForward, Forward, Null
<1>5. IsAfter(1..n, 0, l.head)
  BY <1>0, <1>1 DEF IsAfter, Null
<1>6. \A x \in 1..n : IsAfter(1..n, x, l.next[x])
  BY <1>0, <1>3 DEF IsAfter, Null
<1>7. QED
  BY <1>1, <1>2, <1>4, <1>5, <1>6 DEF Links, l, n, Null

LEMMA LinkedIs ==
  ASSUME NEW devs, IsList(devs)
  PROVE  /\ Linked(devs) \in ListsOf(Len(devs))
         /\ GoesForward(Linked(devs), Len(devs))
         /\ Links(Linked(devs), Len(devs), 1..Len(devs))
         /\ Linked(devs).head = IF Len(devs) = 0 THEN Null ELSE 1
BY ListIs, LinkedOf

-----------------------------------------------------------------------------
(* The inductive invariant *)

\* The place of a walk: behind the last of n devices at its end.
Place(n, d) == IF d = Null THEN n + 1 ELSE d

IsSearched(d) == ToConfigure(d) /\ ~d.detached

(***************************************************************************)
(* O and N are the devices of the two lists, W the new ones that are       *)
(* wanted.  Of the new devices, those left when the old ones before b have *)
(* been seen to, and those that x turns out to have become; and the old    *)
(* devices that are left then.                                             *)
(***************************************************************************)
NewLeft(O, N, b) ==
  {y \in 1..Len(N) : \A x \in 1..(b - 1) : IsSearched(O[x]) => Compare(N[y], O[x]) # 2}
Changed(O, N, x) == {y \in NewLeft(O, N, x) : Compare(N[y], O[x]) = 2}
OldLeft(O, N, b) ==
  {x \in 1..Len(O) : x < b => IsSearched(O[x]) /\ Changed(O, N, x) = {}}

\* The new devices left when those before c have been looked at.
WantedLeft(O, N, W, c) == {y \in NewLeft(O, N, Len(O) + 1) : y < c => y \in W}

\* The lists l and m with the walk at the old device d, ...
AtOld(O, N, l, m, d) ==
  /\ d \in 0..Len(O)
  /\ Links(l, Len(O), OldLeft(O, N, Place(Len(O), d)))
  /\ Links(m, Len(N), NewLeft(O, N, Place(Len(O), d)))

\* ... with the search for d at the new device t, when those in Found are the
\* ones that d has become so far, ...
Found(O, N, d, t) == {y \in Changed(O, N, d) : y < Place(Len(N), t)}
Rest(O, N, d, found) == IF found = {} THEN OldLeft(O, N, d) ELSE OldLeft(O, N, d) \ {d}
NotFound(O, N, d, found) == NewLeft(O, N, d) \ found

SearchedTo(O, N, l, m, d, found) ==
  /\ Links(l, Len(O), Rest(O, N, d, found)) /\ IsAfter(Rest(O, N, d, found), d, l.next[d])
  /\ Links(m, Len(N), NotFound(O, N, d, found))

AtSearch(O, N, l, m, d, t) ==
  /\ d \in 1..Len(O) /\ IsSearched(O[d])
  /\ t = Null \/ t \in NewLeft(O, N, d)
  /\ SearchedTo(O, N, l, m, d, Found(O, N, d, t))

\* ... and with the walk at the new device d.
AtNew(O, N, W, l, m, d) ==
  /\ d = Null \/ d \in NewLeft(O, N, Len(O) + 1)
  /\ Links(l, Len(O), OldLeft(O, N, Len(O) + 1))
  /\ Links(m, Len(N), WantedLeft(O, N, W, Place(Len(N), d)))

\* The walk that unconfigures is at the old device d.
AtUnconfigure(O, N, l, d) ==
  /\ d = Null \/ d \in OldLeft(O, N, Len(O) + 1)
  /\ Links(l, Len(O), OldLeft(O, N, Len(O) + 1))

\* The lists of FilterExact.
TwoLists(O, N) ==
  O \in OldLists /\ N \in NewLists /\ Unambiguous(O) /\ Unambiguous(N)

-----------------------------------------------------------------------------
LEMMA TwoListsAre ==
  ASSUME NEW O, NEW N, TwoLists(O, N)
  PROVE  /\ IsList(O) /\ IsList(N)
         /\ Len(O) \in Nat /\ DOMAIN O = 1..Len(O)
         /\ Len(N) \in Nat /\ DOMAIN N = 1..Len(N)
BY ListIs DEF TwoLists, IsList

\* A walk behind which all is left goes one device further.
LEMMA NextPlace ==
  ASSUME NEW n \in Nat, NEW S, S \subseteq 1..n, NEW d \in 0..n, NEW e, IsAfter(S, d, e),
         \A x \in (d + 1)..n : x \in S
  PROVE  Place(n, e) = d + 1 /\ e \in 0..n
<1>1. CASE e = Null
  <2>1. \A z \in S : z <= d
    BY <1>1 DEF IsAfter, Null
  <2>2. ~(d + 1 <= n)
    <3> SUFFICES ASSUME d + 1 <= n PROVE FALSE
      OBVIOUS
    <3>1. d + 1 \in S
      OBVIOUS
    <3>2. QED
      BY <2>1, <3>1
  <2>3. QED
    BY <1>1, <2>2 DEF Place, Null
<1>2. CASE e # Null
  <2>1. e \in S /\ d < e /\ \A z \in S : d < z => e <= z
    BY <1>2 DEF IsAfter
  <2>2. e \in 1..n /\ d + 1 \in 1..n
    BY <2>1
  <2>3. d + 1 \in S
    BY <2>2
  <2>4. e <= d + 1
    BY <2>1, <2>3
  <2>5. QED
    BY <1>2, <2>1, <2>2, <2>4 DEF Place
<1>3. QED
  BY <1>1, <1>2

\* S is L without some that are not after t.
AheadAll(L, S, t) == S \subseteq L /\ \A y \in L : y > t => y \in S

\* A walk at t that has taken members off L behind it only, and what it comes past.
LEMMA PassedOver ==
  ASSUME NEW n \in Nat, NEW L, L \subseteq 1..n, NEW S, NEW t \in 0..n, NEW u,
         AheadAll(L, S, t), IsAfter(S, t, u)
  PROVE  /\ u = Null \/ u \in L
         /\ \A y \in L : y < Place(n, u) <=> y <= t
<1>1. IsAfter(S, t, u) /\ S \subseteq L
  BY DEF AheadAll
<1>2. \A y \in L : y > t => y \in S
  BY DEF AheadAll
<1>3. u = Null \/ u \in L
  BY <1>1 DEF IsAfter
<1>4. ASSUME NEW y \in L PROVE y < Place(n, u) <=> y <= t
  <2>1. y \in 1..n
    OBVIOUS
  <2>2. CASE u = Null
    <3>1. \A z \in S : z <= t
      BY <1>1, <2>2 DEF IsAfter, Null
    <3>2. y <= t
      BY <1>2, <2>1, <3>1
    <3>3. QED
      BY <2>1, <2>2, <3>2 DEF Place
  <2>3. CASE u # Null
    <3>1. u \in S /\ t < u /\ \A z \in S : t < z => u <= z
      BY <1>1, <2>3 DEF IsAfter
    <3>2. u \in 1..n
      BY <1>1, <3>1
    <3>3. CASE y <= t
      BY <2>1, <2>3, <3>1, <3>2, <3>3 DEF Place
    <3>4. CASE y > t
      <4>1. u <= y
        BY <1>2, <3>1, <3>4
      <4>2. QED
        BY <2>1, <2>3, <3>2, <3>4, <4>1 DEF Place
    <3>5. QED
      BY <2>1, <3>3, <3>4
  <2>4. QED
    BY <2>2, <2>3
<1>5. QED
  BY <1>3, <1>4

\* The walk along the old devices, a turn of the loop at a time.
LEMMA LeftTypes ==
  ASSUME NEW O, NEW N, NEW b, NEW W
  PROVE  /\ OldLeft(O, N, b) \subseteq 1..Len(O) /\ NewLeft(O, N, b) \subseteq 1..Len(N)
         /\ Changed(O, N, b) \subseteq NewLeft(O, N, b)
         /\ WantedLeft(O, N, W, b) \subseteq 1..Len(N)
BY DEF OldLeft, NewLeft, Changed, WantedLeft

LEMMA NewLeftNext ==
  ASSUME NEW O, NEW N, NEW b \in Nat, b # 0
  PROVE  NewLeft(O, N, b + 1) = IF IsSearched(O[b]) THEN NewLeft(O, N, b) \ Changed(O, N, b)
                                ELSE NewLeft(O, N, b)
<1>1. 1..(b + 1 - 1) = 1..(b - 1) \cup {b}
  OBVIOUS
<1> HIDE DEF IsSearched
<1>2. \A y \in 1..Len(N) :
        y \in NewLeft(O, N, b + 1) <=>
          y \in NewLeft(O, N, b) /\ (IsSearched(O[b]) => Compare(N[y], O[b]) # 2)
  BY <1>1 DEF NewLeft
<1>3. NewLeft(O, N, b + 1) \subseteq 1..Len(N) /\ NewLeft(O, N, b) \subseteq 1..Len(N)
  BY DEF NewLeft
<1>4. CASE IsSearched(O[b])
  BY <1>2, <1>3, <1>4 DEF Changed
<1>5. CASE ~IsSearched(O[b])
  BY <1>2, <1>3, <1>5
<1>6. QED
  BY <1>4, <1>5

LEMMA OldLeftNext ==
  ASSUME NEW O, NEW N, Len(O) \in Nat, NEW b \in 1..Len(O)
  PROVE  /\ OldLeft(O, N, b + 1) =
              IF IsSearched(O[b]) /\ Changed(O, N, b) = {} THEN OldLeft(O, N, b)
              ELSE OldLeft(O, N, b) \ {b}
         /\ b \in OldLeft(O, N, b)
         /\ \A x \in (b + 1)..Len(O) : x \in OldLeft(O, N, b) /\ x # b
<1> DEFINE Stays(x) == IsSearched(O[x]) /\ Changed(O, N, x) = {}
<1>1. \A c : OldLeft(O, N, c) = {x \in 1..Len(O) : x < c => Stays(x)}
  BY DEF OldLeft
<1> HIDE DEF Stays
<1>2. \A x \in 1..Len(O) : x < b + 1 <=> x < b \/ x = b
  OBVIOUS
<1>3. \A x \in 1..Len(O) : x \in OldLeft(O, N, b + 1) <=>
        x \in OldLeft(O, N, b) /\ (x = b => Stays(b))
  BY <1>1, <1>2
<1>4. OldLeft(O, N, b + 1) \subseteq 1..Len(O) /\ OldLeft(O, N, b) \subseteq 1..Len(O)
  BY <1>1
<1>5. Stays(b) => OldLeft(O, N, b + 1) = OldLeft(O, N, b)
  BY <1>3, <1>4
<1>6. ~Stays(b) => OldLeft(O, N, b + 1) = OldLeft(O, N, b) \ {b}
  BY <1>3, <1>4
<1>7. b \in OldLeft(O, N, b) /\ \A x \in (b + 1)..Len(O) : x \in OldLeft(O, N, b) /\ x # b
  BY <1>1
<1>8. QED
  BY <1>5, <1>6, <1>7 DEF Stays

LEMMA StartOld ==
  ASSUME NEW O, NEW N, TwoLists(O, N)
  PROVE  AtOld(O, N, Linked(O), Linked(N), Linked(O).head)
<1>1. /\ IsList(O) /\ IsList(N) /\ Len(O) \in Nat
      /\ Links(Linked(O), Len(O), 1..Len(O)) /\ Links(Linked(N), Len(N), 1..Len(N))
      /\ Linked(O).head = IF Len(O) = 0 THEN Null ELSE 1
  BY TwoListsAre, LinkedIs
<1>2. Linked(O).head \in 0..Len(O) /\ Place(Len(O), Linked(O).head) = 1
  BY <1>1 DEF Place, Null
<1>3. OldLeft(O, N, 1) = 1..Len(O)
  BY <1>1 DEF OldLeft
<1>4. NewLeft(O, N, 1) = 1..Len(N)
  BY DEF NewLeft
<1>5. QED
  BY <1>1, <1>2, <1>3, <1>4 DEF AtOld

LEMMA DropStep ==
  ASSUME NEW O, NEW N, TwoLists(O, N), NEW l, NEW m, NEW d, AtOld(O, N, l, m, d), d # Null,
         ~IsSearched(O[d])
  PROVE  AtOld(O, N, ListRemove(l, O, O[d]), m, ListRemove(l, O, O[d]).next[d])
<1> DEFINE k == ListRemove(l, O, O[d])
           S == OldLeft(O, N, d)
           T == NewLeft(O, N, d)
<1>0. /\ IsList(O) /\ Len(O) \in Nat /\ Unambiguous(O) /\ d \in 1..Len(O)
      /\ Links(l, Len(O), S) /\ Links(m, Len(N), T)
  BY TwoListsAre DEF AtOld, Place, Null, TwoLists
<1>1. /\ d \in S /\ \A x \in (d + 1)..Len(O) : x \in S /\ x # d
      /\ OldLeft(O, N, d + 1) = S \ {d}
  BY <1>0, OldLeftNext
<1>2. NewLeft(O, N, d + 1) = T
  <2>1. d \in Nat /\ d # 0
    BY <1>0
  <2>2. QED
    BY <2>1, NewLeftNext
<1> HIDE DEF S, T, k
<1>3. k = Unlink(l, d)
  BY <1>0, <1>1, OnlyItself, RemoveIs DEF k
<1>4. Links(k, Len(O), S \ {d}) /\ k.next[d] = l.next[d]
  BY <1>0, <1>1, <1>3, UnlinkLinks
<1>5. IsAfter(S, d, k.next[d]) /\ S \subseteq 1..Len(O)
  BY <1>0, <1>1, <1>4 DEF Links
<1>6. Place(Len(O), k.next[d]) = d + 1 /\ k.next[d] \in 0..Len(O)
  <2>1. d \in 0..Len(O)
    BY <1>0
  <2>2. QED
    BY <1>0, <1>1, <1>5, <2>1, NextPlace
<1>7. QED
  BY <1>0, <1>1, <1>2, <1>4, <1>6 DEF AtOld, k

\* The search for a device.
LEMMA StartSearchStep ==
  ASSUME NEW O, NEW N, TwoLists(O, N), NEW l, NEW m, NEW d, AtOld(O, N, l, m, d), d # Null,
         IsSearched(O[d])
  PROVE  AtSearch(O, N, l, m, d, m.head)
<1> DEFINE S == OldLeft(O, N, d)
           T == NewLeft(O, N, d)
           C == Changed(O, N, d)
<1>0. /\ Len(O) \in Nat /\ Len(N) \in Nat /\ d \in 1..Len(O)
      /\ Links(l, Len(O), S) /\ Links(m, Len(N), T)
  BY TwoListsAre DEF AtOld, Place, Null
<1>1. d \in S
  BY <1>0, OldLeftNext
<1>2. C \subseteq T /\ T \subseteq 1..Len(N)
  BY LeftTypes
<1> HIDE DEF S, T, C
<1>3. IsAfter(S, d, l.next[d]) /\ IsAfter(T, 0, m.head)
  BY <1>0, <1>1 DEF Links
<1>4. /\ m.head = Null \/ m.head \in T
      /\ \A y \in T : y < Place(Len(N), m.head) <=> y <= 0
  <2>1. 0 \in 0..Len(N) /\ AheadAll(T, T, 0)
    BY <1>0 DEF AheadAll
  <2>2. QED
    BY <1>0, <1>2, <1>3, <2>1, PassedOver
<1>5. Found(O, N, d, m.head) = {}
  <2>1. \A y \in C : y \in T /\ ~(y <= 0)
    BY <1>0, <1>2
  <2>2. QED
    BY <1>4, <2>1 DEF Found, C
<1>6. Rest(O, N, d, {}) = S /\ NotFound(O, N, d, {}) = T
  BY DEF Rest, NotFound, S, T
<1>7. QED
  BY <1>0, <1>3, <1>4, <1>5, <1>6 DEF AtSearch, SearchedTo, T

\* What the search knows, with the sets by name.
LEMMA SearchIs ==
  ASSUME NEW O, NEW N, TwoLists(O, N), NEW l, NEW m, NEW d, NEW t, AtSearch(O, N, l, m, d, t)
  PROVE  /\ Len(O) \in Nat /\ Len(N) \in Nat /\ IsList(O) /\ IsList(N)
         /\ Unambiguous(O) /\ Unambiguous(N)
         /\ d \in 1..Len(O) /\ IsSearched(O[d]) /\ t \in 0..Len(N)
         /\ Changed(O, N, d) \subseteq NewLeft(O, N, d) /\ NewLeft(O, N, d) \subseteq 1..Len(N)
         /\ t = Null \/ t \in NewLeft(O, N, d)
         /\ SearchedTo(O, N, l, m, d, Found(O, N, d, t))
<1>1. /\ Len(O) \in Nat /\ Len(N) \in Nat /\ IsList(O) /\ IsList(N)
      /\ Unambiguous(O) /\ Unambiguous(N)
  BY TwoListsAre DEF TwoLists
<1>2. Changed(O, N, d) \subseteq NewLeft(O, N, d) /\ NewLeft(O, N, d) \subseteq 1..Len(N)
  BY LeftTypes
<1>3. /\ d \in 1..Len(O) /\ IsSearched(O[d])
      /\ t = Null \/ t \in NewLeft(O, N, d)
      /\ SearchedTo(O, N, l, m, d, Found(O, N, d, t))
  BY DEF AtSearch
<1>4. t \in 0..Len(N)
  BY <1>1, <1>2, <1>3 DEF Null
<1>5. QED
  BY <1>1, <1>2, <1>3, <1>4

\* The links that the search goes along.
LEMMA SearchNext ==
  ASSUME NEW O, NEW N, TwoLists(O, N), NEW l, NEW m, NEW d, NEW t, AtSearch(O, N, l, m, d, t),
         t # Null, NEW u, u = m.next[t]
  PROVE  /\ u = Null \/ u \in NewLeft(O, N, d)
         /\ \A y \in NewLeft(O, N, d) : y < Place(Len(N), u) <=> y <= t
<1> DEFINE T == NewLeft(O, N, d)
           C == Changed(O, N, d)
           found == Found(O, N, d, t)
           U == NotFound(O, N, d, found)
<1>0. /\ Len(N) \in Nat /\ t \in 1..Len(N) /\ t \in T /\ C \subseteq T /\ T \subseteq 1..Len(N)
      /\ Links(m, Len(N), U)
  BY SearchIs DEF SearchedTo, Null
<1>1. \A y \in found : y < t
  BY DEF Found, Place
<1>2. U = T \ found
  BY DEF NotFound
<1> HIDE DEF T, C, found, U
<1>3. t \notin found
  BY <1>0, <1>1
<1>4. AheadAll(T, U, t)
  <2>1. \A y \in T : y \in Nat
    BY <1>0
  <2>2. QED
    BY <1>0, <1>1, <1>2, <2>1 DEF AheadAll
<1>5. IsAfter(U, t, u)
  BY <1>0, <1>3, <1>2 DEF Links
<1>6. t \in 0..Len(N) /\ Len(N) \in Nat /\ T \subseteq 1..Len(N)
  BY <1>0
<1> HIDE DEF T, U
<1>7. /\ u = Null \/ u \in T
      /\ \A y \in T : y < Place(Len(N), u) <=> y <= t
  BY ONLY <1>4, <1>5, <1>6, PassedOver
<1>8. QED
  BY <1>7 DEF T

LEMMA OnlyDriverStep ==
  ASSUME NEW O, NEW N, TwoLists(O, N), NEW l, NEW m, NEW d, NEW t, AtSearch(O, N, l, m, d, t),
         t # Null, Compare(N[t], O[d]) = 2
  PROVE  AtSearch(O, N, ListRemove(l, O, O[d]), ListRemove(m, N, N[t]), d,
                  ListRemove(m, N, N[t]).next[t])
<1> DEFINE S == OldLeft(O, N, d)
           T == NewLeft(O, N, d)
           C == Changed(O, N, d)
           found == Found(O, N, d, t)
           rest == Rest(O, N, d, found)
           U == NotFound(O, N, d, found)
           k == ListRemove(l, O, O[d])
           j == ListRemove(m, N, N[t])
           u == j.next[t]
           now == Found(O, N, d, u)
<1>0. /\ Len(O) \in Nat /\ Len(N) \in Nat /\ IsList(O) /\ IsList(N)
      /\ Unambiguous(O) /\ Unambiguous(N)
      /\ d \in 1..Len(O) /\ IsSearched(O[d]) /\ t \in T
      /\ C \subseteq T /\ T \subseteq 1..Len(N)
      /\ Links(l, Len(O), rest) /\ IsAfter(rest, d, l.next[d]) /\ Links(m, Len(N), U)
  BY SearchIs DEF SearchedTo
<1>1. t \in C
  BY <1>0 DEF Changed
<1>2. d \in S
  BY <1>0, OldLeftNext
<1>3. found = {y \in C : y < t} /\ U = T \ found /\ now = {y \in C : y < Place(Len(N), u)}
      /\ (rest = S \/ rest = S \ {d})
  BY DEF Found, NotFound, Rest, Place
<1>4. t \in 1..Len(N) /\ t \notin found /\ t \in U
  <2>1. t \in 1..Len(N)
    BY <1>0
  <2>2. QED
    BY <1>0, <1>3, <2>1
<1>5. \A A : A # {} => Rest(O, N, d, A) = S \ {d} /\ NotFound(O, N, d, A) = T \ A
  BY DEF Rest, NotFound
<1> HIDE DEF S, T, C, found, rest, U, k, j, u, now
\* The new device goes.
<1>6. j = Unlink(m, t)
  BY <1>0, <1>4, OnlyItself, RemoveIs DEF j
<1>7. Links(j, Len(N), U \ {t}) /\ j.next[t] = m.next[t]
  BY <1>0, <1>4, <1>6, UnlinkLinks
<1>8. /\ u = Null \/ u \in T
      /\ \A y \in T : y < Place(Len(N), u) <=> y <= t
  BY <1>7, SearchNext DEF u, T
<1>9. now = found \cup {t}
  <2>1. \A y \in C : y \in T /\ y \in 1..Len(N)
    BY <1>0
  <2>2. \A y \in C : y < Place(Len(N), u) <=> y < t \/ y = t
    BY <1>4, <1>8, <2>1
  <2>3. QED
    BY <1>1, <1>3, <2>2
<1>10. U \ {t} = T \ now
  BY <1>3, <1>9
\* The old device goes, unless another new one has had it taken off.
<1>11. Links(k, Len(O), S \ {d}) /\ k.next[d] = l.next[d]
  <2>1. rest \ {d} = S \ {d}
    BY <1>3
  <2>2. CASE d \in rest
    <3>1. k = Unlink(l, d)
      BY <1>0, <2>2, OnlyItself, RemoveIs DEF k
    <3>2. Links(k, Len(O), rest \ {d}) /\ k.next[d] = l.next[d]
      BY <1>0, <2>2, <3>1, UnlinkLinks
    <3>3. QED
      BY <2>1, <3>2
  <2>3. CASE d \notin rest
    <3>1. rest = S \ {d}
      BY <1>2, <1>3, <2>3
    <3>2. k = l
      BY <1>0, <2>3, OnlyItself, RemoveIs DEF k
    <3>3. QED
      BY <1>0, <3>1, <3>2
  <2>4. QED
    BY <2>2, <2>3
<1>12. IsAfter(S \ {d}, d, k.next[d])
  <2>1. CASE rest = S \ {d}
    BY <1>0, <1>11, <2>1
  <2>2. CASE rest = S
    BY <1>0, <1>11, <2>2 DEF IsAfter
  <2>3. QED
    BY <1>3, <2>1, <2>2
<1>13. now # {}
  BY <1>9
<1>14. SearchedTo(O, N, k, j, d, now)
  BY <1>7, <1>10, <1>11, <1>12, <1>13, <1>5 DEF SearchedTo
<1>15. QED
  BY <1>0, <1>8, <1>14 DEF AtSearch, now, T, k, j, u

LEMMA AnotherStep ==
  ASSUME NEW O, NEW N, TwoLists(O, N), NEW l, NEW m, NEW d, NEW t, AtSearch(O, N, l, m, d, t),
         t # Null, Compare(N[t], O[d]) # 2
  PROVE  AtSearch(O, N, l, m, d, m.next[t])
<1> DEFINE T == NewLeft(O, N, d)
           C == Changed(O, N, d)
           u == m.next[t]
           found == Found(O, N, d, t)
           now == Found(O, N, d, u)
<1>0. /\ Len(N) \in Nat /\ d \in 1..Len(O) /\ IsSearched(O[d]) /\ t \in T
      /\ C \subseteq T /\ T \subseteq 1..Len(N)
      /\ SearchedTo(O, N, l, m, d, found)
  BY SearchIs
<1>1. t \notin C
  BY DEF Changed
<1>2. /\ u = Null \/ u \in T
      /\ \A y \in T : y < Place(Len(N), u) <=> y <= t
  BY SearchNext
<1>3. now = found
  <2>1. \A y \in C : y \in T /\ y \in 1..Len(N) /\ y # t
    BY <1>0, <1>1
  <2>2. t \in 1..Len(N)
    BY <1>0
  <2>3. Place(Len(N), t) = t
    BY <2>2 DEF Place, Null
  <2> HIDE DEF T, C, u
  <2>4. \A y \in C : y < Place(Len(N), u) <=> y < t
    BY <1>2, <2>1, <2>2
  <2>5. QED
    BY <2>4, <2>3 DEF Found, C
<1> HIDE DEF now, found, u
<1>4. SearchedTo(O, N, l, m, d, now)
  BY <1>0, <1>3
<1>5. QED
  BY <1>0, <1>2, <1>4 DEF AtSearch, now, u

LEMMA EndSearchStep ==
  ASSUME NEW O, NEW N, TwoLists(O, N), NEW l, NEW m, NEW d, AtSearch(O, N, l, m, d, Null)
  PROVE  AtOld(O, N, l, m, l.next[d])
<1> DEFINE S == OldLeft(O, N, d)
           T == NewLeft(O, N, d)
           C == Changed(O, N, d)
           found == Found(O, N, d, Null)
           rest == Rest(O, N, d, C)
<1>0. /\ Len(O) \in Nat /\ Len(N) \in Nat /\ d \in 1..Len(O) /\ IsSearched(O[d])
      /\ C \subseteq T /\ T \subseteq 1..Len(N)
      /\ SearchedTo(O, N, l, m, d, found)
  BY SearchIs
<1>1. found = C
  <2>1. \A y \in C : y < Len(N) + 1
    <3>1. \A y \in C : y \in 1..Len(N)
      BY <1>0
    <3>2. QED
      BY <1>0, <3>1
  <2>2. QED
    BY <2>1 DEF Place, Found
<1>2. Links(l, Len(O), rest) /\ IsAfter(rest, d, l.next[d]) /\ Links(m, Len(N), T \ C)
  BY <1>0, <1>1 DEF SearchedTo, NotFound
<1>3. OldLeft(O, N, d + 1) = rest /\ \A x \in (d + 1)..Len(O) : x \in rest
  BY <1>0, OldLeftNext DEF Rest
<1>4. NewLeft(O, N, d + 1) = T \ C
  <2>1. d \in Nat /\ d # 0
    BY <1>0
  <2>2. QED
    BY <1>0, <2>1, NewLeftNext
<1> HIDE DEF rest, T, C
<1>5. Place(Len(O), l.next[d]) = d + 1 /\ l.next[d] \in 0..Len(O)
  <2>1. rest \subseteq 1..Len(O) /\ d \in 0..Len(O)
    BY <1>0, <1>2 DEF Links
  <2>2. QED
    BY <1>0, <1>2, <1>3, <2>1, NextPlace
<1>6. QED
  BY <1>2, <1>3, <1>4, <1>5 DEF AtOld

\* The walk along the new devices.
LEMMA EndOldStep ==
  ASSUME NEW O, NEW N, TwoLists(O, N), NEW W, NEW l, NEW m, AtOld(O, N, l, m, Null)
  PROVE  AtNew(O, N, W, l, m, m.head)
<1> DEFINE T == NewLeft(O, N, Len(O) + 1)
<1>0. /\ Len(N) \in Nat /\ Links(l, Len(O), OldLeft(O, N, Len(O) + 1)) /\ Links(m, Len(N), T)
  BY TwoListsAre DEF AtOld, Place
<1>1. T \subseteq 1..Len(N) /\ \A c : WantedLeft(O, N, W, c) = {y \in T : y < c => y \in W}
  BY LeftTypes DEF WantedLeft
<1> HIDE DEF T
<1>2. IsAfter(T, 0, m.head)
  BY <1>0 DEF Links
<1>3. /\ m.head = Null \/ m.head \in T
      /\ \A y \in T : y < Place(Len(N), m.head) <=> y <= 0
  <2>1. 0 \in 0..Len(N) /\ AheadAll(T, T, 0)
    BY <1>0 DEF AheadAll
  <2>2. QED
    BY <1>0, <1>1, <1>2, <2>1, PassedOver
<1>4. WantedLeft(O, N, W, Place(Len(N), m.head)) = T
  <2>1. \A y \in T : ~(y <= 0)
    BY <1>1
  <2>2. QED
    BY <1>1, <1>3, <2>1
<1>5. QED
  BY <1>0, <1>3, <1>4 DEF AtNew, T

\* What the walk comes to next, and what has been looked at then.
LEMMA NewNext ==
  ASSUME NEW O, NEW N, TwoLists(O, N), NEW W, NEW l, NEW m, NEW d, AtNew(O, N, W, l, m, d),
         d # Null, NEW u, u = m.next[d]
  PROVE  /\ u = Null \/ u \in NewLeft(O, N, Len(O) + 1)
         /\ WantedLeft(O, N, W, Place(Len(N), u)) = IF d \in W THEN WantedLeft(O, N, W, d)
                                                    ELSE WantedLeft(O, N, W, d) \ {d}
         /\ d \in 1..Len(N) /\ d \in WantedLeft(O, N, W, d)
<1> DEFINE T == NewLeft(O, N, Len(O) + 1)
           S == WantedLeft(O, N, W, d)
           next == WantedLeft(O, N, W, Place(Len(N), u))
<1>0. /\ Len(N) \in Nat /\ d \in T /\ Links(m, Len(N), S)
  BY TwoListsAre DEF AtNew, Place
<1>1. T \subseteq 1..Len(N) /\ S = {y \in T : y < d => y \in W}
      /\ next = {y \in T : y < Place(Len(N), u) => y \in W}
  BY LeftTypes DEF WantedLeft
<1> HIDE DEF T, S, next
<1>2. d \in 1..Len(N) /\ d \in S
  BY <1>0, <1>1
<1>3. AheadAll(T, S, d)
  <2>1. \A y \in T : y \in Nat
    BY <1>1
  <2>2. QED
    BY <1>1, <1>2, <2>1 DEF AheadAll
<1>4. IsAfter(S, d, u) /\ d \in 0..Len(N)
  BY <1>0, <1>2 DEF Links
<1>5. /\ u = Null \/ u \in T
      /\ \A y \in T : y < Place(Len(N), u) <=> y <= d
  <2>1. Len(N) \in Nat /\ T \subseteq 1..Len(N)
    BY <1>0, <1>1
  <2>2. QED
    BY ONLY <1>3, <1>4, <2>1, PassedOver
<1>6. \A y \in T : y <= d <=> y < d \/ y = d
  <2>1. \A y \in T : y \in Nat
    BY <1>1
  <2>2. QED
    BY <1>2, <2>1
<1>7. d \in W => next = S
  BY <1>1, <1>5, <1>6
<1>8. d \notin W => next = S \ {d}
  BY <1>1, <1>5, <1>6
<1>9. QED
  BY <1>2, <1>5, <1>7, <1>8 DEF T, S, next

LEMMA KeepStep ==
  ASSUME NEW O, NEW N, TwoLists(O, N), NEW W, NEW l, NEW m, NEW d, AtNew(O, N, W, l, m, d),
         d # Null, d \in W
  PROVE  AtNew(O, N, W, l, m, m.next[d])
<1> DEFINE u == m.next[d]
<1> HIDE DEF u
<1>1. /\ u = Null \/ u \in NewLeft(O, N, Len(O) + 1)
      /\ WantedLeft(O, N, W, Place(Len(N), u)) = WantedLeft(O, N, W, d)
  BY NewNext DEF u
<1>2. Links(l, Len(O), OldLeft(O, N, Len(O) + 1)) /\ Links(m, Len(N), WantedLeft(O, N, W, d))
  BY DEF AtNew, Place
<1>3. QED
  BY <1>1, <1>2 DEF AtNew, u

LEMMA DropNewStep ==
  ASSUME NEW O, NEW N, TwoLists(O, N), NEW W, NEW l, NEW m, NEW d, AtNew(O, N, W, l, m, d),
         d # Null, d \notin W
  PROVE  AtNew(O, N, W, l, ListRemove(m, N, N[d]), ListRemove(m, N, N[d]).next[d])
<1> DEFINE u == m.next[d]
           j == ListRemove(m, N, N[d])
           S == WantedLeft(O, N, W, d)
<1>0. Len(N) \in Nat /\ IsList(N) /\ Unambiguous(N)
  BY TwoListsAre DEF TwoLists
<1>1. Links(l, Len(O), OldLeft(O, N, Len(O) + 1)) /\ Links(m, Len(N), S)
  BY DEF AtNew, Place
<1> HIDE DEF u, j
<1>2. /\ u = Null \/ u \in NewLeft(O, N, Len(O) + 1)
      /\ WantedLeft(O, N, W, Place(Len(N), u)) = S \ {d}
      /\ d \in 1..Len(N) /\ d \in S
  BY NewNext DEF u
<1> HIDE DEF S
<1>3. j = Unlink(m, d)
  BY <1>0, <1>2, <1>1, OnlyItself, RemoveIs DEF j
<1>4. Links(j, Len(N), S \ {d}) /\ j.next[d] = u
  BY <1>0, <1>2, <1>1, <1>3, UnlinkLinks DEF u
<1>5. QED
  BY <1>2, <1>1, <1>4 DEF AtNew, j

\* The walk that unconfigures.
LEMMA EndNewStep ==
  ASSUME NEW O, NEW N, TwoLists(O, N), NEW W, NEW l, NEW m, AtNew(O, N, W, l, m, Null)
  PROVE  /\ AtUnconfigure(O, N, l, l.head)
         /\ Links(m, Len(N), WantedLeft(O, N, W, Len(N) + 1))
BY DEF AtNew, AtUnconfigure, Place, Links, IsAfter

LEMMA UnconfigureStep ==
  ASSUME NEW O, NEW N, TwoLists(O, N), NEW l, NEW d, AtUnconfigure(O, N, l, d), d # Null
  PROVE  AtUnconfigure(O, N, l, l.next[d]) /\ l.next[d] # l.head
<1> DEFINE S == OldLeft(O, N, Len(O) + 1)
<1>0. d \in S /\ Links(l, Len(O), S) /\ Len(O) \in Nat
  BY TwoListsAre DEF AtUnconfigure
<1> HIDE DEF S
<1>1. /\ S \subseteq 1..Len(O) /\ IsAfter(S, 0, l.head) /\ IsAfter(S, d, l.next[d])
      /\ l.head \in 0..Len(O) /\ d \in 1..Len(O)
  BY <1>0 DEF Links, ListsOf
<1>2. l.head # Null /\ l.head <= d
  BY <1>0, <1>1 DEF IsAfter, Null
<1>3. l.next[d] = Null \/ (l.next[d] \in S /\ l.next[d] > d /\ l.next[d] \in 1..Len(O))
  BY <1>1 DEF IsAfter
<1>4. l.next[d] # l.head
  BY <1>1, <1>2, <1>3
<1>5. QED
  BY <1>0, <1>3, <1>4 DEF AtUnconfigure, S

-----------------------------------------------------------------------------
\* The links of the lists, the walks along them, and where writeConfModules()
\* is.
WalksOK ==
  /\ old \in ListsOf(Len(oldDevs)) /\ GoesForward(old, Len(oldDevs))
  /\ new \in ListsOf(Len(newDevs)) /\ GoesForward(new, Len(newDevs))
  /\ pc \in {"old", "search", "new", "unconfigure", "configure", "return"}
  /\ pc \in {"old", "search", "unconfigure"} => dev \in 0..Len(oldDevs)
  /\ pc \in {"new", "configure", "return"} => dev \in 0..Len(newDevs)
  /\ tmpdev \in 0..Len(newDevs)
  /\ pc = "search" => dev # Null
  /\ wpc \in {"none", "edit", "rename", "write"}
  /\ wpc # "none" => dev # Null /\ pc \in {"unconfigure", "configure"}

MenuTypeOK == oldDevs \in OldLists /\ newDevs \in NewLists /\ WalksOK

\* The new devices worth configuring, as modprobe.conf is now.
WantedNew == {y \in DOMAIN newDevs : Wanted(newDevs[y])}

\* Where each walk is, and so which devices the lists have.  Only the first
\* device that is unconfigured finds modprobe.conf as the walks left it.
FilterInv ==
  Unambiguous(oldDevs) /\ Unambiguous(newDevs) =>
    /\ pc = "old" => AtOld(oldDevs, newDevs, old, new, dev)
    /\ pc = "search" => AtSearch(oldDevs, newDevs, old, new, dev, tmpdev)
    /\ pc = "new" => AtNew(oldDevs, newDevs, WantedNew, old, new, dev)
    /\ pc = "unconfigure" => AtUnconfigure(oldDevs, newDevs, old, dev)
    /\ pc = "unconfigure" /\ dev = old.head /\ wpc \in {"none", "edit"} =>
         Links(new, Len(newDevs), WantedLeft(oldDevs, newDevs, WantedNew, Len(newDevs) + 1))

-----------------------------------------------------------------------------
LEMMA PointersAre ==
  ASSUME NEW n \in Nat, NEW list \in ListsOf(n)
  PROVE  list.head \in 0..n /\ \A x \in 1..n : list.next[x] \in 0..n
BY DEF ListsOf

LEMMA MenuInitType == MenuInit => MenuTypeOK
<1> SUFFICES ASSUME MenuInit PROVE MenuTypeOK
  OBVIOUS
<1>1. IsList(oldDevs) /\ IsList(newDevs) /\ oldDevs \in OldLists /\ newDevs \in NewLists
  BY DEF MenuInit, IsList
<1>2. Len(oldDevs) \in Nat /\ Len(newDevs) \in Nat
  BY <1>1, ListIs
<1>3. /\ old \in ListsOf(Len(oldDevs)) /\ GoesForward(old, Len(oldDevs))
      /\ new \in ListsOf(Len(newDevs)) /\ GoesForward(new, Len(newDevs))
  BY <1>1, LinkedIs DEF MenuInit
<1>4. old.head \in 0..Len(oldDevs)
  BY <1>2, <1>3, PointersAre
<1>5. dev = old.head /\ tmpdev = Null /\ wpc = "none" /\ pc = "old"
  BY DEF MenuInit
<1>6. QED
  BY <1>1, <1>2, <1>3, <1>4, <1>5 DEF MenuTypeOK, WalksOK, Null

\* Every step keeps the lists well linked, and takes a walk forward.
LEMMA WalksStep ==
  ASSUME WalksOK, Len(oldDevs) \in Nat, Len(newDevs) \in Nat, MenuNext
  PROVE  /\ WalksOK'
         /\ pc \in {"old", "search"} /\ pc' = "old" => Forward(dev, dev')
         /\ pc = "new" /\ pc' = "new" => Forward(dev, dev')
         /\ pc = "search" /\ pc' = "search" => Forward(tmpdev, tmpdev')
         /\ wpc # "none" /\ wpc' = "none" => Forward(dev, dev')
<1> DEFINE n1 == Len(oldDevs)
           n2 == Len(newDevs)
<1>0. n1 \in Nat /\ n2 \in Nat
  OBVIOUS
<1>1. /\ old.head \in 0..n1 /\ \A x \in 1..n1 : old.next[x] \in 0..n1 /\ Forward(x, old.next[x])
      /\ new.head \in 0..n2 /\ \A x \in 1..n2 : new.next[x] \in 0..n2 /\ Forward(x, new.next[x])
  BY <1>0, PointersAre DEF WalksOK, GoesForward
<1>2. \A d : LET k == ListRemove(old, oldDevs, d)
             IN k \in ListsOf(n1) /\ GoesForward(k, n1)
                /\ \A x \in 1..n1 : k.next[x] \in 0..n1 /\ Forward(x, k.next[x])
  BY <1>0, RemoveForward, PointersAre DEF WalksOK, GoesForward
<1>3. \A d : LET j == ListRemove(new, newDevs, d)
             IN j \in ListsOf(n2) /\ GoesForward(j, n2)
                /\ \A x \in 1..n2 : j.next[x] \in 0..n2 /\ Forward(x, j.next[x])
  BY <1>0, RemoveForward, PointersAre DEF WalksOK, GoesForward
<1>4. CASE DropOld
  <2>1. dev \in 1..n1
    BY <1>0, <1>4 DEF DropOld, WalksOK, Null
  <2>2. old' \in ListsOf(n1) /\ GoesForward(old', n1) /\ dev' \in 0..n1 /\ Forward(dev, dev')
    BY <1>2, <1>4, <2>1 DEF DropOld
  <2>3. QED
    BY <1>4, <2>2 DEF DropOld, WalksOK
<1>5. CASE KeepDetached
  <2>1. dev \in 1..n1
    BY <1>0, <1>5 DEF KeepDetached, WalksOK, Null
  <2>2. old' \in ListsOf(n1) /\ GoesForward(old', n1) /\ dev' \in 0..n1 /\ Forward(dev, dev')
    BY <1>2, <1>5, <2>1 DEF KeepDetached
  <2>3. QED
    BY <1>5, <2>2 DEF KeepDetached, WalksOK
<1>6. CASE StartSearch
  BY <1>0, <1>1, <1>6 DEF StartSearch, WalksOK, menu
<1>7. CASE OnlyDriver
  <2>1. tmpdev \in 1..n2
    BY <1>0, <1>7 DEF OnlyDriver, WalksOK, Null
  <2>2. /\ old' \in ListsOf(n1) /\ GoesForward(old', n1)
        /\ new' \in ListsOf(n2) /\ GoesForward(new', n2)
        /\ tmpdev' \in 0..n2 /\ Forward(tmpdev, tmpdev')
    BY <1>2, <1>3, <1>7, <2>1 DEF OnlyDriver
  <2>3. QED
    BY <1>7, <2>2 DEF OnlyDriver, WalksOK
<1>8. CASE Another
  <2>1. tmpdev \in 1..n2
    BY <1>0, <1>8 DEF Another, WalksOK, Null
  <2>2. QED
    BY <1>1, <1>8, <2>1 DEF Another, WalksOK, menu
<1>9. CASE EndSearch
  <2>1. dev \in 1..n1
    BY <1>0, <1>9 DEF EndSearch, WalksOK, Null
  <2>2. QED
    BY <1>1, <1>9, <2>1 DEF EndSearch, WalksOK, menu
<1>10. CASE EndOld
  BY <1>1, <1>10 DEF EndOld, WalksOK, menu
<1>11. CASE KeepNew
  <2>1. dev \in 1..n2
    BY <1>0, <1>11 DEF KeepNew, WalksOK, Null
  <2>2. QED
    BY <1>1, <1>11, <2>1 DEF KeepNew, WalksOK, menu
<1>12. CASE DropNew
  <2>1. dev \in 1..n2
    BY <1>0, <1>12 DEF DropNew, WalksOK, Null
  <2>2. new' \in ListsOf(n2) /\ GoesForward(new', n2) /\ dev' \in 0..n2 /\ Forward(dev, dev')
    BY <1>3, <1>12, <2>1 DEF DropNew
  <2>3. QED
    BY <1>12, <2>2 DEF DropNew, WalksOK
<1>13. CASE EndNew
  <2>1. UNCHANGED <<menu, tmpdev, wpc>> /\ pc = "new" /\ dev = Null
    BY <1>13 DEF EndNew
  <2>2. (pc' = "return" /\ dev' = Null) \/ (pc' = "unconfigure" /\ dev' = old.head)
    BY <1>13 DEF EndNew
  <2>3. QED
    BY <1>1, <2>1, <2>2 DEF WalksOK, menu
<1>14. CASE ReadConf
  BY <1>14 DEF ReadConf, WalksOK, menu
<1>15. CASE UnconfigureDevice
  <2>1. dev \in 1..n1
    BY <1>0, <1>15 DEF UnconfigureDevice, WalksOK, Null
  <2>2. /\ UNCHANGED <<menu, tmpdev, pc>> /\ pc = "unconfigure" /\ wpc = "edit"
        /\ (dev' = old.next[dev] /\ wpc' = "none") \/ (dev' = dev /\ wpc' = "rename")
    BY <1>15 DEF UnconfigureDevice
  <2>3. QED
    BY <1>1, <2>1, <2>2 DEF WalksOK, menu
<1>16. CASE EndUnconfigure
  BY <1>1, <1>16 DEF EndUnconfigure, WalksOK, menu
<1>17. CASE ConfigureDevice
  <2>1. dev \in 1..n2
    BY <1>0, <1>17 DEF ConfigureDevice, WalksOK, Null
  <2>2. /\ UNCHANGED <<menu, tmpdev, pc>> /\ pc = "configure" /\ wpc = "edit"
        /\ (dev' = new.next[dev] /\ wpc' = "none") \/ (dev' = dev /\ wpc' = "rename")
    BY <1>17 DEF ConfigureDevice
  <2>3. QED
    BY <1>1, <2>1, <2>2 DEF WalksOK, menu
<1>18. CASE EndConfigure
  BY <1>18 DEF EndConfigure, WalksOK, menu
<1>19. CASE Rename
  BY <1>19 DEF Rename, WalksOK, menu
<1>20. CASE Write
  <2>1. UNCHANGED <<menu, tmpdev, pc>> /\ wpc = "write" /\ wpc' = "none"
    BY <1>20 DEF Write
  <2>2. CASE pc = "unconfigure"
    <3>1. dev \in 1..n1 /\ dev' = old.next[dev]
      BY <1>0, <1>20, <2>2 DEF Write, WalksOK, Null
    <3>2. QED
      BY <1>1, <2>1, <2>2, <3>1 DEF WalksOK, menu
  <2>3. CASE pc = "configure"
    <3>1. dev \in 1..n2 /\ dev' = new.next[dev]
      BY <1>0, <1>20, <2>3 DEF Write, WalksOK, Null
    <3>2. QED
      BY <1>1, <2>1, <2>3, <3>1 DEF WalksOK, menu
  <2>4. QED
    BY <2>1, <2>2, <2>3 DEF WalksOK
<1>21. QED
  BY <1>4, <1>5, <1>6, <1>7, <1>8, <1>9, <1>10, <1>11, <1>12, <1>13, <1>14, <1>15, <1>16,
     <1>17, <1>18, <1>19, <1>20 DEF MenuNext

\* The two arrays stay what listCompare() returned.
LEMMA ArraysStay == MenuNext => UNCHANGED <<oldDevs, newDevs>>
BY DEF MenuNext, menu, DropOld, KeepDetached, StartSearch, OnlyDriver, Another, EndSearch, EndOld,
       KeepNew, DropNew, EndNew, ReadConf, UnconfigureDevice, EndUnconfigure, ConfigureDevice,
       EndConfigure, Rename, Write

LEMMA MenuTypeStep ==
  ASSUME MenuTypeOK, MenuNext
  PROVE  /\ MenuTypeOK'
         /\ pc \in {"old", "search"} /\ pc' = "old" => Forward(dev, dev')
         /\ pc = "new" /\ pc' = "new" => Forward(dev, dev')
         /\ pc = "search" /\ pc' = "search" => Forward(tmpdev, tmpdev')
         /\ wpc # "none" /\ wpc' = "none" => Forward(dev, dev')
<1>1. Len(oldDevs) \in Nat /\ Len(newDevs) \in Nat
  BY ListIs DEF MenuTypeOK, IsList
<1>2. QED
  BY <1>1, WalksStep, ArraysStay DEF MenuTypeOK

\* The walks are at devices of their lists, and the links of a list, which
\* listRemove() bends while they are walked, stay within it and go forward:
\* hwconf.c:707-769 and kudzu.c:264-282.
THEOREM MenuType == MenuSpec => []MenuTypeOK
<1>1. MenuTypeOK /\ UNCHANGED menuVars => MenuTypeOK'
  BY DEF MenuTypeOK, WalksOK, menuVars, menu
<1>2. QED
  BY <1>1, MenuInitType, MenuTypeStep, PTL DEF MenuSpec

\* Every walk goes on to a device further down its list, though it goes on from
\* devices that were taken off and whichever device compares equal is the one
\* that is: for any lists, told apart or not, hwconf.c:713-769.
THEOREM MenuWalksGoForward == MenuSpec => WalksGoForward
<1>1. MenuTypeOK /\ MenuNext =>
        /\ pc \in {"old", "search"} /\ pc' = "old" => Forward(dev, dev')
        /\ pc = "new" /\ pc' = "new" => Forward(dev, dev')
        /\ pc = "search" /\ pc' = "search" => Forward(tmpdev, tmpdev')
        /\ wpc # "none" /\ wpc' = "none" => Forward(dev, dev')
  BY MenuTypeStep
<1>2. QED
  BY <1>1, MenuType, PTL DEF MenuSpec, WalksGoForward

LEMMA FilterInit == MenuInit => FilterInv
<1> SUFFICES ASSUME MenuInit, Unambiguous(oldDevs), Unambiguous(newDevs)
             PROVE  AtOld(oldDevs, newDevs, old, new, dev)
  BY DEF MenuInit, FilterInv
<1>1. TwoLists(oldDevs, newDevs) /\ old = Linked(oldDevs) /\ new = Linked(newDevs) /\ dev = old.head
  BY DEF MenuInit, TwoLists
<1>2. QED
  BY <1>1, StartOld

LEMMA FilterStep ==
  ASSUME MenuTypeOK, FilterInv, MenuNext
  PROVE  FilterInv'
<1> USE DEF Null
<1>0. oldDevs' = oldDevs /\ newDevs' = newDevs
  BY DEF MenuNext, menu, DropOld, KeepDetached, StartSearch, OnlyDriver, Another, EndSearch,
     EndOld, KeepNew, DropNew, EndNew, ReadConf, UnconfigureDevice, EndUnconfigure,
     ConfigureDevice, EndConfigure, Rename, Write
<1> DEFINE O == oldDevs
           N == newDevs
           W == WantedNew
<1> SUFFICES ASSUME Unambiguous(O), Unambiguous(N)
             PROVE  /\ pc' = "old" => AtOld(O, N, old', new', dev')
                    /\ pc' = "search" => AtSearch(O, N, old', new', dev', tmpdev')
                    /\ pc' = "new" => AtNew(O, N, W', old', new', dev')
                    /\ pc' = "unconfigure" => AtUnconfigure(O, N, old', dev')
                    /\ pc' = "unconfigure" /\ dev' = old'.head /\ wpc' \in {"none", "edit"} =>
                         Links(new', Len(N), WantedLeft(O, N, W', Len(N) + 1))
  BY <1>0 DEF FilterInv
<1>1. TwoLists(O, N)
  BY DEF TwoLists, MenuTypeOK
<1>2. /\ pc = "old" => AtOld(O, N, old, new, dev)
      /\ pc = "search" => AtSearch(O, N, old, new, dev, tmpdev)
      /\ pc = "new" => AtNew(O, N, W, old, new, dev)
      /\ pc = "unconfigure" => AtUnconfigure(O, N, old, dev)
      /\ pc = "unconfigure" /\ dev = old.head /\ wpc \in {"none", "edit"} =>
           Links(new, Len(N), WantedLeft(O, N, W, Len(N) + 1))
  BY DEF FilterInv
<1>3. conf' = conf /\ runFirst' = runFirst => W' = W
  BY <1>0 DEF WantedNew, Wanted
<1>4. dev # Null /\ pc = "new" => (dev \in W <=> Wanted(N[dev]))
  <2>1. DOMAIN N = 1..Len(N)
    BY <1>1, TwoListsAre
  <2>2. QED
    BY <2>1 DEF WantedNew, MenuTypeOK, WalksOK
<1>5. wpc # "none" => pc \in {"unconfigure", "configure"} /\ dev # Null
  BY DEF MenuTypeOK, WalksOK
<1> HIDE DEF O, N, W
<1>6. CASE DropOld
  BY <1>1, <1>2, <1>6, DropStep DEF DropOld, IsSearched, O
<1>7. CASE KeepDetached
  BY <1>1, <1>2, <1>7, DropStep DEF KeepDetached, IsSearched, O
<1>8. CASE StartSearch
  BY <1>1, <1>2, <1>8, StartSearchStep DEF StartSearch, IsSearched, O, menu
<1>9. CASE OnlyDriver
  BY <1>1, <1>2, <1>9, OnlyDriverStep DEF OnlyDriver, O, N
<1>10. CASE Another
  BY <1>1, <1>2, <1>10, AnotherStep DEF Another, O, N, menu
<1>11. CASE EndSearch
  BY <1>1, <1>2, <1>11, EndSearchStep DEF EndSearch, menu
<1>12. CASE EndOld
  BY <1>1, <1>2, <1>3, <1>12, EndOldStep DEF EndOld, menu, files
<1>13. CASE KeepNew
  BY <1>1, <1>2, <1>3, <1>4, <1>13, KeepStep DEF KeepNew, menu, files, N
<1>14. CASE DropNew
  BY <1>1, <1>2, <1>3, <1>4, <1>14, DropNewStep DEF DropNew, files, N
<1>15. CASE EndNew
  <2>1. UNCHANGED <<old, new, W>> /\ pc = "new" /\ dev = Null
    BY <1>3, <1>15 DEF EndNew, menu, files
  <2>2. pc' = "return" \/ (pc' = "unconfigure" /\ dev' = old.head)
    BY <1>15 DEF EndNew
  <2>3. QED
    BY <1>1, <1>2, <2>1, <2>2, EndNewStep
<1>16. CASE ReadConf
  BY <1>2, <1>3, <1>16 DEF ReadConf, menu, files
<1>17. CASE UnconfigureDevice
  <2>1. UNCHANGED <<old, new, W, pc>> /\ pc = "unconfigure" /\ dev # Null
    BY <1>3, <1>5, <1>17 DEF UnconfigureDevice, menu, files
  <2>2. dev' = old.next[dev] \/ (dev' = dev /\ wpc' = "rename")
    BY <1>17 DEF UnconfigureDevice
  <2>3. QED
    BY <1>1, <1>2, <2>1, <2>2, UnconfigureStep
<1>18. CASE EndUnconfigure
  BY <1>18 DEF EndUnconfigure
<1>19. CASE ConfigureDevice
  BY <1>19 DEF ConfigureDevice
<1>20. CASE EndConfigure
  BY <1>20 DEF EndConfigure
<1>21. CASE Rename
  BY <1>2, <1>5, <1>21 DEF Rename, menu
<1>22. CASE Write
  BY <1>1, <1>2, <1>5, <1>22, UnconfigureStep DEF Write, menu
<1>23. QED
  BY <1>6, <1>7, <1>8, <1>9, <1>10, <1>11, <1>12, <1>13, <1>14, <1>15, <1>16, <1>17, <1>18,
     <1>19, <1>20, <1>21, <1>22 DEF MenuNext

LEMMA FilterStutter == FilterInv /\ UNCHANGED menuVars => FilterInv'
<1> SUFFICES ASSUME FilterInv, UNCHANGED menuVars PROVE FilterInv'
  OBVIOUS
<1>1. UNCHANGED <<oldDevs, newDevs, old, new, dev, tmpdev, runFirst, conf, pc, wpc>>
  BY DEF menuVars, menu, files
<1>2. UNCHANGED WantedNew
  BY <1>1 DEF WantedNew, Wanted
<1>3. QED
  BY <1>1, <1>2 DEF FilterInv

\* The sets of FilterExact are those of FilterInv.
LEMMA FilterSets ==
  ASSUME TwoLists(oldDevs, newDevs)
  PROVE  /\ OldLeft(oldDevs, newDevs, Len(oldDevs) + 1) =
              {x \in DOMAIN oldDevs : Searched(x) /\ ChangedFrom(x) = {}}
         /\ WantedLeft(oldDevs, newDevs, WantedNew, Len(newDevs) + 1) =
              {y \in DOMAIN newDevs :
                 /\ Wanted(newDevs[y])
                 /\ \A x \in DOMAIN oldDevs : Searched(x) => y \notin ChangedFrom(x)}
<1> DEFINE O == oldDevs
           N == newDevs
           n == Len(O)
<1>0. n \in Nat /\ DOMAIN O = 1..n /\ Len(N) \in Nat /\ DOMAIN N = 1..Len(N)
  BY TwoListsAre
<1>1. \A x : Searched(x) <=> IsSearched(O[x])
  BY DEF Searched, IsSearched
<1>2. \A x : ChangedFrom(x) = Changed(O, N, x)
  BY <1>0, <1>1 DEF ChangedFrom, Changed, NewLeft
<1>3. ASSUME NEW y \in 1..Len(N)
      PROVE  y \in NewLeft(O, N, n + 1) <=>
               \A x \in 1..n : IsSearched(O[x]) => y \notin Changed(O, N, x)
  <2> DEFINE Hit(x) == IsSearched(O[x]) /\ Compare(N[y], O[x]) = 2
  <2>1. \A b : y \in NewLeft(O, N, b) <=> \A x \in 1..(b - 1) : ~Hit(x)
    BY DEF NewLeft
  <2>2. \A x : IsSearched(O[x]) /\ y \in Changed(O, N, x) <=> Hit(x) /\ y \in NewLeft(O, N, x)
    BY DEF Changed
  <2> HIDE DEF Hit, O, N
  <2>3. y \in NewLeft(O, N, n + 1) <=> \A x \in 1..n : ~Hit(x)
    BY <1>0, <2>1
  <2>4. ASSUME NEW x \in 1..n, Hit(x)
        PROVE  \E z \in 1..n : Hit(z) /\ y \in NewLeft(O, N, z)
    <3> DEFINE S == {z \in 1..n : Hit(z)}
    <3>1. x \in S /\ x \in Nat
      BY <2>4
    <3>2. \A z \in S : z \in 1..n /\ Hit(z)
      OBVIOUS
    <3>3. \A z \in 1..n : Hit(z) => z \in S
      OBVIOUS
    <3> HIDE DEF S
    <3>4. PICK z \in Nat : z \in S /\ \A v \in 0..(z - 1) : v \notin S
      BY <3>1, LeastMember
    <3>5. \A v \in 1..(z - 1) : ~Hit(v)
      <4>1. \A v \in 1..(z - 1) : v \in 1..n /\ v \in 0..(z - 1)
        BY <1>0, <3>2, <3>4
      <4>2. QED
        BY <3>4, <3>3, <4>1
    <3>6. QED
      BY <2>1, <3>2, <3>4, <3>5
  <2>5. QED
    BY <2>2, <2>3, <2>4
<1>4. OldLeft(O, N, n + 1) = {x \in DOMAIN O : Searched(x) /\ ChangedFrom(x) = {}}
  <2>1. \A x \in 1..n : x < n + 1
    BY <1>0
  <2>2. QED
    BY <1>0, <1>1, <1>2, <2>1 DEF OldLeft
<1>5. \A y \in 1..Len(N) : y < Len(N) + 1
  BY <1>0
<1>6. NewLeft(O, N, n + 1) \subseteq 1..Len(N)
  BY DEF NewLeft
<1>7. WantedLeft(O, N, WantedNew, Len(N) + 1) =
        {y \in DOMAIN N :
           /\ Wanted(N[y])
           /\ \A x \in DOMAIN O : Searched(x) => y \notin ChangedFrom(x)}
  <2> DEFINE left == WantedLeft(O, N, WantedNew, Len(N) + 1)
             Kept(y) == \A x \in DOMAIN O : Searched(x) => y \notin ChangedFrom(x)
  <2>1. \A y \in 1..Len(N) : y \in NewLeft(O, N, n + 1) <=> Kept(y)
    BY <1>0, <1>1, <1>2, <1>3
  <2>2. left \subseteq 1..Len(N)
    BY <1>6 DEF WantedLeft
  <2>3. \A y \in 1..Len(N) : y \in left <=> y \in NewLeft(O, N, n + 1) /\ Wanted(N[y])
    BY <1>0, <1>5 DEF WantedLeft, WantedNew
  <2> HIDE DEF left, Kept
  <2>4. left = {y \in DOMAIN N : Wanted(N[y]) /\ Kept(y)}
    BY <1>0, <2>1, <2>2, <2>3
  <2>5. QED
    BY <2>4 DEF left, Kept
<1>8. QED
  BY <1>4, <1>7

LEMMA FilterInvExact == MenuTypeOK /\ FilterInv => FilterExact
<1> SUFFICES ASSUME MenuTypeOK, FilterInv, pc = "unconfigure", Unambiguous(oldDevs),
                    Unambiguous(newDevs)
             PROVE  /\ Members(old) = {x \in DOMAIN oldDevs : Searched(x) /\ ChangedFrom(x) = {}}
                    /\ dev = old.head /\ wpc = "none" =>
                         Members(new) =
                           {y \in DOMAIN newDevs :
                              /\ Wanted(newDevs[y])
                              /\ \A x \in DOMAIN oldDevs : Searched(x) => y \notin ChangedFrom(x)}
  BY DEF FilterExact
<1>1. TwoLists(oldDevs, newDevs)
  BY DEF TwoLists, MenuTypeOK
<1>2. Len(oldDevs) \in Nat /\ Len(newDevs) \in Nat
  BY <1>1, TwoListsAre
<1>3. Members(old) = OldLeft(oldDevs, newDevs, Len(oldDevs) + 1)
  BY <1>2, MembersAre DEF FilterInv, AtUnconfigure
<1>4. dev = old.head /\ wpc = "none" =>
        Members(new) = WantedLeft(oldDevs, newDevs, WantedNew, Len(newDevs) + 1)
  BY <1>2, MembersAre DEF FilterInv
<1>5. QED
  BY <1>1, <1>3, <1>4, FilterSets

\* For lists of any lengths whose devices can be told apart, what configMenu()
\* unconfigures and configures is exactly what disappeared for good, and what is
\* new, wanted, and no device that was there with another driver: the walks of
\* hwconf.c:713-756.
THEOREM MenuFilterExact == MenuSpec => []FilterExact
<1>1. FilterInv /\ MenuTypeOK /\ [MenuNext]_menuVars => FilterInv'
  BY FilterStep, FilterStutter
<1>2. QED
  BY <1>1, FilterInit, MenuType, FilterInvExact, PTL DEF MenuSpec

HIDE ListsAssumption

-----------------------------------------------------------------------------
(* Lists of devices *)

\* What writeDevice() and the walks look at is there.
IsDevice(d) == Fields \subseteq DOMAIN d
AreDevices(devs) == devs \in Seq(Elements(devs)) /\ \A x \in DOMAIN devs : IsDevice(devs[x])

LEMMA SequenceOf ==
  ASSUME NEW E, NEW s \in Seq(E)
  PROVE  /\ Len(s) \in Nat /\ DOMAIN s = 1..Len(s) /\ \A x \in DOMAIN s : s[x] \in E
         /\ s \in Seq(Elements(s))
<1>1. Len(s) \in Nat /\ DOMAIN s = 1..Len(s) /\ s \in [1..Len(s) -> E]
  OBVIOUS
<1>2. s \in [1..Len(s) -> Elements(s)]
  BY <1>1 DEF Elements
<1>3. QED
  BY <1>1, <1>2

LEMMA DevicesOf ==
  ASSUME NEW E, NEW s \in Seq(E), \A d \in E : IsDevice(d)
  PROVE  AreDevices(s)
BY SequenceOf DEF AreDevices

LEMMA DevicesAre ==
  ASSUME NEW s, AreDevices(s)
  PROVE  /\ Len(s) \in Nat /\ DOMAIN s = 1..Len(s)
         /\ s \in Seq(Elements(s)) /\ \A d \in Elements(s) : IsDevice(d)
<1>1. s \in Seq(Elements(s)) /\ \A d \in Elements(s) : IsDevice(d)
  BY DEF AreDevices, Elements
<1>2. QED
  BY <1>1, SequenceOf

LEMMA NoDevicesAre == AreDevices(<<>>) /\ Len(<<>>) = 0
<1>1. <<>> \in Seq(Elements(<<>>)) /\ DOMAIN <<>> = {}
  OBVIOUS
<1>2. AreDevices(<<>>)
  BY <1>1 DEF AreDevices
<1>3. Len(<<>>) = 0
  OBVIOUS
<1>4. QED
  BY <1>2, <1>3

\* A list whose devices are made of those of another one by one.
LEMMA OneByOne ==
  ASSUME NEW s, NEW t, AreDevices(s), t = [x \in DOMAIN s |-> t[x]],
         \A x \in DOMAIN s : DOMAIN t[x] = DOMAIN s[x]
  PROVE  AreDevices(t) /\ Len(t) = Len(s) /\ DOMAIN t = DOMAIN s
<1>1. Len(s) \in Nat /\ DOMAIN s = 1..Len(s)
  BY DevicesAre
<1> DEFINE E == {t[x] : x \in DOMAIN s}
<1>2. DOMAIN t = 1..Len(s)
  BY <1>1
<1>3. t \in [1..Len(s) -> E]
  BY <1>1
<1>4. t \in Seq(E)
  BY <1>1, <1>3
<1>5. \A d \in E : IsDevice(d)
  BY DEF AreDevices, IsDevice
<1>6. Len(t) = Len(s)
  BY <1>1, <1>2, <1>4
<1>7. QED
  BY <1>1, <1>2, <1>4, <1>5, <1>6, DevicesOf

LEMMA StoredIs ==
  ASSUME NEW s, AreDevices(s)
  PROVE  /\ AreDevices(Stored(s)) /\ DOMAIN Stored(s) = DOMAIN s
         /\ \A x \in DOMAIN s : Stored(s)[x] = ForgetIndex(s[x])
<1> DEFINE t == Stored(s)
<1>1. t = [x \in DOMAIN s |-> t[x]] /\ \A x \in DOMAIN s : t[x] = ForgetIndex(s[x])
  BY DEF Stored
<1>2. \A x \in DOMAIN s : DOMAIN t[x] = DOMAIN s[x]
  BY <1>1 DEF ForgetIndex
<1> HIDE DEF t
<1>3. AreDevices(t) /\ DOMAIN t = DOMAIN s
  BY <1>1, <1>2, OneByOne
<1>4. QED
  BY <1>1, <1>3 DEF t

LEMMA IndexedIs ==
  ASSUME NEW s, AreDevices(s)
  PROVE  /\ AreDevices(Indexed(s)) /\ Len(Indexed(s)) = Len(s) /\ DOMAIN Indexed(s) = DOMAIN s
         /\ \A x \in DOMAIN s : ForgetIndex(Indexed(s)[x]) = ForgetIndex(s[x])
<1> DEFINE t == Indexed(s)
           number(x) == Cardinality({y \in 1..(x - 1) : s[y].type = s[x].type})
<1>1. t = [x \in DOMAIN s |-> t[x]] /\ \A x \in DOMAIN s : t[x] = [s[x] EXCEPT !.index = number(x)]
  BY DEF Indexed
<1> HIDE DEF t, number
<1>2. \A x \in DOMAIN s : DOMAIN t[x] = DOMAIN s[x] /\ ForgetIndex(t[x]) = ForgetIndex(s[x])
  BY <1>1 DEF ForgetIndex
<1>3. AreDevices(t) /\ Len(t) = Len(s) /\ DOMAIN t = DOMAIN s
  BY <1>1, <1>2, OneByOne
<1>4. QED
  BY <1>2, <1>3 DEF t

LEMMA AppendIs ==
  ASSUME NEW s, AreDevices(s), NEW d, IsDevice(d)
  PROVE  /\ AreDevices(Append(s, d)) /\ Len(Append(s, d)) = Len(s) + 1
         /\ \A x \in DOMAIN s : x \in DOMAIN Append(s, d) /\ Append(s, d)[x] = s[x]
         /\ \A x \in DOMAIN Append(s, d) : x \in DOMAIN s \/ Append(s, d)[x] = d
<1> DEFINE E == Elements(s) \cup {d}
<1>1. s \in Seq(E) /\ \A e \in E : IsDevice(e)
  BY DevicesAre
<1>2. Append(s, d) \in Seq(E)
  BY <1>1
<1>3. AreDevices(Append(s, d))
  BY <1>1, <1>2, DevicesOf
<1>4. QED
  BY <1>1, <1>3

-----------------------------------------------------------------------------
(* What is kept of a list, and the order of another *)

\* Each of n steps makes a sequence over E of one.
AreSteps(n, E, step) == step \in [1..n -> [Seq(E) -> Seq(E)]]

\* What they make of the empty one.
StepsOf(g, n, E, step) ==
  /\ g \in [0..n -> Seq(E)] /\ g[0] = <<>>
  /\ \A k \in 1..n : g[k] = step[k][g[k - 1]]

LEMMA StepsReach ==
  ASSUME NEW n \in Nat, NEW E, NEW step, AreSteps(n, E, step)
  PROVE  \E g : StepsOf(g, n, E, step)
<1>1. <<>> \in Seq(E)
  OBVIOUS
<1>2. \E f : IterateOf(f, n, Seq(E), <<>>, step)
  BY <1>1, Recursion DEF AreSteps
<1>3. QED
  BY <1>2 DEF IterateOf, StepsOf

StepsStayIn(n, E, at) ==
  at[0] = <<>> /\ \A k \in 1..n : at[k - 1] \in Seq(E) => at[k] \in Seq(E)

LEMMA StepsStay ==
  ASSUME NEW n \in Nat, NEW E, NEW at, StepsStayIn(n, E, at)
  PROVE  at[n] \in Seq(E)
<1> DEFINE S == {k \in Nat : k <= n => at[k] \in Seq(E)}
<1>1. 0 \in S
  <2>1. <<>> \in Seq(E)
    OBVIOUS
  <2>2. QED
    BY <2>1 DEF StepsStayIn
<1>2. ASSUME NEW k \in Nat, k \in S PROVE k + 1 \in S
  <2>1. CASE k + 1 <= n
    <3>1. k + 1 \in 1..n /\ at[(k + 1) - 1] \in Seq(E)
      BY <1>2, <2>1
    <3>2. QED
      BY <3>1 DEF StepsStayIn
  <2>2. QED
    BY <2>1
<1> HIDE DEF S
<1>3. n \in S
  BY <1>1, <1>2, ReachedFromZero
<1>4. QED
  BY <1>3 DEF S

LEMMA ThoseAre ==
  ASSUME NEW devs, NEW S, AreDevices(devs)
  PROVE  AreDevices(Those(devs, S))
<1> DEFINE n == Len(devs)
           E == Elements(devs)
           Next1(k, s) == IF k \in S THEN Append(s, devs[k]) ELSE s
           At(g) == [k \in 0..n |-> IF k = 0 THEN <<>> ELSE Next1(k, g[k - 1])]
           kept == CHOOSE g : g = At(g)
           step == [k \in 1..n |-> [s \in Seq(E) |-> Next1(k, s)]]
<1>1. n \in Nat /\ \A k \in 1..n : devs[k] \in E
  BY DevicesAre DEF Elements
<1>2. Those(devs, S) = kept[n]
  BY DEF Those
<1>3. \A k \in 1..n : \A s \in Seq(E) : Next1(k, s) \in Seq(E)
  BY <1>1
<1> HIDE DEF n, E, Next1
<1>4. AreSteps(n, E, step)
  BY <1>3 DEF AreSteps
<1>5. \A k \in 1..n : \A s \in Seq(E) : step[k][s] = Next1(k, s)
  OBVIOUS
<1> HIDE DEF step
<1>6. PICK g : StepsOf(g, n, E, step)
  BY <1>1, <1>4, StepsReach
<1>7. g = At(g)
  <2>1. ASSUME NEW k \in 1..n PROVE g[k] = Next1(k, g[k - 1])
    <3>1. g[k - 1] \in Seq(E) /\ g[k] = step[k][g[k - 1]]
      BY <1>1, <1>6 DEF StepsOf
    <3>2. QED
      BY <1>5, <3>1
  <2>2. \A k \in 0..n : g[k] = IF k = 0 THEN <<>> ELSE Next1(k, g[k - 1])
    BY <1>1, <1>6, <2>1 DEF StepsOf
  <2>3. QED
    BY <1>6, <2>2 DEF StepsOf
<1>8. kept = At(kept)
  BY <1>7
<1> HIDE DEF kept
<1>9. kept[0] = <<>> /\ \A k \in 1..n : kept[k] = Next1(k, kept[k - 1])
  <2>1. kept[0] = <<>>
    BY <1>1, <1>8
  <2>2. ASSUME NEW k \in 1..n PROVE kept[k] = Next1(k, kept[k - 1])
    <3>1. k \in 0..n /\ k # 0
      BY <1>1
    <3>2. QED
      BY <1>8, <3>1
  <2>3. QED
    BY <2>1, <2>2
<1> HIDE DEF At
<1>10. StepsStayIn(n, E, kept)
  BY <1>1, <1>3, <1>9 DEF StepsStayIn
<1>11. kept[n] \in Seq(E)
  BY <1>1, <1>10, StepsStay
<1>12. QED
  BY <1>2, <1>11, DevicesAre, DevicesOf DEF E

\* qsort() keeps the devices.
LEMMA InsertedIn ==
  ASSUME NEW E, NEW s \in Seq(E), NEW d \in E
  PROVE  Inserted(s, d) \in Seq(E)
<1> DEFINE T == {x \in DOMAIN s : Rank(s[x]) <= Rank(d)}
           n == Cardinality(T)
<1>1. Inserted(s, d) = SubSeq(s, 1, n) \o <<d>> \o SubSeq(s, n + 1, Len(s))
  BY DEF Inserted
<1>2. Len(s) \in Nat /\ T \subseteq 1..Len(s)
  OBVIOUS
<1>3. IsFiniteSet(1..Len(s)) /\ Cardinality(1..Len(s)) = Len(s)
  <2>1. ASSUME NEW k \in Nat PROVE IsFiniteSet(1..k) /\ Cardinality(1..k) = k
    BY FS_Interval
  <2>2. QED
    BY <1>2, <2>1
<1> HIDE DEF T
<1>4. n \in Nat /\ n <= Len(s)
  BY <1>2, <1>3, FS_Subset, FS_CardinalityType
<1> HIDE DEF n
<1>5. SubSeq(s, 1, n) \in Seq(E)
  BY <1>2, <1>4
<1>6. SubSeq(s, n + 1, Len(s)) \in Seq(E)
  BY <1>2, <1>4
<1>7. QED
  BY <1>1, <1>5, <1>6

LEMMA SortedAre ==
  ASSUME NEW devs, AreDevices(devs)
  PROVE  AreDevices(Sorted(devs))
<1> DEFINE n == Len(devs)
           E == Elements(devs)
           At(g) == [k \in 0..n |-> IF k = 0 THEN <<>> ELSE Inserted(g[k - 1], devs[k])]
           sorted == CHOOSE g : g = At(g)
           step == [k \in 1..n |-> [s \in Seq(E) |-> Inserted(s, devs[k])]]
<1>1. n \in Nat /\ \A k \in 1..n : devs[k] \in E
  BY DevicesAre DEF Elements
<1>2. Sorted(devs) = sorted[n]
  BY DEF Sorted
<1>3. \A k \in 1..n : \A s \in Seq(E) : Inserted(s, devs[k]) \in Seq(E)
  BY <1>1, InsertedIn
<1> HIDE DEF n, E
<1>4. AreSteps(n, E, step)
  BY <1>3 DEF AreSteps
<1>5. \A k \in 1..n : \A s \in Seq(E) : step[k][s] = Inserted(s, devs[k])
  OBVIOUS
<1> HIDE DEF step
<1>6. PICK g : StepsOf(g, n, E, step)
  BY <1>1, <1>4, StepsReach
<1>7. g = At(g)
  <2>1. ASSUME NEW k \in 1..n PROVE g[k] = Inserted(g[k - 1], devs[k])
    <3>1. g[k - 1] \in Seq(E) /\ g[k] = step[k][g[k - 1]]
      BY <1>1, <1>6 DEF StepsOf
    <3>2. QED
      BY <1>5, <3>1
  <2>2. \A k \in 0..n : g[k] = IF k = 0 THEN <<>> ELSE Inserted(g[k - 1], devs[k])
    BY <1>1, <1>6, <2>1 DEF StepsOf
  <2>3. QED
    BY <1>6, <2>2 DEF StepsOf
<1>8. sorted = At(sorted)
  BY <1>7
<1> HIDE DEF sorted
<1>9. sorted[0] = <<>> /\ \A k \in 1..n : sorted[k] = Inserted(sorted[k - 1], devs[k])
  <2>1. sorted[0] = <<>>
    BY <1>1, <1>8
  <2>2. ASSUME NEW k \in 1..n PROVE sorted[k] = Inserted(sorted[k - 1], devs[k])
    <3>1. k \in 0..n /\ k # 0
      BY <1>1
    <3>2. QED
      BY <1>8, <3>1
  <2>3. QED
    BY <2>1, <2>2
<1> HIDE DEF At
<1>10. StepsStayIn(n, E, sorted)
  BY <1>1, <1>3, <1>9 DEF StepsStayIn
<1>11. sorted[n] \in Seq(E)
  BY <1>1, <1>10, StepsStay
<1>12. QED
  BY <1>2, <1>11, DevicesAre, DevicesOf DEF E

-----------------------------------------------------------------------------
(* The inductive invariant *)

\* What is in memory and in hwconf are devices.
KnownOK ==
  /\ life \in Lives /\ (present = <<>> \/ present \in life.machines)
  /\ AreDevices(currentDevs) /\ AreDevices(oldDevs) /\ AreDevices(newDevs)
  /\ hwconf # NIL => AreDevices(hwconf.devs)

\* In a full run the devices in hand begin with those of the machine.  The
\* others were in hwconf, and are such as may be put in and out.
InHand ==
  /\ \A x \in DOMAIN present : x \in DOMAIN currentDevs /\ ForgetIndex(currentDevs[x]) = present[x]
  /\ \A x \in DOMAIN currentDevs :
       x \in DOMAIN present \/ (currentDevs[x].detached /\ ToConfigure(currentDevs[x]))

\* The inductive invariant.
RunInv ==
  /\ KnownOK
  /\ pc \notin {"done", "return", "flush"} => WalksOK
  /\ pc = "done" => wpc = "none"
  /\ pc # "done" /\ last = "all" => InHand
  /\ DatabaseDescribes

-----------------------------------------------------------------------------
LEMMA MachineIs ==
  ASSUME NEW l \in Lives, NEW machine \in l.machines
  PROVE  AreDevices(machine) /\ \A x \in DOMAIN machine : ForgetIndex(machine[x]) = machine[x]
BY LivesAssumption DEF AreDevices, IsDevice, Elements

LEMMA ProbeIs ==
  ASSUME NEW l \in Lives, NEW machine \in l.machines, NEW bus
  PROVE  /\ AreDevices(ProbeDevices(machine, bus))
         /\ bus = NIL => /\ DOMAIN ProbeDevices(machine, bus) = DOMAIN machine
                        /\ \A x \in DOMAIN machine :
                             ForgetIndex(ProbeDevices(machine, bus)[x]) = machine[x]
<1>1. AreDevices(machine) /\ \A x \in DOMAIN machine : ForgetIndex(machine[x]) = machine[x]
  BY MachineIs
<1>2. CASE bus = NIL
  <2>1. ProbeDevices(machine, bus) = Indexed(machine)
    BY <1>2 DEF ProbeDevices
  <2>2. QED
    BY <1>1, <2>1, IndexedIs
<1>3. CASE bus # NIL
  <2> DEFINE S == {x \in DOMAIN machine : machine[x].bus = bus}
  <2>1. ProbeDevices(machine, bus) = Indexed(Those(machine, S))
    BY <1>3 DEF ProbeDevices
  <2> HIDE DEF S
  <2>2. QED
    BY <1>1, <1>3, <2>1, IndexedIs, ThoseAre
<1>4. QED
  BY <1>2, <1>3

LEMMA ReadIs ==
  ASSUME NEW file, file # NIL => AreDevices(file.devs)
  PROVE  AreDevices(ReadDevices(file))
<1>1. CASE file = NIL
  BY <1>1, NoDevicesAre DEF ReadDevices
<1>2. CASE file # NIL
  <2>1. ReadDevices(file) = Indexed(Sorted(file.devs))
    BY <1>2 DEF ReadDevices
  <2>2. QED
    BY <1>2, <2>1, IndexedIs, SortedAre
<1>3. QED
  BY <1>1, <1>2

\* What is left of a file that was being written.
LEMMA PartsAre ==
  ASSUME NEW devs, AreDevices(devs), NEW part \in PartsOfDevices(devs)
  PROVE  AreDevices(part)
<1> DEFINE E == Elements(devs)
<1>1. Len(devs) \in Nat /\ DOMAIN devs = 1..Len(devs) /\ devs \in Seq(E) /\ \A d \in E : IsDevice(d)
  BY DevicesAre
<1> HIDE DEF E
<1>2. \A n \in 0..Len(devs) : SubSeq(devs, 1, n) \in Seq(E)
  BY <1>1
<1>3. \A n \in 0..Len(devs) : AreDevices(SubSeq(devs, 1, n))
  BY <1>1, <1>2, DevicesOf
<1>4. CASE part \in Parts(devs)
  BY <1>3, <1>4 DEF Parts
<1>5. CASE part \notin Parts(devs)
  <2>1. PICK n \in DOMAIN devs : \E half \in Halves(devs[n]) : part = Append(SubSeq(devs, 1, n - 1), half)
    BY <1>5 DEF PartsOfDevices
  <2>2. PICK half \in Halves(devs[n]) : part = Append(SubSeq(devs, 1, n - 1), half)
    BY <2>1
  <2>3. \A k : DOMAIN Half(devs[n], k) = DOMAIN devs[n]
    BY DEF Half
  <2>4. DOMAIN half = DOMAIN devs[n]
    BY <2>2, <2>3 DEF Halves
  <2>5. IsDevice(half)
    BY <2>4 DEF AreDevices, IsDevice
  <2>6. n - 1 \in 0..Len(devs)
    BY <1>1
  <2>7. QED
    BY <1>3, <2>2, <2>5, <2>6, AppendIs
<1>6. QED
  BY <1>4, <1>5

LEMMA RunInit == Init => RunInv
BY NoDevicesAre DEF Init, RunInv, KnownOK, DatabaseDescribes, Completed

LEMMA EmptyOf ==
  ASSUME NEW s, AreDevices(s)
  PROVE  s = <<>> <=> Len(s) = 0
<1> DEFINE E == Elements(s)
<1>1. s \in Seq(E)
  BY DevicesAre
<1> HIDE DEF E
<1>2. QED
  BY <1>1, EmptySeq

\* What configMenu() is called with.
LEMMA StartStep ==
  ASSUME KnownOK, NEW machine \in life.machines, NEW bus, Start(machine, bus), wpc' = "none"
  PROVE  /\ AreDevices(currentDevs') /\ AreDevices(oldDevs') /\ AreDevices(newDevs')
         /\ currentDevs' = ProbeDevices(machine, bus)
         /\ pc' \in {"old", "return"} /\ (pc' = "old" => WalksOK')
<1> DEFINE current == ProbeDevices(machine, bus)
           stored == ReadDevices(hwconf)
           S == Unpaired1(Same(stored, current), Len(stored), Len(current))
           T == Unpaired2(Same(stored, current), Len(stored), Len(current))
<1>1. /\ currentDevs' = current /\ oldDevs' = Those(stored, S) /\ newDevs' = Those(current, T)
      /\ old' = Linked(oldDevs') /\ new' = Linked(newDevs')
      /\ dev' = old'.head /\ tmpdev' = Null /\ pc' \in {"old", "return"}
  BY DEF Start
<1>2. AreDevices(current)
  BY ProbeIs DEF KnownOK
<1>3. AreDevices(stored)
  BY ReadIs DEF KnownOK
<1> HIDE DEF S, T, stored
<1>4. AreDevices(oldDevs') /\ AreDevices(newDevs')
  BY <1>1, <1>2, <1>3, ThoseAre
<1> DEFINE m == Len(oldDevs')
           n == Len(newDevs')
<1>5. m \in Nat /\ old' \in ListsOf(m) /\ GoesForward(old', m)
  BY <1>1, <1>4, DevicesAre, EmptyOf, LinkedOf
<1>6. n \in Nat /\ new' \in ListsOf(n) /\ GoesForward(new', n)
  BY <1>1, <1>4, DevicesAre, EmptyOf, LinkedOf
<1>7. dev' \in 0..m
  BY <1>1, <1>5, PointersAre
<1>8. ASSUME pc' = "old" PROVE WalksOK'
  BY <1>1, <1>5, <1>6, <1>7, <1>8 DEF WalksOK, Null
<1>9. QED
  BY <1>1, <1>2, <1>4, <1>8

LEMMA BootStep == ASSUME RunInv, Boot PROVE RunInv'
<1>1. PICK machine \in life.machines, bus \in life.buses :
        /\ Start(machine, bus) /\ present' = machine
        /\ last' = IF bus = NIL THEN "all" ELSE bus
  BY DEF Boot
<1>2. pc = "done" /\ UNCHANGED <<life, wpc, hwconf>>
  BY DEF Boot
<1>3. wpc' = "none" /\ KnownOK
  BY <1>2 DEF RunInv
<1>4. /\ AreDevices(currentDevs') /\ AreDevices(oldDevs') /\ AreDevices(newDevs')
      /\ currentDevs' = ProbeDevices(machine, bus)
      /\ pc' \in {"old", "return"} /\ (pc' = "old" => WalksOK')
  BY <1>1, <1>3, StartStep
<1>5. KnownOK'
  BY <1>1, <1>2, <1>3, <1>4 DEF KnownOK
<1>6. last' = "all" => bus = NIL
  BY <1>1, <1>3, LivesAssumption DEF KnownOK
<1>7. ASSUME last' = "all" PROVE InHand'
  <2>1. /\ DOMAIN currentDevs' = DOMAIN present'
        /\ \A x \in DOMAIN present' : ForgetIndex(currentDevs'[x]) = present'[x]
    BY <1>1, <1>3, <1>4, <1>6, <1>7, ProbeIs DEF KnownOK
  <2>2. QED
    BY <2>1 DEF InHand
<1>8. QED
  BY <1>3, <1>4, <1>5, <1>7 DEF RunInv, DatabaseDescribes, Completed

\* configMenu() only puts devices of hwconf behind those of the machine.
LEMMA InHandStep ==
  ASSUME KnownOK, WalksOK, MenuNext, UNCHANGED <<present, last>>
  PROVE  AreDevices(currentDevs') /\ (InHand => InHand')
<1>1. CASE KeepDetached
  <2> DEFINE d == oldDevs[dev]
  <2>1. dev \in 1..Len(oldDevs) /\ Len(oldDevs) \in Nat
    BY <1>1, DevicesAre DEF KeepDetached, KnownOK, WalksOK, Null
  <2>2. IsDevice(d)
    BY <2>1, DevicesAre DEF KnownOK, AreDevices
  <2>3. currentDevs' = Append(currentDevs, d) /\ d.detached /\ ToConfigure(d)
    BY <1>1 DEF KeepDetached
  <2> HIDE DEF d
  <2>4. /\ AreDevices(currentDevs')
        /\ \A x \in DOMAIN currentDevs : x \in DOMAIN currentDevs' /\ currentDevs'[x] = currentDevs[x]
        /\ \A x \in DOMAIN currentDevs' : x \in DOMAIN currentDevs \/ currentDevs'[x] = d
    BY <2>2, <2>3, AppendIs DEF KnownOK
  <2>5. QED
    BY <2>3, <2>4 DEF InHand
<1>2. CASE currentDevs' = currentDevs
  BY <1>2 DEF InHand, KnownOK
<1>3. QED
  BY <1>1, <1>2
  DEF MenuNext, menu, DropOld, StartSearch, OnlyDriver, Another, EndSearch, EndOld,
      KeepNew, DropNew, EndNew, ReadConf, UnconfigureDevice, EndUnconfigure, ConfigureDevice,
      EndConfigure, Rename, Write

LEMMA MenuStep == ASSUME RunInv, Menu PROVE RunInv'
<1>1. pc \notin {"done", "return", "flush"} /\ MenuNext /\ UNCHANGED world
  BY DEF Menu
<1>2. KnownOK /\ WalksOK
  BY <1>1 DEF RunInv
<1>3. UNCHANGED <<life, hwconf, present, last>>
  BY <1>1 DEF world
<1>4. UNCHANGED <<oldDevs, newDevs>>
  BY <1>1, ArraysStay
<1>5. Len(oldDevs) \in Nat /\ Len(newDevs) \in Nat
  BY <1>2, DevicesAre DEF KnownOK
<1>6. WalksOK'
  BY <1>1, <1>2, <1>5, WalksStep
<1>7. AreDevices(currentDevs') /\ (InHand => InHand')
  BY <1>1, <1>2, <1>3, InHandStep
<1>8. KnownOK'
  BY <1>2, <1>3, <1>4, <1>7 DEF KnownOK
<1>9. pc' # "done"
  BY <1>6 DEF WalksOK
<1>10. QED
  BY <1>1, <1>3, <1>6, <1>7, <1>8, <1>9 DEF RunInv, DatabaseDescribes, Completed

LEMMA CloseStep == ASSUME RunInv, CloseDevices PROVE RunInv'
<1>1. /\ pc = "flush" /\ hwconf' = [devs |-> Stored(currentDevs), cut |-> FALSE]
      /\ UNCHANGED <<life, present>>
      /\ currentDevs' = <<>> /\ oldDevs' = <<>> /\ newDevs' = <<>>
      /\ pc' = "done" /\ wpc' = "none"
      /\ last' = IF last = "all" THEN "complete" ELSE "partial"
  BY DEF CloseDevices, Exit, Gone
<1>2. KnownOK
  BY DEF RunInv
<1>3. /\ AreDevices(hwconf'.devs) /\ DOMAIN hwconf'.devs = DOMAIN currentDevs
      /\ \A x \in DOMAIN currentDevs : hwconf'.devs[x] = ForgetIndex(currentDevs[x])
  BY <1>1, <1>2, StoredIs DEF KnownOK
<1>4. KnownOK'
  BY <1>1, <1>2, <1>3, NoDevicesAre DEF KnownOK
<1>5. ASSUME last' = "complete" PROVE DatabaseDescribes'
  <2>1. InHand
    BY <1>1, <1>5 DEF RunInv
  <2>2. Elements(present') \subseteq Elements(hwconf'.devs)
    BY <1>1, <1>3, <2>1 DEF InHand, Elements
  <2>3. ASSUME NEW d \in Elements(hwconf'.devs), d \notin Elements(present')
        PROVE  d.detached /\ ToConfigure(d)
    <3>1. PICK x \in DOMAIN currentDevs : d = ForgetIndex(currentDevs[x])
      BY <1>3 DEF Elements
    <3> DEFINE e == currentDevs[x]
    <3>2. x \notin DOMAIN present
      BY <1>1, <2>1, <2>3, <3>1 DEF InHand, Elements
    <3>3. e.detached /\ ToConfigure(e)
      BY <2>1, <3>2 DEF InHand
    <3>4. Fields \subseteq DOMAIN e
      BY <1>2 DEF KnownOK, AreDevices, IsDevice
    <3>5. d.detached = e.detached /\ d.driver = e.driver /\ d.type = e.type /\ d.bus = e.bus
      BY <3>1, <3>4 DEF ForgetIndex, Fields
    <3>6. QED
      BY <3>3, <3>5 DEF ToConfigure, IsConfigurable
  <2>4. QED
    BY <2>2, <2>3 DEF DatabaseDescribes
<1>6. QED
  BY <1>1, <1>4, <1>5 DEF RunInv, DatabaseDescribes, Completed

LEMMA CrashStep == ASSUME RunInv, Crash PROVE RunInv'
<1>1. /\ UNCHANGED <<life, present>>
      /\ currentDevs' = <<>> /\ oldDevs' = <<>> /\ newDevs' = <<>>
      /\ pc' = "done" /\ wpc' = "none" /\ last' = "crash"
  BY DEF Crash, Gone
<1>2. KnownOK
  BY DEF RunInv
<1>3. hwconf' # NIL => AreDevices(hwconf'.devs)
  <2>1. CASE pc = "flush"
    <3>1. PICK devs \in PartsOfDevices(Stored(currentDevs)), cut \in BOOLEAN :
            hwconf' = [devs |-> devs, cut |-> cut]
      BY <2>1 DEF Crash
    <3>2. AreDevices(devs)
      BY <1>2, StoredIs, PartsAre DEF KnownOK
    <3>3. QED
      BY <3>1, <3>2
  <2>2. CASE pc # "flush"
    BY <1>2, <2>2 DEF Crash, KnownOK
  <2>3. QED
    BY <2>1, <2>2
<1>4. KnownOK'
  BY <1>1, <1>2, <1>3, NoDevicesAre DEF KnownOK
<1>5. QED
  BY <1>1, <1>4 DEF RunInv, DatabaseDescribes, Completed

LEMMA NoDevicesStep == ASSUME RunInv, NoDevices PROVE RunInv'
<1>1. /\ pc = "return" /\ currentDevs = <<>> /\ UNCHANGED <<life, hwconf, present>>
      /\ currentDevs' = <<>> /\ oldDevs' = <<>> /\ newDevs' = <<>>
      /\ pc' = "done" /\ wpc' = "none"
      /\ last' = IF last = "all" THEN "complete" ELSE "partial"
  BY DEF NoDevices, Exit, Gone
<1>2. KnownOK
  BY DEF RunInv
<1>3. KnownOK'
  BY <1>1, <1>2, NoDevicesAre DEF KnownOK
<1>4. last' = "complete" => present' = <<>>
  <2> SUFFICES ASSUME last' = "complete" PROVE present = <<>>
    BY <1>1
  <2>1. InHand
    BY <1>1 DEF RunInv
  <2>2. DOMAIN present = {}
    <3>1. \A x : x \notin DOMAIN currentDevs
      BY <1>1
    <3>2. QED
      BY <2>1, <3>1 DEF InHand
  <2>3. CASE present \in life.machines
    <3>1. AreDevices(present)
      BY <1>2, <2>3, MachineIs DEF KnownOK
    <3>2. Len(present) = 0
      BY <2>2, <3>1, DevicesAre
    <3>3. QED
      BY <3>1, <3>2, EmptyOf
  <2>4. QED
    BY <1>2, <2>3 DEF KnownOK
<1>5. QED
  BY <1>1, <1>3, <1>4 DEF RunInv, DatabaseDescribes, Completed

LEMMA RunStep == ASSUME RunInv, Next PROVE RunInv'
<1>1. CASE Segfault
  <2>1. /\ UNCHANGED <<life, hwconf, present, currentDevs, oldDevs, newDevs, pc, wpc>>
        /\ pc = "done" /\ last' = "segfault"
    BY <1>1 DEF Segfault, menuVars, menu
  <2>2. QED
    BY <2>1 DEF RunInv, KnownOK, DatabaseDescribes, Completed
<1>2. CASE OpenDevices
  <2>1. /\ UNCHANGED <<life, present, last, currentDevs, oldDevs, newDevs>>
        /\ pc = "return" /\ pc' = "flush" /\ hwconf' = [devs |-> <<>>, cut |-> FALSE]
    BY <1>2 DEF OpenDevices, memory, menu
  <2>2. KnownOK'
    BY <2>1, NoDevicesAre DEF RunInv, KnownOK
  <2>3. QED
    BY <2>1, <2>2 DEF RunInv, InHand, DatabaseDescribes, Completed
<1>3. QED
  BY <1>1, <1>2, BootStep, MenuStep, CloseStep, NoDevicesStep, CrashStep DEF Next

LEMMA RunStutter == RunInv /\ UNCHANGED vars => RunInv'
BY DEF RunInv, KnownOK, WalksOK, InHand, DatabaseDescribes, Completed, vars, menuVars, menu, files, world

\* Through all boots and crashes hwconf and the lists hold devices, the walks
\* of configMenu() stay within their lists, and a full run has the devices of
\* the machine in hand, first and in their order: hwconf.c:811-978.
THEOREM KudzuRunInv == Spec => []RunInv
<1>1. RunInv /\ [Next]_vars => RunInv'
  BY RunStep, RunStutter
<1>2. QED
  BY <1>1, RunInit, PTL DEF Spec

\* After a full run hwconf describes the machine, whatever earlier runs were
\* cut short or saw, for any machines and any modprobe.conf: writeDevices()
\* of kudzu.c:735-747 after configMenu() has added to the list.
THEOREM KudzuDatabaseDescribes == Spec => []DatabaseDescribes
<1>1. RunInv => DatabaseDescribes
  BY DEF RunInv
<1>2. QED
  BY <1>1, KudzuRunInv, PTL
=============================================================================
