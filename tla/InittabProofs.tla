----------------------------- MODULE InittabProofs -----------------------------
(***************************************************************************)
(* No line of the administrator is lost from inittab, and a serial console *)
(* is ready to log in to: for any inittab and any consoles, however often  *)
(* a run is cut short and a call fails.                                    *)
(***************************************************************************)
EXTENDS Inittab, FiniteSetTheorems, SequenceTheorems, TLAPS

(***************************************************************************)
(* f takes the administrator's lines of a to those of b, in their order.   *)
(***************************************************************************)
Matches(f, a, b) ==
  /\ \A y \in Own(b) : \E x \in Own(a) : f[x] = y
  /\ \A x, y \in Own(a) : x < y => f[x] < f[y]
  /\ \A x \in Own(a) : Purpose(b[f[x]]) = Purpose(a[x])

Matched(a, b) == \E f \in [Own(a) -> Own(b)] : Matches(f, a, b)

LEMMA OwnIsFinite ==
  ASSUME NEW a \in Seq(Lines)
  PROVE  Own(a) \subseteq 1..Len(a) /\ IsFiniteSet(Own(a))
<1>1. Own(a) \subseteq 1..Len(a)
  BY DEF Own
<1>2. IsFiniteSet(1..Len(a))
  BY FS_Interval
<1> QED
  BY <1>1, <1>2, FS_Subset

LEMMA MatchedItself ==
  ASSUME NEW a \in Seq(Lines)
  PROVE  Matched(a, a)
<1> DEFINE f == [x \in Own(a) |-> x]
<1>1. f \in [Own(a) -> Own(a)] /\ Matches(f, a, a)
  BY DEF Matches
<1> QED
  BY <1>1 DEF Matched

LEMMA MatchedThrough ==
  ASSUME NEW a \in Seq(Lines), NEW b \in Seq(Lines), NEW c \in Seq(Lines),
         Matched(a, b), Matched(b, c)
  PROVE  Matched(a, c)
<1>1. PICK f \in [Own(a) -> Own(b)] : Matches(f, a, b)
  BY DEF Matched
<1>2. PICK g \in [Own(b) -> Own(c)] : Matches(g, b, c)
  BY DEF Matched
<1> DEFINE h == [x \in Own(a) |-> g[f[x]]]
<1>3. h \in [Own(a) -> Own(c)]
  OBVIOUS
<1>4. \A z \in Own(c) : \E x \in Own(a) : h[x] = z
  <2>1. TAKE z \in Own(c)
  <2>2. PICK y \in Own(b) : g[y] = z
    BY <1>2 DEF Matches
  <2>3. PICK x \in Own(a) : f[x] = y
    BY <1>1 DEF Matches
  <2> QED
    BY <2>2, <2>3
<1>5. \A x, y \in Own(a) : x < y => h[x] < h[y]
  BY <1>1, <1>2 DEF Matches
<1>6. \A x \in Own(a) : Purpose(c[h[x]]) = Purpose(a[x])
  BY <1>1, <1>2 DEF Matches
<1>7. Matches(h, a, c)
  BY <1>4, <1>5, <1>6 DEF Matches
<1> QED
  BY <1>3, <1>7 DEF Matched

\* What is matched has the same positions.
LEMMA MatchedAreSame ==
  ASSUME NEW a \in Seq(Lines), NEW b \in Seq(Lines), Matched(a, b)
  PROVE  SameLines(a, b)
<1>1. PICK f \in [Own(a) -> Own(b)] : Matches(f, a, b)
  BY DEF Matched
<1>2. Own(a) \subseteq Nat /\ Own(b) \subseteq Nat /\ IsFiniteSet(Own(a)) /\ IsFiniteSet(Own(b))
  BY OwnIsFinite
<1>3. \A x, y \in Own(a) : f[x] = f[y] => x = y
  <2>1. SUFFICES ASSUME NEW x \in Own(a), NEW y \in Own(a), f[x] = f[y], x # y
                 PROVE  FALSE
    OBVIOUS
  <2>2. x < y \/ y < x
    BY <1>2, <2>1
  <2>3. f[x] < f[y] \/ f[y] < f[x]
    BY <1>1, <2>2 DEF Matches
  <2>4. f[x] \in Nat /\ f[y] \in Nat
    BY <1>2
  <2> QED
    BY <2>1, <2>3, <2>4
<1>4. Cardinality(Own(a)) = Cardinality(Own(b))
  <2>1. f \in Bijection(Own(a), Own(b))
    BY <1>1, <1>3 DEF Matches, Bijection, Injection, Surjection, IsInjective
  <2> QED
    BY <1>2, <2>1, FS_Bijection DEF ExistsBijection
<1>5. ASSUME NEW x \in Own(a)
      PROVE  Position(a, x) = Position(b, f[x])
  <2> DEFINE A == {z \in Own(a) : z <= x}
             B == {z \in Own(b) : z <= f[x]}
             g == [z \in A |-> f[z]]
  <2>1. \A z \in Own(a) : z <= x <=> f[z] <= f[x]
    <3>1. TAKE z \in Own(a)
    <3>2. z \in Nat /\ x \in Nat /\ f[z] \in Nat /\ f[x] \in Nat
      BY <1>2
    <3>3. (z < x => f[z] < f[x]) /\ (x < z => f[x] < f[z])
      BY <1>1 DEF Matches
    <3> QED
      BY <3>2, <3>3
  <2>2. g \in Bijection(A, B)
    <3>1. g \in [A -> B]
      BY <2>1
    <3>2. \A y \in B : \E z \in A : g[z] = y
      BY <1>1, <2>1 DEF Matches
    <3>3. \A y, z \in A : g[y] = g[z] => y = z
      BY <1>3
    <3> QED
      BY <3>1, <3>2, <3>3 DEF Bijection, Injection, Surjection, IsInjective
  <2>3. IsFiniteSet(A) /\ IsFiniteSet(B)
    BY <1>2, FS_Subset
  <2>4. Cardinality(A) = Cardinality(B)
    BY <2>2, <2>3, FS_Bijection DEF ExistsBijection
  <2> QED
    BY <2>4 DEF Position
<1>6. ASSUME NEW y \in Own(b), NEW z \in Own(b), y < z
      PROVE  Position(b, y) # Position(b, z)
  <2> DEFINE Y == {w \in Own(b) : w <= y}
             Z == {w \in Own(b) : w <= z}
  <2>1. IsFiniteSet(Y) /\ IsFiniteSet(Z)
    BY <1>2, FS_Subset
  <2>2. Y \subseteq Z /\ z \in Z /\ z \notin Y
    BY <1>2, <1>6
  <2> HIDE DEF Y, Z
  <2>3. Y \in SUBSET Z /\ Y # Z
    BY <2>2
  <2>4. Cardinality(Y) # Cardinality(Z)
    BY <2>1, <2>3, FS_Subset
  <2> QED
    BY <2>4 DEF Position, Y, Z
<1>7. ASSUME NEW x \in Own(a), NEW y \in Own(b), Position(a, x) = Position(b, y)
      PROVE  Purpose(a[x]) = Purpose(b[y])
  <2>1. y = f[x]
    <3>1. y \in Nat /\ f[x] \in Nat
      BY <1>2
    <3>2. Position(b, f[x]) = Position(b, y)
      BY <1>5, <1>7
    <3> QED
      BY <1>6, <3>1, <3>2
  <2> QED
    BY <1>1, <2>1 DEF Matches
<1> QED
  BY <1>4, <1>7 DEF SameLines

-----------------------------------------------------------------------------
(* A turn of the loop. *)

\* What is written for a line: the line, changed, with or without the console's
\* before it; or nothing, for a line that kudzu may take away.
Stands(l, d, lines) ==
  \/ l.id = "co" /\ lines = <<>>
  \/ \E new \in Lines : Purpose(new) = Purpose(l) /\ lines \in {<<new>>, <<Co(d), new>>}

LEMMA CoIsALine ==
  ASSUME NEW d \in Consoles
  PROVE  Co(d) \in Lines /\ Co(d).id = "co"
<1>1. d.device \in Terminals \cup {NIL} /\ d.speed \in Texts \cup {NIL}
  BY InittabAssumption
<1>2. ASSUME NEW tty \in Terminals \cup {NIL}, NEW speed \in Texts \cup {NIL}
      PROVE  [id |-> "co", runs |-> "getty", marks |-> 0, tty |-> tty, speed |-> speed] \in Lines
  BY InittabAssumption DEF Lines, Runs
<1> QED
  BY <1>1, <1>2 DEF Co

LEMMA RewrittenStands ==
  ASSUME NEW l \in Lines, NEW d \in Consoles, NEW video \in BOOLEAN, NEW bits
  PROVE  Stands(l, d, Rewritten(l, d, video, bits))
<1>1. ASSUME NEW n \in 0..2
      PROVE  [l EXCEPT !.marks = n] \in Lines /\ Purpose([l EXCEPT !.marks = n]) = Purpose(l)
  BY DEF Lines, Purpose
<1>2. Stands(l, d, <<l>>)
  BY DEF Stands
<1>3. Stands(l, d, Copied(l, d))
  BY <1>2 DEF Copied, Stands
<1>4. CASE l.marks = 2 \/ l.runs \in {"other", "default3"}
  BY <1>2, <1>4 DEF Rewritten
<1>5. CASE l.marks < 2 /\ l.runs = "default5"
  <2>1. Default3 \in Lines /\ Purpose(Default3) = Purpose(l)
    BY <1>5 DEF Default3, Lines, Runs, Purpose
  <2> QED
    BY <1>2, <1>5, <2>1 DEF Rewritten, Stands
<1>6. CASE l.marks < 2 /\ l.runs = "mingetty"
  <2> DEFINE new == IF l.marks = 0 /\ ~video THEN [l EXCEPT !.marks = 1] ELSE l
  <2>1. new \in Lines /\ Purpose(new) = Purpose(l)
    BY <1>1
  <2> HIDE DEF new
  <2>2. (IF 2 \in bits THEN <<>> ELSE <<Co(d)>>) \o <<new>> \in {<<new>>, <<Co(d), new>>}
    <3>1. Co(d) \in Lines /\ new \in Lines
      BY <2>1, CoIsALine
    <3> HIDE DEF Co
    <3>2. <<>> \o <<new>> = <<new>>
      BY <3>1, ConcatEmptySeq
    <3>3. <<Co(d)>> \o <<new>> = <<Co(d), new>>
      <4> DEFINE s == <<Co(d)>> \o <<new>>
                 t == <<Co(d), new>>
      <4>1. /\ s \in Seq(Lines) /\ Len(s) = 2 /\ s[1] = Co(d) /\ s[2] = new
            /\ t \in Seq(Lines) /\ Len(t) = 2 /\ t[1] = Co(d) /\ t[2] = new
        BY <3>1
      <4> HIDE DEF s, t
      <4>2. \A x \in 1..2 : s[x] = t[x]
        BY <4>1
      <4> QED
        BY <4>1, <4>2, SeqEqual DEF s, t
    <3> QED
      BY <3>2, <3>3
  <2>3. Mingetty(l, d, video, bits)
          \in {<<new>>, <<Co(d), new>>, <<[l EXCEPT !.marks = 0]>>}
    BY <2>2 DEF Mingetty, new
  <2>4. Rewritten(l, d, video, bits) = Mingetty(l, d, video, bits)
    BY <1>6 DEF Rewritten
  <2> QED
    BY <1>1, <2>1, <2>3, <2>4 DEF Stands
<1>7. CASE l.marks < 2 /\ l.runs = "getty"
  <2>1. Uncommented(l, d) \in Lines /\ Purpose(Uncommented(l, d)) = Purpose(l)
    <3>1. d.speed \in Texts \cup {NIL}
      BY InittabAssumption
    <3>2. ASSUME NEW speed \in Texts \cup {NIL}
          PROVE  /\ [l EXCEPT !.marks = 0, !.speed = speed] \in Lines
                 /\ Purpose([l EXCEPT !.marks = 0, !.speed = speed]) = Purpose(l)
      <4> DEFINE off == [l EXCEPT !.marks = 0]
      <4>1. off \in Lines /\ Purpose(off) = Purpose(l)
        BY <1>1
      <4>2. \A x \in Lines : [x EXCEPT !.speed = speed] \in Lines
                            /\ Purpose([x EXCEPT !.speed = speed]) = Purpose(x)
        BY DEF Lines, Purpose
      <4> QED
        BY <4>1, <4>2
    <3>3. "garbled" \in Texts \cup {NIL}
      BY InittabAssumption
    <3>4. CASE d.length \in {6, 7}
      BY <3>1, <3>2, <3>4 DEF Uncommented
    <3>5. CASE d.length \notin {6, 7}
      BY <3>2, <3>3, <3>5 DEF Uncommented
    <3> QED
      BY <3>4, <3>5
  <2> QED
    BY <1>1, <1>3, <1>7, <2>1 DEF Rewritten, Getty, Stands
<1>8. CASE l.marks < 2 /\ l.runs = "respawn"
  BY <1>3, <1>8 DEF Rewritten
<1> QED
  BY <1>4, <1>5, <1>6, <1>7, <1>8 DEF Lines, Runs

\* No line of the administrator is lost by it.
LEMMA OneLine ==
  ASSUME NEW before \in Seq(Lines), NEW l \in Lines, NEW after \in Seq(Lines),
         NEW d \in Consoles, NEW new \in Seq(Lines), Stands(l, d, new)
  PROVE  Matched(before \o <<l>> \o after, before \o new \o after)
<1> DEFINE n == Len(before)
           a == before \o <<l>> \o after
           b == before \o new \o after
           f == [x \in Own(a) |-> IF x <= n THEN x ELSE x + Len(new) - 1]
<1>1. /\ n \in Nat /\ a \in Seq(Lines) /\ Len(a) = n + 1 + Len(after)
      /\ \A x \in 1..n : a[x] = before[x]
      /\ a[n + 1] = l
      /\ \A x \in 1..Len(after) : a[n + 1 + x] = after[x]
  OBVIOUS
<1>2. /\ b \in Seq(Lines) /\ Len(b) = n + Len(new) + Len(after)
      /\ \A x \in 1..n : b[x] = before[x]
      /\ \A x \in 1..Len(new) : b[n + x] = new[x]
      /\ \A x \in 1..Len(after) : b[n + Len(new) + x] = after[x]
  OBVIOUS
<1>3. /\ Len(new) \in 0..2 /\ Own(a) \subseteq 1..n + 1 + Len(after) /\ n \in Nat /\ Len(after) \in Nat
      /\ Own(b) \subseteq 1..n + Len(new) + Len(after)
  BY <1>1, <1>2 DEF Own, Stands
\* The line itself: its place is the last one of what stands for it.
<1>4. (n + 1 \in Own(a) <=> l.id # "co")
      /\ \A y \in 1..Len(new) : n + y \in Own(b) <=> new[y].id # "co"
  BY <1>1, <1>2, <1>3 DEF Own
<1>5. /\ l.id # "co" => Len(new) > 0 /\ new[Len(new)].id # "co" /\ Purpose(new[Len(new)]) = Purpose(l)
      /\ \A y \in 1..Len(new) : new[y].id # "co" => y = Len(new) /\ l.id # "co"
  <2>1. CASE l.id = "co" /\ new = <<>>
    BY <2>1
  <2>2. ASSUME NEW x \in Lines, Purpose(x) = Purpose(l), new = <<x>>
        PROVE  <1>5!:
    BY <2>2 DEF Purpose
  <2>3. ASSUME NEW x \in Lines, Purpose(x) = Purpose(l), new = <<Co(d), x>>
        PROVE  <1>5!:
    BY <2>3, CoIsALine DEF Purpose
  <2> QED
    BY <2>1, <2>2, <2>3 DEF Stands
<1>6. n + 1 \in Own(a) =>
        Len(new) > 0 /\ n + Len(new) \in Own(b) /\ Purpose(b[n + Len(new)]) = Purpose(l)
  BY <1>2, <1>3, <1>4, <1>5
<1>7. \A y \in 1..Len(new) : n + y \in Own(b) => y = Len(new) /\ n + 1 \in Own(a)
  BY <1>4, <1>5
<1>8. \A x \in 1..n : (x \in Own(a) <=> x \in Own(b)) /\ a[x] = b[x]
  BY <1>1, <1>2, <1>3 DEF Own
<1>9. \A x \in 1..Len(after) :
        (n + 1 + x \in Own(a) <=> n + Len(new) + x \in Own(b)) /\ a[n + 1 + x] = b[n + Len(new) + x]
  BY <1>1, <1>2, <1>3 DEF Own
<1> HIDE DEF n, a, b
<1>10. \A x \in Own(a) : x \in 1..n \/ x = n + 1 \/ \E i \in 1..Len(after) : x = n + 1 + i
  <2>1. TAKE x \in Own(a)
  <2>2. CASE x > n + 1
    <3>1. x - (n + 1) \in 1..Len(after) /\ x = n + 1 + (x - (n + 1))
      BY <1>3, <2>2
    <3> QED
      BY <3>1
  <2>3. x \in 1..n + 1 + Len(after)
    BY <1>3
  <2>4. CASE x <= n
    BY <1>3, <2>3, <2>4
  <2>5. CASE x = n + 1
    BY <2>5
  <2> QED
    BY <1>3, <2>2, <2>3, <2>4, <2>5
<1>11. f \in [Own(a) -> Own(b)]
  BY <1>3, <1>6, <1>8, <1>9, <1>10
<1>12. \A y \in Own(b) : \E x \in Own(a) : f[x] = y
  <2>1. TAKE y \in Own(b)
  <2>2. CASE y <= n
    BY <1>3, <1>8, <2>2
  <2>3. CASE y > n /\ y <= n + Len(new)
    <3>1. y - n \in 1..Len(new) /\ y = n + (y - n)
      BY <1>3, <2>3
    <3>2. y = n + Len(new) /\ n + 1 \in Own(a)
      BY <1>3, <1>7, <3>1
    <3>3. f[n + 1] = y
      BY <1>3, <3>2
    <3> QED
      BY <3>2, <3>3
  <2>4. CASE y > n + Len(new)
    <3> DEFINE i == y - (n + Len(new))
    <3>1. i \in 1..Len(after) /\ y = n + Len(new) + i
      BY <1>3, <2>4
    <3> HIDE DEF i
    <3>2. n + 1 + i \in Own(a)
      BY <1>9, <3>1
    <3>3. f[n + 1 + i] = n + 1 + i + Len(new) - 1
      BY <1>3, <3>1, <3>2
    <3> QED
      BY <1>3, <3>1, <3>2, <3>3
  <2> QED
    BY <1>3, <2>2, <2>3, <2>4
<1>13. \A x, y \in Own(a) : x < y => f[x] < f[y]
  BY <1>3, <1>6
<1>14. \A x \in Own(a) : Purpose(b[f[x]]) = Purpose(a[x])
  <2>1. TAKE x \in Own(a)
  <2>2. CASE x \in 1..n
    BY <1>8, <2>2
  <2>3. CASE x = n + 1
    BY <1>1, <1>3, <1>6, <2>3
  <2>4. ASSUME NEW i \in 1..Len(after), x = n + 1 + i
        PROVE  Purpose(b[f[x]]) = Purpose(a[x])
    <3>1. f[x] = n + Len(new) + i
      BY <1>3, <2>4
    <3> QED
      BY <1>9, <2>4, <3>1
  <2> QED
    BY <1>10, <2>2, <2>3, <2>4
<1> QED
  BY <1>11, <1>12, <1>13, <1>14 DEF Matches, Matched, a, b

-----------------------------------------------------------------------------
(* The files. *)

Securetty == [lines : Seq(Terminals), ended : BOOLEAN] \cup {NIL}

TypesOK ==
  /\ inittab \in Seq(Lines) \cup {NIL} /\ spare \in Seq(Lines) \cup {NIL}
  /\ securetty \in Securetty
  /\ pc \in {"idle", "open", "copy", "unlink", "rename", "securetty", "configured"}
  /\ pc # "idle" => dev \in Consoles
  /\ hasVideo \in BOOLEAN /\ check \subseteq {1, 2}
  /\ text \in Seq(Lines) /\ out \in Seq(Lines)
  /\ faults \in Nat /\ short \in BOOLEAN /\ original \in Seq(Lines)
  /\ pc \in {"open", "copy", "unlink"} => inittab \in Seq(Lines)
  /\ pc = "rename" => inittab = NIL
  /\ pc \in {"unlink", "rename"} => spare \in Seq(Lines)

\* What is there of the administrator's lines: before the loop, within it, and
\* in the file that was written.
MatchedOK ==
  /\ ~short => IF inittab # NIL THEN Matched(original, inittab)
               ELSE spare \in Seq(Lines) /\ Matched(original, spare)
  /\ pc = "copy" => Matched(inittab, out \o text)
  /\ pc \in {"unlink", "rename"} /\ ~short => Matched(original, spare)

LEMMA TypesInit == Init => TypesOK
<1>1. ASSUME Init
      PROVE  /\ inittab \in Seq(Lines) /\ original \in Seq(Lines)
             /\ securetty \in Securetty
  BY <1>1, InittabAssumption DEF Init, Securetty
<1>2. ASSUME Init
      PROVE  /\ spare \in Seq(Lines) \cup {NIL} /\ text \in Seq(Lines) /\ out \in Seq(Lines)
             /\ check \subseteq {1, 2} /\ faults \in Nat /\ pc = "idle"
  BY <1>2 DEF Init
<1>3. ASSUME Init
      PROVE  hasVideo \in BOOLEAN /\ short \in BOOLEAN
  BY <1>3 DEF Init
<1> QED
  BY <1>1, <1>2, <1>3 DEF TypesOK

LEMMA RewrittenLines ==
  ASSUME NEW l \in Lines, NEW d \in Consoles, NEW video \in BOOLEAN, NEW bits
  PROVE  Rewritten(l, d, video, bits) \in Seq(Lines)
<1>1. Stands(l, d, Rewritten(l, d, video, bits)) /\ Co(d) \in Lines
  BY RewrittenStands, CoIsALine
<1>2. CASE Rewritten(l, d, video, bits) = <<>>
  BY <1>2
<1> HIDE DEF Co
<1>3. ASSUME NEW new \in Lines, Rewritten(l, d, video, bits) \in {<<new>>, <<Co(d), new>>}
      PROVE  Rewritten(l, d, video, bits) \in Seq(Lines)
  <2>1. <<new>> \in Seq(Lines) /\ <<Co(d), new>> \in Seq(Lines)
    BY <1>1
  <2> QED
    BY <1>3, <2>1
<1> QED
  BY <1>1, <1>2, <1>3 DEF Stands

LEMMA TypesStep ==
  ASSUME TypesOK, [Next]_vars
  PROVE  TypesOK'
<1> USE DEF TypesOK, Goto
<1>1. CASE Configure
  <2>1. check' \subseteq {1, 2} /\ (check' # {} => inittab # NIL)
    BY <1>1 DEF Configure, CheckInittab
  <2> QED
    BY <1>1, <2>1 DEF Configure, files, history
<1>2. CASE Open
  BY <1>2 DEF Open, history
<1>3. CASE OpenFails
  BY <1>3 DEF OpenFails, Fault, files, reading
<1>4. CASE CopyLine
  <2>1. Head(text) \in Lines /\ Tail(text) \in Seq(Lines)
    BY <1>4 DEF CopyLine
  <2>2. out' \in Seq(Lines)
    BY <1>4, <2>1, RewrittenLines DEF CopyLine
  <2>3. check' \subseteq {1, 2}
    BY <1>4 DEF CopyLine
  <2> QED
    BY <1>4, <2>1, <2>2, <2>3 DEF CopyLine, files, history
<1>5. CASE Close
  BY <1>5 DEF Close, reading, history
<1>6. CASE CloseShort
  <2>1. spare' \in Seq(Lines)
    BY <1>6 DEF CloseShort, Prefixes
  <2> QED
    BY <1>6, <2>1 DEF CloseShort, Fault, reading
<1>7. CASE Unlink
  BY <1>7 DEF Unlink, reading, history
<1>8. CASE Rename
  BY <1>8 DEF Rename, reading, history
<1>9. CASE RenameFails
  BY <1>9 DEF RenameFails, Fault, files, reading
<1>10. CASE RewriteSecuretty
  <2>1. ASSUME IsSerialish(dev), securetty # NIL
        PROVE  [lines |-> securetty.lines \o (IF securetty.lines = <<>> THEN <<<<>>>> ELSE <<>>)
                            \o <<dev.device>>, ended |-> TRUE]
                 \in [lines : Seq(Terminals), ended : BOOLEAN]
    <3>1. dev.device \in Terminals /\ <<>> \in Terminals /\ securetty.lines \in Seq(Terminals)
      BY <1>10, <2>1, InittabAssumption DEF RewriteSecuretty, IsSerialish, Terminals, Securetty
    <3> QED
      BY <3>1
  <2>2. securetty' \in Securetty
    BY <1>10, <2>1 DEF RewriteSecuretty, Securetty
  <2>3. /\ pc = "securetty" /\ pc' = "configured"
        /\ inittab' = inittab /\ spare' = spare /\ dev' = dev /\ check' = check
        /\ text' = text /\ out' = out /\ faults' = faults /\ original' = original
    BY <1>10 DEF RewriteSecuretty, reading, history
  <2>4. hasVideo' \in BOOLEAN /\ short' \in BOOLEAN
    BY <1>10 DEF RewriteSecuretty, reading, history
  <2> QED
    BY <2>2, <2>3, <2>4
<1>11. CASE Exit
  <2>1. /\ text' = <<>> /\ out' = <<>> /\ check' = {} /\ pc' = "idle"
        /\ inittab' = inittab /\ spare' = spare /\ securetty' = securetty
        /\ faults' = faults /\ original' = original
    BY <1>11 DEF Exit, files, history
  <2>2. hasVideo' \in BOOLEAN /\ short' \in BOOLEAN
    BY <1>11 DEF Exit, history
  <2> QED
    BY <2>1, <2>2
<1>12. CASE Crash
  <2>1. spare' \in Seq(Lines) \cup {NIL}
    BY <1>12 DEF Crash, Prefixes
  <2>2. text' \in Seq(Lines) /\ out' \in Seq(Lines) /\ check' \subseteq {1, 2} /\ pc' = "idle"
    BY <1>12 DEF Crash
  <2>3. faults' \in Nat /\ inittab' = inittab /\ securetty' = securetty /\ original' = original
    BY <1>12 DEF Crash, Fault
  <2>4. hasVideo' \in BOOLEAN /\ short' \in BOOLEAN
    BY <1>12 DEF Crash
  <2> QED
    BY <2>1, <2>2, <2>3, <2>4
<1>13. CASE UNCHANGED vars
  BY <1>13 DEF vars, files, reading, history
<1> QED
  BY <1>1, <1>2, <1>3, <1>4, <1>5, <1>6, <1>7, <1>8, <1>9, <1>10, <1>11, <1>12, <1>13 DEF Next

LEMMA MatchedInit == Init => MatchedOK
BY InittabAssumption, MatchedItself DEF Init, MatchedOK

LEMMA MatchedStep ==
  ASSUME TypesOK, TypesOK', MatchedOK, [Next]_vars
  PROVE  MatchedOK'
<1> USE DEF MatchedOK, Goto
<1>1. CASE Configure
  BY <1>1 DEF Configure, files, history
<1>2. CASE Open
  <2>1. inittab' = inittab /\ inittab \in Seq(Lines) /\ inittab # NIL
    BY <1>2, InittabAssumption DEF Open, TypesOK
  <2>2. <<>> \o inittab = inittab
    BY <2>1, ConcatEmptySeq
  <2>3. Matched(inittab', out' \o text')
    BY <1>2, <2>1, <2>2, MatchedItself DEF Open
  <2> QED
    BY <1>2, <2>1, <2>3 DEF Open, history
<1>3. CASE OpenFails
  BY <1>3 DEF OpenFails, Fault, files, reading
<1>4. CASE CopyLine
  <2> DEFINE l == Head(text)
             new == Rewritten(l, dev, hasVideo, check)
  <2>1. l \in Lines /\ Tail(text) \in Seq(Lines) /\ out \in Seq(Lines) /\ new \in Seq(Lines)
        /\ dev \in Consoles /\ inittab \in Seq(Lines)
    BY <1>4, RewrittenLines DEF CopyLine, TypesOK
  <2>2. out \o text = out \o <<l>> \o Tail(text)
    <3>1. text = <<l>> \o Tail(text)
      BY <1>4, HeadTailProperties DEF CopyLine, TypesOK
    <3>2. <<l>> \in Seq(Lines)
      BY <2>1
    <3>3. \A a, b, c \in Seq(Lines) : (a \o b) \o c = a \o (b \o c)
      BY ConcatAssociative
    <3> HIDE DEF l
    <3>4. out \o (<<l>> \o Tail(text)) = (out \o <<l>>) \o Tail(text)
      BY <2>1, <3>2, <3>3, Zenon
    <3> QED
      BY <3>1, <3>4, Zenon
  <2>3. Matched(out \o text, out \o new \o Tail(text))
    BY <2>1, <2>2, OneLine, RewrittenStands DEF TypesOK
  <2>4. Matched(inittab, out \o new \o Tail(text))
    <3>1. out \o text \in Seq(Lines) /\ out \o new \o Tail(text) \in Seq(Lines)
      BY <2>1 DEF TypesOK
    <3>2. Matched(inittab, out \o text)
      BY <1>4 DEF CopyLine
    <3> QED
      BY <2>1, <2>3, <3>1, <3>2, MatchedThrough
  <2> QED
    BY <1>4, <2>4 DEF CopyLine, files, history
<1>5. CASE Close
  <2>1. out \o text = out /\ inittab \in Seq(Lines) /\ inittab # NIL
    BY <1>5, ConcatEmptySeq, InittabAssumption DEF Close, TypesOK
  <2>2. ~short => Matched(original, out)
    BY <1>5, <2>1, MatchedThrough DEF Close, TypesOK
  <2> QED
    BY <1>5, <2>1, <2>2 DEF Close, history
<1>6. CASE CloseShort
  BY <1>6 DEF CloseShort
<1>7. CASE Unlink
  BY <1>7 DEF Unlink, history, TypesOK
<1>8. CASE Rename
  BY <1>8, InittabAssumption DEF Rename, history, TypesOK
<1>9. CASE RenameFails
  BY <1>9 DEF RenameFails, Fault, files, reading
<1>10. CASE RewriteSecuretty
  BY <1>10 DEF RewriteSecuretty, history
<1>11. CASE Exit
  BY <1>11 DEF Exit, files, history
<1>12. CASE Crash
  <2>1. pc = "copy" => inittab # NIL
    BY InittabAssumption DEF TypesOK
  <2> QED
    BY <1>12, <2>1 DEF Crash, Fault
<1>13. CASE UNCHANGED vars
  BY <1>13 DEF vars, files, reading, history
<1> QED
  BY <1>1, <1>2, <1>3, <1>4, <1>5, <1>6, <1>7, <1>8, <1>9, <1>10, <1>11, <1>12, <1>13 DEF Next

\* However often a run is cut short and a call fails, while no write stopped half
\* way the administrator's lines are in inittab, or in inittab- where there is no
\* inittab: the order of the last steps of rewriteInittab(), hwconf.c:352-356, and
\* every way through its loop.
THEOREM InittabKeepsLines == Spec => []LinesKept
<1>1. TypesOK /\ MatchedOK => LinesKept
  BY MatchedAreSame DEF TypesOK, MatchedOK, LinesKept
<1>2. Init => TypesOK /\ MatchedOK
  BY TypesInit, MatchedInit
<1>3. TypesOK /\ MatchedOK /\ [Next]_vars => (TypesOK /\ MatchedOK)'
  BY TypesStep, MatchedStep
<1> QED
  BY <1>1, <1>2, <1>3, PTL DEF Spec
-----------------------------------------------------------------------------
(***************************************************************************)
(* When no call failed, configure() leaves a serial console that can be    *)
(* logged in to, whatever inittab and securetty were.                      *)
(***************************************************************************)
\* The lines a console needs are there, unless another line is in the way or there
\* is no mingetty to put a getty in front of.
Ready(lines) ==
  (\E l \in ToSet(lines) : l.runs = "mingetty" /\ l.marks < 2) /\ (\A l \in ToSet(lines) : ~InTheWay(l)) =>
    /\ \E l \in ToSet(lines) : Names(l, dev) /\ l.marks = 0
    /\ \A l \in ToSet(lines) : Names(l, dev) => l.marks = 0
    /\ ~hasVideo => \A l \in ToSet(lines) : l.runs = "mingetty" => l.marks > 0

\* What the loop has done so far.
Halfway ==
  /\ \A l \in ToSet(out) : Names(l, dev) => l.marks # 1
  /\ ~hasVideo => \A l \in ToSet(out) : l.runs = "mingetty" => l.marks > 0
  /\ 2 \in check => \/ \E l \in ToSet(text) : Names(l, dev) /\ l.marks > 0
                    \/ \E l \in ToSet(out) : Names(l, dev) /\ l.marks # 1
  /\ 2 \notin check => \A l \in ToSet(out) : l.runs = "mingetty" => l.marks = 2

ReadyOK ==
  faults = 0 =>
    /\ pc # "rename" => inittab # NIL
    /\ pc # "idle" /\ IsSerialish(dev) =>
         /\ pc = "open" /\ 2 \in check => \E l \in ToSet(inittab) : Names(l, dev) /\ l.marks > 0
         /\ pc = "copy" => Halfway
         /\ pc \in {"unlink", "rename"} => Ready(spare)
         /\ pc \in {"securetty", "configured"} => Ready(inittab)
         /\ pc = "configured" /\ securetty # NIL => Listed(dev)

-----------------------------------------------------------------------------
(* Sets of lines. *)

LEMMA LinesOfTwo ==
  ASSUME NEW a \in Seq(Lines), NEW b \in Seq(Lines)
  PROVE  ToSet(a \o b) = ToSet(a) \cup ToSet(b)
<1>1. /\ a \o b \in Seq(Lines) /\ Len(a \o b) = Len(a) + Len(b) /\ Len(a) \in Nat /\ Len(b) \in Nat
      /\ \A x \in 1..Len(a) : (a \o b)[x] = a[x]
      /\ \A x \in 1..Len(b) : (a \o b)[Len(a) + x] = b[x]
  OBVIOUS
<1>2. /\ DOMAIN a = 1..Len(a) /\ DOMAIN b = 1..Len(b) /\ DOMAIN (a \o b) = 1..Len(a) + Len(b)
  BY <1>1
<1>3. ASSUME NEW l \in ToSet(a \o b)
      PROVE  l \in ToSet(a) \cup ToSet(b)
  <2>1. PICK x \in 1..Len(a) + Len(b) : l = (a \o b)[x]
    BY <1>2 DEF ToSet
  <2>2. CASE x <= Len(a)
    BY <1>1, <1>2, <2>1, <2>2 DEF ToSet
  <2>3. CASE x > Len(a)
    <3>1. x - Len(a) \in 1..Len(b) /\ x = Len(a) + (x - Len(a))
      BY <1>1, <2>1, <2>3
    <3>2. l = b[x - Len(a)]
      BY <1>1, <2>1, <3>1
    <3> QED
      BY <1>2, <3>1, <3>2 DEF ToSet
  <2> QED
    BY <1>1, <2>1, <2>2, <2>3
<1>4. ASSUME NEW l \in ToSet(a)
      PROVE  l \in ToSet(a \o b)
  <2>1. PICK x \in 1..Len(a) : l = a[x]
    BY <1>2 DEF ToSet
  <2>2. x \in 1..Len(a) + Len(b) /\ l = (a \o b)[x]
    BY <1>1, <2>1
  <2> QED
    BY <1>2, <2>2 DEF ToSet
<1>5. ASSUME NEW l \in ToSet(b)
      PROVE  l \in ToSet(a \o b)
  <2>1. PICK x \in 1..Len(b) : l = b[x]
    BY <1>2 DEF ToSet
  <2>2. Len(a) + x \in 1..Len(a) + Len(b) /\ l = (a \o b)[Len(a) + x]
    BY <1>1, <2>1
  <2> QED
    BY <1>2, <2>2 DEF ToSet
<1> QED
  BY <1>3, <1>4, <1>5

LEMMA LinesOfOne ==
  ASSUME NEW l \in Lines
  PROVE  ToSet(<<l>>) = {l}
<1>1. <<l>> \in Seq(Lines) /\ DOMAIN <<l>> = 1..1 /\ <<l>>[1] = l
  OBVIOUS
<1> QED
  BY <1>1 DEF ToSet

LEMMA LinesOfNone == ToSet(<<>>) = {}
BY DEF ToSet

LEMMA LinesAreLines ==
  ASSUME NEW a \in Seq(Lines)
  PROVE  ToSet(a) \subseteq Lines
<1>1. DOMAIN a = 1..Len(a) /\ \A x \in 1..Len(a) : a[x] \in Lines
  OBVIOUS
<1> QED
  BY <1>1 DEF ToSet
-----------------------------------------------------------------------------
(* A turn of the loop. *)

LEMMA NamedAgain ==
  ASSUME NEW l \in Lines, NEW d \in Consoles, NEW n \in 0..2
  PROVE  /\ Names([l EXCEPT !.marks = n], d) <=> Names(l, d)
         /\ Names(Uncommented(l, d), d) <=> Names(l, d)
         /\ [l EXCEPT !.marks = n].marks = n /\ Uncommented(l, d).marks = 0
         /\ [l EXCEPT !.marks = n].runs = l.runs /\ Uncommented(l, d).runs = l.runs
         /\ [l EXCEPT !.marks = n] \in Lines
<1>1. \A m \in 0..2 : /\ [l EXCEPT !.marks = m] \in Lines /\ [l EXCEPT !.marks = m].tty = l.tty
                      /\ [l EXCEPT !.marks = m].runs = l.runs /\ [l EXCEPT !.marks = m].marks = m
  BY DEF Lines
<1>2. /\ Uncommented(l, d).tty = l.tty /\ Uncommented(l, d).runs = l.runs
      /\ Uncommented(l, d).marks = 0
  BY DEF Uncommented, Lines
<1> QED
  BY <1>1, <1>2 DEF Names

LEMMA CoNames ==
  ASSUME NEW d \in Consoles, IsSerialish(d)
  PROVE  Names(Co(d), d) /\ Co(d).marks = 0 /\ Co(d).runs = "getty"
<1>1. d.device \in Seq(Texts) /\ d.device # NIL
  BY InittabAssumption DEF IsSerialish, Terminals
<1>2. IsPrefix(d.device, d.device)
  BY <1>1 DEF IsPrefix
<1> QED
  BY <1>1, <1>2 DEF Names, Co

\* What becomes of a line when a serial console is configured, one way through
\* the loop after the other.
LEMMA WaysThrough ==
  ASSUME NEW l \in Lines, NEW d \in Consoles, NEW video \in BOOLEAN, NEW bits, IsSerialish(d)
  PROVE  \/ /\ Rewritten(l, d, video, bits) = <<l>>
            /\ l.marks = 2 \/ (l.runs # "mingetty" /\ (Names(l, d) => l.marks # 1))
         \/ /\ Rewritten(l, d, video, bits) = <<>>
            /\ l.marks = 0 /\ l.runs # "mingetty"
         \/ /\ Rewritten(l, d, video, bits) = <<Default3>>
            /\ l.runs = "default5"
         \/ /\ Rewritten(l, d, video, bits) = <<Uncommented(l, d)>>
            /\ Names(l, d) /\ l.runs = "getty"
         \/ \E new \in Lines :
              /\ new.runs = "mingetty" /\ (~video => new.marks > 0)
              /\ l.runs = "mingetty" /\ l.marks < 2
              /\ \/ 2 \in bits /\ Rewritten(l, d, video, bits) = <<new>>
                 \/ 2 \notin bits /\ Rewritten(l, d, video, bits) = <<Co(d), new>>
<1>1. CASE l.marks = 2 \/ l.runs \in {"other", "default3"}
  <2>1. Rewritten(l, d, video, bits) = <<l>>
    BY <1>1 DEF Rewritten
  <2>2. l.marks = 2 \/ (l.runs # "mingetty" /\ ~Names(l, d))
    BY <1>1 DEF Names
  <2> QED
    BY <2>1, <2>2
<1>2. CASE l.marks < 2 /\ l.runs = "default5"
  <2>1. ~Names(l, d) /\ l.runs # "mingetty"
    BY <1>2 DEF Names
  <2> QED
    BY <1>2, <2>1 DEF Rewritten
<1>3. CASE l.marks < 2 /\ l.runs \in {"getty", "respawn"} /\ Rewritten(l, d, video, bits) = Copied(l, d)
                       /\ (Names(l, d) => l.marks # 1)
  BY <1>3 DEF Copied
<1>4. CASE l.marks < 2 /\ l.runs = "mingetty"
  <2> DEFINE new == IF l.marks = 0 /\ ~video THEN [l EXCEPT !.marks = 1] ELSE l
  <2>1. new \in Lines /\ new.runs = "mingetty" /\ (~video => new.marks > 0)
    BY <1>4, NamedAgain DEF Lines
  <2> HIDE DEF new
  <2>2. Co(d) \in Lines
    BY CoIsALine
  <2> HIDE DEF Co
  <2>3. <<>> \o <<new>> = <<new>>
    BY <2>1, ConcatEmptySeq
  <2>4. <<Co(d)>> \o <<new>> = <<Co(d), new>>
    <3> DEFINE s == <<Co(d)>> \o <<new>>
               t == <<Co(d), new>>
    <3>1. /\ s \in Seq(Lines) /\ Len(s) = 2 /\ s[1] = Co(d) /\ s[2] = new
          /\ t \in Seq(Lines) /\ Len(t) = 2 /\ t[1] = Co(d) /\ t[2] = new
      BY <2>1, <2>2
    <3> HIDE DEF s, t
    <3>2. \A x \in 1..2 : s[x] = t[x]
      BY <3>1
    <3> QED
      BY <3>1, <3>2, SeqEqual DEF s, t
  <2>5. Rewritten(l, d, video, bits) = (IF 2 \in bits THEN <<>> ELSE <<Co(d)>>) \o <<new>>
    BY <1>4 DEF Rewritten, Mingetty, new
  <2>6. \/ 2 \in bits /\ Rewritten(l, d, video, bits) = <<new>>
        \/ 2 \notin bits /\ Rewritten(l, d, video, bits) = <<Co(d), new>>
    BY <2>3, <2>4, <2>5
  <2> QED
    BY <1>4, <2>1, <2>6
<1>5. CASE l.marks < 2 /\ l.runs = "getty"
  <2>1. Rewritten(l, d, video, bits) = Getty(l, d)
    BY <1>5 DEF Rewritten
  <2>2. CASE Names(l, d) /\ l.marks = 1
    BY <1>5, <2>1, <2>2 DEF Getty
  <2>3. CASE ~(Names(l, d) /\ l.marks = 1)
    BY <1>3, <1>5, <2>1, <2>3 DEF Getty
  <2> QED
    BY <2>2, <2>3
<1>6. CASE l.marks < 2 /\ l.runs = "respawn"
  <2>1. ~Names(l, d) /\ Rewritten(l, d, video, bits) = Copied(l, d)
    BY <1>6 DEF Names, Rewritten
  <2> QED
    BY <1>3, <1>6, <2>1
<1> QED
  BY <1>1, <1>2, <1>4, <1>5, <1>6 DEF Lines, Runs

LEMMA LoopTurn ==
  ASSUME TypesOK, ReadyOK, CopyLine, faults = 0, IsSerialish(dev)
  PROVE  Halfway'
<1> DEFINE l == Head(text)
           new == Rewritten(l, dev, hasVideo, check)
<1>1. /\ l \in Lines /\ Tail(text) \in Seq(Lines) /\ out \in Seq(Lines) /\ new \in Seq(Lines)
      /\ dev \in Consoles /\ text = <<l>> \o Tail(text) /\ <<l>> \in Seq(Lines)
  BY RewrittenLines, HeadTailProperties DEF CopyLine, TypesOK
<1>2. /\ out' = out \o new /\ text' = Tail(text) /\ dev' = dev
      /\ check' = IF l.runs = "mingetty" /\ l.marks < 2 THEN check \cup {2} ELSE check
  BY DEF CopyLine
<1>3. hasVideo \in BOOLEAN /\ (hasVideo' <=> hasVideo)
  BY DEF CopyLine, TypesOK
<1>4. ToSet(out') = ToSet(out) \cup ToSet(new)
  BY <1>1, <1>2, LinesOfTwo
<1>5. ToSet(text) = {l} \cup ToSet(text')
  BY <1>1, <1>2, LinesOfTwo, LinesOfOne
<1>6. Halfway
  BY DEF ReadyOK, CopyLine
\* What the line itself brings.
<1> DEFINE Brings ==
      /\ \A x \in ToSet(new) : Names(x, dev) => x.marks # 1
      /\ ~hasVideo => \A x \in ToSet(new) : x.runs = "mingetty" => x.marks > 0
      /\ Names(l, dev) /\ l.marks > 0 => \E x \in ToSet(new) : Names(x, dev) /\ x.marks # 1
      /\ 2 \in check' /\ 2 \notin check => \E x \in ToSet(new) : Names(x, dev) /\ x.marks # 1
      /\ 2 \notin check' => \A x \in ToSet(new) : x.runs = "mingetty" => x.marks = 2
<1>7. Brings
  <2>1. l.marks \in 0..2 /\ (Names(l, dev) => l.runs = "getty")
    BY <1>1 DEF Lines, Names
  <2> HIDE DEF l
  <2>2. CASE new = <<l>> /\ (l.marks = 2 \/ (l.runs # "mingetty" /\ (Names(l, dev) => l.marks # 1)))
    <3>1. ToSet(new) = {l} /\ check' = check
      BY <1>1, <1>2, <2>1, <2>2, LinesOfOne
    <3> HIDE DEF new
    <3> QED
      BY <2>1, <2>2, <3>1
  <2>3. CASE new = <<>> /\ l.marks = 0 /\ l.runs # "mingetty"
    <3>1. ToSet(new) = {} /\ check' = check
      BY <1>2, <2>3, LinesOfNone
    <3> HIDE DEF new
    <3> QED
      BY <2>3, <3>1
  <2>4. CASE new = <<Default3>> /\ l.runs = "default5"
    <3>1. Default3 \in Lines
      BY InittabAssumption DEF Default3, Lines, Runs
    <3>2. ToSet(new) = {Default3} /\ check' = check
      BY <1>2, <2>4, <3>1, LinesOfOne
    <3>3. Default3.runs = "default3" /\ ~Names(Default3, dev)
      BY DEF Default3, Names
    <3> HIDE DEF new, Default3
    <3> QED
      BY <2>1, <2>4, <3>2, <3>3
  <2>5. CASE new = <<Uncommented(l, dev)>> /\ Names(l, dev) /\ l.runs = "getty"
    <3> DEFINE u == Uncommented(l, dev)
    <3>1. Names(u, dev) /\ u.marks = 0 /\ u.runs = "getty"
      <4>1. 0 \in 0..2 /\ l \in Lines /\ dev \in Consoles
        BY <1>1
      <4> QED
        BY <2>5, <4>1, NamedAgain
    <3>2. ToSet(new) = {u} /\ check' = check
      <4>1. DOMAIN <<u>> = 1..1 /\ <<u>>[1] = u
        OBVIOUS
      <4> QED
        BY <1>2, <2>5, <4>1 DEF ToSet
    <3> HIDE DEF u, new
    <3> QED
      BY <3>1, <3>2
  <2>6. ASSUME NEW y \in Lines, y.runs = "mingetty", ~hasVideo => y.marks > 0,
               l.runs = "mingetty", l.marks < 2, 2 \in check, new = <<y>>
        PROVE  Brings
    <3>1. ToSet(new) = {y} /\ 2 \in check' /\ ~Names(y, dev) /\ ~Names(l, dev)
      BY <1>2, <2>6, LinesOfOne DEF Names
    <3> HIDE DEF new
    <3> QED
      BY <2>6, <3>1
  <2>7. ASSUME NEW y \in Lines, y.runs = "mingetty", ~hasVideo => y.marks > 0,
               l.runs = "mingetty", l.marks < 2, 2 \notin check, new = <<Co(dev), y>>
        PROVE  Brings
    <3>1. Names(Co(dev), dev) /\ Co(dev).marks = 0 /\ Co(dev).runs = "getty"
      BY <1>1, CoNames
    <3> HIDE DEF Co
    <3>2. ToSet(new) = {Co(dev), y} /\ 2 \in check' /\ ~Names(y, dev) /\ ~Names(l, dev)
      <4>1. DOMAIN <<Co(dev), y>> = 1..2 /\ <<Co(dev), y>>[1] = Co(dev) /\ <<Co(dev), y>>[2] = y
        OBVIOUS
      <4> QED
        BY <1>2, <2>7, <4>1 DEF Names, ToSet
    <3> HIDE DEF new
    <3> QED
      BY <2>7, <3>1, <3>2
  <2>8. dev \in Consoles /\ l \in Lines
    BY <1>1 DEF l
  <2> QED
    BY <1>3, <2>2, <2>3, <2>4, <2>5, <2>6, <2>7, <2>8, WaysThrough
<1> HIDE DEF l, new
<1> QED
  BY <1>2, <1>3, <1>4, <1>5, <1>6, <1>7 DEF Halfway

\* At the end of the loop a file is ready.
LEMMA LoopEnd ==
  ASSUME TypesOK, Halfway, text = <<>>
  PROVE  Ready(out)
<1>1. \A l \in ToSet(out) : l.marks \in 0..2
  BY LinesAreLines DEF TypesOK, Lines
<1>2. SUFFICES ASSUME \E l \in ToSet(out) : l.runs = "mingetty" /\ l.marks < 2,
                      \A l \in ToSet(out) : ~InTheWay(l)
               PROVE  /\ \E l \in ToSet(out) : Names(l, dev) /\ l.marks = 0
                      /\ \A l \in ToSet(out) : Names(l, dev) => l.marks = 0
                      /\ ~hasVideo => \A l \in ToSet(out) : l.runs = "mingetty" => l.marks > 0
  BY DEF Ready
<1>3. \A l \in ToSet(out) : Names(l, dev) => l.marks # 2
  BY <1>2 DEF InTheWay
<1>4. 2 \in check
  BY <1>1, <1>2 DEF Halfway
<1>5. \E l \in ToSet(out) : Names(l, dev) /\ l.marks # 1
  BY <1>4, LinesOfNone DEF Halfway
<1> QED
  BY <1>1, <1>3, <1>5 DEF Halfway

LEMMA ReadyInit == Init => ReadyOK
BY InittabAssumption DEF Init, ReadyOK

LEMMA ReadyStep ==
  ASSUME TypesOK, ReadyOK, [Next]_vars
  PROVE  ReadyOK'
<1>1. CASE faults' # 0
  BY <1>1 DEF ReadyOK
<1>2. CASE Fault
  <2>1. faults' # 0
    BY <1>2 DEF Fault, TypesOK
  <2> QED
    BY <1>1, <2>1
<1>3. CASE Configure /\ faults = 0
  <2>1. inittab # NIL /\ inittab' = inittab /\ inittab \in Seq(Lines)
    BY <1>3 DEF Configure, ReadyOK, TypesOK, files
  <2>2. /\ pc' = IF check' = {} THEN "securetty" ELSE "open"
        /\ dev' \in Consoles /\ check' = CheckInittab(inittab, dev', hasVideo')
    BY <1>3 DEF Configure, Goto
  <2>3. hasVideo' \in BOOLEAN
    BY <1>3 DEF Configure
  <2>4. ASSUME IsSerialish(dev'), 2 \in check'
        PROVE  \E l \in ToSet(inittab) : Names(l, dev') /\ l.marks > 0
    BY <2>1, <2>2, <2>4 DEF CheckInittab
  <2>5. ASSUME IsSerialish(dev'), check' = {}
        PROVE  Ready(inittab)'
    <3>1. /\ \E l \in ToSet(inittab) : Names(l, dev')
          /\ \A l \in ToSet(inittab) : Names(l, dev') => ~(l.marks > 0)
      BY <2>1, <2>2, <2>5 DEF CheckInittab
    <3>2. ~hasVideo' => \A l \in ToSet(inittab) : l.runs = "mingetty" => l.marks # 0
      BY <2>1, <2>2, <2>5 DEF CheckInittab
    <3>3. \A l \in ToSet(inittab) : l.marks \in 0..2
      BY <2>1, LinesAreLines DEF Lines
    <3> QED
      BY <2>1, <3>1, <3>2, <3>3 DEF Ready
  <2> QED
    BY <2>1, <2>2, <2>4, <2>5 DEF ReadyOK
<1>4. CASE Open /\ faults = 0
  <2>1. /\ pc = "open" /\ pc' = "copy" /\ dev' = dev /\ check' = check /\ inittab' = inittab
        /\ text' = inittab /\ out' = <<>> /\ faults' = faults
    BY <1>4 DEF Open, Goto, history
  <2>2. ToSet(out') = {}
    BY <2>1, LinesOfNone
  <2>3. IsSerialish(dev) => Halfway'
    BY <1>4, <2>1, <2>2 DEF Halfway, ReadyOK
  <2> QED
    BY <1>4, <2>1, <2>3 DEF ReadyOK
<1>5. CASE CopyLine /\ faults = 0
  <2>1. pc = "copy" /\ pc' = pc /\ dev' = dev /\ inittab' = inittab
    BY <1>5 DEF CopyLine, files
  <2>2. IsSerialish(dev) => Halfway'
    BY <1>5, LoopTurn
  <2> QED
    BY <1>5, <2>1, <2>2 DEF ReadyOK
<1>6. CASE Close /\ faults = 0
  <2>1. pc = "copy" /\ pc' = "unlink" /\ dev' = dev /\ inittab' = inittab /\ spare' = out /\ text = <<>>
    BY <1>6 DEF Close, Goto
  <2>2. hasVideo' <=> hasVideo
    BY <1>6 DEF Close
  <2>3. IsSerialish(dev) => Ready(out)
    BY <1>6, <2>1, LoopEnd DEF ReadyOK
  <2>4. IsSerialish(dev) => Ready(spare)'
    BY <2>1, <2>2, <2>3 DEF Ready, InTheWay
  <2> QED
    BY <1>6, <2>1, <2>4 DEF ReadyOK
<1>7. CASE Unlink /\ faults = 0
  <2>1. pc = "unlink" /\ pc' = "rename" /\ dev' = dev /\ spare' = spare
    BY <1>7 DEF Unlink, Goto
  <2>2. hasVideo' <=> hasVideo
    BY <1>7 DEF Unlink
  <2>3. IsSerialish(dev) => Ready(spare)'
    BY <1>7, <2>1, <2>2 DEF Ready, InTheWay, ReadyOK
  <2> QED
    BY <2>1, <2>3 DEF ReadyOK
<1>8. CASE Rename /\ faults = 0
  <2>1. pc = "rename" /\ pc' = "securetty" /\ dev' = dev /\ inittab' = spare /\ spare # NIL
    BY <1>8, InittabAssumption DEF Rename, Goto, TypesOK
  <2>2. hasVideo' <=> hasVideo
    BY <1>8 DEF Rename
  <2>3. IsSerialish(dev) => Ready(inittab)'
    BY <1>8, <2>1, <2>2 DEF Ready, InTheWay, ReadyOK
  <2> QED
    BY <2>1, <2>3 DEF ReadyOK
<1>9. CASE RewriteSecuretty /\ faults = 0
  <2>1. pc = "securetty" /\ pc' = "configured" /\ dev' = dev /\ inittab' = inittab /\ faults' = faults
    BY <1>9 DEF RewriteSecuretty, Goto, history
  <2>2. hasVideo' <=> hasVideo
    BY <1>9 DEF RewriteSecuretty
  <2>3. IsSerialish(dev) => Ready(inittab)'
    BY <1>9, <2>1, <2>2 DEF Ready, InTheWay, ReadyOK
  <2>4. ASSUME IsSerialish(dev), securetty' # NIL
        PROVE  Listed(dev)'
    <3>1. CASE Listed(dev) \/ securetty = NIL
      BY <1>9, <2>1, <2>4, <3>1 DEF RewriteSecuretty, Listed
    <3>2. CASE ~Listed(dev) /\ securetty # NIL
      <4> DEFINE before == securetty.lines \o (IF securetty.lines = <<>> THEN <<<<>>>> ELSE <<>>)
      <4>1. securetty' = [lines |-> before \o <<dev.device>>, ended |-> TRUE]
        BY <1>9, <2>4, <3>2 DEF RewriteSecuretty
      <4>2. dev.device \in Terminals /\ <<>> \in Terminals /\ securetty.lines \in Seq(Terminals)
        BY <2>1, <2>4, <3>2, InittabAssumption DEF IsSerialish, Terminals, Securetty, TypesOK
      <4>3. before \in Seq(Terminals)
        BY <4>2
      <4> HIDE DEF before
      <4> DEFINE lines == before \o <<dev.device>>
      <4>4. lines \in Seq(Terminals) /\ Len(lines) \in DOMAIN lines /\ lines[Len(lines)] = dev.device
        BY <4>2, <4>3
      <4>5. securetty'.lines = lines /\ securetty'.ended
        BY <4>1
      <4> QED
        BY <2>1, <4>4, <4>5 DEF Listed
    <3> QED
      BY <3>1, <3>2
  <2> QED
    BY <1>9, <2>1, <2>3, <2>4 DEF ReadyOK
<1>10. CASE Exit /\ faults = 0
  <2>1. pc = "configured" /\ pc' = "idle" /\ inittab' = inittab
    BY <1>10 DEF Exit, Goto, files
  <2> QED
    BY <1>10, <2>1 DEF ReadyOK
<1>11. CASE UNCHANGED vars
  BY <1>11 DEF vars, files, reading, history, ReadyOK, Ready, InTheWay, Halfway, Listed
<1>12. CASE faults # 0 /\ UNCHANGED history
  BY <1>1, <1>12 DEF history
<1> QED
  <2>1. CASE Configure \/ Open \/ CopyLine \/ Close \/ Unlink \/ Rename \/ RewriteSecuretty \/ Exit
    <3>1. UNCHANGED history
      BY <2>1 DEF Configure, Open, CopyLine, Close, Unlink, Rename, RewriteSecuretty, Exit
    <3> QED
      BY <1>3, <1>4, <1>5, <1>6, <1>7, <1>8, <1>9, <1>10, <1>12, <2>1, <3>1
  <2>2. CASE OpenFails \/ CloseShort \/ RenameFails \/ Crash
    BY <1>2, <2>2 DEF OpenFails, CloseShort, RenameFails, Crash
  <2> QED
    BY <1>11, <2>1, <2>2 DEF Next

\* After configure() a serial console has its getty, no commented one and no
\* mingetty that fails, and its line in securetty, for any files and any consoles
\* configured one after the other: checkInittab(), the loop of rewriteInittab()
\* and rewriteSecuretty() together, hwconf.c:179-380.
THEOREM ConsoleIsReady == Spec => []ConsoleReady
<1>1. TypesOK /\ ReadyOK => ConsoleReady
  BY DEF TypesOK, ReadyOK, Ready, ConsoleReady
<1>2. Init => TypesOK /\ ReadyOK
  BY TypesInit, ReadyInit
<1>3. TypesOK /\ ReadyOK /\ [Next]_vars => (TypesOK /\ ReadyOK)'
  BY TypesStep, ReadyStep
<1> QED
  BY <1>1, <1>2, <1>3, PTL DEF Spec
===============================================================================
