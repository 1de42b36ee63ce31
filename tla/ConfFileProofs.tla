---------------------------- MODULE ConfFileProofs ----------------------------
(***************************************************************************)
(* Proofs about ConfFile: whatever a session edits, and whichever of its   *)
(* calls fails, the administrator's lines are all in modprobe.conf or all  *)
(* in its backup until a second write follows one that left modprobe.conf  *)
(* incomplete: one that was cut short, or that came after a failed read.   *)
(***************************************************************************)
EXTENDS ConfFile, Inductions, SequenceTheorems

Slots == Seq(Lines \cup {NIL})

\* What the edits preserve.
Good(lines) == lines \in Slots /\ Plain(lines)

\* The file the first session finds has no continued line.
NoContinuation == Plain(InitConf)

USE ConfAssumption

LEMMA UserLinesAreLines ==
  /\ UserLines \subseteq Lines
  /\ NIL \notin UserLines
  /\ \A l \in UserLines : l.kind = "user"
BY DEF UserLines, InitLines

LEMMA NewLines ==
  ASSUME NEW a \in Aliases, NEW m \in Modules
  PROVE  /\ AliasLine(a, m) \in Lines /\ ~AliasLine(a, m).cont /\ AliasLine(a, m) \notin UserLines
         /\ OptionsLine(a, m) \in Lines /\ ~OptionsLine(a, m).cont /\ OptionsLine(a, m) \notin UserLines
<1> DEFINE Texts == [kind : Kinds, name : Names, val : Vals]
<1>1. <<>> \in Seq(Texts)
  OBVIOUS
<1>2. AliasLine(a, m) \in Lines /\ ~AliasLine(a, m).cont /\ AliasLine(a, m).kind = "alias"
  BY <1>1 DEF AliasLine, Line, Lines, Kinds, Names, Vals
<1>3. OptionsLine(a, m) \in Lines /\ ~OptionsLine(a, m).cont /\ OptionsLine(a, m).kind = "options"
  BY <1>1 DEF OptionsLine, Line, Lines, Kinds, Names, Vals
<1>4. QED
  BY <1>2, <1>3, UserLinesAreLines

\* A removal of lines that are not the administrator's.
LEMMA RemoveKeeps ==
  ASSUME NEW lines, Good(lines), NEW a, NEW l, l \notin UserLines
  PROVE  /\ Good(RemoveLine(lines, l)) /\ Good(RemoveAlias(lines, a)) /\ Good(RemoveOptions(lines, a))
         /\ Holds(lines, UserLines) => /\ Holds(RemoveLine(lines, l), UserLines)
                                       /\ Holds(RemoveAlias(lines, a), UserLines)
                                       /\ Holds(RemoveOptions(lines, a), UserLines)
<1> DEFINE R1 == RemoveLine(lines, l)
           R2 == RemoveAlias(lines, a)
           R3 == RemoveOptions(lines, a)
<1>1. \A R \in {R1, R2, R3} :
        /\ R \in Slots /\ Len(R) = Len(lines)
        /\ \A x \in 1..Len(lines) : R[x] = NIL \/ R[x] = lines[x]
  BY DEF Good, Slots, RemoveLine, RemoveAlias, RemoveOptions, RemoveWhere
<1>2. \A R \in {R1, R2, R3} : \A x \in 1..Len(lines) : lines[x] \in UserLines => R[x] = lines[x]
  BY UserLinesAreLines DEF Good, Slots, RemoveLine, RemoveAlias, RemoveOptions, RemoveWhere
<1> HIDE DEF R1, R2, R3
<1>3. \A R \in {R1, R2, R3} : Good(R) /\ (Holds(lines, UserLines) => Holds(R, UserLines))
  <2> SUFFICES ASSUME NEW R \in {R1, R2, R3}
               PROVE  Good(R) /\ (Holds(lines, UserLines) => Holds(R, UserLines))
    OBVIOUS
  <2>1. R \in Slots /\ DOMAIN R = 1..Len(lines) /\ DOMAIN lines = 1..Len(lines)
    BY <1>1 DEF Good, Slots
  <2>2. Plain(R)
    BY <1>1, <2>1 DEF Good, Plain, Slots
  <2>3. ASSUME Holds(lines, UserLines) PROVE Holds(R, UserLines)
    BY <1>2, <2>1, <2>3, UserLinesAreLines DEF Holds, Slots
  <2>4. QED
    BY <2>1, <2>2, <2>3 DEF Good
<1>4. QED
  BY <1>3 DEF R1, R2, R3

\* addLine() fills a hole or appends: it overwrites no line.
LEMMA FillKeeps ==
  ASSUME NEW lines, Good(lines), NEW line \in Lines, ~line.cont
  PROVE  LET R == FillOrAppend(lines, line, line)
         IN Good(R) /\ (Holds(lines, UserLines) => Holds(R, UserLines))
<1> DEFINE R == FillOrAppend(lines, line, line)
           h == CHOOSE x \in DOMAIN lines : IsFirstHole(lines, x)
<1> SUFFICES Good(R) /\ (Holds(lines, UserLines) => Holds(R, UserLines))
  OBVIOUS
<1>0. lines \in Slots /\ DOMAIN lines = 1..Len(lines)
  BY DEF Good, Slots
<1>1. CASE \E x \in DOMAIN lines : IsFirstHole(lines, x)
  <2>1. h \in 1..Len(lines) /\ lines[h] = NIL
    BY <1>0, <1>1 DEF IsFirstHole
  <2>2. R = [lines EXCEPT ![h] = line]
    BY <1>1 DEF FillOrAppend
  <2> HIDE DEF h, R
  <2>3. /\ R \in Slots /\ DOMAIN R = 1..Len(lines)
        /\ \A x \in 1..Len(lines) : R[x] = IF x = h THEN line ELSE lines[x]
    BY <1>0, <2>1, <2>2 DEF Slots
  <2>4. Plain(R)
    BY <1>0, <2>3 DEF Good, Plain, Slots
  <2>5. ASSUME Holds(lines, UserLines) PROVE Holds(R, UserLines)
    BY <1>0, <2>1, <2>3, <2>5, UserLinesAreLines DEF Holds, Slots
  <2>6. QED
    BY <2>3, <2>4, <2>5 DEF Good
<1>2. CASE ~\E x \in DOMAIN lines : IsFirstHole(lines, x)
  <2>1. R = Append(lines, line)
    BY <1>2 DEF FillOrAppend
  <2> HIDE DEF R
  <2>2. /\ R \in Slots /\ DOMAIN R = 1..(Len(lines) + 1)
        /\ \A x \in 1..Len(lines) : R[x] = lines[x]
        /\ R[Len(lines) + 1] = line
    BY <1>0, <2>1 DEF Slots
  <2>3. Plain(R)
    BY <1>0, <2>2 DEF Good, Plain, Slots
  <2>4. ASSUME Holds(lines, UserLines) PROVE Holds(R, UserLines)
    BY <1>0, <2>2, <2>4 DEF Holds, Slots
  <2>5. QED
    BY <2>2, <2>3, <2>4 DEF Good
<1>3. QED
  BY <1>1, <1>2

\* Every edit of a session keeps the administrator's lines.
LEMMA EditKeeps ==
  ASSUME Good(cf), NEW a \in Aliases, NEW m \in Modules,
         NEW new \in {AddAlias(cf, a, m), RemoveAlias(cf, a),
                      AddOptions(cf, a, m), RemoveOptions(cf, a),
                      AddLine(cf, OptionsLine(a, m)), RemoveLine(cf, OptionsLine(a, m))}
  PROVE  Good(new) /\ (Holds(cf, UserLines) => Holds(new, UserLines))
<1> DEFINE al == AliasLine(a, m)
           ol == OptionsLine(a, m)
<1>0. /\ al \in Lines /\ ~al.cont /\ al \notin UserLines
      /\ ol \in Lines /\ ~ol.cont /\ ol \notin UserLines
  BY NewLines
<1> HIDE DEF al, ol
<1>1. ASSUME NEW lines, Good(lines), NEW line \in {al, ol}
      PROVE  /\ Good(AddLine(lines, line))
             /\ Holds(lines, UserLines) => Holds(AddLine(lines, line), UserLines)
  BY <1>0, <1>1, RemoveKeeps, FillKeeps DEF AddLine
<1>2. /\ Good(RemoveAlias(cf, a)) /\ Good(RemoveOptions(cf, a)) /\ Good(RemoveLine(cf, ol))
      /\ Holds(cf, UserLines) => /\ Holds(RemoveAlias(cf, a), UserLines)
                                 /\ Holds(RemoveOptions(cf, a), UserLines)
                                 /\ Holds(RemoveLine(cf, ol), UserLines)
  BY <1>0, RemoveKeeps
<1>3. AddAlias(cf, a, m) = AddLine(RemoveAlias(cf, a), al)
  BY DEF AddAlias, al
<1>4. AddOptions(cf, a, m) = AddLine(RemoveOptions(cf, a), ol)
  BY DEF AddOptions, ol
<1>5. new \in {AddLine(RemoveAlias(cf, a), al), RemoveAlias(cf, a),
               AddLine(RemoveOptions(cf, a), ol), RemoveOptions(cf, a),
               AddLine(cf, ol), RemoveLine(cf, ol)}
  BY <1>3, <1>4 DEF ol
<1>6. QED
  BY <1>1, <1>2, <1>5

\* Without a continued line there is nothing to join.
LEMMA JoinPlain ==
  ASSUME NEW lines \in Seq(Lines), Plain(lines)
  PROVE  JoinContinued(lines) = lines
<1> DEFINE T(t) == [x \in 0..Len(lines) |-> x > 1 /\ lines[x - 1].cont /\ ~t[x - 1]]
           taken == CHOOSE t : t = T(t)
<1>0. \A x \in 1..Len(lines) : lines[x] \in Lines /\ ~lines[x].cont
  BY DEF Plain
<1>1. \A t : T(t) = [x \in 0..Len(lines) |-> FALSE]
  <2> SUFFICES ASSUME NEW t, NEW x \in 0..Len(lines)
               PROVE  (x > 1 /\ lines[x - 1].cont /\ ~t[x - 1]) = FALSE
    OBVIOUS
  <2>1. CASE x > 1
    <3>1. ~lines[x - 1].cont
      BY <1>0, <2>1
    <3>2. QED
      BY <3>1
  <2>2. CASE ~(x > 1)
    BY <2>2
  <2>3. QED
    BY <2>1, <2>2
<1>2. taken = [x \in 0..Len(lines) |-> FALSE]
  BY <1>1
<1>3. JoinContinued(lines) =
        [x \in DOMAIN lines |->
           IF taken[x] THEN NIL
           ELSE IF lines[x].cont /\ x < Len(lines) THEN Join(lines[x], lines[x + 1])
           ELSE lines[x]]
  BY DEF JoinContinued
<1> HIDE DEF taken, T
<1>4. QED
  BY <1>0, <1>2, <1>3

-----------------------------------------------------------------------------

LEMMA EmptyFile == <<>> \in Seq(Lines) /\ <<>> \in Seq(Lines \cup {NIL}) /\ <<>> # NIL
<1>1. <<>> \in Seq(Lines) /\ <<>> \in Seq(Lines \cup {NIL})
  OBVIOUS
<1>2. QED
  BY <1>1

LEMMA InitIInv == InitConf # NIL /\ NoContinuation /\ Init => IInv
<1> SUFFICES ASSUME InitConf # NIL, NoContinuation, Init PROVE IInv
  OBVIOUS
<1>1. InitConf \in Seq(Lines)
  BY DEF Init
<1>2. Holds(InitConf, UserLines)
  BY <1>1 DEF Holds, UserLines, InitLines
<1>3. TypeOK
  <2>1. conf \in Seq(Lines) /\ bak = NIL /\ cf \in Seq(Lines \cup {NIL})
    BY <1>1, EmptyFile DEF Init
  <2>2. faults \in 0..MaxFaults
    BY DEF Init
  <2>3. QED
    BY <2>1, <2>2 DEF Init, TypeOK
<1>4. Plain(conf) /\ Plain(bak) /\ Plain(cf)
  BY DEF Init, Plain, NoContinuation
<1>5. Placement
  BY <1>2 DEF Init, Placement, Writing
<1>6. QED
  BY <1>3, <1>4, <1>5 DEF IInv, Init

LEMMA StepIInv == IInv /\ [Next]_vars => IInv'
<1> SUFFICES ASSUME IInv, [Next]_vars PROVE IInv'
  OBVIOUS
<1> USE DEF disk, ghosts
<1>0. TypeOK /\ madebak = 0 /\ Placement
  BY DEF IInv
<1>1. CASE StartSession
  BY <1>0, <1>1 DEF StartSession, IInv, TypeOK, Placement, Holds, Writing, Plain
<1>2. CASE EndSession
  BY <1>0, <1>2 DEF EndSession, IInv, TypeOK, Placement, Holds, Writing, Plain
<1>3. CASE OpenConf
  <2>1. TypeOK' /\ madebak' = 0 /\ cf' \in Seq(Lines)
    BY <1>0, <1>3, EmptyFile DEF OpenConf, TypeOK
  <2>2. Plain(conf)' /\ Plain(bak)' /\ Plain(cf)'
    BY <1>3 DEF OpenConf, IInv, Plain
  <2>3. conf = NIL => incomplete
    BY <1>0, <1>3 DEF OpenConf, Placement, Holds, Writing
  <2>4. Placement'
    BY <1>0, <1>3, <2>3 DEF OpenConf, TypeOK, Placement, Holds, Writing, CopiedTo
  <2>5. QED
    BY <1>3, <2>1, <2>2, <2>4 DEF OpenConf, IInv
<1>4. CASE ReadLine
  <2>1. /\ conf \in Seq(Lines) /\ cf \in Seq(Lines) /\ pos \in 1..Len(conf)
        /\ conf' = conf /\ pos' = pos + 1 /\ wpc' = "read" /\ wpc = "read"
    BY <1>0, <1>4 DEF ReadLine, IInv, TypeOK
  <2>2. conf[pos] \in Lines /\ ~conf[pos].cont /\ conf[pos] # NIL
    BY <2>1 DEF IInv, Plain
  <2>3. /\ cf' \in Seq(Lines)
        /\ \A x \in DOMAIN cf : x \in DOMAIN cf' /\ cf'[x] = cf[x]
        /\ \E x \in DOMAIN cf' : cf'[x] = conf[pos]
        /\ \A x \in DOMAIN cf' : x \in DOMAIN cf \/ cf'[x] = conf[pos]
    <3>1. CASE \E x \in DOMAIN cf : cf[x] = conf[pos]
      BY <1>4, <2>1, <3>1 DEF ReadLine
    <3>2. CASE ~\E x \in DOMAIN cf : cf[x] = conf[pos]
      BY <1>4, <2>1, <2>2, <3>2 DEF ReadLine
    <3>3. QED
      BY <3>1, <3>2
  <2>4. TypeOK' /\ madebak' = 0
    BY <1>0, <1>4, <2>1, <2>3 DEF ReadLine, TypeOK
  <2>5. Plain(cf)'
    BY <1>0, <2>2, <2>3 DEF IInv, TypeOK, Plain
  <2>6. Plain(conf)' /\ Plain(bak)'
    BY <1>4 DEF ReadLine, IInv, Plain
  <2>7. CopiedTo(conf, pos, cf)'
    <3> SUFFICES ASSUME NEW x \in DOMAIN conf, x < pos + 1, conf[x] \in UserLines
                 PROVE  \E y \in DOMAIN cf' : cf'[y] = conf[x]
      BY <2>1 DEF CopiedTo
    <3>1. CASE x = pos
      BY <2>3, <3>1
    <3>2. CASE x < pos
      BY <1>0, <2>1, <2>3, <3>2 DEF Placement, CopiedTo
    <3>3. QED
      BY <2>1, <3>1, <3>2
  <2>8. Placement'
    BY <1>0, <1>4, <2>1, <2>7 DEF ReadLine, Placement, Holds, Writing
  <2>9. QED
    BY <1>4, <2>1, <2>3, <2>4, <2>5, <2>6, <2>8 DEF IInv
<1>5. CASE JoinLines
  <2>1. cf \in Seq(Lines) /\ Plain(cf) /\ conf \in Seq(Lines)
    BY <1>0, <1>5 DEF JoinLines, IInv, TypeOK
  <2>2. cf' = cf
    BY <1>5, <2>1, JoinPlain DEF JoinLines
  <2>3. ~incomplete => Holds(cf, UserLines)
    <3> SUFFICES ASSUME ~incomplete, NEW l \in UserLines PROVE \E y \in DOMAIN cf : cf[y] = l
      BY <2>1 DEF Holds
    <3>1. PICK x \in DOMAIN conf : conf[x] = l
      BY <1>0, <1>5 DEF JoinLines, Placement, Writing, Holds
    <3>2. x < pos
      BY <1>0, <1>5, <2>1 DEF JoinLines, TypeOK
    <3>3. QED
      BY <1>0, <1>5, <3>1, <3>2 DEF JoinLines, Placement, CopiedTo
  <2>4. TypeOK' /\ madebak' = 0
    BY <1>0, <1>5, <2>2 DEF JoinLines, TypeOK
  <2>5. Placement'
    BY <1>0, <1>5, <2>2, <2>3 DEF JoinLines, Placement, Holds, Writing
  <2>6. QED
    BY <1>5, <2>2, <2>4, <2>5 DEF JoinLines, IInv, Plain
<1>6. CASE Edit
  <2>1. PICK a \in Aliases, m \in Modules :
          cf' \in {AddAlias(cf, a, m), RemoveAlias(cf, a),
                  AddOptions(cf, a, m), RemoveOptions(cf, a),
                  AddLine(cf, OptionsLine(a, m)), RemoveLine(cf, OptionsLine(a, m))}
    BY <1>6 DEF Edit
  <2>2. Good(cf)
    BY <1>0 DEF IInv, Good, TypeOK, Slots
  <2>3. Good(cf') /\ (Holds(cf, UserLines) => Holds(cf', UserLines))
    BY <2>1, <2>2, EditKeeps
  <2>4. TypeOK' /\ madebak' = 0
    BY <1>0, <1>6, <2>3 DEF Edit, TypeOK, Good, Slots
  <2>5. Placement'
    BY <1>0, <1>6, <2>3 DEF Edit, Placement, Holds, Writing
  <2>6. QED
    BY <1>6, <2>3, <2>4, <2>5 DEF Edit, IInv, Good, Plain
<1>7. CASE Rename
  <2>1. TypeOK' /\ madebak' = 0 /\ conf' = NIL /\ wpc' = "create"
    BY <1>0, <1>7 DEF Rename, TypeOK
  <2>2. Plain(conf)' /\ Plain(bak)' /\ Plain(cf)'
    BY <1>0, <1>7 DEF Rename, IInv, Plain
  <2>3. ~lost' => Holds(bak', UserLines)
    <3>1. CASE conf # NIL
      BY <1>0, <1>7, <3>1 DEF Rename, Placement, Writing
    <3>2. CASE conf = NIL
      BY <1>0, <1>7, <3>2 DEF Rename, Placement, Writing, Holds
    <3>3. QED
      BY <3>1, <3>2
  <2>4. Placement'
    BY <1>0, <1>7, <2>1, <2>3 DEF Rename, Placement, Writing, Holds
  <2>5. QED
    BY <2>1, <2>2, <2>4 DEF IInv
<1>8. CASE Create
  <2>1. TypeOK' /\ madebak' = 0 /\ conf' # NIL
    BY <1>0, <1>8, EmptyFile DEF Create, TypeOK
  <2>2. Plain(conf)' /\ Plain(bak)' /\ Plain(cf)'
    BY <1>8 DEF Create, IInv, Plain
  <2>3. Placement'
    BY <1>0, <1>8 DEF Create, TypeOK, Placement, Writing, Holds, CopiedTo
  <2>4. QED
    BY <1>8, <2>1, <2>2, <2>3 DEF Create, IInv
<1>9. CASE WriteSlot
  <2>1. /\ conf \in Seq(Lines) /\ cf \in Slots /\ pos \in 1..Len(cf)
        /\ cf' = cf /\ pos' = pos + 1 /\ wpc' = "write" /\ wpc = "write"
    BY <1>0, <1>9 DEF WriteSlot, IInv, TypeOK, Slots
  <2>2. /\ conf' \in Seq(Lines)
        /\ \A x \in DOMAIN conf : x \in DOMAIN conf' /\ conf'[x] = conf[x]
        /\ cf[pos] # NIL => \E x \in DOMAIN conf' : conf'[x] = cf[pos]
        /\ \A x \in DOMAIN conf' : x \in DOMAIN conf \/ (cf[pos] # NIL /\ conf'[x] = cf[pos])
    <3>1. CASE cf[pos] = NIL
      BY <1>9, <2>1, <3>1 DEF WriteSlot
    <3>2. CASE cf[pos] # NIL
      <4>1. cf[pos] \in Lines
        BY <2>1, <3>2 DEF Slots
      <4>2. conf' = Append(conf, cf[pos])
        BY <1>9, <3>2 DEF WriteSlot
      <4>3. QED
        BY <2>1, <4>1, <4>2
    <3>3. QED
      BY <3>1, <3>2
  <2>3. TypeOK' /\ madebak' = 0 /\ conf' # NIL
    <3>1. conf' \in Seq(Lines) /\ pos' \in Nat
      BY <2>1, <2>2
    <3>2. conf' # NIL
      BY <3>1
    <3>3. QED
      BY <1>0, <1>9, <2>1, <3>1, <3>2 DEF WriteSlot, TypeOK
  <2>4. Plain(conf)'
    BY <2>1, <2>2, <1>0 DEF IInv, Plain, TypeOK, Slots
  <2>5. Plain(bak)' /\ Plain(cf)'
    BY <1>9 DEF WriteSlot, IInv, Plain
  <2>6. ~incomplete => CopiedTo(cf, pos, conf)'
    <3> SUFFICES ASSUME ~incomplete, NEW x \in DOMAIN cf, x < pos + 1, cf[x] \in UserLines
                 PROVE  \E y \in DOMAIN conf' : conf'[y] = cf[x]
      BY <2>1 DEF CopiedTo
    <3>1. CASE x = pos
      BY <2>2, <3>1, UserLinesAreLines
    <3>2. CASE x < pos
      BY <1>0, <2>1, <2>2, <3>2 DEF Placement, CopiedTo
    <3>3. QED
      BY <2>1, <3>1, <3>2 DEF Slots
  <2>7. Placement'
    BY <1>0, <1>9, <2>1, <2>6 DEF WriteSlot, Placement, Holds, Writing
  <2>8. QED
    BY <2>1, <2>3, <2>4, <2>5, <2>7 DEF IInv
<1>10. CASE FinishWrite
  <2>1. ~incomplete /\ ~unread => Holds(conf, UserLines)
    <3> SUFFICES ASSUME ~incomplete, ~unread, NEW l \in UserLines PROVE \E y \in DOMAIN conf : conf[y] = l
      BY <1>10 DEF FinishWrite, IInv, Holds
    <3>1. PICK x \in DOMAIN cf : cf[x] = l
      BY <1>0, <1>10 DEF FinishWrite, Placement, Holds
    <3>2. x < pos
      BY <1>0, <1>10 DEF FinishWrite, TypeOK
    <3>3. QED
      BY <1>0, <1>10, <3>1, <3>2 DEF FinishWrite, Placement, CopiedTo
  <2>2. TypeOK' /\ madebak' = 0
    BY <1>0, <1>10 DEF FinishWrite, TypeOK
  <2>3. Placement'
    BY <1>0, <1>10, <2>1 DEF FinishWrite, Placement, Holds, Writing
  <2>4. Plain(conf)' /\ Plain(bak)' /\ Plain(cf)'
    BY <1>10 DEF FinishWrite, IInv, Plain
  <2>5. QED
    BY <1>10, <2>2, <2>3, <2>4 DEF FinishWrite, IInv
<1>11. CASE RenameFails
  <2>1. TypeOK' /\ madebak' = 0
    BY <1>0, <1>11, EmptyFile DEF RenameFails, Fault, TypeOK
  <2>2. Placement'
    BY <1>0, <1>11 DEF RenameFails, Placement, Holds, Writing, TypeOK
  <2>3. Plain(conf)' /\ Plain(bak)' /\ Plain(cf)'
    BY <1>11 DEF RenameFails, IInv, Plain
  <2>4. QED
    BY <1>11, <2>1, <2>2, <2>3 DEF RenameFails, IInv
<1>12. CASE CreateFails
  <2>1. TypeOK' /\ madebak' = 0
    BY <1>0, <1>12, EmptyFile DEF CreateFails, Fault, TypeOK
  <2>2. Placement'
    BY <1>0, <1>12 DEF CreateFails, Placement, Holds, Writing, TypeOK
  <2>3. Plain(conf)' /\ Plain(bak)' /\ Plain(cf)'
    BY <1>12 DEF CreateFails, IInv, Plain
  <2>4. QED
    BY <1>12, <2>1, <2>2, <2>3 DEF CreateFails, IInv
<1>13. CASE Crash
  <2>1. TypeOK' /\ madebak' = 0
    BY <1>0, <1>13, EmptyFile DEF Crash, Fault, TypeOK, Writing
  <2>2. Placement'
    BY <1>0, <1>13 DEF Crash, Placement, Holds, Writing, TypeOK
  <2>3. Plain(conf)' /\ Plain(bak)' /\ Plain(cf)'
    BY <1>13 DEF Crash, IInv, Plain
  <2>4. QED
    BY <1>13, <2>1, <2>2, <2>3 DEF Crash, IInv
<1>14. CASE WriteFails
  <2>1. TypeOK' /\ madebak' = 0
    BY <1>0, <1>14 DEF WriteFails, Fault, TypeOK
  <2>2. Placement'
    BY <1>0, <1>14 DEF WriteFails, Placement, Holds, Writing
  <2>3. QED
    BY <1>0, <1>14, <2>1, <2>2 DEF WriteFails, IInv, Plain, TypeOK
<1>15. CASE UNCHANGED vars
  BY <1>0, <1>15 DEF vars, IInv, TypeOK, Placement, Holds, Writing, Plain, CopiedTo
<1>16. CASE ReadFails
  <2>1. TypeOK' /\ madebak' = 0
    BY <1>0, <1>16, EmptyFile DEF ReadFails, Fault, TypeOK
  <2>2. Placement'
    BY <1>0, <1>16 DEF ReadFails, Placement, Holds, Writing, TypeOK
  <2>3. Plain(conf)' /\ Plain(bak)' /\ Plain(cf)'
    BY <1>16 DEF ReadFails, IInv, Plain
  <2>4. QED
    BY <1>16, <2>1, <2>2, <2>3 DEF ReadFails, IInv
<1>17. CASE FreeConf
  <2>1. TypeOK' /\ madebak' = 0
    BY <1>0, <1>17, EmptyFile DEF FreeConf, TypeOK
  <2>2. Placement'
    BY <1>0, <1>17 DEF FreeConf, Placement, Holds, Writing, TypeOK
  <2>3. Plain(conf)' /\ Plain(bak)' /\ Plain(cf)'
    BY <1>17 DEF FreeConf, IInv, Plain
  <2>4. QED
    BY <1>17, <2>1, <2>2, <2>3 DEF FreeConf, IInv
<1>18. QED
  BY <1>1, <1>2, <1>3, <1>4, <1>5, <1>6, <1>7, <1>8, <1>9, <1>10, <1>11, <1>12, <1>13, <1>14, <1>15,
     <1>16, <1>17 DEF Next

LEMMA IInvImplies == IInv => TypeOK /\ UserLinesKept /\ EditsKeepUserLines
BY DEF IInv, Placement, UserLinesKept, EditsKeepUserLines

\* The administrator's lines survive in modprobe.conf or in its backup, as
\* writeConfModules() renames the file before it creates the new one, until
\* an incomplete modprobe.conf is renamed: what a write cut short leaves, or
\* a write after a read that failed, which readConfModules() reports like a
\* file that is not there.
THEOREM ConfFileKeepsUserLines == InitConf # NIL /\ NoContinuation /\ Spec => []UserLinesKept
<1>1. InitConf # NIL /\ NoContinuation /\ Spec => []IInv
  BY InitIInv, StepIInv, PTL DEF Spec
<1>2. QED
  BY <1>1, IInvImplies, PTL

\* No edit removes an administrator's line, and a completed write of a file
\* that was read puts back all of them: they leave modprobe.conf by a write
\* cut short, or by one after a read that failed.
THEOREM EditsKeepTheUserLines == InitConf # NIL /\ NoContinuation /\ Spec => []EditsKeepUserLines
<1>1. InitConf # NIL /\ NoContinuation /\ Spec => []IInv
  BY InitIInv, StepIInv, PTL DEF Spec
<1>2. QED
  BY <1>1, IInvImplies, PTL
-----------------------------------------------------------------------------
(* Loading and reading back.  These hold of continued lines as well, as far *)
(* as they say nothing of what a continuation joins.                        *)

FirstAt(lines, l, x) == lines[x] = l /\ \A y \in 1..(x - 1) : lines[y] # l

\* What the reading loop has loaded of the first n lines: each of them, once,
\* in the order in which they first appear.
Loaded(n, lines, loaded) ==
  /\ \A x \in 1..n : \E y \in DOMAIN loaded : loaded[y] = lines[x]
  /\ \A y \in DOMAIN loaded : \E x \in 1..n : FirstAt(lines, loaded[y], x)
  /\ \A y, z \in DOMAIN loaded, u, v \in DOMAIN lines :
       y < z /\ FirstAt(lines, loaded[y], u) /\ FirstAt(lines, loaded[z], v) => u < v

LoadInv ==
  /\ TypeOK
  /\ wpc = "read" => conf # NIL /\ cf \in Seq(Lines) /\ pos \in 1..(Len(conf) + 1)
                     /\ Loaded(pos - 1, conf, cf)
  /\ wpc = "write" => conf # NIL /\ pos >= 1

NoRepeat(lines) == \A x, y \in DOMAIN lines : lines[x] # NIL /\ lines[x] = lines[y] => x = y

\* What the writing loop has written of the slots before n: their lines, in
\* their order.
Written(n, slots, copy) ==
  /\ \A u \in DOMAIN slots : u < n /\ slots[u] # NIL => \E y \in DOMAIN copy : copy[y] = slots[u]
  /\ \A y \in DOMAIN copy : \E u \in DOMAIN slots : u < n /\ copy[y] = slots[u]
  /\ \A y, z \in DOMAIN copy, u, v \in DOMAIN slots :
       y < z /\ copy[y] = slots[u] /\ copy[z] = slots[v] => u < v

ReadBackInv ==
  /\ LoadInv
  /\ Plain(conf) /\ Plain(cf) /\ NoRepeat(cf)
  /\ wpc = "write" /\ ~incomplete => Written(pos, cf, conf)

LEMMA RemoveHoles ==
  ASSUME NEW lines \in Slots, NEW a, NEW l,
         NEW R \in {RemoveLine(lines, l), RemoveAlias(lines, a), RemoveOptions(lines, a)}
  PROVE  /\ R \in Slots /\ DOMAIN R = 1..Len(lines) /\ DOMAIN lines = 1..Len(lines)
         /\ \A x \in 1..Len(lines) : R[x] = NIL \/ R[x] = lines[x]
         /\ NoRepeat(lines) => NoRepeat(R)
<1>1. /\ R \in Slots /\ DOMAIN R = 1..Len(lines) /\ DOMAIN lines = 1..Len(lines)
      /\ \A x \in 1..Len(lines) : R[x] = NIL \/ R[x] = lines[x]
  BY DEF Slots, RemoveLine, RemoveAlias, RemoveOptions, RemoveWhere
<1>2. QED
  BY <1>1 DEF NoRepeat

LEMMA FillSlots ==
  ASSUME NEW lines \in Slots, NEW line \in Lines, \A x \in DOMAIN lines : lines[x] # line
  PROVE  LET R == FillOrAppend(lines, line, line)
         IN R \in Slots /\ (NoRepeat(lines) => NoRepeat(R))
<1> DEFINE R == FillOrAppend(lines, line, line)
           h == CHOOSE x \in DOMAIN lines : IsFirstHole(lines, x)
<1> SUFFICES R \in Slots /\ (NoRepeat(lines) => NoRepeat(R))
  OBVIOUS
<1>0. DOMAIN lines = 1..Len(lines)
  BY DEF Slots
<1>1. CASE \E x \in DOMAIN lines : IsFirstHole(lines, x)
  <2>1. h \in 1..Len(lines)
    BY <1>0, <1>1 DEF IsFirstHole
  <2>2. R = [lines EXCEPT ![h] = line]
    BY <1>1 DEF FillOrAppend
  <2> HIDE DEF h, R
  <2>3. /\ R \in Slots /\ DOMAIN R = 1..Len(lines)
        /\ \A x \in 1..Len(lines) : R[x] = IF x = h THEN line ELSE lines[x]
    BY <1>0, <2>1, <2>2 DEF Slots
  <2>4. ASSUME NoRepeat(lines) PROVE NoRepeat(R)
    BY <1>0, <2>1, <2>3, <2>4 DEF NoRepeat
  <2>5. QED
    BY <2>3, <2>4
<1>2. CASE ~\E x \in DOMAIN lines : IsFirstHole(lines, x)
  <2>1. R = Append(lines, line)
    BY <1>2 DEF FillOrAppend
  <2> HIDE DEF R
  <2>2. /\ R \in Slots /\ DOMAIN R = 1..(Len(lines) + 1)
        /\ \A x \in 1..Len(lines) : R[x] = lines[x]
        /\ R[Len(lines) + 1] = line
    BY <2>1 DEF Slots
  <2>3. Len(lines) \in Nat
    BY DEF Slots
  <2>4. ASSUME NoRepeat(lines) PROVE NoRepeat(R)
    <3> SUFFICES ASSUME NEW x \in DOMAIN R, NEW y \in DOMAIN R, R[x] # NIL, R[x] = R[y]
                 PROVE  x = y
      BY DEF NoRepeat
    <3>1. CASE x \in 1..Len(lines) /\ y \in 1..Len(lines)
      BY <1>0, <2>2, <2>4, <3>1 DEF NoRepeat
    <3>2. CASE ~(x \in 1..Len(lines) /\ y \in 1..Len(lines))
      BY <1>0, <2>2, <2>3, <3>2
    <3>3. QED
      BY <3>1, <3>2
  <2>5. QED
    BY <2>2, <2>4
<1>3. QED
  BY <1>1, <1>2

\* Every edit leaves lines and holes, and no line twice.
LEMMA EditSlots ==
  ASSUME cf \in Slots, NEW a \in Aliases, NEW m \in Modules,
         NEW new \in {AddAlias(cf, a, m), RemoveAlias(cf, a),
                      AddOptions(cf, a, m), RemoveOptions(cf, a),
                      AddLine(cf, OptionsLine(a, m)), RemoveLine(cf, OptionsLine(a, m))}
  PROVE  new \in Slots /\ (NoRepeat(cf) => NoRepeat(new))
<1> DEFINE al == AliasLine(a, m)
           ol == OptionsLine(a, m)
<1>0. al \in Lines /\ ol \in Lines
  BY NewLines
<1> HIDE DEF al, ol
<1>1. ASSUME NEW lines \in Slots, NEW line \in {al, ol}
      PROVE  AddLine(lines, line) \in Slots /\ (NoRepeat(lines) => NoRepeat(AddLine(lines, line)))
  <2> DEFINE R == RemoveLine(lines, line)
  <2>1. R \in Slots /\ (NoRepeat(lines) => NoRepeat(R))
    BY RemoveHoles
  <2>2. \A x \in DOMAIN R : R[x] # line
    BY <1>0 DEF RemoveLine, RemoveWhere
  <2>3. AddLine(lines, line) = FillOrAppend(R, line, line)
    BY DEF AddLine
  <2> HIDE DEF R
  <2>4. QED
    BY <1>0, <2>1, <2>2, <2>3, FillSlots
<1>2. /\ RemoveAlias(cf, a) \in Slots /\ (NoRepeat(cf) => NoRepeat(RemoveAlias(cf, a)))
      /\ RemoveOptions(cf, a) \in Slots /\ (NoRepeat(cf) => NoRepeat(RemoveOptions(cf, a)))
      /\ RemoveLine(cf, ol) \in Slots /\ (NoRepeat(cf) => NoRepeat(RemoveLine(cf, ol)))
  BY RemoveHoles
<1>3. AddAlias(cf, a, m) = AddLine(RemoveAlias(cf, a), al)
  BY DEF AddAlias, al
<1>4. AddOptions(cf, a, m) = AddLine(RemoveOptions(cf, a), ol)
  BY DEF AddOptions, ol
<1>5. new \in {AddLine(RemoveAlias(cf, a), al), RemoveAlias(cf, a),
               AddLine(RemoveOptions(cf, a), ol), RemoveOptions(cf, a),
               AddLine(cf, ol), RemoveLine(cf, ol)}
  BY <1>3, <1>4 DEF ol
<1>6. QED
  BY <1>1, <1>2, <1>5

\* A continued line and the one it takes in make one line.
LEMMA JoinSlots ==
  ASSUME NEW lines \in Seq(Lines)
  PROVE  JoinContinued(lines) \in Slots
<1> DEFINE Texts == [kind : Kinds, name : Names, val : Vals]
<1>1. ASSUME NEW l \in Lines, NEW m \in Lines
      PROVE  Join(l, m) \in Lines
  <2> DEFINE text == [kind |-> m.kind, name |-> m.name, val |-> m.val]
             tail == l.tail \o <<text>> \o m.tail
  <2>1. l.tail \in Seq(Texts) /\ m.tail \in Seq(Texts) /\ text \in Texts /\ m.cont \in BOOLEAN
    BY DEF Lines
  <2>2. tail \in Seq(Texts)
    BY <2>1
  <2>3. Join(l, m) = [l EXCEPT !.cont = m.cont, !.tail = tail]
    BY DEF Join
  <2> HIDE DEF tail, text
  <2>4. QED
    BY <2>1, <2>2, <2>3 DEF Lines
<1> DEFINE taken[x \in 0..Len(lines)] == x > 1 /\ lines[x - 1].cont /\ ~taken[x - 1]
           Slot(x) == IF taken[x] THEN NIL
                      ELSE IF lines[x].cont /\ x < Len(lines) THEN Join(lines[x], lines[x + 1])
                      ELSE lines[x]
<1>2. JoinContinued(lines) = [x \in DOMAIN lines |-> Slot(x)]
  BY DEF JoinContinued
<1> HIDE DEF taken
<1>3. ASSUME NEW x \in 1..Len(lines)
      PROVE  Slot(x) \in Lines \cup {NIL}
  <2>1. lines[x] \in Lines /\ (x < Len(lines) => lines[x + 1] \in Lines)
    OBVIOUS
  <2>2. QED
    BY <1>1, <2>1
<1> HIDE DEF Slot
<1>4. QED
  BY <1>2, <1>3 DEF Slots

LEMMA InitLoadInv == Init => LoadInv
<1> SUFFICES ASSUME Init PROVE LoadInv
  OBVIOUS
<1>1. TypeOK
  <2>1. conf = NIL \/ conf \in Seq(Lines)
    BY DEF Init
  <2>2. faults \in 0..MaxFaults
    BY DEF Init
  <2>3. QED
    BY <2>1, <2>2, EmptyFile DEF Init, TypeOK
<1>2. QED
  BY <1>1 DEF Init, LoadInv

LEMMA StepLoadInv == LoadInv /\ [Next]_vars => LoadInv'
<1> SUFFICES ASSUME LoadInv, [Next]_vars PROVE LoadInv'
  OBVIOUS
<1> USE DEF disk, ghosts
<1>0. TypeOK
  BY DEF LoadInv
<1>1. CASE StartSession
  BY <1>0, <1>1 DEF StartSession, LoadInv, TypeOK
<1>2. CASE EndSession
  BY <1>0, <1>2 DEF EndSession, LoadInv, TypeOK
<1>3. CASE OpenConf
  <2>1. TypeOK' /\ cf' = <<>> /\ cf' \in Seq(Lines) /\ DOMAIN cf' = {}
    <3>1. TypeOK' /\ cf' = <<>> /\ cf' \in Seq(Lines)
      BY <1>0, <1>3, EmptyFile DEF OpenConf, TypeOK
    <3>2. QED
      BY <3>1
  <2>2. wpc' = "read" => conf' # NIL /\ pos' = 1 /\ pos' \in 1..(Len(conf') + 1)
    BY <1>0, <1>3 DEF OpenConf, TypeOK
  <2>3. Loaded(0, conf, cf')
    BY <2>1 DEF Loaded
  <2>4. QED
    BY <1>3, <2>1, <2>2, <2>3 DEF OpenConf, LoadInv, TypeOK
<1>4. CASE ReadLine
  <2>1. /\ conf \in Seq(Lines) /\ cf \in Seq(Lines) /\ pos \in 1..Len(conf)
        /\ conf' = conf /\ pos' = pos + 1 /\ wpc' = "read" /\ wpc = "read"
        /\ Loaded(pos - 1, conf, cf)
        /\ conf # NIL
    BY <1>0, <1>4 DEF ReadLine, LoadInv, TypeOK
  <2>2. DOMAIN conf = 1..Len(conf) /\ DOMAIN cf = 1..Len(cf) /\ Len(cf) \in Nat /\ conf[pos] \in Lines
    BY <2>1
  <2>3. CASE \E x \in DOMAIN cf : cf[x] = conf[pos]
    <3>1. cf' = cf
      BY <1>4, <2>3 DEF ReadLine
    <3>2. \A x \in 1..pos : \E y \in DOMAIN cf : cf[y] = conf[x]
      <4> SUFFICES ASSUME NEW x \in 1..pos PROVE \E y \in DOMAIN cf : cf[y] = conf[x]
        OBVIOUS
      <4>1. CASE x = pos
        BY <2>3, <4>1
      <4>2. CASE x \in 1..(pos - 1)
        BY <2>1, <4>2 DEF Loaded
      <4>3. QED
        BY <2>1, <4>1, <4>2
    <3>3. \A y \in DOMAIN cf : \E x \in 1..pos : FirstAt(conf, cf[y], x)
      <4>1. 1..(pos - 1) \subseteq 1..pos
        BY <2>1
      <4>2. QED
        BY <2>1, <4>1 DEF Loaded
    <3>4. pos' - 1 = pos
      BY <2>1
    <3>5. Loaded(pos, conf, cf')
      BY <2>1, <3>1, <3>2, <3>3 DEF Loaded
    <3>6. QED
      BY <1>0, <1>4, <2>1, <3>1, <3>4, <3>5 DEF ReadLine, LoadInv, TypeOK
  <2>4. CASE ~\E x \in DOMAIN cf : cf[x] = conf[pos]
    <3>1. cf' = Append(cf, conf[pos])
      BY <1>4, <2>4 DEF ReadLine
    <3>2. /\ cf' \in Seq(Lines) /\ DOMAIN cf' = 1..(Len(cf) + 1)
          /\ \A x \in 1..Len(cf) : cf'[x] = cf[x]
          /\ cf'[Len(cf) + 1] = conf[pos]
      BY <2>1, <2>2, <3>1
    <3>3. FirstAt(conf, conf[pos], pos)
      BY <2>1, <2>2, <2>4 DEF FirstAt, Loaded
    <3>4. \A x \in 1..pos : \E y \in DOMAIN cf' : cf'[y] = conf[x]
      <4> SUFFICES ASSUME NEW x \in 1..pos PROVE \E y \in DOMAIN cf' : cf'[y] = conf[x]
        OBVIOUS
      <4>1. CASE x = pos
        BY <2>2, <3>2, <4>1
      <4>2. CASE x \in 1..(pos - 1)
        BY <2>1, <2>2, <3>2, <4>2 DEF Loaded
      <4>3. QED
        BY <2>1, <4>1, <4>2
    <3>5. \A y \in DOMAIN cf' : \E x \in 1..pos : FirstAt(conf, cf'[y], x)
      <4> SUFFICES ASSUME NEW y \in DOMAIN cf' PROVE \E x \in 1..pos : FirstAt(conf, cf'[y], x)
        OBVIOUS
      <4>1. CASE y = Len(cf) + 1
        BY <2>1, <3>2, <3>3, <4>1
      <4>2. CASE y \in 1..Len(cf)
        <5>1. PICK x \in 1..(pos - 1) : FirstAt(conf, cf[y], x)
          BY <2>1, <2>2, <4>2 DEF Loaded
        <5>2. x \in 1..pos /\ cf'[y] = cf[y]
          BY <2>1, <3>2, <4>2
        <5>3. QED
          BY <5>1, <5>2
      <4>3. QED
        BY <2>2, <3>2, <4>1, <4>2
    <3>6. ASSUME NEW y \in DOMAIN cf', NEW z \in DOMAIN cf', NEW u \in DOMAIN conf, NEW v \in DOMAIN conf,
                 y < z, FirstAt(conf, cf'[y], u), FirstAt(conf, cf'[z], v)
          PROVE  u < v
      <4>1. y \in 1..Len(cf) /\ cf'[y] = cf[y] /\ u \in Nat /\ v \in Nat
        BY <2>2, <3>2, <3>6
      <4>2. CASE z \in 1..Len(cf)
        BY <2>1, <2>2, <3>2, <3>6, <4>1, <4>2 DEF Loaded
      <4>3. CASE z = Len(cf) + 1
        <5>1. PICK x \in 1..(pos - 1) : FirstAt(conf, cf[y], x)
          BY <2>1, <2>2, <4>1 DEF Loaded
        <5>2. conf[x] = cf[y] /\ x < pos /\ x \in 1..Len(conf)
          BY <2>1, <5>1 DEF FirstAt
        <5>3. u <= x
          <6>1. ~(x \in 1..(u - 1))
            BY <3>6, <4>1, <5>2 DEF FirstAt
          <6>2. QED
            BY <4>1, <5>2, <6>1
        <5>4. conf[v] = conf[pos] /\ \A w \in 1..(pos - 1) : conf[w] # conf[pos]
          BY <3>2, <3>3, <3>6, <4>3 DEF FirstAt
        <5>5. v >= pos
          BY <2>1, <2>2, <4>1, <5>4
        <5>6. QED
          BY <2>1, <4>1, <5>2, <5>3, <5>5
      <4>4. QED
        BY <2>2, <3>2, <4>2, <4>3
    <3>7. pos' - 1 = pos
      BY <2>1
    <3>8. Loaded(pos, conf, cf')
      BY <3>4, <3>5, <3>6 DEF Loaded
    <3>9. QED
      BY <1>0, <1>4, <2>1, <3>2, <3>7, <3>8 DEF ReadLine, LoadInv, TypeOK
  <2>5. QED
    BY <2>3, <2>4
<1>5. CASE JoinLines
  <2>1. cf' \in Slots
    BY <1>5, JoinSlots DEF JoinLines, LoadInv
  <2>2. QED
    BY <1>0, <1>5, <2>1 DEF JoinLines, LoadInv, TypeOK, Slots
<1>6. CASE Edit
  <2>1. PICK a \in Aliases, m \in Modules :
          cf' \in {AddAlias(cf, a, m), RemoveAlias(cf, a),
                  AddOptions(cf, a, m), RemoveOptions(cf, a),
                  AddLine(cf, OptionsLine(a, m)), RemoveLine(cf, OptionsLine(a, m))}
    BY <1>6 DEF Edit
  <2>2. cf' \in Slots
    BY <1>0, <2>1, EditSlots DEF TypeOK, Slots
  <2>3. QED
    BY <1>0, <1>6, <2>2 DEF Edit, LoadInv, TypeOK, Slots
<1>7. CASE Rename
  BY <1>0, <1>7 DEF Rename, LoadInv, TypeOK
<1>8. CASE Create
  BY <1>0, <1>8, EmptyFile DEF Create, LoadInv, TypeOK
<1>9. CASE WriteSlot
  <2>1. conf \in Seq(Lines) /\ cf \in Slots /\ pos \in 1..Len(cf) /\ wpc = "write"
    BY <1>0, <1>9 DEF WriteSlot, LoadInv, TypeOK, Slots
  <2>2. cf[pos] \in Lines \cup {NIL}
    BY <2>1 DEF Slots
  <2>3. conf' \in Seq(Lines)
    BY <1>9, <2>1, <2>2 DEF WriteSlot
  <2>4. QED
    BY <1>0, <1>9, <2>1, <2>3 DEF WriteSlot, LoadInv, TypeOK
<1>10. CASE FinishWrite
  BY <1>0, <1>10, EmptyFile DEF FinishWrite, LoadInv, TypeOK
<1>11. CASE RenameFails
  BY <1>0, <1>11, EmptyFile DEF RenameFails, Fault, LoadInv, TypeOK
<1>12. CASE CreateFails
  BY <1>0, <1>12, EmptyFile DEF CreateFails, Fault, LoadInv, TypeOK
<1>13. CASE WriteFails
  BY <1>0, <1>13 DEF WriteFails, Fault, LoadInv, TypeOK
<1>14. CASE Crash
  BY <1>0, <1>14, EmptyFile DEF Crash, Fault, Writing, LoadInv, TypeOK
<1>15. CASE UNCHANGED vars
  BY <1>0, <1>15 DEF vars, LoadInv, TypeOK
<1>16. CASE ReadFails
  BY <1>0, <1>16, EmptyFile DEF ReadFails, Fault, LoadInv, TypeOK
<1>17. CASE FreeConf
  BY <1>0, <1>17, EmptyFile DEF FreeConf, LoadInv, TypeOK
<1>18. QED
  BY <1>1, <1>2, <1>3, <1>4, <1>5, <1>6, <1>7, <1>8, <1>9, <1>10, <1>11, <1>12, <1>13, <1>14, <1>15,
     <1>16, <1>17 DEF Next

LEMMA LoadInvImplies == LoadInv => LoadsEachLineOnce
<1> SUFFICES ASSUME LoadInv, wpc = "read", pos > Len(conf)
             PROVE  LoadsEachLineOnce
  BY DEF LoadsEachLineOnce
<1> DEFINE First(l) == CHOOSE x \in DOMAIN conf : conf[x] = l /\ \A y \in 1..(x - 1) : conf[y] # l
<1>1. /\ conf \in Seq(Lines) /\ cf \in Seq(Lines) /\ pos - 1 = Len(conf)
      /\ Loaded(pos - 1, conf, cf)
  BY DEF LoadInv, TypeOK
<1>2. DOMAIN conf = 1..(pos - 1)
  BY <1>1
<1>3. {cf[x] : x \in DOMAIN cf} = {conf[x] : x \in DOMAIN conf}
  <2>1. \A x \in DOMAIN cf : \E y \in DOMAIN conf : conf[y] = cf[x]
    BY <1>1, <1>2 DEF Loaded, FirstAt
  <2>2. \A x \in DOMAIN conf : \E y \in DOMAIN cf : cf[y] = conf[x]
    BY <1>1, <1>2 DEF Loaded
  <2>3. QED
    BY <2>1, <2>2
<1>4. \A x \in DOMAIN cf : First(cf[x]) \in DOMAIN conf /\ FirstAt(conf, cf[x], First(cf[x]))
  BY <1>1, <1>2 DEF Loaded, FirstAt
<1> HIDE DEF First
<1>5. \A x, y \in DOMAIN cf : x < y => First(cf[x]) < First(cf[y])
  BY <1>1, <1>4 DEF Loaded
<1>6. QED
  BY <1>3, <1>5 DEF LoadsEachLineOnce, First

\* Lines of which no two are equal are loaded as they are.
LEMMA ToArraySame ==
  ASSUME NEW lines \in Seq(Lines), NoRepeat(lines)
  PROVE  ToArray(lines) = lines
<1> DEFINE upTo(n) == SubSeq(lines, 1, n)
           Kept(g) == [n \in 0..Len(lines) |->
                         IF n = 0 THEN <<>>
                         ELSE LET k == g[n - 1]
                              IN IF \E i \in DOMAIN k : k[i] = lines[n] THEN k
                                 ELSE Append(k, lines[n])]
           f == [n \in 0..Len(lines) |-> upTo(n)]
           kept == CHOOSE g : g = Kept(g)
<1>1. upTo(0) = <<>> /\ upTo(Len(lines)) = lines /\ Len(lines) \in Nat
  BY SubSeqProperties
<1>2. ASSUME NEW n \in 1..Len(lines)
      PROVE  /\ Append(upTo(n - 1), lines[n]) = upTo(n)
             /\ ~\E i \in DOMAIN upTo(n - 1) : upTo(n - 1)[i] = lines[n]
  <2>1. /\ upTo(n - 1) \in Seq(Lines) /\ Len(upTo(n - 1)) = n - 1
        /\ \A i \in 1..(n - 1) : upTo(n - 1)[i] = lines[i]
        /\ upTo(n) \in Seq(Lines) /\ Len(upTo(n)) = n
        /\ \A i \in 1..n : upTo(n)[i] = lines[i]
    BY SubSeqProperties
  <2> HIDE DEF upTo
  <2>2. lines[n] # NIL /\ lines[n] \in Lines /\ DOMAIN upTo(n - 1) = 1..(n - 1)
    BY <2>1
  <2>3. Append(upTo(n - 1), lines[n]) = upTo(n)
    <3> DEFINE longer == Append(upTo(n - 1), lines[n])
    <3>1. longer \in Seq(Lines) /\ Len(longer) = n
      BY <2>1, <2>2, AppendProperties
    <3>2. \A i \in 1..n : longer[i] = lines[i]
      BY <2>1, <2>2
    <3> HIDE DEF longer
    <3>3. longer = upTo(n)
      BY <2>1, <3>1, <3>2, SeqEqual
    <3>4. QED
      BY <3>3 DEF longer
  <2>4. ASSUME NEW i \in 1..(n - 1)
        PROVE  lines[i] # lines[n]
    <3>1. i \in DOMAIN lines /\ n \in DOMAIN lines /\ i # n
      OBVIOUS
    <3>2. QED
      BY <2>2, <3>1 DEF NoRepeat
  <2>5. QED
    BY <2>1, <2>2, <2>3, <2>4
<1> HIDE DEF upTo
<1>3. f = Kept(f)
  <2>1. ASSUME NEW n \in 0..Len(lines)
        PROVE  f[n] = Kept(f)[n]
    <3>1. CASE n = 0
      BY <1>1, <3>1
    <3>2. CASE n \in 1..Len(lines)
      <4>1. f[n - 1] = upTo(n - 1) /\ f[n] = upTo(n) /\ n # 0
        BY <3>2
      <4> HIDE DEF f
      <4>2. Kept(f)[n] = IF \E i \in DOMAIN f[n - 1] : f[n - 1][i] = lines[n] THEN f[n - 1]
                         ELSE Append(f[n - 1], lines[n])
        BY <3>2, <4>1
      <4>3. QED
        BY <1>2, <3>2, <4>1, <4>2
    <3>3. n = 0 \/ n \in 1..Len(lines)
      BY <1>1
    <3> HIDE DEF f, Kept
    <3>4. QED
      BY <3>1, <3>2, <3>3
  <2>2. QED
    BY <2>1
<1>4. kept = Kept(kept)
  BY <1>3
<1> DEFINE S == {n \in Nat : n <= Len(lines) => kept[n] = upTo(n)}
<1> HIDE DEF kept
<1>5. 0 \in S
  BY <1>1, <1>4
<1>6. ASSUME NEW n \in Nat, n \in S
      PROVE  n + 1 \in S
  <2> SUFFICES ASSUME n + 1 <= Len(lines)
               PROVE  kept[n + 1] = upTo(n + 1)
    OBVIOUS
  <2>1. n + 1 \in 1..Len(lines) /\ n + 1 # 0 /\ (n + 1) - 1 = n /\ kept[n] = upTo(n)
    BY <1>1, <1>6
  <2>2. kept[n + 1] = IF \E i \in DOMAIN kept[n] : kept[n][i] = lines[n + 1] THEN kept[n]
                      ELSE Append(kept[n], lines[n + 1])
    <3>1. n + 1 \in 0..Len(lines)
      BY <2>1
    <3>2. kept[n + 1] = Kept(kept)[n + 1]
      BY <1>4
    <3>3. QED
      BY <2>1, <3>1, <3>2
  <2>3. QED
    BY <1>2, <2>1, <2>2
<1> HIDE DEF S
<1>7. Len(lines) \in S
  BY <1>1, <1>5, <1>6, ReachedFromZero
<1>8. ToArray(lines) = kept[Len(lines)]
  BY DEF ToArray, kept
<1>9. QED
  BY <1>1, <1>7, <1>8 DEF S

\* The alias of a name is that of its last line, holes or no holes.
LEMMA SameAliases ==
  ASSUME NEW slots \in Slots, NEW copy \in Seq(Lines), Written(Len(slots) + 1, slots, copy), NEW a
  PROVE  GetAlias(copy, a) = GetAlias(slots, a)
<1> DEFINE Hits(lines) == {x \in DOMAIN lines : lines[x] # NIL /\ lines[x].kind = "alias"
                                                              /\ lines[x].name = a}
           Last(lines) == CHOOSE x \in Hits(lines) : \A y \in Hits(lines) : y <= x
<1>0. /\ DOMAIN slots = 1..Len(slots) /\ DOMAIN copy = 1..Len(copy)
      /\ Len(slots) \in Nat /\ Len(copy) \in Nat
      /\ \A y \in DOMAIN copy : copy[y] # NIL
      /\ \A u \in DOMAIN slots : u < Len(slots) + 1
  BY DEF Slots
<1>1. \A lines \in {slots, copy} : Hits(lines) # {} =>
        Last(lines) \in Hits(lines) /\ \A y \in Hits(lines) : y <= Last(lines)
  <2> SUFFICES ASSUME NEW lines \in {slots, copy}, Hits(lines) # {}
               PROVE  \E x \in Hits(lines) : \A y \in Hits(lines) : y <= x
    OBVIOUS
  <2>1. Hits(lines) \subseteq 0..Len(lines) /\ Len(lines) \in Nat
    BY <1>0
  <2> HIDE DEF Hits
  <2>2. QED
    BY <2>1, LastPlace
<1>2. \A u \in Hits(slots) : \E y \in Hits(copy) : copy[y] = slots[u]
  BY <1>0 DEF Written
<1>3. \A y \in Hits(copy) : \E u \in Hits(slots) : copy[y] = slots[u]
  BY <1>0 DEF Written
<1>4. Hits(slots) # {} /\ Hits(copy) # {} => copy[Last(copy)] = slots[Last(slots)]
  <2> SUFFICES ASSUME Hits(slots) # {}, Hits(copy) # {}
               PROVE  copy[Last(copy)] = slots[Last(slots)]
    OBVIOUS
  <2>1. PICK y \in Hits(copy) : copy[y] = slots[Last(slots)]
    BY <1>1, <1>2
  <2>2. PICK u \in Hits(slots) : copy[Last(copy)] = slots[u]
    BY <1>1, <1>3
  <2>3. /\ y \in DOMAIN copy /\ Last(copy) \in DOMAIN copy /\ y <= Last(copy)
        /\ u \in DOMAIN slots /\ Last(slots) \in DOMAIN slots /\ u <= Last(slots)
    BY <1>1, <2>1, <2>2
  <2> HIDE DEF Hits, Last
  <2>4. ASSUME y < Last(copy)
        PROVE  FALSE
    <3>1. Last(slots) < u
      BY <2>1, <2>2, <2>3, <2>4 DEF Written
    <3>2. QED
      BY <1>0, <2>3, <3>1
  <2>5. y = Last(copy)
    BY <1>0, <2>3, <2>4
  <2>6. QED
    BY <2>1, <2>5
<1>5. \A lines : GetAlias(lines, a) = IF Hits(lines) = {} THEN NIL ELSE AliasText(lines[Last(lines)])
  BY DEF GetAlias
<1> HIDE DEF Hits, Last
<1>6. Hits(slots) = {} <=> Hits(copy) = {}
  BY <1>2, <1>3
<1>7. QED
  BY <1>4, <1>5, <1>6

LEMMA InitReadBackInv == NoContinuation /\ Init => ReadBackInv
<1> SUFFICES ASSUME NoContinuation, Init PROVE ReadBackInv
  OBVIOUS
<1>1. Plain(conf) /\ Plain(cf) /\ NoRepeat(cf)
  BY DEF Init, NoContinuation, Plain, NoRepeat
<1>2. QED
  BY <1>1, InitLoadInv DEF Init, ReadBackInv

LEMMA StepReadBackInv == ReadBackInv /\ [Next]_vars => ReadBackInv'
<1> SUFFICES ASSUME ReadBackInv, [Next]_vars PROVE ReadBackInv'
  OBVIOUS
<1> USE DEF disk, ghosts
<1>0. LoadInv /\ TypeOK /\ LoadInv' /\ Plain(conf) /\ Plain(cf) /\ NoRepeat(cf)
  BY StepLoadInv DEF ReadBackInv, LoadInv
<1>e. Plain(<<>>) /\ NoRepeat(<<>>) /\ Plain(NIL)
  BY DEF Plain, NoRepeat
<1>1. CASE StartSession
  BY <1>0, <1>1 DEF StartSession, ReadBackInv
<1>2. CASE EndSession
  BY <1>0, <1>2 DEF EndSession, ReadBackInv
<1>3. CASE OpenConf
  BY <1>0, <1>3, <1>e DEF OpenConf, ReadBackInv
<1>4. CASE ReadLine
  <2>1. /\ conf \in Seq(Lines) /\ cf \in Seq(Lines) /\ pos \in 1..Len(conf)
        /\ conf' = conf /\ wpc' = "read" /\ conf # NIL
    BY <1>0, <1>4 DEF ReadLine, LoadInv, TypeOK
  <2>2. conf[pos] \in Lines /\ ~conf[pos].cont
    BY <1>0, <2>1 DEF Plain
  <2>3. Plain(cf') /\ NoRepeat(cf')
    <3>1. CASE \E x \in DOMAIN cf : cf[x] = conf[pos]
      BY <1>0, <1>4, <3>1 DEF ReadLine
    <3>2. CASE ~\E x \in DOMAIN cf : cf[x] = conf[pos]
      <4>1. cf' = Append(cf, conf[pos])
        BY <1>4, <3>2 DEF ReadLine
      <4>2. /\ DOMAIN cf' = 1..(Len(cf) + 1) /\ DOMAIN cf = 1..Len(cf) /\ Len(cf) \in Nat
            /\ \A x \in 1..Len(cf) : cf'[x] = cf[x]
            /\ cf'[Len(cf) + 1] = conf[pos]
        BY <2>1, <2>2, <4>1
      <4>3. Plain(cf')
        BY <1>0, <2>1, <2>2, <4>2 DEF Plain
      <4>4. NoRepeat(cf')
        <5> SUFFICES ASSUME NEW x \in DOMAIN cf', NEW y \in DOMAIN cf', cf'[x] # NIL, cf'[x] = cf'[y]
                     PROVE  x = y
          BY DEF NoRepeat
        <5>1. CASE x \in 1..Len(cf) /\ y \in 1..Len(cf)
          BY <1>0, <4>2, <5>1 DEF NoRepeat
        <5>2. CASE ~(x \in 1..Len(cf) /\ y \in 1..Len(cf))
          BY <3>2, <4>2, <5>2
        <5>3. QED
          BY <5>1, <5>2
      <4>5. QED
        BY <4>3, <4>4
    <3>3. QED
      BY <3>1, <3>2
  <2>4. QED
    BY <1>0, <2>1, <2>3 DEF ReadBackInv
<1>5. CASE JoinLines
  <2>1. cf' = cf
    BY <1>0, <1>5, JoinPlain DEF JoinLines, LoadInv
  <2>2. QED
    BY <1>0, <1>5, <2>1 DEF JoinLines, ReadBackInv
<1>6. CASE Edit
  <2>1. PICK a \in Aliases, m \in Modules :
          cf' \in {AddAlias(cf, a, m), RemoveAlias(cf, a),
                  AddOptions(cf, a, m), RemoveOptions(cf, a),
                  AddLine(cf, OptionsLine(a, m)), RemoveLine(cf, OptionsLine(a, m))}
    BY <1>6 DEF Edit
  <2>2. cf \in Slots /\ Good(cf)
    BY <1>0 DEF Good, TypeOK, Slots
  <2>3. Good(cf') /\ NoRepeat(cf')
    BY <1>0, <2>1, <2>2, EditKeeps, EditSlots
  <2>4. QED
    BY <1>0, <1>6, <2>3 DEF Edit, Good, ReadBackInv
<1>7. CASE Rename
  BY <1>0, <1>7, <1>e DEF Rename, ReadBackInv
<1>8. CASE Create
  <2>1. conf' = <<>> /\ pos' = 1 /\ cf' = cf /\ cf \in Slots
    BY <1>0, <1>8 DEF Create, TypeOK, Slots
  <2>2. Written(1, cf, <<>>)
    <3>1. DOMAIN cf = 1..Len(cf) /\ \A u \in DOMAIN cf : ~(u < 1)
      BY <2>1 DEF Slots
    <3>2. QED
      BY <3>1 DEF Written
  <2>3. QED
    BY <1>0, <1>e, <2>1, <2>2 DEF ReadBackInv
<1>9. CASE WriteSlot
  <2>1. /\ conf \in Seq(Lines) /\ cf \in Slots /\ pos \in 1..Len(cf) /\ conf # NIL
        /\ cf' = cf /\ pos' = pos + 1 /\ wpc' = "write" /\ wpc = "write" /\ incomplete' = incomplete
    BY <1>0, <1>9 DEF WriteSlot, LoadInv, TypeOK, Slots
  <2>2. DOMAIN cf = 1..Len(cf) /\ DOMAIN conf = 1..Len(conf) /\ Len(conf) \in Nat
    BY <2>1 DEF Slots
  <2>3. CASE cf[pos] = NIL
    <3>1. conf' = conf
      BY <1>9, <2>3 DEF WriteSlot
    <3>2. ASSUME Written(pos, cf, conf)
          PROVE  Written(pos + 1, cf, conf)
      <4>1. \A u \in DOMAIN cf : u < pos + 1 /\ cf[u] # NIL => u < pos
        BY <2>1, <2>2, <2>3
      <4>2. \A u \in DOMAIN cf : u < pos => u < pos + 1
        BY <2>1, <2>2
      <4>3. QED
        BY <3>2, <4>1, <4>2 DEF Written
    <3>3. QED
      BY <1>0, <2>1, <3>1, <3>2 DEF ReadBackInv
  <2>4. CASE cf[pos] # NIL
    <3>1. conf' = Append(conf, cf[pos]) /\ cf[pos] \in Lines
      BY <1>9, <2>1, <2>4 DEF WriteSlot, Slots
    <3>2. /\ DOMAIN conf' = 1..(Len(conf) + 1)
          /\ \A x \in 1..Len(conf) : conf'[x] = conf[x] /\ conf[x] # NIL
          /\ conf'[Len(conf) + 1] = cf[pos]
      BY <2>1, <2>2, <3>1
    <3>3. Plain(conf')
      <4> SUFFICES ASSUME NEW x \in DOMAIN conf'
                   PROVE  ~conf'[x].cont
        BY DEF Plain
      <4>1. CASE x = Len(conf) + 1
        BY <1>0, <2>1, <2>2, <2>4, <3>2, <4>1 DEF Plain, Slots, TypeOK
      <4>2. CASE x \in 1..Len(conf)
        BY <1>0, <2>1, <2>2, <3>2, <4>2 DEF Plain
      <4>3. QED
        BY <2>2, <3>2, <4>1, <4>2
    <3>4. ASSUME Written(pos, cf, conf)
          PROVE  Written(pos + 1, cf, conf')
      <4>1. ASSUME NEW u \in DOMAIN cf, u < pos + 1, cf[u] # NIL
            PROVE  \E y \in DOMAIN conf' : conf'[y] = cf[u]
        <5>1. CASE u = pos
          BY <2>2, <3>2, <5>1
        <5>2. CASE u < pos
          <6>1. PICK y \in DOMAIN conf : conf[y] = cf[u]
            BY <3>4, <4>1, <5>2 DEF Written
          <6>2. y \in DOMAIN conf' /\ conf'[y] = conf[y]
            BY <2>2, <3>2
          <6>3. QED
            BY <6>1, <6>2
        <5>3. QED
          BY <2>1, <2>2, <4>1, <5>1, <5>2
      <4>2. ASSUME NEW y \in DOMAIN conf'
            PROVE  \E u \in DOMAIN cf : u < pos + 1 /\ conf'[y] = cf[u]
        <5>1. CASE y = Len(conf) + 1
          BY <2>1, <2>2, <3>2, <5>1
        <5>2. CASE y \in DOMAIN conf
          <6>1. PICK u \in DOMAIN cf : u < pos /\ conf[y] = cf[u]
            BY <3>4, <5>2 DEF Written
          <6>2. u < pos + 1 /\ conf'[y] = conf[y]
            BY <2>1, <2>2, <3>2, <5>2, <6>1
          <6>3. QED
            BY <6>1, <6>2
        <5>3. QED
          BY <2>2, <3>2, <5>1, <5>2
      <4>3. ASSUME NEW y \in DOMAIN conf', NEW z \in DOMAIN conf', NEW u \in DOMAIN cf, NEW v \in DOMAIN cf,
                   y < z, conf'[y] = cf[u], conf'[z] = cf[v]
            PROVE  u < v
        <5>1. y \in DOMAIN conf /\ conf'[y] = conf[y] /\ conf[y] # NIL
          BY <2>2, <3>2, <4>3
        <5>2. CASE z \in DOMAIN conf
          <6>1. conf'[z] = conf[z]
            BY <2>2, <3>2, <5>2
          <6>2. QED
            BY <3>4, <4>3, <5>1, <5>2, <6>1 DEF Written
        <5>3. CASE z = Len(conf) + 1
          <6>1. v = pos
            BY <1>0, <2>1, <2>2, <2>4, <3>2, <4>3, <5>3 DEF NoRepeat
          <6>2. PICK w \in DOMAIN cf : w < pos /\ conf[y] = cf[w]
            BY <3>4, <5>1 DEF Written
          <6>3. w = u
            BY <1>0, <4>3, <5>1, <6>2 DEF NoRepeat
          <6>4. QED
            BY <6>1, <6>2, <6>3
        <5>4. QED
          BY <2>2, <3>2, <5>2, <5>3
      <4>4. QED
        BY <4>1, <4>2, <4>3 DEF Written
    <3>5. QED
      BY <1>0, <2>1, <3>3, <3>4 DEF ReadBackInv
  <2>5. QED
    BY <2>3, <2>4
<1>10. CASE FinishWrite
  BY <1>0, <1>10, <1>e DEF FinishWrite, ReadBackInv
<1>11. CASE RenameFails
  BY <1>0, <1>11, <1>e DEF RenameFails, ReadBackInv
<1>12. CASE CreateFails
  BY <1>0, <1>12, <1>e DEF CreateFails, ReadBackInv
<1>13. CASE WriteFails
  BY <1>0, <1>13 DEF WriteFails, ReadBackInv
<1>14. CASE Crash
  BY <1>0, <1>14, <1>e DEF Crash, ReadBackInv
<1>15. CASE UNCHANGED vars
  BY <1>0, <1>15 DEF vars, ReadBackInv
<1>16. CASE ReadFails
  BY <1>0, <1>16, <1>e DEF ReadFails, ReadBackInv
<1>17. CASE FreeConf
  BY <1>0, <1>17, <1>e DEF FreeConf, ReadBackInv
<1>18. QED
  BY <1>1, <1>2, <1>3, <1>4, <1>5, <1>6, <1>7, <1>8, <1>9, <1>10, <1>11, <1>12, <1>13, <1>14, <1>15,
     <1>16, <1>17 DEF Next

LEMMA ReadBackInvImplies == ReadBackInv => AliasesReadBack
<1> SUFFICES ASSUME ReadBackInv, wpc = "write", pos > Len(cf), ~incomplete, NEW a \in Aliases
             PROVE  GetAlias(LoadConf(conf), a) = GetAlias(cf, a)
  BY DEF AliasesReadBack
<1>1. conf \in Seq(Lines) /\ conf # NIL /\ cf \in Slots /\ Plain(conf) /\ Written(pos, cf, conf)
      /\ NoRepeat(cf) /\ pos \in Nat
  BY DEF ReadBackInv, LoadInv, TypeOK, Slots
<1>2. DOMAIN cf = 1..Len(cf) /\ Len(cf) \in Nat /\ DOMAIN conf = 1..Len(conf) /\ Len(conf) \in Nat
  BY <1>1 DEF Slots
<1>3. Written(Len(cf) + 1, cf, conf)
  <2>1. \A u \in DOMAIN cf : u < pos /\ u < Len(cf) + 1
    BY <1>1, <1>2
  <2>2. QED
    BY <1>1, <2>1 DEF Written
<1>4. NoRepeat(conf)
  <2> SUFFICES ASSUME NEW y \in DOMAIN conf, NEW z \in DOMAIN conf, conf[y] = conf[z], y < z
               PROVE  FALSE
    BY <1>2 DEF NoRepeat
  <2>1. PICK u \in DOMAIN cf : conf[y] = cf[u]
    BY <1>1 DEF Written
  <2>2. u < u
    BY <1>1, <2>1 DEF Written
  <2>3. QED
    BY <1>2, <2>2
<1>5. LoadConf(conf) = conf
  BY <1>1, <1>4, ToArraySame, JoinPlain DEF LoadConf, ReadConfModules
<1>6. QED
  BY <1>1, <1>3, <1>5, SameAliases

\* Type correctness of the files and the session, whatever modprobe.conf the
\* first session finds, continued lines and all.
THEOREM ConfFileTypeOK == Spec => []TypeOK
<1>1. LoadInv => TypeOK
  BY DEF LoadInv
<1>2. QED
  BY <1>1, InitLoadInv, StepLoadInv, PTL DEF Spec

\* toArray() loads each line of any file once, in the order of the lines'
\* first places.
THEOREM EachLineLoadedOnce == Spec => []LoadsEachLineOnce
BY InitLoadInv, StepLoadInv, LoadInvImplies, PTL DEF Spec

\* Reading what a session wrote gives the aliases it meant, whatever it
\* edited, when no line is continued: no line stands twice among the slots,
\* so that toArray() drops none, and the holes left out move no line past
\* another.
THEOREM WrittenAliasesReadBack == NoContinuation /\ Spec => []AliasesReadBack
BY InitReadBackInv, StepReadBackInv, ReadBackInvImplies, PTL DEF Spec
===============================================================================
