--------------------------- MODULE ProbeDevicesProofs ---------------------------
(***************************************************************************)
(* probeDevices() puts back what it changes, and names a serial device by  *)
(* what that device sent: for any machine and any devices on its ports,    *)
(* however often they are late and calls fail.                             *)
(***************************************************************************)
EXTENDS ProbeDevices, Inductions, SequenceTheorems

\* No port is open.
Closed == {"begin", "port", "done"}
Open   == {"seq1", "seq2", "read", "judge", "judgeATI9", "echo", "identify", "mouse", "modem",
           "answer", "endprobe"}

\* Where serialProbe() is decides what may be changed: nothing, or the
\* attributes of the port it is at.
PortsOK ==
  /\ attr \in [Ports -> {"orig", "init", "seven", "eight"}]
  /\ pc \in Closed \cup Open
  /\ pc = "read" => why \in {"seq1", "seq2", "ati9"}
  /\ pc \in Closed => ~opened /\ \A p \in Ports : attr[p] = "orig"
  /\ pc \in Open => x \in Ports /\ \A p \in Ports \ {x} : attr[p] = "orig"

\* Where probeDevices() is decides where the log level of the machine is.
LevelOK ==
  /\ ppc \in {"call", "bus", "serial", "probed", "returned"}
  /\ ppc \in {"call", "returned"} => level = machine.level
  /\ ppc \in {"bus", "serial", "probed"} => logLevel = machine.level
  /\ ppc # "serial" => pc \in {"begin", "done"}

IInv == PortsOK /\ LevelOK

-----------------------------------------------------------------------------
(* A step of serialProbe(). *)

LEMMA PortsStep ==
  ASSUME PortsOK, Begin \/ SkipPort \/ OpenPort \/ LastPort \/ EndProbe
  PROVE  PortsOK' /\ machine' = machine
<1>1. CASE Begin
  BY <1>1 DEF Begin, Goto, PortsOK, Closed, Open, reading
<1>2. CASE SkipPort
  BY <1>2 DEF SkipPort, PortsOK, Closed, Open, reading
<1>3. CASE OpenPort
  BY <1>3 DEF OpenPort, Goto, PortsOK, Closed, Open
<1>4. CASE LastPort
  BY <1>4 DEF LastPort, Goto, PortsOK, Closed, Open, reading
<1>5. CASE EndProbe
  BY <1>5 DEF EndProbe, Goto, Set, PortsOK, Closed, Open
<1> QED
  BY <1>1, <1>2, <1>3, <1>4, <1>5

LEMMA RetrieveStep ==
  ASSUME PortsOK,
         \/ init_pnp_com_seq1 \/ Seq1Fails \/ init_pnp_com_seq2
         \/ Retrieved \/ Prod \/ init_pnp_com_ati9 \/ ATI9Fails
         \/ RetrievedByATI9 \/ NothingRetrieved
  PROVE  PortsOK' /\ machine' = machine
<1>1. CASE init_pnp_com_seq1
  BY <1>1 DEF init_pnp_com_seq1, Goto, Set, Read, Port, PortsOK, Closed, Open
<1>2. CASE Seq1Fails
  BY <1>2 DEF Seq1Fails, Goto, Set, Port, PortsOK, Closed, Open, reading
<1>3. CASE init_pnp_com_seq2
  BY <1>3 DEF init_pnp_com_seq2, Goto, Read, Port, PortsOK, Closed, Open
<1>4. CASE Retrieved
  BY <1>4 DEF Retrieved, Goto, Port, PortsOK, Closed, Open, reading
<1>5. CASE Prod
  BY <1>5 DEF Prod, Goto, Port, PortsOK, Closed, Open
<1>6. CASE init_pnp_com_ati9
  BY <1>6 DEF init_pnp_com_ati9, Goto, Set, Port, PortsOK, Closed, Open
<1>7. CASE ATI9Fails
  BY <1>7 DEF ATI9Fails, Goto, Read, Port, PortsOK, Closed, Open
<1>8. CASE RetrievedByATI9
  BY <1>8 DEF RetrievedByATI9, Goto, Port, PortsOK, Closed, Open, reading
<1>9. CASE NothingRetrieved
  BY <1>9 DEF NothingRetrieved, Goto, Port, PortsOK, Closed, Open
<1> QED
  BY <1>1, <1>2, <1>3, <1>4, <1>5, <1>6, <1>7, <1>8, <1>9

LEMMA ReadStep ==
  ASSUME PortsOK, ReadByte \/ ReadTimesOut \/ ReadFails \/ EchoByte \/ EchoTimesOut \/ EchoFails
  PROVE  PortsOK' /\ machine' = machine
<1>1. CASE ReadByte
  BY <1>1 DEF ReadByte, ReadEnds, Goto, Port, PortsOK, Closed, Open
<1>2. CASE ReadTimesOut
  BY <1>2 DEF ReadTimesOut, ReadEnds, Goto, Port, PortsOK, Closed, Open
<1>3. CASE ReadFails
  BY <1>3 DEF ReadFails, Goto, Port, PortsOK, Closed, Open
<1>4. CASE EchoByte
  BY <1>4 DEF EchoByte, Goto, Read, Port, PortsOK, Closed, Open
<1>5. CASE EchoTimesOut
  BY <1>5 DEF EchoTimesOut, Goto, Read, Port, PortsOK, Closed, Open
<1>6. CASE EchoFails
  BY <1>6 DEF EchoFails, Goto, Read, Port, PortsOK, Closed, Open
<1> QED
  BY <1>1, <1>2, <1>3, <1>4, <1>5, <1>6

\* What was found is listed, and the search goes on or is over: either way the
\* port is closed or about to be.
LEMMA FoundStep ==
  ASSUME PortsOK, pc \in Open, NEW class, NEW id, Found(class, id)
  PROVE  PortsOK' /\ machine' = machine
<1>1. CASE class \notin machine.class
  BY <1>1 DEF Found, Goto, Port, PortsOK, Closed, Open
<1>2. CASE class \in machine.class /\ machine.one
  BY <1>2 DEF Found, Goto, Set, PortsOK, Closed, Open
<1>3. CASE class \in machine.class /\ ~machine.one
  BY <1>3 DEF Found, Goto, Port, PortsOK, Closed, Open
<1> QED
  BY <1>1, <1>2, <1>3

LEMMA IdentifyStep ==
  ASSUME PortsOK,
         \/ Abort \/ FoundPnP
         \/ find_legacy_mouse \/ LegacyFails \/ MouseAnswers \/ MouseTimesOut \/ AnswerFails
         \/ find_legacy_modem \/ AnswerByte \/ AnswerTimesOut
  PROVE  PortsOK' /\ machine' = machine
<1>1. CASE Abort
  BY <1>1 DEF Abort, Goto, Port, PortsOK, Closed, Open, reading
<1>2. CASE FoundPnP
  <2>1. PICK id \in {Id} : Found(DeviceClass(id), id)
    BY <1>2 DEF FoundPnP
  <2> QED
    BY <1>2, <2>1, FoundStep DEF FoundPnP, Open
<1>3. CASE find_legacy_mouse
  BY <1>3 DEF find_legacy_mouse, Goto, Set, Port, PortsOK, Closed, Open
<1>4. CASE LegacyFails
  BY <1>4 DEF LegacyFails, Goto, Port, PortsOK, Closed, Open, reading
<1>5. CASE MouseAnswers
  <2>1. CASE LegacyMouse
    BY <1>5, <2>1, FoundStep DEF MouseAnswers, LegacyMouse, Open
  <2>2. CASE NoMouse
    BY <1>5, <2>2 DEF MouseAnswers, NoMouse, Goto, Port, PortsOK, Closed, Open
  <2> QED
    BY <1>5, <2>1, <2>2 DEF MouseAnswers
<1>6. CASE MouseTimesOut
  <2>1. CASE LegacyMouse
    BY <1>6, <2>1, FoundStep DEF MouseTimesOut, LegacyMouse, Open
  <2>2. CASE NoMouse
    BY <1>6, <2>2 DEF MouseTimesOut, NoMouse, Goto, Port, PortsOK, Closed, Open
  <2> QED
    BY <1>6, <2>1, <2>2 DEF MouseTimesOut
<1>7. CASE AnswerFails
  BY <1>7 DEF AnswerFails, Goto, Port, PortsOK, Closed, Open, reading
<1>8. CASE find_legacy_modem
  BY <1>8 DEF find_legacy_modem, Goto, Set, Port, PortsOK, Closed, Open
<1>9. ASSUME NEW resp, AnswerEnds(resp), pc = "answer"
      PROVE  PortsOK' /\ machine' = machine
  <2>1. CASE Found("MODEM", NoId)
    BY <1>9, <2>1, FoundStep DEF Open
  <2>2. CASE Goto("endprobe") /\ Port /\ UNCHANGED attr
    BY <1>9, <2>2 DEF Goto, Port, PortsOK, Closed, Open
  <2> QED
    BY <1>9, <2>1, <2>2 DEF AnswerEnds
<1>10. CASE AnswerByte
  <2>1. CASE AnswerEnds(got')
    BY <1>9, <1>10, <2>1 DEF AnswerByte
  <2>2. CASE Port /\ UNCHANGED <<pc, attr>>
    BY <1>10, <2>2 DEF AnswerByte, Port, PortsOK, Closed, Open
  <2> QED
    BY <1>10, <2>1, <2>2 DEF AnswerByte
<1>11. CASE AnswerTimesOut
  BY <1>9, <1>11 DEF AnswerTimesOut
<1> QED
  BY <1>1, <1>2, <1>3, <1>4, <1>5, <1>6, <1>7, <1>8, <1>10, <1>11

LEMMA SerialStepOK ==
  ASSUME PortsOK, SerialNext
  PROVE  PortsOK' /\ machine' = machine
BY PortsStep, RetrieveStep, ReadStep, IdentifyStep DEF SerialNext

-----------------------------------------------------------------------------

LEMMA InitOK == ProbeInit => IInv
BY DEF ProbeInit, Init, IInv, PortsOK, LevelOK, Closed, Open

LEMMA StepOK ==
  ASSUME IInv, [Next]_probeVars
  PROVE  IInv'
<1>0. PortsOK /\ LevelOK
  BY DEF IInv
<1>1. CASE Call
  BY <1>0, <1>1 DEF Call, IInv, LevelOK, PortsOK, Closed, Open, vars, reading
<1>2. CASE ProbeOther
  <2>1. PortsOK'
    BY <1>0, <1>2 DEF ProbeOther, PortsOK, reading
  <2>2. LevelOK'
    BY <1>0, <1>2 DEF ProbeOther, NextBus, LevelOK
  <2> QED
    BY <2>1, <2>2 DEF IInv
<1>3. CASE ProbeSerial
  BY <1>0, <1>3 DEF ProbeSerial, IInv, LevelOK, PortsOK, vars, reading
<1>4. CASE SerialStep
  <2>1. PortsOK' /\ machine' = machine
    BY <1>0, <1>4, SerialStepOK DEF SerialStep
  <2>2. LevelOK'
    BY <1>0, <1>4, <2>1 DEF SerialStep, probing, LevelOK
  <2> QED
    BY <2>1, <2>2 DEF IInv
<1>5. CASE SerialReturns
  <2>1. PortsOK'
    BY <1>0, <1>5 DEF SerialReturns, PortsOK, vars, reading
  <2>2. LevelOK'
    BY <1>0, <1>5 DEF SerialReturns, NextBus, LevelOK, vars
  <2> QED
    BY <2>1, <2>2 DEF IInv
<1>6. CASE NothingFound
  BY <1>0, <1>6 DEF NothingFound, Probed, IInv, LevelOK, PortsOK, vars, reading
<1>7. CASE SomeFound
  BY <1>0, <1>7 DEF SomeFound, Probed, IInv, LevelOK, PortsOK, vars, reading
<1>8. CASE UNCHANGED probeVars
  BY <1>0, <1>8 DEF probeVars, probing, vars, reading, IInv, LevelOK, PortsOK
<1> QED
  BY <1>1, <1>2, <1>3, <1>4, <1>5, <1>6, <1>7, <1>8 DEF Next

\* Whenever probeDevices() has returned, the console has the log level it had, no
\* port is open, and each is set as it was: kudzu.c:814 and 827, and the ways out
\* of serialProbe(), whatever the devices said, however late, and whatever failed.
THEOREM ProbeRestores == Spec => []Restored
<1>1. IInv => Restored
  BY DEF IInv, LevelOK, PortsOK, Closed, Restored, Returned
<1> QED
  BY <1>1, InitOK, StepOK, PTL DEF Spec
-----------------------------------------------------------------------------
(* What parse_pnp_string() makes of a string *)

LEMMA FirstInAt ==
  ASSUME NEW s, Len(s) \in Nat, NEW i \in Nat, NEW C
  PROVE  FirstIn(s, i, C) = 0 \/ FirstIn(s, i, C) \in i..Len(s)
<1> DEFINE at == {j \in i..Len(s) : s[j] \in C}
<1>1. CASE at = {}
  BY <1>1 DEF FirstIn
<1>2. CASE at # {}
  <2>1. PICK j \in at : TRUE
    BY <1>2
  <2>2. j \in Nat /\ \A y \in at : y \in Nat
    OBVIOUS
  <2> HIDE DEF at
  <2>3. PICK k \in Nat : k \in at /\ \A y \in 0..(k - 1) : y \notin at
    BY <2>1, <2>2, LeastMember
  <2>4. k \in at /\ \A y \in at : k <= y
    BY <2>2, <2>3
  <2>5. Min(at) \in at
    BY <2>4 DEF Min
  <2> QED
    BY <1>2, <2>5 DEF FirstIn, at
<1> QED
  BY <1>1, <1>2

LEMMA StrPBrkAt ==
  ASSUME NEW s, Len(s) \in Nat, NEW i \in Nat, NEW C
  PROVE  StrPBrk(s, i, C) = 0 \/ StrPBrk(s, i, C) \in i..Len(s)
BY FirstInAt DEF StrPBrk

LEMMA StartAt ==
  ASSUME NEW s, Len(s) \in Nat
  PROVE  Start(s) = 0 \/ Start(s) \in 1..Len(s)
<1> DEFINE p1 == FirstIn(s, 1, {BeginPnP1})
           p2 == FirstIn(s, 1, {BeginPnP2})
           starts == {p \in {p1, p2} \ {0} : FirstIn(s, p, {IF p = p1 THEN EndPnP1 ELSE EndPnP2}) # 0}
<1>1. p1 \in 0..Len(s) /\ p2 \in 0..Len(s)
  BY FirstInAt
<1>2. starts \subseteq 1..Len(s)
  BY <1>1
<1>3. Start(s) = IF starts = {} THEN 0 ELSE Min(starts)
  BY DEF Start
<1> HIDE DEF starts
<1>4. CASE starts # {}
  <2>1. PICK j \in starts : TRUE
    BY <1>4
  <2>2. PICK k \in Nat : k \in starts /\ \A y \in 0..(k - 1) : y \notin starts
    BY <1>2, <2>1, LeastMember
  <2>3. k \in starts /\ \A y \in starts : k <= y
    BY <1>2, <2>2
  <2>4. Min(starts) \in starts
    BY <2>3 DEF Min
  <2> QED
    BY <1>2, <1>3, <1>4, <2>4
<1> QED
  BY <1>3, <1>4

\* A byte stays, or is shifted up.
LEMMA ShiftedBytes ==
  ASSUME NEW S, S \subseteq Nat, NEW s \in Seq(S), NEW start
  PROVE  Shifted(s, start) \in Seq(S \cup {Up(b) : b \in S}) /\ Len(Shifted(s, start)) = Len(s)
<1> DEFINE T == S \cup {Up(b) : b \in S}
           end == FirstIn(s, start, {EndPnP2})
           up  == [i \in DOMAIN s |-> IF i \in start..end /\ (i = end \/ i \notin {start + 1, start + 2})
                                      THEN Up(s[i]) ELSE s[i]]
<1>1. Shifted(s, start) = IF SixBits(s, start) THEN up ELSE s
  BY DEF Shifted, With
<1>2. Len(s) \in Nat /\ DOMAIN s = 1..Len(s) /\ \A i \in 1..Len(s) : s[i] \in S
  OBVIOUS
<1>3. s \in Seq(T)
  BY <1>2
<1>4. up \in [1..Len(s) -> T]
  BY <1>2
<1> HIDE DEF up, T
<1>5. up \in Seq(T) /\ Len(up) = Len(s)
  BY <1>2, <1>4
<1> QED
  BY <1>1, <1>3, <1>5 DEF T

\* The places an extension can leave behind: it may end a byte before it began, at
\* most three times, where a closing byte follows at once.
Beyond(start) ==
  {ext \in [cur : Nat, fields : Seq(Seq(Nat)), more : BOOLEAN, ok : BOOLEAN] :
     /\ ext.cur >= start + 6
     /\ Len(ext.fields) <= 4 => ext.cur + Len(ext.fields) >= start + 10}

LEMMA StaysBeyond ==
  ASSUME NEW cur \in Nat, NEW n \in Nat, NEW start \in Nat, NEW to \in Int,
         cur >= start + 6, n <= 4 => cur + n >= start + 10, to >= (cur + 1) - 2,
         NEW next, next = IF n < 4 THEN to ELSE cur + 1
  PROVE  /\ next \in Nat /\ next >= start + 6
         /\ n + 1 <= 4 => next + (n + 1) >= start + 10
OBVIOUS

LEMMA ExtensionBeyond ==
  ASSUME NEW s \in Seq(Nat), NEW start \in Nat, NEW ext \in Beyond(start)
  PROVE  Extension(s, ext) \in Beyond(start)
<1> DEFINE from  == ext.cur + 1
           delim == StrPBrk(s, from, EndPnP \cup ExtendPnP)
           to    == IF s[delim] \in EndPnP THEN delim - 2 ELSE delim
           len   == to - from
           field == SubSeq(s, from, to - 1)
           stop  == [ext EXCEPT !.more = FALSE]
           fail  == [ext EXCEPT !.more = FALSE, !.ok = FALSE]
           new   == IF Len(ext.fields) < 4 THEN to ELSE from
           next  == [ext EXCEPT !.cur = new, !.fields = Append(@, field)]
<1>1. /\ ext \in [cur : Nat, fields : Seq(Seq(Nat)), more : BOOLEAN, ok : BOOLEAN]
      /\ ext.cur >= start + 6
      /\ Len(ext.fields) <= 4 => ext.cur + Len(ext.fields) >= start + 10
  BY DEF Beyond
<1>2. stop \in Beyond(start) /\ fail \in Beyond(start)
  BY <1>1 DEF Beyond
<1>3. ASSUME delim # 0 PROVE next \in Beyond(start)
  <2>1. Len(s) \in Nat /\ from \in Nat /\ delim \in from..Len(s) /\ from = ext.cur + 1 /\ from > 0
    BY <1>1, <1>3, StrPBrkAt
  <2> HIDE DEF from, delim
  <2>2. to \in Int /\ to >= from - 2 /\ to <= Len(s)
    <3>1. to \in {delim - 2, delim}
      OBVIOUS
    <3> HIDE DEF to
    <3> QED
      BY <2>1, <3>1
  <2> HIDE DEF to
  <2>3. \A i \in from..(to - 1) : s[i] \in Nat
    <3>1. \A i \in from..(to - 1) : i \in 1..Len(s)
      BY <2>1, <2>2
    <3> QED
      BY <3>1
  <2>4. field \in Seq(Nat)
    <3>1. from \in Int /\ to - 1 \in Int
      BY <2>1, <2>2
    <3> QED
      BY <2>3, <3>1, SubSeqProperties
  <2> HIDE DEF field
  <2>5. Append(ext.fields, field) \in Seq(Seq(Nat)) /\ Len(Append(ext.fields, field)) = Len(ext.fields) + 1
    BY <1>1, <2>4
  <2> DEFINE l == Len(ext.fields)
  <2>6. l \in Nat /\ l = Len(ext.fields)
    BY <1>1
  <2>7. /\ ext.cur \in Nat /\ ext.cur >= start + 6
        /\ l <= 4 => ext.cur + l >= start + 10
    BY <1>1
  <2>8. new = IF l < 4 THEN to ELSE from
    OBVIOUS
  <2> HIDE DEF new, l, to
  <2>9. new \in Nat /\ new >= start + 6 /\ (l + 1 <= 4 => new + (l + 1) >= start + 10)
    <3>1. to >= (ext.cur + 1) - 2 /\ new = IF l < 4 THEN to ELSE ext.cur + 1
      BY <2>1, <2>2, <2>8
    <3> QED
      BY <2>2, <2>6, <2>7, <3>1, StaysBeyond
  <2>10. /\ next \in [cur : Nat, fields : Seq(Seq(Nat)), more : BOOLEAN, ok : BOOLEAN]
        /\ next.cur = new /\ next.fields = Append(ext.fields, field)
    BY <1>1, <2>5, <2>9
  <2> HIDE DEF next
  <2> QED
    BY <2>5, <2>6, <2>9, <2>10 DEF Beyond
<1>4. Extension(s, ext) \in {stop, fail, next} /\ (Extension(s, ext) \in {stop, fail} \/ delim # 0)
  BY DEF Extension
<1> HIDE DEF stop, fail, next, delim
<1> QED
  BY <1>2, <1>3, <1>4

LEMMA ExtensionsBeyond ==
  ASSUME NEW s \in Seq(Nat), NEW start \in Nat
  PROVE  Extensions(s, start) \in Beyond(start)
<1> DEFINE X == Beyond(start)
           first == [cur |-> start + 10, fields |-> <<>>, more |-> TRUE, ok |-> TRUE]
           Next1(ext) == With(ext, LAMBDA x1 : IF x1.more THEN Extension(s, x1) ELSE x1)
           n == Len(s)
           At(g) == [k \in 0..n |-> IF k = 0 THEN first ELSE Next1(g[k - 1])]
           after == CHOOSE g : g = At(g)
           step == [k \in 1..n |-> [ext \in X |-> Next1(ext)]]
<1>1. n \in Nat
  OBVIOUS
<1>2. Extensions(s, start) = after[n]
  BY DEF Extensions
<1>3. first \in X
  <2>1. <<>> \in Seq(Seq(Nat)) /\ Len(<<>>) = 0
    OBVIOUS
  <2> QED
    BY <2>1 DEF Beyond
<1>4. \A ext \in X : Next1(ext) \in X
  BY ExtensionBeyond DEF With
<1> HIDE DEF X, n, first, Next1
<1>5. step \in [1..n -> [X -> X]] /\ \A k \in 1..n : \A ext \in X : step[k][ext] = Next1(ext)
  BY <1>4
<1> HIDE DEF step
<1>6. PICK g : IterateOf(g, n, X, first, step)
  BY <1>1, <1>3, <1>5, Recursion
<1>7. g = At(g)
  <2>1. g \in [0..n -> X] /\ g[0] = first /\ \A k \in 1..n : g[k] = step[k][g[k - 1]]
    BY <1>6 DEF IterateOf
  <2>2. ASSUME NEW k \in 1..n PROVE g[k] = Next1(g[k - 1])
    <3>1. g[k - 1] \in X
      BY <1>1, <2>1
    <3> QED
      BY <1>5, <2>1, <3>1
  <2>3. \A k \in 0..n : g[k] = IF k = 0 THEN first ELSE Next1(g[k - 1])
    BY <1>1, <2>1, <2>2
  <2> QED
    BY <2>1, <2>3
<1>8. after = At(after)
  BY <1>7
<1> HIDE DEF after
<1>9. after[0] = first /\ \A k \in 1..n : after[k] = Next1(after[k - 1])
  <2>1. after[0] = first
    BY <1>1, <1>8
  <2>2. ASSUME NEW k \in 1..n PROVE after[k] = Next1(after[k - 1])
    <3>1. k \in 0..n /\ k # 0
      BY <1>1
    <3> QED
      BY <1>8, <3>1
  <2> QED
    BY <2>1, <2>2
<1> HIDE DEF At
<1> DEFINE T == {k \in Nat : k <= n => after[k] \in X}
<1>10. 0 \in T
  BY <1>3, <1>9
<1>11. ASSUME NEW k \in Nat, k \in T PROVE k + 1 \in T
  <2>1. CASE k + 1 <= n
    <3>1. k + 1 \in 1..n /\ (k + 1) - 1 = k /\ after[k] \in X
      BY <1>1, <1>11, <2>1
    <3>2. after[k + 1] = Next1(after[k])
      BY <1>9, <3>1
    <3> QED
      BY <1>4, <3>1, <3>2
  <2> QED
    BY <2>1
<1> HIDE DEF T
<1>12. n \in T
  BY <1>1, <1>10, <1>11, ReachedFromZero
<1> QED
  BY <1>1, <1>2, <1>12 DEF T, X

\* The letters of an identification are bytes of the string, as they are or shifted up.
LEMMA LettersOfString ==
  ASSUME NEW S, S \subseteq Nat, NEW str \in Seq(S), parse_pnp_string(str).ok
  PROVE  ToSet(parse_pnp_string(str).eisa_id) \subseteq S \cup {Up(b) : b \in S}
<1> DEFINE T     == S \cup {Up(b) : b \in S}
           start == Start(str)
           s     == Shifted(str, start)
           ext   == Extensions(s, start)
           id    == Identification(s, start, SixBits(str, start), ext)
           end   == StrPBrk(s, ext.cur, EndPnP)
<1>1. parse_pnp_string(str) = IF start = 0 \/ start > 18 THEN NoId ELSE id
  BY DEF parse_pnp_string, With
<1>2. ~NoId.ok
  BY DEF NoId
<1>3. Len(str) \in Nat
  OBVIOUS
<1>4. start \in 1..Len(str) /\ parse_pnp_string(str) = id
  BY <1>1, <1>2, <1>3, StartAt
<1>5. \A t \in T : t \in Nat
  <2>1. \A b \in S : Up(b) \in Nat
    BY DEF Up
  <2> QED
    BY <2>1
<1> HIDE DEF start
<1>6. s \in Seq(T) /\ Len(s) = Len(str)
  BY ShiftedBytes
<1> HIDE DEF s, T
<1>7. s \in Seq(Nat)
  <2>1. Len(s) \in Nat /\ s \in [1..Len(s) -> T]
    BY <1>6, LenProperties
  <2>2. s \in [1..Len(s) -> Nat]
    BY <1>5, <2>1
  <2> QED
    BY <2>1, <2>2
<1>8. ext \in Beyond(start)
  BY <1>3, <1>4, <1>7, ExtensionsBeyond
<1> HIDE DEF ext
<1>9. ext.cur \in Nat /\ ext.cur >= start + 6
  BY <1>8 DEF Beyond
<1>10. end # 0 /\ id.eisa_id = SubSeq(s, start + 3, start + 5)
  BY <1>1, <1>2, <1>4 DEF Identification
<1>11. end \in ext.cur..Len(s)
  BY <1>3, <1>6, <1>9, <1>10, StrPBrkAt
<1> HIDE DEF end, id
<1>12. start + 3 \in 1..Len(s) /\ start + 5 \in 1..Len(s)
  BY <1>3, <1>4, <1>6, <1>9, <1>11
<1>13. \A i \in (start + 3)..(start + 5) : s[i] \in T
  BY <1>3, <1>4, <1>6, <1>12
<1>14. SubSeq(s, start + 3, start + 5) \in Seq(T)
  <2>1. start + 3 \in Int /\ start + 5 \in Int
    BY <1>3, <1>4
  <2> QED
    BY <1>13, <2>1, SubSeqProperties
<1>15. id.eisa_id \in Seq(T)
  BY <1>10, <1>14
<1>16. ToSet(id.eisa_id) \subseteq T
  BY <1>15 DEF ToSet
<1> QED
  BY <1>4, <1>16 DEF T

-----------------------------------------------------------------------------
(* Whose bytes the program holds *)

Sent(p)    == LET dev == machine.ports[p] IN ToSet(dev.power \o dev.at \o dev.ati9)
Letters(S) == S \cup {Up(b) : b \in S}

\* The buffer holds S as far as its length goes, and so does what is being read.
Holds(S) ==
  /\ pending \in Seq(S) /\ got \in Seq(S)
  /\ pnp_string \in Seq(Byte) /\ pnp_strlen \in 0..Len(pnp_string)
  /\ \A i \in 1..pnp_strlen : pnp_string[i] \in S

\* Behind the length, the buffer may hold bytes of the port before.
OwnBytes ==
  /\ pnp_string \in Seq(Byte)
  /\ pc \in {"begin", "port"} => got = <<>>
  /\ pc \in Open => machine.ports[x] # NoPort /\ Holds(Sent(x))

NamedByOwn(d) == d.port \in Ports /\ d.id.ok => ToSet(d.id.eisa_id) \subseteq Letters(Sent(d.port))
ListOK == \E D : devlist \in Seq(D) /\ \A d \in D : NamedByOwn(d)

OwnInv == machine \in Machines /\ OwnBytes /\ ListOK

\* A device is of the port that is open, and named by its bytes.
Listed(S) ==
  \/ devlist' = devlist
  \/ \E class, id : /\ devlist' = <<[port |-> x, class |-> class, id |-> id]>> \o devlist
                    /\ id.ok => ToSet(id.eisa_id) \subseteq Letters(S)

\* What a device says is what it sent.
Says(S) ==
  /\ S \subseteq Byte /\ Device # NoPort
  /\ Device.power \in Seq(S) /\ Device.at \in Seq(S) /\ Device.ati9 \in Seq(S)

LEMMA PartsOfSequence ==
  ASSUME NEW X, NEW s \in Seq(X), NEW t \in Seq(X)
  PROVE  s \in Seq(ToSet(s \o t)) /\ t \in Seq(ToSet(s \o t)) /\ ToSet(s \o t) \subseteq X
<1> DEFINE w == s \o t
<1>1. /\ w \in Seq(X) /\ Len(w) = Len(s) + Len(t)
      /\ \A i \in 1..Len(s) + Len(t) : w[i] = IF i <= Len(s) THEN s[i] ELSE t[i - Len(s)]
  BY ConcatProperties
<1>2. Len(s) \in Nat /\ Len(t) \in Nat
  OBVIOUS
<1> HIDE DEF w
<1>3. \A i \in 1..Len(w) : w[i] \in ToSet(w) /\ w[i] \in X
  BY <1>1 DEF ToSet
<1>4. \A i \in 1..Len(s) : s[i] = w[i] /\ i \in 1..Len(w)
  BY <1>1, <1>2
<1>5. ASSUME NEW i \in 1..Len(t) PROVE t[i] \in ToSet(w)
  <2>1. Len(s) + i \in 1..Len(w) /\ ~(Len(s) + i <= Len(s)) /\ (Len(s) + i) - Len(s) = i
    BY <1>1, <1>2
  <2> QED
    BY <1>1, <1>3, <2>1
<1>6. ToSet(w) \subseteq X
  BY <1>1, <1>3 DEF ToSet
<1>7. \A i \in 1..Len(s) : s[i] \in ToSet(w)
  BY <1>3, <1>4
<1>8. s \in Seq(ToSet(w))
  BY <1>7
<1>9. t \in Seq(ToSet(w))
  BY <1>5
<1> QED
  BY <1>6, <1>8, <1>9 DEF w

LEMMA SaysItsOwn ==
  ASSUME machine \in Machines, x \in Ports, machine.ports[x] # NoPort, NEW S, S = Sent(x)
  PROVE  Says(S)
<1> DEFINE dev == machine.ports[x]
           w == (dev.power \o dev.at) \o dev.ati9
<1>1. dev \in Devices /\ Device = dev
  BY PortsAssumption DEF Device
<1>2. dev.power \in Seq(Byte) /\ dev.at \in Seq(Byte) /\ dev.ati9 \in Seq(Byte)
  BY <1>1 DEF Devices
<1>3. S = ToSet(w)
  BY DEF Sent
<1>4. dev.power \o dev.at \in Seq(Byte)
  BY <1>2
<1> HIDE DEF dev
<1>5. dev.power \o dev.at \in Seq(S) /\ dev.ati9 \in Seq(S) /\ S \subseteq Byte
  BY <1>2, <1>3, <1>4, PartsOfSequence
<1>6. /\ dev.power \in Seq(ToSet(dev.power \o dev.at)) /\ dev.at \in Seq(ToSet(dev.power \o dev.at))
      /\ ToSet(dev.power \o dev.at) \subseteq S
  <2> DEFINE v == dev.power \o dev.at
  <2>1. v \in Seq(S)
    BY <1>5
  <2> HIDE DEF v
  <2>2. ToSet(v) \subseteq S
    BY <2>1 DEF ToSet
  <2> QED
    BY <1>2, <2>2, PartsOfSequence DEF v
<1>7. dev.power \in Seq(S) /\ dev.at \in Seq(S)
  BY <1>6, SeqMonotonic
<1> QED
  BY <1>1, <1>5, <1>7 DEF Says, dev

LEMMA RaisedBytes ==
  ASSUME NEW S, Says(S), pending \in Seq(S), NEW answer \in Seq(S), Raised(answer)
  PROVE  pending' \in Seq(S)
<1>1. PICK kept \in Prefixes(pending) : pending' = kept \o Speech \o answer
  BY DEF Raised
<1>2. PICK l \in 0..Len(pending) : kept = SubSeq(pending, 1, l)
  BY DEF Prefixes
<1>3. kept \in Seq(S)
  BY <1>2
<1>4. Speech \in Seq(S)
  BY DEF Speech, Says
<1> QED
  BY <1>1, <1>3, <1>4

LEMMA HeardBytes ==
  ASSUME NEW S, pending \in Seq(S), pending # <<>>, Heard
  PROVE  pending' \in Seq(S) /\ Head(pending) \in S
BY DEF Heard

\* What the length covers is a string of the port's.
LEMMA NameIsItsOwn ==
  ASSUME NEW S, S \subseteq Byte, Holds(S), Id.ok
  PROVE  ToSet(Id.eisa_id) \subseteq Letters(S)
<1>1. S \subseteq Nat
  BY DEF Byte
<1>2. \A i \in 1..pnp_strlen : pnp_string[i] \in S
  BY DEF Holds
<1>3. 1 \in Int /\ pnp_strlen \in Int
  BY DEF Holds
<1>4. SubSeq(pnp_string, 1, pnp_strlen) \in Seq(S)
  BY <1>2, <1>3, SubSeqProperties
<1> QED
  BY <1>1, <1>4, LettersOfString DEF Id, Letters

LEMMA FoundIsListed ==
  ASSUME NEW S, NEW class, NEW id, Found(class, id),
         id.ok => ToSet(id.eisa_id) \subseteq Letters(S)
  PROVE  Listed(S) /\ pc' \in {"endprobe", "done"} /\ x' = x
<1>1. CASE class \notin machine.class
  BY <1>1 DEF Found, Goto, Port, Listed
<1>2. CASE class \in machine.class
  BY <1>2 DEF Found, Goto, Port, Listed
<1> QED
  BY <1>1, <1>2

\* A step at an open port that does not close it.
Keeps(S) ==
  /\ pc' \in Open \cup {"done"} /\ x' = x /\ machine' = machine
  /\ Holds(S)' /\ Listed(S)

\* What the buffer holds and how long it is stays, or is what was read.
LEMMA BufferKept ==
  ASSUME NEW S, Holds(S), UNCHANGED <<pnp_string, pnp_strlen>>, pending' \in Seq(S), got' \in Seq(S)
  PROVE  Holds(S)'
BY DEF Holds

LEMMA BufferRead ==
  ASSUME NEW S, S \subseteq Byte, pending' \in Seq(S), got' \in Seq(S),
         pnp_string' = got', pnp_strlen' = Len(got')
  PROVE  Holds(S)'
<1>1. got' \in Seq(Byte)
  BY SeqMonotonic
<1>2. Len(got') \in Nat /\ \A i \in 1..Len(got') : got'[i] \in S
  OBVIOUS
<1> QED
  BY <1>1, <1>2 DEF Holds

LEMMA NothingRead ==
  ASSUME NEW S, Holds(S), UNCHANGED reading
  PROVE  Holds(S)'
BY BufferKept DEF reading, Holds

LEMMA RetrieveKeeps ==
  ASSUME NEW S, Says(S), Holds(S), pc \in Open,
         \/ init_pnp_com_seq1 \/ Seq1Fails \/ init_pnp_com_seq2
         \/ Retrieved \/ Prod \/ init_pnp_com_ati9 \/ ATI9Fails
         \/ RetrievedByATI9 \/ NothingRetrieved
  PROVE  Keeps(S)
<1>0. pending \in Seq(S) /\ got \in Seq(S) /\ <<>> \in Seq(S) /\ Device.at \in Seq(S) /\ Device.ati9 \in Seq(S)
  BY DEF Holds, Says
<1>1. CASE init_pnp_com_seq1
  <2>1. pending' \in Seq(S)
    BY <1>0, <1>1, RaisedBytes DEF init_pnp_com_seq1
  <2> QED
    BY <1>0, <1>1, <2>1, BufferKept DEF init_pnp_com_seq1, Read, Goto, Port, Keeps, Open, Listed
<1>2. CASE Seq1Fails
  BY <1>2, NothingRead DEF Seq1Fails, Goto, Port, Keeps, Open, Listed
<1>3. CASE init_pnp_com_seq2
  <2>1. pending' \in Seq(S)
    BY <1>0, <1>3, RaisedBytes DEF init_pnp_com_seq2
  <2> QED
    BY <1>0, <1>3, <2>1, BufferKept DEF init_pnp_com_seq2, Read, Goto, Port, Keeps, Open, Listed
<1>4. CASE Retrieved
  BY <1>4, NothingRead DEF Retrieved, Goto, Port, Keeps, Open, Listed
<1>5. CASE Prod
  <2>1. pending' \in Seq(S)
    BY <1>0, <1>5 DEF Prod
  <2> QED
    BY <1>0, <1>5, <2>1, BufferKept DEF Prod, Goto, Port, Keeps, Open, Listed
<1>6. CASE init_pnp_com_ati9
  <2>1. pending' \in Seq(S)
    BY <1>0, <1>6, RaisedBytes DEF init_pnp_com_ati9
  <2> QED
    BY <1>0, <1>6, <2>1, BufferKept DEF init_pnp_com_ati9, Goto, Port, Keeps, Open, Listed
<1>7. CASE ATI9Fails
  <2>1. pending' \in Seq(S)
    BY <1>0, <1>7, RaisedBytes DEF ATI9Fails
  <2> QED
    BY <1>0, <1>7, <2>1, BufferKept DEF ATI9Fails, Read, Goto, Port, Keeps, Open, Listed
<1>8. CASE RetrievedByATI9
  BY <1>8, NothingRead DEF RetrievedByATI9, Goto, Port, Keeps, Open, Listed
<1>9. CASE NothingRetrieved
  <2>1. Holds(S)'
    <3>1. <<>> \in Seq(Byte) /\ Len(<<>>) = 0
      OBVIOUS
    <3> QED
      BY <1>0, <1>9, <3>1 DEF NothingRetrieved, Holds
  <2> QED
    BY <1>9, <2>1 DEF NothingRetrieved, Goto, Port, Keeps, Open, Listed
<1> QED
  BY <1>1, <1>2, <1>3, <1>4, <1>5, <1>6, <1>7, <1>8, <1>9

LEMMA ReadKeeps ==
  ASSUME NEW S, PortsOK, Says(S), Holds(S), pc \in Open,
         ReadByte \/ ReadTimesOut \/ ReadFails \/ EchoByte \/ EchoTimesOut \/ EchoFails
  PROVE  Keeps(S)
<1>0. S \subseteq Byte /\ pending \in Seq(S) /\ got \in Seq(S) /\ <<>> \in Seq(S)
  BY DEF Holds, Says
<1>1. CASE ReadByte
  <2>1. pending' \in Seq(S) /\ got' \in Seq(S)
    <3>1. pending' \in Seq(S) /\ Head(pending) \in S
      BY <1>0, <1>1, HeardBytes DEF ReadByte
    <3> QED
      BY <1>0, <1>1, <3>1 DEF ReadByte
  <2>2. Holds(S)'
    <3>1. CASE UNCHANGED <<pnp_string, pnp_strlen>>
      BY <2>1, <3>1, BufferKept
    <3>2. CASE pnp_string' = got' /\ pnp_strlen' = Len(got')
      BY <1>0, <2>1, <3>2, BufferRead
    <3> QED
      BY <1>1, <3>1, <3>2 DEF ReadByte, ReadEnds
  <2>3. pc' \in Open
    BY <1>1 DEF ReadByte, ReadEnds, Goto, Open
  <2> QED
    BY <1>1, <2>2, <2>3 DEF ReadByte, Port, Keeps, Listed
<1>2. CASE ReadTimesOut
  <2>1. Holds(S)'
    BY <1>0, <1>2, BufferRead DEF ReadTimesOut, ReadEnds
  <2> QED
    BY <1>2, <2>1 DEF ReadTimesOut, ReadEnds, Goto, Port, Keeps, Open, Listed
<1>3. CASE ReadFails
  <2>1. Holds(S)'
    <3> DEFINE old == SubSeq(pnp_string, Len(got) + 1, Len(pnp_string))
    <3>1. /\ Len(got) \in Nat /\ Len(pnp_string) \in Nat /\ got \in Seq(Byte) /\ pnp_string \in Seq(Byte)
          /\ \A i \in 1..Len(got) : got[i] \in S
      BY <1>0, SeqMonotonic DEF Holds
    <3>2. /\ old \in Seq(Byte)
          /\ Len(old) = IF Len(got) + 1 <= Len(pnp_string) THEN Len(pnp_string) - (Len(got) + 1) + 1 ELSE 0
          /\ \A i \in 1..Len(pnp_string) - (Len(got) + 1) + 1 : old[i] = pnp_string[(Len(got) + 1) + i - 1]
      <4>1. \A i \in Len(got) + 1..Len(pnp_string) : pnp_string[i] \in Byte
        BY <3>1
      <4>2. Len(got) + 1 \in Int /\ Len(pnp_string) \in Int
        BY <3>1
      <4> QED
        BY <4>1, <4>2, SubSeqProperties
    <3> HIDE DEF old
    <3>3. /\ pnp_string' \in Seq(Byte) /\ Len(pnp_string') = Len(got) + Len(old)
          /\ \A i \in 1..Len(got) + Len(old) : pnp_string'[i] = IF i <= Len(got) THEN got[i] ELSE old[i - Len(got)]
      BY <1>3, <3>1, <3>2, ConcatProperties DEF ReadFails, old
    <3>4. pnp_strlen' = pnp_strlen /\ pnp_strlen \in 0..Len(pnp_string) /\ \A i \in 1..pnp_strlen : pnp_string[i] \in S
      BY <1>3 DEF ReadFails, Holds
    <3>5. pnp_strlen \in 0..Len(pnp_string')
      BY <3>1, <3>2, <3>3, <3>4
    <3>6. ASSUME NEW i \in 1..pnp_strlen PROVE pnp_string'[i] \in S
      <4>1. CASE i <= Len(got)
        BY <3>1, <3>3, <3>5, <3>6, <4>1
      <4>2. CASE ~(i <= Len(got))
        <5>1. i \in 1..Len(got) + Len(old) /\ i - Len(got) \in 1..Len(pnp_string) - (Len(got) + 1) + 1
          BY <3>1, <3>2, <3>3, <3>4, <3>5, <3>6, <4>2
        <5>2. (Len(got) + 1) + (i - Len(got)) - 1 = i
          BY <3>1, <3>6
        <5>3. pnp_string'[i] = pnp_string[i]
          BY <3>2, <3>3, <4>2, <5>1, <5>2
        <5> QED
          BY <3>4, <3>6, <5>3
      <4> QED
        BY <4>1, <4>2
    <3> QED
      BY <1>0, <1>3, <3>3, <3>4, <3>5, <3>6 DEF ReadFails, Holds
  <2>2. pc' \in Open
    BY <1>3 DEF PortsOK, ReadFails, Goto, Open
  <2> QED
    BY <1>3, <2>1, <2>2 DEF ReadFails, Port, Keeps, Listed
<1>4. CASE EchoByte
  <2>1. pending' \in Seq(S) /\ Head(pending) \in S
    BY <1>0, <1>4, HeardBytes DEF EchoByte
  <2>2. got' \in {<<>>, Append(got, Head(pending))} /\ pc' \in Open
    BY <1>4 DEF EchoByte, Read, Goto, Open
  <2>3. got' \in Seq(S)
    <3>1. Append(got, Head(pending)) \in Seq(S)
      BY <1>0, <2>1
    <3> QED
      BY <1>0, <2>2, <3>1
  <2> QED
    BY <1>4, <2>1, <2>2, <2>3, BufferKept DEF EchoByte, Port, Keeps, Listed
<1>5. CASE EchoTimesOut
  BY <1>0, <1>5, BufferKept DEF EchoTimesOut, Read, Goto, Port, Keeps, Open, Listed
<1>6. CASE EchoFails
  BY <1>0, <1>6, BufferKept DEF EchoFails, Read, Goto, Port, Keeps, Open, Listed
<1> QED
  BY <1>1, <1>2, <1>3, <1>4, <1>5, <1>6

LEMMA FoundKeeps ==
  ASSUME NEW S, NEW class, NEW id, Found(class, id), Holds(S)', machine' = machine,
         id.ok => ToSet(id.eisa_id) \subseteq Letters(S)
  PROVE  Keeps(S)
<1>1. Listed(S) /\ pc' \in {"endprobe", "done"} /\ x' = x
  BY FoundIsListed
<1> QED
  BY <1>1 DEF Keeps, Open

\* A device without an identification has no letters.
LEMMA FoundNoIdKeeps ==
  ASSUME NEW S, NEW class, Found(class, NoId), Holds(S)'
  PROVE  Keeps(S)
<1>1. machine' = machine
  BY DEF Found, Port
<1>2. ~NoId.ok
  BY DEF NoId
<1> QED
  BY <1>1, <1>2, FoundKeeps

LEMMA IdentifyKeeps ==
  ASSUME NEW S, Says(S), Holds(S), pc \in Open,
         \/ Abort \/ FoundPnP
         \/ find_legacy_mouse \/ LegacyFails \/ MouseAnswers \/ MouseTimesOut \/ AnswerFails
         \/ find_legacy_modem \/ AnswerByte \/ AnswerTimesOut
  PROVE  Keeps(S)
<1>0. /\ S \subseteq Byte /\ pending \in Seq(S) /\ got \in Seq(S) /\ <<>> \in Seq(S)
      /\ Device.at \in Seq(S)
  BY DEF Holds, Says
<1>1. CASE Abort
  BY <1>1, NothingRead DEF Abort, Goto, Port, Keeps, Open, Listed
<1>2. CASE FoundPnP
  <2>1. PICK id \in {Id} : Found(DeviceClass(id), id)
    BY <1>2 DEF FoundPnP
  <2>2. Holds(S)' /\ Id.ok
    BY <1>2, NothingRead DEF FoundPnP, Parsed
  <2>3. ToSet(id.eisa_id) \subseteq Letters(S)
    BY <1>0, <2>1, <2>2, NameIsItsOwn
  <2>4. machine' = machine
    BY <2>1 DEF Found, Port
  <2> QED
    BY <2>1, <2>2, <2>3, <2>4, FoundKeeps
<1>3. CASE find_legacy_mouse
  <2>1. pending' \in Seq(S)
    BY <1>0, <1>3, RaisedBytes DEF find_legacy_mouse
  <2> QED
    BY <1>0, <1>3, <2>1, BufferKept DEF find_legacy_mouse, Goto, Port, Keeps, Open, Listed
<1>4. CASE LegacyFails
  BY <1>4, NothingRead DEF LegacyFails, Goto, Port, Keeps, Open, Listed
<1>5. CASE MouseAnswers
  <2>1. Holds(S)'
    BY <1>0, <1>5, HeardBytes, BufferKept DEF MouseAnswers
  <2>2. CASE LegacyMouse
    BY <2>1, <2>2, FoundNoIdKeeps DEF LegacyMouse
  <2>3. CASE NoMouse
    BY <2>1, <2>3 DEF NoMouse, Goto, Port, Keeps, Open, Listed
  <2> QED
    BY <1>5, <2>2, <2>3 DEF MouseAnswers
<1>6. CASE MouseTimesOut
  <2>1. Holds(S)'
    BY <1>6, NothingRead DEF MouseTimesOut
  <2>2. CASE LegacyMouse
    BY <2>1, <2>2, FoundNoIdKeeps DEF LegacyMouse
  <2>3. CASE NoMouse
    BY <2>1, <2>3 DEF NoMouse, Goto, Port, Keeps, Open, Listed
  <2> QED
    BY <1>6, <2>2, <2>3 DEF MouseTimesOut
<1>7. CASE AnswerFails
  BY <1>7, NothingRead DEF AnswerFails, Goto, Port, Keeps, Open, Listed
<1>8. CASE find_legacy_modem
  <2>1. pending' \in Seq(S)
    BY <1>0, <1>8 DEF find_legacy_modem
  <2> QED
    BY <1>0, <1>8, <2>1, BufferKept DEF find_legacy_modem, Goto, Port, Keeps, Open, Listed
<1>9. ASSUME NEW resp, AnswerEnds(resp), Holds(S)'
      PROVE  Keeps(S)
  <2>1. CASE Found("MODEM", NoId)
    BY <1>9, <2>1, FoundNoIdKeeps
  <2>2. CASE Goto("endprobe") /\ Port /\ UNCHANGED devlist
    BY <1>9, <2>2 DEF Goto, Port, Keeps, Open, Listed
  <2> QED
    BY <1>9, <2>1, <2>2 DEF AnswerEnds
<1>10. CASE AnswerByte
  <2>1. pending' \in Seq(S) /\ Head(pending) \in S
    BY <1>0, <1>10, HeardBytes DEF AnswerByte
  <2>2. got' \in Seq(S)
    BY <1>0, <1>10, <2>1 DEF AnswerByte
  <2>3. Holds(S)'
    BY <1>10, <2>1, <2>2, BufferKept DEF AnswerByte
  <2>4. CASE AnswerEnds(got')
    BY <1>9, <2>3, <2>4
  <2>5. CASE Port /\ UNCHANGED <<pc, attr, devlist, guessed>>
    BY <1>10, <2>3, <2>5 DEF Port, Keeps, Open, Listed
  <2> QED
    BY <1>10, <2>4, <2>5 DEF AnswerByte
<1>11. CASE AnswerTimesOut
  <2>1. Holds(S)'
    BY <1>11, NothingRead DEF AnswerTimesOut
  <2> QED
    BY <1>9, <1>11, <2>1 DEF AnswerTimesOut
<1> QED
  BY <1>1, <1>2, <1>3, <1>4, <1>5, <1>6, <1>7, <1>8, <1>10, <1>11

\* What is put in front of a list that is right leaves it right.
LEMMA ListGrows ==
  ASSUME ListOK, machine' = machine,
         NEW D, NEW s \in Seq(D), devlist' = s \o devlist, \A d \in D : NamedByOwn(d)
  PROVE  ListOK'
<1>1. PICK E : devlist \in Seq(E) /\ \A d \in E : NamedByOwn(d)
  BY DEF ListOK
<1> DEFINE F == D \cup E
<1>2. s \in Seq(F) /\ devlist \in Seq(F)
  BY <1>1, SeqMonotonic
<1>3. devlist' \in Seq(F)
  BY <1>2
<1>4. \A d \in F : NamedByOwn(d)'
  <2>1. \A d \in F : NamedByOwn(d)
    BY <1>1
  <2> QED
    BY <2>1 DEF NamedByOwn, Sent
<1> HIDE DEF F
<1> QED
  BY <1>3, <1>4 DEF ListOK

LEMMA ListStays ==
  ASSUME ListOK, machine' = machine, devlist' = devlist
  PROVE  ListOK'
<1>1. PICK E : devlist \in Seq(E) /\ \A d \in E : NamedByOwn(d)
  BY DEF ListOK
<1>2. \A d \in E : NamedByOwn(d)'
  BY <1>1 DEF NamedByOwn, Sent
<1> QED
  BY <1>1, <1>2 DEF ListOK

LEMMA KeepsOwn ==
  ASSUME PortsOK, OwnInv, pc \in Open, NEW S, S = Sent(x), Keeps(S)
  PROVE  OwnInv'
<1>1. OwnBytes'
  <2>1. Sent(x)' = S
    BY DEF Keeps, Sent
  <2> QED
    BY <2>1 DEF OwnInv, OwnBytes, Keeps, Open, Holds
<1>2. ListOK'
  <2>1. CASE devlist' = devlist
    BY <2>1, ListStays DEF OwnInv, Keeps
  <2>2. CASE devlist' # devlist
    <3>1. PICK class, id : /\ devlist' = <<[port |-> x, class |-> class, id |-> id]>> \o devlist
                           /\ id.ok => ToSet(id.eisa_id) \subseteq Letters(S)
      BY <2>2 DEF Keeps, Listed
    <3>2. PICK d : d = [port |-> x, class |-> class, id |-> id]
      OBVIOUS
    <3>3. NamedByOwn(d)
      BY <3>1, <3>2 DEF NamedByOwn
    <3> DEFINE D == {d}
               s == <<d>>
    <3>4. s \in Seq(D) /\ devlist' = s \o devlist
      BY <3>1, <3>2
    <3>5. \A e \in D : NamedByOwn(e)
      BY <3>3
    <3> HIDE DEF D, s
    <3>6. ListOK /\ machine' = machine
      BY DEF OwnInv, Keeps
    <3> QED
      BY <3>4, <3>5, <3>6, ListGrows
  <2> QED
    BY <2>1, <2>2
<1> QED
  BY <1>1, <1>2 DEF OwnInv, Keeps

LEMMA PortsKeepOwn ==
  ASSUME PortsOK, OwnInv, Begin \/ SkipPort \/ OpenPort \/ LastPort \/ EndProbe
  PROVE  OwnInv'
<1>0. machine' = machine /\ devlist' = devlist /\ ListOK'
  BY ListStays DEF OwnInv, Begin, SkipPort, OpenPort, LastPort, EndProbe
<1>1. CASE Begin
  BY <1>0, <1>1 DEF Begin, Goto, OwnInv, OwnBytes, Open, reading
<1>2. CASE SkipPort
  BY <1>0, <1>2 DEF SkipPort, OwnInv, OwnBytes, Open, reading
<1>3. CASE OpenPort
  <2>1. machine'.ports[x'] # NoPort
    BY <1>3 DEF OpenPort, Skipped
  <2>2. \A S : Holds(S)'
    BY <1>3 DEF OpenPort, OwnInv, OwnBytes, Holds
  <2>3. OwnBytes'
    BY <1>3, <2>1, <2>2 DEF OpenPort, Goto, OwnInv, OwnBytes, Open
  <2> QED
    BY <1>0, <2>3 DEF OwnInv
<1>4. CASE LastPort
  BY <1>0, <1>4 DEF LastPort, Goto, OwnInv, OwnBytes, Open, reading
<1>5. CASE EndProbe
  BY <1>0, <1>5 DEF EndProbe, Goto, OwnInv, OwnBytes, Open
<1> QED
  BY <1>1, <1>2, <1>3, <1>4, <1>5

LEMMA SerialKeepsOwn ==
  ASSUME PortsOK, OwnInv, SerialNext
  PROVE  OwnInv'
<1>1. CASE Begin \/ SkipPort \/ OpenPort \/ LastPort \/ EndProbe
  BY <1>1, PortsKeepOwn
<1>2. CASE ~(Begin \/ SkipPort \/ OpenPort \/ LastPort \/ EndProbe)
  <2>1. pc \in Open
    BY <1>2 DEF SerialNext, Open, init_pnp_com_seq1, Seq1Fails, init_pnp_com_seq2, ReadByte, ReadTimesOut,
         ReadFails, Retrieved, Prod, init_pnp_com_ati9, ATI9Fails, EchoByte, EchoTimesOut, EchoFails,
         RetrievedByATI9, NothingRetrieved, Abort, FoundPnP, find_legacy_mouse, LegacyFails,
         MouseAnswers, MouseTimesOut, AnswerFails, find_legacy_modem, AnswerByte, AnswerTimesOut
  <2>2. PICK S : S = Sent(x)
    OBVIOUS
  <2>3. x \in Ports /\ machine.ports[x] # NoPort /\ Holds(S)
    BY <2>1, <2>2 DEF PortsOK, OwnInv, OwnBytes
  <2>4. Says(S)
    BY <2>2, <2>3, SaysItsOwn DEF OwnInv
  <2>5. Keeps(S)
    BY <1>2, <2>1, <2>3, <2>4, RetrieveKeeps, ReadKeeps, IdentifyKeeps DEF SerialNext
  <2> QED
    BY <2>1, <2>2, <2>5, KeepsOwn
<1> QED
  BY <1>1, <1>2

LEMMA InitOwn == ProbeInit => OwnInv
<1> SUFFICES ASSUME ProbeInit PROVE OwnInv
  OBVIOUS
<1>1. <<>> \in Seq(Byte) /\ <<>> \in Seq({})
  OBVIOUS
<1>2. ListOK
  <2>1. devlist \in Seq({}) /\ \A d \in {} : NamedByOwn(d)
    BY <1>1 DEF ProbeInit, Init
  <2> QED
    BY <2>1 DEF ListOK
<1> QED
  BY <1>1, <1>2 DEF ProbeInit, Init, OwnInv, OwnBytes, Open

LEMMA StepOwn ==
  ASSUME IInv, OwnInv, [Next]_probeVars
  PROVE  OwnInv'
<1>1. CASE UNCHANGED vars
  BY <1>1, ListStays DEF vars, reading, OwnInv, OwnBytes, Holds, Sent
<1>2. CASE ProbeOther
  <2>1. PICK b \in ToSet(buses) : devlist' = Others(b)
    BY <1>2 DEF ProbeOther, ToSet
  <2>2. CASE Asked(b)
    <3> DEFINE D == [port : {-1}, class : STRING, loaded : BOOLEAN]
    <3>1. machine.others[b] \in Seq(D)
      BY OthersAssumption DEF OwnInv
    <3>2. \A d \in D : NamedByOwn(d)
      BY DEF NamedByOwn, Ports
    <3> HIDE DEF D
    <3>3. devlist' = machine.others[b] \o devlist
      BY <2>1, <2>2 DEF Others
    <3>4. ListOK'
      BY <1>2, <3>1, <3>2, <3>3, ListGrows DEF OwnInv, ProbeOther
    <3> QED
      BY <1>2, <3>4 DEF ProbeOther, reading, OwnInv, OwnBytes, Holds, Sent
  <2>3. CASE ~Asked(b)
    <3>1. ListOK'
      BY <1>2, <2>1, <2>3, ListStays DEF OwnInv, ProbeOther, Others
    <3> QED
      BY <1>2, <3>1 DEF ProbeOther, reading, OwnInv, OwnBytes, Holds, Sent
  <2> QED
    BY <2>2, <2>3
<1>3. CASE SerialStep
  BY <1>3, SerialKeepsOwn DEF SerialStep, IInv
<1> QED
  BY <1>1, <1>2, <1>3 DEF Next, Call, ProbeSerial, SerialReturns, NothingFound, SomeFound, probeVars

\* The name of a device that is found on a port is made of bytes that its own port
\* sent, whatever came late and whatever failed: for a new port serialProbe() clears
\* the length (serial.c:979) and not the buffer, and read_pnp_string() leaves the
\* length as it was when a read fails halfway (serial.c:615).
THEOREM ProbeNamesByOwnBytes == Spec => []NothingOfAnotherPort
<1>1. OwnInv => NothingOfAnotherPort
  <2> SUFFICES ASSUME OwnInv PROVE NothingOfAnotherPort
    OBVIOUS
  <2>1. PICK D : devlist \in Seq(D) /\ \A d \in D : NamedByOwn(d)
    BY DEF OwnInv, ListOK
  <2>2. \A d \in ToSet(devlist) : NamedByOwn(d)
    BY <2>1 DEF ToSet
  <2> QED
    BY <2>2 DEF NothingOfAnotherPort, NamedByOwn, Letters, Sent
<1> QED
  BY <1>1, InitOK, StepOK, InitOwn, StepOwn, PTL DEF Spec
=============================================================================
