------------------------------- MODULE SerialPnp ------------------------------
(***************************************************************************)
(* What serial.c makes of the bytes a device sends on a serial line: the   *)
(* Plug and Play identification (parse_pnp_string()) and what is read off  *)
(* it in serialProbe().  A byte is its code; 0 is the end of a string.     *)
(***************************************************************************)
EXTENDS Integers, Sequences, SequencesExt, FiniteSetsExt

BeginPnP1  == 40
BeginPnP2  == 8
EndPnP1    == 41
EndPnP2    == 9
ExtendPnP  == {92, 60}
EndPnP     == {EndPnP1, EndPnP2}
MOUSE      == <<77, 79, 85, 83, 69>>
MODEM      == <<77, 79, 68, 69, 77>>
PRINTER    == <<80, 82, 73, 78, 84, 69, 82>>

\* The first place from i on where s has a byte of C, or 0; the byte at a place; and the
\* first place before the string ends.
FirstIn(s, i, C) == LET at == {j \in i..Len(s) : s[j] \in C} IN IF at = {} THEN 0 ELSE Min(at)
ByteAt(s, i)     == IF i \in DOMAIN s THEN s[i] ELSE 0
StrPBrk(s, i, C) == LET j == FirstIn(s, i, C \cup {0}) IN IF ByteAt(s, j) = 0 THEN 0 ELSE j
Hex(d)           == IF d < 10 THEN 48 + d ELSE 55 + d

\* F of the value of v, which is computed once.
With(v, F(_)) == CHOOSE r \in {F(u) : u \in {v}} : TRUE

\* Where the identification starts: at the first opening byte that has its closing one.
Start(s) ==
  LET p1 == FirstIn(s, 1, {BeginPnP1})
      p2 == FirstIn(s, 1, {BeginPnP2})
      starts == {p \in {p1, p2} \ {0} : FirstIn(s, p, {IF p = p1 THEN EndPnP1 ELSE EndPnP2}) # 0}
  IN IF starts = {} THEN 0 ELSE Min(starts)

SixBits(s, start) == s[start] = BeginPnP2

\* A six-bit identification is shifted up, byte by byte, but for the two bytes of the revision.
Up(b) == (b + 32) % 256
Shifted(s, start) ==
  LET shift(end) == [i \in DOMAIN s |-> IF i \in start..end /\ (i = end \/ i \notin {start + 1, start + 2})
                                        THEN Up(s[i]) ELSE s[i]]
  IN IF SixBits(s, start) THEN With(FirstIn(s, start, {EndPnP2}), shift) ELSE s

\* One extension: the serial number, the class, the drivers, the name, and more that
\* are passed over.  The last one has the two bytes of the checksum behind it.
MaxLength == <<8, 33, 41, 41>>
Extension(s, x) ==
  LET from  == x.cur + 1
      delim == StrPBrk(s, from, EndPnP \cup ExtendPnP)
      to    == IF s[delim] \in EndPnP THEN delim - 2 ELSE delim
      len   == to - from
      field == SubSeq(s, from, to - 1)
  IN CASE ByteAt(s, x.cur) \notin ExtendPnP -> [x EXCEPT !.more = FALSE]
       [] ByteAt(s, x.cur) \in ExtendPnP /\ delim = 0 -> [x EXCEPT !.more = FALSE, !.ok = FALSE]
       [] ByteAt(s, x.cur) \in ExtendPnP /\ delim # 0 ->
            IF Len(x.fields) < 4 /\ (len > MaxLength[Len(x.fields) + 1] \/ (x.fields = <<>> /\ len \notin {0, 8}))
            THEN [x EXCEPT !.more = FALSE, !.ok = FALSE]
            ELSE [x EXCEPT !.cur = IF Len(x.fields) < 4 THEN to ELSE from,
                           !.fields = Append(@, field)]

\* The sum of the bytes as they were sent, without the two bytes of the checksum.
ChecksumRight(s, start, end, cur, six) ==
  LET sent(i) == IF six /\ i \notin {start + 1, start + 2} THEN s[i] - 32 ELSE s[i]
      sum     == MapThenSumSet(sent, (start..end) \ {end - 2, end - 1}) % 256
  IN <<ByteAt(s, cur), ByteAt(s, cur + 1)>> = <<Hex(sum \div 16), Hex(sum % 16)>>

NoId == [ok |-> FALSE]

\* What the extensions leave, and the identification with the fields they give.
Extensions(s, start) ==
  LET after[n \in 0..Len(s)] ==
        IF n = 0 THEN [cur |-> start + 10, fields |-> <<>>, more |-> TRUE, ok |-> TRUE]
        ELSE With(after[n - 1], LAMBDA x : IF x.more THEN Extension(s, x) ELSE x)
  IN after[Len(s)]

Identification(s, start, six, ext) ==
  LET end      == StrPBrk(s, ext.cur, EndPnP)
      field(n) == IF n <= Len(ext.fields) THEN ext.fields[n] ELSE <<>>
  IN IF ~ext.ok \/ end = 0 \/ (ext.fields # <<>> /\ ~ChecksumRight(s, start, end, ext.cur, six))
     THEN NoId
     ELSE [ok |-> TRUE, other_id |-> SubSeq(s, 1, start - 1),
           eisa_id |-> SubSeq(s, start + 3, start + 5), product_id |-> SubSeq(s, start + 6, start + 9),
           class_name |-> field(2), driver_id |-> field(3), user_name |-> field(4)]

parse_pnp_string(str) ==
  With(Start(str), LAMBDA start :
    IF start = 0 \/ start > 18 THEN NoId
    ELSE With(Shifted(str, start), LAMBDA s :
           With(Extensions(s, start), LAMBDA ext :
             Identification(s, start, SixBits(str, start), ext))))

\* What follows "PNP" in the drivers, or the product.
Compatible(id) ==
  LET pnp == {i \in 1..Len(id.driver_id) - 2 : SubSeq(id.driver_id, i, i + 2) = <<80, 78, 80>>}
  IN IF pnp = {} THEN id.product_id
     ELSE SubSeq(id.driver_id, Min(pnp) + 3, Len(id.driver_id))

DeviceClass(id) ==
  CASE \/ id.other_id # <<>> /\ id.other_id[1] = 77
       \/ IsPrefix(MOUSE, id.class_name) \/ IsPrefix(<<48, 70>>, Compatible(id)) -> "MOUSE"
    [] OTHER ->
       IF IsPrefix(MODEM, id.class_name) \/ IsPrefix(<<67>>, Compatible(id)) THEN "MODEM"
       ELSE IF IsPrefix(PRINTER, id.class_name) THEN "PRINTER" ELSE "OTHER"
===============================================================================
