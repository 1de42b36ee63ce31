------------------------------- MODULE X86Prims -------------------------------
(***************************************************************************)
(* The arithmetic of ddcprobe/x86emu: prim_ops.c.                          *)
(*                                                                         *)
(* The program has each function three times, for bytes, words and longs;  *)
(* w is the width here.  An operation on one or two operands takes the     *)
(* flags f and returns <<result, flags>>; one that works on the registers  *)
(* takes and returns the machine.                                          *)
(***************************************************************************)
EXTENDS X86Decode

PARITY(x) == Cardinality({i \in 0..7 : Bit(x, i)}) % 2 = 0
Xor2(x, i) == Bit(x, i) # Bit(x, i + 1)

\* ZF, SF and PF tell of the result what they always tell.
SetSZP(f, w, res) ==
  (f \ {SF, ZF, PF}) \cup {b \in {SF, ZF, PF} :
     CASE b = SF -> Bit(res, w - 1) [] b = ZF -> res = 0 [] b = PF -> PARITY(res)}

\* Bit i of the carry chain of d + s and of the borrow chain of d - s.
Carry(d, s, res, i)  == (Bit(s, i) /\ Bit(d, i)) \/ (~Bit(res, i) /\ (Bit(s, i) \/ Bit(d, i)))
Borrow(d, s, res, i) == (Bit(res, i) /\ (~Bit(d, i) \/ Bit(s, i))) \/ (~Bit(d, i) /\ Bit(s, i))

SetChain(f, w, c(_)) == SetIf(SetIf(f, c(w - 2) # c(w - 1), OF), c(3), AF)

(***************************************************************************)
(* Decimal adjustment.                                                     *)
(***************************************************************************)
Unpack(f, d, step) ==
  LET adjust == d % 16 > 9 \/ AF \in f
      res    == And(Mod(16, IF adjust THEN d + step ELSE d), 65295)
      f1     == IF adjust THEN f \cup {AF, CF} ELSE f \ {AF, CF}
  IN  <<res, SetIf(SetIf(f1 \ {SF}, res = 0, ZF), PARITY(res), PF)>>

aaa_word(f, d) == Unpack(f, d, 262)
aas_word(f, d) == Unpack(f, d, -262)

aad_word(f, d) ==
  LET l == Mod(8, Mod(8, d) + 10 * (d \div 256)) IN <<l, SetSZP(f \ {CF, AF, OF}, 8, l)>>

aam_word(f, d) ==
  LET l == (d % 10) + 256 * (d \div 10)
  IN  <<l, SetSZP(f \ {CF, AF, OF}, 8, l)>>

\* A mutant: the second adjustment looks at the digit the first one has changed.
DaaByteCarryLost(f, d) ==
  LET low  == d % 16 > 9 \/ AF \in f
      r1   == IF low THEN d + 6 ELSE d
      high == r1 > 159
      res  == Mod(8, IF high THEN r1 + 96 ELSE r1)
  IN  <<res, SetSZP(f \cup (IF low THEN {AF} ELSE {}) \cup (IF high THEN {CF} ELSE {}), 8, res)>>

daa_byte(f, d) ==
  LET low  == d % 16 > 9 \/ AF \in f
      r1   == IF low THEN d + 6 ELSE d
      high == r1 > 159 \/ CF \in f
      res  == Mod(8, IF high THEN r1 + 96 ELSE r1)
  IN  <<res, SetSZP(f \cup (IF low THEN {AF} ELSE {}) \cup (IF high THEN {CF} ELSE {}), 8, res)>>

das_byte(f, d) ==
  LET low  == d % 16 > 9 \/ AF \in f
      r1   == Mod(8, IF low THEN d - 6 ELSE d)
      high == r1 > 159 \/ CF \in f
      res  == Mod(8, IF high THEN r1 - 96 ELSE r1)
  IN  <<res, SetSZP(f \cup (IF low THEN {AF} ELSE {}) \cup (IF high THEN {CF} ELSE {}), 8, res)>>

(***************************************************************************)
(* Addition, subtraction and what is made of them.                         *)
(***************************************************************************)
Sum(w, f, d, s, c) ==
  LET full == d + s + c
      res  == Mod(w, full)
  IN  <<res, SetChain(SetSZP(SetIf(f, full >= 2^w, CF), w, res), w,
                      LAMBDA i : Carry(d, s, res, i))>>

\* A mutant: the carry of the last addition is not added.
AdcNoCarry(w, f, d, s) == Sum(w, f, d, s, 0)

adc(w, f, d, s) == Sum(w, f, d, s, IF CF \in f THEN 1 ELSE 0)
add(w, f, d, s) == Sum(w, f, d, s, 0)

Difference(w, f, d, s, c) ==
  LET res == Mod(w, d - s - c)
  IN  <<res, SetChain(SetIf(SetSZP(f, w, res), Borrow(d, s, res, w - 1), CF), w,
                      LAMBDA i : Borrow(d, s, res, i))>>

sbb(w, f, d, s) == Difference(w, f, d, s, IF CF \in f THEN 1 ELSE 0)
sub(w, f, d, s) == Difference(w, f, d, s, 0)
cmp(w, f, d, s) == <<d, Difference(w, f, d, s, 0)[2]>>

\* CF is left as it is.
inc(w, f, d) ==
  LET res == Mod(w, d + 1)
  IN  <<res, SetChain(SetSZP(f, w, res), w, LAMBDA i : Carry(d, 1, res, i))>>
dec(w, f, d) ==
  LET res == Mod(w, d - 1)
  IN  <<res, SetChain(SetSZP(f, w, res), w, LAMBDA i : Borrow(d, 1, res, i))>>

neg(w, f, s) ==
  LET res == Mod(w, -s)
  IN  <<res, SetChain(SetSZP(SetIf(f, s # 0, CF), w, res), w, LAMBDA i : Bit(res, i) \/ Bit(s, i))>>

not(w, f, s) == <<2^w - 1 - s, f>>

(***************************************************************************)
(* Logic.  TEST leaves AF alone, the others clear it.                      *)
(***************************************************************************)
Logic(w, f, res) == <<res, SetSZP(f \ {OF, CF, AF}, w, res)>>
and(w, f, d, s)  == Logic(w, f, And(d, s))
or(w, f, d, s)   == Logic(w, f, Or(d, s))
xor(w, f, d, s)  == Logic(w, f, Xor(d, s))
test(w, f, d, s) == <<d, SetSZP(f \ {OF, CF}, w, And(d, s))>>

(***************************************************************************)
(* Rotation.  With the carry flag, the register has w + 1 bits.            *)
(***************************************************************************)
Shl(w, d, n)  == (d % 2^(w - n)) * 2^n
One(f, flag) == IF flag \in f THEN 1 ELSE 0

\* A mutant: the bit that the carry flag becomes is the one beside it.
RclOff(u, w, f, d, s) ==
  LET cnt == s % (w + 1)
      res == Shl(w, d, cnt) + One(f, CF) * 2^(cnt - 1) + d \div 2^(w + 1 - cnt)
      cf  == IF cnt = w THEN Bit(d, 1) ELSE Bit(d, w - 1 - cnt)
  IN  IF cnt = 0 THEN <<d, f>>
      ELSE <<res, SetIf(SetIf(f, cf, CF), cnt = 1 /\ cf # Bit(res, w - 1), OF)>>

\* A long rotated by its width shifts by it, which C leaves undefined: with u nothing
\* is shifted.  rcr() takes only what its mask, which is 0 then, leaves of such a shift.
rcl(u, w, f, d, s) ==
  LET cnt == s % (w + 1)
      sum == Shl(w, d, cnt) + One(f, CF) * 2^(cnt - 1) + d \div 2^(w + 1 - cnt)
      res == IF u /\ cnt = LongBits THEN Or(d, sum) ELSE sum
      cf  == Bit(d, w - cnt)
  IN  IF cnt = 0 THEN <<d, f>>
      ELSE <<res, SetIf(SetIf(f, cf, CF), cnt = 1 /\ cf # Bit(res, w - 1), OF)>>

rcr(w, f, d, s) ==
  LET cnt == s % (w + 1)
      res == Mod(w, d \div 2^cnt + One(f, CF) * 2^(w - cnt)
                    + (IF cnt = 1 THEN 0 ELSE (d % 2^(cnt - 1)) * 2^(w + 1 - cnt)))
      g   == SetIf(f, Bit(d, cnt - 1), CF)
  IN  IF cnt = 0 THEN <<d, f>>
      ELSE <<res, IF cnt = 1 THEN SetIf(g, (CF \in f) # Bit(d, w - 1), OF) ELSE g>>

rol(w, f, d, s) ==
  LET cnt == s % w
      res == IF cnt = 0 THEN d ELSE Shl(w, d, cnt) + d \div 2^(w - cnt)
      g   == IF cnt = 0 THEN f
             ELSE SetIf(f, s = 1 /\ Bit(res, 0) # Bit(res, w - 1), OF)
  IN  <<res, IF s = 0 THEN g ELSE SetIf(g, Bit(res, 0), CF)>>

ror(w, f, d, s) ==
  LET cnt == s % w
      res == IF cnt = 0 THEN d ELSE Shl(w, d, w - cnt) + d \div 2^cnt
      g   == IF cnt = 0 THEN f
             ELSE SetIf(f, s = 1 /\ Xor2(res, w - 2), OF)
  IN  <<res, IF s = 0 THEN g ELSE SetIf(g, Bit(res, w - 1), CF)>>

(***************************************************************************)
(* Shifts.  The count is not taken modulo the width, as a processor does   *)
(* it.  For a count above 32 the carry comes from a shift that has no      *)
(* value in C, and is u, what undefined behaviour yields.                  *)
(***************************************************************************)
ShiftedLeft(u, w, f, d, fill, s) ==
  LET res   == Shl(w, d, s) + fill \div 2^(w - s)
      g     == SetSZP(SetIf(f, Bit(d, w - s), CF), w, res)
      carry == IF s > 32 THEN u ELSE s = w /\ Bit(d, 0)
  IN  CASE s = 0 -> <<d, f \ {OF}>>
        [] s \in 1..w - 1 -> <<res, SetIf(g, s = 1 /\ Bit(res, w - 1) # (CF \in g), OF)>>
        [] s >= w -> <<0, SetSZP(SetIf(f \ {OF}, carry, CF), w, 0)>>

\* Bytes alone have a carry and a parity when everything is shifted out.
ShiftedOut(u, w, f, d, s) ==
  IF w = 8
  THEN <<0, SetSZP(SetIf(f \ {OF}, IF s > 32 THEN u ELSE s = 8 /\ Bit(d, 7), CF), w, 0)>>
  ELSE <<0, (f \ {CF, OF, SF, PF}) \cup {ZF}>>

ShiftedRight(u, w, f, d, fill, s) ==
  LET res == d \div 2^s + Shl(w, fill, w - s)
      g   == SetSZP(SetIf(f, Bit(d, s - 1), CF), w, res)
  IN  CASE s = 0 -> <<d, f \ {OF}>>
        [] s \in 1..w - 1 -> <<res, SetIf(g, s = 1 /\ Xor2(res, w - 2), OF)>>
        [] s >= w -> ShiftedOut(u, w, f, d, s)

shl(u, w, f, d, s)        == ShiftedLeft(u, w, f, d, 0, s)
shr(u, w, f, d, s)        == ShiftedRight(u, w, f, d, 0, s)
shld(u, w, f, d, fill, s) == ShiftedLeft(u, w, f, d, fill, s)
shrd(u, w, f, d, fill, s) == ShiftedRight(u, w, f, d, fill, s)

sar(w, f, d, s) ==
  LET cnt == s % w
      res == d \div 2^cnt + (IF Bit(d, w - 1) THEN 2^w - 2^(w - cnt) ELSE 0)
  IN  IF cnt = 0 THEN <<d, f>> ELSE <<res, SetSZP(SetIf(f, Bit(d, cnt - 1), CF), w, res)>>

(***************************************************************************)
(* Numbers of two registers: <<high, low>>.                                *)
(***************************************************************************)
Negate(w, p)  == IF p[2] = 0 THEN <<Mod(w, -p[1]), 0>> ELSE <<2^w - 1 - p[1], 2^w - p[2]>>
Magnitude(w, x) == IF Bit(x, w - 1) THEN 2^w - x ELSE x

Product(w, a, b) ==
  Iterate(w, <<0, 0>>,
          LAMBDA p, i : LET lo == 2 * p[2] + (IF Bit(b, w - i) THEN a ELSE 0)
                        IN  <<Mod(w, 2 * p[1] + lo \div 2^w), Mod(w, lo)>>)

SignedProduct(w, a, b) ==
  LET p == Product(w, Magnitude(w, a), Magnitude(w, b))
  IN  IF Bit(a, w - 1) # Bit(b, w - 1) THEN Negate(w, p) ELSE p

\* <<quotient, remainder>>, the quotient of two registers.
Quotient(w, p, s) ==
  LET low == Iterate(w, <<0, p[1] % s>>,
                     LAMBDA a, i : LET t == 2 * a[2] + (IF Bit(p[2], w - i) THEN 1 ELSE 0)
                                   IN  <<2 * a[1] + t \div s, t % s>>)
  IN  <<<<p[1] \div s, low[1]>>, low[2]>>

Wide(m, w)       == IF w = 8 THEN <<Reg8(m, AH), Reg8(m, AL)>> ELSE <<Reg(m, w, DX), Reg(m, w, AX)>>
SetWide(m, w, p) == SetReg(SetReg(m, w, AX, p[2]), w, IF w = 8 THEN AH ELSE DX, p[1])
SetCFOF(f, c)    == SetIf(SetIf(f, c, CF), c, OF)

(***************************************************************************)
(* Multiplication.  The product of two longs is computed in a long: its    *)
(* upper half is the sign, or nothing.                                     *)
(***************************************************************************)
imul_long_direct(d, s) ==
  LET lo == SignedProduct(LongBits, d, s)[2]
  IN  <<IF Bit(lo, LongBits - 1) THEN 2^LongBits - 1 ELSE 0, lo>>

imul(m, w, s) ==
  LET p   == IF w = LongBits THEN imul_long_direct(Reg(m, w, AX), s)
                             ELSE SignedProduct(w, Reg(m, w, AX), s)
      fit == p[1] = (IF Bit(p[2], w - 1) THEN 255 ELSE 0)
  IN  [SetWide(m, w, p) EXCEPT !.f = SetCFOF(@, ~fit)]

mul(m, w, s) ==
  LET full == Product(w, Reg(m, w, AX), s)
      p    == IF w = LongBits THEN <<0, full[2]>> ELSE full
  IN  [SetWide(m, w, p) EXCEPT !.f = SetCFOF(@, p[1] # 0)]

(***************************************************************************)
(* Division.  The quotient is compared with the largest one as an int:     *)
(* one of words that is almost 2^32 passes for a small negative one, and   *)
(* one of longs is never too large.  The smallest int has no absolute      *)
(* value, and divided by -1 it kills the program.                          *)
(***************************************************************************)
DivideFlags(f, w, zero, mod) ==
  CASE w = 8        -> f
    [] w = 16       -> SetIf(SetIf(f \ {CF, SF}, zero, ZF), PARITY(Mod(8, mod)), PF)
    [] w = LongBits -> SetIf((f \ {CF, AF, SF}) \cup {ZF}, PARITY(Mod(8, mod)), PF)

DivOverflows(m, w, q) ==
  CASE w = 8        -> q[1] # 0
    [] w = 16       -> IF q = <<32768, 0>> THEN m.undef # 0
                       ELSE q[1] # 0 /\ ~(q[1] = 65535 /\ q[2] # 0)
    [] w = LongBits -> FALSE

\* A mutant: the remainder is stored before the quotient is known to fit.
DivStoresFirst(m, w, s) ==
  LET d == Quotient(w, Wide(m, w), s)
      n == SetWide(m, w, <<d[2], d[1][2]>>)
  IN  IF s = 0 THEN x86emu_intr_raise(m, 0)
      ELSE IF DivOverflows(m, w, d[1]) THEN x86emu_intr_raise(n, 0)
      ELSE [n EXCEPT !.f = DivideFlags(@, w, d[1] = <<0, 0>>, d[2])]

div(m, w, s) ==
  LET d == Quotient(w, Wide(m, w), s)
  IN  IF s = 0 \/ DivOverflows(m, w, d[1]) THEN x86emu_intr_raise(m, 0)
      ELSE [SetWide(m, w, <<d[2], d[1][2]>>) EXCEPT
              !.f = DivideFlags(@, w, d[1] = <<0, 0>>, d[2])]

IdivOverflows(m, w, q) ==
  CASE w = 8        -> q[1] # 0 \/ q[2] > 127
    [] w = 16       -> IF q = <<32768, 0>> THEN m.undef # 0 ELSE q[1] # 0 \/ q[2] > 32767
    [] w = LongBits -> FALSE

\* A mutant: the quotient has the sign of the dividend.
IdivSignOfDividend(m, w, s) ==
  LET dvd  == Wide(m, w)
      neg_ == Bit(dvd[1], w - 1)
      d    == Quotient(w, IF neg_ THEN Negate(w, dvd) ELSE dvd, Magnitude(w, s))
      q    == IF neg_ THEN Mod(w, -d[1][2]) ELSE d[1][2]
      mod  == IF neg_ THEN Mod(w, -d[2]) ELSE d[2]
  IN  IF s = 0 \/ IdivOverflows(m, w, d[1]) THEN x86emu_intr_raise(m, 0)
      ELSE [SetWide(m, w, <<mod, q>>) EXCEPT !.f = DivideFlags(@, w, d[1] = <<0, 0>>, mod)]

idiv(m, w, s) ==
  LET dvd  == Wide(m, w)
      neg_ == Bit(dvd[1], w - 1)
      d    == Quotient(w, IF neg_ THEN Negate(w, dvd) ELSE dvd, Magnitude(w, s))
      q    == IF neg_ # Bit(s, w - 1) THEN Mod(w, -d[1][2]) ELSE d[1][2]
      mod  == IF neg_ THEN Mod(w, -d[2]) ELSE d[2]
  IN  IF s = 0 THEN x86emu_intr_raise(m, 0)
      ELSE IF w # 8 /\ dvd = <<2^(w - 1), 0>> /\ s = 2^w - 1
      THEN Crash(m)
      ELSE IF IdivOverflows(m, w, d[1]) THEN x86emu_intr_raise(m, 0)
      ELSE [SetWide(m, w, <<mod, q>>) EXCEPT !.f = DivideFlags(@, w, d[1] = <<0, 0>>, mod)]

(***************************************************************************)
(* Ports, and the instructions that repeat.                                *)
(***************************************************************************)
sys_in(m, w)     == Iterate(Bytes(w), 0, LAMBDA x, i : 256 * x + m.in)
sys_out(m, port, w, v) == [m EXCEPT !.io = Append(@, <<port, w, v>>)]

Step(m, w)         == IF DF \in m.f THEN -Bytes(w) ELSE Bytes(w)
Advance(m, n, w)   == SetReg16(m, n, Reg16(m, n) + Step(m, w))
Repeat(m, n, body(_)) == Iterate(n, m, LAMBDA x, i : body(x))
EndRep(m)          == [m EXCEPT !.mode = @ \ Rep]
RepCount(m)        == IF "PREFIX_DATA" \in m.mode THEN Reg32(m, CX) ELSE Reg16(m, CX)
ClearCount(m)      == IF "PREFIX_DATA" \in m.mode THEN SetReg32(m, CX, 0) ELSE SetReg16(m, CX, 0)

InsOnce(m, w)  == Advance(store_data_abs(m, w, m.seg["ES"], Reg16(m, DI), sys_in(m, w)), DI, w)
OutsOnce(m, w) ==
  LET d == fetch_data_abs(m, w, m.seg["ES"], Reg16(m, SI))
  IN  Advance(sys_out(d.m, Reg16(m, DX), w, d.v), SI, w)

\* Longs go through the port once, whatever the count.
PortCount(m, w) == IF w = LongBits /\ RepCount(m) > 0 THEN 1 ELSE RepCount(m)

ins(m, w) ==
  IF m.mode \cap Rep = {} THEN InsOnce(m, w)
  ELSE EndRep(ClearCount(Repeat(m, PortCount(m, w), LAMBDA x : InsOnce(x, w))))

outs(m, w) ==
  IF m.mode \cap Rep = {} THEN OutsOnce(m, w)
  ELSE EndRep(ClearCount(Repeat(m, PortCount(m, w), LAMBDA x : OutsOnce(x, w))))
===============================================================================
