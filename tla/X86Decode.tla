------------------------------ MODULE X86Decode -------------------------------
(***************************************************************************)
(* The machine of ddcprobe/x86emu and what its instructions are made of:   *)
(* registers, flags, memory, ports, the stack, the fetching of immediates, *)
(* the decoding of an address (decode.c, sys.c and the stack of            *)
(* prim_ops.c).                                                            *)
(*                                                                         *)
(* A machine is a record m:                                                *)
(*   r     the general registers, numbered as the instructions number them *)
(*   seg   the segment registers          ip    the instruction pointer    *)
(*   f     the numbers of the bits set in FLAGS                            *)
(*   mode  the prefixes seen              intr, intno  pending interrupts  *)
(*   mem   the bytes written so far       io    what was sent to the ports *)
(* and two fields nothing changes: in, what a port answers, and undef,     *)
(* what undefined behaviour yields.                                        *)
(* An operator that reads something returns [m |-> the machine after it,   *)
(* v |-> what was read]; one that is executed for its effect, a machine.   *)
(***************************************************************************)
EXTENDS Integers, Sequences, FiniteSets, FiniteSetsExt, SequencesExt

CONSTANTS
  LongBits,  \* the bits of a u32: 32 in the program
  MemSize    \* M.mem_size: 1024*1024 in the program

ASSUME WidthAssumption == LongBits \in Nat /\ LongBits % 8 = 0 /\ LongBits >= 24 /\ MemSize \in Nat

LongBytes == LongBits \div 8
Bytes(w)  == w \div 8
Mod(w, x) == x % 2^w
Bit(x, i) == (x \div 2^i) % 2 = 1
Values(w) == 0..2^w - 1
Signed(w, x) == IF Bit(x, w - 1) THEN x - 2^w ELSE x

\* What the steps 1 to n make of start.
Iterate(n, start, step(_, _)) ==
  LET after[i \in 0..n] == IF i = 0 THEN start ELSE step(after[i - 1], i) IN after[n]

\* The bits of a number, and the number a set of bits is.
Bits(x)   == {i \in 0..LongBits - 1 : Bit(x, i)}
Number(b) == Iterate(LongBits, 0, LAMBDA x, i : x + (IF i - 1 \in b THEN 2^(i - 1) ELSE 0))
And(x, y) == Number(Bits(x) \cap Bits(y))
Or(x, y)  == Number(Bits(x) \cup Bits(y))
Xor(x, y) == Number((Bits(x) \cup Bits(y)) \ (Bits(x) \cap Bits(y)))

AX == 0
CX == 1
DX == 2
BX == 3
SP == 4
BP == 5
SI == 6
DI == 7
AL == 0
CL == 1
DL == 2
BL == 3
AH == 4
CH == 5
DH == 6
BH == 7

CF == 0
PF == 2
AF == 4
ZF == 6
SF == 7
TF == 8
IF_ == 9
DF == 10
OF == 11
F_MSK       == {CF, PF, AF, ZF, SF, TF, IF_, DF, OF}
F_ALWAYS_ON == {1}

SetIf(f, cond, flag) == IF cond THEN f \cup {flag} ELSE f \ {flag}
X86EMU_halt_sys(m)   == [m EXCEPT !.intr = @ \cup {"HALTED"}]
x86emu_intr_raise(m, n) == [m EXCEPT !.intr = @ \cup {"SYNCH"}, !.intno = n]
\* What the operating system makes of a null pointer and of a division that traps.
Crash(m)             == [m EXCEPT !.intr = @ \cup {"CRASHED"}]

(***************************************************************************)
(* Memory is mostly zero: mem has the bytes that were ever written.  An    *)
(* address outside M.mem_size halts the system, and is used all the same:  *)
(* what is read there is undefined, what is written there is not memory.   *)
(***************************************************************************)
InMemory(a, n) == a <= MemSize - n

rd(m, a, n) ==
  LET at(i) == IF a + i >= MemSize THEN m.undef
               ELSE IF a + i \in DOMAIN m.mem THEN m.mem[a + i] ELSE 0
  IN  [m |-> IF InMemory(a, n) THEN m ELSE X86EMU_halt_sys(m),
       v |-> Iterate(n, 0, LAMBDA x, i : 256 * x + at(n - i))]

wr(m, a, n, v) ==
  LET new == {x \in a..a + n - 1 : x < MemSize}
  IN  [IF InMemory(a, n) THEN m ELSE X86EMU_halt_sys(m) EXCEPT
         !.mem = [x \in DOMAIN @ \cup new |-> IF x \in new THEN Mod(8, v \div 2^(8 * (x - a))) ELSE @[x]]]

Linear(segment, offset) == Mod(LongBits, segment * 16 + offset)

fetch_data_abs(m, w, segment, offset)    == rd(m, Linear(segment, offset), Bytes(w))
store_data_abs(m, w, segment, offset, v) == wr(m, Linear(segment, offset), Bytes(w), v)

(***************************************************************************)
(* The segment of a data access.                                           *)
(***************************************************************************)
Segments == {"ES", "CS", "SS", "DS", "FS", "GS"}
SegOvr   == [SEGOVR_ES |-> "ES", SEGOVR_CS |-> "CS", SEGOVR_SS |-> "SS",
             SEGOVR_DS |-> "DS", SEGOVR_FS |-> "FS", SEGOVR_GS |-> "GS"]
SYSMODE_CLRMASK == DOMAIN SegOvr \cup {"SEG_DS_SS", "PREFIX_DATA", "PREFIX_ADDR"}
Rep     == {"PREFIX_REPE", "PREFIX_REPNE"}

get_data_segment(m) ==
  LET o == m.mode \cap DOMAIN SegOvr IN
    IF o = {} THEN [m |-> m, v |-> m.seg[IF "SEG_DS_SS" \in m.mode THEN "SS" ELSE "DS"]]
    ELSE IF Cardinality(o) > 1 THEN [m |-> X86EMU_halt_sys(m), v |-> 0]
    ELSE [m |-> m, v |-> m.seg[SegOvr[CHOOSE x \in o : TRUE]]]

\* s is what get_data_segment() gives.
FetchIn(s, w, offset)    == fetch_data_abs(s.m, w, s.v, offset)
StoreIn(s, w, offset, v) == store_data_abs(s.m, w, s.v, offset, v)

fetch_data(m, w, offset)    == FetchIn(get_data_segment(m), w, offset)
store_data(m, w, offset, v) == StoreIn(get_data_segment(m), w, offset, v)

(***************************************************************************)
(* Immediates and the ModRM byte.                                          *)
(***************************************************************************)
SetIp(m, ip)    == [m EXCEPT !.ip = Mod(16, ip)]
Skip(b, n)      == [b EXCEPT !.m = SetIp(@, b.m.ip + n)]
fetch_imm(m, w) == Skip(rd(m, Linear(m.seg["CS"], m.ip), Bytes(w)), Bytes(w))

fetch_byte_imm(m) == fetch_imm(m, 8)
fetch_word_imm(m) == fetch_imm(m, 16)
fetch_long_imm(m) == fetch_imm(m, LongBits)

SplitModRM(b) == [m |-> b.m, mod |-> b.v \div 64, rh |-> (b.v \div 8) % 8, rl |-> b.v % 8]
fetch_decode_modrm(m) == SplitModRM(fetch_byte_imm(m))

(***************************************************************************)
(* Registers.                                                              *)
(***************************************************************************)
Reg8(m, n)     == IF n < 4 THEN Mod(8, m.r[n]) ELSE Mod(8, m.r[n - 4] \div 256)
SetReg8(m, n, v) ==
  LET old == m.r[n % 4]
  IN  [m EXCEPT !.r[n % 4] = IF n < 4 THEN (old - Mod(8, old)) + v
                                      ELSE (old - Mod(16, old)) + v * 256 + Mod(8, old)]
Reg16(m, n)       == Mod(16, m.r[n])
\* A mutant: a word clears the upper half of the register.
SetReg16Whole(m, n, v) == [m EXCEPT !.r[n] = Mod(16, v)]

SetReg16(m, n, v) == [m EXCEPT !.r[n] = (@ - Mod(16, @)) + Mod(16, v)]
Reg32(m, n)       == m.r[n]
SetReg32(m, n, v) == [m EXCEPT !.r[n] = Mod(LongBits, v)]

Reg(m, w, n) == IF w = 8 THEN Reg8(m, n) ELSE IF w = 16 THEN Reg16(m, n) ELSE Reg32(m, n)
SetReg(m, w, n, v) ==
  IF w = 8 THEN SetReg8(m, n, v) ELSE IF w = 16 THEN SetReg16(m, n, v) ELSE SetReg32(m, n, v)

\* There are six: for the two other numbers the program follows a null pointer.
decode_rm_seg_register == <<"ES", "CS", "SS", "DS", "FS", "GS">>
IsSegment(n)      == n < 6
SegReg(m, n)      == m.seg[decode_rm_seg_register[n + 1]]
SetSeg(m, name, v) == [m EXCEPT !.seg[name] = v]

(***************************************************************************)
(* The stack: SP is a word, and wraps; ESP keeps its upper half.           *)
(***************************************************************************)
\* A mutant: the word is written where SP was.
PushPost(m, w, v) ==
  SetReg16(store_data_abs(m, w, m.seg["SS"], Reg16(m, SP), v), SP, Reg16(m, SP) - Bytes(w))

PutTop(n, w, v) == store_data_abs(n, w, n.seg["SS"], Reg16(n, SP), v)
push(m, w, v)   == PutTop(SetReg16(m, SP, Reg16(m, SP) - Bytes(w)), w, v)

Popped(s, w) == [s EXCEPT !.m = SetReg16(@, SP, Reg16(@, SP) + Bytes(w))]
pop(m, w)    == Popped(fetch_data_abs(m, w, m.seg["SS"], Reg16(m, SP)), w)

PushAll(m, w, vs) == Iterate(Len(vs), m, LAMBDA n, i : push(n, w, vs[i]))

mem_access_word(m, a) == rd(m, a, 2)

(***************************************************************************)
(* The offset of a memory operand.  It is a u32: what does not fit in 16   *)
(* bits is not taken off.                                                  *)
(***************************************************************************)
Stack(m) == [m EXCEPT !.mode = @ \cup {"SEG_DS_SS"}]
Plus(a, d) == [m |-> a.m, v |-> Mod(LongBits, a.v + d)]

Base16(m, rm) ==
  [m |-> IF rm \in {2, 3, 6} THEN Stack(m) ELSE m,
   v |-> LET r(n) == Reg16(m, n)
         IN  <<r(BX) + r(SI), r(BX) + r(DI), r(BP) + r(SI), r(BP) + r(DI),
               r(SI), r(DI), r(BP), r(BX)>>[rm + 1]]

SibBase(m, b, mod) ==
  CASE b = 5 /\ mod = 0 -> fetch_long_imm(m)
    [] b \in {4, 5} /\ ~(b = 5 /\ mod = 0) -> [m |-> Stack(m), v |-> m.r[SP]]
    [] OTHER -> [m |-> m, v |-> m.r[b]]

SibIndex(m, x, scale) == IF x = 4 THEN 0 ELSE m.r[x] * 2^scale

decode_sib_address(m, sib, mod) ==
  Plus(SibBase(m, sib % 8, mod), SibIndex(m, (sib \div 8) % 8, sib \div 64))

Sib(s, mod)      == decode_sib_address(s.m, s.v, mod)
Register(m, rm)  == [m |-> m, v |-> m.r[rm]]

\* What a displacement is added to is computed before it is fetched here, and after it
\* in the program: neither depends on the other.
PlusImm(a, d) == Plus([m |-> d.m, v |-> a.v], d.v)
PlusByte(a)   == LET d == fetch_byte_imm(a.m) IN Plus([m |-> d.m, v |-> a.v], Signed(8, d.v))
PlusWord(a)   == PlusImm(a, fetch_word_imm(a.m))
PlusLong(a)   == PlusImm(a, fetch_long_imm(a.m))

decode_rm00_address(m, rm) ==
  IF "PREFIX_ADDR" \in m.mode
  THEN CASE rm = 4 -> Sib(fetch_byte_imm(m), 0)
         [] rm = 5 -> fetch_long_imm(m)
         [] OTHER  -> Register(m, rm)
  ELSE IF rm = 6 THEN fetch_word_imm(m) ELSE Base16(m, rm)

decode_rm01_address(m, rm) ==
  PlusByte(IF "PREFIX_ADDR" \notin m.mode THEN Base16(m, rm)
           ELSE IF rm = 4 THEN Sib(fetch_byte_imm(m), 1) ELSE Register(m, rm))

decode_rm10_address(m, rm) ==
  IF "PREFIX_ADDR" \notin m.mode THEN PlusWord(Base16(m, rm))
  ELSE PlusLong(CASE rm = 4 -> Sib(fetch_byte_imm(m), 2)
                  [] rm = 2 -> Register(Stack(m), rm)
                  [] OTHER  -> Register(m, rm))

decode_address(d) ==
  CASE d.mod = 0 -> decode_rm00_address(d.m, d.rl)
    [] d.mod = 1 -> decode_rm01_address(d.m, d.rl)
    [] d.mod = 2 -> decode_rm10_address(d.m, d.rl)

(***************************************************************************)
(* An operand is a register or an offset; Decode() leaves the machine      *)
(* after the ModRM byte and what belongs to the address.                   *)
(***************************************************************************)
AtAddress(a, rh) == [m |-> a.m, rh |-> rh, mem |-> TRUE, at |-> a.v]
Operand(d) ==
  IF d.mod = 3 THEN [m |-> d.m, rh |-> d.rh, mem |-> FALSE, at |-> d.rl]
  ELSE AtAddress(decode_address(d), d.rh)

Decode(m) == Operand(fetch_decode_modrm(m))

Load(m, w, o)     == IF o.mem THEN fetch_data(m, w, o.at) ELSE [m |-> m, v |-> Reg(m, w, o.at)]
Store(m, w, o, v) == IF o.mem THEN store_data(m, w, o.at, v) ELSE SetReg(m, w, o.at, v)

\* The operand with the value v it has.
WithValue(o, d) == [m |-> d.m, rh |-> o.rh, mem |-> o.mem, at |-> o.at, v |-> d.v]
Loaded(w, o)    == WithValue(o, Load(o.m, w, o))

\* A mutant: the bit of the stack is not in the mask.
ClearOverridesOnly(m) == [m EXCEPT !.mode = @ \ (SYSMODE_CLRMASK \ {"SEG_DS_SS"})]

DECODE_CLEAR_SEGOVR(m) == [m EXCEPT !.mode = @ \ SYSMODE_CLRMASK]

OpSize(m) == IF "PREFIX_DATA" \in m.mode THEN LongBits ELSE 16
===============================================================================
