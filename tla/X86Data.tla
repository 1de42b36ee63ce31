------------------------------- MODULE X86Data --------------------------------
(***************************************************************************)
(* The instructions of one byte of ddcprobe/x86emu that compute and move   *)
(* data: their handlers in ops.c, under their names, as functions of the   *)
(* machine.  Many have one shape, and it is written once; w is the width   *)
(* of the operands, 8, 16 or LongBits, which the prefix of the data        *)
(* decides (OpSize).                                                       *)
(***************************************************************************)
EXTENDS X86Prims

(***************************************************************************)
(* What an instruction ends with, and the shapes of instructions.          *)
(***************************************************************************)
Done(m) == DECODE_CLEAR_SEGOVR(m)
Flags(m, f) == [m EXCEPT !.f = f]

\* x is what an operation gives; o is an operand that was loaded, or an immediate.
StoreResult(w, o, x)   == Done(Store(Flags(o.m, x[2]), w, o, x[1]))
RegResult(w, o, rh, x) == Done(SetReg(Flags(o.m, x[2]), w, rh, x[1]))
FlagsResult(o, x)      == Done(Flags(o.m, x[2]))

\* op of the operand and a register, of a register and the operand, of AL, AX or EAX
\* and an immediate.
Op_RM_R(op(_, _, _, _), w, o)  == op(w, o.m.f, o.v, Reg(o.m, w, o.rh))
Op_R_RM(op(_, _, _, _), w, o)  == op(w, o.m.f, Reg(o.m, w, o.rh), o.v)
Op_A_IMM(op(_, _, _, _), w, i) == op(w, i.m.f, Reg(i.m, w, AX), i.v)

Store_RM_R(op(_, _, _, _), w, o)  == StoreResult(w, o, Op_RM_R(op, w, o))
Store_R_RM(op(_, _, _, _), w, o)  == RegResult(w, o, o.rh, Op_R_RM(op, w, o))
Store_A_IMM(op(_, _, _, _), w, i) == RegResult(w, i, AX, Op_A_IMM(op, w, i))
Flags_RM_R(op(_, _, _, _), w, o)  == FlagsResult(o, Op_RM_R(op, w, o))
Flags_R_RM(op(_, _, _, _), w, o)  == FlagsResult(o, Op_R_RM(op, w, o))
Flags_A_IMM(op(_, _, _, _), w, i) == FlagsResult(i, Op_A_IMM(op, w, i))

RM_R(op(_, _, _, _), w, m)       == Store_RM_R(op, w, Loaded(w, Decode(m)))
R_RM(op(_, _, _, _), w, m)       == Store_R_RM(op, w, Loaded(w, Decode(m)))
A_IMM(op(_, _, _, _), w, m)      == Store_A_IMM(op, w, fetch_imm(m, w))
FlagsRM_R(op(_, _, _, _), w, m)  == Flags_RM_R(op, w, Loaded(w, Decode(m)))
FlagsR_RM(op(_, _, _, _), w, m)  == Flags_R_RM(op, w, Loaded(w, Decode(m)))
FlagsA_IMM(op(_, _, _, _), w, m) == Flags_A_IMM(op, w, fetch_imm(m, w))

\* op memory or register, immediate of width iw; a comparison stores nothing.
Arith(op, w, f, d, s) ==
  CASE op = 0 -> add(w, f, d, s)
    [] op = 1 -> or(w, f, d, s)
    [] op = 2 -> adc(w, f, d, s)
    [] op = 3 -> sbb(w, f, d, s)
    [] op = 4 -> and(w, f, d, s)
    [] op = 5 -> sub(w, f, d, s)
    [] op = 6 -> xor(w, f, d, s)
    [] op = 7 -> cmp(w, f, d, s)

\* i is the immediate after the operand o.
SignedImm(w, iw, i) == [i EXCEPT !.v = Mod(w, Signed(iw, @))]
Arith_IMM(w, o, i, x) ==
  IF o.rh = 7 THEN FlagsResult(i, x) ELSE StoreResult(w, [o EXCEPT !.m = i.m], x)
WithImm(w, o, i)    == Arith_IMM(w, o, i, Arith(o.rh, w, i.m.f, o.v, i.v))
FetchImm(w, iw, o)  == WithImm(w, o, SignedImm(w, iw, fetch_imm(o.m, iw)))
RM_IMM(w, iw, m)    == FetchImm(w, iw, Loaded(w, Decode(m)))

\* Rotations and shifts by amt; SHL has two numbers.
Rotate(u, op, w, f, d, amt) ==
  CASE op = 0 -> rol(w, f, d, amt)
    [] op = 1 -> ror(w, f, d, amt)
    [] op = 2 -> rcl(u, w, f, d, amt)
    [] op = 3 -> rcr(w, f, d, amt)
    [] op \in {4, 6} -> shl(u, w, f, d, amt)
    [] op = 5 -> shr(u, w, f, d, amt)
    [] op = 7 -> sar(w, f, d, amt)

\* m is the machine after the count.
RotateLoaded(w, o, amt)  == StoreResult(w, o, Rotate(o.m.undef # 0, o.rh, w, o.m.f, o.v, amt))
RotateRM(w, o, m, amt)   == RotateLoaded(w, Loaded(w, [o EXCEPT !.m = m]), amt)

Unary(op(_, _, _), w, o) == StoreResult(w, o, op(w, o.m.f, o.v))
RegOp(op(_, _, _), m, n) == LET w == OpSize(m) IN RegResult(w, [m |-> m], n, op(w, m.f, Reg(m, w, n)))

SetFrom(w, n, i) == Done(SetReg(i.m, w, n, i.v))
SegFrom(name, i) == Done(SetSeg(i.m, name, i.v))
PushReg(m, n)  == Done(push(m, OpSize(m), Reg(m, OpSize(m), n)))
PopReg(m, n)     == SetFrom(OpSize(m), n, pop(m, OpSize(m)))
PushSeg(m, name) == Done(push(m, 16, m.seg[name]))
PopSeg(m, name)  == SegFrom(name, pop(m, 16))
MovImm(w, m, n)  == SetFrom(w, n, fetch_imm(m, w))
Prefix(m, p)     == [m EXCEPT !.mode = @ \cup {p}]

(***************************************************************************)
(* Arithmetic and logic.                                                   *)
(***************************************************************************)
add_byte_RM_R(m) == RM_R(add, 8, m)
add_byte_R_RM(m) == R_RM(add, 8, m)
add_word_RM_R(m) == RM_R(add, OpSize(m), m)
add_word_R_RM(m) == R_RM(add, OpSize(m), m)
add_byte_AL_IMM(m) == A_IMM(add, 8, m)
add_word_AX_IMM(m) == A_IMM(add, OpSize(m), m)
or_byte_RM_R(m) == RM_R(or, 8, m)
or_byte_R_RM(m) == R_RM(or, 8, m)
or_word_RM_R(m) == RM_R(or, OpSize(m), m)
or_word_R_RM(m) == R_RM(or, OpSize(m), m)
or_byte_AL_IMM(m) == A_IMM(or, 8, m)
or_word_AX_IMM(m) == A_IMM(or, OpSize(m), m)
adc_byte_RM_R(m) == RM_R(adc, 8, m)
adc_byte_R_RM(m) == R_RM(adc, 8, m)
adc_word_RM_R(m) == RM_R(adc, OpSize(m), m)
adc_word_R_RM(m) == R_RM(adc, OpSize(m), m)
adc_byte_AL_IMM(m) == A_IMM(adc, 8, m)
adc_word_AX_IMM(m) == A_IMM(adc, OpSize(m), m)
sbb_byte_RM_R(m) == RM_R(sbb, 8, m)
sbb_byte_R_RM(m) == R_RM(sbb, 8, m)
sbb_word_RM_R(m) == RM_R(sbb, OpSize(m), m)
sbb_word_R_RM(m) == R_RM(sbb, OpSize(m), m)
sbb_byte_AL_IMM(m) == A_IMM(sbb, 8, m)
sbb_word_AX_IMM(m) == A_IMM(sbb, OpSize(m), m)
and_byte_RM_R(m) == RM_R(and, 8, m)
and_byte_R_RM(m) == R_RM(and, 8, m)
and_word_RM_R(m) == RM_R(and, OpSize(m), m)
and_word_R_RM(m) == R_RM(and, OpSize(m), m)
and_byte_AL_IMM(m) == A_IMM(and, 8, m)
and_word_AX_IMM(m) == A_IMM(and, OpSize(m), m)
sub_byte_RM_R(m) == RM_R(sub, 8, m)
sub_byte_R_RM(m) == R_RM(sub, 8, m)
sub_word_RM_R(m) == RM_R(sub, OpSize(m), m)
sub_word_R_RM(m) == R_RM(sub, OpSize(m), m)
sub_byte_AL_IMM(m) == A_IMM(sub, 8, m)
sub_word_AX_IMM(m) == A_IMM(sub, OpSize(m), m)
xor_byte_RM_R(m) == RM_R(xor, 8, m)
xor_byte_R_RM(m) == R_RM(xor, 8, m)
xor_word_RM_R(m) == RM_R(xor, OpSize(m), m)
xor_word_R_RM(m) == R_RM(xor, OpSize(m), m)
xor_byte_AL_IMM(m) == A_IMM(xor, 8, m)
xor_word_AX_IMM(m) == A_IMM(xor, OpSize(m), m)
cmp_byte_RM_R(m) == FlagsRM_R(cmp, 8, m)
cmp_byte_R_RM(m) == FlagsR_RM(cmp, 8, m)
cmp_word_RM_R(m) == FlagsRM_R(cmp, OpSize(m), m)
cmp_word_R_RM(m) == FlagsR_RM(cmp, OpSize(m), m)
cmp_byte_AL_IMM(m) == FlagsA_IMM(cmp, 8, m)
cmp_word_AX_IMM(m) == FlagsA_IMM(cmp, OpSize(m), m)
test_byte_RM_R(m) == FlagsRM_R(test, 8, m)
test_word_RM_R(m) == FlagsRM_R(test, OpSize(m), m)
test_AL_IMM(m)    == FlagsA_IMM(test, 8, m)
test_AX_IMM(m)    == FlagsA_IMM(test, OpSize(m), m)

opc80_byte_RM_IMM(m) == RM_IMM(8, 8, m)
opc81_word_RM_IMM(m) == RM_IMM(OpSize(m), OpSize(m), m)
opc82_byte_RM_IMM(m) == RM_IMM(8, 8, m)
opc83_word_RM_IMM(m) == RM_IMM(OpSize(m), 8, m)

daa(m) == RegResult(8, [m |-> m], AL, daa_byte(m.f, Reg8(m, AL)))
das(m) == RegResult(8, [m |-> m], AL, das_byte(m.f, Reg8(m, AL)))
aaa(m) == RegResult(16, [m |-> m], AX, aaa_word(m.f, Reg16(m, AX)))
aas(m) == RegResult(16, [m |-> m], AX, aas_word(m.f, Reg16(m, AX)))

\* The base is 10 whatever the immediate says: AAM halts, and goes on; AAD does not look.
HaltIf(cond, i) == IF cond THEN [i EXCEPT !.m = X86EMU_halt_sys(@)] ELSE i
BaseTen(i)      == HaltIf(i.v # 10, i)
aam(m) == RegResult(16, BaseTen(fetch_byte_imm(m)), AX, aam_word(m.f, Reg8(m, AL)))
aad(m) == RegResult(16, fetch_byte_imm(m), AX, aad_word(m.f, Reg16(m, AX)))

inc_AX(m) == RegOp(inc, m, AX)
inc_CX(m) == RegOp(inc, m, CX)
inc_DX(m) == RegOp(inc, m, DX)
inc_BX(m) == RegOp(inc, m, BX)
inc_SP(m) == RegOp(inc, m, SP)
inc_BP(m) == RegOp(inc, m, BP)
inc_SI(m) == RegOp(inc, m, SI)
inc_DI(m) == RegOp(inc, m, DI)
dec_AX(m) == RegOp(dec, m, AX)
dec_CX(m) == RegOp(dec, m, CX)
dec_DX(m) == RegOp(dec, m, DX)
dec_BX(m) == RegOp(dec, m, BX)
dec_SP(m) == RegOp(dec, m, SP)
dec_BP(m) == RegOp(dec, m, BP)
dec_SI(m) == RegOp(dec, m, SI)
dec_DI(m) == RegOp(dec, m, DI)

\* OF and CF tell whether the upper half is zero, which it is not below zero.
ImulPair(w, a, b) == IF w = LongBits THEN imul_long_direct(a, b) ELSE SignedProduct(16, a, b)
ImulResult(w, rh, i, p) == RegResult(w, i, rh, <<p[2], SetCFOF(i.m.f, p[1] # 0)>>)
ImulWith(w, o, i)    == ImulResult(w, o.rh, i, ImulPair(w, o.v, i.v))
ImulFetch(w, iw, o)  == ImulWith(w, o, SignedImm(w, iw, fetch_imm(o.m, iw)))
ImulImm(iw, m)       == ImulFetch(OpSize(m), iw, Loaded(OpSize(m), Decode(m)))

imul_word_IMM(m) == ImulImm(OpSize(m), m)
imul_byte_IMM(m) == ImulImm(8, m)

RotateBy(w, o, i)      == RotateRM(w, o, i.m, i.v)
RotateImm(w, o)        == RotateBy(w, o, fetch_byte_imm(o.m))
RotateOne(w, o)        == RotateRM(w, o, o.m, 1)
RotateCL(w, o)         == RotateRM(w, o, o.m, Reg8(o.m, CL))
opcC0_byte_RM_MEM(m)   == RotateImm(8, Decode(m))
opcC1_word_RM_MEM(m)   == RotateImm(OpSize(m), Decode(m))
opcD0_byte_RM_1(m)     == RotateOne(8, Decode(m))
opcD1_word_RM_1(m)     == RotateOne(OpSize(m), Decode(m))
opcD2_byte_RM_CL(m)    == RotateCL(8, Decode(m))
opcD3_word_RM_CL(m)    == RotateCL(OpSize(m), Decode(m))

\* TEST, NOT, NEG, MUL, IMUL, DIV and IDIV of one operand; 1 is none of them,
\* and its address is not decoded.  TEST has its immediate before the operand is loaded.
TestImm(w, i, o)  == FlagsResult(o, test(w, o.m.f, o.v, i.v))
TestFetch(w, o, i) == TestImm(w, i, Loaded(w, [o EXCEPT !.m = i.m]))
OneOperand(w, o) ==
  CASE o.rh = 2 -> Unary(not, w, o)
    [] o.rh = 3 -> Unary(neg, w, o)
    [] o.rh = 4 -> Done(mul(o.m, w, o.v))
    [] o.rh = 5 -> Done(imul(o.m, w, o.v))
    [] o.rh = 6 -> Done(div(o.m, w, o.v))
    [] o.rh = 7 -> Done(idiv(o.m, w, o.v))
GroupF6Of(w, o) == IF o.rh = 0 THEN TestFetch(w, o, fetch_imm(o.m, w)) ELSE OneOperand(w, Loaded(w, o))
GroupF6(w, d)   == IF d.rh = 1 THEN Done(X86EMU_halt_sys(d.m)) ELSE GroupF6Of(w, Operand(d))

opcF6_byte_RM(m) == GroupF6(8, fetch_decode_modrm(m))
opcF7_word_RM(m) == GroupF6(OpSize(m), fetch_decode_modrm(m))

GroupFE(o) ==
  CASE o.rh = 0 -> Unary(inc, 8, Loaded(8, o))
    [] o.rh = 1 -> Unary(dec, 8, Loaded(8, o))
    [] OTHER    -> Done(o.m)
opcFE_byte_RM(m) == GroupFE(Decode(m))

cbw(m) ==
  Done(IF OpSize(m) = LongBits THEN SetReg32(m, AX, Signed(16, Reg16(m, AX)))
       ELSE SetReg16(m, AX, Signed(8, Reg8(m, AL))))
cwd(m) ==
  Done(SetReg(m, OpSize(m), DX, IF Bit(Reg(m, OpSize(m), AX), OpSize(m) - 1) THEN 2^OpSize(m) - 1 ELSE 0))

(***************************************************************************)
(* Moving.                                                                 *)
(***************************************************************************)
\* The value of the second operand, as an operation on two.
Second(w, f, d, s) == <<s, f>>

mov_byte_R_RM(m) == R_RM(Second, 8, m)
mov_word_R_RM(m) == R_RM(Second, OpSize(m), m)

\* The destination is not read.
StoreReg(w, o)   == Done(Store(o.m, w, o, Reg(o.m, w, o.rh)))
mov_byte_RM_R(m) == StoreReg(8, Decode(m))
mov_word_RM_R(m) == StoreReg(OpSize(m), Decode(m))

\* Another number than 0 in the place of the register halts, and the move is made.
StoreFrom(w, o, i) == Done(Store(i.m, w, o, i.v))
StoreImm(w, o)     == StoreFrom(w, o, fetch_imm(o.m, w))
OnlyZero(d)        == Operand(HaltIf(d.rh # 0, d))
mov_byte_RM_IMM(m) == StoreImm(8, OnlyZero(fetch_decode_modrm(m)))
mov_word_RM_IMM(m) == StoreImm(OpSize(m), OnlyZero(fetch_decode_modrm(m)))

mov_byte_AL_IMM(m) == MovImm(8, m, AL)
mov_byte_CL_IMM(m) == MovImm(8, m, CL)
mov_byte_DL_IMM(m) == MovImm(8, m, DL)
mov_byte_BL_IMM(m) == MovImm(8, m, BL)
mov_byte_AH_IMM(m) == MovImm(8, m, AH)
mov_byte_CH_IMM(m) == MovImm(8, m, CH)
mov_byte_DH_IMM(m) == MovImm(8, m, DH)
mov_byte_BH_IMM(m) == MovImm(8, m, BH)
mov_word_AX_IMM(m) == MovImm(OpSize(m), m, AX)
mov_word_CX_IMM(m) == MovImm(OpSize(m), m, CX)
mov_word_DX_IMM(m) == MovImm(OpSize(m), m, DX)
mov_word_BX_IMM(m) == MovImm(OpSize(m), m, BX)
mov_word_SP_IMM(m) == MovImm(OpSize(m), m, SP)
mov_word_BP_IMM(m) == MovImm(OpSize(m), m, BP)
mov_word_SI_IMM(m) == MovImm(OpSize(m), m, SI)
mov_word_DI_IMM(m) == MovImm(OpSize(m), m, DI)

FetchAt(w, o)  == fetch_data(o.m, w, o.v)
StoreAt(w, o)  == Done(store_data(o.m, w, o.v, Reg(o.m, w, AX)))
MovA_M(w, m)   == SetFrom(w, AX, FetchAt(w, fetch_word_imm(m)))
MovM_A(w, m)   == StoreAt(w, fetch_word_imm(m))
mov_AL_M_IMM(m) == MovA_M(8, m)
mov_AX_M_IMM(m) == MovA_M(OpSize(m), m)
mov_M_AL_IMM(m) == MovM_A(8, m)
mov_M_AX_IMM(m) == MovM_A(OpSize(m), m)

StoreSeg(o) ==
  IF IsSegment(o.rh) THEN Done(Store(o.m, 16, o, SegReg(o.m, o.rh))) ELSE Crash(o.m)
LoadSeg(o) ==
  IF IsSegment(o.rh) THEN SegFrom(decode_rm_seg_register[o.rh + 1], o) ELSE Crash(o.m)
mov_word_RM_SR(m) == StoreSeg(Decode(m))
mov_word_SR_RM(m) == LoadSeg(Loaded(16, Decode(m)))

\* The offset is taken to 16 bits here, and there is nothing to do with a register.
Lea(o) == Done(IF o.mem THEN SetReg16(o.m, o.rh, o.at) ELSE o.m)
lea_word_R_M(m) == Lea(Decode(m))

\* The offset goes to the register, the word after it to the segment.
NextWord(m, o)   == fetch_data(m, 16, Mod(LongBits, o.at + 2))
Far(o, name)    == SegFrom(name, NextWord(SetReg16(o.m, o.rh, o.v), o))
LoadFarAt(o, name) == IF o.mem THEN Far(Loaded(16, o), name) ELSE Done(o.m)
LoadFar(m, name)   == LoadFarAt(Decode(m), name)
les_R_IMM(m) == LoadFar(m, "ES")
lds_R_IMM(m) == LoadFar(m, "DS")

Exchange(w, o) ==
  Done(Store(SetReg(o.m, w, o.rh, o.v), w, o, Reg(o.m, w, o.rh)))
xchg_byte_RM_R(m) == Exchange(8, Loaded(8, Decode(m)))
xchg_word_RM_R(m) == Exchange(OpSize(m), Loaded(OpSize(m), Decode(m)))

XchgAX(m, n) ==
  LET w == OpSize(m) IN Done(SetReg(SetReg(m, w, AX, Reg(m, w, n)), w, n, Reg(m, w, AX)))
xchg_word_AX_CX(m) == XchgAX(m, CX)
xchg_word_AX_DX(m) == XchgAX(m, DX)
xchg_word_AX_BX(m) == XchgAX(m, BX)
xchg_word_AX_SP(m) == XchgAX(m, SP)
xchg_word_AX_BP(m) == XchgAX(m, BP)
xchg_word_AX_SI(m) == XchgAX(m, SI)
xchg_word_AX_DI(m) == XchgAX(m, DI)

xlat(m) == SetFrom(8, AL, fetch_data(m, 8, Mod(16, Reg16(m, BX) + Reg8(m, AL))))
===============================================================================
