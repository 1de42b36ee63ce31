------------------------------- MODULE X86Ops2 --------------------------------
(***************************************************************************)
(* The instructions of two bytes of ddcprobe/x86emu: the handlers of       *)
(* ops2.c.  Their names are those of the program with a 2 where ops.c has  *)
(* a handler of the same name.                                             *)
(***************************************************************************)
EXTENDS X86Ops

illegal_op2(m) == X86EMU_halt_sys(m)

(***************************************************************************)
(* The conditions of the jumps and of the bytes that are set, numbered as  *)
(* in the operation code.  The one of JNL and SETNL is the one of JL.      *)
(***************************************************************************)
xorl(f, a, b) == (a \in f) # (b \in f)

\* A mutant: JNLE and SETNLE forget ZF.
CondNoZero(f, n) ==
  CASE n = 0 -> OF \in f
    [] n = 1 -> OF \notin f
    [] n = 2 -> CF \in f
    [] n = 3 -> CF \notin f
    [] n = 4 -> ZF \in f
    [] n = 5 -> ZF \notin f
    [] n = 6 -> CF \in f \/ ZF \in f
    [] n = 7 -> ~(CF \in f \/ ZF \in f)
    [] n = 8 -> SF \in f
    [] n = 9 -> SF \notin f
    [] n = 10 -> PF \in f
    [] n = 11 -> PF \notin f
    [] n \in {12, 13} -> xorl(f, SF, OF)
    [] n = 14 -> xorl(f, SF, OF) \/ ZF \in f
    [] n = 15 -> ~xorl(f, SF, OF)

cond(f, n) ==
  CASE n = 0 -> OF \in f
    [] n = 1 -> OF \notin f
    [] n = 2 -> CF \in f
    [] n = 3 -> CF \notin f
    [] n = 4 -> ZF \in f
    [] n = 5 -> ZF \notin f
    [] n = 6 -> CF \in f \/ ZF \in f
    [] n = 7 -> ~(CF \in f \/ ZF \in f)
    [] n = 8 -> SF \in f
    [] n = 9 -> SF \notin f
    [] n = 10 -> PF \in f
    [] n = 11 -> PF \notin f
    [] n \in {12, 13} -> xorl(f, SF, OF)
    [] n = 14 -> xorl(f, SF, OF) \/ ZF \in f
    [] n = 15 -> ~(xorl(f, SF, OF) \/ ZF \in f)

long_jump(m, op2) == GoIf(Relative(m, 16), cond(m.f, op2 - 128))
StoreByte(o, v)   == Done(Store(o.m, 8, o, v))
set_byte(m, op2)  == StoreByte(Decode(m), IF cond(m.f, op2 - 144) THEN 1 ELSE 0)

push_FS(m) == PushSeg(m, "FS")
push_GS(m) == PushSeg(m, "GS")
pop_FS(m)  == PopSeg(m, "FS")
pop_GS(m)  == PopSeg(m, "GS")
lss_R_IMM(m) == LoadFar(m, "SS")
lfs_R_IMM(m) == LoadFar(m, "FS")
lgs_R_IMM(m) == LoadFar(m, "GS")

(***************************************************************************)
(* Bits.  Which bit, is the number modulo the width; in memory what is     *)
(* left of it is added to the offset as it is, a word or a long counting   *)
(* for one byte.                                                           *)
(***************************************************************************)
WithBit(how, x, bit) ==
  CASE how = "test"  -> x
    [] how = "set"   -> Or(x, 2^bit)
    [] how = "reset" -> IF Bit(x, bit) THEN x - 2^bit ELSE x
    [] how = "complement" -> Xor(x, 2^bit)

BitOf(how, w, o, bit) ==
  IF how = "test" THEN FlagsResult(o, <<o.v, SetIf(o.m.f, Bit(o.v, bit), CF)>>)
  ELSE StoreResult(w, o, <<WithBit(how, o.v, bit), SetIf(o.m.f, Bit(o.v, bit), CF)>>)

Beyond(o, disp) == IF o.mem THEN [o EXCEPT !.at = Mod(LongBits, @ + disp)] ELSE o
BitNumber(how, w, o, n) ==
  BitOf(how, w, Loaded(w, Beyond(o, Signed(16, Mod(16, n)) \div w)), n % w)
Bit_RM(how, w, o) == BitNumber(how, w, o, Reg(o.m, w, o.rh))
Bit_R(how, m)     == Bit_RM(how, OpSize(m), Decode(m))

bt_R(m)  == Bit_R("test", m)
btr_R(m) == Bit_R("reset", m)
btc_R(m) == Bit_R("complement", m)

\* The four numbers that are no operation halt, and test.
Bit_I(w, o, i) ==
  BitOf(CASE o.rh < 5 -> "test" [] o.rh = 5 -> "set" [] o.rh = 6 -> "reset" [] o.rh = 7 -> "complement",
        w, Loaded(w, [o EXCEPT !.m = i.m]), i.v % w)
BitImm(w, o) == Bit_I(w, o, fetch_byte_imm(o.m))
BitGroup(d)  == Operand(HaltIf(d.rh < 4, d))
btX_I(m)     == BitImm(OpSize(m), BitGroup(fetch_decode_modrm(m)))

(***************************************************************************)
(* The search for a bit counts in the destination, which is also what is   *)
(* looked at when both are the same register: nothing is ever found then.  *)
(***************************************************************************)
Hidden(o)        == ~o.mem /\ o.at = o.rh
BitsSeen(w, o)   == {i \in 0..w - 1 : Bit(o.v, i) /\ ~Hidden(o)}
Scanned(w, o, n) == RegResult(w, o, o.rh, <<n, SetIf(o.m.f, o.v = 0, ZF)>>)
FirstBit(w, b)      == IF b = {} THEN w ELSE Min(b)
LastBit(b)          == IF b = {} THEN 0 ELSE Max(b)
Forward(w, o)    == Scanned(w, o, FirstBit(w, BitsSeen(w, o)))
Backward(w, o)   == Scanned(w, o, LastBit(BitsSeen(w, o)))
bsf(m) == Forward(OpSize(m), Loaded(OpSize(m), Decode(m)))
bsr(m) == Backward(OpSize(m), Loaded(OpSize(m), Decode(m)))

(***************************************************************************)
(* Double shifts, multiplication, and moves that extend.                   *)
(***************************************************************************)
DoubleShift(op(_, _, _, _, _, _), w, o, amt) ==
  StoreResult(w, o, op(o.m.undef # 0, w, o.m.f, o.v, Reg(o.m, w, o.rh), amt))
ShldBy(w, o, i)  == DoubleShift(shld, w, Loaded(w, [o EXCEPT !.m = i.m]), i.v)
ShrdBy(w, o, i)  == DoubleShift(shrd, w, Loaded(w, [o EXCEPT !.m = i.m]), i.v)
ShldImm(w, o)    == ShldBy(w, o, fetch_byte_imm(o.m))
ShrdImm(w, o)    == ShrdBy(w, o, fetch_byte_imm(o.m))
shld_IMM(m)      == ShldImm(OpSize(m), Decode(m))
shrd_IMM(m)      == ShrdImm(OpSize(m), Decode(m))
shld_CL(m)       == DoubleShift(shld, OpSize(m), Loaded(OpSize(m), Decode(m)), Reg8(m, CL))
shrd_CL(m)       == DoubleShift(shrd, OpSize(m), Loaded(OpSize(m), Decode(m)), Reg8(m, CL))

ImulReg(w, o)    == ImulResult(w, o.rh, o, ImulPair(w, Reg(o.m, w, o.rh), o.v))
imul_R_RM(m)     == ImulReg(OpSize(m), Loaded(OpSize(m), Decode(m)))

\* A word is extended to a long, whatever the prefix.
ZeroExtend(to, o)       == SetFrom(to, o.rh, o)
SignExtend(from, to, o) == SetFrom(to, o.rh, [o EXCEPT !.v = Mod(to, Signed(from, @))])
movzx_byte_R_RM(m) == ZeroExtend(OpSize(m), Loaded(8, Decode(m)))
movzx_word_R_RM(m) == ZeroExtend(LongBits, Loaded(16, Decode(m)))
movsx_byte_R_RM(m) == SignExtend(8, OpSize(m), Loaded(8, Decode(m)))
movsx_word_R_RM(m) == SignExtend(16, LongBits, Loaded(16, Decode(m)))
===============================================================================
