-------------------------------- MODULE X86Ops --------------------------------
(***************************************************************************)
(* The other instructions of one byte of ddcprobe/x86emu: the handlers of  *)
(* ops.c for the stack, strings, jumps, interrupts, ports and flags, and   *)
(* those of fpu.c.                                                         *)
(***************************************************************************)
EXTENDS X86Data

(***************************************************************************)
(* The stack.                                                              *)
(***************************************************************************)
push_AX(m) == PushReg(m, AX)
push_CX(m) == PushReg(m, CX)
push_DX(m) == PushReg(m, DX)
push_BX(m) == PushReg(m, BX)
push_SP(m) == PushReg(m, SP)
push_BP(m) == PushReg(m, BP)
push_SI(m) == PushReg(m, SI)
push_DI(m) == PushReg(m, DI)
pop_AX(m) == PopReg(m, AX)
pop_CX(m) == PopReg(m, CX)
pop_DX(m) == PopReg(m, DX)
pop_BX(m) == PopReg(m, BX)
pop_SP(m) == PopReg(m, SP)
pop_BP(m) == PopReg(m, BP)
pop_SI(m) == PopReg(m, SI)
pop_DI(m) == PopReg(m, DI)
push_ES(m) == PushSeg(m, "ES")
push_CS(m) == PushSeg(m, "CS")
push_SS(m) == PushSeg(m, "SS")
push_DS(m) == PushSeg(m, "DS")
pop_ES(m) == PopSeg(m, "ES")
pop_SS(m) == PopSeg(m, "SS")
pop_DS(m) == PopSeg(m, "DS")
PushFrom(w, i)   == Done(push(i.m, w, i.v))
push_word_IMM(m) == PushFrom(OpSize(m), fetch_imm(m, OpSize(m)))
push_byte_IMM(m) == PushFrom(OpSize(m), SignedImm(OpSize(m), 8, fetch_byte_imm(m)))

\* The address is decoded before SP moves.
PopTo(w, o)     == StoreFrom(w, o, pop(o.m, w))
pop_RM(m)       == PopTo(OpSize(m), OnlyZero(fetch_decode_modrm(m)))

push_all(m) == Done(PushAll(m, OpSize(m), [n \in 1..8 |-> Reg(m, OpSize(m), n - 1)]))

\* From DI down to AX; what is popped for SP is thrown away.
PopNext(w, n, p) ==
  IF n = SP THEN SetReg(p, w, SP, Mod(w, Reg(p, w, SP) + Bytes(w)))
  ELSE LET q == pop(p, w) IN SetReg(q.m, w, n, q.v)
pop_all(m) == Done(Iterate(8, m, LAMBDA p, i : PopNext(OpSize(m), 8 - i, p)))

pushf_word(m) == Done(push(m, OpSize(m), Number((m.f \cap F_MSK) \cup F_ALWAYS_ON)))
\* All the flags are what was popped: above a word there are none.
FlagsFrom(p) == Done(Flags(p.m, Bits(p.v)))
popf_word(m) == FlagsFrom(pop(m, OpSize(m)))
sahf(m) == Done(Flags(m, {b \in m.f : b >= 8} \cup Bits(Reg8(m, AH))))
lahf(m) == Done(SetReg8(m, AH, Number({b \in m.f : b < 8} \cup {1})))

\* Frame pointers of the callers are pushed again, then the one of this frame.
PushWord(p)  == push(p.m, 16, p.v)
TakeLocal(m, n) == SetReg16(m, SP, Reg16(m, SP) - n)
PushLink(n)  == PushWord(fetch_data_abs(n, 16, n.seg["SS"], Reg16(n, BP)))
CopyLink(m)  == PushLink(SetReg16(m, BP, Reg16(m, BP) - 2))
PushFrame(m, nesting, frame) ==
  SetReg16(IF nesting > 0 THEN push(Repeat(m, nesting - 1, CopyLink), 16, frame) ELSE m, BP, frame)
Frame(m, local, nesting) == TakeLocal(PushFrame(m, nesting, Reg16(m, SP)), local)
EnterNested(local, i) == Frame(push(i.m, 16, Reg16(i.m, BP)), local, i.v)
EnterLocal(i)    == EnterNested(i.v, fetch_byte_imm(i.m))
enter(m)         == Done(EnterLocal(fetch_word_imm(m)))
leave(m)         == SetFrom(16, BP, pop(SetReg16(m, SP, Reg16(m, BP)), 16))

(***************************************************************************)
(* Strings.  A repetition takes its count from CX and leaves zero there; a *)
(* comparison stops at what ends it.                                       *)
(***************************************************************************)
Repeated(m, body(_)) ==
  IF m.mode \cap Rep = {} THEN Done(body(m))
  ELSE Done(Repeat(SetReg16(EndRep(m), CX, 0), Reg16(m, CX), body))

\* body is executed while CX is not 0 and ZF is as the prefix wants it.
Compared(m, body(_)) ==
  LET p   == IF "PREFIX_REPE" \in m.mode THEN "PREFIX_REPE" ELSE "PREFIX_REPNE"
      One_(x) == LET n == body(SetReg16(x.m, CX, Reg16(x.m, CX) - 1))
                 IN  [m |-> n, more |-> (ZF \in n.f) = (p = "PREFIX_REPE")]
      end == Iterate(Reg16(m, CX), [m |-> m, more |-> TRUE],
                     LAMBDA x, i : IF x.more THEN One_(x) ELSE x)
  IN  IF m.mode \cap Rep = {} THEN Done(body(m))
      ELSE Done([end.m EXCEPT !.mode = @ \ {p}])

Both(m, w)       == Advance(Advance(m, SI, w), DI, w)
CopyTo(d, w, segment) == Both(store_data_abs(d.m, w, segment, Reg16(d.m, DI), d.v), w)
\* A mutant: the copy goes to the segment it comes from.
MovsWithin(w, m) == CopyTo(fetch_data(m, w, Reg16(m, SI)), w, m.seg["DS"])
Movs(w, m)       == CopyTo(fetch_data(m, w, Reg16(m, SI)), w, m.seg["ES"])
Stos(w, m)       == Advance(store_data_abs(m, w, m.seg["ES"], Reg16(m, DI), Reg(m, w, AX)), DI, w)
LodsFrom(w, d)   == Advance(SetReg(d.m, w, AX, d.v), SI, w)
Lods(w, m)       == LodsFrom(w, fetch_data(m, w, Reg16(m, SI)))

\* b is what DI points to, and is compared with a.
CmpWith(w, a, b) == Flags(b.m, cmp(w, b.m.f, a, b.v)[2])
AtDI(w, m)       == fetch_data_abs(m, w, m.seg["ES"], Reg16(m, DI))
CmpsFrom(w, a)   == Both(CmpWith(w, a.v, AtDI(w, a.m)), w)
Cmps(w, m)       == CmpsFrom(w, fetch_data(m, w, Reg16(m, SI)))
Scas(w, m)       == Advance(CmpWith(w, Reg(m, w, AX), AtDI(w, m)), DI, w)

movs_byte(m) == Repeated(m, LAMBDA x : Movs(8, x))
movs_word(m) == Repeated(m, LAMBDA x : Movs(OpSize(m), x))
stos_byte(m) == Repeated(m, LAMBDA x : Stos(8, x))
stos_word(m) == Repeated(m, LAMBDA x : Stos(OpSize(m), x))
lods_byte(m) == Repeated(m, LAMBDA x : Lods(8, x))
lods_word(m) == Repeated(m, LAMBDA x : Lods(OpSize(m), x))
cmps_byte(m) == Compared(m, LAMBDA x : Cmps(8, x))
cmps_word(m) == Compared(m, LAMBDA x : Cmps(OpSize(m), x))
\* A mutant: the scan goes on after the byte that it looks for.
ScasToTheEnd(m) == Repeated(m, LAMBDA x : Scas(8, x))
scas_byte(m) == Compared(m, LAMBDA x : Scas(8, x))
scas_word(m) == Compared(m, LAMBDA x : Scas(OpSize(m), x))
ins_byte(m)  == Done(ins(m, 8))
ins_word(m)  == Done(ins(m, OpSize(m)))
outs_byte(m) == Done(outs(m, 8))
outs_word(m) == Done(outs(m, OpSize(m)))

(***************************************************************************)
(* Jumps, calls and interrupts.                                            *)
(***************************************************************************)
Target(w, i)    == [i EXCEPT !.v = Mod(16, i.m.ip + Signed(w, @))]
Relative(m, w)  == Target(w, fetch_imm(m, w))
GoIf(t, cond)   == Done(IF cond THEN SetIp(t.m, t.v) ELSE t.m)
JumpIf(m, cond) == GoIf(Relative(m, 8), cond)

jump_near_O(m) == JumpIf(m, OF \in m.f)
jump_near_NO(m) == JumpIf(m, OF \notin m.f)
jump_near_B(m) == JumpIf(m, CF \in m.f)
jump_near_NB(m) == JumpIf(m, CF \notin m.f)
jump_near_Z(m) == JumpIf(m, ZF \in m.f)
jump_near_NZ(m) == JumpIf(m, ZF \notin m.f)
jump_near_BE(m) == JumpIf(m, CF \in m.f \/ ZF \in m.f)
jump_near_NBE(m) == JumpIf(m, ~(CF \in m.f \/ ZF \in m.f))
jump_near_S(m) == JumpIf(m, SF \in m.f)
jump_near_NS(m) == JumpIf(m, SF \notin m.f)
jump_near_P(m) == JumpIf(m, PF \in m.f)
jump_near_NP(m) == JumpIf(m, PF \notin m.f)
jump_near_L(m) == JumpIf(m, (SF \in m.f) # (OF \in m.f))
jump_near_NL(m) == JumpIf(m, (SF \in m.f) = (OF \in m.f))
jump_near_LE(m) == JumpIf(m, (SF \in m.f) # (OF \in m.f) \/ ZF \in m.f)
jump_near_NLE(m) == JumpIf(m, (SF \in m.f) = (OF \in m.f) /\ ZF \notin m.f)

CountDown(t)    == [t EXCEPT !.m = SetReg16(@, CX, Reg16(@, CX) - 1)]
LoopWhile(t, cond) == GoIf(t, Reg16(t.m, CX) # 0 /\ cond)
LoopIf(m, cond) == LoopWhile(CountDown(Relative(m, 8)), cond)
loopne(m) == LoopIf(m, ZF \notin m.f)
loope(m)  == LoopIf(m, ZF \in m.f)
loop(m)   == LoopIf(m, TRUE)
jcxz(m)   == JumpIf(m, Reg16(m, CX) = 0)

jump_byte_IMM(m) == GoIf(Relative(m, 8), TRUE)
jump_near_IMM(m) == GoIf(Relative(m, 16), TRUE)
CallNear(t)      == Done(SetIp(push(t.m, 16, t.m.ip), t.v))
call_near_IMM(m) == CallNear(Relative(m, 16))

JumpFar(m, cs, ip) == SetIp(SetSeg(m, "CS", cs), ip)
CallFar(m, cs, ip) == JumpFar(PushAll(m, 16, <<m.seg["CS"], m.ip>>), cs, ip)
\* ip and cs are the words of the target.
JumpTo(ip, cs)   == JumpFar(cs.m, cs.v, ip)
CallTo(ip, cs)   == CallFar(cs.m, cs.v, ip)
JumpWords(ip)    == JumpTo(ip.v, fetch_word_imm(ip.m))
CallWords(ip)    == CallTo(ip.v, fetch_word_imm(ip.m))
jump_far_IMM(m)  == Done(JumpWords(fetch_word_imm(m)))
call_far_IMM(m)  == Done(CallWords(fetch_word_imm(m)))

IpFrom(p)        == SetIp(p.m, p.v)
CsFrom(p)        == SetSeg(p.m, "CS", p.v)
Return(m)        == IpFrom(pop(m, 16))
ReturnFar(m)     == CsFrom(pop(Return(m), 16))
ret_near(m)      == Done(Return(m))
ret_far(m)       == Done(ReturnFar(m))
Release(m, n)    == Done(SetReg16(m, SP, Reg16(m, SP) + n))
RetNearFrom(i)   == Release(Return(i.m), i.v)
RetFarFrom(i)    == Release(ReturnFar(i.m), i.v)
ret_near_IMM(m)  == RetNearFrom(fetch_word_imm(m))
ret_far_IMM(m)   == RetFarFrom(fetch_word_imm(m))
iret(m)          == FlagsFrom(pop(ReturnFar(m), 16))

\* INC and DEC, CALL, JMP and PUSH of an operand; what is far must be in memory.
\* CALL of a register takes it after the push: of SP, the new one.
CallNearTo(m, o) == Done(SetIp(m, IF o.mem THEN o.v ELSE Reg16(m, o.at)))
PushIp(o)        == CallNearTo(push(o.m, 16, o.m.ip), o)
CallFarTo(o)     == Done(CallTo(o.v, NextWord(o.m, o)))
JumpFarTo(o)     == Done(JumpTo(o.v, NextWord(o.m, o)))
GroupFF(w, o) ==
  CASE o.rh = 0 -> Unary(inc, w, Loaded(w, o))
    [] o.rh = 1 -> Unary(dec, w, Loaded(w, o))
    [] o.rh = 2 -> PushIp(Loaded(16, o))
    [] o.rh = 3 -> IF o.mem THEN CallFarTo(Loaded(16, o)) ELSE Done(X86EMU_halt_sys(o.m))
    [] o.rh = 4 -> GoIf(Loaded(16, o), TRUE)
    [] o.rh = 5 -> IF o.mem THEN JumpFarTo(Loaded(16, o)) ELSE Done(X86EMU_halt_sys(o.m))
    [] o.rh = 6 -> PushFrom(w, Loaded(w, o))
    [] o.rh = 7 -> Done(o.m)
opcFF_word_RM(m) == GroupFF(OpSize(m), Decode(m))

\* thunk.c gives every interrupt a handler, x86emu_do_int(): the branch of these
\* instructions that finds none is never taken.  pushw() takes 2 off the whole ESP,
\* read_b() does not look at M.mem_size, and IF is not cleared.
PutWord(n, v) == wr(n, Linear(n.seg["SS"], Reg16(n, SP)), 2, v)
pushw(m, v)   == PutWord(SetReg32(m, SP, m.r[SP] - 2), v)
PushedFlags(m) == Number({b \in m.f \cup {IF_} : b < 16})
\* The segment, then the offset, of handler num.
Vector(m, num, part) == mem_access_word(m, num * 4 + part).v
Handle(m, num) == JumpFar([m EXCEPT !.f = @ \ {TF, 19}], Vector(m, num, 2), Vector(m, num, 0))
x86emu_do_int(m, num) ==
  Handle(pushw(pushw(pushw(m, PushedFlags(m)), m.seg["CS"]), m.ip), num)

int3(m)    == Done(x86emu_do_int(m, 3))
IntFrom(i) == Done(x86emu_do_int(i.m, i.v))
int_IMM(m) == IntFrom(fetch_byte_imm(m))
into(m)    == Done(IF OF \in m.f THEN x86emu_do_int(m, 4) ELSE m)

(***************************************************************************)
(* Ports, prefixes, flags and what does nothing.                           *)
(***************************************************************************)
in_byte_AL_DX(m) == Done(SetReg(m, 8, AL, sys_in(m, 8)))
in_word_AX_DX(m) == Done(SetReg(m, OpSize(m), AX, sys_in(m, OpSize(m))))
in_byte_AL_IMM(m) == in_byte_AL_DX(fetch_byte_imm(m).m)
in_word_AX_IMM(m) == in_word_AX_DX(fetch_byte_imm(m).m)
Out(m, port, w)  == Done(sys_out(m, port, w, Reg(m, w, AX)))
out_byte_DX_AL(m)  == Out(m, Reg16(m, DX), 8)
out_word_DX_AX(m)  == Out(m, Reg16(m, DX), OpSize(m))
OutFrom(w, i)      == Out(i.m, i.v, w)
out_byte_IMM_AL(m) == OutFrom(8, fetch_byte_imm(m))
out_word_IMM_AX(m) == OutFrom(OpSize(m), fetch_byte_imm(m))

segovr_ES(m)   == Prefix(m, "SEGOVR_ES")
segovr_CS(m)   == Prefix(m, "SEGOVR_CS")
segovr_SS(m)   == Prefix(m, "SEGOVR_SS")
segovr_DS(m)   == Prefix(m, "SEGOVR_DS")
segovr_FS(m)   == Prefix(m, "SEGOVR_FS")
segovr_GS(m)   == Prefix(m, "SEGOVR_GS")
prefix_data(m) == Prefix(m, "PREFIX_DATA")
prefix_addr(m) == Prefix(m, "PREFIX_ADDR")

\* The prefixes before a repetition are forgotten.
repne(m) == Done(Prefix(m, "PREFIX_REPNE"))
repe(m)  == Done(Prefix(m, "PREFIX_REPE"))

clc(m)  == Done(Flags(m, m.f \ {CF}))
stc(m)  == Done(Flags(m, m.f \cup {CF}))
cmc(m)  == Done(Flags(m, SetIf(m.f, CF \notin m.f, CF)))
cli(m)  == Done(Flags(m, m.f \ {IF_}))
sti(m)  == Done(Flags(m, m.f \cup {IF_}))
cld(m)  == Done(Flags(m, m.f \ {DF}))
std(m)  == Done(Flags(m, m.f \cup {DF}))
nop(m)  == Done(m)
wait(m) == Done(m)
lock(m) == Done(m)
halt(m) == Done(X86EMU_halt_sys(m))
illegal_op(m) == X86EMU_halt_sys(m)

\* There is no coprocessor; D8 does not even look at its operand.
esc_coprocess_d8(m) == Done(m)
esc_coprocess_d9(m) == Done(Decode(m).m)
esc_coprocess_da(m) == Done(Decode(m).m)
esc_coprocess_db(m) == Done(Decode(m).m)
esc_coprocess_dc(m) == Done(Decode(m).m)
esc_coprocess_dd(m) == Done(Decode(m).m)
esc_coprocess_de(m) == Done(Decode(m).m)
esc_coprocess_df(m) == Done(Decode(m).m)
===============================================================================
