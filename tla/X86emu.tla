-------------------------------- MODULE X86emu --------------------------------
(***************************************************************************)
(* The emulator of ddcprobe, from the call of a BIOS interrupt to its      *)
(* return: x86emu_LRMI_int() and real_call() of thunk.c, X86EMU_exec() of  *)
(* decode.c, and the tables of operations.                                 *)
(*                                                                         *)
(* An iteration of the loop of X86EMU_exec() is one action: the program    *)
(* has one thread, and nothing else touches the machine between two.       *)
(***************************************************************************)
EXTENDS X86Ops2

CONSTANTS
  Calls,     \* what may be asked of the BIOS, and the BIOS: see Init
  Bios,      \* the segment the vector points to
  StackSeg,  \* the segment of the stack thunk.c allocates
  MaxSteps   \* a bound on the iterations of one call

VARIABLES
  M,         \* M.x86 and the memory
  call,      \* the call: num, regs, and the code at the interrupt vector
  regs,      \* the registers given back
  state,     \* "idle", "running" (in X86EMU_exec()), "returned", "done" or "dead"
  steps      \* how many iterations were made

vars == <<M, call, regs, state, steps>>

(***************************************************************************)
(* What there is: every number fits the field that holds it, and a byte of *)
(* memory is inside M.mem_size.                                            *)
(***************************************************************************)
Registers  == [0..7 -> Values(LongBits)]
FlagBits   == 0..LongBits - 1
Modes      == SYSMODE_CLRMASK \cup Rep
Interrupts == {"SYNCH", "HALTED", "CRASHED"}
Outputs    == Values(16) \X {8, 16, LongBits} \X Values(LongBits)

\* A call leaves what the next one may find.
IsCall(c) ==
  /\ c.num \in Values(8) /\ c.r \in Registers
  /\ {c.ss, c.es, c.fs, c.gs, c.ds, c.r[SP]} \subseteq Values(16)
  /\ c.f \subseteq FlagBits /\ c.mode \subseteq Modes \ {"SEG_DS_SS"}
  /\ c.in \in Values(8) /\ c.undef \in Values(8)
  /\ DOMAIN c.mem \subseteq 0..MemSize - 1 /\ c.mem \in [DOMAIN c.mem -> Values(8)]

ASSUME CallAssumption == StackSeg \in Values(16) /\ \A c \in Calls : IsCall(c)

\* Each register, segment and byte of memory fits its width; the flags, prefixes and
\* interrupts are those that regs.h names.
TypeOK ==
  /\ M \in [r : Registers, seg : [Segments -> Values(16)], ip : Values(16), f : SUBSET FlagBits,
            mode : SUBSET Modes, intr : SUBSET Interrupts, intno : Values(8),
            mem : [DOMAIN M.mem -> Values(8)], io : Seq(Outputs), in : Values(8), undef : Values(8)]
  /\ DOMAIN M.mem \subseteq 0..MemSize - 1
  /\ IsCall(call)
  /\ regs \in [r : Registers, es : Values(16)]
  /\ state \in {"idle", "running", "returned", "done", "dead"}
  /\ steps \in Nat

(***************************************************************************)
(* The tables of operations.  0F AB, which is BTS, is BT: its handler is   *)
(* left out of the build.                                                  *)
(***************************************************************************)
x86emu_optab2(m, op2) ==
  CASE op2 \in 128..143 -> long_jump(m, op2)
    [] op2 \in 144..159 -> set_byte(m, op2)
    [] op2 = 160 -> push_FS(m) [] op2 = 161 -> pop_FS(m) [] op2 \in {163, 171} -> bt_R(m)
    [] op2 = 164 -> shld_IMM(m) [] op2 = 165 -> shld_CL(m) [] op2 = 168 -> push_GS(m)
    [] op2 = 169 -> pop_GS(m) [] op2 = 172 -> shrd_IMM(m) [] op2 = 173 -> shrd_CL(m)
    [] op2 = 175 -> imul_R_RM(m) [] op2 = 178 -> lss_R_IMM(m) [] op2 = 179 -> btr_R(m)
    [] op2 = 180 -> lfs_R_IMM(m) [] op2 = 181 -> lgs_R_IMM(m) [] op2 = 182 -> movzx_byte_R_RM(m)
    [] op2 = 183 -> movzx_word_R_RM(m) [] op2 = 186 -> btX_I(m) [] op2 = 187 -> btc_R(m)
    [] op2 = 188 -> bsf(m) [] op2 = 189 -> bsr(m) [] op2 = 190 -> movsx_byte_R_RM(m)
    [] op2 = 191 -> movsx_word_R_RM(m)
    [] OTHER -> illegal_op2(m)

SecondByte(i) == x86emu_optab2(i.m, i.v)
two_byte(m)   == SecondByte(fetch_byte_imm(m))

Optab00(m, op1) ==
  CASE op1 = 0 -> add_byte_RM_R(m) [] op1 = 1 -> add_word_RM_R(m) [] op1 = 2 -> add_byte_R_RM(m)
    [] op1 = 3 -> add_word_R_RM(m) [] op1 = 4 -> add_byte_AL_IMM(m)
    [] op1 = 5 -> add_word_AX_IMM(m) [] op1 = 6 -> push_ES(m) [] op1 = 7 -> pop_ES(m)
    [] op1 = 8 -> or_byte_RM_R(m) [] op1 = 9 -> or_word_RM_R(m) [] op1 = 10 -> or_byte_R_RM(m)
    [] op1 = 11 -> or_word_R_RM(m) [] op1 = 12 -> or_byte_AL_IMM(m)
    [] op1 = 13 -> or_word_AX_IMM(m) [] op1 = 14 -> push_CS(m) [] op1 = 15 -> two_byte(m)
    [] op1 = 16 -> adc_byte_RM_R(m) [] op1 = 17 -> adc_word_RM_R(m)
    [] op1 = 18 -> adc_byte_R_RM(m) [] op1 = 19 -> adc_word_R_RM(m)
    [] op1 = 20 -> adc_byte_AL_IMM(m) [] op1 = 21 -> adc_word_AX_IMM(m) [] op1 = 22 -> push_SS(m)
    [] op1 = 23 -> pop_SS(m) [] op1 = 24 -> sbb_byte_RM_R(m) [] op1 = 25 -> sbb_word_RM_R(m)
    [] op1 = 26 -> sbb_byte_R_RM(m) [] op1 = 27 -> sbb_word_R_RM(m)
    [] op1 = 28 -> sbb_byte_AL_IMM(m) [] op1 = 29 -> sbb_word_AX_IMM(m) [] op1 = 30 -> push_DS(m)
    [] op1 = 31 -> pop_DS(m) [] op1 = 32 -> and_byte_RM_R(m) [] op1 = 33 -> and_word_RM_R(m)
    [] op1 = 34 -> and_byte_R_RM(m) [] op1 = 35 -> and_word_R_RM(m)
    [] op1 = 36 -> and_byte_AL_IMM(m) [] op1 = 37 -> and_word_AX_IMM(m)
    [] op1 = 38 -> segovr_ES(m) [] op1 = 39 -> daa(m) [] op1 = 40 -> sub_byte_RM_R(m)
    [] op1 = 41 -> sub_word_RM_R(m) [] op1 = 42 -> sub_byte_R_RM(m)
    [] op1 = 43 -> sub_word_R_RM(m) [] op1 = 44 -> sub_byte_AL_IMM(m)
    [] op1 = 45 -> sub_word_AX_IMM(m) [] op1 = 46 -> segovr_CS(m) [] op1 = 47 -> das(m)
    [] op1 = 48 -> xor_byte_RM_R(m) [] op1 = 49 -> xor_word_RM_R(m)
    [] op1 = 50 -> xor_byte_R_RM(m) [] op1 = 51 -> xor_word_R_RM(m)
    [] op1 = 52 -> xor_byte_AL_IMM(m) [] op1 = 53 -> xor_word_AX_IMM(m)
    [] op1 = 54 -> segovr_SS(m) [] op1 = 55 -> aaa(m) [] op1 = 56 -> cmp_byte_RM_R(m)
    [] op1 = 57 -> cmp_word_RM_R(m) [] op1 = 58 -> cmp_byte_R_RM(m)
    [] op1 = 59 -> cmp_word_R_RM(m) [] op1 = 60 -> cmp_byte_AL_IMM(m)
    [] op1 = 61 -> cmp_word_AX_IMM(m) [] op1 = 62 -> segovr_DS(m) [] op1 = 63 -> aas(m)
    [] op1 = 64 -> inc_AX(m) [] op1 = 65 -> inc_CX(m) [] op1 = 66 -> inc_DX(m)
    [] op1 = 67 -> inc_BX(m) [] op1 = 68 -> inc_SP(m) [] op1 = 69 -> inc_BP(m)
    [] op1 = 70 -> inc_SI(m) [] op1 = 71 -> inc_DI(m) [] op1 = 72 -> dec_AX(m)
    [] op1 = 73 -> dec_CX(m) [] op1 = 74 -> dec_DX(m) [] op1 = 75 -> dec_BX(m)
    [] op1 = 76 -> dec_SP(m) [] op1 = 77 -> dec_BP(m) [] op1 = 78 -> dec_SI(m)
    [] op1 = 79 -> dec_DI(m) [] op1 = 80 -> push_AX(m) [] op1 = 81 -> push_CX(m)
    [] op1 = 82 -> push_DX(m) [] op1 = 83 -> push_BX(m) [] op1 = 84 -> push_SP(m)
    [] op1 = 85 -> push_BP(m) [] op1 = 86 -> push_SI(m) [] op1 = 87 -> push_DI(m)
    [] op1 = 88 -> pop_AX(m) [] op1 = 89 -> pop_CX(m) [] op1 = 90 -> pop_DX(m)
    [] op1 = 91 -> pop_BX(m) [] op1 = 92 -> pop_SP(m) [] op1 = 93 -> pop_BP(m)
    [] op1 = 94 -> pop_SI(m) [] op1 = 95 -> pop_DI(m) [] op1 = 96 -> push_all(m)
    [] op1 = 97 -> pop_all(m) [] op1 \in {98, 99} -> illegal_op(m) [] op1 = 100 -> segovr_FS(m)
    [] op1 = 101 -> segovr_GS(m) [] op1 = 102 -> prefix_data(m) [] op1 = 103 -> prefix_addr(m)
    [] op1 = 104 -> push_word_IMM(m) [] op1 = 105 -> imul_word_IMM(m)
    [] op1 = 106 -> push_byte_IMM(m) [] op1 = 107 -> imul_byte_IMM(m) [] op1 = 108 -> ins_byte(m)
    [] op1 = 109 -> ins_word(m) [] op1 = 110 -> outs_byte(m) [] op1 = 111 -> outs_word(m)
    [] op1 = 112 -> jump_near_O(m) [] op1 = 113 -> jump_near_NO(m) [] op1 = 114 -> jump_near_B(m)
    [] op1 = 115 -> jump_near_NB(m) [] op1 = 116 -> jump_near_Z(m) [] op1 = 117 -> jump_near_NZ(m)
    [] op1 = 118 -> jump_near_BE(m) [] op1 = 119 -> jump_near_NBE(m)
    [] op1 = 120 -> jump_near_S(m) [] op1 = 121 -> jump_near_NS(m) [] op1 = 122 -> jump_near_P(m)
    [] op1 = 123 -> jump_near_NP(m) [] op1 = 124 -> jump_near_L(m) [] op1 = 125 -> jump_near_NL(m)
    [] op1 = 126 -> jump_near_LE(m) [] op1 = 127 -> jump_near_NLE(m)

Optab80(m, op1) ==
  CASE op1 = 128 -> opc80_byte_RM_IMM(m) [] op1 = 129 -> opc81_word_RM_IMM(m)
    [] op1 = 130 -> opc82_byte_RM_IMM(m) [] op1 = 131 -> opc83_word_RM_IMM(m)
    [] op1 = 132 -> test_byte_RM_R(m) [] op1 = 133 -> test_word_RM_R(m)
    [] op1 = 134 -> xchg_byte_RM_R(m) [] op1 = 135 -> xchg_word_RM_R(m)
    [] op1 = 136 -> mov_byte_RM_R(m) [] op1 = 137 -> mov_word_RM_R(m)
    [] op1 = 138 -> mov_byte_R_RM(m) [] op1 = 139 -> mov_word_R_RM(m)
    [] op1 = 140 -> mov_word_RM_SR(m) [] op1 = 141 -> lea_word_R_M(m)
    [] op1 = 142 -> mov_word_SR_RM(m) [] op1 = 143 -> pop_RM(m) [] op1 = 144 -> nop(m)
    [] op1 = 145 -> xchg_word_AX_CX(m) [] op1 = 146 -> xchg_word_AX_DX(m)
    [] op1 = 147 -> xchg_word_AX_BX(m) [] op1 = 148 -> xchg_word_AX_SP(m)
    [] op1 = 149 -> xchg_word_AX_BP(m) [] op1 = 150 -> xchg_word_AX_SI(m)
    [] op1 = 151 -> xchg_word_AX_DI(m) [] op1 = 152 -> cbw(m) [] op1 = 153 -> cwd(m)
    [] op1 = 154 -> call_far_IMM(m) [] op1 = 155 -> wait(m) [] op1 = 156 -> pushf_word(m)
    [] op1 = 157 -> popf_word(m) [] op1 = 158 -> sahf(m) [] op1 = 159 -> lahf(m)
    [] op1 = 160 -> mov_AL_M_IMM(m) [] op1 = 161 -> mov_AX_M_IMM(m)
    [] op1 = 162 -> mov_M_AL_IMM(m) [] op1 = 163 -> mov_M_AX_IMM(m) [] op1 = 164 -> movs_byte(m)
    [] op1 = 165 -> movs_word(m) [] op1 = 166 -> cmps_byte(m) [] op1 = 167 -> cmps_word(m)
    [] op1 = 168 -> test_AL_IMM(m) [] op1 = 169 -> test_AX_IMM(m) [] op1 = 170 -> stos_byte(m)
    [] op1 = 171 -> stos_word(m) [] op1 = 172 -> lods_byte(m) [] op1 = 173 -> lods_word(m)
    [] op1 = 174 -> scas_byte(m) [] op1 = 175 -> scas_word(m) [] op1 = 176 -> mov_byte_AL_IMM(m)
    [] op1 = 177 -> mov_byte_CL_IMM(m) [] op1 = 178 -> mov_byte_DL_IMM(m)
    [] op1 = 179 -> mov_byte_BL_IMM(m) [] op1 = 180 -> mov_byte_AH_IMM(m)
    [] op1 = 181 -> mov_byte_CH_IMM(m) [] op1 = 182 -> mov_byte_DH_IMM(m)
    [] op1 = 183 -> mov_byte_BH_IMM(m) [] op1 = 184 -> mov_word_AX_IMM(m)
    [] op1 = 185 -> mov_word_CX_IMM(m) [] op1 = 186 -> mov_word_DX_IMM(m)
    [] op1 = 187 -> mov_word_BX_IMM(m) [] op1 = 188 -> mov_word_SP_IMM(m)
    [] op1 = 189 -> mov_word_BP_IMM(m) [] op1 = 190 -> mov_word_SI_IMM(m)
    [] op1 = 191 -> mov_word_DI_IMM(m) [] op1 = 192 -> opcC0_byte_RM_MEM(m)
    [] op1 = 193 -> opcC1_word_RM_MEM(m) [] op1 = 194 -> ret_near_IMM(m)
    [] op1 = 195 -> ret_near(m) [] op1 = 196 -> les_R_IMM(m) [] op1 = 197 -> lds_R_IMM(m)
    [] op1 = 198 -> mov_byte_RM_IMM(m) [] op1 = 199 -> mov_word_RM_IMM(m) [] op1 = 200 -> enter(m)
    [] op1 = 201 -> leave(m) [] op1 = 202 -> ret_far_IMM(m) [] op1 = 203 -> ret_far(m)
    [] op1 = 204 -> int3(m) [] op1 = 205 -> int_IMM(m) [] op1 = 206 -> into(m)
    [] op1 = 207 -> iret(m) [] op1 = 208 -> opcD0_byte_RM_1(m) [] op1 = 209 -> opcD1_word_RM_1(m)
    [] op1 = 210 -> opcD2_byte_RM_CL(m) [] op1 = 211 -> opcD3_word_RM_CL(m) [] op1 = 212 -> aam(m)
    [] op1 = 213 -> aad(m) [] op1 \in {214, 241} -> illegal_op(m) [] op1 = 215 -> xlat(m)
    [] op1 = 216 -> esc_coprocess_d8(m) [] op1 = 217 -> esc_coprocess_d9(m)
    [] op1 = 218 -> esc_coprocess_da(m) [] op1 = 219 -> esc_coprocess_db(m)
    [] op1 = 220 -> esc_coprocess_dc(m) [] op1 = 221 -> esc_coprocess_dd(m)
    [] op1 = 222 -> esc_coprocess_de(m) [] op1 = 223 -> esc_coprocess_df(m)
    [] op1 = 224 -> loopne(m) [] op1 = 225 -> loope(m) [] op1 = 226 -> loop(m)
    [] op1 = 227 -> jcxz(m) [] op1 = 228 -> in_byte_AL_IMM(m) [] op1 = 229 -> in_word_AX_IMM(m)
    [] op1 = 230 -> out_byte_IMM_AL(m) [] op1 = 231 -> out_word_IMM_AX(m)
    [] op1 = 232 -> call_near_IMM(m) [] op1 = 233 -> jump_near_IMM(m)
    [] op1 = 234 -> jump_far_IMM(m) [] op1 = 235 -> jump_byte_IMM(m)
    [] op1 = 236 -> in_byte_AL_DX(m) [] op1 = 237 -> in_word_AX_DX(m)
    [] op1 = 238 -> out_byte_DX_AL(m) [] op1 = 239 -> out_word_DX_AX(m) [] op1 = 240 -> lock(m)
    [] op1 = 242 -> repne(m) [] op1 = 243 -> repe(m) [] op1 = 244 -> halt(m)
    [] op1 = 245 -> cmc(m) [] op1 = 246 -> opcF6_byte_RM(m) [] op1 = 247 -> opcF7_word_RM(m)
    [] op1 = 248 -> clc(m) [] op1 = 249 -> stc(m) [] op1 = 250 -> cli(m) [] op1 = 251 -> sti(m)
    [] op1 = 252 -> cld(m) [] op1 = 253 -> std(m) [] op1 = 254 -> opcFE_byte_RM(m)
    [] op1 = 255 -> opcFF_word_RM(m)

x86emu_optab(m, op1) == IF op1 < 128 THEN Optab00(m, op1) ELSE Optab80(m, op1)

(***************************************************************************)
(* The loop.  A raised interrupt is handled when it is a divide error or   *)
(* an NMI, or when interrupts are disabled; handling it does not take it   *)
(* back: x86emu_do_int() is a handler, and only the branch of              *)
(* x86emu_intr_handle() that has none clears M.x86.intr.                   *)
(***************************************************************************)
Due(m) == "SYNCH" \in m.intr /\ (m.intno \in {0, 2} \/ IF_ \notin m.f)

x86emu_intr_handle(m) == IF Due(m) THEN x86emu_do_int(m, m.intno) ELSE m

Dispatch(i) == x86emu_optab(i.m, i.v)
AtZero(m)  == m.seg["CS"] = 0 /\ m.ip = 0

Running == state = "running" /\ "CRASHED" \notin M.intr /\ UNCHANGED <<call, regs>>

ExecHalted ==
  /\ Running /\ "HALTED" \in M.intr
  /\ state' = "returned" /\ UNCHANGED <<M, steps>>

ExecReturns ==
  /\ Running /\ "HALTED" \notin M.intr /\ AtZero(x86emu_intr_handle(M))
  /\ M' = x86emu_intr_handle(M)
  /\ state' = "returned" /\ UNCHANGED steps

ExecInstruction ==
  /\ Running /\ "HALTED" \notin M.intr /\ ~AtZero(x86emu_intr_handle(M))
  /\ steps < MaxSteps
  /\ M' = Dispatch(fetch_byte_imm(x86emu_intr_handle(M)))
  /\ steps' = steps + 1 /\ UNCHANGED state

Crashed ==
  /\ state = "running" /\ "CRASHED" \in M.intr
  /\ state' = "dead" /\ UNCHANGED <<M, call, regs, steps>>

(***************************************************************************)
(* The call.  X86_EFLAGS, the prefixes and DS are what the call before     *)
(* left; the interrupt vector and what it points to are the BIOS.  The     *)
(* stack is the caller's where it names a segment or a pointer for it.     *)
(***************************************************************************)
StartSS == IF call.ss # 0 THEN call.ss ELSE StackSeg
StartSP == IF call.r[SP] # 0 THEN call.r[SP] ELSE 65534

x86emu_LRMI_int ==
  /\ state = "idle"
  /\ LET n == [M EXCEPT !.f = @ \ {19, TF, IF_, 14},
                        !.seg = [@ EXCEPT !["SS"] = StartSS,
                                          !["ES"] = call.es, !["FS"] = call.fs, !["GS"] = call.gs],
                        !.r = [call.r EXCEPT ![SP] = StartSP],
                        !.intr = {}]
     IN  M' = JumpFar(n, mem_access_word(n, call.num * 4 + 2).v, mem_access_word(n, call.num * 4).v)
  /\ state' = "running" /\ UNCHANGED <<call, regs, steps>>

real_call ==
  /\ state = "returned"
  /\ regs' = [r |-> [M.r EXCEPT ![SP] = call.r[SP]], es |-> M.seg["ES"]]
  /\ state' = "done" /\ UNCHANGED <<M, call, steps>>

Init ==
  /\ call \in Calls
  /\ M = [r |-> [n \in 0..7 |-> 0], seg |-> [s \in Segments |-> IF s = "DS" THEN call.ds ELSE 0],
          ip |-> 0, f |-> call.f, mode |-> call.mode, intr |-> {}, intno |-> 0,
          mem |-> call.mem, io |-> <<>>, in |-> call.in, undef |-> call.undef]
  /\ regs = [r |-> call.r, es |-> call.es]
  /\ state = "idle" /\ steps = 0

Next == x86emu_LRMI_int \/ ExecHalted \/ ExecReturns \/ ExecInstruction \/ Crashed \/ real_call

Spec == Init /\ [][Next]_vars

(***************************************************************************)
(* What is said of a call is said at the last byte of its code, where      *)
(* everything before it was executed.                                      *)
(***************************************************************************)
AtEnd == state = "running" /\ M.seg["CS"] = Bios /\ M.ip = Len(call.code) - 1
Ran(code) == AtEnd /\ call.code = code \o <<207>>
Byte(n)   == Reg8([r |-> call.r], n)
Word(n)   == Reg16([r |-> call.r], n)

\* decode.c:829-836 says that the bit that makes BP address the stack is clear after
\* every instruction: were it left by one that does not use its operand, or fails,
\* the next one would take its data from the stack.
\* Only a program that is dead, having followed a null pointer, leaves it set.
NoStackSegmentLeft == "CRASHED" \notin M.intr => "SEG_DS_SS" \notin M.mode

\* The relation of two signed or unsigned bytes that the condition of number n is of.
Related(n, a, b) ==
  LET sa == Signed(8, a)
      sb == Signed(8, b)
  IN  CASE n = 0  -> sa - sb \notin -128..127
        [] n = 1  -> sa - sb \in -128..127
        [] n = 2  -> a < b
        [] n = 3  -> a >= b
        [] n = 4  -> a = b
        [] n = 5  -> a # b
        [] n = 6  -> a <= b
        [] n = 7  -> a > b
        [] n = 8  -> Mod(8, a - b) > 127
        [] n = 9  -> Mod(8, a - b) <= 127
        [] n = 10 -> Cardinality(Bits(Mod(8, a - b))) % 2 = 0
        [] n = 11 -> Cardinality(Bits(Mod(8, a - b))) % 2 = 1
        [] n = 12 -> sa < sb
        [] n = 13 -> sa >= sb
        [] n = 14 -> sa <= sb
        [] n = 15 -> sa > sb

\* CMP AL,DL and a conditional jump over INC BX, short or long, or a SETcc of BL.
ShortJump(n) == <<56, 208, 112 + n, 1, 67>>
LongJump(n)  == <<56, 208, 15, 128 + n, 1, 0, 67>>
SetByte(n)   == <<56, 208, 15, 144 + n, 195>>

\* A comparison and what is decided by it agree: the borrow chains of cmp_byte() and
\* the sixteen conditions of ops.c and of ops2.c, each computed from other flags, tell
\* the relation of the two numbers.  JNL and SETNL of ops2.c are left out: see the README.
CompareAndJump ==
  \A n \in 0..15 :
    LET holds == Related(n, Byte(AL), Byte(DL)) IN
      /\ Ran(ShortJump(n)) => (M.r[BX] = call.r[BX]) = holds
      /\ n # 13 /\ Ran(LongJump(n)) => (M.r[BX] = call.r[BX]) = holds
      /\ n # 13 /\ Ran(SetByte(n))  => Reg8(M, BL) = (IF holds THEN 1 ELSE 0)

\* ADD, ADC, SBB, SUB or CMP of AL and DL, or of AX and DX.
Arithmetic(op, w) == <<8 * op + (IF w = 8 THEN 0 ELSE 1), 208>>

\* The flags, which the program gets from the carry at each bit, are what arithmetic
\* says: CF that the unsigned result does not fit, OF that the signed one does not,
\* AF that the low digit does not, and the others of the result.
FlagsTellOfResult ==
  \A op \in {0, 2, 3, 5, 7}, w \in {8, 16} :
    Ran(Arithmetic(op, w)) =>
      LET a  == Reg([r |-> call.r], w, AX)
          b  == Reg([r |-> call.r], w, DX)
          c  == IF op \in {2, 3} /\ CF \in call.f THEN 1 ELSE 0
          up == op \in {0, 2}
          of(x, y) == IF up THEN x + y + c ELSE x - y - c
          res == Mod(w, of(a, b))
      IN  /\ Reg(M, w, AX) = IF op = 7 THEN a ELSE res
          /\ (CF \in M.f) = (of(a, b) \notin 0..2^w - 1)
          /\ (OF \in M.f) = (of(Signed(w, a), Signed(w, b)) \notin -2^(w - 1)..2^(w - 1) - 1)
          /\ (AF \in M.f) = (of(a % 16, b % 16) \notin 0..15)
          /\ (ZF \in M.f) = (res = 0)
          /\ (SF \in M.f) = (Signed(w, res) < 0)

\* Two digits in a byte, as DAA and DAS have them.
Packed(x)   == 16 * (x \div 10) + (x % 10)
Unpacked(x) == 10 * (x \div 16) + (x % 16)

\* Decimal arithmetic: ADD and DAA, SUB and DAS of packed numbers, ADD and AAA, SUB
\* and AAS of digits leave the decimal result, and CF its carry or its borrow; AAM
\* and AAD undo each other.
DecimalAdjust ==
  LET a  == Unpacked(Byte(AL))
      d  == Unpacked(Byte(DL))
      x  == Byte(AL)
      y  == Byte(DL)
      ah == Byte(AH)
  IN  /\ Ran(<<0, 208, 39>>)  => Reg8(M, AL) = Packed((a + d) % 100) /\ (CF \in M.f) = (a + d > 99)
      /\ Ran(<<40, 208, 47>>) => Reg8(M, AL) = Packed((a - d) % 100) /\ (CF \in M.f) = (a < d)
      /\ Ran(<<0, 208, 55>>)  => /\ Reg16(M, AX) = Mod(8, ah + (x + y) \div 10) * 256 + ((x + y) % 10)
                                 /\ (CF \in M.f) = (x + y > 9)
      /\ Ran(<<40, 208, 63>>) => /\ Reg16(M, AX) = Mod(8, ah - (IF x < y THEN 1 ELSE 0)) * 256 + ((x - y) % 10)
                                 /\ (CF \in M.f) = (x < y)
      /\ Ran(<<212, 10, 213, 10>>) => Reg16(M, AX) = x

\* MUL and DIV, IMUL and IDIV by the same register: DL for bytes, BX for words.
MulDiv(signed, w) ==
  LET op == IF w = 8 THEN 246 ELSE 247
      rl == IF w = 8 THEN DL ELSE BX
  IN  <<op, (IF signed THEN 232 ELSE 224) + rl, op, (IF signed THEN 248 ELSE 240) + rl>>

\* A division takes back the multiplication by the same number and leaves no
\* remainder, whatever the registers the product is spread over; it faults on 0, and a
\* signed one on the smallest number, whose absolute value is not one.
DivUndoesMul ==
  \A signed \in BOOLEAN, w \in {8, 16} :
    Ran(MulDiv(signed, w)) =>
      LET a == Reg([r |-> call.r], w, AX)
          b == Reg([r |-> call.r], w, IF w = 8 THEN DL ELSE BX)
      IN  IF b = 0 \/ (signed /\ a = 2^(w - 1)) THEN "SYNCH" \in M.intr
          ELSE M.intr = {} /\ Wide(M, w) = <<0, a>>

\* ROL, ROR, RCL or RCR of AL, or of AX, by CL, and one step of it.
Rotation(op, w) == <<IF w = 8 THEN 210 ELSE 211, 192 + 8 * op>>
RotateOnce(op, w, p) ==
  LET top == Bit(p.v, w - 1)
      low == Bit(p.v, 0)
      in  == IF (CASE op = 0 -> top [] op = 1 -> low [] op \in {2, 3} -> p.c) THEN 1 ELSE 0
  IN  IF op \in {0, 2} THEN [v |-> Mod(w, 2 * p.v) + in, c |-> top]
      ELSE [v |-> p.v \div 2 + in * 2^(w - 1), c |-> low]

\* A rotation by CL is CL rotations by one, through the carry flag or not: the program
\* puts it together from two shifts and a bit, modulo the width or the width and one.
RotationsAddUp ==
  \A op \in 0..3, w \in {8, 16} :
    Ran(Rotation(op, w)) =>
      LET end == FoldLeft(LAMBDA p, i : RotateOnce(op, w, p),
                          [v |-> Reg([r |-> call.r], w, AX), c |-> CF \in call.f],
                          [i \in 1..Byte(CL) |-> i])
      IN  Reg(M, w, AX) = end.v /\ (CF \in M.f) = end.c

\* What a string instruction of w-bit units works on, unit i counted from 0.
At(seg, n, w, i) ==
  Linear(call[seg], Mod(16, Word(n) + (IF DF \in call.f THEN -i ELSE i) * Bytes(w)))
Before(a) == IF a \in DOMAIN call.mem THEN call.mem[a] ELSE 0
Now(a)    == IF a \in DOMAIN M.mem THEN M.mem[a] ELSE 0
Moved(n, w, k) == Mod(16, Word(n) + (IF DF \in call.f THEN -k ELSE k) * Bytes(w))

\* REP MOVS copies CX units, in either direction, and nothing else: CX is 0, SI and DI
\* have passed what was copied, and no other byte has changed.  With CX = 0 it does
\* nothing at all.
RepCopiesAll ==
  \A w \in {8, 16} :
    Ran(<<243, IF w = 8 THEN 164 ELSE 165>>) =>
      LET n == Word(CX)
          target == {<<i, b>> \in (0..n - 1) \X (0..Bytes(w) - 1) : TRUE}
      IN  /\ Reg16(M, CX) = 0 /\ Reg16(M, SI) = Moved(SI, w, n) /\ Reg16(M, DI) = Moved(DI, w, n)
          /\ \A t \in target : Now(At("es", DI, w, t[1]) + t[2]) = Before(At("ds", SI, w, t[1]) + t[2])
          /\ \A a \in DOMAIN M.mem \ {At("es", DI, w, t[1]) + t[2] : t \in target} : Now(a) = Before(a)

\* REPE CMPSB stops after the first bytes that differ, REPNE SCASB after the first byte
\* that is AL; CX is what is left, ZF tells what was found, and a count of 0 compares
\* nothing and leaves the flags alone.
RepStopsAtFirst ==
  \A code \in {<<243, 166>>, <<242, 174>>} :
    Ran(code) =>
      LET n    == Word(CX)
          Equal(i) == Before(At("es", DI, 8, i)) =
                      IF code[1] = 243 THEN Before(At("ds", SI, 8, i)) ELSE Byte(AL)
          stop == {i \in 0..n - 1 : Equal(i) = (code[1] = 242)}
          used == IF stop = {} THEN n ELSE Min(stop) + 1
      IN  /\ Reg16(M, CX) = n - used /\ Reg16(M, DI) = Moved(DI, 8, used)
          /\ (ZF \in M.f) = IF n = 0 THEN ZF \in call.f ELSE Equal(used - 1)

\* Code that puts back what it takes: it pushes and pops, calls and returns, enters
\* and leaves frames, raises an interrupt whose handler returns.  The registers, the
\* segments and the flags are then what they were, but for IF, which
\* x86emu_do_int() sets in the flags it pushes; and no byte outside the stack differs.
\* Of ESP it says the word: an interrupt that wraps SP leaves the upper half changed.
BalancedCodeRestores ==
  AtEnd /\ call.balanced =>
    /\ Reg16(M, SP) = StartSP /\ \A n \in 0..7 \ {SP} : M.r[n] = call.r[n]
    /\ M.seg["DS"] = call.ds /\ M.seg["ES"] = call.es /\ M.seg["SS"] = StartSS
    /\ (M.f \ {IF_}) \cap F_MSK = (call.f \ {IF_, TF}) \cap F_MSK
    /\ LET stack == {Linear(StartSS, Mod(16, StartSP - k)) + b : k \in 1..134, b \in 0..3}
       IN  \A a \in DOMAIN M.mem \ stack : Now(a) = Before(a)

\* A division that overflows or divides by zero raises its interrupt and has done
\* nothing else: the quotient must not be stored before it is known to fit.
FaultHasNoEffect ==
  [][ state = "running" /\ M.intr = {} /\ "SYNCH" \in M'.intr =>
        M'.r = M.r /\ M'.f = M.f /\ M'.mem = M.mem /\ M'.seg = M.seg ]_vars

High(m, n) == m.r[n] \div 65536

\* Without the prefix of the data the upper halves of the registers are out of reach:
\* only MOVZX and MOVSX of a word, which always extend to a long, and an interrupt
\* that wraps ESP may change them.
Extends(m) == LET op == fetch_byte_imm(m)
              IN  op.v = 15 /\ fetch_byte_imm(op.m).v \in {183, 191}
Wraps(m)   == fetch_byte_imm(m).v \in {204, 205, 206} /\ Reg16(m, SP) < 6
NarrowCodeKeepsHigh ==
  [][ state = "running" /\ "PREFIX_DATA" \notin M.mode /\ M.intr = {} =>
        \A n \in 0..7 : High(M', n) # High(M, n) => Extends(M) \/ (n = SP /\ Wraps(M)) ]_vars
===============================================================================
