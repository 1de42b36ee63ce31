------------------------------- MODULE MCX86emu -------------------------------
(***************************************************************************)
(* BIOS code for X86emu: one or a few instructions and an IRET.            *)
(***************************************************************************)
EXTENDS X86emu

\* The vectors 0, 3, 4 and 33 point to an IRET behind the code, 16 to the code.
HandlerAt == 128
Bytes2(x) == <<x % 256, x \div 256>>
VectorBytes(n, ip) == Bytes2(ip) \o Bytes2(Bios)
Place(a, s) == [x \in a..a + Len(s) - 1 |-> s[x - a + 1]]
Merge(f, g) == [x \in DOMAIN f \cup DOMAIN g |-> IF x \in DOMAIN g THEN g[x] ELSE f[x]]

Data  == Place(16 * 256, <<1, 2, 3, 4, 128, 255, 7, 8, 9, 10, 11, 12>>)
Other == Place(16 * 512, <<1, 2, 5, 4, 128, 0>>)
Vectors == FoldLeft(LAMBDA f, n : Merge(f, Place(4 * n, VectorBytes(n, HandlerAt))),
                    Place(64, VectorBytes(16, 0)), <<0, 3, 4, 33>>)
Fixed == Merge(Merge(Vectors, Place(16 * Bios + HandlerAt, <<207>>)), Merge(Data, Other))

Call(code, r, f) ==
  [num |-> 16, code |-> code, r |-> r, ss |-> 0, es |-> 512, fs |-> 768, gs |-> 1024, ds |-> 256,
   f |-> f, mode |-> {}, balanced |-> FALSE, in |-> 90, undef |-> 255,
   mem |-> Merge(Fixed, Place(16 * Bios, code))]

Iret(code) == code \o <<207>>
Regs(ax, dx, cx, bx) ==
  [n \in 0..7 |-> CASE n = AX -> ax [] n = DX -> dx [] n = CX -> cx [] n = BX -> bx
                    [] n = SP -> 0 [] n = BP -> 2 [] n = SI -> 1 [] n = DI -> 3]

(***************************************************************************)
(* Every instruction, with operands in registers and in memory of every    *)
(* kind of address, alone and after a prefix.                              *)
(***************************************************************************)
Wide16 == [n \in 0..7 |-> <<1114627, 2, 131075, 196616, 0, 262148, 327681, 393219>>[n + 1]]
ModRM(mod, rh, rl) == 64 * mod + 8 * rh + rl
Immediates == <<10, 0, 2, 0, 0, 0, 0>>
Rest == Immediates \o <<244, 244>>
Grouped == 128..131 \cup {140, 142, 143, 192, 193, 198, 199, 246, 247, 254, 255} \cup 208..223
Codes ==
  { p \o <<op, ModRM(a[1], rh, a[2])>> \o Rest :
      p \in {<<>>, <<102>>}, op \in 0..255 \ {15}, a \in {<<3, 2>>, <<0, 6>>}, rh \in {1} }
  \cup { p \o <<op, ModRM(a[1], rh, a[2])>> \o Rest :
           p \in {<<>>, <<102>>}, op \in Grouped, a \in {<<3, 2>>, <<0, 6>>, <<1, 6>>}, rh \in 0..7 }
  \cup { p \o <<15, op, ModRM(a[1], rh, a[2])>> \o Rest :
           p \in {<<>>, <<102>>}, op \in 127..192, a \in {<<3, 2>>, <<0, 6>>}, rh \in {1} }
  \cup { p \o <<15, 186, ModRM(a[1], rh, a[2])>> \o Rest :
           p \in {<<>>, <<102>>}, a \in {<<3, 2>>, <<0, 6>>}, rh \in 0..7 }
  \cup { p \o <<139, ModRM(mod, 0, rl)>> \o Rest :
           p \in {<<>>, <<103>>, <<38>>, <<46>>, <<54>>, <<62>>, <<100>>, <<101>>, <<38, 54>>},
           mod \in 0..3, rl \in 0..7 }
  \cup { <<103, 139, ModRM(mod, 0, 4), sib>> \o Rest : mod \in 0..2, sib \in {5, 12, 36, 37, 75, 219} }
  \cup { p \o <<op>> \o Rest : p \in {<<243>>, <<242>>, <<243, 102>>, <<102, 243>>}, op \in 164..175 \cup 108..111 }
\* What is used nowhere in a code is given its usual value.
Sweep == { Call(c, Wide16, f) : c \in Codes, f \in {{1}, F_MSK \ {DF}} }

(***************************************************************************)
(* What the properties are about.                                          *)
(***************************************************************************)
Edge8 == {0, 1, 15, 127, 128, 129, 255}
Jumps == { Call(Iret(c), Regs(a, d, 0, 65536), {}) :
             c \in UNION {{ShortJump(n), LongJump(n), SetByte(n)} : n \in 0..15}, a \in Edge8, d \in {0, 1, 127, 128, 255} }
Sums == { Call(Iret(Arithmetic(op, 8)), Regs(a, d, 0, 0), f) :
            op \in {0, 2, 3, 5, 7}, a \in Edge8 \cup {136}, d \in Edge8, f \in {{}, {CF, OF, ZF}} }
  \cup { Call(Iret(Arithmetic(op, 16)), Regs(a, d, 0, 0), f) :
           op \in {0, 2, 3, 5, 7}, a \in {0, 32767, 32768, 65535, 4095}, d \in {1, 32768, 65535}, f \in {{}, {CF}} }
PackedDigits == {0, 1, 9, 16, 25, 89, 96, 145, 153}
Decimals ==
  { Call(Iret(c), Regs(a, d, 0, 0), f) :
      c \in {<<0, 208, 39>>, <<40, 208, 47>>}, a \in PackedDigits, d \in PackedDigits, f \in {{}, {CF, AF}} }
  \cup { Call(Iret(c), Regs(256 * h + a, d, 0, 0), {AF}) :
           c \in {<<0, 208, 55>>, <<40, 208, 63>>}, h \in {0, 5}, a \in {0, 4, 5, 9}, d \in {0, 1, 5, 6, 9} }
  \cup { Call(Iret(<<212, 10, 213, 10>>), Regs(a, 0, 0, 0), {}) : a \in {0, 9, 10, 99, 100, 255} }
Products ==
  { Call(Iret(MulDiv(s, 8)), Regs(a, d, 0, 0), {}) : s \in BOOLEAN, a \in Edge8, d \in Edge8 }
  \cup { Call(Iret(MulDiv(s, 16)), Regs(a, 77, 0, b), {}) :
           s \in BOOLEAN, a \in {0, 1, 32768, 32767, 65535, 300}, b \in {0, 1, 500, 32768, 65535} }
Rotations ==
  { Call(Iret(Rotation(op, w)), Regs(a, 0, c, 0), f) :
      op \in 0..3, w \in {8, 16}, a \in {1, 128, 32769, 90, 43690}, c \in {0, 1, 2, 7, 8, 9, 16, 17, 18}, f \in {{}, {CF}} }
Strings ==
  { Call(Iret(<<p, op>>), [Regs(a, 0, c, 0) EXCEPT ![SI] = x, ![DI] = y], f) :
      p \in {242, 243}, op \in {164, 165, 166, 170, 171, 174}, a \in {4, 5}, c \in 0..4, x \in {0, 4}, y \in {0, 5},
      f \in {{}, {DF, ZF}} }
Balanced ==
  { [Call(Iret(c), Wide16, f) EXCEPT !.balanced = TRUE] :
      f \in {{}, {CF, DF, OF}},
      c \in { <<156, 96, 64, 73, 178, 7, 187, 1, 2, 70, 79, 85, 93, 97, 157>>,
              <<156, 102, 96, 64, 102, 67, 102, 97, 157>>,
              <<156, 249, 253, 157>>, <<102, 156, 245, 102, 157>>,
              <<80, 82, 184, 1, 0, 90, 88>>, <<102, 80, 184, 9, 9, 102, 88>>,
              <<30, 6, 30, 7, 7, 31>>,
              <<232, 2, 0, 235, 3, 156, 157, 195>>,
              <<154, 7, 0, 0, 192, 235, 3, 80, 88, 203>>,
              <<80, 104, 52, 18, 106, 128, 88, 88, 88>>,
              <<200, 6, 0, 0, 201>>, <<200, 6, 0, 3, 201>>,
              <<205, 33>>, <<156, 204, 157>>, <<156, 206, 157>>,
              <<15, 160, 15, 168, 15, 169, 15, 161>>, <<80, 143, 6, 64, 0, 198, 6, 64, 0, 0, 198, 6, 65, 0, 0>> } }
\* On a stack of the caller's own, which may wrap around its segment.
OwnStack == { [c EXCEPT !.ss = s, !.r[SP] = p] :
                c \in {b \in Balanced : b.f = {CF, DF, OF}}, s \in {0, 12288}, p \in {2, 4096} }
\* What the call before left, a port, memory above the first megabyte.
Remains == { [Call(<<164, 144, 166, 207>>, Wide16, {}) EXCEPT !.mode = {"PREFIX_REPE"}, !.undef = u] : u \in {0, 255} }

MCCalls == Sweep \cup Jumps \cup Sums \cup Decimals \cup Products \cup Rotations \cup Strings \cup Balanced
           \cup OwnStack \cup Remains
===============================================================================
