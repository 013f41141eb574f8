----------------------------- MODULE X86Tables -----------------------------
(***************************************************************************)
(* The opcode tables of mhook's disassembler, disasm_x86_tables.h, as the  *)
(* decoder of Disasm reads them on the 32-bit build.  A row keeps what the *)
(* decoder branches on:                                                    *)
(*   type   the instruction's type where the decoder or its caller tells   *)
(*          it from others, its category where only that matters, "64BIT"  *)
(*          for what is rejected on this build, else "PLAIN";             *)
(*   ops    the operands, each with its addressing mode and its size;      *)
(*   dst    the operands the instruction writes,                           *)
(*   src    the operands it reads;                                         *)
(*   table  the table a row that is not yet an instruction refers to.      *)
(* An operand that is a fixed register, a flag, a segment, a constant or a *)
(* model-specific register takes no byte and names no memory: Reg.         *)
(* Mnemonics, flags, conditions and stack changes are not kept.            *)
(***************************************************************************)
EXTENDS Integers, Sequences

Byte == 0..255

-----------------------------------------------------------------------------
(* Operands: AMODE_x | OPTYPE_t is x(t). *)

A(t) == [mode |-> "A", size |-> t]
C(t) == [mode |-> "C", size |-> t]
D(t) == [mode |-> "D", size |-> t]
E(t) == [mode |-> "E", size |-> t]
G(t) == [mode |-> "G", size |-> t]
I(t) == [mode |-> "I", size |-> t]
J(t) == [mode |-> "J", size |-> t]
M(t) == [mode |-> "M", size |-> t]
O(t) == [mode |-> "O", size |-> t]
P(t) == [mode |-> "P", size |-> t]
Q(t) == [mode |-> "Q", size |-> t]
R(t) == [mode |-> "R", size |-> t]
S(t) == [mode |-> "S", size |-> t]
V(t) == [mode |-> "V", size |-> t]
W(t) == [mode |-> "W", size |-> t]
X(t) == [mode |-> "X", size |-> t]
Y(t) == [mode |-> "Y", size |-> t]
PR(t) == [mode |-> "PR", size |-> t]
VR(t) == [mode |-> "VR", size |-> t]
xlat(t) == [mode |-> "xlat", size |-> t]
Reg == [mode |-> "fixed", size |-> "fixed"]

-----------------------------------------------------------------------------
(* Rows. *)

Row(type, ops, dst, src) ==
  [type |-> type, ops |-> ops, dst |-> dst, src |-> src, table |-> <<>>]

Writes(ops)    == Row("PLAIN", ops, {1}, DOMAIN ops \ {1})
Modifies(ops)  == Row("PLAIN", ops, {1}, DOMAIN ops)
Reads(ops)     == Row("PLAIN", ops, {}, DOMAIN ops)
Exchanges(ops) == Row("PLAIN", ops, DOMAIN ops, DOMAIN ops)
As(type, row)  == [row EXCEPT !.type = type]

NOARGS == Reads(<<>>)
NOINSTR == As("NOINSTR", NOARGS)
PREFIX == As("PREFIX", NOARGS)
GROUP(table) == [NOARGS EXCEPT !.type = "GROUP", !.table = table]
EXT_FPU(table) == [NOARGS EXCEPT !.type = "EXT_FPU", !.table = table]
EXT_64(table) == [NOARGS EXCEPT !.type = "EXT_64", !.table = table]
EXT_MODRM(table) == [NOARGS EXCEPT !.type = "EXT_MODRM", !.table = table]
EXT_SUFFIX(table, ops) == [NOARGS EXCEPT !.type = "EXT_SUFFIX", !.table = table, !.ops = ops]

-----------------------------------------------------------------------------
(* Groups: the row of each value of the ModRM byte's reg field. *)

X86_Group_1(dst, imm) ==
  [ext \in 0..7 |-> IF ext = 7 THEN Reads(<<dst, imm>>) ELSE Writes(<<dst, imm>>)]

X86_Group_2(dst, count) == [ext \in 0..7 |-> Writes(<<dst, count>>)]

X86_Group_3(op, imm) ==
  [ext \in 0..7 |-> CASE ext \in 0..1 -> Reads(<<op, imm>>)
                      [] ext \in 2..3 -> Modifies(<<op>>)
                      [] ext \in 4..7 -> Row("PLAIN", <<Reg, op, Reg>>, {1}, {2, 3})]

X86_Group_4 == [ext \in 0..7 |-> IF ext \in 0..1 THEN Modifies(<<E("b")>>) ELSE NOINSTR]

X86_Group_5 ==
  [ext \in 0..7 |-> CASE ext \in 0..1 -> Modifies(<<E("v")>>)
                      [] ext = 2 -> As("CALL", Reads(<<E("v")>>))
                      [] ext = 3 -> As("CALL", Reads(<<E("p")>>))
                      [] ext = 4 -> As("BRANCH", Reads(<<E("v")>>))
                      [] ext = 5 -> As("BRANCH", Reads(<<E("p")>>))
                      [] ext = 6 -> As("PUSH", Reads(<<E("v")>>))
                      [] ext = 7 -> NOINSTR]

X86_Group_6 ==
  [ext \in 0..7 |-> CASE ext \in 0..1 -> Writes(<<E("mw")>>)
                      [] ext \in 2..5 -> Reads(<<E("w")>>)
                      [] ext = 6 -> As("64BIT", Reads(<<E("v")>>))
                      [] ext = 7 -> NOINSTR]

X86_Group_7 ==
  [ext \in 0..7 |-> CASE ext \in 0..1 -> Writes(<<M("dt")>>)
                      [] ext \in 2..3 -> Reads(<<M("dt")>>)
                      [] ext = 4 -> Writes(<<E("mw"), Reg>>)
                      [] ext = 5 -> NOINSTR
                      [] ext = 6 -> Writes(<<Reg, E("w")>>)
                      [] ext = 7 -> Reads(<<M("b")>>)]

X86_Group_8 ==
  [ext \in 0..7 |-> IF ext \in 4..7 THEN Modifies(<<E("v"), I("b")>>) ELSE NOINSTR]

X86_Group_9 ==
  [ext \in 0..7 |-> IF ext = 1 THEN Row("PLAIN", <<M("q"), Reg, Reg>>, {1, 2}, {1, 2, 3})
                    ELSE NOINSTR]

X86_Group_10 ==
  [ext \in 0..7 |-> IF ext = 0 THEN As("POP", Writes(<<E("v")>>)) ELSE NOINSTR]

X86_Group_11 == [ext \in 0..7 |-> NOARGS]

X86_Group_12(dst, imm) ==
  [ext \in 0..7 |-> IF ext = 0 THEN As("MOV", Writes(<<dst, imm>>)) ELSE NOINSTR]

X86_Group_13 ==
  [ext \in 0..7 |-> IF ext \in {2, 4, 6} THEN As("MMX", Writes(<<PR("q"), I("b")>>))
                    ELSE NOINSTR]

X86_Group_14 ==
  [ext \in 0..7 |-> IF ext \in {2, 4, 6} THEN As("MMX", Writes(<<PR("q"), I("b")>>))
                    ELSE NOINSTR]

X86_Group_15 ==
  [ext \in 0..7 |-> IF ext \in {2, 3, 6, 7} THEN As("MMX", Writes(<<PR("q"), I("b")>>))
                    ELSE NOINSTR]

X86_Group_16 ==
  [ext \in 0..7 |-> CASE ext = 0 -> As("FPU", Writes(<<M("fst2")>>))
                      [] ext = 1 -> As("FPU", Reads(<<M("fst2")>>))
                      [] ext = 2 -> As("SSE", Reads(<<M("d")>>))
                      [] ext = 3 -> As("SSE", Writes(<<M("d")>>))
                      [] ext = 4 -> NOINSTR
                      [] ext \in 5..7 -> NOARGS]

X86_Group_17 == [ext \in 0..7 |-> Reads(<<E("b")>>)]

X86_Group_P == [ext \in 0..7 |-> IF ext \in 0..1 THEN Reads(<<E("b")>>) ELSE NOINSTR]

-----------------------------------------------------------------------------
(* The escape opcodes D8 to DF: rows 0 to 7 are for the reg field of a ModRM *)
(* byte below C0, row 8 + n is for the ModRM byte C0 + n.                    *)

Escape(row(_)) == [i \in 0..71 |-> LET r == row(i) IN
                                   IF r.type = "PLAIN" THEN As("FPU", r) ELSE r]

X86_ESC_0 ==
  LET row(i) == CASE i \in {0, 1, 4, 5, 6, 7} -> Modifies(<<Reg, M("ss")>>)
                  [] i \in {2, 3} -> Reads(<<M("ss"), Reg>>)
                  [] i \in \h08..\h17 \union \h28..\h47 -> Modifies(<<Reg, Reg>>)
                  [] i \in \h18..\h27 -> Reads(<<Reg, Reg>>)
  IN Escape(row)

X86_ESC_1 ==
  LET row(i) == CASE i = 0 -> Reads(<<M("ss")>>)
                  [] i \in {1, \h37} \union \h19..\h27 \union \h2A..\h2B \union \h2E..\h2F -> NOINSTR
                  [] i \in {2, 3} -> Writes(<<M("ss"), Reg>>)
                  [] i = 4 -> As("FLOADENV", Reads(<<M("fev")>>))
                  [] i = 5 -> Writes(<<Reg, M("w")>>)
                  [] i = 6 -> Writes(<<M("fev")>>)
                  [] i = 7 -> Writes(<<M("w"), Reg>>)
                  [] i \in \h08..\h0F \union {\h2D} \union \h30..\h36 -> Reads(<<Reg>>)
                  [] i \in \h10..\h17 -> Exchanges(<<Reg, Reg>>)
                  [] i \in {\h18, \h3E, \h3F} -> NOARGS
                  [] i \in {\h28, \h29, \h38, \h3A, \h42, \h43, \h44, \h46, \h47} -> Modifies(<<Reg>>)
                  [] i = \h2C -> Reads(<<Reg, Reg>>)
                  [] i \in {\h39, \h3B, \h3D, \h40, \h41, \h45} -> Modifies(<<Reg, Reg>>)
                  [] i = \h3C -> Row("PLAIN", <<Reg, Reg>>, {1, 2}, {1})
  IN Escape(row)

X86_ESC_2 ==
  LET row(i) == CASE i \in {0, 1, 4, 5, 6, 7} -> Modifies(<<Reg, M("sd")>>)
                  [] i \in {2, 3} -> Row("PLAIN", <<M("sd"), Reg>>, {2}, {1, 2})
                  [] i \in \h08..\h27 -> Writes(<<Reg, Reg>>)
                  [] i \in \h28..\h30 \union \h32..\h47 -> NOINSTR
                  [] i = \h31 -> Reads(<<Reg, Reg>>)
  IN Escape(row)

X86_ESC_3 ==
  LET row(i) == CASE i \in {0, 1} -> Reads(<<M("d")>>)
                  [] i \in {2, 3} -> Writes(<<M("d"), Reg>>)
                  [] i \in {4, 6, \h28, \h29} \union \h2C..\h2F \union \h40..\h47 -> NOINSTR
                  [] i = 5 -> Reads(<<M("se")>>)
                  [] i = 7 -> Writes(<<M("se"), Reg>>)
                  [] i \in \h08..\h27 -> Writes(<<Reg, Reg>>)
                  [] i \in {\h2A, \h2B} -> Writes(<<Reg>>)
                  [] i \in \h30..\h3F -> Reads(<<Reg, Reg>>)
  IN Escape(row)

X86_ESC_4 ==
  LET row(i) == CASE i \in {0, 1, 4, 5, 6, 7} -> Modifies(<<Reg, M("sd")>>)
                  [] i \in {2, 3} -> Reads(<<M("sd"), Reg>>)
                  [] i \in \h08..\h17 \union \h28..\h47 -> Modifies(<<Reg, Reg>>)
                  [] i \in \h18..\h27 -> NOINSTR
  IN Escape(row)

X86_ESC_5 ==
  LET row(i) == CASE i = 0 -> Reads(<<M("sd")>>)
                  [] i = 1 -> Writes(<<M("d"), Reg>>)
                  [] i \in {2, 3} -> Reads(<<M("sd"), Reg>>)
                  [] i = 4 -> As("FRESTORE", Reads(<<M("fst1")>>))
                  [] i = 6 -> As("FSAVE", Writes(<<M("fst1")>>))
                  [] i = 7 -> Writes(<<M("w"), Reg>>)
                  [] i \in \h08..\h0F \union \h18..\h27 -> Writes(<<Reg, Reg>>)
                  [] i \in \h28..\h37 -> Reads(<<Reg, Reg>>)
                  [] i \in {5} \union \h10..\h17 \union \h38..\h47 -> NOINSTR
  IN Escape(row)

X86_ESC_6 ==
  LET row(i) == CASE i \in {0, 1, 4, 5, 6, 7} -> Modifies(<<Reg, M("w")>>)
                  [] i \in {2, 3} -> Reads(<<M("w"), Reg>>)
                  [] i \in \h08..\h17 \union \h28..\h47 -> Modifies(<<Reg, Reg>>)
                  [] i \in \h18..\h20 \union \h22..\h27 -> NOINSTR
                  [] i = \h21 -> Reads(<<Reg, Reg>>)
  IN Escape(row)

X86_ESC_7 ==
  LET row(i) == CASE i = 0 -> Reads(<<M("w")>>)
                  [] i \in {1, 2, 3} -> Writes(<<M("w"), Reg>>)
                  [] i = 4 -> Reads(<<M("pb")>>)
                  [] i = 5 -> Reads(<<M("q")>>)
                  [] i = 6 -> Writes(<<M("pb"), Reg>>)
                  [] i = 7 -> Writes(<<M("q"), Reg>>)
                  [] i \in \h08..\h27 \union \h29..\h2F \union \h40..\h47 -> NOINSTR
                  [] i = \h28 -> Writes(<<Reg, Reg>>)
                  [] i \in \h30..\h3F -> Reads(<<Reg, Reg>>)
  IN Escape(row)

-----------------------------------------------------------------------------
(* One-byte opcodes. *)

Opcodes_1_low ==
  LET arith == << <<E("b"), G("b")>>, <<E("v"), G("v")>>, <<G("b"), E("b")>>,
                  <<G("v"), E("v")>>, <<Reg, I("b")>>, <<Reg, I("z")>> >>
  IN [op \in 0..\h7F |->
       CASE op < \h38 /\ op % 8 <= 5 -> Writes(arith[(op % 8) + 1])
         [] op \in \h38..\h3D -> Reads(arith[(op % 8) + 1])
         [] op \in {\h06, \h0E, \h16, \h1E} -> As("PUSH", Reads(<<Reg>>))
         [] op \in {\h07, \h17, \h1F} -> As("POP", Writes(<<Reg>>))
         [] op = \h0F -> NOARGS
         [] op \in {\h26, \h2E, \h36, \h3E} \union \h64..\h67 -> PREFIX
         [] op \in {\h27, \h2F, \h37, \h3F} \union \h40..\h4F -> Modifies(<<Reg>>)
         [] op \in \h50..\h57 -> As("PUSH", Reads(<<Reg>>))
         [] op \in \h58..\h5F -> As("POP", Writes(<<Reg>>))
         [] op \in {\h60, \h61} -> NOARGS
         [] op = \h62 -> Reads(<<G("v"), M("a")>>)
         [] op = \h63 -> EXT_64(<<Reads(<<E("w"), G("w")>>), As("64BIT", Writes(<<G("v"), E("d")>>))>>)
         [] op = \h68 -> As("PUSH", Reads(<<I("z")>>))
         [] op = \h69 -> Writes(<<G("v"), E("v"), I("z")>>)
         [] op = \h6A -> As("PUSH", Reads(<<I("b")>>))
         [] op = \h6B -> Writes(<<G("v"), E("v"), I("b")>>)
         [] op = \h6C -> As("IN", Writes(<<Y("b"), Reg>>))
         [] op = \h6D -> As("IN", Writes(<<Y("z"), Reg>>))
         [] op = \h6E -> As("OUT", Writes(<<Reg, X("b")>>))
         [] op = \h6F -> As("OUT", Writes(<<Reg, X("z")>>))
         [] op \in \h70..\h7F -> As("BRANCHCC", Reads(<<J("b")>>))]

Opcodes_1_80 ==
  [op \in \h80..\h9F |->
     CASE op = \h80 -> GROUP(X86_Group_1(E("b"), I("b")))
       [] op = \h81 -> GROUP(X86_Group_1(E("v"), I("z")))
       [] op \in {\h82, \h83} -> GROUP(X86_Group_1(E("v"), I("b")))
       [] op = \h84 -> Reads(<<E("b"), G("b")>>)
       [] op = \h85 -> Reads(<<E("v"), G("v")>>)
       [] op = \h86 -> Exchanges(<<E("b"), G("b")>>)
       [] op = \h87 -> Exchanges(<<E("v"), G("v")>>)
       [] op = \h88 -> As("MOV", Writes(<<E("b"), G("b")>>))
       [] op = \h89 -> As("MOV", Writes(<<E("v"), G("v")>>))
       [] op = \h8A -> As("MOV", Writes(<<G("b"), E("b")>>))
       [] op = \h8B -> As("MOV", Writes(<<G("v"), E("v")>>))
       [] op = \h8C -> As("MOV", Writes(<<E("mw"), S("w")>>))
       [] op = \h8D -> Writes(<<G("v"), M("lea")>>)
       [] op = \h8E -> As("MOV", Writes(<<S("w"), E("w")>>))
       [] op = \h8F -> GROUP(X86_Group_10)
       [] op \in {\h90, \h9B} -> NOARGS
       [] op \in \h91..\h97 -> Exchanges(<<Reg, Reg>>)
       [] op \in {\h98, \h99} -> Writes(<<Reg, Reg>>)
       [] op = \h9A -> As("CALL", Reads(<<A("p")>>))
       [] op = \h9C -> As("PUSHF", Reads(<<Reg>>))
       [] op = \h9D -> As("POPF", Writes(<<Reg>>))
       [] op \in {\h9E, \h9F} -> As("MOV", Writes(<<Reg, Reg>>))]

Opcodes_1_A0 ==
  [op \in \hA0..\hBF |->
     CASE op = \hA0 -> As("MOV", Writes(<<Reg, O("b")>>))
       [] op = \hA1 -> As("MOV", Writes(<<Reg, O("v")>>))
       [] op = \hA2 -> As("MOV", Writes(<<O("b"), Reg>>))
       [] op = \hA3 -> As("MOV", Writes(<<O("v"), Reg>>))
       [] op = \hA4 -> As("STRMOV", Writes(<<Y("b"), X("b")>>))
       [] op = \hA5 -> As("STRMOV", Writes(<<Y("z"), X("z")>>))
       [] op = \hA6 -> As("STRCMP", Reads(<<X("b"), Y("b")>>))
       [] op = \hA7 -> As("STRCMP", Reads(<<X("z"), Y("z")>>))
       [] op = \hA8 -> Reads(<<Reg, I("b")>>)
       [] op = \hA9 -> Reads(<<Reg, I("z")>>)
       [] op = \hAA -> As("STRSTOR", Writes(<<Y("b"), Reg>>))
       [] op = \hAB -> As("STRSTOR", Writes(<<Y("z"), Reg>>))
       [] op = \hAC -> As("STRLOAD", Writes(<<Reg, X("b")>>))
       [] op = \hAD -> As("STRLOAD", Writes(<<Reg, X("z")>>))
       [] op = \hAE -> As("STRCMP", Reads(<<Reg, Y("b")>>))
       [] op = \hAF -> As("STRCMP", Reads(<<Reg, Y("z")>>))
       [] op \in \hB0..\hB7 -> As("MOV", Writes(<<Reg, I("b")>>))
       [] op \in \hB8..\hBF -> As("MOV", Writes(<<Reg, I("v")>>))]

Opcodes_1_C0 ==
  [op \in \hC0..\hDF |->
     CASE op = \hC0 -> GROUP(X86_Group_2(E("b"), I("b")))
       [] op = \hC1 -> GROUP(X86_Group_2(E("v"), I("b")))
       [] op \in {\hC2, \hCA} -> As("RET", Reads(<<I("w")>>))
       [] op \in {\hC3, \hCB} -> As("RET", NOARGS)
       [] op \in {\hC4, \hC5} -> As("MOV", Writes(<<G("z"), M("p")>>))
       [] op = \hC6 -> GROUP(X86_Group_12(E("b"), I("b")))
       [] op = \hC7 -> GROUP(X86_Group_12(E("v"), I("z")))
       [] op = \hC8 -> As("ENTER", Modifies(<<Reg, I("w"), I("b")>>))
       [] op = \hC9 -> As("LEAVE", Modifies(<<Reg>>))
       [] op = \hCC -> As("DEBUG", NOARGS)
       [] op = \hCD -> As("TRAP", Reads(<<I("b")>>))
       [] op = \hCE -> As("OFLOW", NOARGS)
       [] op = \hCF -> As("TRAPRET", NOARGS)
       [] op \in {\hD0, \hD2} -> GROUP(X86_Group_2(E("b"), Reg))
       [] op \in {\hD1, \hD3} -> GROUP(X86_Group_2(E("v"), Reg))
       [] op \in {\hD4, \hD5} -> Writes(<<Reg, I("b")>>)
       [] op = \hD6 -> Writes(<<Reg, Reg, Reg>>)
       [] op = \hD7 -> Writes(<<Reg, xlat("b")>>)
       [] op \in \hD8..\hDF -> EXT_FPU(<<X86_ESC_0, X86_ESC_1, X86_ESC_2, X86_ESC_3, X86_ESC_4,
                                         X86_ESC_5, X86_ESC_6, X86_ESC_7>>[op - \hD7])]

Opcodes_1_E0 ==
  [op \in \hE0..\hFF |->
     CASE op = \hF4 -> NOARGS
       [] op = \hF1 -> As("DEBUG", NOARGS)
       [] op \in \hE0..\hE3 -> As("LOOPCC", Reads(<<J("b")>>))
       [] op \in {\hE4, \hE5} -> As("IN", Writes(<<Reg, I("b")>>))
       [] op \in {\hE6, \hE7} -> As("OUT", Writes(<<I("b"), Reg>>))
       [] op = \hE8 -> As("CALL", Reads(<<J("z")>>))
       [] op = \hE9 -> As("BRANCH", Reads(<<J("z")>>))
       [] op = \hEA -> As("BRANCH", Reads(<<A("p")>>))
       [] op = \hEB -> As("BRANCH", Reads(<<J("b")>>))
       [] op \in {\hEC, \hED} -> As("IN", Writes(<<Reg, Reg>>))
       [] op \in {\hEE, \hEF} -> As("OUT", Writes(<<Reg, Reg>>))
       [] op \in {\hF0, \hF2, \hF3} -> PREFIX
       [] op \in {\hF5} \union \hF8..\hFD -> Writes(<<Reg>>)
       [] op = \hF6 -> GROUP(X86_Group_3(E("b"), I("b")))
       [] op = \hF7 -> GROUP(X86_Group_3(E("v"), I("z")))
       [] op = \hFE -> GROUP(X86_Group_4)
       [] op = \hFF -> GROUP(X86_Group_5)]

X86_Opcodes_1 ==
  [op \in Byte |-> IF op < \h80 THEN Opcodes_1_low[op] ELSE IF op < \hA0 THEN Opcodes_1_80[op]
                  ELSE IF op < \hC0 THEN Opcodes_1_A0[op]
                  ELSE IF op < \hE0 THEN Opcodes_1_C0[op] ELSE Opcodes_1_E0[op]]

-----------------------------------------------------------------------------
(* Two-byte opcodes, after 0F. *)

X86_0F01_ModRM ==
  [modrm \in Byte |-> CASE modrm \in {\hC8, \hC9} -> NOARGS
                        [] modrm = \hF8 -> As("64BIT", Reads(<<Reg>>))
                        [] OTHER -> GROUP(X86_Group_7)]

X86_Opcode_0F05 == <<Reads(<<Reg, Reg, Reg>>), As("64BIT", Reads(<<Reg, Reg, Reg>>))>>

X86_3DNOW_0F ==
  [suffix \in Byte |->
     IF suffix \in {\h0C, \h0D, \h1C, \h1D, \h8A, \h8E, \h90, \h94, \h96, \h97, \h9A, \h9E,
                    \hA0, \hA4, \hA6, \hA7, \hAA, \hAE, \hB0, \hB4, \hB6, \hB7, \hBB, \hBF}
     THEN Writes(<<P("q"), Q("q")>>) ELSE NOINSTR]

Opcodes_2_low ==
  LET Sse(row) == As("SSE", row)
      Mmx(row) == As("MMX", row)
  IN [op \in 0..\h7F |->
     CASE op = \h00 -> GROUP(X86_Group_6)
       [] op = \h01 -> EXT_MODRM(X86_0F01_ModRM)
       [] op \in {\h02, \h03} -> Writes(<<G("v"), E("w")>>)
       [] op = \h05 -> EXT_64(X86_Opcode_0F05)
       [] op \in {\h06, \h0E} -> Writes(<<Reg>>)
       [] op = \h07 -> Reads(<<Reg>>)
       [] op \in {\h08, \h09, \h0B} -> NOARGS
       [] op = \h0D -> GROUP(X86_Group_P)
       [] op = \h0F -> EXT_SUFFIX(X86_3DNOW_0F, <<P("q"), Q("q")>>)
       [] op \in {\h10, \h28, \h51, \h52, \h53, \h5D, \h5F} \union \h54..\h59 \union {\h5C, \h5E}
                 -> Sse(Writes(<<V("ps"), W("ps")>>))
       [] op \in {\h11, \h29} -> Sse(Writes(<<W("ps"), V("ps")>>))
       [] op \in {\h12, \h14, \h15, \h16} -> Sse(Writes(<<V("ps"), W("q")>>))
       [] op \in {\h13, \h17} -> Sse(Writes(<<M("q"), V("ps")>>))
       [] op = \h18 -> GROUP(X86_Group_17)
       [] op = \h20 -> As("MOV", Writes(<<R("dq"), C("dq")>>))
       [] op = \h21 -> As("MOV", Writes(<<R("dq"), D("dq")>>))
       [] op = \h22 -> As("MOV", Writes(<<C("dq"), R("dq")>>))
       [] op = \h23 -> As("MOV", Writes(<<D("dq"), R("dq")>>))
       [] op = \h2A -> Sse(Writes(<<V("ps"), Q("q")>>))
       [] op = \h2B -> Sse(Writes(<<M("o"), V("ps")>>))
       [] op \in {\h2C, \h2D} -> Sse(Writes(<<P("q"), W("ps")>>))
       [] op = \h2E -> Sse(Reads(<<V("ss"), W("ss")>>))
       [] op = \h2F -> Sse(Reads(<<V("ps"), W("ps")>>))
       [] op \in \h30..\h33 -> Writes(<<Reg, Reg>>)
       [] op \in {\h34, \h35} -> Reads(<<Reg, Reg, Reg>>)
       [] op \in \h40..\h4F -> Writes(<<G("v"), E("v")>>)
       [] op = \h50 -> Sse(Writes(<<G("d"), VR("ps")>>))
       [] op = \h5A -> As("SSE2", Writes(<<V("pd"), W("ps")>>))
       [] op = \h5B -> As("SSE2", Writes(<<V("ps"), W("o")>>))
       [] op \in \h60..\h62 \union \h68..\h6A -> Mmx(Writes(<<P("q"), Q("d")>>))
       [] op \in \h63..\h67 \union {\h6B, \h6F} \union \h74..\h76 -> Mmx(Writes(<<P("q"), Q("q")>>))
       [] op = \h6E -> Mmx(Writes(<<P("q"), E("dq")>>))
       [] op = \h70 -> Mmx(Writes(<<P("q"), Q("q"), I("b")>>))
       [] op = \h71 -> GROUP(X86_Group_13)
       [] op = \h72 -> GROUP(X86_Group_14)
       [] op = \h73 -> GROUP(X86_Group_15)
       [] op = \h77 -> Mmx(Writes(<<Reg>>))
       [] op = \h7E -> Mmx(Writes(<<E("dq"), P("dq")>>))
       [] op = \h7F -> Mmx(Writes(<<Q("q"), P("q")>>))
       [] op \in {\h04, \h0A, \h0C} \union \h19..\h1F \union \h24..\h27 \union \h36..\h3F
                 \union {\h6C, \h6D} \union \h78..\h7D -> NOINSTR]

Opcodes_2_high ==
  LET Sse(row) == As("SSE", row)
      sse == {\hDA, \hDE, \hE0, \hE3, \hE4, \hEA, \hEE, \hF4, \hF6, \hFB, \hD4}
  IN [op \in \h80..\hFF |->
     CASE op \in \h80..\h8F -> As("BRANCHCC", Reads(<<J("z")>>))
       [] op \in \h90..\h9F -> Writes(<<E("b"), Reg, Reg>>)
       [] op \in {\hA0, \hA8} -> As("PUSH", Reads(<<Reg>>))
       [] op \in {\hA1, \hA9} -> As("POP", Writes(<<Reg>>))
       [] op = \hA2 -> Writes(<<Reg, Reg>>)
       [] op \in {\hA3, \hAB, \hB3, \hBB} -> Reads(<<E("v"), G("v")>>)
       [] op \in {\hA4, \hAC} -> Writes(<<E("v"), G("v"), I("b")>>)
       [] op \in {\hA5, \hAD} -> Writes(<<E("v"), G("v"), Reg>>)
       [] op = \hAA -> NOARGS
       [] op = \hAE -> GROUP(X86_Group_16)
       [] op = \hAF -> Writes(<<G("v"), E("v")>>)
       [] op = \hB0 -> Row("PLAIN", <<E("b"), Reg, G("b")>>, {1, 2}, {1, 2, 3})
       [] op = \hB1 -> Row("PLAIN", <<E("v"), Reg, G("v")>>, {1, 2}, {1, 2, 3})
       [] op \in {\hB2, \hB4, \hB5} -> As("MOV", Writes(<<G("z"), M("p")>>))
       [] op \in {\hB6, \hBE} -> As("MOV", Writes(<<G("v"), E("b")>>))
       [] op \in {\hB7, \hBF} -> As("MOV", Writes(<<G("v"), E("w")>>))
       [] op = \hB9 -> GROUP(X86_Group_11)
       [] op = \hBA -> GROUP(X86_Group_8)
       [] op \in {\hBC, \hBD} -> Reads(<<G("v"), E("v")>>)
       [] op = \hC0 -> Exchanges(<<E("b"), G("b")>>)
       [] op = \hC1 -> Exchanges(<<E("v"), G("v")>>)
       [] op \in {\hC2, \hC6} -> Sse(Writes(<<V("ps"), W("ps"), I("b")>>))
       [] op = \hC3 -> Sse(Writes(<<M("dq"), G("dq")>>))
       [] op = \hC4 -> Sse(Writes(<<P("q"), E("w"), I("b")>>))
       [] op = \hC5 -> Sse(Writes(<<G("d"), PR("q"), I("b")>>))
       [] op = \hC7 -> GROUP(X86_Group_9)
       [] op \in \hC8..\hCF -> Modifies(<<Reg>>)
       [] op = \hD7 -> Sse(Writes(<<G("d"), PR("q")>>))
       [] op = \hE7 -> Sse(Writes(<<M("q"), P("q")>>))
       [] op = \hF7 -> Sse(Writes(<<P("q"), PR("q")>>))
       [] op \in sse -> Sse(Writes(<<P("q"), Q("q")>>))
       [] op \in (\hD1..\hFE) \ (sse \union {\hD6, \hD7, \hE6, \hE7, \hF0, \hF7})
                 -> As("MMX", Writes(<<P("q"), Q("q")>>))
       [] op \in {\hA6, \hA7, \hB8, \hD0, \hD6, \hE6, \hF0, \hFF} -> NOINSTR]

X86_Opcodes_2 == [op \in Byte |-> IF op < \h80 THEN Opcodes_2_low[op] ELSE Opcodes_2_high[op]]

-----------------------------------------------------------------------------
(* Two-byte opcodes after a prefix that is part of the opcode: 66, F2 or F3. *)

Shift_Group(extensions) ==
  GROUP([ext \in 0..7 |-> IF ext \in extensions THEN As("SSE2", Writes(<<VR("o"), I("b")>>))
                          ELSE NOINSTR])
X86_SSE2_Group_13 == Shift_Group({2, 4, 6})
X86_SSE2_Group_14 == Shift_Group({2, 4, 6})
X86_SSE2_Group_15 == Shift_Group({2, 3, 6, 7})

SSE_66_low ==
  LET Sse2(ops) == As("SSE2", Writes(ops))
  IN [op \in 0..\h7F |->
     CASE op \in {\h10, \h51, \h54, \h55, \h56, \h57, \h58, \h59} \union \h5C..\h5F
                 -> Sse2(<<V("pd"), W("pd")>>)
       [] op = \h11 -> Sse2(<<W("pd"), V("pd")>>)
       [] op \in {\h12, \h16} -> Sse2(<<V("sd"), M("q")>>)
       [] op \in {\h13, \h17} -> Sse2(<<M("q"), V("sd")>>)
       [] op \in {\h14, \h15} -> Sse2(<<V("pd"), W("q")>>)
       [] op \in {\h28, \h6B, \h6F, \h7F} \union \h63..\h67 \union \h74..\h76
                 -> Sse2(<<V("o"), W("o")>>)
       [] op = \h29 -> Sse2(<<W("o"), V("o")>>)
       [] op = \h2A -> Sse2(<<V("o"), Q("q")>>)
       [] op = \h2B -> Sse2(<<M("o"), V("pd")>>)
       [] op \in {\h2C, \h2D} -> Sse2(<<P("q"), W("pd")>>)
       [] op = \h2E -> As("SSE2", Reads(<<V("sd"), W("sd")>>))
       [] op = \h2F -> As("SSE2", Reads(<<V("pd"), W("sd")>>))
       [] op = \h50 -> Sse2(<<G("d"), VR("pd")>>)
       [] op = \h5A -> Sse2(<<V("ps"), W("pd")>>)
       [] op = \h5B -> Sse2(<<V("o"), W("ps")>>)
       [] op \in \h60..\h62 \union \h68..\h6A \union {\h6C, \h6D} -> Sse2(<<V("o"), W("q")>>)
       [] op = \h6E -> Sse2(<<V("o"), E("dq")>>)
       [] op = \h70 -> Sse2(<<V("o"), W("o"), I("b")>>)
       [] op = \h71 -> X86_SSE2_Group_13
       [] op = \h72 -> X86_SSE2_Group_14
       [] op = \h73 -> X86_SSE2_Group_15
       [] op \in {\h7C, \h7D} -> As("SSE3", Writes(<<V("o"), W("o")>>))
       [] op = \h7E -> Sse2(<<E("dq"), V("dq")>>)
       [] op \in 0..\h0F \union \h18..\h27 \union \h30..\h4F \union {\h52, \h53} \union \h77..\h7B
                 -> NOINSTR]

SSE_66_high ==
  LET Sse2(ops) == As("SSE2", Writes(ops))
  IN [op \in \h80..\hFF |->
     CASE op \in {\hC2, \hC6} -> Sse2(<<V("o"), W("o"), I("b")>>)
       [] op = \hC4 -> Sse2(<<V("o"), E("w"), I("b")>>)
       [] op = \hC5 -> Sse2(<<G("d"), VR("o"), I("b")>>)
       [] op = \hD0 -> As("SSE3", Writes(<<V("o"), W("o")>>))
       [] op = \hD6 -> Sse2(<<W("q"), V("q")>>)
       [] op = \hD7 -> Sse2(<<G("d"), VR("o")>>)
       [] op = \hE6 -> Sse2(<<V("q"), W("pd")>>)
       [] op = \hE7 -> Sse2(<<M("o"), V("o")>>)
       [] op = \hF7 -> Sse2(<<V("o"), VR("o")>>)
       [] op \in (\hD1..\hFE) \ {\hD6, \hD7, \hE6, \hE7, \hF0, \hF7} -> Sse2(<<V("o"), W("o")>>)
       [] op \in \h80..\hC1 \union {\hC3, \hF0, \hFF} \union \hC7..\hCF -> NOINSTR]

SSE_F2_low ==
  LET Sse2(ops) == As("SSE2", Writes(ops))
  IN [op \in 0..\h7F |->
     CASE op = \h10 -> Sse2(<<V("sdo"), W("sd")>>)
       [] op \in {\h51, \h58, \h59} \union \h5C..\h5F -> Sse2(<<V("sd"), W("sd")>>)
       [] op = \h11 -> Sse2(<<W("sd"), V("sd")>>)
       [] op = \h12 -> As("SSE3", Writes(<<V("o"), W("q")>>))
       [] op = \h2A -> Sse2(<<V("sd"), E("dq")>>)
       [] op \in {\h2C, \h2D} -> Sse2(<<G("dq"), W("sd")>>)
       [] op = \h5A -> Sse2(<<V("ss"), W("sd")>>)
       [] op = \h6F -> Sse2(<<V("o"), W("o")>>)
       [] op = \h70 -> Sse2(<<V("q"), W("q"), I("b")>>)
       [] op \in {\h7C, \h7D} -> As("SSE3", Writes(<<V("o"), W("o")>>))
       [] OTHER -> NOINSTR]

SSE_F2_high ==
  LET Sse2(ops) == As("SSE2", Writes(ops))
  IN [op \in \h80..\hFF |->
     CASE op = \hC2 -> Sse2(<<V("sd"), W("sd"), I("b")>>)
       [] op = \hD0 -> As("SSE3", Writes(<<V("o"), W("o")>>))
       [] op = \hD6 -> Sse2(<<P("q"), VR("q")>>)
       [] op = \hE6 -> Sse2(<<V("q"), W("pd")>>)
       [] op = \hF0 -> As("SSE3", Writes(<<V("o"), M("o")>>))
       [] OTHER -> NOINSTR]

SSE_F3_low ==
  LET Sse2(ops) == As("SSE2", Writes(ops))
  IN [op \in 0..\h7F |->
     CASE op = \h10 -> Sse2(<<V("sso"), W("ss")>>)
       [] op \in {\h51, \h52, \h53, \h58, \h59} \union \h5C..\h5F -> Sse2(<<V("ss"), W("ss")>>)
       [] op = \h11 -> Sse2(<<W("ss"), V("ss")>>)
       [] op \in {\h12, \h16} -> As("SSE3", Writes(<<V("o"), W("o")>>))
       [] op = \h2A -> As("SSE", Writes(<<V("ss"), E("dq")>>))
       [] op \in {\h2C, \h2D} -> As("SSE", Writes(<<G("dq"), W("ss")>>))
       [] op = \h5A -> Sse2(<<V("sd"), W("ss")>>)
       [] op = \h5B -> Sse2(<<V("o"), W("ps")>>)
       [] op = \h6F -> Sse2(<<V("o"), W("o")>>)
       [] op = \h70 -> Sse2(<<V("q"), W("q"), I("b")>>)
       [] op = \h7E -> Sse2(<<V("q"), W("q")>>)
       [] op = \h7F -> Sse2(<<W("o"), V("o")>>)
       [] OTHER -> NOINSTR]

SSE_F3_high ==
  [op \in \h80..\hFF |->
     CASE op = \hC2 -> As("SSE", Writes(<<V("ss"), W("ss"), I("b")>>))
       [] op = \hD6 -> As("SSE2", Writes(<<V("o"), PR("q")>>))
       [] op = \hE6 -> As("SSE2", Writes(<<V("o"), W("q")>>))
       [] OTHER -> NOINSTR]

SSE_66 == [op \in Byte |-> IF op < \h80 THEN SSE_66_low[op] ELSE SSE_66_high[op]]
X86_SSE(prefix) ==
  CASE prefix = \h66 -> SSE_66
    [] prefix = \hF2 -> [op \in Byte |-> IF op < \h80 THEN SSE_F2_low[op] ELSE SSE_F2_high[op]]
    [] prefix = \hF3 -> [op \in Byte |-> IF op < \h80 THEN SSE_F3_low[op] ELSE SSE_F3_high[op]]

-----------------------------------------------------------------------------
(* Opcodes with a ModRM byte, opcodes that may be locked, and opcodes that *)
(* are invalid with a 16-bit operand size.                                 *)

X86_ModRM_1 ==
  {op \in \h00..\h3F : op % 8 < 4} \union {\h62, \h63, \h69, \h6B} \union \h80..\h8F
    \union {\hC0, \hC1} \union \hC4..\hC7 \union \hD0..\hD3 \union \hD8..\hDF
    \union {\hF6, \hF7, \hFE, \hFF}

X86_ModRM_2 ==
  \h00..\h03 \union {\h0D, \h0F} \union \h10..\h18 \union (\h20..\h2F \ {\h25, \h27})
    \union \h40..\h76 \union \h7C..\h7F \union \h90..\h9F \union (\hA3..\hAF \ {\hA6, \hA8, \hA9, \hAA})
    \union (\hB0..\hBF \ {\hB8, \hB9}) \union \hC0..\hC7 \union \hD0..\hFE

X86_LockPrefix_1 ==
  [always |-> {op \in \h00..\h33 : op % 8 < 4} \union {\h86, \h87},
   group |-> \h80..\h83 \union {\hF6, \hF7, \hFE, \hFF}]

X86_LockPrefix_2 ==
  [always |-> {\hAB, \hB0, \hB1, \hB3, \hBB, \hC0, \hC1}, group |-> {\hBA, \hC7}]

X86_LockPrefix_Groups ==
  [group \in {1, 3, 4, 5, 8, 9} |->
     CASE group = 1 -> 0..6
       [] group = 3 -> {2, 3}
       [] group \in {4, 5} -> {0, 1}
       [] group = 8 -> 4..7
       [] group = 9 -> {1}]

X86_Groups_1 ==
  [op \in \h80..\h83 \union {\hC0, \hC1} \union \hD0..\hD3
            \union {\hF6, \hF7, \hFE, \hFF, \h8F, \hC6, \hC7} |->
     CASE op \in \h80..\h83 -> 1
       [] op \in {\hC0, \hC1} \union \hD0..\hD3 -> 2
       [] op \in {\hF6, \hF7} -> 3
       [] op = \hFE -> 4
       [] op = \hFF -> 5
       [] op = \h8F -> 10
       [] op \in {\hC6, \hC7} -> 12]

X86_Groups_2 ==
  [op \in {\h00, \h01, \h0D, \h0F, \h18, \h71, \h72, \h73, \hAE, \hB9, \hBA, \hC7} |->
     CASE op = \h00 -> 6 [] op = \h01 -> 7 [] op = \h0D -> 18 [] op = \h0F -> 19
       [] op = \h18 -> 17 [] op = \h71 -> 13 [] op = \h72 -> 14 [] op = \h73 -> 15
       [] op = \hAE -> 16 [] op = \hB9 -> 11 [] op = \hBA -> 8 [] op = \hC7 -> 9]

X86_Invalid_Op16_2 == \hC8..\hCF

=============================================================================
