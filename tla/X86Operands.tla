---------------------------- MODULE X86Operands ----------------------------
(***************************************************************************)
(* The operands of an instruction: SetOperands of disasm_x86.c with        *)
(* SetModRM16, SetModRM32 and SetSIB, which it calls.                      *)
(*                                                                         *)
(* The decoder writes into one INSTRUCTION record, with the X86_INSTRUCTION *)
(* in it.  Every operator here takes that record as it stands, with the    *)
(* machine code, and gives the record the code leaves behind.  Two fields  *)
(* are not in the source: aborted says that the decoder has gone to abort  *)
(* or returned NULL, failed is the line of the assertion that did not hold *)
(* (the disassembler is always built with its assertions, disasm_x86.c:2), *)
(* 0 while all did.                                                        *)
(***************************************************************************)
EXTENDS X86Tables, X86Encoding

-----------------------------------------------------------------------------
(* INSTRUCTION and X86_INSTRUCTION. *)

NoModRM == -1
NoOperand == [length |-> 0, dst |-> FALSE, src |-> FALSE, global |-> FALSE, target |-> FALSE]

X86_InitInstruction(address) ==
  [address     |-> address,  (* where the instruction begins                *)
   next        |-> address,  (* Address, the byte that is read next         *)
   length      |-> 0,
   prefixes    |-> <<>>,
   anomaly     |-> FALSE,    (* AnomalyOccurred                             *)
   repeat      |-> "none",   (* Repeat and HasRepeatWhile(Not)EqualPrefix   *)
   opSize      |-> FALSE,    (* HasOperandSizePrefix                        *)
   adSize      |-> FALSE,    (* HasAddressSizePrefix                        *)
   override    |-> FALSE,    (* HasSegmentOverridePrefix                    *)
   lock        |-> FALSE,    (* HasLockPrefix                               *)
   ssePrefix   |-> 0,        (* SSE_Prefix                                  *)
   OperandSize |-> 4,
   AddressSize |-> 4,
   segment     |-> "DS",
   opcode      |-> 0,        (* LastOpcode                                  *)
   OpcodeLength |-> 0,
   row         |-> NOINSTR,  (* Opcode, the row of the tables               *)
   group       |-> 0,
   extension   |-> 0,        (* OpcodeExtension                             *)
   modrm       |-> NoModRM,  (* modrm_b                                     *)
   operands    |-> [k \in 1..3 |-> NoOperand],
   dstAddressing |-> FALSE,
   srcAddressing |-> FALSE,
   selector    |-> FALSE,    (* HasSelector                                 *)
   fullDisplacement |-> FALSE,
   base        |-> FALSE,    (* HasBaseRegister                             *)
   index       |-> FALSE,    (* HasIndexRegister                            *)
   scale       |-> 0,
   aborted     |-> FALSE,
   failed      |-> 0]

mod(i) == i.modrm \div 64
reg(i) == (i.modrm \div 8) % 8
rm(i)  == i.modrm % 8

INSTR_INC(i, size) == [i EXCEPT !.length = @ + size, !.next = @ + size]
Abort(i) == [i EXCEPT !.aborted = TRUE]
AbortIf(i, condition) == [i EXCEPT !.aborted = @ \/ condition]
AnomalyIf(i, condition) == [i EXCEPT !.anomaly = @ \/ condition]
Fail(i, line) == IF i.failed # 0 THEN i ELSE [i EXCEPT !.failed = line]
Assert_(i, line, condition) == IF condition THEN i ELSE Fail(i, line)
Running(i) == ~i.aborted /\ i.failed = 0

-----------------------------------------------------------------------------
(* The macros. *)

OtherSize(size) == IF size = 4 THEN 2 ELSE 4

SANITY_CHECK_OPERAND_SIZE(i) ==
  IF i.opSize /\ ~i.anomaly
  THEN [i EXCEPT !.anomaly = TRUE, !.opSize = FALSE, !.OperandSize = OtherSize(@)]
  ELSE i

SANITY_CHECK_ADDRESS_SIZE(i) ==
  [AnomalyIf(i, i.adSize) EXCEPT !.adSize = FALSE, !.AddressSize = 4]

SANITY_CHECK_SEGMENT_OVERRIDE(i) == AnomalyIf(i, i.override)

(* The address an operand names is kept as whether it is other than 0.     *)
X86_SET_TARGET(i, k, nonzero) ==
  IF i.selector THEN AnomalyIf(i, TRUE) ELSE [i EXCEPT !.operands[k].target = nonzero]

EBP == 5
ESP == 4
X86_SET_SEG(i, register) ==
  IF ~i.override /\ register \in {EBP, ESP}
  THEN [Assert_(i, 165, ~i.selector) EXCEPT !.segment = "SS"]
  ELSE i

X86_SET_ADDR(i, k) ==
  LET o == i.operands[k]
      j == Assert_(i, 174, o.dst => ~i.dstAddressing)
      l == Assert_(j, 182, o.src /\ i.row.type # "STRCMP" => ~i.srcAddressing)
  IN [l EXCEPT !.dstAddressing = @ \/ o.dst, !.srcAddressing = @ \/ o.src]

X86_SET_REG(i, k) == Assert_(i, 196, i.operands[k].dst => k <= 2)

-----------------------------------------------------------------------------
(* Displacements. *)

(* IS_VALID_ADDRESS of the 32-bit value at k, compared by its upper half.  *)
IS_VALID_ADDRESS(code, k) ==
  LET high == At(code, k + 3) * 256 + At(code, k + 2) IN high >= 1 /\ high <= \h7FFE

NonZero(code, k, size) == \E n \in 0..(size - 1) : At(code, k + n) # 0

(* An absolute 32-bit offset, with neither base nor index in the ModRM byte. *)
Displacement_Only(i, k, code) ==
  LET valid == IS_VALID_ADDRESS(code, i.next)
      j == IF valid
           THEN [X86_SET_TARGET(i, k, TRUE) EXCEPT !.operands[k].global = TRUE,
                                                   !.fullDisplacement = TRUE]
           ELSE i
  IN INSTR_INC(j, 4)

(* The displacement of mod 1 and mod 2 in addition to registers. *)
Displacement_Added(i, k, code) ==
  CASE mod(i) = 1 -> INSTR_INC(i, 1)
    [] mod(i) = 2 ->
         LET j == IF IS_VALID_ADDRESS(code, i.next)
                  THEN [i EXCEPT !.operands[k].global = TRUE, !.fullDisplacement = TRUE]
                  ELSE i
         IN INSTR_INC(j, 4)
    [] OTHER -> i

-----------------------------------------------------------------------------
(* Addressing with a ModRM byte. *)

(* 16-bit addresses: a sign-extended 16-bit displacement is never a valid  *)
(* address, so none becomes a target.                                      *)
SetModRM16(i, k) ==
  IF mod(i) = 3 THEN Assert_(i, 4131, i.operands[k].length \in {1, 2, 4})
  ELSE IF mod(i) = 0 /\ rm(i) = 6 THEN INSTR_INC(X86_SET_ADDR(i, k), 2)
  ELSE LET j == INSTR_INC(i, mod(i))
           l == IF rm(i) \in {2, 3} THEN X86_SET_SEG(j, EBP) ELSE j
       IN X86_SET_ADDR([l EXCEPT !.base = TRUE, !.index = @ \/ rm(i) < 4], k)

SetSIB(i, k, code) ==
  LET sib == At(code, i.next)
      baseField == sib % 8
      indexField == (sib \div 8) % 8
      j == INSTR_INC(X86_SET_ADDR(i, k), 1)
      based == [X86_SET_SEG(j, baseField) EXCEPT !.base = TRUE]
      withBase == IF baseField # 5 THEN based
                  ELSE IF mod(i) = 0 THEN Displacement_Only(j, k, code)
                  ELSE Displacement_Added(based, k, code)
      withIndex == IF indexField = 4 THEN withBase
                   ELSE [withBase EXCEPT !.operands[k].target = FALSE, !.index = TRUE,
                                         !.scale = <<1, 2, 4, 8>>[sib \div 64 + 1]]
  IN IF baseField = 5 THEN withIndex ELSE Displacement_Added(withIndex, k, code)

SetModRM32(i, k, code) ==
  CASE i.AddressSize = 2 -> SetModRM16(i, k)
    [] i.AddressSize = 4 /\ mod(i) = 3 ->
         X86_SET_REG(Assert_(i, 4264, i.operands[k].length \in {1, 2, 4, 8}), k)
    [] i.AddressSize = 4 /\ mod(i) = 0 /\ rm(i) = 5 ->
         X86_SET_ADDR(Displacement_Only(i, k, code), k)
    [] i.AddressSize = 4 /\ mod(i) # 3 /\ rm(i) = 4 -> SetSIB(i, k, code)
    [] OTHER ->
         LET j == X86_SET_ADDR([X86_SET_SEG(i, rm(i)) EXCEPT !.base = TRUE], k)
         IN Displacement_Added(j, k, code)

-----------------------------------------------------------------------------
(* Operand sizes: OPTYPE_x. *)

FixedSize ==
  [b |-> 1, w |-> 2, d |-> 4, q |-> 8, o |-> 16, dt |-> 6, dq |-> 4, fst2 |-> 512,
   ps |-> 4, pd |-> 8, pb |-> 10, ss |-> 4, sd |-> 8, se |-> 10]

(* The sizes with a 32-bit and with a 16-bit operand size. *)
SizeByOperandSize ==
  [z |-> <<4, 2>>, v |-> <<4, 2>>, a |-> <<8, 4>>, p |-> <<6, 4>>, fev |-> <<28, 14>>,
   fst1 |-> <<108, 94>>]

(* The sizes of a register and of memory. *)
SizeByMod(i) == [mw |-> <<i.OperandSize, 2>>, sso |-> <<16, 4>>, sdo |-> <<16, 8>>]

OperandSizes ==
  DOMAIN FixedSize \union DOMAIN SizeByOperandSize \union {"mw", "sso", "sdo", "lea"}

OperandLength(i, size) ==
  CASE size \in DOMAIN FixedSize -> FixedSize[size]
    [] size \in DOMAIN SizeByOperandSize ->
         SizeByOperandSize[size][IF i.OperandSize = 2 THEN 2 ELSE 1]
    [] size \in {"mw", "sso", "sdo"} -> SizeByMod(i)[size][IF mod(i) = 3 THEN 1 ELSE 2]
    [] size = "lea" -> i.operands[1].length
    [] OTHER -> 0

-----------------------------------------------------------------------------
(* Operands without a ModRM byte. *)

Operand_I(i, k) ==
  LET o == i.operands[k]
      j == Assert_(INSTR_INC(i, o.length), 3522, i.OperandSize >= o.length)
  IN IF i.row.type = "PUSH" THEN [j EXCEPT !.operands[k].length = i.OperandSize] ELSE j

Operand_J(i, k, code) ==
  LET size == i.operands[k].length
      zero == ~NonZero(code, i.next, size)
      conditional == i.row.type \in {"BRANCHCC", "LOOPCC"}
      j == AnomalyIf(SANITY_CHECK_ADDRESS_SIZE(i), conditional /\ zero)
      l == X86_SET_ADDR([INSTR_INC(j, size) EXCEPT !.operands[k].target = TRUE], k)
  IN [SANITY_CHECK_SEGMENT_OVERRIDE(l) EXCEPT !.override = FALSE, !.segment = "CS",
                                              !.base = TRUE]

(* Mutant: an address as long as the operand.                              *)
Operand_O_ByOperandSize(i, k, code) ==
  X86_SET_ADDR(INSTR_INC(SANITY_CHECK_OPERAND_SIZE(i), i.OperandSize), k)
Operand_O(i, k, code) ==
  LET j == SANITY_CHECK_OPERAND_SIZE(i)
      l == [INSTR_INC(j, j.AddressSize) EXCEPT !.fullDisplacement = TRUE]
      t == X86_SET_TARGET(X86_SET_ADDR(l, k), k, NonZero(code, j.next, j.AddressSize))
  IN Assert_(t, 3615, t.segment = "DS" \/ t.override)

Operand_A(i, k) ==
  LET j == SANITY_CHECK_SEGMENT_OVERRIDE(SANITY_CHECK_ADDRESS_SIZE(i))
      l == [INSTR_INC(j, j.operands[k].length) EXCEPT !.selector = TRUE, !.override = FALSE,
              !.segment = "selector", !.fullDisplacement = TRUE]
  IN X86_SET_TARGET(X86_SET_ADDR(l, k), k, TRUE)

Operand_X(i, k) ==
  LET j == X86_SET_ADDR([i EXCEPT !.base = TRUE], k)
  IN IF j.override THEN j ELSE [j EXCEPT !.segment = "DS"]

Operand_Y(i, k) ==
  LET j == X86_SET_ADDR([i EXCEPT !.base = TRUE], k)
  IN IF j.override THEN AnomalyIf(j, TRUE) ELSE [j EXCEPT !.segment = "ES"]

Operand_xlat(i, k) ==
  [X86_SET_ADDR(i, k) EXCEPT !.scale = 1, !.base = TRUE, !.index = TRUE]

-----------------------------------------------------------------------------
(* Operands in a ModRM byte. *)

(* A register in rm, mod must be 3: MMX (PR), XMM (VR), general (R). *)
Operand_RegisterInRM(i, k) ==
  LET mmx == i.row.ops[k].mode \in {"PR", "VR"}
  IN X86_SET_REG(AbortIf(i, mod(i) # 3 \/ (mmx /\ i.OperandSize = 2)), k)

(* A register in reg: MMX (P), XMM (V), general (G), segment, control,     *)
(* debug.                                                                  *)
Operand_RegisterInReg(i, k) ==
  CASE i.row.ops[k].mode \in {"P", "V"} -> X86_SET_REG(AbortIf(i, i.OperandSize = 2), k)
    [] i.row.ops[k].mode = "G" ->
         X86_SET_REG(Assert_(i, 3867, i.operands[k].length \in {1, 2, 4, 8}), k)
    [] i.row.ops[k].mode \in {"S", "C", "D"} -> X86_SET_REG(i, k)

Operand_M(i, k, code) ==
  IF mod(i) = 3 THEN Abort(i)
  ELSE SetModRM32(Assert_(i, 4001, i.segment = "DS" \/ i.override), k, code)

Operand_E(i, k, code) ==
  IF i.row.ops[k].size = "p" /\ mod(i) = 3 THEN Abort(i)
  ELSE LET j == SetModRM32(i, k, code)
       IN IF i.row.type \in {"PUSH", "POP"}
          THEN [j EXCEPT !.operands[k].length = i.OperandSize] ELSE j

Operand_QW(i, k, code) ==
  IF mod(i) = 3 THEN X86_SET_REG(i, k) ELSE SetModRM32(i, k, code)

-----------------------------------------------------------------------------
(* SetOperands: the size of the operand first, then its place. *)

Sized(i, k) ==
  LET size == i.row.ops[k].size
      j == Assert_(i, 3421, size \in OperandSizes)
  IN [AnomalyIf(j, size = "p" /\ i.override) EXCEPT !.operands[k].length = OperandLength(i, size)]

Placed(i, k, code) ==
  LET mode == i.row.ops[k].mode
  IN CASE mode = "I" -> Operand_I(i, k)
       [] mode = "J" -> Operand_J(i, k, code)
       [] mode = "O" -> Operand_O(i, k, code)
       [] mode = "A" -> Operand_A(i, k)
       [] mode = "X" -> Operand_X(i, k)
       [] mode = "Y" -> Operand_Y(i, k)
       [] mode = "xlat" -> Operand_xlat(i, k)
       [] mode \in {"PR", "VR", "R"} -> Operand_RegisterInRM(i, k)
       [] mode \in {"P", "V", "G", "S", "C", "D"} -> Operand_RegisterInReg(i, k)
       [] mode = "M" -> Operand_M(i, k, code)
       [] mode = "E" -> Operand_E(i, k, code)
       [] mode \in {"Q", "W"} -> Operand_QW(i, k, code)
       [] OTHER -> Fail(i, 4063)

SetOperand(i, k, code) ==
  IF i.row.ops[k].mode = "fixed" THEN i ELSE Placed(Sized(i, k), k, code)

SetOperands(i, code) ==
  LET start == IF i.modrm = NoModRM THEN i ELSE INSTR_INC(i, 1)
      Nth(j, k) == IF Running(j) /\ k <= Len(i.row.ops) THEN SetOperand(j, k, code) ELSE j
  IN Nth(Nth(Nth(start, 1), 2), 3)

=============================================================================
