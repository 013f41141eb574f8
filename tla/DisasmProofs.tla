---------------------------- MODULE DisasmProofs ----------------------------
(***************************************************************************)
(* Proofs about Disasm for any machine codes, any byte behind them and any *)
(* length of the jump up to MHOOK_JMPSIZE: the fields of the instruction   *)
(* through the operands, the rows of the tables that matter for prefixes   *)
(* and branches, the reference's opcode against the decoder's, and the     *)
(* inductive invariant DecodeInv, one lemma for each action.               *)
(***************************************************************************)
EXTENDS Disasm, TLAPS

-----------------------------------------------------------------------------
(* The record of an instruction.  The fields that hold truth values or     *)
(* names are only there; the numbers keep their ranges.  Nothing counts    *)
(* backwards once there is a ModRM byte.                                   *)

Fields ==
  {"address", "next", "length", "prefixes", "anomaly", "repeat", "opSize", "adSize", "override",
   "lock", "ssePrefix", "OperandSize", "AddressSize", "segment", "opcode", "OpcodeLength", "row",
   "group", "extension", "modrm", "operands", "dstAddressing", "srcAddressing", "selector",
   "fullDisplacement", "base", "index", "scale", "aborted", "failed"}

OperandFields == {"length", "dst", "src", "global", "target"}

Typed(i) ==
  /\ DOMAIN i = Fields
  /\ i.length \in Int /\ i.next \in Int /\ (i.modrm # NoModRM => i.next \in Nat)
  /\ i.prefixes \in Seq(PrefixBytes) /\ Len(i.prefixes) <= X86_MAX_INSTRUCTION_LEN
  /\ i.modrm \in Byte \union {NoModRM}
  /\ i.OperandSize \in {2, 4} /\ i.AddressSize \in {2, 4}
  /\ i.repeat \in {"none", "rep", "repne"}
  /\ i.OpcodeLength \in 0..3 /\ i.extension \in 0..63
  /\ i.scale \in Nat
  /\ DOMAIN i.operands = 1..3
  /\ \A k \in 1..3 : DOMAIN i.operands[k] = OperandFields /\ i.operands[k].length \in Nat

(* Operand k is written and may be in memory.                              *)
Written(i, k) == i.operands[k].dst /\ i.row.ops[k].mode # "G"

(* j is an instruction found from i, which is still known by the same      *)
(* opcode and prefixes, and has no address that the instruction writes to  *)
(* but that of an operand which is written.                                *)
Follows(i, j) ==
  /\ Typed(j)
  /\ \A k \in 1..3 : j.operands[k].dst = i.operands[k].dst
  /\ j.dstAddressing => i.dstAddressing \/ \E k \in 1..3 : Written(i, k)
  /\ j.address = i.address /\ j.row = i.row /\ j.group = i.group
  /\ j.opcode = i.opcode /\ j.OpcodeLength = i.OpcodeLength /\ j.extension = i.extension
  /\ j.modrm = i.modrm /\ j.prefixes = i.prefixes /\ j.lock = i.lock

LEMMA Same == ASSUME NEW i, Typed(i) PROVE Follows(i, i)
BY DEF Follows

LEMMA Further ==
  ASSUME NEW i, NEW j, NEW l, Follows(i, j), Follows(j, l)
  PROVE  Follows(i, l)
<1>1. \A k \in 1..3 : Written(j, k) => Written(i, k)
  BY DEF Follows, Written
<1> QED BY <1>1 DEF Follows

LEMMA Known == ASSUME NEW i, NEW j, Follows(i, j) PROVE Typed(j) /\ j.row = i.row
BY DEF Follows

LEMMA Inc ==
  ASSUME NEW i, Typed(i), NEW n \in Int, i.modrm # NoModRM => n \in Nat
  PROVE  Follows(i, INSTR_INC(i, n))
BY DEF Typed, Follows, INSTR_INC, Fields

LEMMA Anomaly ==
  ASSUME NEW i, Typed(i), NEW c
  PROVE  Follows(i, AnomalyIf(i, c))
BY DEF Typed, Follows, AnomalyIf, Fields

LEMMA Aborting ==
  ASSUME NEW i, Typed(i), NEW c
  PROVE  Follows(i, AbortIf(i, c))
BY DEF Typed, Follows, AbortIf, Fields

LEMMA Aborted ==
  ASSUME NEW i, Typed(i)
  PROVE  Follows(i, Abort(i))
BY DEF Typed, Follows, Abort, Fields

LEMMA Failing ==
  ASSUME NEW i, Typed(i), NEW line
  PROVE  Follows(i, Fail(i, line))
BY DEF Typed, Follows, Fail, Fields

LEMMA Asserting ==
  ASSUME NEW i, Typed(i), NEW c, NEW line
  PROVE  Follows(i, Assert_(i, line, c))
BY Failing, Same DEF Assert_

LEMMA Addr ==
  ASSUME NEW i, Typed(i), NEW k \in 1..3, i.row.ops[k].mode # "G"
  PROVE  Follows(i, X86_SET_ADDR(i, k))
<1> DEFINE o == i.operands[k]
           j == Assert_(i, 174, o.dst => ~i.dstAddressing)
           l == Assert_(j, 182, o.src /\ i.row.type # "STRCMP" => ~i.srcAddressing)
           m == [l EXCEPT !.dstAddressing = @ \/ o.dst, !.srcAddressing = @ \/ o.src]
<1>1. Follows(i, j)
  BY Asserting
<1>2. Follows(j, l)
  BY Asserting, Known, <1>1
<1>3. Typed(l)
  BY Known, <1>2
<1>4. Follows(l, m)
  <2>1. o.dst => Written(l, k)
    BY <1>1, <1>2 DEF Follows, Written
  <2> HIDE DEF l, o
  <2> QED BY <1>3, <2>1 DEF Typed, Follows, Fields
<1>5. m = X86_SET_ADDR(i, k)
  BY DEF X86_SET_ADDR
<1> HIDE DEF j, l, m
<1> QED BY <1>1, <1>2, <1>4, <1>5, Further

LEMMA Target ==
  ASSUME NEW i, Typed(i), NEW k \in 1..3, NEW b
  PROVE  Follows(i, X86_SET_TARGET(i, k, b))
<1>1. Follows(i, [i EXCEPT !.operands[k].target = b])
  BY DEF Typed, Follows, Fields, OperandFields
<1> QED BY <1>1, Anomaly DEF X86_SET_TARGET

LEMMA Seg ==
  ASSUME NEW i, Typed(i), NEW r
  PROVE  Follows(i, X86_SET_SEG(i, r))
<1> DEFINE j == Assert_(i, 165, ~i.selector)
<1>1. Follows(i, j)
  BY Asserting
<1>2. Typed(j)
  BY Known, <1>1
<1>3. Follows(j, [j EXCEPT !.segment = "SS"])
  <2> HIDE DEF j
  <2> QED BY <1>2 DEF Typed, Follows, Fields
<1>4. Follows(i, [j EXCEPT !.segment = "SS"])
  BY <1>1, <1>3, Further
<1>5. X86_SET_SEG(i, r) \in {i, [j EXCEPT !.segment = "SS"]}
  BY DEF X86_SET_SEG
<1> HIDE DEF j
<1> QED BY <1>4, <1>5, Same

LEMMA Register ==
  ASSUME NEW i, Typed(i), NEW k
  PROVE  Follows(i, X86_SET_REG(i, k))
BY Asserting DEF X86_SET_REG

LEMMA OperandSizeChecked ==
  ASSUME NEW i, Typed(i)
  PROVE  Follows(i, SANITY_CHECK_OPERAND_SIZE(i))
BY DEF Typed, Follows, Fields, SANITY_CHECK_OPERAND_SIZE, OtherSize

LEMMA AddressSizeChecked ==
  ASSUME NEW i, Typed(i)
  PROVE  Follows(i, SANITY_CHECK_ADDRESS_SIZE(i))
BY DEF Typed, Follows, Fields, SANITY_CHECK_ADDRESS_SIZE, AnomalyIf

LEMMA SegmentChecked ==
  ASSUME NEW i, Typed(i)
  PROVE  Follows(i, SANITY_CHECK_SEGMENT_OVERRIDE(i))
BY Anomaly DEF SANITY_CHECK_SEGMENT_OVERRIDE

-----------------------------------------------------------------------------
(* Displacements and addressing. *)

LEMMA AtByte ==
  ASSUME NEW text \in Seq(Byte), NEW k \in Nat
  PROVE  At(text, k) \in Byte
<1>1. Filler \in Byte
  BY FillerAssumption DEF Byte
<1> QED BY <1>1 DEF At

LEMMA Fields_ModRM ==
  ASSUME NEW i, Typed(i)
  PROVE  /\ mod(i) \in Int /\ (i.modrm # NoModRM => mod(i) \in 0..3)
         /\ reg(i) \in 0..7 /\ rm(i) \in 0..7 /\ (i.modrm = NoModRM => rm(i) # 4)
<1> DEFINE m == i.modrm
<1>1. m \in 0..255 \/ m = -1
  BY DEF Typed, Byte, NoModRM
<1> HIDE DEF m
<1>2. m \div 64 \in Int /\ (m \in 0..255 => m \div 64 \in 0..3)
  BY <1>1
<1>3. m \div 8 \in Int
  BY <1>1
<1>4. (m \div 8) % 8 \in 0..7 /\ m % 8 \in 0..7
  BY <1>1, <1>3
<1>5. m = -1 => m % 8 # 4
  BY <1>1
<1> USE DEF m
<1> QED BY <1>1, <1>2, <1>4, <1>5 DEF mod, reg, rm, NoModRM

LEMMA DisplacementOnly ==
  ASSUME NEW i, Typed(i), NEW k \in 1..3, NEW text
  PROVE  Follows(i, Displacement_Only(i, k, text))
<1> DEFINE t == X86_SET_TARGET(i, k, TRUE)
           j == [t EXCEPT !.operands[k].global = TRUE, !.fullDisplacement = TRUE]
           l == IF IS_VALID_ADDRESS(text, i.next) THEN j ELSE i
<1>1. Follows(i, t) /\ Typed(t)
  BY Target, Known
<1>2. Follows(t, j)
  <2> HIDE DEF t
  <2> QED BY <1>1 DEF Typed, Follows, Fields, OperandFields
<1>3. Follows(i, l) /\ Typed(l)
  BY <1>1, <1>2, Further, Same, Known
<1>4. Follows(l, INSTR_INC(l, 4))
  BY <1>3, Inc
<1>5. Displacement_Only(i, k, text) = INSTR_INC(l, 4)
  BY DEF Displacement_Only
<1> HIDE DEF t, j, l
<1> QED BY <1>3, <1>4, <1>5, Further

LEMMA DisplacementAdded ==
  ASSUME NEW i, Typed(i), NEW k \in 1..3, NEW text
  PROVE  Follows(i, Displacement_Added(i, k, text))
<1> DEFINE j == [i EXCEPT !.operands[k].global = TRUE, !.fullDisplacement = TRUE]
           l == IF IS_VALID_ADDRESS(text, i.next) THEN j ELSE i
<1>1. Follows(i, j)
  BY DEF Typed, Follows, Fields, OperandFields
<1>2. Follows(i, l) /\ Typed(l)
  BY <1>1, Same, Known
<1>3. Follows(l, INSTR_INC(l, 4))
  BY <1>2, Inc
<1>4. Follows(i, INSTR_INC(l, 4))
  BY <1>2, <1>3, Further
<1>5. Displacement_Added(i, k, text) \in {i, INSTR_INC(i, 1), INSTR_INC(l, 4)}
  BY DEF Displacement_Added
<1> HIDE DEF l, j
<1> QED BY <1>4, <1>5, Same, Inc

LEMMA ModRM16 ==
  ASSUME NEW i, Typed(i), NEW k \in 1..3, i.row.ops[k].mode # "G"
  PROVE  Follows(i, SetModRM16(i, k))
<1> DEFINE j == INSTR_INC(i, mod(i))
           l == IF rm(i) \in {2, 3} THEN X86_SET_SEG(j, EBP) ELSE j
           m == [l EXCEPT !.base = TRUE, !.index = @ \/ rm(i) < 4]
           n == X86_SET_ADDR(i, k)
<1>1. Follows(i, j) /\ Typed(j)
  BY Inc, Fields_ModRM, Known
<1>2. Follows(i, l) /\ Typed(l)
  BY <1>1, Seg, Further, Known
<1>3. Follows(l, m)
  <2> HIDE DEF l
  <2> QED BY <1>2 DEF Typed, Follows, Fields
<1>4. Follows(i, m) /\ Typed(m)
  BY <1>2, <1>3, Further, Known
<1>5. Follows(i, X86_SET_ADDR(m, k))
  BY <1>4, Addr, Further, Known
<1>6. Follows(i, n) /\ Typed(n)
  BY Addr, Known
<1>7. Follows(i, INSTR_INC(n, 2))
  BY <1>6, Inc, Further
<1>8. SetModRM16(i, k) \in {Assert_(i, 4131, i.operands[k].length \in {1, 2, 4}), INSTR_INC(n, 2),
                            X86_SET_ADDR(m, k)}
  BY DEF SetModRM16
<1> HIDE DEF j, l, m, n
<1> QED BY <1>5, <1>7, <1>8, Asserting

LEMMA SIB ==
  ASSUME NEW text \in Seq(Byte), NEW i, Typed(i), NEW k \in 1..3, i.modrm # NoModRM,
         i.row.ops[k].mode # "G"
  PROVE  Follows(i, SetSIB(i, k, text))
<1> DEFINE sib == At(text, i.next)
           baseField == sib % 8
           indexField == (sib \div 8) % 8
           a == X86_SET_ADDR(i, k)
           j == INSTR_INC(a, 1)
           g == X86_SET_SEG(j, baseField)
           based == [g EXCEPT !.base = TRUE]
           withBase == IF baseField # 5 THEN based
                       ELSE IF mod(i) = 0 THEN Displacement_Only(j, k, text)
                       ELSE Displacement_Added(based, k, text)
           indexed == [withBase EXCEPT !.operands[k].target = FALSE, !.index = TRUE,
                                       !.scale = <<1, 2, 4, 8>>[sib \div 64 + 1]]
           withIndex == IF indexField = 4 THEN withBase ELSE indexed
<1>1. sib \in Byte
  BY AtByte DEF Typed
<1>2. Follows(i, a) /\ Typed(a)
  BY Addr, Known
<1>3. Follows(i, j) /\ Typed(j)
  BY <1>2, Inc, Further, Known
<1>4. Follows(i, g) /\ Typed(g)
  BY <1>3, Seg, Further, Known
<1>5. Follows(g, based)
  <2> HIDE DEF g
  <2> QED BY <1>4 DEF Typed, Follows, Fields
<1>6. Follows(i, based) /\ Typed(based)
  BY <1>4, <1>5, Further, Known
<1>7. Follows(i, withBase) /\ Typed(withBase)
  <2>1. Follows(i, Displacement_Only(j, k, text))
    BY <1>3, DisplacementOnly, Further
  <2>2. Follows(i, Displacement_Added(based, k, text))
    BY <1>6, DisplacementAdded, Further
  <2> HIDE DEF based, j, sib
  <2> QED BY <1>6, <2>1, <2>2, Known
<1>8. Follows(withBase, indexed)
  <2>1. <<1, 2, 4, 8>>[sib \div 64 + 1] \in Nat
    <3> HIDE DEF sib
    <3>1. sib \div 64 + 1 \in 1..4
      BY <1>1 DEF Byte
    <3> QED BY <3>1
  <2> HIDE DEF withBase, sib
  <2> QED BY <1>7, <2>1 DEF Typed, Follows, Fields, OperandFields
<1>9. Follows(i, withIndex) /\ Typed(withIndex)
  <2> HIDE DEF withBase, indexed, indexField
  <2> QED BY <1>7, <1>8, Further, Known
<1>10. Follows(i, Displacement_Added(withIndex, k, text))
  BY <1>9, DisplacementAdded, Further
<1>11. SetSIB(i, k, text) \in {withIndex, Displacement_Added(withIndex, k, text)}
  BY DEF SetSIB
<1> HIDE DEF withIndex
<1> QED BY <1>9, <1>10, <1>11

LEMMA ModRM32 ==
  ASSUME NEW text \in Seq(Byte), NEW i, Typed(i), NEW k \in 1..3, i.row.ops[k].mode # "G"
  PROVE  Follows(i, SetModRM32(i, k, text))
<1> DEFINE r == Assert_(i, 4264, i.operands[k].length \in {1, 2, 4, 8})
           d == Displacement_Only(i, k, text)
           g == X86_SET_SEG(i, rm(i))
           b == [g EXCEPT !.base = TRUE]
           j == X86_SET_ADDR(b, k)
<1>1. Follows(i, X86_SET_REG(r, k))
  BY Asserting, Register, Further, Known
<1>2. Follows(i, X86_SET_ADDR(d, k))
  BY DisplacementOnly, Addr, Further, Known
<1>3. Follows(i, g) /\ Typed(g)
  BY Seg, Known
<1>4. Follows(g, b)
  <2> HIDE DEF g
  <2> QED BY <1>3 DEF Typed, Follows, Fields
<1>5. Follows(i, b) /\ Typed(b)
  BY <1>3, <1>4, Further, Known
<1>6. Follows(i, j) /\ Typed(j)
  BY <1>5, Addr, Further, Known
<1>7. Follows(i, Displacement_Added(j, k, text))
  BY <1>6, DisplacementAdded, Further
<1>8. rm(i) = 4 => i.modrm # NoModRM
  BY Fields_ModRM
<1>9. \/ SetModRM32(i, k, text) \in {SetModRM16(i, k), X86_SET_REG(r, k), X86_SET_ADDR(d, k),
                                     Displacement_Added(j, k, text)}
      \/ rm(i) = 4 /\ SetModRM32(i, k, text) = SetSIB(i, k, text)
  BY DEF SetModRM32
<1> HIDE DEF r, d, g, b, j
<1> QED BY <1>1, <1>2, <1>7, <1>8, <1>9, ModRM16, SIB

-----------------------------------------------------------------------------
(* Operands. *)

LEMMA Sizes ==
  ASSUME NEW i, Typed(i), NEW size
  PROVE  OperandLength(i, size) \in Nat
<1>1. CASE size \in DOMAIN FixedSize
  <2>1. \A s \in DOMAIN FixedSize : FixedSize[s] \in Nat
    BY DEF FixedSize
  <2>2. size \notin DOMAIN SizeByOperandSize \union {"mw", "sso", "sdo", "lea"}
    BY <1>1 DEF FixedSize, SizeByOperandSize
  <2> QED BY <1>1, <2>1, <2>2 DEF OperandLength
<1>2. CASE size \in DOMAIN SizeByOperandSize
  BY <1>2 DEF OperandLength, FixedSize, SizeByOperandSize
<1>3. CASE size \in {"mw", "sso", "sdo"}
  BY <1>3 DEF OperandLength, FixedSize, SizeByOperandSize, SizeByMod, Typed
<1>4. i.operands[1].length \in Nat
  BY DEF Typed
<1>5. CASE size \notin DOMAIN FixedSize \union DOMAIN SizeByOperandSize \union {"mw", "sso", "sdo"}
  BY <1>4, <1>5 DEF OperandLength
<1> QED BY <1>1, <1>2, <1>3, <1>5

LEMMA OperandI ==
  ASSUME NEW i, Typed(i), NEW k \in 1..3
  PROVE  Follows(i, Operand_I(i, k))
<1> DEFINE n == INSTR_INC(i, i.operands[k].length)
           j == Assert_(n, 3522, i.OperandSize >= i.operands[k].length)
           l == [j EXCEPT !.operands[k].length = i.OperandSize]
<1>1. Follows(i, n) /\ Typed(n)
  <2>1. i.operands[k].length \in Nat
    BY DEF Typed
  <2> QED BY <2>1, Inc, Known
<1>2. Follows(i, j) /\ Typed(j)
  BY <1>1, Asserting, Further, Known
<1>3. Follows(j, l)
  <2>1. i.OperandSize \in Nat
    BY DEF Typed
  <2> HIDE DEF j
  <2> QED BY <1>2, <2>1 DEF Typed, Follows, Fields, OperandFields
<1>4. Operand_I(i, k) \in {j, l}
  BY DEF Operand_I
<1> HIDE DEF j, l
<1> QED BY <1>2, <1>3, <1>4, Further

LEMMA OperandJ ==
  ASSUME NEW text, NEW i, Typed(i), NEW k \in 1..3, i.row.ops[k].mode # "G"
  PROVE  Follows(i, Operand_J(i, k, text))
<1> DEFINE size == i.operands[k].length
           zero == ~NonZero(text, i.next, size)
           conditional == i.row.type \in {"BRANCHCC", "LOOPCC"}
           c == SANITY_CHECK_ADDRESS_SIZE(i)
           j == AnomalyIf(c, conditional /\ zero)
           n == INSTR_INC(j, size)
           t == [n EXCEPT !.operands[k].target = TRUE]
           l == X86_SET_ADDR(t, k)
           s == SANITY_CHECK_SEGMENT_OVERRIDE(l)
           z == [s EXCEPT !.override = FALSE, !.segment = "CS", !.base = TRUE]
<1>1. Follows(i, j) /\ Typed(j)
  BY AddressSizeChecked, Anomaly, Further, Known
<1>2. Follows(i, n) /\ Typed(n)
  <2>1. size \in Nat
    BY DEF Typed
  <2> HIDE DEF j, size
  <2> QED BY <1>1, <2>1, Inc, Further, Known
<1>3. Follows(n, t)
  <2> HIDE DEF n
  <2> QED BY <1>2 DEF Typed, Follows, Fields, OperandFields
<1>4. Follows(i, t) /\ Typed(t)
  BY <1>2, <1>3, Further, Known
<1>5. Follows(i, s) /\ Typed(s)
  <2> HIDE DEF t
  <2> QED BY <1>4, Addr, SegmentChecked, Further, Known
<1>6. Follows(s, z)
  <2> HIDE DEF s
  <2> QED BY <1>5 DEF Typed, Follows, Fields
<1>7. Operand_J(i, k, text) = z
  BY DEF Operand_J
<1> HIDE DEF s, z
<1> QED BY <1>5, <1>6, <1>7, Further

LEMMA OperandO ==
  ASSUME NEW text, NEW i, Typed(i), NEW k \in 1..3, i.row.ops[k].mode # "G"
  PROVE  Follows(i, Operand_O(i, k, text))
<1> DEFINE j == SANITY_CHECK_OPERAND_SIZE(i)
           n == INSTR_INC(j, j.AddressSize)
           l == [n EXCEPT !.fullDisplacement = TRUE]
           a == X86_SET_ADDR(l, k)
           t == X86_SET_TARGET(a, k, NonZero(text, j.next, j.AddressSize))
<1>1. Follows(i, j) /\ Typed(j)
  BY OperandSizeChecked, Known
<1>2. Follows(i, n) /\ Typed(n)
  <2> HIDE DEF j
  <2>1. j.AddressSize \in Nat
    BY <1>1 DEF Typed
  <2> QED BY <1>1, <2>1, Inc, Further, Known
<1>3. Follows(n, l)
  <2> HIDE DEF n
  <2> QED BY <1>2 DEF Typed, Follows, Fields
<1>4. Follows(i, l) /\ Typed(l)
  BY <1>2, <1>3, Further, Known
<1>5. Follows(i, a) /\ Typed(a)
  BY <1>4, Addr, Further, Known
<1>6. Follows(i, t) /\ Typed(t)
  <2> HIDE DEF a
  <2> QED BY <1>5, Target, Further, Known
<1>7. Operand_O(i, k, text) = Assert_(t, 3615, t.segment = "DS" \/ t.override)
  BY DEF Operand_O
<1> HIDE DEF t
<1> QED BY <1>6, <1>7, Asserting, Further

LEMMA OperandA ==
  ASSUME NEW i, Typed(i), NEW k \in 1..3, i.row.ops[k].mode # "G"
  PROVE  Follows(i, Operand_A(i, k))
<1> DEFINE j == SANITY_CHECK_SEGMENT_OVERRIDE(SANITY_CHECK_ADDRESS_SIZE(i))
           n == INSTR_INC(j, j.operands[k].length)
           l == [n EXCEPT !.selector = TRUE, !.override = FALSE, !.segment = "selector",
                          !.fullDisplacement = TRUE]
           a == X86_SET_ADDR(l, k)
<1>1. Follows(i, j) /\ Typed(j)
  BY AddressSizeChecked, SegmentChecked, Further, Known
<1>2. Follows(i, n) /\ Typed(n)
  <2> HIDE DEF j
  <2>1. j.operands[k].length \in Nat
    BY <1>1 DEF Typed
  <2> QED BY <1>1, <2>1, Inc, Further, Known
<1>3. Follows(n, l)
  <2> HIDE DEF n
  <2> QED BY <1>2 DEF Typed, Follows, Fields
<1>4. Follows(i, l) /\ Typed(l)
  BY <1>2, <1>3, Further, Known
<1>5. Follows(i, a) /\ Typed(a)
  BY <1>4, Addr, Further, Known
<1>6. Operand_A(i, k) = X86_SET_TARGET(a, k, TRUE)
  BY DEF Operand_A
<1> HIDE DEF a
<1> QED BY <1>5, <1>6, Target, Further

LEMMA OperandXY ==
  ASSUME NEW i, Typed(i), NEW k \in 1..3, i.row.ops[k].mode # "G"
  PROVE  Follows(i, Operand_X(i, k)) /\ Follows(i, Operand_Y(i, k))
<1> DEFINE b == [i EXCEPT !.base = TRUE]
           j == X86_SET_ADDR(b, k)
<1>1. Follows(i, b) /\ Typed(b)
  BY DEF Typed, Follows, Fields
<1>2. Follows(i, j) /\ Typed(j)
  <2> HIDE DEF b
  <2> QED BY <1>1, Addr, Further, Known
<1>3. Follows(j, [j EXCEPT !.segment = "DS"]) /\ Follows(j, [j EXCEPT !.segment = "ES"])
  <2> HIDE DEF j
  <2> QED BY <1>2 DEF Typed, Follows, Fields
<1>4. Follows(j, AnomalyIf(j, TRUE))
  BY <1>2, Anomaly
<1>5. /\ Operand_X(i, k) \in {j, [j EXCEPT !.segment = "DS"]}
      /\ Operand_Y(i, k) \in {AnomalyIf(j, TRUE), [j EXCEPT !.segment = "ES"]}
  BY DEF Operand_X, Operand_Y
<1> HIDE DEF j
<1>6. /\ Follows(i, AnomalyIf(j, TRUE)) /\ Follows(i, [j EXCEPT !.segment = "DS"])
      /\ Follows(i, [j EXCEPT !.segment = "ES"])
  BY <1>2, <1>3, <1>4, Further
<1> QED BY <1>2, <1>5, <1>6

LEMMA OperandXlat ==
  ASSUME NEW i, Typed(i), NEW k \in 1..3, i.row.ops[k].mode # "G"
  PROVE  Follows(i, Operand_xlat(i, k))
<1> DEFINE j == X86_SET_ADDR(i, k)
           l == [j EXCEPT !.scale = 1, !.base = TRUE, !.index = TRUE]
<1>1. Follows(i, j) /\ Typed(j)
  BY Addr, Known
<1>2. Follows(j, l)
  <2> HIDE DEF j
  <2> QED BY <1>1 DEF Typed, Follows, Fields
<1>3. Operand_xlat(i, k) = l
  BY DEF Operand_xlat
<1> HIDE DEF j, l
<1> QED BY <1>1, <1>2, <1>3, Further

LEMMA OperandRegister ==
  ASSUME NEW i, Typed(i), NEW k \in 1..3
  PROVE  /\ Follows(i, Operand_RegisterInRM(i, k))
         /\ i.row.ops[k].mode \in {"P", "V", "G", "S", "C", "D"}
              => Follows(i, Operand_RegisterInReg(i, k))
<1>1. \A c : Follows(i, X86_SET_REG(AbortIf(i, c), k))
  BY Aborting, Register, Further, Known
<1>2. \A c : Follows(i, X86_SET_REG(Assert_(i, 3867, c), k))
  BY Asserting, Register, Further, Known
<1>3. Follows(i, Operand_RegisterInRM(i, k))
  BY <1>1 DEF Operand_RegisterInRM
<1>4. ASSUME i.row.ops[k].mode \in {"P", "V", "G", "S", "C", "D"}
      PROVE  Follows(i, Operand_RegisterInReg(i, k))
  BY <1>1, <1>2, <1>4, Register DEF Operand_RegisterInReg
<1> QED BY <1>3, <1>4

LEMMA OperandM ==
  ASSUME NEW text \in Seq(Byte), NEW i, Typed(i), NEW k \in 1..3, i.row.ops[k].mode # "G"
  PROVE  Follows(i, Operand_M(i, k, text))
<1> DEFINE j == Assert_(i, 4001, i.segment = "DS" \/ i.override)
<1>1. Follows(i, SetModRM32(j, k, text))
  BY Asserting, ModRM32, Further, Known
<1>2. Operand_M(i, k, text) \in {Abort(i), SetModRM32(j, k, text)}
  BY DEF Operand_M
<1> HIDE DEF j
<1> QED BY <1>1, <1>2, Aborted

LEMMA OperandE ==
  ASSUME NEW text \in Seq(Byte), NEW i, Typed(i), NEW k \in 1..3, i.row.ops[k].mode # "G"
  PROVE  Follows(i, Operand_E(i, k, text))
<1> DEFINE j == SetModRM32(i, k, text)
           l == [j EXCEPT !.operands[k].length = i.OperandSize]
<1>1. Follows(i, j) /\ Typed(j)
  BY ModRM32, Known
<1>2. Follows(j, l)
  <2>1. i.OperandSize \in Nat
    BY DEF Typed
  <2> HIDE DEF j
  <2> QED BY <1>1, <2>1 DEF Typed, Follows, Fields, OperandFields
<1>3. Operand_E(i, k, text) \in {Abort(i), j, l}
  BY DEF Operand_E
<1> HIDE DEF j, l
<1> QED BY <1>1, <1>2, <1>3, Aborted, Further

LEMMA OperandQW ==
  ASSUME NEW text \in Seq(Byte), NEW i, Typed(i), NEW k \in 1..3, i.row.ops[k].mode # "G"
  PROVE  Follows(i, Operand_QW(i, k, text))
BY ModRM32, Register DEF Operand_QW

LEMMA OperandSized ==
  ASSUME NEW i, Typed(i), NEW k \in 1..3
  PROVE  Follows(i, Sized(i, k))
<1> DEFINE size == i.row.ops[k].size
           known == Assert_(i, 3421, size \in OperandSizes)
           a == AnomalyIf(known, size = "p" /\ i.override)
           n == OperandLength(i, size)
           l == [a EXCEPT !.operands[k].length = n]
<1>1. Follows(i, a) /\ Typed(a)
  BY Asserting, Anomaly, Further, Known
<1>2. Follows(a, l)
  <2>1. n \in Nat
    BY Sizes
  <2> HIDE DEF a, n
  <2> QED BY <1>1, <2>1 DEF Typed, Follows, Fields, OperandFields
<1>3. Sized(i, k) = l
  BY DEF Sized
<1> HIDE DEF a, l
<1> QED BY <1>1, <1>2, <1>3, Further

LEMMA OperandPlaced ==
  ASSUME NEW text \in Seq(Byte), NEW i, Typed(i), NEW k \in 1..3
  PROVE  Follows(i, Placed(i, k, text))
<1> DEFINE mode == i.row.ops[k].mode
<1>1. /\ Follows(i, Operand_I(i, k))
      /\ mode # "G" =>
           /\ Follows(i, Operand_J(i, k, text))
           /\ Follows(i, Operand_O(i, k, text)) /\ Follows(i, Operand_A(i, k))
           /\ Follows(i, Operand_X(i, k)) /\ Follows(i, Operand_Y(i, k))
           /\ Follows(i, Operand_xlat(i, k))
  BY OperandI, OperandJ, OperandO, OperandA, OperandXY, OperandXlat
<1>2. /\ Follows(i, Operand_RegisterInRM(i, k))
      /\ mode \in {"P", "V", "G", "S", "C", "D"} => Follows(i, Operand_RegisterInReg(i, k))
  BY OperandRegister
<1>3. mode # "G" =>
        /\ Follows(i, Operand_M(i, k, text)) /\ Follows(i, Operand_E(i, k, text))
        /\ Follows(i, Operand_QW(i, k, text))
  BY OperandM, OperandE, OperandQW
<1>4. Follows(i, Fail(i, 4063))
  BY Failing
<1> QED BY <1>1, <1>2, <1>3, <1>4 DEF Placed

LEMMA OneOperand ==
  ASSUME NEW text \in Seq(Byte), NEW i, Typed(i), NEW k \in 1..3
  PROVE  Follows(i, SetOperand(i, k, text))
BY OperandSized, OperandPlaced, Same, Further, Known DEF SetOperand

(* SetOperands leaves what the opcode and the prefixes are. *)
LEMMA AllOperands ==
  ASSUME NEW text \in Seq(Byte), NEW i, Typed(i)
  PROVE  Follows(i, SetOperands(i, text))
<1> DEFINE start == IF i.modrm = NoModRM THEN i ELSE INSTR_INC(i, 1)
           Nth(j, k) == IF Running(j) /\ k <= Len(i.row.ops) THEN SetOperand(j, k, text) ELSE j
<1>1. Follows(i, start) /\ Typed(start)
  BY Same, Inc, Known
<1>2. ASSUME NEW j, Follows(i, j), NEW k \in 1..3
      PROVE  Follows(i, Nth(j, k))
  BY <1>2, OneOperand, Further, Known
<1>3. SetOperands(i, text) = Nth(Nth(Nth(start, 1), 2), 3)
  BY DEF SetOperands
<1> HIDE DEF start, Nth
<1>4. Follows(i, Nth(start, 1))
  BY <1>1, <1>2
<1>5. Follows(i, Nth(Nth(start, 1), 2))
  BY <1>4, <1>2
<1>6. Follows(i, Nth(Nth(Nth(start, 1), 2), 3))
  BY <1>5, <1>2
<1> QED BY <1>3, <1>6

-----------------------------------------------------------------------------
(* What the tables have for prefixes and for what leaves the straight line. *)

LEMMA RowTypes ==
  /\ \A ops : /\ Reads(ops).type = "PLAIN" /\ Writes(ops).type = "PLAIN"
              /\ Modifies(ops).type = "PLAIN" /\ Exchanges(ops).type = "PLAIN"
  /\ \A type, ops : /\ As(type, Reads(ops)).type = type /\ As(type, Writes(ops)).type = type
                    /\ As(type, Modifies(ops)).type = type
  /\ NOARGS.type = "PLAIN" /\ \A type : As(type, NOARGS).type = type
  /\ PREFIX.type = "PREFIX" /\ NOINSTR.type = "NOINSTR"
  /\ \A table : /\ GROUP(table).type = "GROUP" /\ GROUP(table).table = table
                /\ EXT_FPU(table).type = "EXT_FPU" /\ EXT_64(table).type = "EXT_64"
<1>1. \A ops : /\ Reads(ops).type = "PLAIN" /\ Writes(ops).type = "PLAIN"
               /\ Modifies(ops).type = "PLAIN" /\ Exchanges(ops).type = "PLAIN"
  BY DEF Reads, Writes, Modifies, Exchanges, Row
<1>2. \A type, ops : /\ As(type, Reads(ops)).type = type /\ As(type, Writes(ops)).type = type
                     /\ As(type, Modifies(ops)).type = type
  BY DEF Reads, Writes, Modifies, Row, As
<1>3. NOARGS.type = "PLAIN" /\ \A type : As(type, NOARGS).type = type
  BY DEF NOARGS, Reads, Row, As
<1>4. PREFIX.type = "PREFIX" /\ NOINSTR.type = "NOINSTR"
  BY <1>3 DEF PREFIX, NOINSTR
<1>5. \A table : /\ GROUP(table).type = "GROUP" /\ GROUP(table).table = table
                 /\ EXT_FPU(table).type = "EXT_FPU" /\ EXT_64(table).type = "EXT_64"
  BY DEF GROUP, EXT_FPU, EXT_64, NOARGS, Reads, Row
<1> QED BY <1>1, <1>2, <1>3, <1>4, <1>5

LEMMA Blocks ==
  ASSUME NEW b \in Byte
  PROVE  /\ b \in 0..\h7F => X86_Opcodes_1[b] = Opcodes_1_low[b]
         /\ b \in \h80..\h9F => X86_Opcodes_1[b] = Opcodes_1_80[b]
         /\ b \in \hA0..\hBF => X86_Opcodes_1[b] = Opcodes_1_A0[b]
         /\ b \in \hC0..\hDF => X86_Opcodes_1[b] = Opcodes_1_C0[b]
         /\ b \in \hE0..\hFF => X86_Opcodes_1[b] = Opcodes_1_E0[b]
BY DEF X86_Opcodes_1, Byte

LEMMA PrefixRows ==
  ASSUME NEW b \in Byte
  PROVE  X86_Opcodes_1[b].type = "PREFIX" <=> b \in PrefixBytes
<1>1. CASE b \in {\h26, \h2E, \h36, \h3E} \union \h64..\h67
  <2>1. Opcodes_1_low[b] = PREFIX
    BY <1>1 DEF Opcodes_1_low
  <2> QED BY <1>1, <2>1, Blocks, RowTypes DEF PrefixBytes
<1>2. CASE b \in {\hF0, \hF2, \hF3}
  <2>1. Opcodes_1_E0[b] = PREFIX
    BY <1>2 DEF Opcodes_1_E0
  <2> QED BY <1>2, <2>1, Blocks, RowTypes DEF PrefixBytes
<1>3. CASE b \in 0..\h3F /\ b \notin PrefixBytes
  <2>1. Opcodes_1_low[b].type # "PREFIX"
    BY <1>3, RowTypes DEF Opcodes_1_low, PrefixBytes
  <2> QED BY <1>3, <2>1, Blocks
<1>4. CASE b \in \h40..\h7F /\ b \notin PrefixBytes
  <2>1. Opcodes_1_low[b].type # "PREFIX"
    BY <1>4, RowTypes DEF Opcodes_1_low, PrefixBytes
  <2> QED BY <1>4, <2>1, Blocks
<1>5. CASE b \in \h80..\h9F
  <2>1. Opcodes_1_80[b].type # "PREFIX"
    BY <1>5, RowTypes, SMTT(60) DEF Opcodes_1_80
  <2> QED BY <1>5, <2>1, Blocks DEF PrefixBytes
<1>6. CASE b \in \hA0..\hBF
  <2>1. Opcodes_1_A0[b].type # "PREFIX"
    BY <1>6, RowTypes, SMTT(60) DEF Opcodes_1_A0
  <2> QED BY <1>6, <2>1, Blocks DEF PrefixBytes
<1>7. CASE b \in \hC0..\hDF
  <2>1. Opcodes_1_C0[b].type # "PREFIX"
    BY <1>7, RowTypes, SMTT(60) DEF Opcodes_1_C0
  <2> QED BY <1>7, <2>1, Blocks DEF PrefixBytes
<1>8. CASE b \in \hE0..\hFF /\ b \notin {\hF0, \hF2, \hF3}
  <2>1. Opcodes_1_E0[b].type # "PREFIX"
    BY <1>8, RowTypes, SMTT(60) DEF Opcodes_1_E0
  <2> QED BY <1>8, <2>1, Blocks DEF PrefixBytes
<1> QED BY <1>1, <1>2, <1>3, <1>4, <1>5, <1>6, <1>7, <1>8 DEF PrefixBytes, Byte

Straight == \h70..\h7F \union \hE8..\hEB \union {\h9A, \hC2, \hC3, \hCA, \hCB}

LEMMA TransferRows ==
  ASSUME NEW b \in Byte, b \in Straight
  PROVE  X86_Opcodes_1[b].type \in Stops
<1>1. CASE b \in \h70..\h7F
  <2>1. Opcodes_1_low[b] = As("BRANCHCC", Reads(<<J("b")>>))
    BY <1>1 DEF Opcodes_1_low
  <2> QED BY <1>1, <2>1, Blocks, RowTypes DEF Stops
<1>2. CASE b = \hE8
  <2>1. Opcodes_1_E0[b] = As("CALL", Reads(<<J("z")>>))
    BY <1>2 DEF Opcodes_1_E0
  <2> QED BY <1>2, <2>1, Blocks, RowTypes DEF Stops
<1>3. CASE b = \hE9
  <2>1. Opcodes_1_E0[b] = As("BRANCH", Reads(<<J("z")>>))
    BY <1>3 DEF Opcodes_1_E0
  <2> QED BY <1>3, <2>1, Blocks, RowTypes DEF Stops
<1>4. CASE b = \hEA
  <2>1. Opcodes_1_E0[b] = As("BRANCH", Reads(<<A("p")>>))
    BY <1>4 DEF Opcodes_1_E0
  <2> QED BY <1>4, <2>1, Blocks, RowTypes DEF Stops
<1>5. CASE b = \hEB
  <2>1. Opcodes_1_E0[b] = As("BRANCH", Reads(<<J("b")>>))
    BY <1>5 DEF Opcodes_1_E0
  <2> QED BY <1>5, <2>1, Blocks, RowTypes DEF Stops
<1>6. CASE b = \h9A
  <2>1. Opcodes_1_80[b] = As("CALL", Reads(<<A("p")>>))
    BY <1>6 DEF Opcodes_1_80
  <2> QED BY <1>6, <2>1, Blocks, RowTypes DEF Stops
<1>7. CASE b \in {\hC2, \hCA}
  <2>1. Opcodes_1_C0[b] = As("RET", Reads(<<I("w")>>))
    BY <1>7 DEF Opcodes_1_C0
  <2> QED BY <1>7, <2>1, Blocks, RowTypes DEF Stops
<1>8. CASE b \in {\hC3, \hCB}
  <2>1. Opcodes_1_C0[b] = As("RET", NOARGS)
    BY <1>8 DEF Opcodes_1_C0
  <2> QED BY <1>8, <2>1, Blocks, RowTypes DEF Stops
<1> QED BY <1>1, <1>2, <1>3, <1>4, <1>5, <1>6, <1>7, <1>8 DEF Straight

LEMMA IndirectRows ==
  /\ X86_Opcodes_1[\hFF].type = "GROUP" /\ X86_Opcodes_1[\hFF].table = X86_Group_5
  /\ \A r \in 2..5 : X86_Group_5[r].type \in Stops
  /\ \hFF \in X86_ModRM_1
<1>1. X86_Opcodes_1[\hFF] = GROUP(X86_Group_5)
  BY DEF X86_Opcodes_1, Opcodes_1_E0, Byte
<1>2. \A r \in 2..5 : X86_Group_5[r].type \in Stops
  BY DEF X86_Group_5, As, Reads, Row, Stops
<1>3. \hFF \in X86_ModRM_1
  BY DEF X86_ModRM_1
<1> QED BY <1>1, <1>2, <1>3, RowTypes

LEMMA ConditionalRows ==
  ASSUME NEW b \in \h80..\h8F
  PROVE  /\ X86_Opcodes_2[b].type = "BRANCHCC"
         /\ X86_SSE(PREFIX_OPERAND_SIZE)[b].type = "NOINSTR"
<1>1. Opcodes_2_high[b] = As("BRANCHCC", Reads(<<J("z")>>))
  BY DEF Opcodes_2_high
<1>2. X86_SSE(PREFIX_OPERAND_SIZE) = SSE_66
  BY DEF X86_SSE, PREFIX_OPERAND_SIZE
<1>3. SSE_66[b] = NOINSTR
  BY DEF SSE_66, SSE_66_high, Byte
<1>4. X86_Opcodes_2[b] = Opcodes_2_high[b]
  BY DEF X86_Opcodes_2, Byte
<1> QED BY <1>1, <1>2, <1>3, <1>4, RowTypes

-----------------------------------------------------------------------------
(* The reference and the decoder see the same opcode. *)

(* at has n prefixes and then no other one.                                *)
Prefixed(text, at, n) ==
  /\ At(text, at + n) \notin PrefixBytes
  /\ \A k \in 0..(n - 1) : At(text, at + k) \in PrefixBytes

LEMMA PrefixCounted ==
  ASSUME NEW text \in Seq(Byte), NEW at \in Nat, NEW n \in Nat, Prefixed(text, at, n)
  PROVE  PrefixCount(text, at) = n
<1>1. n \in 0..Len(text)
  <2> SUFFICES ASSUME n > Len(text) PROVE FALSE
    OBVIOUS
  <2>1. n - 1 \in 0..(n - 1) /\ at + (n - 1) >= Len(text) /\ at + n >= Len(text)
    OBVIOUS
  <2>2. At(text, at + (n - 1)) = Filler /\ At(text, at + n) = Filler
    BY <2>1 DEF At
  <2> QED BY <2>1, <2>2 DEF Prefixed
<1>2. ASSUME NEW m \in 0..Len(text), Prefixed(text, at, m) PROVE m = n
  <2>1. ~(m < n)
    <3>1. m < n => m \in 0..(n - 1)
      OBVIOUS
    <3> QED BY <1>2, <3>1 DEF Prefixed
  <2>2. ~(n < m)
    <3>1. n < m => n \in 0..(m - 1)
      OBVIOUS
    <3> QED BY <1>2, <3>1 DEF Prefixed
  <2> QED BY <2>1, <2>2
<1>3. PrefixCount(text, at) = CHOOSE m \in 0..Len(text) : Prefixed(text, at, m)
  BY DEF PrefixCount, Prefixed
<1> HIDE DEF Prefixed
<1> QED BY <1>1, <1>2, <1>3

(* The opcode and what the ModRM byte behind it says. *)
LEMMA OpcodeRead ==
  ASSUME NEW text \in Seq(Byte), NEW at \in Nat, NEW n \in Nat, Prefixed(text, at, n)
  PROVE  /\ At(text, at + n) # \h0F =>
              /\ OpcodeOf(text, at) = At(text, at + n) /\ ModRMAt(text, at) = at + n + 1
         /\ At(text, at + n) = \h0F =>
              /\ OpcodeOf(text, at) = 256 + At(text, at + n + 1)
              /\ ModRMAt(text, at) = at + n + 2
<1>1. OpcodeAt(text, at) = at + n
  BY PrefixCounted DEF OpcodeAt
<1> QED BY <1>1 DEF OpcodeOf, EscapedAt, ModRMAt, OpcodeBytes

LEMMA Transfers ==
  ASSUME NEW text \in Seq(Byte), NEW at \in Nat, NEW n \in Nat, Prefixed(text, at, n),
         ControlTransfer(text, at)
  PROVE  \/ At(text, at + n) \in Straight
         \/ At(text, at + n) = \hFF /\ (At(text, at + n + 1) \div 8) % 8 \in 2..5
         \/ At(text, at + n) = \h0F /\ At(text, at + n + 1) \in \h80..\h8F
<1> DEFINE b == At(text, at + n)
           c == At(text, at + n + 1)
<1>1. b \in Byte /\ c \in Byte
  BY AtByte
<1>2. CASE b = \h0F
  <2>1. OpcodeOf(text, at) = 256 + c
    BY <1>2, OpcodeRead
  <2> HIDE DEF b, c
  <2>2. OpcodeOf(text, at) \in Two(\h80..\h8F)
    BY <1>1, <2>1 DEF ControlTransfer, Byte
  <2>3. c \in \h80..\h8F
    BY <1>1, <2>1, <2>2 DEF Two, Byte
  <2> QED BY <1>2, <2>3 DEF b, c
<1>3. CASE b # \h0F
  <2>1. OpcodeOf(text, at) = b /\ RegField(text, at) = (c \div 8) % 8
    BY <1>3, OpcodeRead DEF RegField
  <2>2. b \notin Two(\h80..\h8F)
    <3> HIDE DEF b
    <3> QED BY <1>1 DEF Byte, Two
  <2> HIDE DEF b, c
  <2>3. b \in Straight \/ (b = \hFF /\ (c \div 8) % 8 \in 2..5)
    BY <2>1, <2>2 DEF ControlTransfer, Straight
  <2> QED BY <2>3 DEF b, c
<1> QED BY <1>2, <1>3

-----------------------------------------------------------------------------
(* The parts of the decoder before and after the operands. *)

(* j is found from i without a byte read and before there is an opcode. *)
Stays(i, j) ==
  /\ Typed(j)
  /\ j.address = i.address /\ j.next = i.next /\ j.length = i.length
  /\ j.group = i.group /\ j.dstAddressing = i.dstAddressing /\ j.operands = i.operands
  /\ i.lock => j.lock

LEMMA Staying ==
  ASSUME NEW i, Typed(i), NEW c, NEW line
  PROVE  /\ Stays(i, AnomalyIf(i, c)) /\ Stays(i, AbortIf(i, c)) /\ Stays(i, Abort(i))
         /\ Stays(i, Fail(i, line)) /\ Stays(i, Assert_(i, line, c))
<1>1. Stays(i, AnomalyIf(i, c))
  BY DEF Stays, Typed, Fields, AnomalyIf
<1>2. Stays(i, AbortIf(i, c))
  BY DEF Stays, Typed, Fields, AbortIf
<1>3. Stays(i, Abort(i))
  BY DEF Stays, Typed, Fields, Abort
<1>4. Stays(i, Fail(i, line))
  BY DEF Stays, Typed, Fields, Fail
<1>5. Stays(i, i)
  BY DEF Stays
<1>6. Stays(i, Assert_(i, line, c))
  BY <1>4, <1>5 DEF Assert_
<1> QED BY <1>1, <1>2, <1>3, <1>4, <1>6

LEMMA StaysOn ==
  ASSUME NEW i, NEW j, NEW l, Stays(i, j), Stays(j, l)
  PROVE  Stays(i, l)
BY DEF Stays

LEMMA PrefixEffect ==
  ASSUME NEW i, Typed(i), NEW prefix
  PROVE  Stays(i, Prefix_Effect(i, prefix)) /\ (prefix = \hF0 => Prefix_Effect(i, prefix).lock)
<1>1. ASSUME NEW this \in {"rep", "repne"}, NEW other
      PROVE  Stays(i, Repeat_Prefix(i, prefix, this, other))
  <2> DEFINE j == AnomalyIf(i, i.repeat = other)
  <2>1. Stays(i, j)
    BY Staying
  <2> HIDE DEF j
  <2>2. Stays(j, [j EXCEPT !.ssePrefix = prefix, !.repeat = this])
    BY <2>1, <1>1 DEF Stays, Typed, Fields
  <2>3. Stays(i, [j EXCEPT !.ssePrefix = prefix, !.repeat = this])
    BY <2>1, <2>2, StaysOn
  <2> QED BY <2>3 DEF Repeat_Prefix, j
<1>2. Stays(i, OperandSize_Prefix(i))
  BY DEF OperandSize_Prefix, OtherSize, AnomalyIf, Stays, Typed, Fields
<1>3. Stays(i, AddressSize_Prefix(i))
  BY DEF AddressSize_Prefix, OtherSize, AnomalyIf, Stays, Typed, Fields
<1>4. ASSUME NEW segment
      PROVE  Stays(i, [SANITY_CHECK_SEGMENT_OVERRIDE(i) EXCEPT !.override = TRUE,
                                                               !.segment = segment])
  BY DEF SANITY_CHECK_SEGMENT_OVERRIDE, AnomalyIf, Stays, Typed, Fields
<1>5. Stays(i, [AnomalyIf(i, i.lock) EXCEPT !.lock = TRUE])
  BY DEF AnomalyIf, Stays, Typed, Fields
<1>6. Stays(i, Fail(i, 1180))
  BY Staying
<1> DEFINE seg == SegmentOf[prefix]
           rne == Repeat_Prefix(i, prefix, "repne", "rep")
           rep == Repeat_Prefix(i, prefix, "rep", "repne")
           ops == OperandSize_Prefix(i)
           ads == AddressSize_Prefix(i)
           ovr == [SANITY_CHECK_SEGMENT_OVERRIDE(i) EXCEPT !.override = TRUE, !.segment = seg]
           lck == [AnomalyIf(i, i.lock) EXCEPT !.lock = TRUE]
           fld == Fail(i, 1180)
<1>7. /\ Prefix_Effect(i, prefix) \in {rne, rep, ops, ads, ovr, lck, fld}
      /\ prefix = \hF0 => Prefix_Effect(i, prefix) = lck
  <2>1. DOMAIN SegmentOf = {\h26, \h2E, \h36, \h3E, \h64, \h65}
    BY DEF SegmentOf
  <2>2. CASE prefix \in DOMAIN SegmentOf
    <3>1. Prefix_Effect(i, prefix) = ovr /\ prefix # \hF0
      BY <2>1, <2>2 DEF Prefix_Effect, PREFIX_REPNE, PREFIX_REP, PREFIX_OPERAND_SIZE,
                        PREFIX_ADDRESS_SIZE, PREFIX_LOCK
    <3> QED BY <3>1
  <2>3. CASE prefix \notin DOMAIN SegmentOf
    <3>1. prefix = \hF2 => Prefix_Effect(i, prefix) = rne
      BY <2>1, <2>3 DEF Prefix_Effect, PREFIX_REPNE, PREFIX_REP, PREFIX_OPERAND_SIZE,
                       PREFIX_ADDRESS_SIZE, PREFIX_LOCK
    <3>2. prefix = \hF3 => Prefix_Effect(i, prefix) = rep
      BY <2>1, <2>3 DEF Prefix_Effect, PREFIX_REPNE, PREFIX_REP, PREFIX_OPERAND_SIZE,
                       PREFIX_ADDRESS_SIZE, PREFIX_LOCK
    <3>3. prefix = \h66 => Prefix_Effect(i, prefix) = ops
      BY <2>1, <2>3 DEF Prefix_Effect, PREFIX_REPNE, PREFIX_REP, PREFIX_OPERAND_SIZE,
                       PREFIX_ADDRESS_SIZE, PREFIX_LOCK
    <3>4. prefix = \h67 => Prefix_Effect(i, prefix) = ads
      BY <2>1, <2>3 DEF Prefix_Effect, PREFIX_REPNE, PREFIX_REP, PREFIX_OPERAND_SIZE,
                       PREFIX_ADDRESS_SIZE, PREFIX_LOCK
    <3>5. prefix = \hF0 => Prefix_Effect(i, prefix) = lck
      BY <2>1, <2>3 DEF Prefix_Effect, PREFIX_REPNE, PREFIX_REP, PREFIX_OPERAND_SIZE,
                       PREFIX_ADDRESS_SIZE, PREFIX_LOCK
    <3>6. prefix \notin {\hF2, \hF3, \h66, \h67, \hF0} => Prefix_Effect(i, prefix) = fld
      BY <2>3 DEF Prefix_Effect, PREFIX_REPNE, PREFIX_REP, PREFIX_OPERAND_SIZE,
                       PREFIX_ADDRESS_SIZE, PREFIX_LOCK
    <3> HIDE DEF rne, rep, ops, ads, lck, fld
    <3> QED BY <3>1, <3>2, <3>3, <3>4, <3>5, <3>6
  <2> QED BY <2>2, <2>3
<1>8. /\ Stays(i, rne) /\ Stays(i, rep) /\ Stays(i, ops) /\ Stays(i, ads) /\ Stays(i, ovr)
      /\ Stays(i, lck) /\ Stays(i, fld)
  BY <1>1, <1>2, <1>3, <1>4, <1>5, <1>6
<1>9. lck.lock
  BY DEF AnomalyIf, Typed, Fields
<1> HIDE DEF rne, rep, ops, ads, ovr, lck, fld
<1> QED BY <1>7, <1>8, <1>9

LEMMA PrefixAdded ==
  ASSUME NEW i, Typed(i), NEW prefix \in PrefixBytes
  PROVE  Stays(i, Prefix_Add(i, prefix))
<1> DEFINE count == Len(i.prefixes)
           j == AnomalyIf(i, count = X86_MAX_PREFIX_LENGTH)
           few == j.anomaly \/ count < X86_MAX_PREFIX_LENGTH
           l == Assert_(j, 1195, few)
           m == [l EXCEPT !.prefixes = Append(@, prefix)]
<1>1. Stays(i, j) /\ Typed(j)
  <2>1. Stays(i, j)
    BY Staying
  <2> HIDE DEF j
  <2> QED BY <2>1 DEF Stays
<1>2. Stays(j, l)
  <2> HIDE DEF j, few
  <2> QED BY Staying, <1>1
<1>3. j.prefixes = i.prefixes
  BY DEF AnomalyIf, Typed, Fields
<1>4. l.prefixes = i.prefixes
  <2> HIDE DEF j, few
  <2> QED BY <1>1, <1>3 DEF Assert_, Fail, Stays, Typed, Fields
<1>5. CASE count < X86_MAX_INSTRUCTION_LEN
  <2> HIDE DEF j, l
  <2>1. Append(l.prefixes, prefix) \in Seq(PrefixBytes)
        /\ Len(Append(l.prefixes, prefix)) <= X86_MAX_INSTRUCTION_LEN
    BY <1>4, <1>5 DEF Typed, X86_MAX_INSTRUCTION_LEN
  <2>2. Stays(l, m)
    BY <1>2, <2>1 DEF Stays, Typed, Fields
  <2>3. Prefix_Add(i, prefix) = m
    BY <1>5 DEF Prefix_Add, X86_MAX_INSTRUCTION_LEN, Typed, l, j, m, few
  <2> QED BY <1>1, <1>2, <2>2, <2>3, StaysOn
<1>6. CASE count >= X86_MAX_INSTRUCTION_LEN
  <2>1. Prefix_Add(i, prefix) = Abort(i)
    BY <1>6 DEF Prefix_Add
  <2> QED BY <2>1, Staying
<1>7. count \in Nat
  BY DEF Typed
<1> QED BY <1>5, <1>6, <1>7 DEF X86_MAX_INSTRUCTION_LEN

LEMMA Coded ==
  ASSUME NEW i, Typed(i), i.next \in Nat, code \in Seq(Byte), Opcode \in Byte
  PROVE  /\ Typed(OneByte(i)) /\ OneByte(i).address = i.address
         /\ OneByte(i).row = X86_Opcodes_1[Opcode]
         /\ Opcode \in X86_ModRM_1 => OneByte(i).modrm = At(code, i.next + 1)
         /\ OneByte(i).modrm \in {NoModRM, At(code, i.next + 1)}
         /\ OneByte(i).opcode = Opcode /\ OneByte(i).OpcodeLength = 1
         /\ OneByte(i).lock = i.lock /\ OneByte(i).group = i.group
         /\ OneByte(i).dstAddressing = i.dstAddressing /\ OneByte(i).operands = i.operands
<1> DEFINE j == INSTR_INC(i, 1)
           modrm == IF Opcode \in X86_ModRM_1 THEN At(code, j.next) ELSE NoModRM
<1>1. /\ Follows(i, j) /\ j.next = i.next + 1
      /\ j.dstAddressing = i.dstAddressing /\ j.operands = i.operands
  <2>1. Follows(i, j)
    BY Inc
  <2> QED BY <2>1 DEF INSTR_INC, Typed, Fields
<1>2. /\ j.next \in Nat /\ Typed(j) /\ j.address = i.address
      /\ j.lock = i.lock /\ j.group = i.group
  BY <1>1 DEF Follows
<1>3. modrm \in Byte \union {NoModRM}
  BY <1>2, AtByte
<1>4. OneByte(i) = [j EXCEPT !.opcode = Opcode, !.OpcodeLength = 1,
                             !.row = X86_Opcodes_1[Opcode], !.modrm = modrm]
  BY DEF OneByte
<1>5. /\ Opcode \in X86_ModRM_1 => modrm = At(code, i.next + 1)
      /\ modrm \in {NoModRM, At(code, i.next + 1)}
  BY <1>1
<1> HIDE DEF j, modrm
<1> QED BY <1>1, <1>2, <1>3, <1>4, <1>5 DEF Typed, Fields

LEMMA Coded2 ==
  ASSUME NEW i, Typed(i), i.next \in Nat, code \in Seq(Byte), Opcode2 \in Byte
  PROVE  /\ Typed(TwoByte(i)) /\ TwoByte(i).address = i.address
         /\ TwoByte(i).row = X86_Opcodes_2[Opcode2]
         /\ TwoByte(i).next = i.next + 2
         /\ TwoByte(i).modrm \in {NoModRM, At(code, i.next + 2)}
         /\ TwoByte(i).opcode = Opcode2 /\ TwoByte(i).OpcodeLength = 2
         /\ TwoByte(i).lock = i.lock /\ TwoByte(i).group = i.group
<1> DEFINE j == INSTR_INC(i, 2)
           modrm == IF Opcode2 \in X86_ModRM_2 THEN At(code, j.next) ELSE NoModRM
<1>1. Follows(i, j) /\ j.next = i.next + 2
  <2>1. Follows(i, j)
    BY Inc
  <2> QED BY <2>1 DEF INSTR_INC, Typed, Fields
<1>2. /\ j.next \in Nat /\ Typed(j) /\ j.address = i.address
      /\ j.lock = i.lock /\ j.group = i.group
  BY <1>1 DEF Follows
<1>3. modrm \in Byte \union {NoModRM} /\ modrm \in {NoModRM, At(code, i.next + 2)}
  <2>1. modrm \in {NoModRM, At(code, i.next + 2)}
    BY <1>1
  <2> QED BY <1>2, <2>1, AtByte
<1>4. TwoByte(i) = [j EXCEPT !.opcode = Opcode2, !.OpcodeLength = 2,
                             !.row = X86_Opcodes_2[Opcode2], !.modrm = modrm]
  BY DEF TwoByte
<1> HIDE DEF j, modrm
<1> QED BY <1>1, <1>2, <1>3, <1>4 DEF Typed, Fields

(* A row taken from a table, or none. *)
Rowed(i, j) == Typed(j) /\ j.address = i.address

LEMMA RegRange ==
  ASSUME NEW i, Typed(i)
  PROVE  reg(i) \in 0..7 /\ i.modrm % 64 \in 0..63
<1> DEFINE m == i.modrm
<1>1. m \in 0..255 \/ m = -1
  BY DEF Typed, Byte, NoModRM
<1> HIDE DEF m
<1>2. m % 64 \in 0..63
  BY <1>1
<1> QED BY <1>2, Fields_ModRM DEF m

LEMMA SetRow ==
  ASSUME NEW i, Typed(i), NEW row, NEW group, NEW extension \in 0..63
  PROVE  /\ Rowed(i, [i EXCEPT !.row = row])
         /\ [i EXCEPT !.row = row].row = row
         /\ Rowed(i, [i EXCEPT !.row = row, !.extension = extension])
         /\ [i EXCEPT !.row = row, !.extension = extension].row = row
         /\ Rowed(i, [i EXCEPT !.row = row, !.group = group, !.extension = extension])
         /\ [i EXCEPT !.row = row, !.group = group, !.extension = extension].row = row
BY DEF Rowed, Typed, Fields

LEMMA Grouped ==
  ASSUME NEW i, Typed(i), NEW table, NEW group
  PROVE  /\ Rowed(i, Group(i, table, group))
         /\ Group(i, table, group).aborted \/ Group(i, table, group).row = table[reg(i)]
<1>1. CASE INVALID(table[reg(i)])
  <2>1. Group(i, table, group) = Abort([i EXCEPT !.length = @ + 1])
    BY <1>1 DEF Group
  <2> QED BY <2>1 DEF Abort, Rowed, Typed, Fields
<1>2. CASE ~INVALID(table[reg(i)])
  <2> DEFINE row == table[reg(i)]
             r == reg(i)
  <2>1. Group(i, table, group) = [i EXCEPT !.row = row, !.group = group, !.extension = r]
    BY <1>2 DEF Group
  <2>2. r \in 0..63
    BY RegRange
  <2> HIDE DEF row, r
  <2>3. Group(i, table, group).row = row
    BY <2>1 DEF Typed, Fields
  <2>4. Rowed(i, Group(i, table, group))
    BY <2>1, <2>2 DEF Rowed, Typed, Fields
  <2> QED BY <2>3, <2>4 DEF row, r
<1> QED BY <1>1, <1>2

LEMMA AbortedRow ==
  ASSUME NEW i, Typed(i), NEW c
  PROVE  AbortIf(i, c).row = i.row /\ (c => AbortIf(i, c).aborted)
BY DEF AbortIf, Typed, Fields

LEMMA SSERemoved ==
  ASSUME NEW i, Typed(i)
  PROVE  Rowed(i, SSE_Removed(i))
<1> DEFINE j == Assert_(i, 1337, i.prefixes # <<>>)
           l == [j EXCEPT !.OpcodeLength = 3, !.repeat = "none", !.opSize = FALSE,
                          !.prefixes = IF @ = <<>> THEN @ ELSE Tail(@)]
           m == [l EXCEPT !.OperandSize = 4]
<1>1. Follows(i, j)
  BY Asserting
<1> HIDE DEF j
<1>2. Typed(j) /\ j.address = i.address
  BY <1>1 DEF Follows
<1> DEFINE rest == IF j.prefixes = <<>> THEN j.prefixes ELSE Tail(j.prefixes)
<1>3. rest \in Seq(PrefixBytes) /\ Len(rest) <= X86_MAX_INSTRUCTION_LEN
  BY <1>2 DEF Typed, X86_MAX_INSTRUCTION_LEN
<1>4. l = [j EXCEPT !.OpcodeLength = 3, !.repeat = "none", !.opSize = FALSE, !.prefixes = rest]
  BY <1>2 DEF Typed, Fields
<1> HIDE DEF l, rest
<1>5. Typed(l) /\ l.address = i.address
  BY <1>2, <1>3, <1>4 DEF Typed, Fields
<1>6. Typed(m) /\ m.address = i.address
  BY <1>5 DEF Typed, Fields
<1>7. SSE_Removed(i) \in {l, m}
  BY DEF SSE_Removed, l, j
<1> HIDE DEF m
<1> QED BY <1>5, <1>6, <1>7 DEF Rowed

LEMMA SegmentChecks ==
  ASSUME NEW i, Typed(i)
  PROVE  Follows(i, Check_Segment(i))
<1> DEFINE j == SANITY_CHECK_SEGMENT_OVERRIDE(i)
           segment == IF i.row.type \in {"PUSHF", "POPF", "ENTER", "LEAVE"} THEN "SS" ELSE "CS"
           l == [j EXCEPT !.override = FALSE, !.segment = segment]
<1>1. Follows(i, j)
  BY SegmentChecked
<1>2. Check_Segment(i) \in {i, l}
  BY DEF Check_Segment
<1> HIDE DEF j, segment
<1>3. Follows(j, l)
  BY <1>1, Known DEF Follows, Typed, Fields
<1>4. Follows(i, l)
  BY <1>1, <1>3, Further
<1> HIDE DEF l
<1> QED BY <1>2, <1>4, Same

LEMMA PrefixChecks ==
  ASSUME NEW i, Typed(i)
  PROVE  Follows(i, Check_Prefixes(i))
<1>1. \A c, d : Follows(i, Assert_(AbortIf(i, c), 1683, d))
  <2> TAKE c, d
  <2> DEFINE j == AbortIf(i, c)
  <2>1. Follows(i, j)
    BY Aborting
  <2> HIDE DEF j
  <2>2. Follows(j, Assert_(j, 1683, d))
    BY <2>1, Known, Asserting
  <2> QED BY <2>1, <2>2, Further DEF j
<1>2. ASSUME NEW l, Follows(i, l), NEW b
      PROVE  Follows(i, [l EXCEPT !.opSize = b])
  <2>1. Follows(l, [l EXCEPT !.opSize = b])
    BY <1>2, Known DEF Follows, Typed, Fields
  <2> QED BY <1>2, <2>1, Further
<1> DEFINE
     fpu == i.row.type \in FPU_Types
     IsSize(k) == i.prefixes[k] = PREFIX_OPERAND_SIZE /\ i.row.type \in SIMD_Types \union {"FPU"}
     IsRepeat(k) == i.prefixes[k] \in {PREFIX_REP, PREFIX_REPNE}
     Refused(k) == (IsSize(k) /\ ~i.anomaly) \/ (IsRepeat(k) /\ ~fpu)
     Unmatched(k) == IsRepeat(k) /\ fpu /\ i.repeat = "none"
     Reached(k) == \A n \in 1..(k - 1) : ~Refused(n) /\ ~Unmatched(n)
     listed == DOMAIN i.prefixes
     refuse == \E k \in listed : Reached(k) /\ Refused(k)
     match == \A k \in listed : Reached(k) => ~Unmatched(k)
     l == Assert_(AbortIf(i, refuse), 1683, match)
     size == l.opSize /\ ~\E k \in listed : IsSize(k)
<1>3. Check_Prefixes(i) \in {i, [l EXCEPT !.opSize = size]}
  BY DEF Check_Prefixes
<1>4. Follows(i, l)
  <2> HIDE DEF refuse, match
  <2> QED BY <1>1
<1> HIDE DEF l, size
<1> QED BY <1>2, <1>3, <1>4, Same

LEMMA RepeatChecks ==
  ASSUME NEW i, Typed(i)
  PROVE  Follows(i, Check_Repeat(i))
<1>1. ASSUME NEW c, NEW repeat \in {"none", "rep"}
      PROVE  Follows(i, [AnomalyIf(i, c) EXCEPT !.repeat = repeat])
  <2> DEFINE j == AnomalyIf(i, c)
  <2>1. Follows(i, j)
    BY Anomaly
  <2> HIDE DEF j
  <2>2. Follows(j, [j EXCEPT !.repeat = repeat])
    BY <2>1, Known DEF Follows, Typed, Fields
  <2> QED BY <2>1, <2>2, Further DEF j
<1> DEFINE rep == [AnomalyIf(i, i.repeat = "repne") EXCEPT !.repeat = "rep"]
           none == [AnomalyIf(i, TRUE) EXCEPT !.repeat = "none"]
<1>2. Check_Repeat(i) \in {i, rep, none}
  BY DEF Check_Repeat
<1>3. Follows(i, rep) /\ Follows(i, none)
  <2> DEFINE c == i.repeat = "repne"
             t == TRUE
  <2> HIDE DEF c, t
  <2>1. Follows(i, [AnomalyIf(i, c) EXCEPT !.repeat = "rep"])
    BY <1>1
  <2>2. Follows(i, [AnomalyIf(i, t) EXCEPT !.repeat = "none"])
    BY <1>1
  <2> QED BY <2>1, <2>2 DEF c, t
<1> HIDE DEF rep, none
<1> QED BY <1>2, <1>3, Same

LEMMA UnusedChecks ==
  ASSUME NEW i, Typed(i)
  PROVE  Follows(i, Branch_Hints(Unusual_Segment(Unused_Prefixes(i))))
<1>1. ASSUME NEW j, Typed(j) PROVE Follows(j, Unused_Prefixes(j))
  BY <1>1, Same DEF Unused_Prefixes, AnomalyIf, Follows, Typed, Fields
<1>2. ASSUME NEW j, Typed(j) PROVE Follows(j, Unusual_Segment(j))
  BY <1>2, Anomaly DEF Unusual_Segment
<1>3. ASSUME NEW j, Typed(j) PROVE Follows(j, Branch_Hints(j))
  BY <1>3, Same DEF Branch_Hints, AnomalyIf, Follows, Typed, Fields
<1> DEFINE a == Unused_Prefixes(i)
           b == Unusual_Segment(a)
           c == Branch_Hints(b)
<1>4. Follows(i, a)
  BY <1>1
<1> HIDE DEF a
<1>5. Follows(a, b)
  BY <1>2, <1>4, Known
<1> HIDE DEF b
<1>6. Follows(b, c)
  BY <1>3, <1>5, Known
<1> HIDE DEF c
<1>7. Follows(i, c)
  BY <1>4, <1>5, <1>6, Further
<1> QED BY <1>7 DEF a, b, c

(* j follows from i without a byte more. *)
Stands(i, j) == Follows(i, j) /\ j.length = i.length

LEMMA AssertingStands ==
  ASSUME NEW i, Typed(i), NEW line, NEW c
  PROVE  Stands(i, Assert_(i, line, c)) /\ Assert_(i, line, c).operands = i.operands
<1>1. Follows(i, Assert_(i, line, c))
  BY Asserting
<1> QED BY <1>1 DEF Stands, Assert_, Fail, Typed, Fields

LEMMA SetScale ==
  ASSUME NEW i, Typed(i), NEW scale \in Nat
  PROVE  Stands(i, [i EXCEPT !.scale = scale])
BY DEF Stands, Follows, Typed, Fields

LEMMA ScaleRange ==
  ASSUME NEW i, Typed(i), NEW k \in 1..3
  PROVE  Scale(i, k) \in Nat
BY DEF Scale, Typed

LEMMA BranchStands ==
  ASSUME NEW i, Typed(i)
  PROVE  Stands(i, CodeBranch(i))
<1> DEFINE line == IF i.row.type = "CALL" THEN 2214 ELSE 2172
           h == [i EXCEPT !.scale = Scale(i, 1)]
           c == tmpScale(i, 1) <= 16
           j == Assert_(h, line, c)
           d == i.row.type = "CALL" => j.scale > 1
           l == Assert_(j, 2216, d)
<1>1. Stands(i, h)
  BY SetScale, ScaleRange
<1>2. CodeBranch(i) \in {i, l}
  BY DEF CodeBranch
<1> HIDE DEF h, c, line
<1>3. Stands(h, j)
  BY <1>1, AssertingStands DEF Stands, Follows
<1> HIDE DEF j, d
<1>4. Stands(j, l)
  BY <1>3, AssertingStands DEF Stands, Follows
<1>5. Stands(i, l)
  BY <1>1, <1>3, <1>4, Further DEF Stands
<1> HIDE DEF l
<1> QED BY <1>2, <1>5, Same DEF Stands

LEMMA DataStands ==
  ASSUME NEW i, Typed(i), NEW k \in 1..3
  PROVE  Stands(i, DataReference(i, k))
<1> DEFINE o == i.operands[k]
           c1 == i.scale = 0 => o.length <= \hFF
           j == Assert_(i, 2303, c1)
           c2 == i.fullDisplacement
           l == Assert_(j, 2309, c2)
           c3 == o.dst => tmpScale(i, k) <= 16
           d == Assert_(l, 2313, c3)
           c4 == o.src => tmpScale(i, k) <= 16
           e == Assert_(d, 2323, c4)
           scale == Scale(i, k)
           f == [e EXCEPT !.scale = scale]
<1> HIDE DEF c1, c3, c4
<1>1. Stands(i, j)
  BY AssertingStands
<1> HIDE DEF j, c2
<1>2. Stands(j, l)
  BY <1>1, AssertingStands DEF Stands, Follows
<1> HIDE DEF l
<1>3. Stands(l, d)
  BY <1>2, AssertingStands DEF Stands, Follows
<1> HIDE DEF d
<1>4. Stands(d, e)
  BY <1>3, AssertingStands DEF Stands, Follows
<1>5. scale \in Nat
  BY ScaleRange
<1> HIDE DEF e, scale
<1>6. Stands(e, f)
  BY <1>4, <1>5, SetScale DEF Stands, Follows
<1>7. Stands(i, f)
  BY <1>1, <1>2, <1>3, <1>4, <1>6, Further DEF Stands
<1>8. DataReference(i, k) \in {i, f}
  BY DEF DataReference, j, l, d, e, f, c1, c2, c3, c4, scale
<1> HIDE DEF f
<1> QED BY <1>7, <1>8, Same DEF Stands

-----------------------------------------------------------------------------
(* The inductive invariant. *)

SkipInv ==
  /\ code \in Seq(Byte)
  /\ dwRet \in Nat /\ dwRet < dwMinLen + X86_MAX_INSTRUCTION_LEN
  /\ pc # "done" => dwRet < dwMinLen
  /\ pc \in Parts

(* Until the opcode is found, what has been read of the instruction is     *)
(* prefixes.                                                               *)
PrefixInv ==
  pc = "opcode" =>
    /\ ins.length \in Nat /\ ins.next = dwRet + ins.length
    /\ \A k \in 0..(ins.length - 1) : At(code, dwRet + k) \in PrefixBytes

(* The row of an instruction that leaves the straight line has a type that *)
(* DisassembleAndSkip stops at.                                            *)
RowInv ==
  /\ pc = "suffix" => ~ControlTransfer(code, dwRet)
  /\ pc \in {"check", "operands", "post", "references", "decoded"} =>
       (ControlTransfer(code, dwRet) => ins.row.type \in Stops)

LengthInv ==
  pc \in {"references", "decoded"} => ins.length \in 1..X86_MAX_INSTRUCTION_LEN

MovedInv ==
  /\ moved \in Seq([at : Nat, length : Nat])
  /\ \A k \in DOMAIN moved : ~ControlTransfer(code, moved[k].at)

DecodeInv == SkipInv /\ Typed(ins) /\ PrefixInv /\ RowInv /\ LengthInv /\ MovedInv

Decoding == {"check", "operands", "post", "references", "decoded"}

LEMMA PartsAre ==
  Parts = {"opcode", "suffix", "check", "operands", "post", "references", "decoded", "aborted",
           "failed", "done"}
<1>1. DOMAIN Order = 1..10
  BY DEF Order
<1> QED BY <1>1 DEF Parts, Order

LEMMA Starting ==
  ASSUME NEW address \in Nat
  PROVE  /\ Typed(X86_InitInstruction(address))
         /\ X86_InitInstruction(address).length = 0
         /\ X86_InitInstruction(address).next = address
BY DEF Typed, X86_InitInstruction, Fields, OperandFields, NoOperand, NoModRM, X86_MAX_INSTRUCTION_LEN

LEMMA InitDecodes == Init => DecodeInv
<1> SUFFICES ASSUME Init PROVE DecodeInv
  OBVIOUS
<1>1. code \in Seq(Byte) /\ dwRet = 0 /\ pc = "opcode" /\ moved = <<>>
  BY TextsAssumption DEF Init
<1>2. SkipInv
  BY <1>1, PartsAre, MinLenAssumption DEF SkipInv, X86_MAX_INSTRUCTION_LEN
<1>3. Typed(ins) /\ ins.length = 0 /\ ins.next = 0
  BY Starting DEF Init
<1>4. PrefixInv /\ RowInv /\ LengthInv /\ MovedInv
  BY <1>1, <1>3 DEF PrefixInv, RowInv, LengthInv, MovedInv
<1> QED BY <1>2, <1>3, <1>4 DEF DecodeInv

(* What is read where the opcode stands. *)
LEMMA Reading ==
  ASSUME DecodeInv, pc = "opcode"
  PROVE  /\ code \in Seq(Byte) /\ ins.next \in Nat /\ Opcode \in Byte /\ Opcode2 \in Byte
         /\ Opcode \notin PrefixBytes /\ ControlTransfer(code, dwRet) =>
              \/ Opcode \in Straight
              \/ Opcode = \hFF /\ (At(code, ins.next + 1) \div 8) % 8 \in 2..5
              \/ Opcode = TWO_BYTE_OPCODE /\ Opcode2 \in \h80..\h8F
<1>1. code \in Seq(Byte) /\ dwRet \in Nat /\ ins.length \in Nat /\ ins.next = dwRet + ins.length
  BY DEF DecodeInv, SkipInv, PrefixInv
<1>2. \A k \in 0..(ins.length - 1) : At(code, dwRet + k) \in PrefixBytes
  BY DEF DecodeInv, PrefixInv
<1>3. ins.next \in Nat /\ ins.next + 1 \in Nat /\ ins.next + 1 = dwRet + ins.length + 1
  BY <1>1
<1>4. Opcode = At(code, dwRet + ins.length) /\ Opcode2 = At(code, dwRet + ins.length + 1)
  BY <1>1, <1>3 DEF Opcode, Opcode2
<1>5. Opcode \in Byte /\ Opcode2 \in Byte
  BY <1>1, <1>3, AtByte DEF Opcode, Opcode2
<1>6. ASSUME Opcode \notin PrefixBytes, ControlTransfer(code, dwRet)
      PROVE  \/ Opcode \in Straight
             \/ Opcode = \hFF /\ (At(code, ins.next + 1) \div 8) % 8 \in 2..5
             \/ Opcode = TWO_BYTE_OPCODE /\ Opcode2 \in \h80..\h8F
  <2> DEFINE n == ins.length
  <2>1. n \in Nat /\ Prefixed(code, dwRet, n)
    BY <1>1, <1>2, <1>4, <1>6 DEF Prefixed
  <2> HIDE DEF n
  <2>2. \/ At(code, dwRet + n) \in Straight
        \/ At(code, dwRet + n) = \hFF /\ (At(code, dwRet + n + 1) \div 8) % 8 \in 2..5
        \/ At(code, dwRet + n) = \h0F /\ At(code, dwRet + n + 1) \in \h80..\h8F
    BY <1>1, <1>6, <2>1, Transfers
  <2> QED BY <2>2, <1>3, <1>4 DEF n, TWO_BYTE_OPCODE
<1> QED BY <1>1, <1>3, <1>5, <1>6

(* Of a part that leaves code, dwRet and moved alone. *)
LEMMA Continued ==
  ASSUME DecodeInv, pc # "done", NEW i, NEW next \in Decoding, Continue(i, next), Typed(i),
         (~i.aborted /\ ControlTransfer(code, dwRet)) => i.row.type \in Stops,
         next \in {"references", "decoded"} /\ ~i.aborted => i.length \in 1..X86_MAX_INSTRUCTION_LEN
  PROVE  DecodeInv'
<1>1. /\ ins' = i /\ code' = code /\ dwRet' = dwRet /\ moved' = moved
      /\ pc' \in {"failed", "aborted", next} /\ (pc' = next => ~i.aborted)
      /\ pc' \in {"failed", "aborted"} \/ pc' = next
  BY DEF Continue, Decoding
<1>2. pc' # "done" /\ pc' # "opcode" /\ pc' # "suffix" /\ pc' \in Parts
  BY <1>1, PartsAre DEF Decoding
<1>3. SkipInv'
  BY <1>1, <1>2 DEF DecodeInv, SkipInv
<1>4. Typed(ins)'
  BY <1>1 DEF Typed
<1>5. PrefixInv'
  BY <1>2 DEF PrefixInv
<1>6. RowInv'
  BY <1>1, <1>2 DEF RowInv
<1>7. LengthInv'
  BY <1>1 DEF LengthInv
<1>8. MovedInv'
  BY <1>1 DEF DecodeInv, MovedInv
<1> QED BY <1>3, <1>4, <1>5, <1>6, <1>7, <1>8 DEF DecodeInv

LEMMA PrefixRead ==
  ASSUME DecodeInv, Prefix
  PROVE  /\ Typed(ins') /\ ins'.length = ins.length + 1 /\ ins'.next = ins.next + 1
         /\ Opcode \in PrefixBytes
         /\ code' = code /\ dwRet' = dwRet /\ moved' = moved
         /\ pc = "opcode" /\ pc' \in {"failed", "aborted", "opcode"}
         /\ ins'.address = ins.address /\ ins'.group = ins.group
         /\ ins'.dstAddressing = ins.dstAddressing /\ ins'.operands = ins.operands
         /\ ins.lock \/ Opcode = \hF0 => ins'.lock
<1>1. pc = "opcode" /\ IsPrefix(Opcode) /\ Typed(ins)
  BY DEF Prefix, DecodeInv
<1>2. Opcode \in PrefixBytes
  BY <1>1, Reading, PrefixRows DEF IsPrefix
<1> DEFINE read == INSTR_INC(ins, 1)
           listed == Listed(ins, Opcode)
           noted == AnomalyIf(read, listed)
           felt == Prefix_Effect(noted, Opcode)
           i == Prefix_Add(felt, Opcode)
<1> HIDE DEF listed
<1>3. Continue(i, "opcode")
  BY DEF Prefix, listed
<1>4. Follows(ins, read)
  BY <1>1, Inc
<1>5. /\ read.length = ins.length + 1 /\ read.next = ins.next + 1
      /\ read.dstAddressing = ins.dstAddressing /\ read.operands = ins.operands
  BY <1>1 DEF INSTR_INC, Typed, Fields
<1> HIDE DEF read
<1>6. Typed(read)
  BY <1>4, Known
<1>7. Stays(read, noted)
  BY <1>6, Staying
<1> HIDE DEF noted
<1>8. Stays(noted, felt) /\ (Opcode = \hF0 => felt.lock)
  BY <1>7, PrefixEffect DEF Stays
<1> HIDE DEF felt
<1>9. Stays(felt, i)
  BY <1>2, <1>8, PrefixAdded DEF Stays
<1> HIDE DEF i
<1>10. Stays(read, i)
  BY <1>7, <1>8, <1>9, StaysOn
<1>11. /\ ins' = i /\ code' = code /\ dwRet' = dwRet /\ moved' = moved
       /\ pc' \in {"failed", "aborted", "opcode"}
  BY <1>3 DEF Continue
<1>12. Typed(i) /\ i.length = ins.length + 1 /\ i.next = ins.next + 1
  BY <1>5, <1>10 DEF Stays
<1>13. /\ i.address = ins.address /\ i.group = ins.group
       /\ i.dstAddressing = ins.dstAddressing /\ i.operands = ins.operands
  BY <1>4, <1>5, <1>10 DEF Stays, Follows
<1>14. ins.lock \/ Opcode = \hF0 => i.lock
  BY <1>4, <1>8, <1>9, <1>10 DEF Stays, Follows
<1> QED BY <1>1, <1>2, <1>11, <1>12, <1>13, <1>14

LEMMA PrefixStep == DecodeInv /\ Prefix => DecodeInv'
<1> SUFFICES ASSUME DecodeInv, Prefix PROVE DecodeInv'
  OBVIOUS
<1>1. /\ Typed(ins') /\ ins'.length = ins.length + 1 /\ ins'.next = ins.next + 1
      /\ Opcode \in PrefixBytes
      /\ code' = code /\ dwRet' = dwRet /\ moved' = moved
      /\ pc = "opcode" /\ pc' \in {"failed", "aborted", "opcode"}
  BY PrefixRead
<1>2. SkipInv'
  BY <1>1, PartsAre DEF DecodeInv, SkipInv
<1>3. Typed(ins)'
  BY <1>1 DEF Typed
<1>4. PrefixInv'
  <2> DEFINE n == ins.length
             m == ins'.length
  <2>1. /\ code \in Seq(Byte) /\ dwRet \in Nat /\ n \in Nat /\ ins.next = dwRet + n
        /\ \A k \in 0..(n - 1) : At(code, dwRet + k) \in PrefixBytes
    BY <1>1 DEF DecodeInv, SkipInv, PrefixInv
  <2>2. m = n + 1 /\ m \in Nat
    BY <2>1, <1>1
  <2>3. ins'.next = dwRet + m
    BY <2>1, <2>2, <1>1
  <2>4. \A k \in 0..(m - 1) : At(code, dwRet + k) \in PrefixBytes
    <3> TAKE k \in 0..(m - 1)
    <3>1. k \in 0..(n - 1) \/ k = n
      BY <2>1, <2>2
    <3>2. At(code, dwRet + n) \in PrefixBytes
      BY <2>1, <1>1 DEF Opcode
    <3> QED BY <2>1, <3>1, <3>2
  <2> QED BY <1>1, <2>2, <2>3, <2>4 DEF PrefixInv, At
<1>5. RowInv' /\ LengthInv'
  BY <1>1 DEF RowInv, LengthInv
<1>6. MovedInv'
  BY <1>1 DEF DecodeInv, MovedInv
<1> QED BY <1>2, <1>3, <1>4, <1>5, <1>6 DEF DecodeInv

(* What an opcode's type says of it. *)
LEMMA Recognised ==
  ASSUME DecodeInv, pc = "opcode", ~IsPrefix(Opcode), ControlTransfer(code, dwRet)
  PROVE  \/ Opcode # TWO_BYTE_OPCODE /\ X86_Opcodes_1[Opcode].type \in Stops
         \/ /\ Opcode = \hFF /\ X86_Opcodes_1[Opcode].type = "GROUP"
            /\ (At(code, ins.next + 1) \div 8) % 8 \in 2..5
         \/ /\ Opcode = TWO_BYTE_OPCODE /\ Opcode2 \in \h80..\h8F
            /\ X86_Opcodes_2[Opcode2].type = "BRANCHCC"
            /\ INVALID(X86_SSE(PREFIX_OPERAND_SIZE)[Opcode2])
<1>1. Opcode \in Byte /\ Opcode2 \in Byte /\ Opcode \notin PrefixBytes
  BY Reading, PrefixRows DEF IsPrefix
<1>2. CASE Opcode \in Straight
  BY <1>1, <1>2, TransferRows DEF TWO_BYTE_OPCODE, Straight
<1>3. CASE Opcode = \hFF /\ (At(code, ins.next + 1) \div 8) % 8 \in 2..5
  BY <1>3, IndirectRows
<1>4. CASE Opcode = TWO_BYTE_OPCODE /\ Opcode2 \in \h80..\h8F
  BY <1>4, ConditionalRows DEF INVALID
<1> QED BY <1>1, <1>2, <1>3, <1>4, Reading

LEMMA Escape0F == X86_Opcodes_1[TWO_BYTE_OPCODE].type = "PLAIN"
<1>1. Opcodes_1_low[\h0F] = NOARGS
  BY DEF Opcodes_1_low
<1> QED BY <1>1, Blocks, RowTypes DEF TWO_BYTE_OPCODE, Byte

LEMMA OneByteStep == DecodeInv /\ OneByteOpcode => DecodeInv'
<1> SUFFICES ASSUME DecodeInv, OneByteOpcode PROVE DecodeInv'
  OBVIOUS
<1>1. /\ pc = "opcode" /\ Typed(ins) /\ ~IsPrefix(Opcode) /\ Opcode # TWO_BYTE_OPCODE
      /\ X86_Opcodes_1[Opcode].type # "GROUP"
  BY DEF OneByteOpcode, DecodeInv
<1> DEFINE j == OneByte(ins)
           invalid == INVALID(X86_Opcodes_1[Opcode])
           i == AbortIf(j, invalid)
<1>2. Continue(i, "check")
  BY DEF OneByteOpcode
<1>3. Typed(j) /\ j.row = X86_Opcodes_1[Opcode]
  BY <1>1, Reading, Coded
<1> HIDE DEF j, invalid
<1>4. Typed(i) /\ i.row = X86_Opcodes_1[Opcode]
  BY <1>3, Aborting, AbortedRow DEF Follows
<1>5. ControlTransfer(code, dwRet) => i.row.type \in Stops
  BY <1>1, <1>4, Recognised
<1> HIDE DEF i
<1> QED BY <1>1, <1>2, <1>4, <1>5, Continued DEF Decoding

LEMMA OneByteGroupStep == DecodeInv /\ OneByteGroup => DecodeInv'
<1> SUFFICES ASSUME DecodeInv, OneByteGroup PROVE DecodeInv'
  OBVIOUS
<1>1. /\ pc = "opcode" /\ Typed(ins) /\ X86_Opcodes_1[Opcode].type = "GROUP"
  BY DEF OneByteGroup, DecodeInv
<1> DEFINE j == OneByte(ins)
           table == j.row.table
           group == X86_Groups_1[Opcode]
           i == Group(j, table, group)
<1>2. Continue(i, "check")
  BY DEF OneByteGroup
<1>3. /\ Typed(j) /\ j.row = X86_Opcodes_1[Opcode]
      /\ Opcode \in X86_ModRM_1 => j.modrm = At(code, ins.next + 1)
  BY <1>1, Reading, Coded
<1> HIDE DEF j, group
<1>4. Typed(i) /\ (i.aborted \/ i.row = table[reg(j)])
  BY <1>3, Grouped DEF Rowed
<1>5. ASSUME ControlTransfer(code, dwRet), ~i.aborted PROVE i.row.type \in Stops
  <2>1. ~IsPrefix(Opcode) /\ Opcode # TWO_BYTE_OPCODE /\ "GROUP" \notin Stops
    BY <1>1, Escape0F DEF IsPrefix, Stops
  <2>2. Opcode = \hFF /\ (At(code, ins.next + 1) \div 8) % 8 \in 2..5
    BY <1>1, <1>5, <2>1, Recognised
  <2>3. table = X86_Group_5 /\ reg(j) \in 2..5
    BY <1>3, <2>2, IndirectRows DEF reg
  <2> QED BY <1>4, <1>5, <2>3, IndirectRows
<1> HIDE DEF i
<1> QED BY <1>1, <1>2, <1>4, <1>5, Continued DEF Decoding

LEMMA FPUStep == DecodeInv /\ FPU_Extension => DecodeInv'
<1> SUFFICES ASSUME DecodeInv, FPU_Extension PROVE DecodeInv'
  OBVIOUS
<1>1. /\ pc = "opcode" /\ Typed(ins) /\ X86_Opcodes_1[Opcode].type = "EXT_FPU"
  BY DEF FPU_Extension, DecodeInv
<1> DEFINE h == OneByte(ins)
           extension == IF h.modrm < \hC0 THEN reg(h) ELSE h.modrm % 64
           row == h.row.table[IF h.modrm < \hC0 THEN extension ELSE 8 + extension]
           invalid == INVALID(row)
           a == AbortIf(h, invalid)
           j == [a EXCEPT !.row = row, !.extension = extension]
           i == IF row.ops = <<>> /\ ~INVALID(row) THEN INSTR_INC(j, 1) ELSE j
<1>2. Continue(i, "check")
  BY DEF FPU_Extension
<1>3. Typed(h)
  BY <1>1, Reading, Coded
<1> HIDE DEF h
<1>4. extension \in 0..63
  BY <1>3, RegRange
<1> HIDE DEF invalid
<1>5. Typed(a)
  BY <1>3, Aborting, Known
<1> HIDE DEF a, extension, row
<1>6. Typed(j)
  BY <1>4, <1>5, SetRow DEF Rowed
<1> HIDE DEF j
<1>7. Typed(i)
  BY <1>6, Inc, Known
<1>8. ~ControlTransfer(code, dwRet)
  <2>1. ~IsPrefix(Opcode) /\ Opcode # TWO_BYTE_OPCODE /\ "EXT_FPU" \notin Stops
    BY <1>1, Escape0F DEF IsPrefix, Stops
  <2> QED BY <1>1, <2>1, Recognised
<1> HIDE DEF i
<1> QED BY <1>1, <1>2, <1>7, <1>8, Continued DEF Decoding

(* Where the second byte of an opcode is read. *)
LEMMA Escaping ==
  ASSUME DecodeInv, Escaped
  PROVE  /\ pc = "opcode" /\ pc # "done" /\ Typed(TwoByte(ins))
         /\ TwoByte(ins).row = X86_Opcodes_2[Opcode2]
         /\ TwoByte(ins).next = ins.next + 2 /\ ins.next \in Nat
         /\ ControlTransfer(code, dwRet) =>
              /\ Opcode2 \in \h80..\h8F
              /\ X86_Opcodes_2[Opcode2].type = "BRANCHCC"
              /\ INVALID(X86_SSE(PREFIX_OPERAND_SIZE)[Opcode2])
<1>1. pc = "opcode" /\ Opcode = TWO_BYTE_OPCODE /\ Typed(ins)
  BY DEF Escaped, DecodeInv
<1>2. ~IsPrefix(Opcode) /\ TWO_BYTE_OPCODE # \hFF
  BY <1>1, Escape0F DEF IsPrefix, TWO_BYTE_OPCODE
<1> QED BY <1>1, <1>2, Reading, Coded2, Recognised

LEMMA InvalidTwoByteStep == DecodeInv /\ InvalidTwoByteOpcode => DecodeInv'
<1> SUFFICES ASSUME DecodeInv, InvalidTwoByteOpcode PROVE DecodeInv'
  OBVIOUS
<1>1. Escaped
  BY DEF InvalidTwoByteOpcode
<1> DEFINE j == TwoByte(ins)
           i == Abort(j)
<1>2. Continue(i, "check")
  BY DEF InvalidTwoByteOpcode
<1>3. Typed(j)
  BY <1>1, Escaping
<1> HIDE DEF j
<1>4. Typed(i) /\ i.aborted
  BY <1>3 DEF Abort, Typed, Fields
<1> HIDE DEF i
<1> QED BY <1>1, <1>2, <1>4, Continued, Escaping DEF Decoding

LEMMA TwoByteStep == DecodeInv /\ TwoByteOpcode => DecodeInv'
<1> SUFFICES ASSUME DecodeInv, TwoByteOpcode PROVE DecodeInv'
  OBVIOUS
<1>1. Escaped
  BY DEF TwoByteOpcode
<1> DEFINE i == TwoByte(ins)
<1>2. Continue(i, "check")
  BY DEF TwoByteOpcode
<1>3. Typed(i) /\ i.row = X86_Opcodes_2[Opcode2]
  BY <1>1, Escaping
<1>4. ControlTransfer(code, dwRet) => i.row.type \in Stops
  BY <1>1, <1>3, Escaping DEF Stops
<1> HIDE DEF i
<1> QED BY <1>1, <1>2, <1>3, <1>4, Continued, Escaping DEF Decoding

LEMMA TwoByteGroupStep == DecodeInv /\ TwoByteGroup => DecodeInv'
<1> SUFFICES ASSUME DecodeInv, TwoByteGroup PROVE DecodeInv'
  OBVIOUS
<1>1. Escaped /\ X86_Opcodes_2[Opcode2].type = "GROUP"
  BY DEF TwoByteGroup
<1> DEFINE j == TwoByte(ins)
           table == j.row.table
           group == X86_Groups_2[Opcode2]
           i == Group(j, table, group)
<1>2. Continue(i, "check")
  BY DEF TwoByteGroup
<1>3. Typed(j)
  BY <1>1, Escaping
<1> HIDE DEF j, table, group
<1>4. Typed(i)
  BY <1>3, Grouped DEF Rowed
<1>5. ~ControlTransfer(code, dwRet)
  BY <1>1, Escaping
<1> HIDE DEF i
<1> QED BY <1>1, <1>2, <1>4, <1>5, Continued, Escaping DEF Decoding

LEMMA SSEStep == DecodeInv /\ SSE => DecodeInv'
<1> SUFFICES ASSUME DecodeInv, SSE PROVE DecodeInv'
  OBVIOUS
<1>1. Escaped /\ IsSSE
  BY DEF SSE
<1> DEFINE h == TwoByte(ins)
           m == SSE_Removed(h)
           modrm == Opcode2 \in X86_ModRM_2
           i == Assert_(m, 1360, modrm)
           row == X86_SSE(ins.ssePrefix)[Opcode2]
           r == reg(i)
           extended == row.table[r]
           group == X86_Groups_2[Opcode2]
           invalid == INVALID(extended)
           a == Abort(i)
           g == [i EXCEPT !.row = extended, !.group = group, !.extension = r]
           b == AbortIf(g, invalid)
           c == [i EXCEPT !.row = row]
<1>2. \E l \in {a, b, c} : Continue(l, "check")
  <2>1. CASE INVALID(row)
    <3>1. Continue(a, "check")
      BY <2>1 DEF SSE, INVALID
    <3> QED BY <3>1
  <2>2. CASE ~INVALID(row) /\ row.type = "GROUP"
    <3>1. Continue(b, "check")
      BY <2>2 DEF SSE, INVALID
    <3> QED BY <3>1
  <2>3. CASE ~INVALID(row) /\ row.type # "GROUP"
    <3>1. Continue(c, "check")
      BY <2>3 DEF SSE, INVALID
    <3> QED BY <3>1
  <2> QED BY <2>1, <2>2, <2>3
<1>3. Typed(h)
  BY <1>1, Escaping
<1> HIDE DEF h
<1>4. Typed(m)
  BY <1>3, SSERemoved DEF Rowed
<1> HIDE DEF m, modrm
<1>5. Typed(i)
  BY <1>4, Asserting, Known
<1> HIDE DEF i, row
<1>6. r \in 0..63
  BY <1>5, RegRange
<1> HIDE DEF r, group, extended, invalid
<1>7. Typed(a)
  BY <1>5, Aborted, Known
<1>8. Typed(g)
  BY <1>5, <1>6, SetRow DEF Rowed
<1>9. Typed(c)
  <2>1. 0 \in 0..63
    OBVIOUS
  <2> QED BY <1>5, <2>1, SetRow DEF Rowed
<1> HIDE DEF a, g, c
<1>10. Typed(b)
  BY <1>8, Aborting, Known
<1> HIDE DEF b
<1>11. ~ControlTransfer(code, dwRet)
  BY <1>1, Escaping DEF IsSSE
<1>12. PICK l \in {a, b, c} : Continue(l, "check")
  BY <1>2
<1>13. Typed(l)
  BY <1>7, <1>9, <1>10, <1>12
<1> QED BY <1>1, <1>11, <1>12, <1>13, Continued, Escaping DEF Decoding

LEMMA ModRMStep == DecodeInv /\ ModRM_Extension => DecodeInv'
<1> SUFFICES ASSUME DecodeInv, ModRM_Extension PROVE DecodeInv'
  OBVIOUS
<1>1. Escaped /\ X86_Opcodes_2[Opcode2].type = "EXT_MODRM"
  BY DEF ModRM_Extension
<1> DEFINE i == TwoByte(ins)
           row == i.row.table[i.modrm]
           table == row.table
           group == X86_Groups_2[Opcode2]
           a == Abort(i)
           b == Group(i, table, group)
           c == [i EXCEPT !.row = row]
           d == INSTR_INC(c, 1)
<1>2. \E l \in {a, b, c, d} : Continue(l, "check")
  <2>1. CASE INVALID(row)
    <3>1. Continue(a, "check")
      BY <2>1 DEF ModRM_Extension, INVALID
    <3> QED BY <3>1
  <2>2. CASE ~INVALID(row) /\ row.type = "GROUP"
    <3>1. Continue(b, "check")
      BY <2>2 DEF ModRM_Extension, INVALID
    <3> QED BY <3>1
  <2>3. CASE ~INVALID(row) /\ row.type # "GROUP" /\ row.ops = <<>>
    <3>1. Continue(d, "check")
      BY <2>3 DEF ModRM_Extension, INVALID
    <3> QED BY <3>1
  <2>4. CASE ~INVALID(row) /\ row.type # "GROUP" /\ row.ops # <<>>
    <3>1. Continue(c, "check")
      BY <2>4 DEF ModRM_Extension, INVALID
    <3> QED BY <3>1
  <2> QED BY <2>1, <2>2, <2>3, <2>4
<1>3. Typed(i)
  BY <1>1, Escaping
<1> HIDE DEF i, row, table, group
<1>4. Typed(a)
  BY <1>3, Aborted, Known
<1>5. Typed(b)
  BY <1>3, Grouped DEF Rowed
<1>6. Typed(c)
  <2>1. 0 \in 0..63
    OBVIOUS
  <2> QED BY <1>3, <2>1, SetRow DEF Rowed
<1> HIDE DEF a, b, c
<1>7. Typed(d)
  BY <1>6, Inc, Known
<1> HIDE DEF d
<1>8. ~ControlTransfer(code, dwRet)
  BY <1>1, Escaping
<1>9. PICK l \in {a, b, c, d} : Continue(l, "check")
  BY <1>2
<1>10. Typed(l)
  BY <1>4, <1>5, <1>6, <1>7, <1>9
<1> QED BY <1>1, <1>8, <1>9, <1>10, Continued, Escaping DEF Decoding

LEMMA SuffixOperandsStep == DecodeInv /\ Suffix_Operands => DecodeInv'
<1> SUFFICES ASSUME DecodeInv, Suffix_Operands PROVE DecodeInv'
  OBVIOUS
<1>1. Escaped /\ X86_Opcodes_2[Opcode2].type = "EXT_SUFFIX"
  BY DEF Suffix_Operands
<1> DEFINE i == TwoByte(ins)
           t == TRUE
           a == AnomalyIf(i, t)
           p == [a EXCEPT !.opSize = FALSE, !.OperandSize = 4]
           plain == IF i.opSize THEN p ELSE i
           told == plain.next = plain.address + plain.length
           j == Assert_(plain, 1591, told)
           s == SetOperands(j, code)
           l == [s EXCEPT !.next = ins.next + 2]
<1>2. Continue(l, "suffix")
  BY DEF Suffix_Operands
<1>3. Typed(i) /\ ins.next \in Nat
  BY <1>1, Escaping
<1> HIDE DEF i, t
<1>4. Typed(a)
  BY <1>3, Anomaly, Known
<1> HIDE DEF a
<1>5. Typed(p)
  BY <1>4 DEF Typed, Fields
<1> HIDE DEF p
<1>6. Typed(plain)
  BY <1>3, <1>5
<1> HIDE DEF plain, told
<1>7. Typed(j)
  BY <1>6, Asserting, Known
<1> HIDE DEF j
<1>8. Typed(s)
  <2>1. code \in Seq(Byte)
    BY DEF DecodeInv, SkipInv
  <2> QED BY <1>7, <2>1, AllOperands, Known
<1> HIDE DEF s
<1>9. Typed(l)
  BY <1>3, <1>8 DEF Typed, Fields
<1> HIDE DEF l
<1>10. ~ControlTransfer(code, dwRet)
  BY <1>1, Escaping
<1>11. /\ ins' = l /\ code' = code /\ dwRet' = dwRet /\ moved' = moved
       /\ pc' \in {"failed", "aborted", "suffix"}
  BY <1>2 DEF Continue
<1>12. SkipInv'
  BY <1>1, <1>11, PartsAre DEF DecodeInv, SkipInv, Escaped
<1>13. Typed(ins)'
  BY <1>9, <1>11 DEF Typed
<1>14. PrefixInv' /\ LengthInv'
  BY <1>11 DEF PrefixInv, LengthInv
<1>15. RowInv'
  BY <1>10, <1>11 DEF RowInv
<1>16. MovedInv'
  BY <1>11 DEF DecodeInv, MovedInv
<1> QED BY <1>12, <1>13, <1>14, <1>15, <1>16 DEF DecodeInv

LEMMA SuffixStep == DecodeInv /\ Suffix_Extension => DecodeInv'
<1> SUFFICES ASSUME DecodeInv, Suffix_Extension PROVE DecodeInv'
  OBVIOUS
<1>1. pc = "suffix" /\ Typed(ins) /\ ~ControlTransfer(code, dwRet)
  BY DEF Suffix_Extension, DecodeInv, RowInv
<1> DEFINE row == ins.row.table[At(code, ins.address + ins.length)]
           invalid == INVALID(row)
           a == AbortIf(ins, invalid)
           i == [a EXCEPT !.row = row, !.OpcodeLength = 3, !.length = @ + 1]
           long == invalid \/ i.length >= 4 + Len(i.prefixes)
           j == Assert_(i, 1603, long)
<1>2. Continue(j, "check")
  BY DEF Suffix_Extension
<1> HIDE DEF invalid, row
<1>3. Typed(a)
  BY <1>1, Aborting, Known
<1> HIDE DEF a
<1>4. Typed(i)
  BY <1>3 DEF Typed, Fields
<1> HIDE DEF i, long
<1>5. Typed(j)
  BY <1>4, Asserting, Known
<1> HIDE DEF j
<1> QED BY <1>1, <1>2, <1>5, Continued DEF Decoding

LEMMA Extension64Step == DecodeInv /\ Extension_64 => DecodeInv'
<1> SUFFICES ASSUME DecodeInv, Extension_64 PROVE DecodeInv'
  OBVIOUS
<1>1. pc = "opcode" /\ Typed(ins)
  BY DEF Extension_64, Escaped, DecodeInv
<1> DEFINE i == IF Opcode = TWO_BYTE_OPCODE THEN TwoByte(ins) ELSE OneByte(ins)
           row == i.row.table[1]
           j == [i EXCEPT !.row = row]
<1>2. Continue(j, "check")
  <2>1. j = [i EXCEPT !.row = @.table[1]]
    <3>1. Typed(i)
      <4>1. Typed(OneByte(ins)) /\ Typed(TwoByte(ins))
        BY <1>1, Reading, Coded, Coded2
      <4> QED BY <4>1
    <3> HIDE DEF i
    <3> QED BY <3>1 DEF Typed, Fields
  <2> QED BY <2>1 DEF Extension_64
<1>3. Typed(i)
  BY <1>1, Reading, Coded, Coded2
<1> HIDE DEF i, row
<1>4. Typed(j)
  BY <1>3 DEF Typed, Fields
<1> HIDE DEF j
<1>5. ~ControlTransfer(code, dwRet)
  <2>1. CASE X86_Opcodes_1[Opcode].type = "EXT_64"
    <3>1. ~IsPrefix(Opcode) /\ Opcode # TWO_BYTE_OPCODE /\ "EXT_64" \notin Stops
      BY <2>1, Escape0F DEF IsPrefix, Stops
    <3> QED BY <1>1, <2>1, <3>1, Recognised
  <2>2. CASE Escaped /\ X86_Opcodes_2[Opcode2].type = "EXT_64"
    BY <2>2, Escaping
  <2> QED BY <2>1, <2>2 DEF Extension_64
<1> QED BY <1>1, <1>2, <1>4, <1>5, Continued DEF Decoding

LEMMA CheckStep == DecodeInv /\ CheckPrefixes => DecodeInv'
<1> SUFFICES ASSUME DecodeInv, CheckPrefixes PROVE DecodeInv'
  OBVIOUS
<1>1. pc = "check" /\ Typed(ins) /\ (ControlTransfer(code, dwRet) => ins.row.type \in Stops)
  BY DEF CheckPrefixes, DecodeInv, RowInv
<1> DEFINE long == ins.row.type = "64BIT"
           i == AbortIf(ins, long)
           s == Check_Segment(i)
           j == Check_Prefixes(s)
           r == Check_Repeat(j)
           l == CASE i.aborted -> i
                  [] ~i.aborted /\ ~Running(j) -> j
                  [] OTHER -> r
<1>2. Continue(l, "operands")
  BY DEF CheckPrefixes
<1> HIDE DEF long
<1>3. Follows(ins, i)
  BY <1>1, Aborting
<1> HIDE DEF i
<1>4. Follows(i, s)
  BY <1>3, Known, SegmentChecks
<1> HIDE DEF s
<1>5. Follows(s, j)
  BY <1>4, Known, PrefixChecks
<1> HIDE DEF j
<1>6. Follows(j, r)
  BY <1>5, Known, RepeatChecks
<1> HIDE DEF r
<1>7. Follows(ins, j) /\ Follows(ins, r)
  BY <1>3, <1>4, <1>5, <1>6, Further
<1>8. l \in {i, j, r}
  OBVIOUS
<1> HIDE DEF l
<1>9. Typed(l) /\ l.row = ins.row
  BY <1>3, <1>7, <1>8 DEF Follows
<1> QED BY <1>1, <1>2, <1>9, Continued DEF Decoding

LEMMA OperandsStep == DecodeInv /\ Operands => DecodeInv'
<1> SUFFICES ASSUME DecodeInv, Operands PROVE DecodeInv'
  OBVIOUS
<1>1. /\ pc = "operands" /\ Typed(ins) /\ code \in Seq(Byte)
      /\ ControlTransfer(code, dwRet) => ins.row.type \in Stops
  BY DEF Operands, DecodeInv, RowInv, SkipInv
<1> DEFINE marked == [k \in 1..3 |-> [ins.operands[k] EXCEPT !.dst = k \in ins.row.dst,
                                                             !.src = k \in ins.row.src,
                                                             !.global = FALSE]]
           i == [ins EXCEPT !.operands = marked]
           j == SetOperands(i, code)
           l == IF ins.row.ops = <<>> THEN ins ELSE j
<1>2. Continue(l, "post")
  <2>1. i = [ins EXCEPT !.operands =
                 [k \in 1..3 |-> [@[k] EXCEPT !.dst = k \in ins.row.dst,
                                              !.src = k \in ins.row.src,
                                              !.global = FALSE]]]
    BY <1>1 DEF Typed, Fields
  <2> QED BY <2>1 DEF Operands
<1>3. \A k \in 1..3 : DOMAIN marked[k] = OperandFields /\ marked[k].length \in Nat
  BY <1>1 DEF Typed, OperandFields
<1>4. DOMAIN marked = 1..3
  OBVIOUS
<1> HIDE DEF marked
<1>5. Typed(i) /\ i.row = ins.row
  BY <1>1, <1>3, <1>4 DEF Typed, Fields
<1> HIDE DEF i
<1>6. Follows(i, j)
  BY <1>1, <1>5, AllOperands
<1> HIDE DEF j
<1>7. Typed(l) /\ l.row = ins.row
  BY <1>1, <1>5, <1>6 DEF Follows
<1> HIDE DEF l
<1> QED BY <1>1, <1>2, <1>7, Continued DEF Decoding

LEMMA PostStep == DecodeInv /\ PostChecks => DecodeInv'
<1> SUFFICES ASSUME DecodeInv, PostChecks PROVE DecodeInv'
  OBVIOUS
<1>1. pc = "post" /\ Typed(ins) /\ (ControlTransfer(code, dwRet) => ins.row.type \in Stops)
  BY DEF PostChecks, DecodeInv, RowInv
<1> DEFINE i == Branch_Hints(Unusual_Segment(Unused_Prefixes(ins)))
           refused == \/ i.lock /\ ~IsValidLockPrefix(i)
                      \/ i.length \notin 1..X86_MAX_INSTRUCTION_LEN
           j == AbortIf(i, refused)
<1>2. Continue(j, "references")
  BY DEF PostChecks
<1>3. Follows(ins, i)
  BY <1>1, UnusedChecks
<1>4. i.length \notin 1..X86_MAX_INSTRUCTION_LEN => refused
  OBVIOUS
<1> HIDE DEF i, refused
<1>5. Typed(i) /\ i.row = ins.row
  BY <1>3 DEF Follows
<1>6. Typed(j) /\ j.row = ins.row /\ j.length = i.length /\ (refused => j.aborted)
  BY <1>5, Staying, AbortedRow DEF Stays
<1>7. ~j.aborted => j.length \in 1..X86_MAX_INSTRUCTION_LEN
  BY <1>4, <1>6
<1> HIDE DEF j
<1> QED BY <1>1, <1>2, <1>6, <1>7, Continued DEF Decoding

LEMMA ReferencesStep == DecodeInv /\ References => DecodeInv'
<1> SUFFICES ASSUME DecodeInv, References PROVE DecodeInv'
  OBVIOUS
<1>1. /\ pc = "references" /\ Typed(ins) /\ ins.length \in 1..X86_MAX_INSTRUCTION_LEN
      /\ ControlTransfer(code, dwRet) => ins.row.type \in Stops
  BY DEF References, DecodeInv, RowInv, LengthInv
<1> DEFINE b == CodeBranch(ins)
           d1 == DataReference(ins, 1)
           d2 == DataReference(d1, 2)
           d3 == DataReference(d2, 3)
           j == IF ins.row.type \in EXEC THEN b ELSE d3
<1>2. Continue(j, "decoded")
  BY DEF References
<1>3. Stands(ins, b)
  BY <1>1, BranchStands
<1>4. Stands(ins, d1)
  BY <1>1, DataStands
<1> HIDE DEF b, d1
<1>5. Stands(d1, d2)
  BY <1>4, DataStands DEF Stands, Follows
<1> HIDE DEF d2
<1>6. Stands(d2, d3)
  BY <1>5, DataStands DEF Stands, Follows
<1> HIDE DEF d3
<1>7. Stands(ins, d3)
  BY <1>4, <1>5, <1>6, Further DEF Stands
<1>8. Stands(ins, j)
  BY <1>3, <1>7
<1> HIDE DEF j
<1>9. Typed(j) /\ j.row = ins.row /\ j.length = ins.length
  BY <1>8 DEF Stands, Follows
<1> QED BY <1>1, <1>2, <1>9, Continued DEF Decoding

LEMMA FailsStep == DecodeInv /\ GetInstructionFails => DecodeInv'
<1> SUFFICES ASSUME DecodeInv, GetInstructionFails PROVE DecodeInv'
  OBVIOUS
<1>1. pc = "aborted" /\ Typed(ins)
  BY DEF GetInstructionFails, DecodeInv
<1> DEFINE short == ins.length < MAX_INSTRUCTION_LENGTH
           i == Assert_(ins, 97, short)
<1>2. /\ ins' = i /\ code' = code /\ dwRet' = dwRet /\ moved' = moved
      /\ pc' \in {"failed", "done"}
  BY DEF GetInstructionFails
<1> HIDE DEF short
<1>3. Typed(i)
  BY <1>1, Asserting, Known
<1> HIDE DEF i
<1>4. SkipInv'
  BY <1>1, <1>2, PartsAre DEF DecodeInv, SkipInv
<1>5. Typed(ins)'
  BY <1>2, <1>3 DEF Typed
<1>6. PrefixInv' /\ RowInv' /\ LengthInv'
  BY <1>2 DEF PrefixInv, RowInv, LengthInv
<1>7. MovedInv'
  BY <1>2 DEF DecodeInv, MovedInv
<1> QED BY <1>4, <1>5, <1>6, <1>7 DEF DecodeInv

LEMMA StopStep == DecodeInv /\ Stop => DecodeInv'
<1> SUFFICES ASSUME DecodeInv, Stop PROVE DecodeInv'
  OBVIOUS
<1>1. /\ ins' = ins /\ code' = code /\ dwRet' = dwRet /\ moved' = moved /\ pc' = "done"
  BY DEF Stop
<1>2. SkipInv'
  BY <1>1, PartsAre DEF DecodeInv, SkipInv
<1>3. Typed(ins)'
  BY <1>1 DEF DecodeInv, Typed
<1>4. PrefixInv' /\ RowInv' /\ LengthInv'
  BY <1>1 DEF PrefixInv, RowInv, LengthInv
<1>5. MovedInv'
  BY <1>1 DEF DecodeInv, MovedInv
<1> QED BY <1>2, <1>3, <1>4, <1>5 DEF DecodeInv

LEMMA SkipStep == DecodeInv /\ Skip => DecodeInv'
<1> SUFFICES ASSUME DecodeInv, Skip PROVE DecodeInv'
  OBVIOUS
<1>1. /\ pc = "decoded" /\ ins.row.type \notin Stops /\ code' = code
      /\ dwRet' = dwRet + ins.length
      /\ moved' = Append(moved, [at |-> dwRet, length |-> ins.length])
      /\ ins' = X86_InitInstruction(dwRet + ins.length)
      /\ pc' = IF dwRet + ins.length < dwMinLen THEN "opcode" ELSE "done"
  BY DEF Skip
<1>2. /\ dwRet \in Nat /\ dwRet < dwMinLen /\ dwMinLen \in Nat
      /\ ins.length \in 1..X86_MAX_INSTRUCTION_LEN
      /\ ~ControlTransfer(code, dwRet)
  BY <1>1, MinLenAssumption DEF DecodeInv, SkipInv, LengthInv, RowInv
<1>3. dwRet' \in Nat /\ dwRet' < dwMinLen + X86_MAX_INSTRUCTION_LEN
  <2> DEFINE n == ins.length
  <2>1. dwRet' = dwRet + n /\ n \in 1..15 /\ dwRet \in Nat /\ dwRet < dwMinLen /\ dwMinLen \in Nat
    BY <1>1, <1>2 DEF X86_MAX_INSTRUCTION_LEN
  <2> HIDE DEF n
  <2> QED BY <2>1 DEF X86_MAX_INSTRUCTION_LEN
<1>4. SkipInv'
  BY <1>1, <1>3, PartsAre DEF DecodeInv, SkipInv
<1>5. Typed(ins') /\ ins'.length = 0 /\ ins'.next = dwRet'
  BY <1>1, <1>3, Starting
<1>6. Typed(ins)'
  BY <1>5 DEF Typed
<1>7. PrefixInv'
  <2>1. ins'.next = dwRet' + ins'.length /\ ins'.length \in Nat
    <3>1. \A d \in Nat : d = d + 0
      OBVIOUS
    <3>2. dwRet' \in Nat
      BY <1>3
    <3>3. dwRet' = dwRet' + 0
      BY <3>1, <3>2
    <3>4. ins'.length = 0 /\ ins'.next = dwRet'
      BY <1>5
    <3>5. ins'.next = dwRet' + ins'.length
      BY <3>3, <3>4, Zenon
    <3>6. ins'.length \in Nat
      BY <3>4
    <3> QED BY <3>5, <3>6
  <2>2. 0..(ins'.length - 1) = {}
    BY <1>5
  <2> QED BY <2>1, <2>2 DEF PrefixInv
<1>8. RowInv' /\ LengthInv'
  BY <1>1 DEF RowInv, LengthInv
<1>9. MovedInv'
  <2> DEFINE skipped == [at |-> dwRet, length |-> ins.length]
  <2>1. moved \in Seq([at : Nat, length : Nat]) /\ skipped \in [at : Nat, length : Nat]
    BY <1>2 DEF DecodeInv, MovedInv
  <2>2. moved' \in Seq([at : Nat, length : Nat])
    BY <1>1, <2>1
  <2>3. ASSUME NEW k \in DOMAIN moved' PROVE ~ControlTransfer(code, moved'[k].at)
    <3>1. CASE k \in DOMAIN moved
      <4>1. moved'[k] = moved[k]
        BY <1>1, <2>1, <3>1
      <4> QED BY <3>1, <4>1 DEF DecodeInv, MovedInv
    <3>2. CASE k = Len(moved) + 1
      <4>1. moved'[k] = skipped
        BY <1>1, <2>1, <3>2
      <4> QED BY <4>1, <1>2
    <3> QED BY <3>1, <3>2, <2>1, <2>3, <1>1
  <2> QED BY <1>1, <2>2, <2>3 DEF MovedInv
<1> QED BY <1>4, <1>6, <1>7, <1>8, <1>9 DEF DecodeInv

LEMMA NextDecodes == DecodeInv /\ [Next]_vars => DecodeInv'
<1> SUFFICES ASSUME DecodeInv, [Next]_vars PROVE DecodeInv'
  OBVIOUS
<1>1. CASE UNCHANGED vars
  BY <1>1 DEF vars, DecodeInv, SkipInv, Typed, PrefixInv, RowInv, LengthInv, MovedInv, At
<1>2. CASE Next
  <2>1. Finished => UNCHANGED vars
    BY DEF Finished
  <2> QED BY <1>1, <1>2, <2>1, PrefixStep, OneByteStep, OneByteGroupStep, FPUStep, InvalidTwoByteStep,
             TwoByteStep, TwoByteGroupStep, SSEStep, ModRMStep, SuffixOperandsStep, SuffixStep,
             Extension64Step, CheckStep, OperandsStep, PostStep, ReferencesStep, FailsStep,
             StopStep, SkipStep DEF Next
<1> QED BY <1>1, <1>2

-----------------------------------------------------------------------------
(* Locked instructions. *)

(* The opcodes of arithmetic that write their register, not the operand    *)
(* which may be in memory.                                                 *)
RegisterFirst(i) == i.OpcodeLength = 1 /\ i.opcode \in {op \in \h00..\h33 : op % 8 \in {2, 3}}

Blank(i) == ~i.dstAddressing /\ \A k \in 1..3 : ~i.operands[k].dst
Unwritten(i) == ~i.dstAddressing /\ \A k \in 1..3 : ~Written(i, k)

GroupOf(i) == (IF i.OpcodeLength = 1 THEN X86_Groups_1 ELSE X86_Groups_2)[i.opcode]

(* The decoder has found the opcode, the group and the ModRM byte that the *)
(* encoding says stand at dwRet, and the LOCK prefix in front of them.     *)
Found(i) ==
  /\ i.address = dwRet
  /\ HasPrefix(code, dwRet, PREFIX_LOCK) => i.lock
  /\ i.opcode \in Byte
  /\ OpcodeOf(code, dwRet) = IF i.OpcodeLength = 1 THEN i.opcode ELSE 256 + i.opcode
  /\ i.modrm # NoModRM => i.modrm = At(code, ModRMAt(code, dwRet))
  /\ i.group # 0 => i.extension = reg(i) /\ i.group = GroupOf(i)

Allowed == HasPrefix(code, dwRet, PREFIX_LOCK) => Lockable(code, dwRet) \/ BitTest(dwRet)

(* What is known of the instruction i at a place of the decoder.           *)
LockedAt(place, i) ==
  /\ place = "opcode" =>
       /\ i.address = dwRet /\ i.group = 0 /\ Blank(i)
       /\ (\E k \in 0..(i.length - 1) : At(code, dwRet + k) = PREFIX_LOCK) => i.lock
  /\ place \in {"suffix", "check", "operands", "post"} => Found(i)
  /\ place = "suffix" => i.OpcodeLength # 1
  /\ place \in {"check", "operands"} /\ RegisterFirst(i) =>
       Blank(i) /\ i.row = X86_Opcodes_1[i.opcode]
  /\ place = "post" /\ RegisterFirst(i) => Unwritten(i)
  /\ place \in {"references", "decoded"} => i.address = dwRet /\ Allowed

LocksInv == LockedAt(pc, ins)

LEMMA LockContinued ==
  ASSUME NEW i, NEW next \in Decoding \union {"opcode", "suffix"}, Continue(i, next),
         ~i.aborted => LockedAt(next, i)
  PROVE  LocksInv'
<1>1. /\ ins' = i /\ code' = code /\ dwRet' = dwRet
      /\ pc' \in {"failed", "aborted"} \/ (pc' = next /\ ~i.aborted)
  BY DEF Continue
<1>2. CASE pc' \in {"failed", "aborted"}
  BY <1>2 DEF LocksInv, LockedAt
<1>3. CASE pc' = next /\ ~i.aborted
  <2>1. LockedAt(next, i)
    BY <1>3
  <2> QED BY <1>1, <1>3, <2>1 DEF LocksInv, LockedAt, Found, Blank, Unwritten, Written,
             RegisterFirst, Allowed, GroupOf, reg, BitTest
<1> QED BY <1>1, <1>2, <1>3

(* j is of the same opcode as i, with the prefixes and the ModRM byte. *)
Keeps(i, j) ==
  /\ j.address = i.address /\ (i.lock => j.lock) /\ j.opcode = i.opcode /\ j.modrm = i.modrm
  /\ j.OpcodeLength = 1 <=> i.OpcodeLength = 1

LEMMA StillFound ==
  ASSUME NEW i, NEW j, Found(i), Keeps(i, j),
         j.group = 0 \/ (j.extension = reg(i) /\ j.group = GroupOf(i))
  PROVE  Found(j)
<1>1. reg(j) = reg(i) /\ GroupOf(j) = GroupOf(i)
  BY DEF Keeps, reg, GroupOf
<1> QED BY <1>1 DEF Found, Keeps

LEMMA FollowsFound ==
  ASSUME NEW i, NEW j, Found(i), Follows(i, j)
  PROVE  Found(j)
<1>1. reg(j) = reg(i) /\ GroupOf(j) = GroupOf(i)
  BY DEF Follows, reg, GroupOf
<1> QED BY <1>1 DEF Found, Follows

(* The prefixes are behind the decoder, which looks at the opcode. *)
LEMMA OpcodeFound ==
  ASSUME DecodeInv, LocksInv, pc = "opcode", Opcode \notin PrefixBytes
  PROVE  /\ ins.address = dwRet /\ ins.group = 0 /\ Blank(ins)
         /\ HasPrefix(code, dwRet, PREFIX_LOCK) => ins.lock
         /\ Opcode # TWO_BYTE_OPCODE =>
              OpcodeOf(code, dwRet) = Opcode /\ ModRMAt(code, dwRet) = ins.next + 1
         /\ Opcode = TWO_BYTE_OPCODE =>
              OpcodeOf(code, dwRet) = 256 + Opcode2 /\ ModRMAt(code, dwRet) = ins.next + 2
<1> DEFINE n == ins.length
<1>1. /\ code \in Seq(Byte) /\ dwRet \in Nat /\ n \in Nat /\ ins.next = dwRet + n
      /\ \A k \in 0..(n - 1) : At(code, dwRet + k) \in PrefixBytes
  BY DEF DecodeInv, SkipInv, PrefixInv
<1>2. /\ ins.address = dwRet /\ ins.group = 0 /\ Blank(ins)
      /\ (\E k \in 0..(n - 1) : At(code, dwRet + k) = PREFIX_LOCK) => ins.lock
  BY DEF LocksInv, LockedAt
<1> HIDE DEF n
<1>3. Opcode = At(code, dwRet + n) /\ Opcode2 = At(code, dwRet + n + 1)
  BY <1>1 DEF Opcode, Opcode2
<1>4. Prefixed(code, dwRet, n)
  BY <1>1, <1>3 DEF Prefixed
<1>5. HasPrefix(code, dwRet, PREFIX_LOCK) => ins.lock
  BY <1>1, <1>2, <1>4, PrefixCounted DEF HasPrefix
<1>6. /\ Opcode # \h0F => OpcodeOf(code, dwRet) = Opcode /\ ModRMAt(code, dwRet) = dwRet + n + 1
      /\ Opcode = \h0F =>
           OpcodeOf(code, dwRet) = 256 + Opcode2 /\ ModRMAt(code, dwRet) = dwRet + n + 2
  BY <1>1, <1>3, <1>4, OpcodeRead
<1> QED BY <1>1, <1>2, <1>5, <1>6 DEF TWO_BYTE_OPCODE

LEMMA OneByteFound ==
  ASSUME DecodeInv, LocksInv, pc = "opcode", Opcode \notin PrefixBytes, Opcode # TWO_BYTE_OPCODE
  PROVE  /\ Found(OneByte(ins)) /\ Blank(OneByte(ins)) /\ Typed(OneByte(ins))
         /\ OneByte(ins).opcode = Opcode /\ OneByte(ins).OpcodeLength = 1
         /\ OneByte(ins).group = 0 /\ OneByte(ins).row = X86_Opcodes_1[Opcode]
<1> DEFINE i == OneByte(ins)
<1>1. Typed(ins) /\ ins.next \in Nat /\ code \in Seq(Byte) /\ Opcode \in Byte
  BY Reading DEF DecodeInv
<1>2. /\ ins.address = dwRet /\ ins.group = 0 /\ Blank(ins)
      /\ HasPrefix(code, dwRet, PREFIX_LOCK) => ins.lock
      /\ OpcodeOf(code, dwRet) = Opcode /\ ModRMAt(code, dwRet) = ins.next + 1
  BY OpcodeFound
<1>3. /\ Typed(i) /\ i.address = ins.address /\ i.row = X86_Opcodes_1[Opcode]
      /\ i.modrm \in {NoModRM, At(code, ins.next + 1)}
      /\ i.opcode = Opcode /\ i.OpcodeLength = 1 /\ i.lock = ins.lock /\ i.group = ins.group
      /\ i.dstAddressing = ins.dstAddressing /\ i.operands = ins.operands
  BY <1>1, Coded
<1> HIDE DEF i
<1>4. Found(i)
  BY <1>1, <1>2, <1>3 DEF Found
<1>5. Blank(i)
  BY <1>2, <1>3 DEF Blank
<1> QED BY <1>2, <1>3, <1>4, <1>5 DEF i

LEMMA TwoByteFound ==
  ASSUME DecodeInv, LocksInv, Escaped
  PROVE  /\ Found(TwoByte(ins)) /\ Typed(TwoByte(ins)) /\ TwoByte(ins).OpcodeLength = 2
         /\ TwoByte(ins).opcode = Opcode2 /\ TwoByte(ins).group = 0
<1> DEFINE i == TwoByte(ins)
<1>1. /\ Typed(ins) /\ ins.next \in Nat /\ code \in Seq(Byte) /\ Opcode2 \in Byte
      /\ pc = "opcode" /\ Opcode = TWO_BYTE_OPCODE /\ Opcode \notin PrefixBytes
  BY Reading DEF DecodeInv, Escaped, TWO_BYTE_OPCODE, PrefixBytes
<1>2. /\ ins.address = dwRet /\ ins.group = 0
      /\ HasPrefix(code, dwRet, PREFIX_LOCK) => ins.lock
      /\ OpcodeOf(code, dwRet) = 256 + Opcode2 /\ ModRMAt(code, dwRet) = ins.next + 2
  BY <1>1, OpcodeFound
<1>3. /\ Typed(i) /\ i.address = ins.address
      /\ i.modrm \in {NoModRM, At(code, ins.next + 2)}
      /\ i.opcode = Opcode2 /\ i.OpcodeLength = 2 /\ i.lock = ins.lock /\ i.group = ins.group
  BY <1>1, Coded2
<1> HIDE DEF i
<1>4. Found(i)
  BY <1>1, <1>2, <1>3 DEF Found
<1> QED BY <1>2, <1>3, <1>4 DEF i

(* The rows of those opcodes. *)
LEMMA RegisterRows ==
  ASSUME NEW b \in Byte, b \in {op \in \h00..\h33 : op % 8 \in {2, 3}}
  PROVE  /\ X86_Opcodes_1[b].type = "PLAIN" /\ X86_Opcodes_1[b].dst = {1}
         /\ X86_Opcodes_1[b].ops[1].mode = "G"
<1>1. CASE b % 8 = 2
  <2>1. Opcodes_1_low[b] = Writes(<<G("b"), E("b")>>)
    BY <1>1 DEF Opcodes_1_low
  <2> QED BY <2>1, Blocks DEF Writes, Row, G
<1>2. CASE b % 8 = 3
  <2>1. Opcodes_1_low[b] = Writes(<<G("v"), E("v")>>)
    BY <1>2 DEF Opcodes_1_low
  <2> QED BY <2>1, Blocks DEF Writes, Row, G
<1> QED BY <1>1, <1>2

(* What passes the check of the LOCK prefix may be locked, or is BT. *)
LEMMA LockValid ==
  ASSUME NEW i, Typed(i), Found(i), IsValidLockPrefix(i), ~RegisterFirst(i)
  PROVE  Lockable(code, dwRet) \/ BitTest(dwRet)
<1> DEFINE op == i.opcode
           r == reg(i)
           opcode == OpcodeOf(code, dwRet)
           register == RegField(code, dwRet)
<1>1. op \in Byte /\ i.modrm # NoModRM /\ mod(i) # 3
  BY DEF Found, IsValidLockPrefix
<1>2. register = r /\ ModField(code, dwRet) = mod(i)
  BY <1>1 DEF Found, RegField, ModField, reg, mod
<1>3. CASE i.OpcodeLength = 1
  <2>1. opcode = op
    BY <1>3 DEF Found
  <2>2. \/ op \in {b \in \h00..\h31 : b % 8 < 2} \union {\h86, \h87}
        \/ op \in \h80..\h83 /\ r # 7
        \/ op \in {\hF6, \hF7} /\ r \in {2, 3}
        \/ op \in {\hFE, \hFF} /\ r \in {0, 1}
    <3>1. CASE op \in X86_LockPrefix_1.always
      <4> HIDE DEF op
      <4>1. op \in {b \in \h00..\h33 : b % 8 < 4} \union {\h86, \h87}
        BY <3>1 DEF X86_LockPrefix_1
      <4>2. op \notin {b \in \h00..\h33 : b % 8 \in {2, 3}}
        BY <1>3 DEF RegisterFirst, op
      <4> QED BY <4>1, <4>2
    <3>2. CASE op \notin X86_LockPrefix_1.always
      <4>1. /\ op \in X86_LockPrefix_1.group
            /\ i.group \in DOMAIN X86_LockPrefix_Groups
            /\ i.extension \in X86_LockPrefix_Groups[i.group]
        BY <1>3, <3>2 DEF IsValidLockPrefix
      <4>2. op \in \h80..\h83 \union {\hF6, \hF7, \hFE, \hFF}
        BY <4>1 DEF X86_LockPrefix_1
      <4>3. i.group # 0
        BY <4>1 DEF X86_LockPrefix_Groups
      <4>4. i.extension = r /\ i.group = X86_Groups_1[op]
        BY <1>3, <4>3 DEF Found, GroupOf
      <4>5. /\ op \in \h80..\h83 => X86_Groups_1[op] = 1
            /\ op \in {\hF6, \hF7} => X86_Groups_1[op] = 3
            /\ op = \hFE => X86_Groups_1[op] = 4
            /\ op = \hFF => X86_Groups_1[op] = 5
        <5> HIDE DEF op
        <5> QED BY DEF X86_Groups_1
      <4>6. /\ X86_LockPrefix_Groups[1] = 0..6 /\ X86_LockPrefix_Groups[3] = {2, 3}
            /\ X86_LockPrefix_Groups[4] = {0, 1} /\ X86_LockPrefix_Groups[5] = {0, 1}
        BY DEF X86_LockPrefix_Groups
      <4> HIDE DEF op, r
      <4> QED BY <4>1, <4>2, <4>4, <4>5, <4>6
    <3> QED BY <3>1, <3>2
  <2>3. op \in WithModRM
    <3> HIDE DEF op
    <3> QED BY <2>2 DEF WithModRM
  <2> HIDE DEF op, r
  <2>4. InMemory(code, dwRet)
    BY <1>1, <1>2, <2>1, <2>3 DEF InMemory
  <2> QED BY <1>2, <2>1, <2>2, <2>4 DEF Lockable
<1>4. CASE i.OpcodeLength # 1
  <2>1. opcode = 256 + op
    BY <1>4 DEF Found
  <2>2. \/ op \in {\hAB, \hB0, \hB1, \hB3, \hBB, \hC0, \hC1}
        \/ op = \hBA /\ r \in 4..7
        \/ op = \hC7 /\ r = 1
    <3>1. CASE op \in X86_LockPrefix_2.always
      BY <3>1 DEF X86_LockPrefix_2
    <3>2. CASE op \notin X86_LockPrefix_2.always
      <4>1. /\ op \in X86_LockPrefix_2.group
            /\ i.group \in DOMAIN X86_LockPrefix_Groups
            /\ i.extension \in X86_LockPrefix_Groups[i.group]
        BY <1>4, <3>2 DEF IsValidLockPrefix
      <4>2. op \in {\hBA, \hC7}
        BY <4>1 DEF X86_LockPrefix_2
      <4>3. i.group # 0
        BY <4>1 DEF X86_LockPrefix_Groups
      <4>4. i.extension = r /\ i.group = X86_Groups_2[op]
        BY <1>4, <4>3 DEF Found, GroupOf
      <4>5. X86_Groups_2[\hBA] = 8 /\ X86_Groups_2[\hC7] = 9
        BY DEF X86_Groups_2
      <4>6. X86_LockPrefix_Groups[8] = 4..7 /\ X86_LockPrefix_Groups[9] = {1}
        BY DEF X86_LockPrefix_Groups
      <4> HIDE DEF op, r
      <4> QED BY <4>1, <4>2, <4>4, <4>5, <4>6
    <3> QED BY <3>1, <3>2
  <2> HIDE DEF op, r
  <2>3. 256 + op \in WithModRM
    <3> DEFINE none == {\h77} \union \h04..\h0C \union \h30..\h37 \union \h80..\h8F
                       \union \hA0..\hA2 \union \hA8..\hAA \union \hC8..\hCF \union {\h0E}
               coded == (\h00..\hFF) \ none
    <3>1. op \in coded
      BY <2>2
    <3>2. 256 + op \in Two(coded)
      BY <3>1 DEF Two
    <3>3. \A k \in Two(coded) : k \in WithModRM
      BY DEF WithModRM
    <3> QED BY <3>2, <3>3
  <2>4. InMemory(code, dwRet)
    BY <1>1, <1>2, <2>1, <2>3 DEF InMemory
  <2>5. CASE op \in {\hAB, \hB0, \hB1, \hB3, \hBB, \hC0, \hC1}
    <3>1. 256 + op \in Two({\hAB, \hB0, \hB1, \hB3, \hBB, \hC0, \hC1})
      BY <2>5 DEF Two
    <3> QED BY <2>1, <2>4, <3>1 DEF Lockable
  <2>6. CASE op = \hBA /\ r \in 5..7
    BY <1>2, <2>1, <2>4, <2>6 DEF Lockable
  <2>7. CASE op = \hBA /\ r = 4
    BY <1>2, <2>1, <2>7 DEF BitTest
  <2>8. CASE op = \hC7 /\ r = 1
    BY <1>2, <2>1, <2>4, <2>8 DEF Lockable
  <2> QED BY <2>2, <2>5, <2>6, <2>7, <2>8
<1> QED BY <1>3, <1>4

(* An opcode that is not one of those needs no more than to be found. *)
LEMMA FoundLocks ==
  ASSUME NEW i, Continue(i, "check"), ~i.aborted => Found(i) /\ ~RegisterFirst(i)
  PROVE  LocksInv'
<1>1. ~i.aborted => LockedAt("check", i)
  BY DEF LockedAt
<1> QED BY <1>1, LockContinued DEF Decoding

LEMMA GroupFound ==
  ASSUME NEW i, Typed(i), Found(i), NEW table, NEW group, group = GroupOf(i)
  PROVE  \/ Group(i, table, group).aborted
         \/ Found(Group(i, table, group)) /\ Keeps(i, Group(i, table, group))
<1> DEFINE row == table[reg(i)]
           r == reg(i)
           j == [i EXCEPT !.row = row, !.group = group, !.extension = r]
<1>1. CASE INVALID(row)
  <2> DEFINE h == [i EXCEPT !.length = @ + 1]
  <2>1. Group(i, table, group) = Abort(h)
    BY <1>1 DEF Group
  <2>2. DOMAIN h = Fields
    BY DEF Typed
  <2> HIDE DEF h
  <2>3. Abort(h).aborted
    BY <2>2 DEF Abort, Fields
  <2> QED BY <2>1, <2>3
<1>2. CASE ~INVALID(row)
  <2>1. Group(i, table, group) = j
    BY <1>2 DEF Group
  <2> HIDE DEF row
  <2>2. Keeps(i, j) /\ j.group = group /\ j.extension = r
    BY DEF Keeps, Typed, Fields
  <2> HIDE DEF j
  <2> QED BY <2>1, <2>2, StillFound
<1> QED BY <1>1, <1>2

LEMMA PrefixLocks == DecodeInv /\ LocksInv /\ Prefix => LocksInv'
<1> SUFFICES ASSUME DecodeInv, LocksInv, Prefix PROVE LocksInv'
  OBVIOUS
<1>1. /\ Typed(ins') /\ ins'.length = ins.length + 1 /\ Opcode \in PrefixBytes
      /\ code' = code /\ dwRet' = dwRet
      /\ pc = "opcode" /\ pc' \in {"failed", "aborted", "opcode"}
      /\ ins'.address = ins.address /\ ins'.group = ins.group
      /\ ins'.dstAddressing = ins.dstAddressing /\ ins'.operands = ins.operands
      /\ ins.lock \/ Opcode = \hF0 => ins'.lock
  BY PrefixRead
<1> DEFINE n == ins.length
           m == ins'.length
<1>2. /\ ins.address = dwRet /\ ins.group = 0 /\ Blank(ins)
      /\ (\E k \in 0..(n - 1) : At(code, dwRet + k) = PREFIX_LOCK) => ins.lock
  BY <1>1 DEF LocksInv, LockedAt
<1>3. n \in Nat /\ m = n + 1 /\ Opcode = At(code, dwRet + n)
  BY <1>1 DEF DecodeInv, PrefixInv, Opcode
<1>4. ASSUME NEW k \in 0..(m - 1), At(code, dwRet + k) = PREFIX_LOCK
      PROVE  ins'.lock
  <2>1. k \in 0..(n - 1) \/ k = n
    BY <1>3
  <2> QED BY <1>1, <1>2, <1>3, <1>4, <2>1 DEF PREFIX_LOCK
<1>5. Blank(ins')
  BY <1>1, <1>2 DEF Blank
<1>6. LockedAt("opcode", ins)'
  BY <1>1, <1>2, <1>4, <1>5 DEF LockedAt, Blank, At
<1> QED BY <1>1, <1>6 DEF LocksInv, LockedAt

LEMMA OneByteLocks == DecodeInv /\ LocksInv /\ OneByteOpcode => LocksInv'
<1> SUFFICES ASSUME DecodeInv, LocksInv, OneByteOpcode PROVE LocksInv'
  OBVIOUS
<1>1. pc = "opcode" /\ Opcode \notin PrefixBytes /\ Opcode # TWO_BYTE_OPCODE
  BY Reading, PrefixRows DEF OneByteOpcode, IsPrefix
<1> DEFINE j == OneByte(ins)
           invalid == INVALID(X86_Opcodes_1[Opcode])
           i == AbortIf(j, invalid)
<1>2. Continue(i, "check")
  BY DEF OneByteOpcode
<1>3. /\ Found(j) /\ Blank(j) /\ Typed(j) /\ j.opcode = Opcode
      /\ j.row = X86_Opcodes_1[Opcode]
  BY <1>1, OneByteFound
<1> HIDE DEF j, invalid
<1>4. Follows(j, i)
  BY <1>3, Aborting
<1>5. i.dstAddressing = j.dstAddressing /\ i.operands = j.operands
  BY <1>3 DEF AbortIf, Typed, Fields
<1> HIDE DEF i
<1>6. Found(i)
  BY <1>3, <1>4, FollowsFound
<1>7. Blank(i) /\ i.row = X86_Opcodes_1[i.opcode]
  BY <1>3, <1>4, <1>5 DEF Blank, Follows
<1>8. LockedAt("check", i)
  BY <1>6, <1>7 DEF LockedAt
<1> QED BY <1>2, <1>8, LockContinued DEF Decoding

(* The other one-byte opcodes are not of those that write a register. *)
LEMMA OtherRows ==
  ASSUME DecodeInv, LocksInv, pc = "opcode",
         X86_Opcodes_1[Opcode].type \in {"GROUP", "EXT_FPU", "EXT_64"}
  PROVE  /\ Found(OneByte(ins)) /\ Typed(OneByte(ins)) /\ ~RegisterFirst(OneByte(ins))
         /\ OneByte(ins).opcode = Opcode /\ OneByte(ins).OpcodeLength = 1
         /\ OneByte(ins).group = 0
<1>1. Opcode \in Byte /\ Opcode \notin PrefixBytes /\ Opcode # TWO_BYTE_OPCODE
  BY Reading, PrefixRows, Escape0F
<1>2. /\ Found(OneByte(ins)) /\ Typed(OneByte(ins))
      /\ OneByte(ins).opcode = Opcode /\ OneByte(ins).OpcodeLength = 1
      /\ OneByte(ins).group = 0
  BY <1>1, OneByteFound
<1>3. ~RegisterFirst(OneByte(ins))
  BY <1>1, <1>2, RegisterRows DEF RegisterFirst
<1> QED BY <1>2, <1>3

LEMMA OneByteGroupLocks == DecodeInv /\ LocksInv /\ OneByteGroup => LocksInv'
<1> SUFFICES ASSUME DecodeInv, LocksInv, OneByteGroup PROVE LocksInv'
  OBVIOUS
<1> DEFINE j == OneByte(ins)
           table == j.row.table
           group == X86_Groups_1[Opcode]
           i == Group(j, table, group)
<1>1. Continue(i, "check")
  BY DEF OneByteGroup
<1>2. Found(j) /\ Typed(j) /\ ~RegisterFirst(j) /\ j.opcode = Opcode /\ j.OpcodeLength = 1
  BY OtherRows DEF OneByteGroup
<1> HIDE DEF j
<1>3. group = GroupOf(j)
  BY <1>2 DEF GroupOf
<1> HIDE DEF group, table
<1>4. i.aborted \/ (Found(i) /\ Keeps(j, i))
  BY <1>2, <1>3, GroupFound
<1> HIDE DEF i
<1>5. ~i.aborted => Found(i) /\ ~RegisterFirst(i)
  BY <1>2, <1>4 DEF Keeps, RegisterFirst
<1> QED BY <1>1, <1>5, FoundLocks

LEMMA FPULocks == DecodeInv /\ LocksInv /\ FPU_Extension => LocksInv'
<1> SUFFICES ASSUME DecodeInv, LocksInv, FPU_Extension PROVE LocksInv'
  OBVIOUS
<1> DEFINE h == OneByte(ins)
           extension == IF h.modrm < \hC0 THEN reg(h) ELSE h.modrm % 64
           row == h.row.table[IF h.modrm < \hC0 THEN extension ELSE 8 + extension]
           invalid == INVALID(row)
           a == AbortIf(h, invalid)
           j == [a EXCEPT !.row = row, !.extension = extension]
           i == IF row.ops = <<>> /\ ~INVALID(row) THEN INSTR_INC(j, 1) ELSE j
<1>1. Continue(i, "check")
  BY DEF FPU_Extension
<1>2. Found(h) /\ Typed(h) /\ ~RegisterFirst(h) /\ h.group = 0
  BY OtherRows DEF FPU_Extension
<1> HIDE DEF h, extension, row, invalid
<1>3. Keeps(h, i) /\ i.group = h.group
  BY <1>2 DEF Keeps, AbortIf, INSTR_INC, Typed, Fields
<1> HIDE DEF i
<1>4. Found(i) /\ ~RegisterFirst(i)
  BY <1>2, <1>3, StillFound DEF Keeps, RegisterFirst
<1> QED BY <1>1, <1>4, FoundLocks

LEMMA InvalidTwoByteLocks == DecodeInv /\ LocksInv /\ InvalidTwoByteOpcode => LocksInv'
<1> SUFFICES ASSUME DecodeInv, LocksInv, InvalidTwoByteOpcode PROVE LocksInv'
  OBVIOUS
<1> DEFINE j == TwoByte(ins)
           i == Abort(j)
<1>1. Continue(i, "check") /\ Typed(j)
  BY TwoByteFound DEF InvalidTwoByteOpcode
<1> HIDE DEF j
<1>2. i.aborted
  BY <1>1 DEF Abort, Typed, Fields
<1> HIDE DEF i
<1> QED BY <1>1, <1>2, FoundLocks

LEMMA TwoByteLocks == DecodeInv /\ LocksInv /\ TwoByteOpcode => LocksInv'
<1> SUFFICES ASSUME DecodeInv, LocksInv, TwoByteOpcode PROVE LocksInv'
  OBVIOUS
<1> DEFINE i == TwoByte(ins)
<1>1. Continue(i, "check")
  BY DEF TwoByteOpcode
<1>2. Found(i) /\ i.OpcodeLength = 2
  BY TwoByteFound DEF TwoByteOpcode
<1> HIDE DEF i
<1> QED BY <1>1, <1>2, FoundLocks DEF RegisterFirst

LEMMA TwoByteGroupLocks == DecodeInv /\ LocksInv /\ TwoByteGroup => LocksInv'
<1> SUFFICES ASSUME DecodeInv, LocksInv, TwoByteGroup PROVE LocksInv'
  OBVIOUS
<1> DEFINE j == TwoByte(ins)
           table == j.row.table
           group == X86_Groups_2[Opcode2]
           i == Group(j, table, group)
<1>1. Continue(i, "check")
  BY DEF TwoByteGroup
<1>2. Found(j) /\ Typed(j) /\ j.opcode = Opcode2 /\ j.OpcodeLength = 2
  BY TwoByteFound DEF TwoByteGroup
<1> HIDE DEF j
<1>3. group = GroupOf(j)
  BY <1>2 DEF GroupOf
<1> HIDE DEF group, table
<1>4. i.aborted \/ (Found(i) /\ Keeps(j, i))
  BY <1>2, <1>3, GroupFound
<1> HIDE DEF i
<1>5. ~i.aborted => Found(i) /\ ~RegisterFirst(i)
  BY <1>2, <1>4 DEF Keeps, RegisterFirst
<1> QED BY <1>1, <1>5, FoundLocks

(* j is of the same two-byte opcode. *)
LEMMA SSEKept ==
  ASSUME NEW i, Typed(i), i.OpcodeLength = 2
  PROVE  /\ Keeps(i, SSE_Removed(i)) /\ Typed(SSE_Removed(i))
         /\ SSE_Removed(i).OpcodeLength = 3 /\ SSE_Removed(i).group = i.group
<1> DEFINE listed == i.prefixes # <<>>
           j == Assert_(i, 1337, listed)
           l == [j EXCEPT !.OpcodeLength = 3, !.repeat = "none", !.opSize = FALSE,
                          !.prefixes = IF @ = <<>> THEN @ ELSE Tail(@)]
           m == [l EXCEPT !.OperandSize = 4]
<1>1. SSE_Removed(i) \in {l, m}
  BY DEF SSE_Removed
<1> HIDE DEF listed
<1>2. Follows(i, j)
  BY Asserting
<1> HIDE DEF j
<1>3. Typed(j) /\ Keeps(i, [j EXCEPT !.OpcodeLength = 3]) /\ j.group = i.group
  BY <1>2 DEF Follows, Keeps, Typed, Fields
<1>4. Keeps(i, l) /\ l.OpcodeLength = 3 /\ l.group = i.group /\ DOMAIN l = Fields
  BY <1>3 DEF Keeps, Typed, Fields
<1> HIDE DEF l
<1>5. Keeps(i, m) /\ m.OpcodeLength = 3 /\ m.group = i.group
  BY <1>4 DEF Keeps, Fields
<1> HIDE DEF m
<1>6. Typed(SSE_Removed(i))
  BY SSERemoved DEF Rowed
<1> QED BY <1>1, <1>4, <1>5, <1>6

LEMMA SSELocks == DecodeInv /\ LocksInv /\ SSE => LocksInv'
<1> SUFFICES ASSUME DecodeInv, LocksInv, SSE PROVE LocksInv'
  OBVIOUS
<1> DEFINE h == TwoByte(ins)
           m == SSE_Removed(h)
           modrm == Opcode2 \in X86_ModRM_2
           i == Assert_(m, 1360, modrm)
           row == X86_SSE(ins.ssePrefix)[Opcode2]
           r == reg(i)
           extended == row.table[r]
           group == X86_Groups_2[Opcode2]
           invalid == INVALID(extended)
           a == Abort(i)
           g == [i EXCEPT !.row = extended, !.group = group, !.extension = r]
           b == AbortIf(g, invalid)
           c == [i EXCEPT !.row = row]
<1>1. \E l \in {a, b, c} : Continue(l, "check")
  <2>1. CASE INVALID(row)
    <3>1. Continue(a, "check")
      BY <2>1 DEF SSE, INVALID
    <3> QED BY <3>1
  <2>2. CASE ~INVALID(row) /\ row.type = "GROUP"
    <3>1. Continue(b, "check")
      BY <2>2 DEF SSE, INVALID
    <3> QED BY <3>1
  <2>3. CASE ~INVALID(row) /\ row.type # "GROUP"
    <3>1. Continue(c, "check")
      BY <2>3 DEF SSE, INVALID
    <3> QED BY <3>1
  <2> QED BY <2>1, <2>2, <2>3
<1>2. Found(h) /\ Typed(h) /\ h.OpcodeLength = 2 /\ h.opcode = Opcode2 /\ h.group = 0
  BY TwoByteFound DEF SSE
<1> HIDE DEF h
<1>3. Keeps(h, m) /\ Typed(m) /\ m.OpcodeLength = 3 /\ m.group = 0
  BY <1>2, SSEKept
<1>4. Found(m) /\ m.opcode = Opcode2
  BY <1>2, <1>3, StillFound DEF Keeps
<1> HIDE DEF m, modrm
<1>5. Follows(m, i)
  BY <1>3, Asserting
<1> HIDE DEF i
<1>6. Found(i) /\ Typed(i) /\ i.OpcodeLength = 3 /\ i.group = 0 /\ i.opcode = Opcode2
  BY <1>3, <1>4, <1>5, FollowsFound DEF Follows
<1>7. group = GroupOf(i)
  BY <1>6 DEF GroupOf
<1> HIDE DEF row, extended, group, invalid
<1>8. a.aborted
  BY <1>6 DEF Abort, Typed, Fields
<1>9. Keeps(i, b) /\ b.group = group /\ b.extension = r
  <2> HIDE DEF r
  <2> QED BY <1>6 DEF Keeps, AbortIf, Typed, Fields
<1>10. Keeps(i, c) /\ c.group = 0
  BY <1>6 DEF Keeps, Typed, Fields
<1> HIDE DEF a, b, c
<1>11. Found(b) /\ Found(c) /\ ~RegisterFirst(b) /\ ~RegisterFirst(c)
  BY <1>6, <1>7, <1>9, <1>10, StillFound DEF Keeps, RegisterFirst
<1>12. PICK l \in {a, b, c} : Continue(l, "check")
  BY <1>1
<1>13. ~l.aborted => Found(l) /\ ~RegisterFirst(l)
  BY <1>8, <1>11
<1> QED BY <1>12, <1>13, FoundLocks

LEMMA ModRMLocks == DecodeInv /\ LocksInv /\ ModRM_Extension => LocksInv'
<1> SUFFICES ASSUME DecodeInv, LocksInv, ModRM_Extension PROVE LocksInv'
  OBVIOUS
<1> DEFINE i == TwoByte(ins)
           row == i.row.table[i.modrm]
           table == row.table
           group == X86_Groups_2[Opcode2]
           a == Abort(i)
           b == Group(i, table, group)
           c == [i EXCEPT !.row = row]
           d == INSTR_INC(c, 1)
<1>1. \E l \in {a, b, c, d} : Continue(l, "check")
  <2>1. CASE INVALID(row)
    <3>1. Continue(a, "check")
      BY <2>1 DEF ModRM_Extension, INVALID
    <3> QED BY <3>1
  <2>2. CASE ~INVALID(row) /\ row.type = "GROUP"
    <3>1. Continue(b, "check")
      BY <2>2 DEF ModRM_Extension, INVALID
    <3> QED BY <3>1
  <2>3. CASE ~INVALID(row) /\ row.type # "GROUP" /\ row.ops = <<>>
    <3>1. Continue(d, "check")
      BY <2>3 DEF ModRM_Extension, INVALID
    <3> QED BY <3>1
  <2>4. CASE ~INVALID(row) /\ row.type # "GROUP" /\ row.ops # <<>>
    <3>1. Continue(c, "check")
      BY <2>4 DEF ModRM_Extension, INVALID
    <3> QED BY <3>1
  <2> QED BY <2>1, <2>2, <2>3, <2>4
<1>2. Found(i) /\ Typed(i) /\ i.OpcodeLength = 2 /\ i.opcode = Opcode2 /\ i.group = 0
  BY TwoByteFound DEF ModRM_Extension
<1> HIDE DEF i
<1>3. group = GroupOf(i)
  BY <1>2 DEF GroupOf
<1> HIDE DEF row, table, group
<1>4. a.aborted
  BY <1>2 DEF Abort, Typed, Fields
<1>5. b.aborted \/ (Found(b) /\ Keeps(i, b))
  BY <1>2, <1>3, GroupFound
<1>6. Keeps(i, c) /\ c.group = 0 /\ DOMAIN c = Fields
  BY <1>2 DEF Keeps, Typed, Fields
<1> HIDE DEF a, b, c
<1>7. Keeps(i, d) /\ d.group = 0
  BY <1>6 DEF Keeps, INSTR_INC, Fields
<1> HIDE DEF d
<1>8. \A l \in {b, c, d} : ~l.aborted => Found(l) /\ ~RegisterFirst(l)
  BY <1>2, <1>5, <1>6, <1>7, StillFound DEF Keeps, RegisterFirst
<1>9. PICK l \in {a, b, c, d} : Continue(l, "check")
  BY <1>1
<1> QED BY <1>4, <1>8, <1>9, FoundLocks

LEMMA SuffixOperandsLocks == DecodeInv /\ LocksInv /\ Suffix_Operands => LocksInv'
<1> SUFFICES ASSUME DecodeInv, LocksInv, Suffix_Operands PROVE LocksInv'
  OBVIOUS
<1> DEFINE i == TwoByte(ins)
           t == TRUE
           a == AnomalyIf(i, t)
           p == [a EXCEPT !.opSize = FALSE, !.OperandSize = 4]
           plain == IF i.opSize THEN p ELSE i
           told == plain.next = plain.address + plain.length
           j == Assert_(plain, 1591, told)
           s == SetOperands(j, code)
           l == [s EXCEPT !.next = ins.next + 2]
<1>1. Continue(l, "suffix") /\ code \in Seq(Byte)
  BY DEF Suffix_Operands, DecodeInv, SkipInv
<1>2. Found(i) /\ Typed(i) /\ i.OpcodeLength = 2 /\ i.group = 0
  BY TwoByteFound DEF Suffix_Operands
<1> HIDE DEF i, t
<1>3. Follows(i, a)
  BY <1>2, Anomaly
<1> HIDE DEF a
<1>4. Follows(a, p)
  BY <1>3 DEF Follows, Typed, Fields
<1> HIDE DEF p
<1>5. Follows(i, plain)
  BY <1>2, <1>3, <1>4, Further, Same
<1> HIDE DEF plain, told
<1>6. Follows(plain, j)
  BY <1>5, Asserting, Known
<1> HIDE DEF j
<1>7. Follows(j, s)
  BY <1>1, <1>6, AllOperands, Known
<1> HIDE DEF s
<1>8. Follows(i, s)
  BY <1>5, <1>6, <1>7, Further
<1>9. Keeps(i, l) /\ l.group = 0 /\ l.OpcodeLength = 2
  BY <1>2, <1>8 DEF Follows, Keeps, Typed, Fields
<1> HIDE DEF l
<1>10. Found(l)
  BY <1>2, <1>9, StillFound
<1>11. LockedAt("suffix", l)
  BY <1>9, <1>10 DEF LockedAt
<1> QED BY <1>1, <1>11, LockContinued

LEMMA SuffixLocks == DecodeInv /\ LocksInv /\ Suffix_Extension => LocksInv'
<1> SUFFICES ASSUME DecodeInv, LocksInv, Suffix_Extension PROVE LocksInv'
  OBVIOUS
<1>1. pc = "suffix" /\ Typed(ins) /\ Found(ins) /\ ins.OpcodeLength # 1
  BY DEF Suffix_Extension, DecodeInv, LocksInv, LockedAt
<1> DEFINE row == ins.row.table[At(code, ins.address + ins.length)]
           invalid == INVALID(row)
           a == AbortIf(ins, invalid)
           i == [a EXCEPT !.row = row, !.OpcodeLength = 3, !.length = @ + 1]
           long == invalid \/ i.length >= 4 + Len(i.prefixes)
           j == Assert_(i, 1603, long)
<1>2. Continue(j, "check")
  BY DEF Suffix_Extension
<1> HIDE DEF invalid, row
<1>3. Follows(ins, a)
  BY <1>1, Aborting
<1> HIDE DEF a
<1>4. /\ Keeps(ins, i) /\ i.group = ins.group /\ i.extension = ins.extension
      /\ i.OpcodeLength = 3 /\ Typed(i)
  BY <1>1, <1>3 DEF Follows, Keeps, Typed, Fields
<1> HIDE DEF i, long
<1>5. Found(i)
  <2>1. i.group = 0 \/ (i.extension = reg(ins) /\ i.group = GroupOf(ins))
    BY <1>1, <1>4 DEF Found
  <2> QED BY <1>1, <1>4, <2>1, StillFound
<1>6. Follows(i, j)
  BY <1>4, Asserting
<1> HIDE DEF j
<1>7. Found(j) /\ ~RegisterFirst(j)
  BY <1>4, <1>5, <1>6, FollowsFound DEF Follows, RegisterFirst
<1> QED BY <1>2, <1>7, FoundLocks

LEMMA Extension64Locks == DecodeInv /\ LocksInv /\ Extension_64 => LocksInv'
<1> SUFFICES ASSUME DecodeInv, LocksInv, Extension_64 PROVE LocksInv'
  OBVIOUS
<1> DEFINE i == IF Opcode = TWO_BYTE_OPCODE THEN TwoByte(ins) ELSE OneByte(ins)
           row == i.row.table[1]
           j == [i EXCEPT !.row = row]
<1>1. Found(i) /\ Typed(i) /\ ~RegisterFirst(i) /\ i.group = 0
  <2>1. CASE pc = "opcode" /\ X86_Opcodes_1[Opcode].type = "EXT_64"
    <3>1. Opcode # TWO_BYTE_OPCODE
      BY <2>1, Escape0F
    <3> QED BY <2>1, <3>1, OtherRows
  <2>2. CASE Escaped
    <3>1. Opcode = TWO_BYTE_OPCODE
      BY <2>2 DEF Escaped
    <3>2. ~RegisterFirst(TwoByte(ins))
      BY <2>2, TwoByteFound DEF RegisterFirst
    <3> QED BY <2>2, <3>1, <3>2, TwoByteFound
  <2> QED BY <2>1, <2>2 DEF Extension_64
<1>2. Continue(j, "check")
  <2>1. j = [i EXCEPT !.row = @.table[1]]
    <3> HIDE DEF i
    <3> QED BY <1>1 DEF Typed, Fields
  <2> QED BY <2>1 DEF Extension_64
<1> HIDE DEF i, row
<1>3. Keeps(i, j) /\ j.group = 0
  BY <1>1 DEF Keeps, Typed, Fields
<1> HIDE DEF j
<1>4. Found(j) /\ ~RegisterFirst(j)
  BY <1>1, <1>3, StillFound DEF Keeps, RegisterFirst
<1> QED BY <1>2, <1>4, FoundLocks

LEMMA CheckLocks == DecodeInv /\ LocksInv /\ CheckPrefixes => LocksInv'
<1> SUFFICES ASSUME DecodeInv, LocksInv, CheckPrefixes PROVE LocksInv'
  OBVIOUS
<1>1. /\ pc = "check" /\ Typed(ins) /\ Found(ins)
      /\ RegisterFirst(ins) => Blank(ins) /\ ins.row = X86_Opcodes_1[ins.opcode]
  BY DEF CheckPrefixes, DecodeInv, LocksInv, LockedAt
<1> DEFINE long == ins.row.type = "64BIT"
           i == AbortIf(ins, long)
           s == Check_Segment(i)
           j == Check_Prefixes(s)
           r == Check_Repeat(j)
           l == CASE i.aborted -> i
                  [] ~i.aborted /\ ~Running(j) -> j
                  [] OTHER -> r
<1>2. Continue(l, "operands")
  BY DEF CheckPrefixes
<1> HIDE DEF long
<1>3. Follows(ins, i)
  BY <1>1, Aborting
<1> HIDE DEF i
<1>4. Follows(i, s)
  BY <1>3, Known, SegmentChecks
<1> HIDE DEF s
<1>5. Follows(s, j)
  BY <1>4, Known, PrefixChecks
<1> HIDE DEF j
<1>6. Follows(j, r)
  BY <1>5, Known, RepeatChecks
<1> HIDE DEF r
<1>7. Follows(ins, j) /\ Follows(ins, r)
  BY <1>3, <1>4, <1>5, <1>6, Further
<1>8. l \in {i, j, r}
  OBVIOUS
<1> HIDE DEF l
<1>9. Follows(ins, l)
  BY <1>3, <1>7, <1>8
<1>10. Found(l)
  BY <1>1, <1>9, FollowsFound
<1>11. RegisterFirst(l) => Blank(l) /\ l.row = X86_Opcodes_1[l.opcode]
  BY <1>1, <1>9 DEF Follows, RegisterFirst, Blank, Written
<1>12. LockedAt("operands", l)
  BY <1>10, <1>11 DEF LockedAt
<1> QED BY <1>2, <1>12, LockContinued DEF Decoding

LEMMA OperandsLocks == DecodeInv /\ LocksInv /\ Operands => LocksInv'
<1> SUFFICES ASSUME DecodeInv, LocksInv, Operands PROVE LocksInv'
  OBVIOUS
<1>1. /\ pc = "operands" /\ Typed(ins) /\ code \in Seq(Byte) /\ Found(ins)
      /\ RegisterFirst(ins) => Blank(ins) /\ ins.row = X86_Opcodes_1[ins.opcode]
  BY DEF Operands, DecodeInv, SkipInv, LocksInv, LockedAt
<1> DEFINE marked == [k \in 1..3 |-> [ins.operands[k] EXCEPT !.dst = k \in ins.row.dst,
                                                             !.src = k \in ins.row.src,
                                                             !.global = FALSE]]
           i == [ins EXCEPT !.operands = marked]
           j == SetOperands(i, code)
           l == IF ins.row.ops = <<>> THEN ins ELSE j
<1>2. Continue(l, "post")
  <2>1. i = [ins EXCEPT !.operands =
                 [k \in 1..3 |-> [@[k] EXCEPT !.dst = k \in ins.row.dst,
                                              !.src = k \in ins.row.src,
                                              !.global = FALSE]]]
    BY <1>1 DEF Typed, Fields
  <2> QED BY <2>1 DEF Operands
<1>3. /\ \A k \in 1..3 : /\ DOMAIN marked[k] = OperandFields /\ marked[k].length \in Nat
                         /\ marked[k].dst = (k \in ins.row.dst)
      /\ DOMAIN marked = 1..3
  BY <1>1 DEF Typed, OperandFields
<1> HIDE DEF marked
<1>4. /\ Typed(i) /\ Keeps(ins, i) /\ i.operands = marked /\ i.row = ins.row
      /\ i.group = ins.group /\ i.extension = ins.extension
      /\ i.dstAddressing = ins.dstAddressing
  BY <1>1, <1>3 DEF Typed, Fields, Keeps
<1> HIDE DEF i
<1>5. Found(i)
  <2>1. i.group = 0 \/ (i.extension = reg(ins) /\ i.group = GroupOf(ins))
    BY <1>1, <1>4 DEF Found
  <2> QED BY <1>1, <1>4, <2>1, StillFound
<1>6. RegisterFirst(ins) => Unwritten(i)
  <2> SUFFICES ASSUME RegisterFirst(ins) PROVE Unwritten(i)
    OBVIOUS
  <2>1. i.row.dst = {1} /\ i.row.ops[1].mode = "G"
    <3>1. ins.opcode \in Byte
      BY <1>1 DEF Found
    <3> QED BY <1>1, <1>4, <3>1, RegisterRows DEF RegisterFirst
  <2>2. \A k \in 1..3 : ~Written(i, k)
    BY <1>3, <1>4, <2>1 DEF Written
  <2>3. ~i.dstAddressing
    BY <1>1, <1>4 DEF Blank
  <2> QED BY <2>2, <2>3 DEF Unwritten
<1>7. Follows(i, j)
  BY <1>1, <1>4, AllOperands
<1> HIDE DEF j
<1>8. Found(j) /\ (RegisterFirst(j) => Unwritten(j))
  <2>1. Found(j)
    BY <1>5, <1>7, FollowsFound
  <2>2. RegisterFirst(j) => RegisterFirst(ins)
    BY <1>4, <1>7 DEF Follows, Keeps, RegisterFirst
  <2>3. Unwritten(i) => Unwritten(j)
    BY <1>7 DEF Follows, Unwritten, Written
  <2> QED BY <1>6, <2>1, <2>2, <2>3
<1>9. RegisterFirst(ins) => Unwritten(ins)
  BY <1>1 DEF Blank, Unwritten, Written
<1>10. Found(l) /\ (RegisterFirst(l) => Unwritten(l))
  BY <1>1, <1>8, <1>9
<1> HIDE DEF l
<1>11. LockedAt("post", l)
  BY <1>10 DEF LockedAt
<1> QED BY <1>2, <1>11, LockContinued DEF Decoding

LEMMA PostLocks == DecodeInv /\ LocksInv /\ PostChecks => LocksInv'
<1> SUFFICES ASSUME DecodeInv, LocksInv, PostChecks PROVE LocksInv'
  OBVIOUS
<1>1. /\ pc = "post" /\ Typed(ins) /\ Found(ins) /\ (RegisterFirst(ins) => Unwritten(ins))
  BY DEF PostChecks, DecodeInv, LocksInv, LockedAt
<1> DEFINE i == Branch_Hints(Unusual_Segment(Unused_Prefixes(ins)))
           refused == \/ i.lock /\ ~IsValidLockPrefix(i)
                      \/ i.length \notin 1..X86_MAX_INSTRUCTION_LEN
           j == AbortIf(i, refused)
<1>2. Continue(j, "references")
  BY DEF PostChecks
<1>3. Follows(ins, i)
  BY <1>1, UnusedChecks
<1>4. ~refused => (i.lock => IsValidLockPrefix(i))
  OBVIOUS
<1> HIDE DEF i, refused
<1>5. Typed(i) /\ Found(i)
  BY <1>1, <1>3, FollowsFound DEF Follows
<1>6. RegisterFirst(i) => ~IsValidLockPrefix(i)
  <2>1. RegisterFirst(i) => ~i.dstAddressing
    BY <1>1, <1>3 DEF Follows, RegisterFirst, Unwritten
  <2> QED BY <2>1 DEF IsValidLockPrefix
<1>7. ~refused => Allowed
  BY <1>4, <1>5, <1>6, LockValid DEF Allowed, Found
<1>8. j.address = dwRet /\ (refused => j.aborted)
  BY <1>5, Staying, AbortedRow DEF Stays, Found
<1> HIDE DEF j
<1>9. ~j.aborted => LockedAt("references", j)
  BY <1>7, <1>8 DEF LockedAt
<1> QED BY <1>2, <1>9, LockContinued DEF Decoding

LEMMA ReferencesLocks == DecodeInv /\ LocksInv /\ References => LocksInv'
<1> SUFFICES ASSUME DecodeInv, LocksInv, References PROVE LocksInv'
  OBVIOUS
<1>1. pc = "references" /\ Typed(ins) /\ ins.address = dwRet /\ Allowed
  BY DEF References, DecodeInv, LocksInv, LockedAt
<1> DEFINE b == CodeBranch(ins)
           d1 == DataReference(ins, 1)
           d2 == DataReference(d1, 2)
           d3 == DataReference(d2, 3)
           j == IF ins.row.type \in EXEC THEN b ELSE d3
<1>2. Continue(j, "decoded")
  BY DEF References
<1>3. Stands(ins, b)
  BY <1>1, BranchStands
<1>4. Stands(ins, d1)
  BY <1>1, DataStands
<1> HIDE DEF b, d1
<1>5. Stands(d1, d2)
  BY <1>4, DataStands DEF Stands, Follows
<1> HIDE DEF d2
<1>6. Stands(d2, d3)
  BY <1>5, DataStands DEF Stands, Follows
<1> HIDE DEF d3
<1>7. j.address = ins.address
  BY <1>3, <1>4, <1>5, <1>6 DEF Stands, Follows
<1> HIDE DEF j
<1>8. LockedAt("decoded", j)
  BY <1>1, <1>7 DEF LockedAt
<1> QED BY <1>2, <1>8, LockContinued DEF Decoding

LEMMA EndLocks ==
  DecodeInv /\ LocksInv /\ (GetInstructionFails \/ Stop \/ Skip) => LocksInv'
<1> SUFFICES ASSUME DecodeInv, LocksInv, GetInstructionFails \/ Stop \/ Skip PROVE LocksInv'
  OBVIOUS
<1>1. CASE GetInstructionFails \/ Stop
  <2>1. pc' \in {"failed", "done"}
    BY <1>1 DEF GetInstructionFails, Stop
  <2> QED BY <2>1 DEF LocksInv, LockedAt
<1>2. CASE Skip
  <2>1. /\ ins' = X86_InitInstruction(dwRet') /\ pc' \in {"opcode", "done"}
    BY <1>2 DEF Skip
  <2>2. /\ ins'.address = dwRet' /\ ins'.group = 0 /\ ins'.length = 0
        /\ ~ins'.dstAddressing /\ \A k \in 1..3 : ~ins'.operands[k].dst
    BY <2>1 DEF X86_InitInstruction, NoOperand
  <2>3. 0..(ins'.length - 1) = {}
    BY <2>2
  <2> QED BY <2>1, <2>2, <2>3 DEF LocksInv, LockedAt, Blank
<1> QED BY <1>1, <1>2

LEMMA InitLocks == Init => LocksInv
<1> SUFFICES ASSUME Init PROVE LocksInv
  OBVIOUS
<1>1. ins = X86_InitInstruction(0) /\ dwRet = 0 /\ pc = "opcode"
  BY DEF Init
<1>2. /\ ins.address = dwRet /\ ins.group = 0 /\ ins.length = 0
      /\ ~ins.dstAddressing /\ \A k \in 1..3 : ~ins.operands[k].dst
  BY <1>1 DEF X86_InitInstruction, NoOperand
<1>3. 0..(ins.length - 1) = {}
  BY <1>2
<1> QED BY <1>1, <1>2, <1>3 DEF LocksInv, LockedAt, Blank

LEMMA NextLocks == DecodeInv /\ LocksInv /\ [Next]_vars => LocksInv'
<1> SUFFICES ASSUME DecodeInv, LocksInv, [Next]_vars PROVE LocksInv'
  OBVIOUS
<1>1. CASE UNCHANGED vars
  <2>1. code' = code /\ dwRet' = dwRet /\ ins' = ins /\ pc' = pc
    BY <1>1 DEF vars
  <2> QED BY <2>1 DEF LocksInv, LockedAt, Found, Blank, Unwritten, Written, RegisterFirst,
                      Allowed, GroupOf, reg, BitTest, At
<1>2. CASE Next
  <2>1. Finished => UNCHANGED vars
    BY DEF Finished
  <2> QED BY <1>1, <1>2, <2>1, PrefixLocks, OneByteLocks, OneByteGroupLocks, FPULocks,
             InvalidTwoByteLocks, TwoByteLocks, TwoByteGroupLocks, SSELocks, ModRMLocks,
             SuffixOperandsLocks, SuffixLocks, Extension64Locks, CheckLocks, OperandsLocks,
             PostLocks, ReferencesLocks, EndLocks DEF Next
<1> QED BY <1>1, <1>2

-----------------------------------------------------------------------------
(* Every step goes on. *)

LEMMA Places ==
  /\ Place["opcode"] = 1 /\ Place["suffix"] = 2 /\ Place["check"] = 3 /\ Place["operands"] = 4
  /\ Place["post"] = 5 /\ Place["references"] = 6 /\ Place["decoded"] = 7
  /\ Place["aborted"] = 8 /\ Place["failed"] = 9 /\ Place["done"] = 10
<1>1. DOMAIN Order = 1..10
  BY DEF Order
<1>2. \A m, n \in 1..10 : Order[m] = Order[n] => m = n
  BY DEF Order
<1>3. ASSUME NEW n \in 1..10 PROVE Place[Order[n]] = n
  <2>1. Order[n] \in Parts
    BY <1>1 DEF Parts
  <2>2. Place[Order[n]] = CHOOSE m \in 1..10 : Order[m] = Order[n]
    BY <1>1, <2>1 DEF Place
  <2> QED BY <1>2, <2>2
<1>4. /\ Order[1] = "opcode" /\ Order[2] = "suffix" /\ Order[3] = "check"
      /\ Order[4] = "operands" /\ Order[5] = "post" /\ Order[6] = "references"
      /\ Order[7] = "decoded" /\ Order[8] = "aborted" /\ Order[9] = "failed"
      /\ Order[10] = "done"
  BY DEF Order
<1> QED BY <1>3, <1>4

LEMMA Onwards ==
  ASSUME NEW i, NEW next, Continue(i, next), Place[next] > Place[pc],
         pc \in {"opcode", "suffix", "check", "operands", "post", "references"}
  PROVE  Advance
BY Places DEF Continue, Advance

LEMMA PrefixAdvances ==
  ASSUME DecodeInv, Prefix
  PROVE  Advance
<1>1. /\ ins'.length = ins.length + 1 /\ dwRet' = dwRet
      /\ pc = "opcode" /\ pc' \in {"failed", "aborted", "opcode"}
  BY PrefixRead
<1>2. ins.length \in Nat
  BY <1>1 DEF DecodeInv, PrefixInv
<1>3. CASE pc' = "opcode"
  <2>1. ins'.length > ins.length
    BY <1>1, <1>2
  <2> QED BY <1>1, <1>3, <2>1 DEF Advance
<1>4. CASE pc' \in {"failed", "aborted"}
  BY <1>1, <1>4, Places DEF Advance
<1> QED BY <1>1, <1>3, <1>4

LEMMA OpcodeAdvances ==
  ASSUME \/ OneByteOpcode \/ OneByteGroup \/ FPU_Extension
         \/ InvalidTwoByteOpcode \/ TwoByteOpcode \/ TwoByteGroup \/ SSE
         \/ ModRM_Extension \/ Suffix_Operands \/ Extension_64
  PROVE  Advance
<1>1. pc = "opcode"
  BY DEF OneByteOpcode, OneByteGroup, FPU_Extension, InvalidTwoByteOpcode, TwoByteOpcode,
         TwoByteGroup, SSE, ModRM_Extension, Suffix_Operands, Extension_64, Escaped
<1>2. \E i : Continue(i, "check") \/ Continue(i, "suffix")
  BY DEF OneByteOpcode, OneByteGroup, FPU_Extension, InvalidTwoByteOpcode, TwoByteOpcode,
         TwoByteGroup, SSE, ModRM_Extension, Suffix_Operands, Extension_64
<1>3. PICK i : Continue(i, "check") \/ Continue(i, "suffix")
  BY <1>2
<1>4. Place["check"] > Place["opcode"] /\ Place["suffix"] > Place["opcode"]
  BY Places
<1> QED BY <1>1, <1>3, <1>4, Onwards

LEMMA PartAdvances ==
  ASSUME Suffix_Extension \/ CheckPrefixes \/ Operands \/ PostChecks \/ References
  PROVE  Advance
<1>1. CASE Suffix_Extension
  <2>1. pc = "suffix" /\ \E i : Continue(i, "check")
    BY <1>1 DEF Suffix_Extension
  <2> QED BY <2>1, Places, Onwards
<1>2. CASE CheckPrefixes
  <2>1. pc = "check" /\ \E i : Continue(i, "operands")
    BY <1>2 DEF CheckPrefixes
  <2> QED BY <2>1, Places, Onwards
<1>3. CASE Operands
  <2>1. pc = "operands" /\ \E i : Continue(i, "post")
    BY <1>3 DEF Operands
  <2> QED BY <2>1, Places, Onwards
<1>4. CASE PostChecks
  <2>1. pc = "post" /\ \E i : Continue(i, "references")
    BY <1>4 DEF PostChecks
  <2> QED BY <2>1, Places, Onwards
<1>5. CASE References
  <2>1. pc = "references" /\ \E i : Continue(i, "decoded")
    BY <1>5 DEF References
  <2> QED BY <2>1, Places, Onwards
<1> QED BY <1>1, <1>2, <1>3, <1>4, <1>5

LEMMA EndAdvances ==
  ASSUME DecodeInv, GetInstructionFails \/ Stop \/ Skip
  PROVE  Advance
<1>1. CASE GetInstructionFails
  BY <1>1, Places DEF GetInstructionFails, Advance
<1>2. CASE Stop
  BY <1>2, Places DEF Stop, Advance
<1>3. CASE Skip
  <2> DEFINE n == ins.length
  <2>1. dwRet' = dwRet + n
    BY <1>3 DEF Skip
  <2>2. dwRet \in Nat /\ n \in 1..15
    BY <1>3 DEF Skip, DecodeInv, SkipInv, LengthInv, X86_MAX_INSTRUCTION_LEN
  <2> HIDE DEF n
  <2>3. dwRet' > dwRet
    BY <2>1, <2>2
  <2> QED BY <2>3 DEF Advance
<1> QED BY <1>1, <1>2, <1>3

LEMMA NextAdvances == DecodeInv /\ [Next]_vars => [Advance]_vars
BY PrefixAdvances, OpcodeAdvances, PartAdvances, EndAdvances DEF Next, Finished

-----------------------------------------------------------------------------
(* The theorems. *)

(* What is read of an instruction agrees with what the decoder has noted,  *)
(* whatever the machine code.                                              *)
THEOREM Decodes == Spec => []DecodeInv
BY InitDecodes, NextDecodes, PTL DEF Spec

(* The decoder's fields stay in their ranges, at most 15 prefixes are      *)
(* listed, and a decoded instruction has 1 to 15 bytes (disasm_x86.c:1184, *)
(* 2104).                                                                  *)
THEOREM Typing == Spec => []TypeOK
<1>1. DecodeInv => TypeOK
  <2> SUFFICES ASSUME DecodeInv PROVE TypeOK
    OBVIOUS
  <2>1. Typed(ins) /\ SkipInv /\ LengthInv
    BY DEF DecodeInv
  <2>2. dwRet \in 0..(dwMinLen + X86_MAX_INSTRUCTION_LEN - 1)
    BY <2>1, MinLenAssumption DEF SkipInv, X86_MAX_INSTRUCTION_LEN
  <2> QED BY <2>1, <2>2 DEF TypeOK, Typed, SkipInv, LengthInv
<1> QED BY <1>1, Decodes, PTL

(* DisassembleAndSkip (mhook.cpp:562-566) stops at every jump, call and    *)
(* return that the encoding knows, behind whatever prefixes.               *)
THEOREM NoBranchMoved == Spec => []StopsAtBranches
<1>1. DecodeInv => StopsAtBranches
  BY DEF DecodeInv, MovedInv, StopsAtBranches
<1> QED BY <1>1, Decodes, PTL

(* What is moved and the jump back fit in codeTrampoline                   *)
(* (mhook.cpp:98-108, 662-663).                                            *)
THEOREM TrampolineHolds == Spec => []SkipFits
<1>1. DecodeInv => SkipFits
  BY MinLenAssumption
     DEF DecodeInv, SkipInv, SkipFits, MHOOK_JMPSIZE, MHOOKS_MAX_CODE_BYTES,
         X86_MAX_INSTRUCTION_LEN
<1> QED BY <1>1, Decodes, PTL

(* No step of the decoder or of DisassembleAndSkip's loop (mhook.cpp:560)  *)
(* leaves it where it was.                                                 *)
THEOREM Onward == Spec => SkipAdvances
<1>1. DecodeInv /\ [Next]_vars => [Advance]_vars
  BY NextAdvances
<1> QED BY <1>1, Decodes, PTL DEF Spec, SkipAdvances

(* An instruction that is decoded has a LOCK prefix only if the encoding   *)
(* allows one on it, or it is BT: the prefix has been noted, the opcode,   *)
(* the group and the ModRM byte are those of the encoding, and an          *)
(* instruction that writes a register has no address it writes to          *)
(* (disasm_x86.c:1955-1963, 4611-4662).                                    *)
THEOREM LocksWhereAllowed == Spec => []LockedWritesMemory
<1>1. Init => DecodeInv /\ LocksInv
  BY InitDecodes, InitLocks
<1>2. (DecodeInv /\ LocksInv) /\ [Next]_vars => (DecodeInv /\ LocksInv)'
  BY NextDecodes, NextLocks
<1>3. LocksInv => LockedWritesMemory
  BY DEF LocksInv, LockedAt, Allowed, LockedWritesMemory
<1> QED BY <1>1, <1>2, <1>3, PTL DEF Spec

-----------------------------------------------------------------------------
(* What the decoder reads for the operands of a row. *)

Registers == {"fixed", "P", "V", "G", "S", "C", "D"}
ModRMModes == {"M", "E", "Q", "W", "PR", "VR", "R"}
MemoryModes == {"M", "E", "Q", "W", "X", "Y", "xlat", "J", "O", "A"}
LargeSizes == {"fev", "fst1", "fst2"}
SmallSizes == OperandSizes \ LargeSizes

RegisterOp(o) ==
  /\ o.mode \in Registers /\ o.size \in (IF o.mode = "fixed" THEN {"fixed"} ELSE SmallSizes)
  /\ o.mode = "G" => o.size \in {"b", "v", "w", "z", "d", "dq"}
ModRMOp(o) ==
  /\ o.mode \in ModRMModes /\ o.size \in SmallSizes
  /\ o.mode = "E" => o.size \in {"b", "v", "w", "mw", "d", "dq", "p"}
LargeOp(o) == o.mode = "M" /\ o.size \in LargeSizes
StringOp(o) == o.mode \in {"X", "Y", "xlat"} /\ o.size \in SmallSizes
ImmediateOp(o) == o.mode = "I" /\ o.size \in {"b", "w", "z", "v"}
JumpOp(o) == o.mode = "J" /\ o.size \in {"b", "z"}
OffsetOp(o) == o.mode = "O" /\ o.size \in {"b", "v"}
FarOp(o) == o.mode = "A" /\ o.size = "p"
KnownOp(o) ==
  \/ RegisterOp(o) \/ ModRMOp(o) \/ LargeOp(o) \/ StringOp(o) \/ ImmediateOp(o)
  \/ JumpOp(o) \/ OffsetOp(o) \/ FarOp(o)

(* The bytes of an operand, where the addressing takes a bytes behind the  *)
(* ModRM byte, an operand has z bytes and an address s.                    *)
SizedBytes(size, z) == IF size = "b" THEN 1 ELSE IF size = "w" THEN 2 ELSE z
Bytes(o, a, z, s) ==
  IF o.mode \in ModRMModes THEN a
  ELSE IF o.mode \in {"I", "J"} THEN SizedBytes(o.size, z)
  ELSE IF o.mode = "O" THEN s
  ELSE IF o.mode = "A" THEN z + 2
  ELSE 0

NthBytes(ops, k, a, z, s) == IF k <= Len(ops) THEN Bytes(ops[k], a, z, s) ELSE 0
AllBytes(ops, a, z, s) ==
  NthBytes(ops, 1, a, z, s) + NthBytes(ops, 2, a, z, s) + NthBytes(ops, 3, a, z, s)

(* The kinds of immediates, and their bytes. *)
Immediates(kind, z, s) ==
  IF kind = "byte" THEN 1 ELSE IF kind = "word" THEN 2 ELSE IF kind = "operand" THEN z
  ELSE IF kind = "enter" THEN 3 ELSE IF kind = "far" THEN z + 2 ELSE IF kind = "offset" THEN s
  ELSE 0

(* The operands take what the encoding has: the bytes behind the ModRM     *)
(* byte, where one follows, and these immediates; and the addressing is    *)
(* read first.                                                             *)
OpsFit(ops, m, kind) ==
  /\ Len(ops) \in 0..3
  /\ \A k \in 1..Len(ops) : KnownOp(ops[k])
  /\ \A j, k \in 1..Len(ops) : j < k /\ ops[k].mode \in ModRMModes => ops[j].mode \in Registers
  /\ \A j, k \in 1..Len(ops) : j # k /\ ops[k].mode \in {"J", "O", "A"} => ops[j].mode = "fixed"
  /\ \A a, z, s \in Nat : AllBytes(ops, a, z, s) = (IF m THEN a ELSE 0) + Immediates(kind, z, s)

(* No two operands in memory are written, nor read, but those that a       *)
(* string instruction compares.                                            *)
OneInMemory(ops) ==
  \A j, k \in 1..Len(ops) : j # k => ~(ops[j].mode \in MemoryModes /\ ops[k].mode \in MemoryModes)
Strings(row) ==
  /\ Len(row.ops) = 2
  /\ ~(1 \in row.dst /\ 2 \in row.dst)
  /\ row.type = "STRCMP" \/ ~(1 \in row.src /\ 2 \in row.src)

(* The types for which Check_Segment sets the segment.                     *)
SegmentTypes ==
  {"PUSHF", "POPF", "ENTER", "LEAVE", "RET", "DEBUG", "OFLOW", "TRAP", "TRAPRET"}

RowFits(row, m, kind) ==
  /\ OpsFit(row.ops, m, kind)
  /\ row.dst \subseteq {1, 2}
  /\ OneInMemory(row.ops) \/ Strings(row)
  /\ row.type \in SegmentTypes => \A k \in 1..Len(row.ops) : row.ops[k].mode \notin {"M", "O"}

-----------------------------------------------------------------------------
(* The lists of operands that there are. *)

LEMMA ModesApart ==
  ASSUME NEW o
  PROVE  /\ RegisterOp(o) => o.mode \in Registers /\ KnownOp(o)
         /\ ModRMOp(o) => o.mode \in ModRMModes /\ KnownOp(o)
         /\ LargeOp(o) => o.mode \in ModRMModes /\ KnownOp(o)
         /\ StringOp(o) => o.mode \in {"X", "Y", "xlat"} /\ KnownOp(o)
         /\ ImmediateOp(o) => o.mode = "I" /\ o.size \in {"b", "w", "z", "v"} /\ KnownOp(o)
         /\ JumpOp(o) => o.mode = "J" /\ o.size \in {"b", "z"} /\ KnownOp(o)
         /\ OffsetOp(o) => o.mode = "O" /\ KnownOp(o)
         /\ FarOp(o) => o.mode = "A" /\ KnownOp(o)
<1>1. "M" \in ModRMModes
  BY DEF ModRMModes
<1> QED BY <1>1 DEF RegisterOp, ModRMOp, LargeOp, StringOp, ImmediateOp, JumpOp, OffsetOp,
                 FarOp, KnownOp

LEMMA BytesOf ==
  ASSUME NEW o, NEW a \in Nat, NEW z \in Nat, NEW s \in Nat
  PROVE  /\ RegisterOp(o) \/ StringOp(o) => Bytes(o, a, z, s) = 0
         /\ ModRMOp(o) \/ LargeOp(o) => Bytes(o, a, z, s) = a
         /\ ImmediateOp(o) \/ JumpOp(o) => Bytes(o, a, z, s) = SizedBytes(o.size, z)
         /\ OffsetOp(o) => Bytes(o, a, z, s) = s
         /\ FarOp(o) => Bytes(o, a, z, s) = z + 2
BY ModesApart DEF Bytes, Registers, ModRMModes

KindOfSize(size) == IF size = "b" THEN "byte" ELSE IF size = "w" THEN "word" ELSE "operand"

LEMMA ImmediatesOf ==
  ASSUME NEW size \in {"b", "w", "z", "v"}, NEW z, NEW s
  PROVE  Immediates(KindOfSize(size), z, s) = SizedBytes(size, z)
BY DEF Immediates, KindOfSize, SizedBytes

LEMMA NoOperands ==
  /\ OpsFit(<<>>, FALSE, "none") /\ OneInMemory(<<>>)
<1>1. Len(<<>>) = 0
  OBVIOUS
<1>2. \A a, z, s : AllBytes(<<>>, a, z, s) = 0
  BY <1>1 DEF AllBytes, NthBytes
<1> QED BY <1>1, <1>2 DEF OpsFit, OneInMemory, Immediates

LEMMA OneOp ==
  ASSUME NEW o, NEW m \in BOOLEAN, NEW kind, KnownOp(o),
         \A a, z, s \in Nat : Bytes(o, a, z, s) = (IF m THEN a ELSE 0) + Immediates(kind, z, s)
  PROVE  OpsFit(<<o>>, m, kind) /\ OneInMemory(<<o>>)
<1> DEFINE ops == <<o>>
<1>1. Len(ops) = 1 /\ ops[1] = o
  OBVIOUS
<1> HIDE DEF ops
<1>2. ASSUME NEW a \in Nat, NEW z \in Nat, NEW s \in Nat
      PROVE  AllBytes(ops, a, z, s) = (IF m THEN a ELSE 0) + Immediates(kind, z, s)
  <2> DEFINE n == Bytes(o, a, z, s)
             t == (IF m THEN a ELSE 0) + Immediates(kind, z, s)
  <2>1. AllBytes(ops, a, z, s) = n + 0 + 0
    BY <1>1 DEF AllBytes, NthBytes
  <2>2. n = t
    OBVIOUS
  <2>3. n \in Int
    BY DEF Bytes, SizedBytes
  <2> QED BY <2>1, <2>2, <2>3
<1>3. OpsFit(ops, m, kind)
  BY <1>1, <1>2 DEF OpsFit
<1>4. OneInMemory(ops)
  BY <1>1 DEF OneInMemory
<1> QED BY <1>3, <1>4 DEF ops

LEMMA TwoOps ==
  ASSUME NEW o, NEW p, NEW m \in BOOLEAN, NEW kind, KnownOp(o), KnownOp(p),
         p.mode \in ModRMModes => o.mode \in Registers,
         p.mode \in {"J", "O", "A"} => o.mode = "fixed",
         o.mode \in {"J", "O", "A"} => p.mode = "fixed",
         \A a, z, s \in Nat : Bytes(o, a, z, s) + Bytes(p, a, z, s)
                               = (IF m THEN a ELSE 0) + Immediates(kind, z, s)
  PROVE  /\ OpsFit(<<o, p>>, m, kind)
         /\ o.mode \notin MemoryModes \/ p.mode \notin MemoryModes => OneInMemory(<<o, p>>)
<1> DEFINE ops == <<o, p>>
<1>1. Len(ops) = 2 /\ ops[1] = o /\ ops[2] = p
  OBVIOUS
<1> HIDE DEF ops
<1>2. ASSUME NEW a \in Nat, NEW z \in Nat, NEW s \in Nat
      PROVE  AllBytes(ops, a, z, s) = (IF m THEN a ELSE 0) + Immediates(kind, z, s)
  <2> DEFINE n == Bytes(o, a, z, s)
             k == Bytes(p, a, z, s)
             t == (IF m THEN a ELSE 0) + Immediates(kind, z, s)
  <2>1. AllBytes(ops, a, z, s) = n + k + 0
    BY <1>1 DEF AllBytes, NthBytes
  <2>2. n + k = t
    OBVIOUS
  <2>3. n \in Int /\ k \in Int
    BY DEF Bytes, SizedBytes
  <2> HIDE DEF n, k, t
  <2>4. AllBytes(ops, a, z, s) = t
    BY <2>1, <2>2, <2>3
  <2> QED BY <2>4 DEF t
<1>3. \A k \in 1..2 : k = 1 \/ k = 2
  OBVIOUS
<1>4. /\ \A k \in 1..2 : KnownOp(ops[k])
      /\ \A j, k \in 1..2 : j < k /\ ops[k].mode \in ModRMModes => ops[j].mode \in Registers
      /\ \A j, k \in 1..2 : j # k /\ ops[k].mode \in {"J", "O", "A"} => ops[j].mode = "fixed"
  BY <1>1, <1>3
<1>5. OpsFit(ops, m, kind)
  BY <1>1, <1>2, <1>4 DEF OpsFit
<1>6. o.mode \notin MemoryModes \/ p.mode \notin MemoryModes => OneInMemory(ops)
  BY <1>1, <1>3 DEF OneInMemory
<1> QED BY <1>5, <1>6 DEF ops

LEMMA ThreeOps ==
  ASSUME NEW o, NEW p, NEW q, NEW m \in BOOLEAN, NEW kind, KnownOp(o), KnownOp(p), KnownOp(q),
         p.mode \in ModRMModes => o.mode \in Registers,
         q.mode \in Registers \union {"I"}, o.mode \in Registers \union ModRMModes,
         p.mode \in Registers \union ModRMModes \union {"I"},
         o.mode \in Registers \/ p.mode \in Registers,
         \A a, z, s \in Nat : Bytes(o, a, z, s) + Bytes(p, a, z, s) + Bytes(q, a, z, s)
                               = (IF m THEN a ELSE 0) + Immediates(kind, z, s)
  PROVE  OpsFit(<<o, p, q>>, m, kind) /\ OneInMemory(<<o, p, q>>)
<1> DEFINE ops == <<o, p, q>>
<1>1. Len(ops) = 3 /\ ops[1] = o /\ ops[2] = p /\ ops[3] = q
  OBVIOUS
<1> HIDE DEF ops
<1>2. ASSUME NEW a \in Nat, NEW z \in Nat, NEW s \in Nat
      PROVE  AllBytes(ops, a, z, s) = (IF m THEN a ELSE 0) + Immediates(kind, z, s)
  <2> DEFINE n == Bytes(o, a, z, s)
             k == Bytes(p, a, z, s)
             l == Bytes(q, a, z, s)
             t == (IF m THEN a ELSE 0) + Immediates(kind, z, s)
  <2>1. AllBytes(ops, a, z, s) = n + k + l
    BY <1>1 DEF AllBytes, NthBytes
  <2>2. n + k + l = t
    OBVIOUS
  <2> HIDE DEF n, k, l, t
  <2>3. AllBytes(ops, a, z, s) = t
    BY <2>1, <2>2
  <2> QED BY <2>3 DEF t
<1>3. \A k \in 1..3 : k = 1 \/ k = 2 \/ k = 3
  OBVIOUS
<1>4. /\ q.mode \notin ModRMModes \union {"J", "O", "A"} \union MemoryModes
      /\ p.mode \notin {"J", "O", "A"} /\ o.mode \notin {"J", "O", "A"}
      /\ o.mode \notin MemoryModes \/ p.mode \notin MemoryModes
  BY DEF Registers, ModRMModes, MemoryModes
<1>5. /\ \A k \in 1..3 : KnownOp(ops[k])
      /\ \A j, k \in 1..3 : j < k /\ ops[k].mode \in ModRMModes => ops[j].mode \in Registers
      /\ \A j, k \in 1..3 : j # k /\ ops[k].mode \in {"J", "O", "A"} => ops[j].mode = "fixed"
  BY <1>1, <1>3, <1>4
<1>6. OpsFit(ops, m, kind)
  BY <1>1, <1>2, <1>5 DEF OpsFit
<1>7. OneInMemory(ops)
  BY <1>1, <1>3, <1>4 DEF OneInMemory
<1> QED BY <1>6, <1>7 DEF ops

(* The lists of operands with at most one of them in memory.               *)
ListFits(ops, m, kind) == OpsFit(ops, m, kind) /\ OneInMemory(ops)

LEMMA OfRegister ==
  ASSUME NEW o, RegisterOp(o)
  PROVE  ListFits(<<o>>, FALSE, "none")
<1>1. KnownOp(o)
  BY ModesApart
<1> DEFINE kind == "none"
<1>2. ASSUME NEW a \in Nat, NEW z \in Nat, NEW s \in Nat
      PROVE  Bytes(o, a, z, s)
             = (IF FALSE THEN a ELSE 0) + Immediates(kind, z, s)
  <2>1. Bytes(o, a, z, s) = 0
    BY BytesOf
  <2>2. Immediates(kind, z, s) = 0
    BY DEF Immediates
  <2> HIDE DEF kind
  <2> QED BY <2>1, <2>2
<1> HIDE DEF kind
<1>3. ListFits(<<o>>, FALSE, kind)
  BY <1>1, <1>2, OneOp DEF ListFits
<1> QED BY <1>3 DEF kind

LEMMA OfMemory ==
  ASSUME NEW o, ModRMOp(o)
  PROVE  ListFits(<<o>>, TRUE, "none")
<1>1. KnownOp(o)
  BY ModesApart
<1> DEFINE kind == "none"
<1>2. ASSUME NEW a \in Nat, NEW z \in Nat, NEW s \in Nat
      PROVE  Bytes(o, a, z, s)
             = (IF TRUE THEN a ELSE 0) + Immediates(kind, z, s)
  <2>1. Bytes(o, a, z, s) = a
    BY BytesOf
  <2>2. Immediates(kind, z, s) = 0
    BY DEF Immediates
  <2> HIDE DEF kind
  <2> QED BY <2>1, <2>2
<1> HIDE DEF kind
<1>3. ListFits(<<o>>, TRUE, kind)
  BY <1>1, <1>2, OneOp DEF ListFits
<1> QED BY <1>3 DEF kind

LEMMA OfImmediate ==
  ASSUME NEW o, ImmediateOp(o)
  PROVE  ListFits(<<o>>, FALSE, KindOfSize(o.size))
<1>1. KnownOp(o)
  BY ModesApart
<1> DEFINE kind == KindOfSize(o.size)
<1>2. ASSUME NEW a \in Nat, NEW z \in Nat, NEW s \in Nat
      PROVE  Bytes(o, a, z, s)
             = (IF FALSE THEN a ELSE 0) + Immediates(kind, z, s)
  <2>1. Bytes(o, a, z, s) = SizedBytes(o.size, z)
    BY BytesOf
  <2>2. Immediates(kind, z, s) = SizedBytes(o.size, z) /\ SizedBytes(o.size, z) \in Int
    BY ModesApart, ImmediatesOf DEF SizedBytes
  <2> HIDE DEF kind
  <2> QED BY <2>1, <2>2
<1> HIDE DEF kind
<1>3. ListFits(<<o>>, FALSE, kind)
  BY <1>1, <1>2, OneOp DEF ListFits
<1> QED BY <1>3 DEF kind

LEMMA OfJump ==
  ASSUME NEW o, JumpOp(o)
  PROVE  ListFits(<<o>>, FALSE, KindOfSize(o.size))
<1>1. KnownOp(o)
  BY ModesApart
<1> DEFINE kind == KindOfSize(o.size)
<1>2. ASSUME NEW a \in Nat, NEW z \in Nat, NEW s \in Nat
      PROVE  Bytes(o, a, z, s)
             = (IF FALSE THEN a ELSE 0) + Immediates(kind, z, s)
  <2>1. Bytes(o, a, z, s) = SizedBytes(o.size, z)
    BY BytesOf
  <2>2. Immediates(kind, z, s) = SizedBytes(o.size, z) /\ SizedBytes(o.size, z) \in Int
    BY ModesApart, ImmediatesOf DEF SizedBytes
  <2> HIDE DEF kind
  <2> QED BY <2>1, <2>2
<1> HIDE DEF kind
<1>3. ListFits(<<o>>, FALSE, kind)
  BY <1>1, <1>2, OneOp DEF ListFits
<1> QED BY <1>3 DEF kind

LEMMA OfFar ==
  ASSUME NEW o, FarOp(o)
  PROVE  ListFits(<<o>>, FALSE, "far")
<1>1. KnownOp(o)
  BY ModesApart
<1> DEFINE kind == "far"
<1>2. ASSUME NEW a \in Nat, NEW z \in Nat, NEW s \in Nat
      PROVE  Bytes(o, a, z, s)
             = (IF FALSE THEN a ELSE 0) + Immediates(kind, z, s)
  <2>1. Bytes(o, a, z, s) = z + 2
    BY BytesOf
  <2>2. Immediates(kind, z, s) = z + 2
    BY DEF Immediates
  <2> HIDE DEF kind
  <2> QED BY <2>1, <2>2
<1> HIDE DEF kind
<1>3. ListFits(<<o>>, FALSE, kind)
  BY <1>1, <1>2, OneOp DEF ListFits
<1> QED BY <1>3 DEF kind

LEMMA OfRegisterRegister ==
  ASSUME NEW o, NEW p, RegisterOp(o), RegisterOp(p)
  PROVE  ListFits(<<o, p>>, FALSE, "none")
<1>1. KnownOp(o) /\ KnownOp(p)
  BY ModesApart
<1> DEFINE kind == "none"
<1>2. ASSUME NEW a \in Nat, NEW z \in Nat, NEW s \in Nat
      PROVE  Bytes(o, a, z, s) + Bytes(p, a, z, s)
             = (IF FALSE THEN a ELSE 0) + Immediates(kind, z, s)
  <2>1. Bytes(o, a, z, s) = 0 /\ Bytes(p, a, z, s) = 0
    BY BytesOf
  <2>2. Immediates(kind, z, s) = 0
    BY DEF Immediates
  <2> HIDE DEF kind
  <2> QED BY <2>1, <2>2
<1> HIDE DEF kind
<1>3. /\ p.mode \in ModRMModes => o.mode \in Registers
      /\ p.mode \in {"J", "O", "A"} => o.mode = "fixed"
      /\ o.mode \in {"J", "O", "A"} => p.mode = "fixed"
      /\ o.mode \notin MemoryModes \/ p.mode \notin MemoryModes
  BY ModesApart DEF Registers, ModRMModes, MemoryModes
<1>4. ListFits(<<o, p>>, FALSE, kind)
  BY <1>1, <1>2, <1>3, TwoOps DEF ListFits
<1> QED BY <1>4 DEF kind

LEMMA OfMemoryRegister ==
  ASSUME NEW o, NEW p, ModRMOp(o), RegisterOp(p)
  PROVE  ListFits(<<o, p>>, TRUE, "none")
<1>1. KnownOp(o) /\ KnownOp(p)
  BY ModesApart
<1> DEFINE kind == "none"
<1>2. ASSUME NEW a \in Nat, NEW z \in Nat, NEW s \in Nat
      PROVE  Bytes(o, a, z, s) + Bytes(p, a, z, s)
             = (IF TRUE THEN a ELSE 0) + Immediates(kind, z, s)
  <2>1. Bytes(o, a, z, s) = a /\ Bytes(p, a, z, s) = 0
    BY BytesOf
  <2>2. Immediates(kind, z, s) = 0
    BY DEF Immediates
  <2> HIDE DEF kind
  <2> QED BY <2>1, <2>2
<1> HIDE DEF kind
<1>3. /\ p.mode \in ModRMModes => o.mode \in Registers
      /\ p.mode \in {"J", "O", "A"} => o.mode = "fixed"
      /\ o.mode \in {"J", "O", "A"} => p.mode = "fixed"
      /\ o.mode \notin MemoryModes \/ p.mode \notin MemoryModes
  BY ModesApart DEF Registers, ModRMModes, MemoryModes
<1>4. ListFits(<<o, p>>, TRUE, kind)
  BY <1>1, <1>2, <1>3, TwoOps DEF ListFits
<1> QED BY <1>4 DEF kind

LEMMA OfRegisterMemory ==
  ASSUME NEW o, NEW p, RegisterOp(o), ModRMOp(p)
  PROVE  ListFits(<<o, p>>, TRUE, "none")
<1>1. KnownOp(o) /\ KnownOp(p)
  BY ModesApart
<1> DEFINE kind == "none"
<1>2. ASSUME NEW a \in Nat, NEW z \in Nat, NEW s \in Nat
      PROVE  Bytes(o, a, z, s) + Bytes(p, a, z, s)
             = (IF TRUE THEN a ELSE 0) + Immediates(kind, z, s)
  <2>1. Bytes(o, a, z, s) = 0 /\ Bytes(p, a, z, s) = a
    BY BytesOf
  <2>2. Immediates(kind, z, s) = 0
    BY DEF Immediates
  <2> HIDE DEF kind
  <2> QED BY <2>1, <2>2
<1> HIDE DEF kind
<1>3. /\ p.mode \in ModRMModes => o.mode \in Registers
      /\ p.mode \in {"J", "O", "A"} => o.mode = "fixed"
      /\ o.mode \in {"J", "O", "A"} => p.mode = "fixed"
      /\ o.mode \notin MemoryModes \/ p.mode \notin MemoryModes
  BY ModesApart DEF Registers, ModRMModes, MemoryModes
<1>4. ListFits(<<o, p>>, TRUE, kind)
  BY <1>1, <1>2, <1>3, TwoOps DEF ListFits
<1> QED BY <1>4 DEF kind

LEMMA OfMemoryImmediate ==
  ASSUME NEW o, NEW p, ModRMOp(o), ImmediateOp(p)
  PROVE  ListFits(<<o, p>>, TRUE, KindOfSize(p.size))
<1>1. KnownOp(o) /\ KnownOp(p)
  BY ModesApart
<1> DEFINE kind == KindOfSize(p.size)
<1>2. ASSUME NEW a \in Nat, NEW z \in Nat, NEW s \in Nat
      PROVE  Bytes(o, a, z, s) + Bytes(p, a, z, s)
             = (IF TRUE THEN a ELSE 0) + Immediates(kind, z, s)
  <2>1. Bytes(o, a, z, s) = a /\ Bytes(p, a, z, s) = SizedBytes(p.size, z)
    BY BytesOf
  <2>2. Immediates(kind, z, s) = SizedBytes(p.size, z) /\ SizedBytes(p.size, z) \in Int
    BY ModesApart, ImmediatesOf DEF SizedBytes
  <2> HIDE DEF kind
  <2> QED BY <2>1, <2>2
<1> HIDE DEF kind
<1>3. /\ p.mode \in ModRMModes => o.mode \in Registers
      /\ p.mode \in {"J", "O", "A"} => o.mode = "fixed"
      /\ o.mode \in {"J", "O", "A"} => p.mode = "fixed"
      /\ o.mode \notin MemoryModes \/ p.mode \notin MemoryModes
  BY ModesApart DEF Registers, ModRMModes, MemoryModes
<1>4. ListFits(<<o, p>>, TRUE, kind)
  BY <1>1, <1>2, <1>3, TwoOps DEF ListFits
<1> QED BY <1>4 DEF kind

LEMMA OfRegisterImmediate ==
  ASSUME NEW o, NEW p, RegisterOp(o), ImmediateOp(p)
  PROVE  ListFits(<<o, p>>, FALSE, KindOfSize(p.size))
<1>1. KnownOp(o) /\ KnownOp(p)
  BY ModesApart
<1> DEFINE kind == KindOfSize(p.size)
<1>2. ASSUME NEW a \in Nat, NEW z \in Nat, NEW s \in Nat
      PROVE  Bytes(o, a, z, s) + Bytes(p, a, z, s)
             = (IF FALSE THEN a ELSE 0) + Immediates(kind, z, s)
  <2>1. Bytes(o, a, z, s) = 0 /\ Bytes(p, a, z, s) = SizedBytes(p.size, z)
    BY BytesOf
  <2>2. Immediates(kind, z, s) = SizedBytes(p.size, z) /\ SizedBytes(p.size, z) \in Int
    BY ModesApart, ImmediatesOf DEF SizedBytes
  <2> HIDE DEF kind
  <2> QED BY <2>1, <2>2
<1> HIDE DEF kind
<1>3. /\ p.mode \in ModRMModes => o.mode \in Registers
      /\ p.mode \in {"J", "O", "A"} => o.mode = "fixed"
      /\ o.mode \in {"J", "O", "A"} => p.mode = "fixed"
      /\ o.mode \notin MemoryModes \/ p.mode \notin MemoryModes
  BY ModesApart DEF Registers, ModRMModes, MemoryModes
<1>4. ListFits(<<o, p>>, FALSE, kind)
  BY <1>1, <1>2, <1>3, TwoOps DEF ListFits
<1> QED BY <1>4 DEF kind

LEMMA OfImmediateRegister ==
  ASSUME NEW o, NEW p, ImmediateOp(o), RegisterOp(p)
  PROVE  ListFits(<<o, p>>, FALSE, KindOfSize(o.size))
<1>1. KnownOp(o) /\ KnownOp(p)
  BY ModesApart
<1> DEFINE kind == KindOfSize(o.size)
<1>2. ASSUME NEW a \in Nat, NEW z \in Nat, NEW s \in Nat
      PROVE  Bytes(o, a, z, s) + Bytes(p, a, z, s)
             = (IF FALSE THEN a ELSE 0) + Immediates(kind, z, s)
  <2>1. Bytes(o, a, z, s) = SizedBytes(o.size, z) /\ Bytes(p, a, z, s) = 0
    BY BytesOf
  <2>2. Immediates(kind, z, s) = SizedBytes(o.size, z) /\ SizedBytes(o.size, z) \in Int
    BY ModesApart, ImmediatesOf DEF SizedBytes
  <2> HIDE DEF kind
  <2> QED BY <2>1, <2>2
<1> HIDE DEF kind
<1>3. /\ p.mode \in ModRMModes => o.mode \in Registers
      /\ p.mode \in {"J", "O", "A"} => o.mode = "fixed"
      /\ o.mode \in {"J", "O", "A"} => p.mode = "fixed"
      /\ o.mode \notin MemoryModes \/ p.mode \notin MemoryModes
  BY ModesApart DEF Registers, ModRMModes, MemoryModes
<1>4. ListFits(<<o, p>>, FALSE, kind)
  BY <1>1, <1>2, <1>3, TwoOps DEF ListFits
<1> QED BY <1>4 DEF kind

LEMMA OfOffsetRegister ==
  ASSUME NEW o, NEW p, OffsetOp(o), RegisterOp(p), p.mode = "fixed"
  PROVE  ListFits(<<o, p>>, FALSE, "offset")
<1>1. KnownOp(o) /\ KnownOp(p)
  BY ModesApart
<1> DEFINE kind == "offset"
<1>2. ASSUME NEW a \in Nat, NEW z \in Nat, NEW s \in Nat
      PROVE  Bytes(o, a, z, s) + Bytes(p, a, z, s)
             = (IF FALSE THEN a ELSE 0) + Immediates(kind, z, s)
  <2>1. Bytes(o, a, z, s) = s /\ Bytes(p, a, z, s) = 0
    BY BytesOf
  <2>2. Immediates(kind, z, s) = s
    BY DEF Immediates
  <2> HIDE DEF kind
  <2> QED BY <2>1, <2>2
<1> HIDE DEF kind
<1>3. /\ p.mode \in ModRMModes => o.mode \in Registers
      /\ p.mode \in {"J", "O", "A"} => o.mode = "fixed"
      /\ o.mode \in {"J", "O", "A"} => p.mode = "fixed"
      /\ o.mode \notin MemoryModes \/ p.mode \notin MemoryModes
  BY ModesApart DEF Registers, ModRMModes, MemoryModes
<1>4. ListFits(<<o, p>>, FALSE, kind)
  BY <1>1, <1>2, <1>3, TwoOps DEF ListFits
<1> QED BY <1>4 DEF kind

LEMMA OfRegisterOffset ==
  ASSUME NEW o, NEW p, RegisterOp(o), o.mode = "fixed", OffsetOp(p)
  PROVE  ListFits(<<o, p>>, FALSE, "offset")
<1>1. KnownOp(o) /\ KnownOp(p)
  BY ModesApart
<1> DEFINE kind == "offset"
<1>2. ASSUME NEW a \in Nat, NEW z \in Nat, NEW s \in Nat
      PROVE  Bytes(o, a, z, s) + Bytes(p, a, z, s)
             = (IF FALSE THEN a ELSE 0) + Immediates(kind, z, s)
  <2>1. Bytes(o, a, z, s) = 0 /\ Bytes(p, a, z, s) = s
    BY BytesOf
  <2>2. Immediates(kind, z, s) = s
    BY DEF Immediates
  <2> HIDE DEF kind
  <2> QED BY <2>1, <2>2
<1> HIDE DEF kind
<1>3. /\ p.mode \in ModRMModes => o.mode \in Registers
      /\ p.mode \in {"J", "O", "A"} => o.mode = "fixed"
      /\ o.mode \in {"J", "O", "A"} => p.mode = "fixed"
      /\ o.mode \notin MemoryModes \/ p.mode \notin MemoryModes
  BY ModesApart DEF Registers, ModRMModes, MemoryModes
<1>4. ListFits(<<o, p>>, FALSE, kind)
  BY <1>1, <1>2, <1>3, TwoOps DEF ListFits
<1> QED BY <1>4 DEF kind

LEMMA OfRegisterString ==
  ASSUME NEW o, NEW p, RegisterOp(o), StringOp(p)
  PROVE  ListFits(<<o, p>>, FALSE, "none")
<1>1. KnownOp(o) /\ KnownOp(p)
  BY ModesApart
<1> DEFINE kind == "none"
<1>2. ASSUME NEW a \in Nat, NEW z \in Nat, NEW s \in Nat
      PROVE  Bytes(o, a, z, s) + Bytes(p, a, z, s)
             = (IF FALSE THEN a ELSE 0) + Immediates(kind, z, s)
  <2>1. Bytes(o, a, z, s) = 0 /\ Bytes(p, a, z, s) = 0
    BY BytesOf
  <2>2. Immediates(kind, z, s) = 0
    BY DEF Immediates
  <2> HIDE DEF kind
  <2> QED BY <2>1, <2>2
<1> HIDE DEF kind
<1>3. /\ p.mode \in ModRMModes => o.mode \in Registers
      /\ p.mode \in {"J", "O", "A"} => o.mode = "fixed"
      /\ o.mode \in {"J", "O", "A"} => p.mode = "fixed"
      /\ o.mode \notin MemoryModes \/ p.mode \notin MemoryModes
  BY ModesApart DEF Registers, ModRMModes, MemoryModes
<1>4. ListFits(<<o, p>>, FALSE, kind)
  BY <1>1, <1>2, <1>3, TwoOps DEF ListFits
<1> QED BY <1>4 DEF kind

LEMMA OfStringRegister ==
  ASSUME NEW o, NEW p, StringOp(o), RegisterOp(p)
  PROVE  ListFits(<<o, p>>, FALSE, "none")
<1>1. KnownOp(o) /\ KnownOp(p)
  BY ModesApart
<1> DEFINE kind == "none"
<1>2. ASSUME NEW a \in Nat, NEW z \in Nat, NEW s \in Nat
      PROVE  Bytes(o, a, z, s) + Bytes(p, a, z, s)
             = (IF FALSE THEN a ELSE 0) + Immediates(kind, z, s)
  <2>1. Bytes(o, a, z, s) = 0 /\ Bytes(p, a, z, s) = 0
    BY BytesOf
  <2>2. Immediates(kind, z, s) = 0
    BY DEF Immediates
  <2> HIDE DEF kind
  <2> QED BY <2>1, <2>2
<1> HIDE DEF kind
<1>3. /\ p.mode \in ModRMModes => o.mode \in Registers
      /\ p.mode \in {"J", "O", "A"} => o.mode = "fixed"
      /\ o.mode \in {"J", "O", "A"} => p.mode = "fixed"
      /\ o.mode \notin MemoryModes \/ p.mode \notin MemoryModes
  BY ModesApart DEF Registers, ModRMModes, MemoryModes
<1>4. ListFits(<<o, p>>, FALSE, kind)
  BY <1>1, <1>2, <1>3, TwoOps DEF ListFits
<1> QED BY <1>4 DEF kind

LEMMA OfRegisterRegisterRegister ==
  ASSUME NEW o, NEW p, NEW q, RegisterOp(o), RegisterOp(p), RegisterOp(q)
  PROVE  ListFits(<<o, p, q>>, FALSE, "none")
<1>1. KnownOp(o) /\ KnownOp(p) /\ KnownOp(q)
  BY ModesApart
<1> DEFINE kind == "none"
<1>2. ASSUME NEW a \in Nat, NEW z \in Nat, NEW s \in Nat
      PROVE  Bytes(o, a, z, s) + Bytes(p, a, z, s) + Bytes(q, a, z, s)
             = (IF FALSE THEN a ELSE 0) + Immediates(kind, z, s)
  <2>1. Bytes(o, a, z, s) = 0 /\ Bytes(p, a, z, s) = 0 /\ Bytes(q, a, z, s) = 0
    BY BytesOf
  <2>2. Immediates(kind, z, s) = 0
    BY DEF Immediates
  <2> HIDE DEF kind
  <2> QED BY <2>1, <2>2
<1> HIDE DEF kind
<1>3. /\ p.mode \in ModRMModes => o.mode \in Registers
      /\ q.mode \in Registers \union {"I"} /\ o.mode \in Registers \union ModRMModes
      /\ p.mode \in Registers \union ModRMModes \union {"I"}
      /\ o.mode \in Registers \/ p.mode \in Registers
  BY ModesApart DEF Registers, ModRMModes
<1>4. ListFits(<<o, p, q>>, FALSE, kind)
  BY <1>1, <1>2, <1>3, ThreeOps DEF ListFits
<1> QED BY <1>4 DEF kind

LEMMA OfMemoryRegisterRegister ==
  ASSUME NEW o, NEW p, NEW q, ModRMOp(o), RegisterOp(p), RegisterOp(q)
  PROVE  ListFits(<<o, p, q>>, TRUE, "none")
<1>1. KnownOp(o) /\ KnownOp(p) /\ KnownOp(q)
  BY ModesApart
<1> DEFINE kind == "none"
<1>2. ASSUME NEW a \in Nat, NEW z \in Nat, NEW s \in Nat
      PROVE  Bytes(o, a, z, s) + Bytes(p, a, z, s) + Bytes(q, a, z, s)
             = (IF TRUE THEN a ELSE 0) + Immediates(kind, z, s)
  <2>1. Bytes(o, a, z, s) = a /\ Bytes(p, a, z, s) = 0 /\ Bytes(q, a, z, s) = 0
    BY BytesOf
  <2>2. Immediates(kind, z, s) = 0
    BY DEF Immediates
  <2> HIDE DEF kind
  <2> QED BY <2>1, <2>2
<1> HIDE DEF kind
<1>3. /\ p.mode \in ModRMModes => o.mode \in Registers
      /\ q.mode \in Registers \union {"I"} /\ o.mode \in Registers \union ModRMModes
      /\ p.mode \in Registers \union ModRMModes \union {"I"}
      /\ o.mode \in Registers \/ p.mode \in Registers
  BY ModesApart DEF Registers, ModRMModes
<1>4. ListFits(<<o, p, q>>, TRUE, kind)
  BY <1>1, <1>2, <1>3, ThreeOps DEF ListFits
<1> QED BY <1>4 DEF kind

LEMMA OfRegisterMemoryRegister ==
  ASSUME NEW o, NEW p, NEW q, RegisterOp(o), ModRMOp(p), RegisterOp(q)
  PROVE  ListFits(<<o, p, q>>, TRUE, "none")
<1>1. KnownOp(o) /\ KnownOp(p) /\ KnownOp(q)
  BY ModesApart
<1> DEFINE kind == "none"
<1>2. ASSUME NEW a \in Nat, NEW z \in Nat, NEW s \in Nat
      PROVE  Bytes(o, a, z, s) + Bytes(p, a, z, s) + Bytes(q, a, z, s)
             = (IF TRUE THEN a ELSE 0) + Immediates(kind, z, s)
  <2>1. Bytes(o, a, z, s) = 0 /\ Bytes(p, a, z, s) = a /\ Bytes(q, a, z, s) = 0
    BY BytesOf
  <2>2. Immediates(kind, z, s) = 0
    BY DEF Immediates
  <2> HIDE DEF kind
  <2> QED BY <2>1, <2>2
<1> HIDE DEF kind
<1>3. /\ p.mode \in ModRMModes => o.mode \in Registers
      /\ q.mode \in Registers \union {"I"} /\ o.mode \in Registers \union ModRMModes
      /\ p.mode \in Registers \union ModRMModes \union {"I"}
      /\ o.mode \in Registers \/ p.mode \in Registers
  BY ModesApart DEF Registers, ModRMModes
<1>4. ListFits(<<o, p, q>>, TRUE, kind)
  BY <1>1, <1>2, <1>3, ThreeOps DEF ListFits
<1> QED BY <1>4 DEF kind

LEMMA OfMemoryRegisterImmediate ==
  ASSUME NEW o, NEW p, NEW q, ModRMOp(o), RegisterOp(p), ImmediateOp(q)
  PROVE  ListFits(<<o, p, q>>, TRUE, KindOfSize(q.size))
<1>1. KnownOp(o) /\ KnownOp(p) /\ KnownOp(q)
  BY ModesApart
<1> DEFINE kind == KindOfSize(q.size)
<1>2. ASSUME NEW a \in Nat, NEW z \in Nat, NEW s \in Nat
      PROVE  Bytes(o, a, z, s) + Bytes(p, a, z, s) + Bytes(q, a, z, s)
             = (IF TRUE THEN a ELSE 0) + Immediates(kind, z, s)
  <2>1. Bytes(o, a, z, s) = a /\ Bytes(p, a, z, s) = 0 /\ Bytes(q, a, z, s) = SizedBytes(q.size, z)
    BY BytesOf
  <2>2. Immediates(kind, z, s) = SizedBytes(q.size, z) /\ SizedBytes(q.size, z) \in Int
    BY ModesApart, ImmediatesOf DEF SizedBytes
  <2> HIDE DEF kind
  <2> QED BY <2>1, <2>2
<1> HIDE DEF kind
<1>3. /\ p.mode \in ModRMModes => o.mode \in Registers
      /\ q.mode \in Registers \union {"I"} /\ o.mode \in Registers \union ModRMModes
      /\ p.mode \in Registers \union ModRMModes \union {"I"}
      /\ o.mode \in Registers \/ p.mode \in Registers
  BY ModesApart DEF Registers, ModRMModes
<1>4. ListFits(<<o, p, q>>, TRUE, kind)
  BY <1>1, <1>2, <1>3, ThreeOps DEF ListFits
<1> QED BY <1>4 DEF kind

LEMMA OfRegisterMemoryImmediate ==
  ASSUME NEW o, NEW p, NEW q, RegisterOp(o), ModRMOp(p), ImmediateOp(q)
  PROVE  ListFits(<<o, p, q>>, TRUE, KindOfSize(q.size))
<1>1. KnownOp(o) /\ KnownOp(p) /\ KnownOp(q)
  BY ModesApart
<1> DEFINE kind == KindOfSize(q.size)
<1>2. ASSUME NEW a \in Nat, NEW z \in Nat, NEW s \in Nat
      PROVE  Bytes(o, a, z, s) + Bytes(p, a, z, s) + Bytes(q, a, z, s)
             = (IF TRUE THEN a ELSE 0) + Immediates(kind, z, s)
  <2>1. Bytes(o, a, z, s) = 0 /\ Bytes(p, a, z, s) = a /\ Bytes(q, a, z, s) = SizedBytes(q.size, z)
    BY BytesOf
  <2>2. Immediates(kind, z, s) = SizedBytes(q.size, z) /\ SizedBytes(q.size, z) \in Int
    BY ModesApart, ImmediatesOf DEF SizedBytes
  <2> HIDE DEF kind
  <2> QED BY <2>1, <2>2
<1> HIDE DEF kind
<1>3. /\ p.mode \in ModRMModes => o.mode \in Registers
      /\ q.mode \in Registers \union {"I"} /\ o.mode \in Registers \union ModRMModes
      /\ p.mode \in Registers \union ModRMModes \union {"I"}
      /\ o.mode \in Registers \/ p.mode \in Registers
  BY ModesApart DEF Registers, ModRMModes
<1>4. ListFits(<<o, p, q>>, TRUE, kind)
  BY <1>1, <1>2, <1>3, ThreeOps DEF ListFits
<1> QED BY <1>4 DEF kind

LEMMA OfEnter ==
  ASSUME NEW r, NEW i, NEW j, RegisterOp(r), ImmediateOp(i), i.size = "w", ImmediateOp(j),
         j.size = "b"
  PROVE  ListFits(<<r, i, j>>, FALSE, "enter")
<1>1. /\ KnownOp(r) /\ KnownOp(i) /\ KnownOp(j)
      /\ r.mode \in Registers /\ i.mode = "I" /\ j.mode = "I"
  BY ModesApart
<1> DEFINE kind == "enter"
<1>2. ASSUME NEW a \in Nat, NEW z \in Nat, NEW s \in Nat
      PROVE  Bytes(r, a, z, s) + Bytes(i, a, z, s) + Bytes(j, a, z, s)
             = (IF FALSE THEN a ELSE 0) + Immediates(kind, z, s)
  <2>1. Bytes(r, a, z, s) = 0 /\ Bytes(i, a, z, s) = 2 /\ Bytes(j, a, z, s) = 1
    BY BytesOf DEF SizedBytes
  <2>2. Immediates(kind, z, s) = 3
    BY DEF Immediates
  <2> HIDE DEF kind
  <2> QED BY <2>1, <2>2
<1> HIDE DEF kind
<1>3. /\ i.mode \in ModRMModes => r.mode \in Registers
      /\ j.mode \in Registers \union {"I"} /\ r.mode \in Registers \union ModRMModes
      /\ i.mode \in Registers \union ModRMModes \union {"I"}
      /\ r.mode \in Registers \/ i.mode \in Registers
  BY <1>1 DEF Registers, ModRMModes
<1>4. ListFits(<<r, i, j>>, FALSE, kind)
  BY <1>1, <1>2, <1>3, ThreeOps DEF ListFits
<1> QED BY <1>4 DEF kind

LEMMA OfStrings ==
  ASSUME NEW o, NEW p, StringOp(o), StringOp(p)
  PROVE  OpsFit(<<o, p>>, FALSE, "none")
<1>1. KnownOp(o) /\ KnownOp(p)
  BY ModesApart
<1> DEFINE kind == "none"
<1>2. ASSUME NEW a \in Nat, NEW z \in Nat, NEW s \in Nat
      PROVE  Bytes(o, a, z, s) + Bytes(p, a, z, s)
             = (IF FALSE THEN a ELSE 0) + Immediates(kind, z, s)
  <2>1. Bytes(o, a, z, s) = 0 /\ Bytes(p, a, z, s) = 0
    BY BytesOf
  <2>2. Immediates(kind, z, s) = 0
    BY DEF Immediates
  <2> HIDE DEF kind
  <2> QED BY <2>1, <2>2
<1> HIDE DEF kind
<1>3. /\ p.mode \in ModRMModes => o.mode \in Registers
      /\ p.mode \in {"J", "O", "A"} => o.mode = "fixed"
      /\ o.mode \in {"J", "O", "A"} => p.mode = "fixed"
  BY ModesApart DEF Registers, ModRMModes
<1>4. OpsFit(<<o, p>>, FALSE, kind)
  BY <1>1, <1>2, <1>3, TwoOps
<1> QED BY <1>4 DEF kind

LEMMA OfLarge ==
  ASSUME NEW o, LargeOp(o)
  PROVE  OpsFit(<<o>>, TRUE, "none") /\ OneInMemory(<<o>>)
<1>1. KnownOp(o)
  BY ModesApart
<1> DEFINE kind == "none"
<1>2. ASSUME NEW a \in Nat, NEW z \in Nat, NEW s \in Nat
      PROVE  Bytes(o, a, z, s) = (IF TRUE THEN a ELSE 0) + Immediates(kind, z, s)
  <2>1. Bytes(o, a, z, s) = a
    BY BytesOf
  <2>2. Immediates(kind, z, s) = 0
    BY DEF Immediates
  <2> HIDE DEF kind
  <2> QED BY <2>1, <2>2
<1> HIDE DEF kind
<1>3. OpsFit(<<o>>, TRUE, kind) /\ OneInMemory(<<o>>)
  BY <1>1, <1>2, OneOp
<1> QED BY <1>3 DEF kind

LEMMA OfNothing == ListFits(<<>>, FALSE, "none")
BY NoOperands DEF ListFits

(* The operands that there are. *)
LEMMA Small ==
  {"a", "b", "d", "dq", "dt", "lea", "mw", "o", "p", "pb", "pd",
   "ps", "q", "sd", "sdo", "se", "ss", "sso", "v", "w", "z"} \subseteq SmallSizes
BY DEF SmallSizes, LargeSizes, OperandSizes, FixedSize, SizeByOperandSize

LEMMA OperandsAre ==
  /\ RegisterOp(C("dq"))
  /\ RegisterOp(D("dq"))
  /\ RegisterOp(G("b")) /\ RegisterOp(G("d")) /\ RegisterOp(G("dq")) /\ RegisterOp(G("v"))
  /\ RegisterOp(G("w")) /\ RegisterOp(G("z"))
  /\ RegisterOp(P("dq")) /\ RegisterOp(P("q"))
  /\ RegisterOp(Reg)
  /\ RegisterOp(S("w"))
  /\ RegisterOp(V("dq")) /\ RegisterOp(V("o")) /\ RegisterOp(V("pd")) /\ RegisterOp(V("ps"))
  /\ RegisterOp(V("q")) /\ RegisterOp(V("sd")) /\ RegisterOp(V("sdo")) /\ RegisterOp(V("ss"))
  /\ RegisterOp(V("sso"))
  /\ ModRMOp(E("b")) /\ ModRMOp(E("d")) /\ ModRMOp(E("dq")) /\ ModRMOp(E("mw"))
  /\ ModRMOp(E("p")) /\ ModRMOp(E("v")) /\ ModRMOp(E("w"))
  /\ ModRMOp(M("a")) /\ ModRMOp(M("b")) /\ ModRMOp(M("d")) /\ ModRMOp(M("dq"))
  /\ ModRMOp(M("dt")) /\ ModRMOp(M("lea")) /\ ModRMOp(M("o")) /\ ModRMOp(M("p"))
  /\ ModRMOp(M("pb")) /\ ModRMOp(M("q")) /\ ModRMOp(M("sd")) /\ ModRMOp(M("se"))
  /\ ModRMOp(M("ss")) /\ ModRMOp(M("w"))
  /\ ModRMOp(PR("q"))
  /\ ModRMOp(Q("d")) /\ ModRMOp(Q("q"))
  /\ ModRMOp(R("dq"))
  /\ ModRMOp(VR("o")) /\ ModRMOp(VR("pd")) /\ ModRMOp(VR("ps")) /\ ModRMOp(VR("q"))
  /\ ModRMOp(W("o")) /\ ModRMOp(W("pd")) /\ ModRMOp(W("ps")) /\ ModRMOp(W("q"))
  /\ ModRMOp(W("sd")) /\ ModRMOp(W("ss"))
  /\ LargeOp(M("fev")) /\ LargeOp(M("fst1")) /\ LargeOp(M("fst2"))
  /\ StringOp(X("b")) /\ StringOp(X("z"))
  /\ StringOp(Y("b")) /\ StringOp(Y("z"))
  /\ StringOp(xlat("b"))
  /\ ImmediateOp(I("b")) /\ ImmediateOp(I("v")) /\ ImmediateOp(I("w")) /\ ImmediateOp(I("z"))
  /\ JumpOp(J("b")) /\ JumpOp(J("z"))
  /\ OffsetOp(O("b")) /\ OffsetOp(O("v"))
  /\ FarOp(A("p"))
  /\ Reg.mode = "fixed" /\ I("b").size = "b" /\ I("w").size = "w" /\ I("z").size = "z"
  /\ I("v").size = "v" /\ J("b").size = "b" /\ J("z").size = "z"
<1>1. RegisterOp(C("dq"))
  BY Small DEF RegisterOp, C, Registers, ModRMModes, LargeSizes
<1>2. RegisterOp(D("dq"))
  BY Small DEF RegisterOp, D, Registers, ModRMModes, LargeSizes
<1>3. /\ RegisterOp(G("b")) /\ RegisterOp(G("d")) /\ RegisterOp(G("dq")) /\ RegisterOp(G("v"))
      /\ RegisterOp(G("w")) /\ RegisterOp(G("z"))
  BY Small DEF RegisterOp, G, Registers, ModRMModes, LargeSizes
<1>4. RegisterOp(P("dq")) /\ RegisterOp(P("q"))
  BY Small DEF RegisterOp, P, Registers, ModRMModes, LargeSizes
<1>5. RegisterOp(Reg)
  BY Small DEF RegisterOp, Reg, Registers, ModRMModes, LargeSizes
<1>6. RegisterOp(S("w"))
  BY Small DEF RegisterOp, S, Registers, ModRMModes, LargeSizes
<1>7. /\ RegisterOp(V("dq")) /\ RegisterOp(V("o")) /\ RegisterOp(V("pd")) /\ RegisterOp(V("ps"))
      /\ RegisterOp(V("q")) /\ RegisterOp(V("sd")) /\ RegisterOp(V("sdo")) /\ RegisterOp(V("ss"))
      /\ RegisterOp(V("sso"))
  BY Small DEF RegisterOp, V, Registers, ModRMModes, LargeSizes
<1>8. /\ ModRMOp(E("b")) /\ ModRMOp(E("d")) /\ ModRMOp(E("dq")) /\ ModRMOp(E("mw"))
      /\ ModRMOp(E("p")) /\ ModRMOp(E("v")) /\ ModRMOp(E("w"))
  BY Small DEF ModRMOp, E, Registers, ModRMModes, LargeSizes
<1>9. /\ ModRMOp(M("a")) /\ ModRMOp(M("b")) /\ ModRMOp(M("d")) /\ ModRMOp(M("dq"))
      /\ ModRMOp(M("dt")) /\ ModRMOp(M("lea")) /\ ModRMOp(M("o")) /\ ModRMOp(M("p"))
      /\ ModRMOp(M("pb")) /\ ModRMOp(M("q")) /\ ModRMOp(M("sd")) /\ ModRMOp(M("se"))
      /\ ModRMOp(M("ss")) /\ ModRMOp(M("w"))
  BY Small DEF ModRMOp, M, Registers, ModRMModes, LargeSizes
<1>10. ModRMOp(PR("q"))
  BY Small DEF ModRMOp, PR, Registers, ModRMModes, LargeSizes
<1>11. ModRMOp(Q("d")) /\ ModRMOp(Q("q"))
  BY Small DEF ModRMOp, Q, Registers, ModRMModes, LargeSizes
<1>12. ModRMOp(R("dq"))
  BY Small DEF ModRMOp, R, Registers, ModRMModes, LargeSizes
<1>13. ModRMOp(VR("o")) /\ ModRMOp(VR("pd")) /\ ModRMOp(VR("ps")) /\ ModRMOp(VR("q"))
  BY Small DEF ModRMOp, VR, Registers, ModRMModes, LargeSizes
<1>14. /\ ModRMOp(W("o")) /\ ModRMOp(W("pd")) /\ ModRMOp(W("ps")) /\ ModRMOp(W("q"))
       /\ ModRMOp(W("sd")) /\ ModRMOp(W("ss"))
  BY Small DEF ModRMOp, W, Registers, ModRMModes, LargeSizes
<1>15. LargeOp(M("fev")) /\ LargeOp(M("fst1")) /\ LargeOp(M("fst2"))
  BY Small DEF LargeOp, M, Registers, ModRMModes, LargeSizes
<1>16. StringOp(X("b")) /\ StringOp(X("z"))
  BY Small DEF StringOp, X, Registers, ModRMModes, LargeSizes
<1>17. StringOp(Y("b")) /\ StringOp(Y("z"))
  BY Small DEF StringOp, Y, Registers, ModRMModes, LargeSizes
<1>18. StringOp(xlat("b"))
  BY Small DEF StringOp, xlat, Registers, ModRMModes, LargeSizes
<1>19. ImmediateOp(I("b")) /\ ImmediateOp(I("v")) /\ ImmediateOp(I("w")) /\ ImmediateOp(I("z"))
  BY Small DEF ImmediateOp, I, Registers, ModRMModes, LargeSizes
<1>20. JumpOp(J("b")) /\ JumpOp(J("z"))
  BY Small DEF JumpOp, J, Registers, ModRMModes, LargeSizes
<1>21. OffsetOp(O("b")) /\ OffsetOp(O("v"))
  BY Small DEF OffsetOp, O, Registers, ModRMModes, LargeSizes
<1>22. FarOp(A("p"))
  BY Small DEF FarOp, A, Registers, ModRMModes, LargeSizes
<1>23. /\ Reg.mode = "fixed" /\ I("b").size = "b" /\ I("w").size = "w" /\ I("z").size = "z"
       /\ I("v").size = "v" /\ J("b").size = "b" /\ J("z").size = "z"
  BY DEF Reg, I, J
<1> QED BY <1>1, <1>2, <1>3, <1>4, <1>5, <1>6, <1>7, <1>8, <1>9, <1>10, <1>11, <1>12,
          <1>13, <1>14, <1>15, <1>16, <1>17, <1>18, <1>19, <1>20, <1>21, <1>22, <1>23

-----------------------------------------------------------------------------
(* The rows that lists of operands make. *)

Ordinary ==
  {"PLAIN", "PUSH", "POP", "MOV", "IN", "OUT", "STRMOV", "STRCMP", "STRSTOR", "STRLOAD", "BRANCH",
   "BRANCHCC", "LOOPCC", "64BIT", "MMX", "SSE", "SSE2", "SSE3", "FPU", "FLOADENV", "FSAVE",
   "FRESTORE"}
Indirect(row) == row.type \in SPECIAL \union {"GROUP"}

LEMMA TypesApart ==
  /\ Ordinary \cap (SegmentTypes \union SPECIAL \union {"GROUP", "CALL"}) = {}
  /\ SegmentTypes \cap (SPECIAL \union {"GROUP", "CALL"}) = {}
  /\ "CALL" \notin SPECIAL \union {"GROUP"} /\ "PLAIN" \in Ordinary
BY DEF Ordinary, SegmentTypes, SPECIAL

RowIs(row, m, kind) == RowFits(row, m, kind) /\ ~Indirect(row)

LEMMA RowParts ==
  ASSUME NEW type, NEW ops, NEW dst, NEW src
  PROVE  /\ Row(type, ops, dst, src).type = type /\ Row(type, ops, dst, src).ops = ops
         /\ Row(type, ops, dst, src).dst = dst /\ Row(type, ops, dst, src).src = src
BY DEF Row

LEMMA RowMade ==
  ASSUME NEW ops, NEW m, NEW kind, ListFits(ops, m, kind), NEW type \in Ordinary,
         NEW dst, dst \subseteq {1, 2}, NEW src
  PROVE  RowIs(Row(type, ops, dst, src), m, kind)
<1> DEFINE row == Row(type, ops, dst, src)
<1>1. row.type = type /\ row.ops = ops /\ row.dst = dst
  BY RowParts
<1> HIDE DEF row
<1>2. type \notin SegmentTypes \union SPECIAL \union {"GROUP", "CALL"}
  BY TypesApart
<1>3. RowFits(row, m, kind) /\ ~Indirect(row)
  BY <1>1, <1>2 DEF RowFits, ListFits, Indirect
<1> QED BY <1>3 DEF RowIs, row

LEMMA RenamedRow ==
  ASSUME NEW type, NEW ops, NEW dst, NEW src
  PROVE  As(type, Row("PLAIN", ops, dst, src)) = Row(type, ops, dst, src)
<1> DEFINE row == Row("PLAIN", ops, dst, src)
           t == Row(type, ops, dst, src)
<1>1. As(type, row) = [row EXCEPT !.type = type]
  BY DEF As
<1>2. [row EXCEPT !.type = type] = t
  BY DEF Row
<1> QED BY <1>1, <1>2

LEMMA Renamed ==
  ASSUME NEW type, NEW ops
  PROVE  /\ As(type, Reads(ops)) = Row(type, ops, {}, DOMAIN ops)
         /\ As(type, Writes(ops)) = Row(type, ops, {1}, DOMAIN ops \ {1})
         /\ As(type, Modifies(ops)) = Row(type, ops, {1}, DOMAIN ops)
         /\ Reads(ops) = Row("PLAIN", ops, {}, DOMAIN ops)
         /\ Writes(ops) = Row("PLAIN", ops, {1}, DOMAIN ops \ {1})
         /\ Modifies(ops) = Row("PLAIN", ops, {1}, DOMAIN ops)
         /\ Exchanges(ops) = Row("PLAIN", ops, DOMAIN ops, DOMAIN ops)
<1>1. \A dst, src : As(type, Row("PLAIN", ops, dst, src)) = Row(type, ops, dst, src)
  BY RenamedRow
<1>2. /\ Reads(ops) = Row("PLAIN", ops, {}, DOMAIN ops)
      /\ Writes(ops) = Row("PLAIN", ops, {1}, DOMAIN ops \ {1})
      /\ Modifies(ops) = Row("PLAIN", ops, {1}, DOMAIN ops)
      /\ Exchanges(ops) = Row("PLAIN", ops, DOMAIN ops, DOMAIN ops)
  BY DEF Reads, Writes, Modifies, Exchanges
<1> QED BY <1>1, <1>2

LEMMA ExchangeRow ==
  ASSUME NEW o, NEW p
  PROVE  Exchanges(<<o, p>>) = Row("PLAIN", <<o, p>>, {1, 2}, {1, 2})
<1>1. DOMAIN <<o, p>> = {1, 2}
  OBVIOUS
<1> QED BY <1>1, Renamed

LEMMA RowsFit ==
  ASSUME NEW ops, NEW m, NEW kind, ListFits(ops, m, kind)
  PROVE  /\ RowIs(Reads(ops), m, kind) /\ RowIs(Writes(ops), m, kind)
         /\ RowIs(Modifies(ops), m, kind)
         /\ \A type \in Ordinary :
              /\ RowIs(As(type, Reads(ops)), m, kind) /\ RowIs(As(type, Writes(ops)), m, kind)
              /\ RowIs(As(type, Modifies(ops)), m, kind)
<1>1. "PLAIN" \in Ordinary
  BY TypesApart
<1>2. \A type \in Ordinary : \A src :
        RowIs(Row(type, ops, {}, src), m, kind) /\ RowIs(Row(type, ops, {1}, src), m, kind)
  BY RowMade
<1>3. /\ RowIs(Reads(ops), m, kind) /\ RowIs(Writes(ops), m, kind)
      /\ RowIs(Modifies(ops), m, kind)
  <2>1. /\ Reads(ops) = Row("PLAIN", ops, {}, DOMAIN ops)
        /\ Writes(ops) = Row("PLAIN", ops, {1}, DOMAIN ops \ {1})
        /\ Modifies(ops) = Row("PLAIN", ops, {1}, DOMAIN ops)
    BY Renamed
  <2> QED BY <1>1, <1>2, <2>1
<1>4. ASSUME NEW type \in Ordinary
      PROVE  /\ RowIs(As(type, Reads(ops)), m, kind) /\ RowIs(As(type, Writes(ops)), m, kind)
             /\ RowIs(As(type, Modifies(ops)), m, kind)
  <2>1. /\ As(type, Reads(ops)) = Row(type, ops, {}, DOMAIN ops)
        /\ As(type, Writes(ops)) = Row(type, ops, {1}, DOMAIN ops \ {1})
        /\ As(type, Modifies(ops)) = Row(type, ops, {1}, DOMAIN ops)
    BY Renamed
  <2> QED BY <1>2, <2>1
<1> QED BY <1>3, <1>4

LEMMA ExchangesFit ==
  ASSUME NEW o, NEW p, NEW m, NEW kind, ListFits(<<o, p>>, m, kind)
  PROVE  RowIs(Exchanges(<<o, p>>), m, kind)
<1> DEFINE ops == <<o, p>>
           domain == DOMAIN ops
<1>1. domain \subseteq {1, 2}
  OBVIOUS
<1>2. "PLAIN" \in Ordinary
  BY TypesApart
<1>3. Exchanges(ops) = Row("PLAIN", ops, domain, domain)
  BY Renamed
<1> HIDE DEF ops, domain
<1>4. ListFits(ops, m, kind)
  BY DEF ops
<1>5. RowIs(Row("PLAIN", ops, domain, domain), m, kind)
  BY <1>1, <1>2, <1>4, RowMade
<1>6. RowIs(Exchanges(ops), m, kind)
  BY <1>3, <1>5
<1> QED BY <1>6 DEF ops

(* Rows of the types that have a segment of their own. *)
LEMMA SegmentRowsFit ==
  ASSUME NEW ops, NEW m, NEW kind, ListFits(ops, m, kind), NEW type \in SegmentTypes,
         \A k \in 1..Len(ops) : ops[k].mode \notin {"M", "O"}
  PROVE  /\ RowIs(As(type, Reads(ops)), m, kind) /\ RowIs(As(type, Writes(ops)), m, kind)
         /\ RowIs(As(type, Modifies(ops)), m, kind)
<1>1. ASSUME NEW dst \in {{}, {1}}, NEW src
      PROVE  RowIs(Row(type, ops, dst, src), m, kind)
  <2> DEFINE row == Row(type, ops, dst, src)
  <2>1. row.type = type /\ row.ops = ops /\ row.dst = dst
    BY RowParts
  <2> HIDE DEF row
  <2>2. type \notin SPECIAL \union {"GROUP", "CALL"}
    BY TypesApart
  <2>3. RowFits(row, m, kind) /\ ~Indirect(row)
    BY <2>1, <2>2 DEF RowFits, ListFits, Indirect
  <2> QED BY <2>3 DEF RowIs, row
<1>2. /\ As(type, Reads(ops)) = Row(type, ops, {}, DOMAIN ops)
      /\ As(type, Writes(ops)) = Row(type, ops, {1}, DOMAIN ops \ {1})
      /\ As(type, Modifies(ops)) = Row(type, ops, {1}, DOMAIN ops)
  BY Renamed
<1> QED BY <1>1, <1>2

(* Calls. *)
LEMMA CallFits ==
  ASSUME NEW o, NEW m, NEW kind, ListFits(<<o>>, m, kind), o.mode \in {"J", "A"}
  PROVE  RowIs(As("CALL", Reads(<<o>>)), m, kind)
<1> DEFINE ops == <<o>>
           src == DOMAIN ops
           row == Row("CALL", ops, {}, src)
<1>1. Len(ops) = 1 /\ ops[1] = o
  OBVIOUS
<1>2. As("CALL", Reads(ops)) = row
  BY Renamed
<1>3. row.type = "CALL" /\ row.ops = ops /\ row.dst = {}
  BY RowParts
<1>4. ListFits(ops, m, kind)
  OBVIOUS
<1> HIDE DEF ops, row
<1>5. RowFits(row, m, kind) /\ ~Indirect(row)
  BY <1>1, <1>3, <1>4 DEF RowFits, ListFits, SegmentTypes, Indirect, SPECIAL
<1> QED BY <1>2, <1>5 DEF RowIs, ops

(* Strings: their two operands are both in memory. *)
LEMMA StringsFit ==
  ASSUME NEW o, NEW p, StringOp(o), StringOp(p)
  PROVE  /\ RowIs(As("STRMOV", Writes(<<o, p>>)), FALSE, "none")
         /\ RowIs(As("STRCMP", Reads(<<o, p>>)), FALSE, "none")
<1> DEFINE ops == <<o, p>>
           domain == DOMAIN ops
           src == domain \ {1}
           mov == Row("STRMOV", ops, {1}, src)
           cmp == Row("STRCMP", ops, {}, domain)
<1>1. Len(ops) = 2 /\ 1 \notin src
  OBVIOUS
<1>2. As("STRMOV", Writes(ops)) = mov /\ As("STRCMP", Reads(ops)) = cmp
  BY Renamed
<1>3. /\ mov.type = "STRMOV" /\ mov.ops = ops /\ mov.dst = {1} /\ mov.src = src
      /\ cmp.type = "STRCMP" /\ cmp.ops = ops /\ cmp.dst = {} /\ cmp.src = domain
  BY RowParts
<1>4. OpsFit(ops, FALSE, "none")
  BY OfStrings
<1> HIDE DEF ops, domain, src, mov, cmp
<1>5. Strings(mov) /\ Strings(cmp)
  BY <1>1, <1>3 DEF Strings
<1>6. /\ RowFits(mov, FALSE, "none") /\ RowFits(cmp, FALSE, "none")
      /\ ~Indirect(mov) /\ ~Indirect(cmp)
  BY <1>3, <1>4, <1>5 DEF RowFits, SegmentTypes, Indirect, SPECIAL
<1> QED BY <1>2, <1>6 DEF RowIs, ops

LEMMA NoArguments ==
  /\ NOARGS = Reads(<<>>) /\ NOARGS.ops = <<>>
  /\ RowIs(NOARGS, FALSE, "none")
  /\ \A type \in Ordinary \union SegmentTypes : RowIs(As(type, NOARGS), FALSE, "none")
<1>1. NOARGS = Reads(<<>>)
  BY DEF NOARGS
<1> DEFINE ops == <<>>
<1>2. ListFits(ops, FALSE, "none")
  BY OfNothing
<1>3. Len(ops) = 0
  OBVIOUS
<1> HIDE DEF ops
<1>4. RowIs(Reads(ops), FALSE, "none")
  BY <1>2, RowsFit
<1>5. ASSUME NEW type \in Ordinary \union SegmentTypes
      PROVE  RowIs(As(type, Reads(ops)), FALSE, "none")
  <2>1. \A k \in 1..Len(ops) : ops[k].mode \notin {"M", "O"}
    BY <1>3
  <2> QED BY <1>2, <2>1, RowsFit, SegmentRowsFit
<1>6. Reads(ops).ops = ops
  BY DEF Reads, Row
<1> QED BY <1>1, <1>4, <1>5, <1>6 DEF ops

-----------------------------------------------------------------------------
(* What the encoding has for an opcode: its immediates, and whether a ModRM *)
(* byte follows it.                                                        *)

Kind1(b, r) ==
  IF b \in {x \in \h00..\h3F : x % 8 = 4} \union {\h6A, \h6B, \h80, \h82, \h83, \hA8, \hC0, \hC1}
           \union {\hC6, \hCD, \hD4, \hD5, \hEB} \union \h70..\h7F \union \hB0..\hB7
           \union \hE0..\hE7 \/ (b = \hF6 /\ r < 2)
  THEN "byte"
  ELSE IF b \in {\hC2, \hCA} THEN "word"
  ELSE IF b \in {x \in \h00..\h3F : x % 8 = 5} \union {\h68, \h69, \h81, \hA9, \hC7, \hE8, \hE9}
                \union \hB8..\hBF \/ (b = \hF7 /\ r < 2)
  THEN "operand"
  ELSE IF b = \hC8 THEN "enter" ELSE IF b \in {\h9A, \hEA} THEN "far"
  ELSE IF b \in \hA0..\hA3 THEN "offset" ELSE "none"

Kind2(b) ==
  IF b \in \h70..\h73 \union {\h0F, \hA4, \hAC, \hBA, \hC2, \hC4, \hC5, \hC6} THEN "byte"
  ELSE IF b \in \h80..\h8F THEN "operand" ELSE "none"

Coded_2 ==
  (\h00..\hFF) \ ({\h77} \union \h04..\h0C \union \h30..\h37 \union \h80..\h8F
                 \union \hA0..\hA2 \union \hA8..\hAA \union \hC8..\hCF \union {\h0E})

KindOf(opcode, r) == IF opcode < 256 THEN Kind1(opcode, r) ELSE Kind2(opcode - 256)
OperandSizeAt(text, at) == IF HasPrefix(text, at, \h66) THEN 2 ELSE 4
AddressSizeAt(text, at) == IF HasPrefix(text, at, \h67) THEN 2 ELSE 4

LEMMA TwoOf ==
  ASSUME NEW bytes, bytes \subseteq Byte, NEW b \in Byte
  PROVE  b \notin Two(bytes) /\ (256 + b \in Two(bytes) <=> b \in bytes)
BY DEF Two, Byte

LEMMA ModRMCoded ==
  ASSUME NEW b \in Byte
  PROVE  /\ b \in WithModRM <=> b \in X86_ModRM_1
         /\ 256 + b \in WithModRM <=> b \in Coded_2
<1>1. Coded_2 \subseteq Byte
  BY DEF Coded_2, Byte
<1>2. WithModRM = X86_ModRM_1 \union Two(Coded_2)
  BY DEF WithModRM, X86_ModRM_1, Coded_2
<1>3. b \notin Two(Coded_2) /\ (256 + b \in Two(Coded_2) <=> b \in Coded_2)
  BY <1>1, TwoOf
<1>4. 256 + b \notin X86_ModRM_1
  BY DEF X86_ModRM_1, Byte
<1> QED BY <1>2, <1>3, <1>4

LEMMA ImmediatesCoded ==
  ASSUME NEW text \in Seq(Byte), NEW at \in Nat, NEW b \in Byte,
         OpcodeOf(text, at) \in {b, 256 + b}, RegField(text, at) \in 0..7
  PROVE  ImmediateLength(text, at)
         = Immediates(KindOf(OpcodeOf(text, at), RegField(text, at)), OperandSizeAt(text, at),
                      AddressSizeAt(text, at))
<1> DEFINE o == OpcodeOf(text, at)
           r == RegField(text, at)
           z == OperandSizeAt(text, at)
           s == AddressSizeAt(text, at)
           byte1 == {x \in \h00..\h3F : x % 8 = 4}
                      \union {\h6A, \h6B, \h80, \h82, \h83, \hA8, \hC0, \hC1, \hC6, \hCD, \hD4, \hD5,
                              \hEB}
                      \union \h70..\h7F \union \hB0..\hB7 \union \hE0..\hE7
           byte2 == \h70..\h73 \union {\h0F, \hA4, \hAC, \hBA, \hC2, \hC4, \hC5, \hC6}
           operand1 == {x \in \h00..\h3F : x % 8 = 5} \union {\h68, \h69, \h81, \hA9, \hC7, \hE8, \hE9}
                         \union \hB8..\hBF
           operand2 == \h80..\h8F
<1>1. byte2 \subseteq Byte /\ operand2 \subseteq Byte
  BY DEF Byte
<1>2. ByteImmediate = byte1 \union Two(byte2) /\ OperandImmediate = operand1 \union Two(operand2)
  BY DEF ByteImmediate, OperandImmediate
<1> HIDE DEF byte2, operand2
<1>3. /\ b \notin Two(byte2) /\ b \notin Two(operand2)
      /\ 256 + b \in Two(byte2) <=> b \in byte2
      /\ 256 + b \in Two(operand2) <=> b \in operand2
  BY <1>1, TwoOf
<1>4. 256 + b \notin byte1 /\ 256 + b \notin operand1
  BY DEF Byte
<1>5. ImmediateLength(text, at) =
        CASE o \in ByteImmediate -> 1
          [] o \in WordImmediate -> 2
          [] o \in OperandImmediate -> z
          [] o = \hC8 -> 3
          [] o \in {\h9A, \hEA} -> z + 2
          [] o \in \hA0..\hA3 -> s
          [] o = \hF6 -> IF r \in {0, 1} THEN 1 ELSE 0
          [] o = \hF7 -> IF r \in {0, 1} THEN z ELSE 0
          [] OTHER -> 0
  BY DEF ImmediateLength, OperandSizeAt, AddressSizeAt
<1>6. r \in {0, 1} <=> r < 2
  OBVIOUS
<1> SUFFICES ImmediateLength(text, at) = Immediates(KindOf(o, r), z, s)
  OBVIOUS
<1> HIDE DEF o, r, z, s
<1>7. CASE o = b
  <2>1. /\ o \in ByteImmediate <=> b \in byte1
        /\ o \in OperandImmediate <=> b \in operand1
    BY <1>2, <1>3, <1>7
  <2>2. KindOf(o, r) = Kind1(b, r)
    BY <1>7 DEF KindOf, Byte
  <2>3. CASE b \in byte1
    <3>1. Kind1(b, r) = "byte"
      BY <2>3 DEF Kind1
    <3>2. /\ b \notin operand1 /\ b \notin WordImmediate /\ b \notin {\hC8, \h9A, \hEA, \hF6, \hF7}
          /\ b \notin \hA0..\hA3
      BY <2>3 DEF WordImmediate
    <3> QED BY <1>5, <1>7, <2>1, <2>2, <2>3, <3>1, <3>2 DEF Immediates
  <2>4. CASE b \in operand1
    <3>1. Kind1(b, r) = "operand"
      BY <2>4 DEF Kind1
    <3>2. /\ b \notin byte1 /\ b \notin WordImmediate /\ b \notin {\hC8, \h9A, \hEA, \hF6, \hF7}
          /\ b \notin \hA0..\hA3
      BY <2>4 DEF WordImmediate
    <3> QED BY <1>5, <1>7, <2>1, <2>2, <2>4, <3>1, <3>2 DEF Immediates
  <2>5. CASE b \notin byte1 /\ b \notin operand1
    <3>1. Kind1(b, r) = IF b = \hF6 /\ r < 2 THEN "byte" ELSE IF b \in {\hC2, \hCA} THEN "word"
                        ELSE IF b = \hF7 /\ r < 2 THEN "operand" ELSE IF b = \hC8 THEN "enter"
                        ELSE IF b \in {\h9A, \hEA} THEN "far" ELSE IF b \in \hA0..\hA3 THEN "offset"
                        ELSE "none"
      BY <2>5 DEF Kind1
    <3> HIDE DEF byte1, operand1
    <3> QED BY <1>5, <1>6, <1>7, <2>1, <2>2, <2>5, <3>1 DEF Immediates, WordImmediate
  <2> QED BY <2>3, <2>4, <2>5
<1>8. CASE o = 256 + b
  <2>1. /\ o \in ByteImmediate <=> b \in byte2
        /\ o \in OperandImmediate <=> b \in operand2
    BY <1>2, <1>3, <1>4, <1>8
  <2>2. KindOf(o, r) = Kind2(b)
    BY <1>8 DEF KindOf, Byte
  <2>3. /\ o \notin WordImmediate /\ o \notin {\hC8, \h9A, \hEA, \hF6, \hF7} /\ o \notin \hA0..\hA3
        /\ ~(b \in byte2 /\ b \in operand2)
    BY <1>8 DEF WordImmediate, Byte, byte2, operand2
  <2>4. Kind2(b) = IF b \in byte2 THEN "byte" ELSE IF b \in operand2 THEN "operand" ELSE "none"
    BY DEF Kind2, byte2, operand2
  <2> QED BY <1>5, <2>1, <2>2, <2>3, <2>4 DEF Immediates
<1> QED BY <1>7, <1>8 DEF o

-----------------------------------------------------------------------------
(* What the tables have for an opcode. *)

TableFits(table, kind) == \A r \in 0..7 : INVALID(table[r]) \/ RowIs(table[r], TRUE, kind)

Fits1(row, b) ==
  \/ INVALID(row) \/ row.type = "PREFIX" \/ b = TWO_BYTE_OPCODE
  \/ /\ row.type = "GROUP" /\ b \in X86_ModRM_1
     /\ \A r \in 0..7 :
          \/ INVALID(row.table[r])
          \/ RowFits(row.table[r], TRUE, Kind1(b, r))
  \/ /\ row.type = "EXT_FPU" /\ b \in \hD8..\hDF
     /\ \A i \in 0..71 :
          \/ INVALID(row.table[i])
          \/ RowFits(row.table[i], i < 8, "none")
  \/ row.type = "EXT_64" /\ b = \h63 /\ RowIs(row.table[1], TRUE, "none")
  \/ /\ ~Indirect(row)
     /\ \A r \in 0..7 : RowIs(row, b \in X86_ModRM_1, Kind1(b, r))

Fits2(row, b) ==
  \/ INVALID(row)
  \/ /\ row.type = "GROUP" /\ b \in Coded_2 /\ b \in X86_ModRM_2
     /\ \A r \in 0..7 :
          \/ INVALID(row.table[r])
          \/ b = \hAE /\ r \in 5..7 /\ row.table[r] = NOARGS
          \/ RowFits(row.table[r], TRUE, Kind2(b))
  \/ row.type = "GROUP" /\ b = \hB9
  \/ row.type = "EXT_MODRM" /\ b = \h01 /\ row.table = X86_0F01_ModRM
  \/ /\ row.type = "EXT_SUFFIX" /\ b = \h0F /\ row.table = X86_3DNOW_0F
     /\ RowFits(row, TRUE, "none")
  \/ row.type = "EXT_64" /\ b = \h05 /\ RowIs(row.table[1], FALSE, "none")
  \/ ~Indirect(row) /\ (b \in Coded_2 <=> b \in X86_ModRM_2) /\ RowIs(row, b \in Coded_2, Kind2(b))

(* With a prefix that is part of the opcode. *)
FitsSSE(row, b) ==
  \/ INVALID(row)
  \/ /\ row.type = "GROUP" /\ b \in Coded_2 /\ b \in X86_ModRM_2 /\ TableFits(row.table, Kind2(b))
  \/ ~Indirect(row) /\ b \in Coded_2 /\ b \in X86_ModRM_2 /\ RowIs(row, TRUE, Kind2(b))

LEMMA PlainFits ==
  ASSUME NEW row, NEW b, NEW m \in BOOLEAN, NEW kind, RowIs(row, m, kind)
  PROVE  /\ (b \in X86_ModRM_1 <=> m) /\ (\A r \in 0..7 : Kind1(b, r) = kind) => Fits1(row, b)
         /\ /\ b \in Coded_2 <=> m
            /\ b \in X86_ModRM_2 <=> m
            /\ Kind2(b) = kind
            => Fits2(row, b) /\ (m => FitsSSE(row, b))
<1>1. ~Indirect(row)
  BY DEF RowIs
<1>2. ASSUME b \in X86_ModRM_1 <=> m, \A r \in 0..7 : Kind1(b, r) = kind PROVE Fits1(row, b)
  <2>1. \A r \in 0..7 : RowIs(row, b \in X86_ModRM_1, Kind1(b, r))
    <3>1. (b \in X86_ModRM_1) = m
      BY <1>2
    <3> QED BY <1>2, <3>1
  <2> QED BY <1>1, <2>1 DEF Fits1
<1>3. ASSUME b \in Coded_2 <=> m, b \in X86_ModRM_2 <=> m, Kind2(b) = kind
      PROVE  Fits2(row, b) /\ (m => FitsSSE(row, b))
  <2>1. (b \in Coded_2) = m
    BY <1>3
  <2>2. RowIs(row, b \in Coded_2, Kind2(b))
    BY <1>3, <2>1
  <2>3. CASE m
    BY <1>1, <1>3, <2>2, <2>3 DEF Fits2, FitsSSE
  <2>4. CASE ~m
    BY <1>1, <1>3, <2>2, <2>4 DEF Fits2
  <2> QED BY <2>3, <2>4
<1> QED BY <1>2, <1>3

LEMMA GroupsFit ==
  ASSUME NEW table, NEW b, NEW kind, TableFits(table, kind)
  PROVE  /\ b \in X86_ModRM_1 /\ (\A r \in 0..7 : Kind1(b, r) = kind) => Fits1(GROUP(table), b)
         /\ b \in Coded_2 /\ b \in X86_ModRM_2 /\ Kind2(b) = kind
            => Fits2(GROUP(table), b) /\ FitsSSE(GROUP(table), b)
<1> DEFINE row == GROUP(table)
<1>1. row.type = "GROUP" /\ row.table = table
  BY RowTypes
<1> HIDE DEF row
<1>2. ASSUME NEW r \in 0..7
      PROVE  INVALID(table[r]) \/ RowFits(table[r], TRUE, kind)
  <2>1. INVALID(table[r]) \/ RowIs(table[r], TRUE, kind)
    BY DEF TableFits
  <2> QED BY <2>1 DEF RowIs
<1>3. ASSUME b \in X86_ModRM_1, \A r \in 0..7 : Kind1(b, r) = kind PROVE Fits1(row, b)
  BY <1>1, <1>2, <1>3 DEF Fits1
<1>4. ASSUME b \in Coded_2, b \in X86_ModRM_2, Kind2(b) = kind
      PROVE  Fits2(row, b) /\ FitsSSE(row, b)
  BY <1>1, <1>2, <1>4 DEF Fits2, FitsSSE
<1> QED BY <1>3, <1>4 DEF row

LEMMA FarLists ==
  ListFits(<<A("p")>>, FALSE, "far")
BY OperandsAre, OfFar

LEMMA JumpLists ==
  /\ ListFits(<<J("b")>>, FALSE, "byte") /\ ListFits(<<J("z")>>, FALSE, "operand")
BY OperandsAre, OfJump DEF KindOfSize

LEMMA EnterLists ==
  ListFits(<<Reg, I("w"), I("b")>>, FALSE, "enter")
BY OperandsAre, OfEnter

LEMMA MemoryLists ==
  /\ ListFits(<<E("b")>>, TRUE, "none") /\ ListFits(<<E("v")>>, TRUE, "none")
  /\ ListFits(<<E("p")>>, TRUE, "none") /\ ListFits(<<E("mw")>>, TRUE, "none")
  /\ ListFits(<<E("w")>>, TRUE, "none") /\ ListFits(<<M("dt")>>, TRUE, "none")
  /\ ListFits(<<M("b")>>, TRUE, "none") /\ ListFits(<<M("d")>>, TRUE, "none")
  /\ ListFits(<<M("ss")>>, TRUE, "none") /\ ListFits(<<M("se")>>, TRUE, "none")
  /\ ListFits(<<M("sd")>>, TRUE, "none") /\ ListFits(<<M("w")>>, TRUE, "none")
  /\ ListFits(<<M("pb")>>, TRUE, "none") /\ ListFits(<<M("q")>>, TRUE, "none")
BY OperandsAre, OfMemory

LEMMA RegisterLists ==
  ListFits(<<Reg>>, FALSE, "none")
BY OperandsAre, OfRegister

LEMMA ImmediateLists ==
  /\ ListFits(<<I("z")>>, FALSE, "operand") /\ ListFits(<<I("b")>>, FALSE, "byte")
  /\ ListFits(<<I("w")>>, FALSE, "word")
BY OperandsAre, OfImmediate DEF KindOfSize

LEMMA MemoryRegisterLists ==
  /\ ListFits(<<E("mw"), Reg>>, TRUE, "none") /\ ListFits(<<M("ss"), Reg>>, TRUE, "none")
  /\ ListFits(<<M("w"), Reg>>, TRUE, "none") /\ ListFits(<<M("sd"), Reg>>, TRUE, "none")
  /\ ListFits(<<M("d"), Reg>>, TRUE, "none") /\ ListFits(<<M("se"), Reg>>, TRUE, "none")
  /\ ListFits(<<M("pb"), Reg>>, TRUE, "none") /\ ListFits(<<M("q"), Reg>>, TRUE, "none")
  /\ ListFits(<<E("b"), G("b")>>, TRUE, "none") /\ ListFits(<<E("v"), G("v")>>, TRUE, "none")
  /\ ListFits(<<E("w"), G("w")>>, TRUE, "none") /\ ListFits(<<E("mw"), S("w")>>, TRUE, "none")
  /\ ListFits(<<W("ps"), V("ps")>>, TRUE, "none")
  /\ ListFits(<<M("q"), V("ps")>>, TRUE, "none")
  /\ ListFits(<<R("dq"), C("dq")>>, TRUE, "none")
  /\ ListFits(<<R("dq"), D("dq")>>, TRUE, "none")
  /\ ListFits(<<M("o"), V("ps")>>, TRUE, "none")
  /\ ListFits(<<E("dq"), P("dq")>>, TRUE, "none") /\ ListFits(<<Q("q"), P("q")>>, TRUE, "none")
  /\ ListFits(<<M("dq"), G("dq")>>, TRUE, "none") /\ ListFits(<<M("q"), P("q")>>, TRUE, "none")
  /\ ListFits(<<W("pd"), V("pd")>>, TRUE, "none")
  /\ ListFits(<<M("q"), V("sd")>>, TRUE, "none") /\ ListFits(<<W("o"), V("o")>>, TRUE, "none")
  /\ ListFits(<<M("o"), V("pd")>>, TRUE, "none")
  /\ ListFits(<<E("dq"), V("dq")>>, TRUE, "none") /\ ListFits(<<W("q"), V("q")>>, TRUE, "none")
  /\ ListFits(<<M("o"), V("o")>>, TRUE, "none") /\ ListFits(<<W("sd"), V("sd")>>, TRUE, "none")
  /\ ListFits(<<W("ss"), V("ss")>>, TRUE, "none")
BY OperandsAre, OfMemoryRegister

LEMMA RegisterMemoryLists ==
  /\ ListFits(<<Reg, E("w")>>, TRUE, "none") /\ ListFits(<<Reg, M("ss")>>, TRUE, "none")
  /\ ListFits(<<Reg, M("w")>>, TRUE, "none") /\ ListFits(<<Reg, M("sd")>>, TRUE, "none")
  /\ ListFits(<<G("b"), E("b")>>, TRUE, "none") /\ ListFits(<<G("v"), E("v")>>, TRUE, "none")
  /\ ListFits(<<G("v"), M("a")>>, TRUE, "none") /\ ListFits(<<G("v"), M("lea")>>, TRUE, "none")
  /\ ListFits(<<S("w"), E("w")>>, TRUE, "none") /\ ListFits(<<G("z"), M("p")>>, TRUE, "none")
  /\ ListFits(<<G("v"), E("w")>>, TRUE, "none") /\ ListFits(<<P("q"), Q("q")>>, TRUE, "none")
  /\ ListFits(<<V("ps"), W("ps")>>, TRUE, "none")
  /\ ListFits(<<V("ps"), W("q")>>, TRUE, "none")
  /\ ListFits(<<C("dq"), R("dq")>>, TRUE, "none")
  /\ ListFits(<<D("dq"), R("dq")>>, TRUE, "none")
  /\ ListFits(<<V("ps"), Q("q")>>, TRUE, "none") /\ ListFits(<<P("q"), W("ps")>>, TRUE, "none")
  /\ ListFits(<<V("ss"), W("ss")>>, TRUE, "none")
  /\ ListFits(<<G("d"), VR("ps")>>, TRUE, "none")
  /\ ListFits(<<V("pd"), W("ps")>>, TRUE, "none")
  /\ ListFits(<<V("ps"), W("o")>>, TRUE, "none") /\ ListFits(<<P("q"), Q("d")>>, TRUE, "none")
  /\ ListFits(<<P("q"), E("dq")>>, TRUE, "none") /\ ListFits(<<G("v"), E("b")>>, TRUE, "none")
  /\ ListFits(<<G("d"), PR("q")>>, TRUE, "none") /\ ListFits(<<P("q"), PR("q")>>, TRUE, "none")
  /\ ListFits(<<V("pd"), W("pd")>>, TRUE, "none")
  /\ ListFits(<<V("sd"), M("q")>>, TRUE, "none") /\ ListFits(<<V("pd"), W("q")>>, TRUE, "none")
  /\ ListFits(<<V("o"), W("o")>>, TRUE, "none") /\ ListFits(<<V("o"), Q("q")>>, TRUE, "none")
  /\ ListFits(<<P("q"), W("pd")>>, TRUE, "none")
  /\ ListFits(<<V("sd"), W("sd")>>, TRUE, "none")
  /\ ListFits(<<V("pd"), W("sd")>>, TRUE, "none")
  /\ ListFits(<<G("d"), VR("pd")>>, TRUE, "none")
  /\ ListFits(<<V("ps"), W("pd")>>, TRUE, "none")
  /\ ListFits(<<V("o"), W("ps")>>, TRUE, "none") /\ ListFits(<<V("o"), W("q")>>, TRUE, "none")
  /\ ListFits(<<V("o"), E("dq")>>, TRUE, "none") /\ ListFits(<<G("d"), VR("o")>>, TRUE, "none")
  /\ ListFits(<<V("q"), W("pd")>>, TRUE, "none") /\ ListFits(<<V("o"), VR("o")>>, TRUE, "none")
  /\ ListFits(<<V("sdo"), W("sd")>>, TRUE, "none")
  /\ ListFits(<<V("sd"), E("dq")>>, TRUE, "none")
  /\ ListFits(<<G("dq"), W("sd")>>, TRUE, "none")
  /\ ListFits(<<V("ss"), W("sd")>>, TRUE, "none")
  /\ ListFits(<<P("q"), VR("q")>>, TRUE, "none") /\ ListFits(<<V("o"), M("o")>>, TRUE, "none")
  /\ ListFits(<<V("sso"), W("ss")>>, TRUE, "none")
  /\ ListFits(<<V("ss"), E("dq")>>, TRUE, "none")
  /\ ListFits(<<G("dq"), W("ss")>>, TRUE, "none")
  /\ ListFits(<<V("sd"), W("ss")>>, TRUE, "none") /\ ListFits(<<V("q"), W("q")>>, TRUE, "none")
  /\ ListFits(<<V("o"), PR("q")>>, TRUE, "none")
BY OperandsAre, OfRegisterMemory

LEMMA RegisterStringLists ==
  /\ ListFits(<<Reg, X("b")>>, FALSE, "none") /\ ListFits(<<Reg, X("z")>>, FALSE, "none")
  /\ ListFits(<<Reg, Y("b")>>, FALSE, "none") /\ ListFits(<<Reg, Y("z")>>, FALSE, "none")
  /\ ListFits(<<Reg, xlat("b")>>, FALSE, "none")
BY OperandsAre, OfRegisterString

LEMMA StringRegisterLists ==
  /\ ListFits(<<Y("b"), Reg>>, FALSE, "none") /\ ListFits(<<Y("z"), Reg>>, FALSE, "none")
BY OperandsAre, OfStringRegister

LEMMA MemoryImmediateLists ==
  /\ ListFits(<<E("v"), I("b")>>, TRUE, "byte") /\ ListFits(<<PR("q"), I("b")>>, TRUE, "byte")
  /\ ListFits(<<VR("o"), I("b")>>, TRUE, "byte")
BY OperandsAre, OfMemoryImmediate DEF KindOfSize

LEMMA RegisterRegisterLists ==
  ListFits(<<Reg, Reg>>, FALSE, "none")
BY OperandsAre, OfRegisterRegister

LEMMA ImmediateRegisterLists ==
  ListFits(<<I("b"), Reg>>, FALSE, "byte")
BY OperandsAre, OfImmediateRegister DEF KindOfSize

LEMMA RegisterImmediateLists ==
  /\ ListFits(<<Reg, I("b")>>, FALSE, "byte") /\ ListFits(<<Reg, I("z")>>, FALSE, "operand")
  /\ ListFits(<<Reg, I("v")>>, FALSE, "operand")
BY OperandsAre, OfRegisterImmediate DEF KindOfSize

LEMMA MemoryRegisterRegisterLists ==
  /\ ListFits(<<M("q"), Reg, Reg>>, TRUE, "none")
  /\ ListFits(<<E("b"), Reg, Reg>>, TRUE, "none")
  /\ ListFits(<<E("v"), G("v"), Reg>>, TRUE, "none")
  /\ ListFits(<<E("b"), Reg, G("b")>>, TRUE, "none")
  /\ ListFits(<<E("v"), Reg, G("v")>>, TRUE, "none")
BY OperandsAre, OfMemoryRegisterRegister

LEMMA MemoryRegisterImmediateLists ==
  ListFits(<<E("v"), G("v"), I("b")>>, TRUE, "byte")
BY OperandsAre, OfMemoryRegisterImmediate DEF KindOfSize

LEMMA RegisterMemoryImmediateLists ==
  /\ ListFits(<<G("v"), E("v"), I("z")>>, TRUE, "operand")
  /\ ListFits(<<G("v"), E("v"), I("b")>>, TRUE, "byte")
  /\ ListFits(<<P("q"), Q("q"), I("b")>>, TRUE, "byte")
  /\ ListFits(<<V("ps"), W("ps"), I("b")>>, TRUE, "byte")
  /\ ListFits(<<P("q"), E("w"), I("b")>>, TRUE, "byte")
  /\ ListFits(<<G("d"), PR("q"), I("b")>>, TRUE, "byte")
  /\ ListFits(<<V("o"), W("o"), I("b")>>, TRUE, "byte")
  /\ ListFits(<<V("o"), E("w"), I("b")>>, TRUE, "byte")
  /\ ListFits(<<G("d"), VR("o"), I("b")>>, TRUE, "byte")
  /\ ListFits(<<V("q"), W("q"), I("b")>>, TRUE, "byte")
  /\ ListFits(<<V("sd"), W("sd"), I("b")>>, TRUE, "byte")
  /\ ListFits(<<V("ss"), W("ss"), I("b")>>, TRUE, "byte")
BY OperandsAre, OfRegisterMemoryImmediate DEF KindOfSize

LEMMA RegisterRegisterRegisterLists ==
  ListFits(<<Reg, Reg, Reg>>, FALSE, "none")
BY OperandsAre, OfRegisterRegisterRegister

LEMMA OffsetRegisterLists ==
  /\ ListFits(<<O("b"), Reg>>, FALSE, "offset") /\ ListFits(<<O("v"), Reg>>, FALSE, "offset")
BY OperandsAre, OfOffsetRegister

LEMMA RegisterOffsetLists ==
  /\ ListFits(<<Reg, O("b")>>, FALSE, "offset") /\ ListFits(<<Reg, O("v")>>, FALSE, "offset")
BY OperandsAre, OfRegisterOffset

-----------------------------------------------------------------------------
(* The escape opcodes. *)

EscapeRow(row, i) == INVALID(row) \/ RowFits(row, i < 8, "none")
EscapeFits(table) == \A i \in 0..71 : EscapeRow(table[i], i)

LEMMA EscapeMemory ==
  ASSUME NEW row, NEW i \in 0..7, RowIs(row, TRUE, "none")
  PROVE  EscapeRow(row, i)
<1>1. (i < 8) = TRUE
  OBVIOUS
<1> QED BY <1>1 DEF EscapeRow, RowIs

LEMMA EscapeLarge ==
  ASSUME NEW row, NEW i \in 0..7, RowFits(row, TRUE, "none")
  PROVE  EscapeRow(row, i)
<1>1. (i < 8) = TRUE
  OBVIOUS
<1> QED BY <1>1 DEF EscapeRow

LEMMA EscapeRegister ==
  ASSUME NEW row, NEW i \in 8..71, RowIs(row, FALSE, "none")
  PROVE  EscapeRow(row, i)
<1>1. (i < 8) = FALSE
  OBVIOUS
<1> QED BY <1>1 DEF EscapeRow, RowIs

LEMMA LargeFits ==
  ASSUME NEW o, LargeOp(o) \/ ModRMOp(o)
  PROVE  \A type \in Ordinary \union {"CALL"} :
           /\ RowFits(As(type, Reads(<<o>>)), TRUE, "none")
           /\ RowFits(As(type, Writes(<<o>>)), TRUE, "none")
<1> DEFINE ops == <<o>>
<1>1. OpsFit(ops, TRUE, "none") /\ OneInMemory(ops)
  BY OfLarge, OfMemory DEF ListFits
<1> HIDE DEF ops
<1>2. ASSUME NEW type \in Ordinary \union {"CALL"}, NEW dst \in {{}, {1}}, NEW src
      PROVE  RowFits(Row(type, ops, dst, src), TRUE, "none")
  <2> DEFINE row == Row(type, ops, dst, src)
  <2>1. row.type = type /\ row.ops = ops /\ row.dst = dst
    BY RowParts
  <2> HIDE DEF row
  <2>2. type \notin SegmentTypes
    BY DEF Ordinary, SegmentTypes
  <2>3. RowFits(row, TRUE, "none")
    BY <1>1, <2>1, <2>2 DEF RowFits
  <2> QED BY <2>3 DEF row
<1>3. ASSUME NEW type \in Ordinary \union {"CALL"}
      PROVE  /\ RowFits(As(type, Reads(ops)), TRUE, "none")
             /\ RowFits(As(type, Writes(ops)), TRUE, "none")
  <2>1. /\ As(type, Reads(ops)) = Row(type, ops, {}, DOMAIN ops)
        /\ As(type, Writes(ops)) = Row(type, ops, {1}, DOMAIN ops \ {1})
    BY Renamed
  <2> QED BY <1>2, <2>1
<1> QED BY <1>3 DEF ops

LEMMA Escape0Fits ==
  EscapeFits(X86_ESC_0)
<1> SUFFICES ASSUME NEW i \in 0..71 PROVE EscapeRow(X86_ESC_0[i], i)
  BY DEF EscapeFits
<1>1. CASE i \in 0..7
  <2> DEFINE rows == {As("FPU", Modifies(<<Reg, M("ss")>>)), As("FPU", Reads(<<M("ss"), Reg>>))}
  <2>1. X86_ESC_0[i] \in rows
    BY <1>1, RowTypes, RowParts DEF X86_ESC_0, Escape
  <2>2. \A row \in rows : RowIs(row, TRUE, "none")
    BY MemoryRegisterLists, RegisterMemoryLists, RowsFit DEF Ordinary
  <2> HIDE DEF rows
  <2>3. i \in 0..7
    BY <1>1
  <2> QED BY <2>1, <2>2, <2>3, EscapeMemory, Zenon
<1>2. CASE i \in \h08..\h17 \union \h28..\h47 \union \h18..\h27
  <2> DEFINE rows == {As("FPU", Modifies(<<Reg, Reg>>)), As("FPU", Reads(<<Reg, Reg>>))}
  <2>1. X86_ESC_0[i] \in rows
    BY <1>2, RowTypes, RowParts DEF X86_ESC_0, Escape
  <2>2. \A row \in rows : RowIs(row, FALSE, "none")
    BY RegisterRegisterLists, RowsFit DEF Ordinary
  <2> HIDE DEF rows
  <2>3. i \in 8..71
    BY <1>2
  <2> QED BY <2>1, <2>2, <2>3, EscapeRegister, Zenon
<1> QED BY <1>1, <1>2

LEMMA Escape1Fits ==
  EscapeFits(X86_ESC_1)
<1> SUFFICES ASSUME NEW i \in 0..71 PROVE EscapeRow(X86_ESC_1[i], i)
  BY DEF EscapeFits
<1>1. CASE i \in {0, 2, 3, 5, 7}
  <2> DEFINE rows == {As("FPU", Reads(<<M("ss")>>)), As("FPU", Writes(<<M("ss"), Reg>>)),
                     As("FPU", Writes(<<Reg, M("w")>>)), As("FPU", Writes(<<M("w"), Reg>>))}
  <2>1. X86_ESC_1[i] \in rows
    BY <1>1, RowTypes, RowParts DEF X86_ESC_1, Escape
  <2>2. \A row \in rows : RowIs(row, TRUE, "none")
    BY MemoryLists, MemoryRegisterLists, RegisterMemoryLists, RowsFit DEF Ordinary
  <2> HIDE DEF rows
  <2>3. i \in 0..7
    BY <1>1
  <2> QED BY <2>1, <2>2, <2>3, EscapeMemory, Zenon
<1>2. CASE i \in {1, \h37} \union \h19..\h27 \union \h2A..\h2B \union \h2E..\h2F
  <2>1. X86_ESC_1[i] = NOINSTR
    BY <1>2, RowTypes DEF X86_ESC_1, Escape
  <2> QED BY <2>1, RowTypes DEF EscapeRow, INVALID
<1>3. CASE i = 4
  <2>1. X86_ESC_1[i] = As("FLOADENV", Reads(<<M("fev")>>))
    BY <1>3, RowTypes, RowParts DEF X86_ESC_1, Escape
  <2>2. RowFits(As("FLOADENV", Reads(<<M("fev")>>)), TRUE, "none")
    BY OperandsAre, LargeFits DEF Ordinary
  <2>3. i \in 0..7
    BY <1>3
  <2> QED BY <2>1, <2>2, <2>3, EscapeLarge, Zenon
<1>4. CASE i = 6
  <2>1. X86_ESC_1[i] = As("FPU", Writes(<<M("fev")>>))
    BY <1>4, RowTypes, RowParts DEF X86_ESC_1, Escape
  <2>2. RowFits(As("FPU", Writes(<<M("fev")>>)), TRUE, "none")
    BY OperandsAre, LargeFits DEF Ordinary
  <2>3. i \in 0..7
    BY <1>4
  <2> QED BY <2>1, <2>2, <2>3, EscapeLarge, Zenon
<1>5. CASE i \in {\h18, \h28, \h29, \h2C, \h2D, \h38, \h39, \h3A, \h3B, \h3D, \h3E, \h3F, \h40,
                 \h41, \h42, \h43, \h44, \h45, \h46, \h47} \union \h08..\h0F \union \h30..\h36
  <2> DEFINE rows == {As("FPU", Reads(<<Reg>>)), As("FPU", NOARGS), As("FPU", Modifies(<<Reg>>)),
                     As("FPU", Reads(<<Reg, Reg>>)), As("FPU", Modifies(<<Reg, Reg>>))}
  <2>1. X86_ESC_1[i] \in rows
    BY <1>5, RowTypes, RowParts DEF X86_ESC_1, Escape
  <2>2. \A row \in rows : RowIs(row, FALSE, "none")
    BY NoArguments, RegisterLists, RegisterRegisterLists, RowsFit DEF Ordinary
  <2> HIDE DEF rows
  <2>3. i \in 8..71
    BY <1>5
  <2> QED BY <2>1, <2>2, <2>3, EscapeRegister, Zenon
<1>6. CASE i \in \h10..\h17
  <2>1. X86_ESC_1[i] = As("FPU", Exchanges(<<Reg, Reg>>))
    BY <1>6, RowTypes, RowParts DEF X86_ESC_1, Escape
  <2>2. As("FPU", Exchanges(<<Reg, Reg>>)) = Row("FPU", <<Reg, Reg>>, {1, 2}, {1, 2})
    BY RenamedRow, ExchangeRow
  <2>3. RowIs(Row("FPU", <<Reg, Reg>>, {1, 2}, {1, 2}), FALSE, "none")
    BY RegisterRegisterLists, RowMade DEF Ordinary
  <2>4. i \in 8..71
    BY <1>6
  <2> QED BY <2>1, <2>2, <2>3, <2>4, EscapeRegister, Zenon
<1>7. CASE i = \h3C
  <2>1. X86_ESC_1[i] = As("FPU", Row("PLAIN", <<Reg, Reg>>, {1, 2}, {1}))
    BY <1>7, RowTypes, RowParts DEF X86_ESC_1, Escape
  <2>2. As("FPU", Row("PLAIN", <<Reg, Reg>>, {1, 2}, {1})) = Row("FPU", <<Reg, Reg>>, {1, 2},
        {1})
    BY RenamedRow
  <2>3. RowIs(Row("FPU", <<Reg, Reg>>, {1, 2}, {1}), FALSE, "none")
    BY RegisterRegisterLists, RowMade DEF Ordinary
  <2>4. i \in 8..71
    BY <1>7
  <2> QED BY <2>1, <2>2, <2>3, <2>4, EscapeRegister, Zenon
<1> QED BY <1>1, <1>2, <1>3, <1>4, <1>5, <1>6, <1>7

LEMMA Escape2Fits ==
  EscapeFits(X86_ESC_2)
<1> SUFFICES ASSUME NEW i \in 0..71 PROVE EscapeRow(X86_ESC_2[i], i)
  BY DEF EscapeFits
<1>1. CASE i \in {0, 1, 4, 5, 6, 7}
  <2>1. X86_ESC_2[i] = As("FPU", Modifies(<<Reg, M("sd")>>))
    BY <1>1, RowTypes, RowParts DEF X86_ESC_2, Escape
  <2>2. RowIs(As("FPU", Modifies(<<Reg, M("sd")>>)), TRUE, "none")
    BY RegisterMemoryLists, RowsFit DEF Ordinary
  <2>3. i \in 0..7
    BY <1>1
  <2> QED BY <2>1, <2>2, <2>3, EscapeMemory, Zenon
<1>2. CASE i \in {2, 3}
  <2>1. X86_ESC_2[i] = As("FPU", Row("PLAIN", <<M("sd"), Reg>>, {2}, {1, 2}))
    BY <1>2, RowTypes, RowParts DEF X86_ESC_2, Escape
  <2>2. As("FPU", Row("PLAIN", <<M("sd"), Reg>>, {2}, {1, 2})) = Row("FPU", <<M("sd"), Reg>>,
        {2}, {1, 2})
    BY RenamedRow
  <2>3. RowIs(Row("FPU", <<M("sd"), Reg>>, {2}, {1, 2}), TRUE, "none")
    BY MemoryRegisterLists, RowMade DEF Ordinary
  <2>4. i \in 0..7
    BY <1>2
  <2> QED BY <2>1, <2>2, <2>3, <2>4, EscapeMemory, Zenon
<1>3. CASE i \in {\h31} \union \h08..\h27
  <2> DEFINE rows == {As("FPU", Writes(<<Reg, Reg>>)), As("FPU", Reads(<<Reg, Reg>>))}
  <2>1. X86_ESC_2[i] \in rows
    BY <1>3, RowTypes, RowParts DEF X86_ESC_2, Escape
  <2>2. \A row \in rows : RowIs(row, FALSE, "none")
    BY RegisterRegisterLists, RowsFit DEF Ordinary
  <2> HIDE DEF rows
  <2>3. i \in 8..71
    BY <1>3
  <2> QED BY <2>1, <2>2, <2>3, EscapeRegister, Zenon
<1>4. CASE i \in \h28..\h30 \union \h32..\h47
  <2>1. X86_ESC_2[i] = NOINSTR
    BY <1>4, RowTypes DEF X86_ESC_2, Escape
  <2> QED BY <2>1, RowTypes DEF EscapeRow, INVALID
<1> QED BY <1>1, <1>2, <1>3, <1>4

LEMMA Escape3Fits ==
  EscapeFits(X86_ESC_3)
<1> SUFFICES ASSUME NEW i \in 0..71 PROVE EscapeRow(X86_ESC_3[i], i)
  BY DEF EscapeFits
<1>1. CASE i \in {0, 1, 2, 3, 5, 7}
  <2> DEFINE rows == {As("FPU", Reads(<<M("d")>>)), As("FPU", Writes(<<M("d"), Reg>>)),
                     As("FPU", Reads(<<M("se")>>)), As("FPU", Writes(<<M("se"), Reg>>))}
  <2>1. X86_ESC_3[i] \in rows
    BY <1>1, RowTypes, RowParts DEF X86_ESC_3, Escape
  <2>2. \A row \in rows : RowIs(row, TRUE, "none")
    BY MemoryLists, MemoryRegisterLists, RowsFit DEF Ordinary
  <2> HIDE DEF rows
  <2>3. i \in 0..7
    BY <1>1
  <2> QED BY <2>1, <2>2, <2>3, EscapeMemory, Zenon
<1>2. CASE i \in {4, 6, \h28, \h29} \union \h2C..\h2F \union \h40..\h47
  <2>1. X86_ESC_3[i] = NOINSTR
    BY <1>2, RowTypes DEF X86_ESC_3, Escape
  <2> QED BY <2>1, RowTypes DEF EscapeRow, INVALID
<1>3. CASE i \in {\h2A, \h2B} \union \h08..\h27 \union \h30..\h3F
  <2> DEFINE rows == {As("FPU", Writes(<<Reg, Reg>>)), As("FPU", Writes(<<Reg>>)),
                     As("FPU", Reads(<<Reg, Reg>>))}
  <2>1. X86_ESC_3[i] \in rows
    BY <1>3, RowTypes, RowParts DEF X86_ESC_3, Escape
  <2>2. \A row \in rows : RowIs(row, FALSE, "none")
    BY RegisterLists, RegisterRegisterLists, RowsFit DEF Ordinary
  <2> HIDE DEF rows
  <2>3. i \in 8..71
    BY <1>3
  <2> QED BY <2>1, <2>2, <2>3, EscapeRegister, Zenon
<1> QED BY <1>1, <1>2, <1>3

LEMMA Escape4Fits ==
  EscapeFits(X86_ESC_4)
<1> SUFFICES ASSUME NEW i \in 0..71 PROVE EscapeRow(X86_ESC_4[i], i)
  BY DEF EscapeFits
<1>1. CASE i \in 0..7
  <2> DEFINE rows == {As("FPU", Modifies(<<Reg, M("sd")>>)), As("FPU", Reads(<<M("sd"), Reg>>))}
  <2>1. X86_ESC_4[i] \in rows
    BY <1>1, RowTypes, RowParts DEF X86_ESC_4, Escape
  <2>2. \A row \in rows : RowIs(row, TRUE, "none")
    BY MemoryRegisterLists, RegisterMemoryLists, RowsFit DEF Ordinary
  <2> HIDE DEF rows
  <2>3. i \in 0..7
    BY <1>1
  <2> QED BY <2>1, <2>2, <2>3, EscapeMemory, Zenon
<1>2. CASE i \in \h08..\h17 \union \h28..\h47
  <2>1. X86_ESC_4[i] = As("FPU", Modifies(<<Reg, Reg>>))
    BY <1>2, RowTypes, RowParts DEF X86_ESC_4, Escape
  <2>2. RowIs(As("FPU", Modifies(<<Reg, Reg>>)), FALSE, "none")
    BY RegisterRegisterLists, RowsFit DEF Ordinary
  <2>3. i \in 8..71
    BY <1>2
  <2> QED BY <2>1, <2>2, <2>3, EscapeRegister, Zenon
<1>3. CASE i \in \h18..\h27
  <2>1. X86_ESC_4[i] = NOINSTR
    BY <1>3, RowTypes DEF X86_ESC_4, Escape
  <2> QED BY <2>1, RowTypes DEF EscapeRow, INVALID
<1> QED BY <1>1, <1>2, <1>3

LEMMA Escape5Fits ==
  EscapeFits(X86_ESC_5)
<1> SUFFICES ASSUME NEW i \in 0..71 PROVE EscapeRow(X86_ESC_5[i], i)
  BY DEF EscapeFits
<1>1. CASE i \in {0, 1, 2, 3, 7}
  <2> DEFINE rows == {As("FPU", Reads(<<M("sd")>>)), As("FPU", Writes(<<M("d"), Reg>>)),
                     As("FPU", Reads(<<M("sd"), Reg>>)), As("FPU", Writes(<<M("w"), Reg>>))}
  <2>1. X86_ESC_5[i] \in rows
    BY <1>1, RowTypes, RowParts DEF X86_ESC_5, Escape
  <2>2. \A row \in rows : RowIs(row, TRUE, "none")
    BY MemoryLists, MemoryRegisterLists, RowsFit DEF Ordinary
  <2> HIDE DEF rows
  <2>3. i \in 0..7
    BY <1>1
  <2> QED BY <2>1, <2>2, <2>3, EscapeMemory, Zenon
<1>2. CASE i = 4
  <2>1. X86_ESC_5[i] = As("FRESTORE", Reads(<<M("fst1")>>))
    BY <1>2, RowTypes, RowParts DEF X86_ESC_5, Escape
  <2>2. RowFits(As("FRESTORE", Reads(<<M("fst1")>>)), TRUE, "none")
    BY OperandsAre, LargeFits DEF Ordinary
  <2>3. i \in 0..7
    BY <1>2
  <2> QED BY <2>1, <2>2, <2>3, EscapeLarge, Zenon
<1>3. CASE i = 6
  <2>1. X86_ESC_5[i] = As("FSAVE", Writes(<<M("fst1")>>))
    BY <1>3, RowTypes, RowParts DEF X86_ESC_5, Escape
  <2>2. RowFits(As("FSAVE", Writes(<<M("fst1")>>)), TRUE, "none")
    BY OperandsAre, LargeFits DEF Ordinary
  <2>3. i \in 0..7
    BY <1>3
  <2> QED BY <2>1, <2>2, <2>3, EscapeLarge, Zenon
<1>4. CASE i \in \h08..\h0F \union \h18..\h27 \union \h28..\h37
  <2> DEFINE rows == {As("FPU", Writes(<<Reg, Reg>>)), As("FPU", Reads(<<Reg, Reg>>))}
  <2>1. X86_ESC_5[i] \in rows
    BY <1>4, RowTypes, RowParts DEF X86_ESC_5, Escape
  <2>2. \A row \in rows : RowIs(row, FALSE, "none")
    BY RegisterRegisterLists, RowsFit DEF Ordinary
  <2> HIDE DEF rows
  <2>3. i \in 8..71
    BY <1>4
  <2> QED BY <2>1, <2>2, <2>3, EscapeRegister, Zenon
<1>5. CASE i \in {5} \union \h10..\h17 \union \h38..\h47
  <2>1. X86_ESC_5[i] = NOINSTR
    BY <1>5, RowTypes DEF X86_ESC_5, Escape
  <2> QED BY <2>1, RowTypes DEF EscapeRow, INVALID
<1> QED BY <1>1, <1>2, <1>3, <1>4, <1>5

LEMMA Escape6Fits ==
  EscapeFits(X86_ESC_6)
<1> SUFFICES ASSUME NEW i \in 0..71 PROVE EscapeRow(X86_ESC_6[i], i)
  BY DEF EscapeFits
<1>1. CASE i \in 0..7
  <2> DEFINE rows == {As("FPU", Modifies(<<Reg, M("w")>>)), As("FPU", Reads(<<M("w"), Reg>>))}
  <2>1. X86_ESC_6[i] \in rows
    BY <1>1, RowTypes, RowParts DEF X86_ESC_6, Escape
  <2>2. \A row \in rows : RowIs(row, TRUE, "none")
    BY MemoryRegisterLists, RegisterMemoryLists, RowsFit DEF Ordinary
  <2> HIDE DEF rows
  <2>3. i \in 0..7
    BY <1>1
  <2> QED BY <2>1, <2>2, <2>3, EscapeMemory, Zenon
<1>2. CASE i \in {\h21} \union \h08..\h17 \union \h28..\h47
  <2> DEFINE rows == {As("FPU", Modifies(<<Reg, Reg>>)), As("FPU", Reads(<<Reg, Reg>>))}
  <2>1. X86_ESC_6[i] \in rows
    BY <1>2, RowTypes, RowParts DEF X86_ESC_6, Escape
  <2>2. \A row \in rows : RowIs(row, FALSE, "none")
    BY RegisterRegisterLists, RowsFit DEF Ordinary
  <2> HIDE DEF rows
  <2>3. i \in 8..71
    BY <1>2
  <2> QED BY <2>1, <2>2, <2>3, EscapeRegister, Zenon
<1>3. CASE i \in \h18..\h20 \union \h22..\h27
  <2>1. X86_ESC_6[i] = NOINSTR
    BY <1>3, RowTypes DEF X86_ESC_6, Escape
  <2> QED BY <2>1, RowTypes DEF EscapeRow, INVALID
<1> QED BY <1>1, <1>2, <1>3

LEMMA Escape7Fits ==
  EscapeFits(X86_ESC_7)
<1> SUFFICES ASSUME NEW i \in 0..71 PROVE EscapeRow(X86_ESC_7[i], i)
  BY DEF EscapeFits
<1>1. CASE i \in 0..7
  <2> DEFINE rows == {As("FPU", Reads(<<M("w")>>)), As("FPU", Writes(<<M("w"), Reg>>)),
                     As("FPU", Reads(<<M("pb")>>)), As("FPU", Reads(<<M("q")>>)),
                     As("FPU", Writes(<<M("pb"), Reg>>)), As("FPU", Writes(<<M("q"), Reg>>))}
  <2>1. X86_ESC_7[i] \in rows
    BY <1>1, RowTypes, RowParts DEF X86_ESC_7, Escape
  <2>2. \A row \in rows : RowIs(row, TRUE, "none")
    BY MemoryLists, MemoryRegisterLists, RowsFit DEF Ordinary
  <2> HIDE DEF rows
  <2>3. i \in 0..7
    BY <1>1
  <2> QED BY <2>1, <2>2, <2>3, EscapeMemory, Zenon
<1>2. CASE i \in \h08..\h27 \union \h29..\h2F \union \h40..\h47
  <2>1. X86_ESC_7[i] = NOINSTR
    BY <1>2, RowTypes DEF X86_ESC_7, Escape
  <2> QED BY <2>1, RowTypes DEF EscapeRow, INVALID
<1>3. CASE i \in {\h28} \union \h30..\h3F
  <2> DEFINE rows == {As("FPU", Writes(<<Reg, Reg>>)), As("FPU", Reads(<<Reg, Reg>>))}
  <2>1. X86_ESC_7[i] \in rows
    BY <1>3, RowTypes, RowParts DEF X86_ESC_7, Escape
  <2>2. \A row \in rows : RowIs(row, FALSE, "none")
    BY RegisterRegisterLists, RowsFit DEF Ordinary
  <2> HIDE DEF rows
  <2>3. i \in 8..71
    BY <1>3
  <2> QED BY <2>1, <2>2, <2>3, EscapeRegister, Zenon
<1> QED BY <1>1, <1>2, <1>3

-----------------------------------------------------------------------------
(* Groups. *)

LEMMA Group1Fits ==
  ASSUME NEW dst, NEW imm, ModRMOp(dst), ImmediateOp(imm)
  PROVE  TableFits(X86_Group_1(dst, imm), KindOfSize(imm.size))
<1> SUFFICES ASSUME NEW r \in 0..7
             PROVE  RowIs(X86_Group_1(dst, imm)[r], TRUE, KindOfSize(imm.size))
  BY DEF TableFits
<1>1. ListFits(<<dst, imm>>, TRUE, KindOfSize(imm.size))
  BY OfMemoryImmediate
<1>2. /\ RowIs(Reads(<<dst, imm>>), TRUE, KindOfSize(imm.size))
      /\ RowIs(Writes(<<dst, imm>>), TRUE, KindOfSize(imm.size))
  BY <1>1, RowsFit
<1>3. X86_Group_1(dst, imm)[r] \in {Reads(<<dst, imm>>), Writes(<<dst, imm>>)}
  BY DEF X86_Group_1
<1> QED BY <1>2, <1>3

LEMMA Group2Fits ==
  ASSUME NEW dst, NEW count, ModRMOp(dst)
  PROVE  /\ ImmediateOp(count) => TableFits(X86_Group_2(dst, count), KindOfSize(count.size))
         /\ RegisterOp(count) => TableFits(X86_Group_2(dst, count), "none")
<1>1. \A r \in 0..7 : X86_Group_2(dst, count)[r] = Writes(<<dst, count>>)
  BY DEF X86_Group_2
<1>2. ASSUME ImmediateOp(count)
      PROVE  RowIs(Writes(<<dst, count>>), TRUE, KindOfSize(count.size))
  <2>1. ListFits(<<dst, count>>, TRUE, KindOfSize(count.size))
    BY <1>2, OfMemoryImmediate
  <2> QED BY <2>1, RowsFit
<1>3. ASSUME RegisterOp(count) PROVE RowIs(Writes(<<dst, count>>), TRUE, "none")
  <2>1. ListFits(<<dst, count>>, TRUE, "none")
    BY <1>3, OfMemoryRegister
  <2> QED BY <2>1, RowsFit
<1> QED BY <1>1, <1>2, <1>3 DEF TableFits

LEMMA Group3Fits ==
  ASSUME NEW op, NEW imm, ModRMOp(op), ImmediateOp(imm), NEW r \in 0..7
  PROVE  RowIs(X86_Group_3(op, imm)[r], TRUE, IF r < 2 THEN KindOfSize(imm.size) ELSE "none")
<1>1. CASE r \in 0..1
  <2>1. X86_Group_3(op, imm)[r] = Reads(<<op, imm>>)
    BY <1>1 DEF X86_Group_3
  <2>2. ListFits(<<op, imm>>, TRUE, KindOfSize(imm.size))
    BY OfMemoryImmediate
  <2>3. RowIs(Reads(<<op, imm>>), TRUE, KindOfSize(imm.size))
    BY <2>2, RowsFit
  <2>4. r < 2
    BY <1>1
  <2> QED BY <2>1, <2>3, <2>4
<1>2. CASE r \in 2..3
  <2>1. X86_Group_3(op, imm)[r] = Modifies(<<op>>)
    BY <1>2 DEF X86_Group_3
  <2>2. ListFits(<<op>>, TRUE, "none")
    BY OfMemory
  <2>3. RowIs(Modifies(<<op>>), TRUE, "none")
    BY <2>2, RowsFit
  <2>4. ~(r < 2)
    BY <1>2
  <2> QED BY <2>1, <2>3, <2>4
<1>3. CASE r \in 4..7
  <2>1. X86_Group_3(op, imm)[r] = Row("PLAIN", <<Reg, op, Reg>>, {1}, {2, 3})
    BY <1>3 DEF X86_Group_3
  <2>2. ListFits(<<Reg, op, Reg>>, TRUE, "none")
    BY OperandsAre, OfRegisterMemoryRegister
  <2>3. RowIs(Row("PLAIN", <<Reg, op, Reg>>, {1}, {2, 3}), TRUE, "none")
    BY <2>2, RowMade DEF Ordinary
  <2>4. ~(r < 2)
    BY <1>3
  <2> QED BY <2>1, <2>3, <2>4
<1>4. r \in 0..1 \/ r \in 2..3 \/ r \in 4..7
  OBVIOUS
<1> QED BY <1>1, <1>2, <1>3, <1>4

LEMMA Group12Fits ==
  ASSUME NEW dst, NEW imm, ModRMOp(dst), ImmediateOp(imm)
  PROVE  TableFits(X86_Group_12(dst, imm), KindOfSize(imm.size))
<1> SUFFICES ASSUME NEW r \in 0..7
             PROVE  \/ INVALID(X86_Group_12(dst, imm)[r])
                    \/ RowIs(X86_Group_12(dst, imm)[r], TRUE, KindOfSize(imm.size))
  BY DEF TableFits
<1>1. ListFits(<<dst, imm>>, TRUE, KindOfSize(imm.size))
  BY OfMemoryImmediate
<1>2. RowIs(As("MOV", Writes(<<dst, imm>>)), TRUE, KindOfSize(imm.size))
  BY <1>1, RowsFit DEF Ordinary
<1>3. X86_Group_12(dst, imm)[r] \in {As("MOV", Writes(<<dst, imm>>)), NOINSTR}
  BY DEF X86_Group_12
<1> QED BY <1>2, <1>3, RowTypes DEF INVALID

LEMMA Group4Fits == TableFits(X86_Group_4, "none")
<1> SUFFICES ASSUME NEW r \in 0..7 PROVE INVALID(X86_Group_4[r]) \/ RowIs(X86_Group_4[r], TRUE, "none")
  BY DEF TableFits
<1>1. CASE r \in 0..1
  <2>1. X86_Group_4[r] = Modifies(<<E("b")>>)
    BY <1>1 DEF X86_Group_4
  <2>2. RowIs(Modifies(<<E("b")>>), TRUE, "none")
    BY MemoryLists, RowsFit
  <2> QED BY <2>1, <2>2
<1>2. CASE ~(r \in 0..1)
  <2>1. X86_Group_4[r] = NOINSTR
    BY <1>2 DEF X86_Group_4
  <2> QED BY <2>1, RowTypes DEF INVALID
<1> QED BY <1>1, <1>2

LEMMA Group5Fits ==
  ASSUME NEW r \in 0..7
  PROVE  LET row == X86_Group_5[r]
         IN INVALID(row) \/ RowFits(row, TRUE, "none")
<1>1. CASE r \in 0..1
  <2>1. X86_Group_5[r] = Modifies(<<E("v")>>)
    BY <1>1 DEF X86_Group_5
  <2>2. RowIs(Modifies(<<E("v")>>), TRUE, "none")
    BY MemoryLists, RowsFit
  <2> QED BY <2>1, <2>2 DEF RowIs
<1>2. CASE r = 2
  <2>1. X86_Group_5[r] = As("CALL", Reads(<<E("v")>>))
    BY <1>2 DEF X86_Group_5
  <2>2. RowFits(As("CALL", Reads(<<E("v")>>)), TRUE, "none")
    BY OperandsAre, LargeFits DEF Ordinary
  <2> QED BY <1>2, <2>1, <2>2
<1>3. CASE r = 3
  <2>1. X86_Group_5[r] = As("CALL", Reads(<<E("p")>>))
    BY <1>3 DEF X86_Group_5
  <2>2. RowFits(As("CALL", Reads(<<E("p")>>)), TRUE, "none")
    BY OperandsAre, LargeFits DEF Ordinary
  <2> QED BY <1>3, <2>1, <2>2
<1>4. CASE r = 4
  <2>1. X86_Group_5[r] = As("BRANCH", Reads(<<E("v")>>))
    BY <1>4 DEF X86_Group_5
  <2>2. RowIs(As("BRANCH", Reads(<<E("v")>>)), TRUE, "none")
    BY MemoryLists, RowsFit DEF Ordinary
  <2> QED BY <2>1, <2>2 DEF RowIs
<1>5. CASE r = 5
  <2>1. X86_Group_5[r] = As("BRANCH", Reads(<<E("p")>>))
    BY <1>5 DEF X86_Group_5
  <2>2. RowIs(As("BRANCH", Reads(<<E("p")>>)), TRUE, "none")
    BY MemoryLists, RowsFit DEF Ordinary
  <2> QED BY <2>1, <2>2 DEF RowIs
<1>6. CASE r = 6
  <2>1. X86_Group_5[r] = As("PUSH", Reads(<<E("v")>>))
    BY <1>6 DEF X86_Group_5
  <2>2. RowIs(As("PUSH", Reads(<<E("v")>>)), TRUE, "none")
    BY MemoryLists, RowsFit DEF Ordinary
  <2> QED BY <2>1, <2>2 DEF RowIs
<1>7. CASE r = 7
  <2>1. X86_Group_5[r] = NOINSTR
    BY <1>7 DEF X86_Group_5
  <2> QED BY <2>1, RowTypes DEF INVALID
<1>8. r \in 0..1 \/ r = 2 \/ r = 3 \/ r = 4 \/ r = 5 \/ r = 6 \/ r = 7
  OBVIOUS
<1> QED BY <1>1, <1>2, <1>3, <1>4, <1>5, <1>6, <1>7, <1>8

LEMMA Group6Fits == TableFits(X86_Group_6, "none")
<1> SUFFICES ASSUME NEW r \in 0..7 PROVE INVALID(X86_Group_6[r]) \/ RowIs(X86_Group_6[r], TRUE, "none")
  BY DEF TableFits
<1>1. CASE r \in 0..1
  <2>1. X86_Group_6[r] = Writes(<<E("mw")>>)
    BY <1>1 DEF X86_Group_6
  <2>2. RowIs(Writes(<<E("mw")>>), TRUE, "none")
    BY MemoryLists, RowsFit
  <2> QED BY <2>1, <2>2
<1>2. CASE r \in 2..5
  <2>1. X86_Group_6[r] = Reads(<<E("w")>>)
    BY <1>2 DEF X86_Group_6
  <2>2. RowIs(Reads(<<E("w")>>), TRUE, "none")
    BY MemoryLists, RowsFit
  <2> QED BY <2>1, <2>2
<1>3. CASE r = 6
  <2>1. X86_Group_6[r] = As("64BIT", Reads(<<E("v")>>))
    BY <1>3 DEF X86_Group_6
  <2>2. RowIs(As("64BIT", Reads(<<E("v")>>)), TRUE, "none")
    BY MemoryLists, RowsFit DEF Ordinary
  <2> QED BY <2>1, <2>2
<1>4. CASE r = 7
  <2>1. X86_Group_6[r] = NOINSTR
    BY <1>4 DEF X86_Group_6
  <2> QED BY <2>1, RowTypes DEF INVALID
<1>5. r \in 0..1 \/ r \in 2..5 \/ r = 6 \/ r = 7
  OBVIOUS
<1> QED BY <1>1, <1>2, <1>3, <1>4, <1>5

LEMMA Group7Fits == TableFits(X86_Group_7, "none")
<1> SUFFICES ASSUME NEW r \in 0..7 PROVE INVALID(X86_Group_7[r]) \/ RowIs(X86_Group_7[r], TRUE, "none")
  BY DEF TableFits
<1>1. CASE r \in 0..1
  <2>1. X86_Group_7[r] = Writes(<<M("dt")>>)
    BY <1>1 DEF X86_Group_7
  <2>2. RowIs(Writes(<<M("dt")>>), TRUE, "none")
    BY MemoryLists, RowsFit
  <2> QED BY <2>1, <2>2
<1>2. CASE r \in 2..3
  <2>1. X86_Group_7[r] = Reads(<<M("dt")>>)
    BY <1>2 DEF X86_Group_7
  <2>2. RowIs(Reads(<<M("dt")>>), TRUE, "none")
    BY MemoryLists, RowsFit
  <2> QED BY <2>1, <2>2
<1>3. CASE r = 4
  <2>1. X86_Group_7[r] = Writes(<<E("mw"), Reg>>)
    BY <1>3 DEF X86_Group_7
  <2>2. RowIs(Writes(<<E("mw"), Reg>>), TRUE, "none")
    BY MemoryRegisterLists, RowsFit
  <2> QED BY <2>1, <2>2
<1>4. CASE r = 5
  <2>1. X86_Group_7[r] = NOINSTR
    BY <1>4 DEF X86_Group_7
  <2> QED BY <2>1, RowTypes DEF INVALID
<1>5. CASE r = 6
  <2>1. X86_Group_7[r] = Writes(<<Reg, E("w")>>)
    BY <1>5 DEF X86_Group_7
  <2>2. RowIs(Writes(<<Reg, E("w")>>), TRUE, "none")
    BY RegisterMemoryLists, RowsFit
  <2> QED BY <2>1, <2>2
<1>6. CASE r = 7
  <2>1. X86_Group_7[r] = Reads(<<M("b")>>)
    BY <1>6 DEF X86_Group_7
  <2>2. RowIs(Reads(<<M("b")>>), TRUE, "none")
    BY MemoryLists, RowsFit
  <2> QED BY <2>1, <2>2
<1>7. r \in 0..1 \/ r \in 2..3 \/ r = 4 \/ r = 5 \/ r = 6 \/ r = 7
  OBVIOUS
<1> QED BY <1>1, <1>2, <1>3, <1>4, <1>5, <1>6, <1>7

LEMMA Group8Fits == TableFits(X86_Group_8, "byte")
<1> SUFFICES ASSUME NEW r \in 0..7 PROVE INVALID(X86_Group_8[r]) \/ RowIs(X86_Group_8[r], TRUE, "byte")
  BY DEF TableFits
<1>1. CASE r \in 4..7
  <2>1. X86_Group_8[r] = Modifies(<<E("v"), I("b")>>)
    BY <1>1 DEF X86_Group_8
  <2>2. RowIs(Modifies(<<E("v"), I("b")>>), TRUE, "byte")
    BY MemoryImmediateLists, RowsFit
  <2> QED BY <2>1, <2>2
<1>2. CASE ~(r \in 4..7)
  <2>1. X86_Group_8[r] = NOINSTR
    BY <1>2 DEF X86_Group_8
  <2> QED BY <2>1, RowTypes DEF INVALID
<1> QED BY <1>1, <1>2

LEMMA Group9Fits == TableFits(X86_Group_9, "none")
<1> SUFFICES ASSUME NEW r \in 0..7 PROVE INVALID(X86_Group_9[r]) \/ RowIs(X86_Group_9[r], TRUE, "none")
  BY DEF TableFits
<1>1. CASE r = 1
  <2>1. X86_Group_9[r] = Row("PLAIN", <<M("q"), Reg, Reg>>, {1, 2}, {1, 2, 3})
    BY <1>1 DEF X86_Group_9
  <2>2. RowIs(Row("PLAIN", <<M("q"), Reg, Reg>>, {1, 2}, {1, 2, 3}), TRUE, "none")
    BY MemoryRegisterRegisterLists, RowMade DEF Ordinary
  <2> QED BY <2>1, <2>2
<1>2. CASE ~(r = 1)
  <2>1. X86_Group_9[r] = NOINSTR
    BY <1>2 DEF X86_Group_9
  <2> QED BY <2>1, RowTypes DEF INVALID
<1> QED BY <1>1, <1>2

LEMMA Group10Fits == TableFits(X86_Group_10, "none")
<1> SUFFICES ASSUME NEW r \in 0..7 PROVE INVALID(X86_Group_10[r]) \/ RowIs(X86_Group_10[r], TRUE, "none")
  BY DEF TableFits
<1>1. CASE r = 0
  <2>1. X86_Group_10[r] = As("POP", Writes(<<E("v")>>))
    BY <1>1 DEF X86_Group_10
  <2>2. RowIs(As("POP", Writes(<<E("v")>>)), TRUE, "none")
    BY MemoryLists, RowsFit DEF Ordinary
  <2> QED BY <2>1, <2>2
<1>2. CASE ~(r = 0)
  <2>1. X86_Group_10[r] = NOINSTR
    BY <1>2 DEF X86_Group_10
  <2> QED BY <2>1, RowTypes DEF INVALID
<1> QED BY <1>1, <1>2

LEMMA Group13Fits == TableFits(X86_Group_13, "byte")
<1> SUFFICES ASSUME NEW r \in 0..7 PROVE INVALID(X86_Group_13[r]) \/ RowIs(X86_Group_13[r], TRUE, "byte")
  BY DEF TableFits
<1>1. CASE r \in {2, 4, 6}
  <2>1. X86_Group_13[r] = As("MMX", Writes(<<PR("q"), I("b")>>))
    BY <1>1 DEF X86_Group_13
  <2>2. RowIs(As("MMX", Writes(<<PR("q"), I("b")>>)), TRUE, "byte")
    BY MemoryImmediateLists, RowsFit DEF Ordinary
  <2> QED BY <2>1, <2>2
<1>2. CASE ~(r \in {2, 4, 6})
  <2>1. X86_Group_13[r] = NOINSTR
    BY <1>2 DEF X86_Group_13
  <2> QED BY <2>1, RowTypes DEF INVALID
<1> QED BY <1>1, <1>2

LEMMA Group14Fits == TableFits(X86_Group_14, "byte")
<1> SUFFICES ASSUME NEW r \in 0..7 PROVE INVALID(X86_Group_14[r]) \/ RowIs(X86_Group_14[r], TRUE, "byte")
  BY DEF TableFits
<1>1. CASE r \in {2, 4, 6}
  <2>1. X86_Group_14[r] = As("MMX", Writes(<<PR("q"), I("b")>>))
    BY <1>1 DEF X86_Group_14
  <2>2. RowIs(As("MMX", Writes(<<PR("q"), I("b")>>)), TRUE, "byte")
    BY MemoryImmediateLists, RowsFit DEF Ordinary
  <2> QED BY <2>1, <2>2
<1>2. CASE ~(r \in {2, 4, 6})
  <2>1. X86_Group_14[r] = NOINSTR
    BY <1>2 DEF X86_Group_14
  <2> QED BY <2>1, RowTypes DEF INVALID
<1> QED BY <1>1, <1>2

LEMMA Group15Fits == TableFits(X86_Group_15, "byte")
<1> SUFFICES ASSUME NEW r \in 0..7 PROVE INVALID(X86_Group_15[r]) \/ RowIs(X86_Group_15[r], TRUE, "byte")
  BY DEF TableFits
<1>1. CASE r \in {2, 3, 6, 7}
  <2>1. X86_Group_15[r] = As("MMX", Writes(<<PR("q"), I("b")>>))
    BY <1>1 DEF X86_Group_15
  <2>2. RowIs(As("MMX", Writes(<<PR("q"), I("b")>>)), TRUE, "byte")
    BY MemoryImmediateLists, RowsFit DEF Ordinary
  <2> QED BY <2>1, <2>2
<1>2. CASE ~(r \in {2, 3, 6, 7})
  <2>1. X86_Group_15[r] = NOINSTR
    BY <1>2 DEF X86_Group_15
  <2> QED BY <2>1, RowTypes DEF INVALID
<1> QED BY <1>1, <1>2

LEMMA Group16Fits ==
  ASSUME NEW r \in 0..7
  PROVE  LET row == X86_Group_16[r]
         IN \/ INVALID(row) \/ (r \in 5..7 /\ row = NOARGS)
            \/ RowFits(row, TRUE, "none")
<1>1. CASE r = 0
  <2>1. X86_Group_16[r] = As("FPU", Writes(<<M("fst2")>>))
    BY <1>1 DEF X86_Group_16
  <2>2. RowFits(As("FPU", Writes(<<M("fst2")>>)), TRUE, "none")
    BY OperandsAre, LargeFits DEF Ordinary
  <2> QED BY <1>1, <2>1, <2>2
<1>2. CASE r = 1
  <2>1. X86_Group_16[r] = As("FPU", Reads(<<M("fst2")>>))
    BY <1>2 DEF X86_Group_16
  <2>2. RowFits(As("FPU", Reads(<<M("fst2")>>)), TRUE, "none")
    BY OperandsAre, LargeFits DEF Ordinary
  <2> QED BY <1>2, <2>1, <2>2
<1>3. CASE r = 2
  <2>1. X86_Group_16[r] = As("SSE", Reads(<<M("d")>>))
    BY <1>3 DEF X86_Group_16
  <2>2. RowIs(As("SSE", Reads(<<M("d")>>)), TRUE, "none")
    BY MemoryLists, RowsFit DEF Ordinary
  <2> QED BY <2>1, <2>2 DEF RowIs
<1>4. CASE r = 3
  <2>1. X86_Group_16[r] = As("SSE", Writes(<<M("d")>>))
    BY <1>4 DEF X86_Group_16
  <2>2. RowIs(As("SSE", Writes(<<M("d")>>)), TRUE, "none")
    BY MemoryLists, RowsFit DEF Ordinary
  <2> QED BY <2>1, <2>2 DEF RowIs
<1>5. CASE r = 4
  <2>1. X86_Group_16[r] = NOINSTR
    BY <1>5 DEF X86_Group_16
  <2> QED BY <2>1, RowTypes DEF INVALID
<1>6. CASE r \in 5..7
  <2>1. X86_Group_16[r] = NOARGS
    BY <1>6 DEF X86_Group_16
  <2> QED BY <1>6, <2>1
<1>7. r = 0 \/ r = 1 \/ r = 2 \/ r = 3 \/ r = 4 \/ r \in 5..7
  OBVIOUS
<1> QED BY <1>1, <1>2, <1>3, <1>4, <1>5, <1>6, <1>7

LEMMA Group17Fits == TableFits(X86_Group_17, "none")
<1> SUFFICES ASSUME NEW r \in 0..7 PROVE INVALID(X86_Group_17[r]) \/ RowIs(X86_Group_17[r], TRUE, "none")
  BY DEF TableFits
<1>1. X86_Group_17[r] = Reads(<<E("b")>>)
  BY DEF X86_Group_17
<1>2. RowIs(Reads(<<E("b")>>), TRUE, "none")
  BY MemoryLists, RowsFit
<1> QED BY <1>1, <1>2

LEMMA GroupPFits == TableFits(X86_Group_P, "none")
<1> SUFFICES ASSUME NEW r \in 0..7 PROVE INVALID(X86_Group_P[r]) \/ RowIs(X86_Group_P[r], TRUE, "none")
  BY DEF TableFits
<1>1. CASE r \in 0..1
  <2>1. X86_Group_P[r] = Reads(<<E("b")>>)
    BY <1>1 DEF X86_Group_P
  <2>2. RowIs(Reads(<<E("b")>>), TRUE, "none")
    BY MemoryLists, RowsFit
  <2> QED BY <2>1, <2>2
<1>2. CASE ~(r \in 0..1)
  <2>1. X86_Group_P[r] = NOINSTR
    BY <1>2 DEF X86_Group_P
  <2> QED BY <2>1, RowTypes DEF INVALID
<1> QED BY <1>1, <1>2

LEMMA ShiftsFit ==
  /\ \E table : X86_SSE2_Group_13 = GROUP(table) /\ TableFits(table, "byte")
  /\ \E table : X86_SSE2_Group_14 = GROUP(table) /\ TableFits(table, "byte")
  /\ \E table : X86_SSE2_Group_15 = GROUP(table) /\ TableFits(table, "byte")
<1>1. ASSUME NEW extensions
      PROVE  \E table : Shift_Group(extensions) = GROUP(table) /\ TableFits(table, "byte")
  <2> DEFINE row == As("SSE2", Writes(<<VR("o"), I("b")>>))
             table == [r \in 0..7 |-> IF r \in extensions THEN row ELSE NOINSTR]
  <2>1. Shift_Group(extensions) = GROUP(table)
    BY DEF Shift_Group
  <2>2. RowIs(row, TRUE, "byte")
    BY MemoryImmediateLists, RowsFit DEF Ordinary
  <2>3. INVALID(NOINSTR)
    BY RowTypes DEF INVALID
  <2> HIDE DEF row
  <2>4. \A r \in 0..7 : table[r] = row \/ table[r] = NOINSTR
    OBVIOUS
  <2> HIDE DEF table
  <2>5. TableFits(table, "byte")
    BY <2>2, <2>3, <2>4 DEF TableFits
  <2> QED BY <2>1, <2>5
<1> QED BY <1>1 DEF X86_SSE2_Group_13, X86_SSE2_Group_14, X86_SSE2_Group_15

-----------------------------------------------------------------------------
(* Rows with a table of their own. *)

GroupRow1(row, b, r) == INVALID(row) \/ RowFits(row, TRUE, Kind1(b, r))
GroupRow2(row, b, r) ==
  \/ INVALID(row) \/ (b = \hAE /\ r \in 5..7 /\ row = NOARGS)
  \/ RowFits(row, TRUE, Kind2(b))

LEMMA Group1RowsFit ==
  ASSUME NEW table, NEW b, b \in X86_ModRM_1, \A r \in 0..7 : GroupRow1(table[r], b, r)
  PROVE  Fits1(GROUP(table), b)
<1> DEFINE row == GROUP(table)
<1>1. row.type = "GROUP" /\ row.table = table
  BY RowTypes
<1> HIDE DEF row
<1>2. Fits1(row, b)
  BY <1>1 DEF Fits1, GroupRow1
<1> QED BY <1>2 DEF row

LEMMA Group2RowsFit ==
  ASSUME NEW table, NEW b, b \in Coded_2, b \in X86_ModRM_2,
         \A r \in 0..7 : GroupRow2(table[r], b, r)
  PROVE  Fits2(GROUP(table), b)
<1> DEFINE row == GROUP(table)
<1>1. row.type = "GROUP" /\ row.table = table
  BY RowTypes
<1> HIDE DEF row
<1>2. Fits2(row, b)
  BY <1>1 DEF Fits2, GroupRow2
<1> QED BY <1>2 DEF row

LEMMA EscapesFit ==
  ASSUME NEW table, EscapeFits(table), NEW b \in \hD8..\hDF
  PROVE  Fits1(EXT_FPU(table), b)
<1> DEFINE row == EXT_FPU(table)
<1>1. row.type = "EXT_FPU" /\ row.table = table
  BY RowTypes DEF EXT_FPU, NOARGS, Reads, Row
<1> HIDE DEF row
<1>2. ASSUME NEW i \in 0..71
      PROVE  INVALID(table[i]) \/ RowFits(table[i], i < 8, "none")
  <2>1. EscapeRow(table[i], i)
    BY DEF EscapeFits
  <2> QED BY <2>1 DEF EscapeRow
<1>3. Fits1(row, b)
  BY <1>1, <1>2 DEF Fits1
<1> QED BY <1>3 DEF row

LEMMA ByWidth1Fits ==
  ASSUME NEW row, NEW other, NEW b, b = \h63, RowIs(row, TRUE, "none")
  PROVE  Fits1(EXT_64(<<row, other>>), b)
<1> DEFINE by == EXT_64(<<row, other>>)
<1>1. by.type = "EXT_64" /\ by.table[1] = row
  BY RowTypes DEF EXT_64, NOARGS, Reads, Row
<1> HIDE DEF by
<1>2. Fits1(by, b)
  BY <1>1 DEF Fits1
<1> QED BY <1>2 DEF by

LEMMA ByWidth2Fits ==
  ASSUME NEW row, NEW other, NEW b, b = \h05, RowIs(row, FALSE, "none")
  PROVE  Fits2(EXT_64(<<row, other>>), b)
<1> DEFINE by == EXT_64(<<row, other>>)
<1>1. by.type = "EXT_64" /\ by.table[1] = row
  BY RowTypes DEF EXT_64, NOARGS, Reads, Row
<1> HIDE DEF by
<1>2. Fits2(by, b)
  BY <1>1 DEF Fits2
<1> QED BY <1>2 DEF by

LEMMA LowRowsFit ==
  ASSUME NEW b \in 0..\h7F
  PROVE  Fits1(Opcodes_1_low[b], b)
<1>1. CASE \/ b \in {\h38, \h39, \h3A, \h3B, \h62}
           \/ b \in 0..\h37 /\ b % 8 = 0
           \/ b \in 0..\h37 /\ b % 8 = 1
           \/ b \in 0..\h37 /\ b % 8 = 2
           \/ b \in 0..\h37 /\ b % 8 = 3
  <2> DEFINE rows ==
           {Writes(<<E("b"), G("b")>>), Writes(<<E("v"), G("v")>>), Writes(<<G("b"), E("b")>>),
            Writes(<<G("v"), E("v")>>), Reads(<<E("b"), G("b")>>), Reads(<<E("v"), G("v")>>),
            Reads(<<G("b"), E("b")>>), Reads(<<G("v"), E("v")>>), Reads(<<G("v"), M("a")>>)}
  <2>1. Opcodes_1_low[b] \in rows
    BY <1>1 DEF Opcodes_1_low
  <2>2. \A row \in rows : RowIs(row, TRUE, "none")
    BY MemoryRegisterLists, RegisterMemoryLists, RowsFit
  <2> HIDE DEF rows
  <2>3. b \in X86_ModRM_1 /\ \A r \in 0..7 : Kind1(b, r) = "none"
    BY <1>1 DEF Kind1, X86_ModRM_1
  <2> QED BY <2>1, <2>2, <2>3, PlainFits
<1>2. CASE \/ b \in {\h3C, \h6A} \union \h70..\h7F
           \/ b \in 0..\h37 /\ b % 8 = 4
  <2> DEFINE rows ==
           {Writes(<<Reg, I("b")>>), Reads(<<Reg, I("b")>>), As("PUSH", Reads(<<I("b")>>)),
            As("BRANCHCC", Reads(<<J("b")>>))}
  <2>1. Opcodes_1_low[b] \in rows
    BY <1>2 DEF Opcodes_1_low
  <2>2. \A row \in rows : RowIs(row, FALSE, "byte")
    BY ImmediateLists, JumpLists, RegisterImmediateLists, RowsFit DEF Ordinary
  <2> HIDE DEF rows
  <2>3. b \notin X86_ModRM_1 /\ \A r \in 0..7 : Kind1(b, r) = "byte"
    BY <1>2 DEF Kind1, X86_ModRM_1
  <2> QED BY <2>1, <2>2, <2>3, PlainFits
<1>3. CASE \/ b \in {\h3D, \h68}
           \/ b \in 0..\h37 /\ b % 8 = 5
  <2> DEFINE rows ==
           {Writes(<<Reg, I("z")>>), Reads(<<Reg, I("z")>>), As("PUSH", Reads(<<I("z")>>))}
  <2>1. Opcodes_1_low[b] \in rows
    BY <1>3 DEF Opcodes_1_low
  <2>2. \A row \in rows : RowIs(row, FALSE, "operand")
    BY ImmediateLists, RegisterImmediateLists, RowsFit DEF Ordinary
  <2> HIDE DEF rows
  <2>3. b \notin X86_ModRM_1 /\ \A r \in 0..7 : Kind1(b, r) = "operand"
    BY <1>3 DEF Kind1, X86_ModRM_1
  <2> QED BY <2>1, <2>2, <2>3, PlainFits
<1>4. CASE b \in {\h06, \h07, \h0E, \h16, \h17, \h1E, \h1F, \h27, \h2F, \h37, \h3F, \h60, \h61,
               \h6C, \h6D, \h6E, \h6F} \union \h40..\h4F \union \h50..\h57 \union \h58..\h5F
  <2> DEFINE rows ==
           {As("PUSH", Reads(<<Reg>>)), As("POP", Writes(<<Reg>>)), Modifies(<<Reg>>), NOARGS,
            As("IN", Writes(<<Y("b"), Reg>>)), As("IN", Writes(<<Y("z"), Reg>>)),
            As("OUT", Writes(<<Reg, X("b")>>)), As("OUT", Writes(<<Reg, X("z")>>))}
  <2>1. Opcodes_1_low[b] \in rows
    BY <1>4 DEF Opcodes_1_low
  <2>2. \A row \in rows : RowIs(row, FALSE, "none")
    BY NoArguments, RegisterLists, RegisterStringLists, RowsFit, StringRegisterLists
       DEF Ordinary
  <2> HIDE DEF rows
  <2>3. b \notin X86_ModRM_1 /\ \A r \in 0..7 : Kind1(b, r) = "none"
    BY <1>4 DEF Kind1, X86_ModRM_1
  <2> QED BY <2>1, <2>2, <2>3, PlainFits
<1>5. CASE b = \h0F
  <2>1. Opcodes_1_low[b] = NOARGS
    BY <1>5 DEF Opcodes_1_low
  <2> QED BY <1>5 DEF Fits1, TWO_BYTE_OPCODE
<1>6. CASE b \in {\h26, \h2E, \h36, \h3E} \union \h64..\h67
  <2>1. Opcodes_1_low[b] = PREFIX
    BY <1>6 DEF Opcodes_1_low
  <2> QED BY <2>1, RowTypes DEF Fits1, INVALID
<1>7. CASE b = \h63
  <2>1. Opcodes_1_low[b] = EXT_64(<<Reads(<<E("w"), G("w")>>), As("64BIT", Writes(<<G("v"),
        E("d")>>))>>)
    BY <1>7 DEF Opcodes_1_low
  <2>2. RowIs(Reads(<<E("w"), G("w")>>), TRUE, "none")
    BY MemoryRegisterLists, RowsFit
  <2> DEFINE row == Reads(<<E("w"), G("w")>>)
             other == As("64BIT", Writes(<<G("v"), E("d")>>))
  <2>3. Opcodes_1_low[b] = EXT_64(<<row, other>>) /\ RowIs(row, TRUE, "none")
    BY <2>1, <2>2
  <2> HIDE DEF row, other
  <2>4. Fits1(EXT_64(<<row, other>>), b)
    BY <1>7, <2>3, ByWidth1Fits
  <2> QED BY <2>3, <2>4
<1>8. CASE b = \h69
  <2>1. Opcodes_1_low[b] = Writes(<<G("v"), E("v"), I("z")>>)
    BY <1>8 DEF Opcodes_1_low
  <2>2. RowIs(Writes(<<G("v"), E("v"), I("z")>>), TRUE, "operand")
    BY RegisterMemoryImmediateLists, RowsFit
  <2>3. b \in X86_ModRM_1 /\ \A r \in 0..7 : Kind1(b, r) = "operand"
    BY <1>8 DEF Kind1, X86_ModRM_1
  <2> QED BY <2>1, <2>2, <2>3, PlainFits
<1>9. CASE b = \h6B
  <2>1. Opcodes_1_low[b] = Writes(<<G("v"), E("v"), I("b")>>)
    BY <1>9 DEF Opcodes_1_low
  <2>2. RowIs(Writes(<<G("v"), E("v"), I("b")>>), TRUE, "byte")
    BY RegisterMemoryImmediateLists, RowsFit
  <2>3. b \in X86_ModRM_1 /\ \A r \in 0..7 : Kind1(b, r) = "byte"
    BY <1>9 DEF Kind1, X86_ModRM_1
  <2> QED BY <2>1, <2>2, <2>3, PlainFits
<1> QED BY <1>1, <1>2, <1>3, <1>4, <1>5, <1>6, <1>7, <1>8, <1>9

LEMMA Rows80Fit ==
  ASSUME NEW b \in \h80..\h9F
  PROVE  Fits1(Opcodes_1_80[b], b)
<1>1. CASE b = \h80
  <2>1. Opcodes_1_80[b] = GROUP(X86_Group_1(E("b"), I("b")))
    BY <1>1 DEF Opcodes_1_80
  <2>2. TableFits(X86_Group_1(E("b"), I("b")), "byte")
    BY OperandsAre, Group1Fits DEF KindOfSize
  <2>3. b \in X86_ModRM_1 /\ \A r \in 0..7 : Kind1(b, r) = "byte"
    BY <1>1 DEF Kind1, X86_ModRM_1
  <2> QED BY <2>1, <2>2, <2>3, GroupsFit
<1>2. CASE b = \h81
  <2>1. Opcodes_1_80[b] = GROUP(X86_Group_1(E("v"), I("z")))
    BY <1>2 DEF Opcodes_1_80
  <2>2. TableFits(X86_Group_1(E("v"), I("z")), "operand")
    BY OperandsAre, Group1Fits DEF KindOfSize
  <2>3. b \in X86_ModRM_1 /\ \A r \in 0..7 : Kind1(b, r) = "operand"
    BY <1>2 DEF Kind1, X86_ModRM_1
  <2> QED BY <2>1, <2>2, <2>3, GroupsFit
<1>3. CASE b \in {\h82, \h83}
  <2>1. Opcodes_1_80[b] = GROUP(X86_Group_1(E("v"), I("b")))
    BY <1>3 DEF Opcodes_1_80
  <2>2. TableFits(X86_Group_1(E("v"), I("b")), "byte")
    BY OperandsAre, Group1Fits DEF KindOfSize
  <2>3. b \in X86_ModRM_1 /\ \A r \in 0..7 : Kind1(b, r) = "byte"
    BY <1>3 DEF Kind1, X86_ModRM_1
  <2> QED BY <2>1, <2>2, <2>3, GroupsFit
<1>4. CASE b \in {\h84, \h85, \h86, \h87, \h88, \h89, \h8A, \h8B, \h8C, \h8D, \h8E}
  <2> DEFINE rows ==
           {Reads(<<E("b"), G("b")>>), Reads(<<E("v"), G("v")>>), Exchanges(<<E("b"), G("b")>>),
            Exchanges(<<E("v"), G("v")>>), As("MOV", Writes(<<E("b"), G("b")>>)),
            As("MOV", Writes(<<E("v"), G("v")>>)), As("MOV", Writes(<<G("b"), E("b")>>)),
            As("MOV", Writes(<<G("v"), E("v")>>)), As("MOV", Writes(<<E("mw"), S("w")>>)),
            Writes(<<G("v"), M("lea")>>), As("MOV", Writes(<<S("w"), E("w")>>))}
  <2>1. Opcodes_1_80[b] \in rows
    BY <1>4 DEF Opcodes_1_80
  <2>2. \A row \in rows : RowIs(row, TRUE, "none")
    BY ExchangesFit, MemoryRegisterLists, RegisterMemoryLists, RowsFit DEF Ordinary
  <2> HIDE DEF rows
  <2>3. b \in X86_ModRM_1 /\ \A r \in 0..7 : Kind1(b, r) = "none"
    BY <1>4 DEF Kind1, X86_ModRM_1
  <2> QED BY <2>1, <2>2, <2>3, PlainFits
<1>5. CASE b = \h8F
  <2>1. Opcodes_1_80[b] = GROUP(X86_Group_10)
    BY <1>5 DEF Opcodes_1_80
  <2>2. TableFits(X86_Group_10, "none")
    BY Group10Fits
  <2>3. b \in X86_ModRM_1 /\ \A r \in 0..7 : Kind1(b, r) = "none"
    BY <1>5 DEF Kind1, X86_ModRM_1
  <2> QED BY <2>1, <2>2, <2>3, GroupsFit
<1>6. CASE b \in {\h90, \h98, \h99, \h9B, \h9E, \h9F} \union \h91..\h97
  <2> DEFINE rows ==
           {NOARGS, Exchanges(<<Reg, Reg>>), Writes(<<Reg, Reg>>), As("MOV", Writes(<<Reg, Reg>>))}
  <2>1. Opcodes_1_80[b] \in rows
    BY <1>6 DEF Opcodes_1_80
  <2>2. \A row \in rows : RowIs(row, FALSE, "none")
    BY ExchangesFit, NoArguments, RegisterRegisterLists, RowsFit DEF Ordinary
  <2> HIDE DEF rows
  <2>3. b \notin X86_ModRM_1 /\ \A r \in 0..7 : Kind1(b, r) = "none"
    BY <1>6 DEF Kind1, X86_ModRM_1
  <2> QED BY <2>1, <2>2, <2>3, PlainFits
<1>7. CASE b = \h9A
  <2>1. Opcodes_1_80[b] = As("CALL", Reads(<<A("p")>>))
    BY <1>7 DEF Opcodes_1_80
  <2>2. RowIs(As("CALL", Reads(<<A("p")>>)), FALSE, "far")
    BY CallFits, FarLists DEF A
  <2>3. b \notin X86_ModRM_1 /\ \A r \in 0..7 : Kind1(b, r) = "far"
    BY <1>7 DEF Kind1, X86_ModRM_1
  <2> QED BY <2>1, <2>2, <2>3, PlainFits
<1>8. CASE b = \h9C
  <2>1. Opcodes_1_80[b] = As("PUSHF", Reads(<<Reg>>))
    BY <1>8 DEF Opcodes_1_80
  <2>2. \A k \in 1..Len(<<Reg>>) : <<Reg>>[k].mode \notin {"M", "O"}
    BY DEF Reg
  <2>3. RowIs(As("PUSHF", Reads(<<Reg>>)), FALSE, "none")
    BY <2>2, RegisterLists, SegmentRowsFit DEF SegmentTypes
  <2>4. b \notin X86_ModRM_1 /\ \A r \in 0..7 : Kind1(b, r) = "none"
    BY <1>8 DEF Kind1, X86_ModRM_1
  <2> QED BY <2>1, <2>3, <2>4, PlainFits
<1>9. CASE b = \h9D
  <2>1. Opcodes_1_80[b] = As("POPF", Writes(<<Reg>>))
    BY <1>9 DEF Opcodes_1_80
  <2>2. \A k \in 1..Len(<<Reg>>) : <<Reg>>[k].mode \notin {"M", "O"}
    BY DEF Reg
  <2>3. RowIs(As("POPF", Writes(<<Reg>>)), FALSE, "none")
    BY <2>2, RegisterLists, SegmentRowsFit DEF SegmentTypes
  <2>4. b \notin X86_ModRM_1 /\ \A r \in 0..7 : Kind1(b, r) = "none"
    BY <1>9 DEF Kind1, X86_ModRM_1
  <2> QED BY <2>1, <2>3, <2>4, PlainFits
<1> QED BY <1>1, <1>2, <1>3, <1>4, <1>5, <1>6, <1>7, <1>8, <1>9

LEMMA RowsA0Fit ==
  ASSUME NEW b \in \hA0..\hBF
  PROVE  Fits1(Opcodes_1_A0[b], b)
<1>1. CASE b \in {\hA0, \hA1, \hA2, \hA3}
  <2> DEFINE rows ==
           {As("MOV", Writes(<<Reg, O("b")>>)), As("MOV", Writes(<<Reg, O("v")>>)),
            As("MOV", Writes(<<O("b"), Reg>>)), As("MOV", Writes(<<O("v"), Reg>>))}
  <2>1. Opcodes_1_A0[b] \in rows
    BY <1>1 DEF Opcodes_1_A0
  <2>2. \A row \in rows : RowIs(row, FALSE, "offset")
    BY OffsetRegisterLists, RegisterOffsetLists, RowsFit DEF Ordinary
  <2> HIDE DEF rows
  <2>3. b \notin X86_ModRM_1 /\ \A r \in 0..7 : Kind1(b, r) = "offset"
    BY <1>1 DEF Kind1, X86_ModRM_1
  <2> QED BY <2>1, <2>2, <2>3, PlainFits
<1>2. CASE b \in {\hA4, \hA5, \hA6, \hA7, \hAA, \hAB, \hAC, \hAD, \hAE, \hAF}
  <2> DEFINE rows ==
           {As("STRMOV", Writes(<<Y("b"), X("b")>>)), As("STRMOV", Writes(<<Y("z"), X("z")>>)),
            As("STRCMP", Reads(<<X("b"), Y("b")>>)), As("STRCMP", Reads(<<X("z"), Y("z")>>)),
            As("STRSTOR", Writes(<<Y("b"), Reg>>)), As("STRSTOR", Writes(<<Y("z"), Reg>>)),
            As("STRLOAD", Writes(<<Reg, X("b")>>)), As("STRLOAD", Writes(<<Reg, X("z")>>)),
            As("STRCMP", Reads(<<Reg, Y("b")>>)), As("STRCMP", Reads(<<Reg, Y("z")>>))}
  <2>1. Opcodes_1_A0[b] \in rows
    BY <1>2 DEF Opcodes_1_A0
  <2>2. \A row \in rows : RowIs(row, FALSE, "none")
    BY OperandsAre, RegisterStringLists, RowsFit, StringRegisterLists, StringsFit DEF Ordinary
  <2> HIDE DEF rows
  <2>3. b \notin X86_ModRM_1 /\ \A r \in 0..7 : Kind1(b, r) = "none"
    BY <1>2 DEF Kind1, X86_ModRM_1
  <2> QED BY <2>1, <2>2, <2>3, PlainFits
<1>3. CASE b \in {\hA8} \union \hB0..\hB7
  <2> DEFINE rows ==
           {Reads(<<Reg, I("b")>>), As("MOV", Writes(<<Reg, I("b")>>))}
  <2>1. Opcodes_1_A0[b] \in rows
    BY <1>3 DEF Opcodes_1_A0
  <2>2. \A row \in rows : RowIs(row, FALSE, "byte")
    BY RegisterImmediateLists, RowsFit DEF Ordinary
  <2> HIDE DEF rows
  <2>3. b \notin X86_ModRM_1 /\ \A r \in 0..7 : Kind1(b, r) = "byte"
    BY <1>3 DEF Kind1, X86_ModRM_1
  <2> QED BY <2>1, <2>2, <2>3, PlainFits
<1>4. CASE b \in {\hA9} \union \hB8..\hBF
  <2> DEFINE rows ==
           {Reads(<<Reg, I("z")>>), As("MOV", Writes(<<Reg, I("v")>>))}
  <2>1. Opcodes_1_A0[b] \in rows
    BY <1>4 DEF Opcodes_1_A0
  <2>2. \A row \in rows : RowIs(row, FALSE, "operand")
    BY RegisterImmediateLists, RowsFit DEF Ordinary
  <2> HIDE DEF rows
  <2>3. b \notin X86_ModRM_1 /\ \A r \in 0..7 : Kind1(b, r) = "operand"
    BY <1>4 DEF Kind1, X86_ModRM_1
  <2> QED BY <2>1, <2>2, <2>3, PlainFits
<1> QED BY <1>1, <1>2, <1>3, <1>4

LEMMA RowsC0Fit ==
  ASSUME NEW b \in \hC0..\hDF
  PROVE  Fits1(Opcodes_1_C0[b], b)
<1>1. CASE b = \hC0
  <2>1. Opcodes_1_C0[b] = GROUP(X86_Group_2(E("b"), I("b")))
    BY <1>1 DEF Opcodes_1_C0
  <2>2. TableFits(X86_Group_2(E("b"), I("b")), "byte")
    BY OperandsAre, Group2Fits DEF KindOfSize
  <2>3. b \in X86_ModRM_1 /\ \A r \in 0..7 : Kind1(b, r) = "byte"
    BY <1>1 DEF Kind1, X86_ModRM_1
  <2> QED BY <2>1, <2>2, <2>3, GroupsFit
<1>2. CASE b = \hC1
  <2>1. Opcodes_1_C0[b] = GROUP(X86_Group_2(E("v"), I("b")))
    BY <1>2 DEF Opcodes_1_C0
  <2>2. TableFits(X86_Group_2(E("v"), I("b")), "byte")
    BY OperandsAre, Group2Fits DEF KindOfSize
  <2>3. b \in X86_ModRM_1 /\ \A r \in 0..7 : Kind1(b, r) = "byte"
    BY <1>2 DEF Kind1, X86_ModRM_1
  <2> QED BY <2>1, <2>2, <2>3, GroupsFit
<1>3. CASE b \in {\hC2, \hCA}
  <2>1. Opcodes_1_C0[b] = As("RET", Reads(<<I("w")>>))
    BY <1>3 DEF Opcodes_1_C0
  <2>2. \A k \in 1..Len(<<I("w")>>) : <<I("w")>>[k].mode \notin {"M", "O"}
    BY DEF I
  <2>3. RowIs(As("RET", Reads(<<I("w")>>)), FALSE, "word")
    BY <2>2, ImmediateLists, SegmentRowsFit DEF SegmentTypes
  <2>4. b \notin X86_ModRM_1 /\ \A r \in 0..7 : Kind1(b, r) = "word"
    BY <1>3 DEF Kind1, X86_ModRM_1
  <2> QED BY <2>1, <2>3, <2>4, PlainFits
<1>4. CASE b \in {\hC3, \hCB, \hCC, \hCE, \hCF, \hD6, \hD7}
  <2> DEFINE rows ==
           {As("RET", NOARGS), As("DEBUG", NOARGS), As("OFLOW", NOARGS), As("TRAPRET", NOARGS),
            Writes(<<Reg, Reg, Reg>>), Writes(<<Reg, xlat("b")>>)}
  <2>1. Opcodes_1_C0[b] \in rows
    BY <1>4 DEF Opcodes_1_C0
  <2>2. \A row \in rows : RowIs(row, FALSE, "none")
    BY NoArguments, RegisterRegisterRegisterLists, RegisterStringLists, RowsFit DEF SegmentTypes
  <2> HIDE DEF rows
  <2>3. b \notin X86_ModRM_1 /\ \A r \in 0..7 : Kind1(b, r) = "none"
    BY <1>4 DEF Kind1, X86_ModRM_1
  <2> QED BY <2>1, <2>2, <2>3, PlainFits
<1>5. CASE b \in {\hC4, \hC5}
  <2>1. Opcodes_1_C0[b] = As("MOV", Writes(<<G("z"), M("p")>>))
    BY <1>5 DEF Opcodes_1_C0
  <2>2. RowIs(As("MOV", Writes(<<G("z"), M("p")>>)), TRUE, "none")
    BY RegisterMemoryLists, RowsFit DEF Ordinary
  <2>3. b \in X86_ModRM_1 /\ \A r \in 0..7 : Kind1(b, r) = "none"
    BY <1>5 DEF Kind1, X86_ModRM_1
  <2> QED BY <2>1, <2>2, <2>3, PlainFits
<1>6. CASE b = \hC6
  <2>1. Opcodes_1_C0[b] = GROUP(X86_Group_12(E("b"), I("b")))
    BY <1>6 DEF Opcodes_1_C0
  <2>2. TableFits(X86_Group_12(E("b"), I("b")), "byte")
    BY OperandsAre, Group12Fits DEF KindOfSize
  <2>3. b \in X86_ModRM_1 /\ \A r \in 0..7 : Kind1(b, r) = "byte"
    BY <1>6 DEF Kind1, X86_ModRM_1
  <2> QED BY <2>1, <2>2, <2>3, GroupsFit
<1>7. CASE b = \hC7
  <2>1. Opcodes_1_C0[b] = GROUP(X86_Group_12(E("v"), I("z")))
    BY <1>7 DEF Opcodes_1_C0
  <2>2. TableFits(X86_Group_12(E("v"), I("z")), "operand")
    BY OperandsAre, Group12Fits DEF KindOfSize
  <2>3. b \in X86_ModRM_1 /\ \A r \in 0..7 : Kind1(b, r) = "operand"
    BY <1>7 DEF Kind1, X86_ModRM_1
  <2> QED BY <2>1, <2>2, <2>3, GroupsFit
<1>8. CASE b = \hC8
  <2>1. Opcodes_1_C0[b] = As("ENTER", Modifies(<<Reg, I("w"), I("b")>>))
    BY <1>8 DEF Opcodes_1_C0
  <2>2. \A k \in 1..Len(<<Reg, I("w"), I("b")>>) : <<Reg, I("w"), I("b")>>[k].mode \notin {"M",
        "O"}
    BY DEF I, Reg
  <2>3. RowIs(As("ENTER", Modifies(<<Reg, I("w"), I("b")>>)), FALSE, "enter")
    BY <2>2, EnterLists, SegmentRowsFit DEF SegmentTypes
  <2>4. b \notin X86_ModRM_1 /\ \A r \in 0..7 : Kind1(b, r) = "enter"
    BY <1>8 DEF Kind1, X86_ModRM_1
  <2> QED BY <2>1, <2>3, <2>4, PlainFits
<1>9. CASE b = \hC9
  <2>1. Opcodes_1_C0[b] = As("LEAVE", Modifies(<<Reg>>))
    BY <1>9 DEF Opcodes_1_C0
  <2>2. \A k \in 1..Len(<<Reg>>) : <<Reg>>[k].mode \notin {"M", "O"}
    BY DEF Reg
  <2>3. RowIs(As("LEAVE", Modifies(<<Reg>>)), FALSE, "none")
    BY <2>2, RegisterLists, SegmentRowsFit DEF SegmentTypes
  <2>4. b \notin X86_ModRM_1 /\ \A r \in 0..7 : Kind1(b, r) = "none"
    BY <1>9 DEF Kind1, X86_ModRM_1
  <2> QED BY <2>1, <2>3, <2>4, PlainFits
<1>10. CASE b = \hCD
  <2>1. Opcodes_1_C0[b] = As("TRAP", Reads(<<I("b")>>))
    BY <1>10 DEF Opcodes_1_C0
  <2>2. \A k \in 1..Len(<<I("b")>>) : <<I("b")>>[k].mode \notin {"M", "O"}
    BY DEF I
  <2>3. RowIs(As("TRAP", Reads(<<I("b")>>)), FALSE, "byte")
    BY <2>2, ImmediateLists, SegmentRowsFit DEF SegmentTypes
  <2>4. b \notin X86_ModRM_1 /\ \A r \in 0..7 : Kind1(b, r) = "byte"
    BY <1>10 DEF Kind1, X86_ModRM_1
  <2> QED BY <2>1, <2>3, <2>4, PlainFits
<1>11. CASE b \in {\hD0, \hD2}
  <2>1. Opcodes_1_C0[b] = GROUP(X86_Group_2(E("b"), Reg))
    BY <1>11 DEF Opcodes_1_C0
  <2>2. TableFits(X86_Group_2(E("b"), Reg), "none")
    BY OperandsAre, Group2Fits
  <2>3. b \in X86_ModRM_1 /\ \A r \in 0..7 : Kind1(b, r) = "none"
    BY <1>11 DEF Kind1, X86_ModRM_1
  <2> QED BY <2>1, <2>2, <2>3, GroupsFit
<1>12. CASE b \in {\hD1, \hD3}
  <2>1. Opcodes_1_C0[b] = GROUP(X86_Group_2(E("v"), Reg))
    BY <1>12 DEF Opcodes_1_C0
  <2>2. TableFits(X86_Group_2(E("v"), Reg), "none")
    BY OperandsAre, Group2Fits
  <2>3. b \in X86_ModRM_1 /\ \A r \in 0..7 : Kind1(b, r) = "none"
    BY <1>12 DEF Kind1, X86_ModRM_1
  <2> QED BY <2>1, <2>2, <2>3, GroupsFit
<1>13. CASE b \in {\hD4, \hD5}
  <2>1. Opcodes_1_C0[b] = Writes(<<Reg, I("b")>>)
    BY <1>13 DEF Opcodes_1_C0
  <2>2. RowIs(Writes(<<Reg, I("b")>>), FALSE, "byte")
    BY RegisterImmediateLists, RowsFit
  <2>3. b \notin X86_ModRM_1 /\ \A r \in 0..7 : Kind1(b, r) = "byte"
    BY <1>13 DEF Kind1, X86_ModRM_1
  <2> QED BY <2>1, <2>2, <2>3, PlainFits
<1>14. CASE b \in \hD8..\hDF
  <2>1. CASE b = \hD8
    <3>1. Opcodes_1_C0[b] = EXT_FPU(X86_ESC_0)
      BY <2>1 DEF Opcodes_1_C0
    <3> QED BY <1>14, <3>1, Escape0Fits, EscapesFit
  <2>2. CASE b = \hD9
    <3>1. Opcodes_1_C0[b] = EXT_FPU(X86_ESC_1)
      BY <2>2 DEF Opcodes_1_C0
    <3> QED BY <1>14, <3>1, Escape1Fits, EscapesFit
  <2>3. CASE b = \hDA
    <3>1. Opcodes_1_C0[b] = EXT_FPU(X86_ESC_2)
      BY <2>3 DEF Opcodes_1_C0
    <3> QED BY <1>14, <3>1, Escape2Fits, EscapesFit
  <2>4. CASE b = \hDB
    <3>1. Opcodes_1_C0[b] = EXT_FPU(X86_ESC_3)
      BY <2>4 DEF Opcodes_1_C0
    <3> QED BY <1>14, <3>1, Escape3Fits, EscapesFit
  <2>5. CASE b = \hDC
    <3>1. Opcodes_1_C0[b] = EXT_FPU(X86_ESC_4)
      BY <2>5 DEF Opcodes_1_C0
    <3> QED BY <1>14, <3>1, Escape4Fits, EscapesFit
  <2>6. CASE b = \hDD
    <3>1. Opcodes_1_C0[b] = EXT_FPU(X86_ESC_5)
      BY <2>6 DEF Opcodes_1_C0
    <3> QED BY <1>14, <3>1, Escape5Fits, EscapesFit
  <2>7. CASE b = \hDE
    <3>1. Opcodes_1_C0[b] = EXT_FPU(X86_ESC_6)
      BY <2>7 DEF Opcodes_1_C0
    <3> QED BY <1>14, <3>1, Escape6Fits, EscapesFit
  <2>8. CASE b = \hDF
    <3>1. Opcodes_1_C0[b] = EXT_FPU(X86_ESC_7)
      BY <2>8 DEF Opcodes_1_C0
    <3> QED BY <1>14, <3>1, Escape7Fits, EscapesFit
  <2> QED BY <1>14, <2>1, <2>2, <2>3, <2>4, <2>5, <2>6, <2>7, <2>8
<1> QED BY <1>1, <1>2, <1>3, <1>4, <1>5, <1>6, <1>7, <1>8, <1>9, <1>10, <1>11, <1>12, <1>13,
           <1>14

LEMMA RowsE0Fit ==
  ASSUME NEW b \in \hE0..\hFF
  PROVE  Fits1(Opcodes_1_E0[b], b)
<1>1. CASE b \in {\hEC, \hED, \hEE, \hEF, \hF1, \hF4, \hF5} \union \hF8..\hFD
  <2> DEFINE rows ==
           {NOARGS, As("DEBUG", NOARGS), As("IN", Writes(<<Reg, Reg>>)),
            As("OUT", Writes(<<Reg, Reg>>)), Writes(<<Reg>>)}
  <2>1. Opcodes_1_E0[b] \in rows
    BY <1>1 DEF Opcodes_1_E0
  <2>2. \A row \in rows : RowIs(row, FALSE, "none")
    BY NoArguments, RegisterLists, RegisterRegisterLists, RowsFit DEF Ordinary, SegmentTypes
  <2> HIDE DEF rows
  <2>3. b \notin X86_ModRM_1 /\ \A r \in 0..7 : Kind1(b, r) = "none"
    BY <1>1 DEF Kind1, X86_ModRM_1
  <2> QED BY <2>1, <2>2, <2>3, PlainFits
<1>2. CASE b \in {\hE4, \hE5, \hE6, \hE7, \hEB} \union \hE0..\hE3
  <2> DEFINE rows ==
           {As("LOOPCC", Reads(<<J("b")>>)), As("IN", Writes(<<Reg, I("b")>>)),
            As("OUT", Writes(<<I("b"), Reg>>)), As("BRANCH", Reads(<<J("b")>>))}
  <2>1. Opcodes_1_E0[b] \in rows
    BY <1>2 DEF Opcodes_1_E0
  <2>2. \A row \in rows : RowIs(row, FALSE, "byte")
    BY ImmediateRegisterLists, JumpLists, RegisterImmediateLists, RowsFit DEF Ordinary
  <2> HIDE DEF rows
  <2>3. b \notin X86_ModRM_1 /\ \A r \in 0..7 : Kind1(b, r) = "byte"
    BY <1>2 DEF Kind1, X86_ModRM_1
  <2> QED BY <2>1, <2>2, <2>3, PlainFits
<1>3. CASE b \in {\hE8, \hE9}
  <2> DEFINE rows ==
           {As("CALL", Reads(<<J("z")>>)), As("BRANCH", Reads(<<J("z")>>))}
  <2>1. Opcodes_1_E0[b] \in rows
    BY <1>3 DEF Opcodes_1_E0
  <2>2. \A row \in rows : RowIs(row, FALSE, "operand")
    BY CallFits, JumpLists, RowsFit DEF J, Ordinary
  <2> HIDE DEF rows
  <2>3. b \notin X86_ModRM_1 /\ \A r \in 0..7 : Kind1(b, r) = "operand"
    BY <1>3 DEF Kind1, X86_ModRM_1
  <2> QED BY <2>1, <2>2, <2>3, PlainFits
<1>4. CASE b = \hEA
  <2>1. Opcodes_1_E0[b] = As("BRANCH", Reads(<<A("p")>>))
    BY <1>4 DEF Opcodes_1_E0
  <2>2. RowIs(As("BRANCH", Reads(<<A("p")>>)), FALSE, "far")
    BY FarLists, RowsFit DEF Ordinary
  <2>3. b \notin X86_ModRM_1 /\ \A r \in 0..7 : Kind1(b, r) = "far"
    BY <1>4 DEF Kind1, X86_ModRM_1
  <2> QED BY <2>1, <2>2, <2>3, PlainFits
<1>5. CASE b \in {\hF0, \hF2, \hF3}
  <2>1. Opcodes_1_E0[b] = PREFIX
    BY <1>5 DEF Opcodes_1_E0
  <2> QED BY <2>1, RowTypes DEF Fits1, INVALID
<1>6. CASE b = \hF6
  <2>1. Opcodes_1_E0[b] = GROUP(X86_Group_3(E("b"), I("b")))
    BY <1>6 DEF Opcodes_1_E0
  <2>2. b \in X86_ModRM_1
    BY <1>6 DEF X86_ModRM_1
  <2>3. ASSUME NEW r \in 0..7 PROVE GroupRow1(X86_Group_3(E("b"), I("b"))[r], b, r)
    <3>1. Kind1(b, r) = IF r < 2 THEN "byte" ELSE "none"
      BY <1>6 DEF Kind1
    <3>2. RowIs(X86_Group_3(E("b"), I("b"))[r], TRUE, IF r < 2 THEN "byte" ELSE "none")
      BY OperandsAre, Group3Fits DEF KindOfSize
    <3> QED BY <3>1, <3>2 DEF RowIs, GroupRow1
  <2> QED BY <2>1, <2>2, <2>3, Group1RowsFit
<1>7. CASE b = \hF7
  <2>1. Opcodes_1_E0[b] = GROUP(X86_Group_3(E("v"), I("z")))
    BY <1>7 DEF Opcodes_1_E0
  <2>2. b \in X86_ModRM_1
    BY <1>7 DEF X86_ModRM_1
  <2>3. ASSUME NEW r \in 0..7 PROVE GroupRow1(X86_Group_3(E("v"), I("z"))[r], b, r)
    <3>1. Kind1(b, r) = IF r < 2 THEN "operand" ELSE "none"
      BY <1>7 DEF Kind1
    <3>2. RowIs(X86_Group_3(E("v"), I("z"))[r], TRUE, IF r < 2 THEN "operand" ELSE "none")
      BY OperandsAre, Group3Fits DEF KindOfSize
    <3> QED BY <3>1, <3>2 DEF RowIs, GroupRow1
  <2> QED BY <2>1, <2>2, <2>3, Group1RowsFit
<1>8. CASE b = \hFE
  <2>1. Opcodes_1_E0[b] = GROUP(X86_Group_4)
    BY <1>8 DEF Opcodes_1_E0
  <2>2. TableFits(X86_Group_4, "none")
    BY Group4Fits
  <2>3. b \in X86_ModRM_1 /\ \A r \in 0..7 : Kind1(b, r) = "none"
    BY <1>8 DEF Kind1, X86_ModRM_1
  <2> QED BY <2>1, <2>2, <2>3, GroupsFit
<1>9. CASE b = \hFF
  <2>1. Opcodes_1_E0[b] = GROUP(X86_Group_5)
    BY <1>9 DEF Opcodes_1_E0
  <2>2. b \in X86_ModRM_1
    BY <1>9 DEF X86_ModRM_1
  <2>3. ASSUME NEW r \in 0..7 PROVE GroupRow1(X86_Group_5[r], b, r)
    <3>1. Kind1(b, r) = "none"
      BY <1>9 DEF Kind1
    <3> QED BY <3>1, Group5Fits DEF GroupRow1
  <2> QED BY <2>1, <2>2, <2>3, Group1RowsFit
<1> QED BY <1>1, <1>2, <1>3, <1>4, <1>5, <1>6, <1>7, <1>8, <1>9

LEMMA LowRows2Fit ==
  ASSUME NEW b \in 0..\h7F
  PROVE  Fits2(Opcodes_2_low[b], b)
<1>1. CASE b = \h00
  <2>1. Opcodes_2_low[b] = GROUP(X86_Group_6)
    BY <1>1 DEF Opcodes_2_low
  <2>2. TableFits(X86_Group_6, "none")
    BY Group6Fits
  <2>3. b \in Coded_2 /\ b \in X86_ModRM_2 /\ Kind2(b) = "none"
    BY <1>1 DEF Kind2, Coded_2, X86_ModRM_2
  <2> QED BY <2>1, <2>2, <2>3, GroupsFit
<1>2. CASE b = \h01
  <2>1. Opcodes_2_low[b] = EXT_MODRM(X86_0F01_ModRM)
    BY <1>2 DEF Opcodes_2_low
  <2>2. Opcodes_2_low[b].type = "EXT_MODRM" /\ Opcodes_2_low[b].table = X86_0F01_ModRM
    BY <2>1 DEF EXT_MODRM, NOARGS, Reads, Row
  <2> QED BY <1>2, <2>2 DEF Fits2
<1>3. CASE b \in {\h02, \h03, \h10, \h11, \h12, \h13, \h14, \h15, \h16, \h17, \h20, \h21, \h22,
               \h23, \h28, \h29, \h2A, \h2B, \h2C, \h2D, \h51, \h52, \h53, \h5C, \h5D, \h5E,
               \h5F} \union \h54..\h59
  <2> DEFINE rows ==
           {Writes(<<G("v"), E("w")>>), As("SSE", Writes(<<V("ps"), W("ps")>>)),
            As("SSE", Writes(<<W("ps"), V("ps")>>)), As("SSE", Writes(<<V("ps"), W("q")>>)),
            As("SSE", Writes(<<M("q"), V("ps")>>)), As("MOV", Writes(<<R("dq"), C("dq")>>)),
            As("MOV", Writes(<<R("dq"), D("dq")>>)), As("MOV", Writes(<<C("dq"), R("dq")>>)),
            As("MOV", Writes(<<D("dq"), R("dq")>>)), As("SSE", Writes(<<V("ps"), Q("q")>>)),
            As("SSE", Writes(<<M("o"), V("ps")>>)), As("SSE", Writes(<<P("q"), W("ps")>>))}
  <2>1. Opcodes_2_low[b] \in rows
    BY <1>3 DEF Opcodes_2_low
  <2>2. \A row \in rows : RowIs(row, TRUE, "none")
    BY MemoryRegisterLists, RegisterMemoryLists, RowsFit DEF Ordinary
  <2> HIDE DEF rows
  <2>3. b \in Coded_2 /\ b \in X86_ModRM_2 /\ Kind2(b) = "none"
    BY <1>3 DEF Kind2, Coded_2, X86_ModRM_2
  <2> QED BY <2>1, <2>2, <2>3, PlainFits
<1>4. CASE b = \h05
  <2>1. Opcodes_2_low[b] = EXT_64(X86_Opcode_0F05)
    BY <1>4 DEF Opcodes_2_low
  <2>2. RowIs(Reads(<<Reg, Reg, Reg>>), FALSE, "none")
    BY RegisterRegisterRegisterLists, RowsFit
  <2> QED BY <1>4, <2>1, <2>2, ByWidth2Fits DEF X86_Opcode_0F05
<1>5. CASE b \in {\h06, \h07, \h08, \h09, \h0B, \h0E, \h34, \h35, \h77} \union \h30..\h33
  <2> DEFINE rows ==
           {Writes(<<Reg>>), Reads(<<Reg>>), NOARGS, Writes(<<Reg, Reg>>),
            Reads(<<Reg, Reg, Reg>>), As("MMX", Writes(<<Reg>>))}
  <2>1. Opcodes_2_low[b] \in rows
    BY <1>5 DEF Opcodes_2_low
  <2>2. \A row \in rows : RowIs(row, FALSE, "none")
    BY NoArguments, RegisterLists, RegisterRegisterLists, RegisterRegisterRegisterLists,
       RowsFit DEF Ordinary
  <2> HIDE DEF rows
  <2>3. b \notin Coded_2 /\ b \notin X86_ModRM_2 /\ Kind2(b) = "none"
    BY <1>5 DEF Kind2, Coded_2, X86_ModRM_2
  <2> QED BY <2>1, <2>2, <2>3, PlainFits
<1>6. CASE b = \h0D
  <2>1. Opcodes_2_low[b] = GROUP(X86_Group_P)
    BY <1>6 DEF Opcodes_2_low
  <2>2. TableFits(X86_Group_P, "none")
    BY GroupPFits
  <2>3. b \in Coded_2 /\ b \in X86_ModRM_2 /\ Kind2(b) = "none"
    BY <1>6 DEF Kind2, Coded_2, X86_ModRM_2
  <2> QED BY <2>1, <2>2, <2>3, GroupsFit
<1>7. CASE b = \h0F
  <2>1. Opcodes_2_low[b] = EXT_SUFFIX(X86_3DNOW_0F, <<P("q"), Q("q")>>)
    BY <1>7 DEF Opcodes_2_low
  <2>2. ListFits(<<P("q"), Q("q")>>, TRUE, "none")
    BY RegisterMemoryLists
  <2> DEFINE ops == <<P("q"), Q("q")>>
             row == Opcodes_2_low[b]
  <2>3. row.type = "EXT_SUFFIX" /\ row.table = X86_3DNOW_0F /\ row.ops = ops /\ row.dst = {}
    BY <2>1 DEF EXT_SUFFIX, NOARGS, Reads, Row
  <2> HIDE DEF ops, row
  <2>4. ListFits(ops, TRUE, "none")
    BY <2>2 DEF ops
  <2>5. RowFits(row, TRUE, "none")
    BY <2>3, <2>4 DEF RowFits, ListFits, SegmentTypes
  <2>6. Fits2(row, b)
    BY <1>7, <2>3, <2>5 DEF Fits2
  <2> QED BY <2>6 DEF row
<1>8. CASE b = \h18
  <2>1. Opcodes_2_low[b] = GROUP(X86_Group_17)
    BY <1>8 DEF Opcodes_2_low
  <2>2. TableFits(X86_Group_17, "none")
    BY Group17Fits
  <2>3. b \in Coded_2 /\ b \in X86_ModRM_2 /\ Kind2(b) = "none"
    BY <1>8 DEF Kind2, Coded_2, X86_ModRM_2
  <2> QED BY <2>1, <2>2, <2>3, GroupsFit
<1>9. CASE b \in {\h2E, \h2F, \h50, \h5A, \h5B, \h6B, \h6E, \h6F, \h7E, \h7F} \union \h40..\h4F
               \union \h60..\h62 \union \h68..\h6A \union \h63..\h67 \union \h74..\h76
  <2> DEFINE rows ==
           {As("SSE", Reads(<<V("ss"), W("ss")>>)), As("SSE", Reads(<<V("ps"), W("ps")>>)),
            Writes(<<G("v"), E("v")>>), As("SSE", Writes(<<G("d"), VR("ps")>>)),
            As("SSE2", Writes(<<V("pd"), W("ps")>>)), As("SSE2", Writes(<<V("ps"), W("o")>>)),
            As("MMX", Writes(<<P("q"), Q("d")>>)), As("MMX", Writes(<<P("q"), Q("q")>>)),
            As("MMX", Writes(<<P("q"), E("dq")>>)), As("MMX", Writes(<<E("dq"), P("dq")>>)),
            As("MMX", Writes(<<Q("q"), P("q")>>))}
  <2>1. Opcodes_2_low[b] \in rows
    BY <1>9 DEF Opcodes_2_low
  <2>2. \A row \in rows : RowIs(row, TRUE, "none")
    BY MemoryRegisterLists, RegisterMemoryLists, RowsFit DEF Ordinary
  <2> HIDE DEF rows
  <2>3. b \in Coded_2 /\ b \in X86_ModRM_2 /\ Kind2(b) = "none"
    BY <1>9 DEF Kind2, Coded_2, X86_ModRM_2
  <2> QED BY <2>1, <2>2, <2>3, PlainFits
<1>10. CASE b = \h70
  <2>1. Opcodes_2_low[b] = As("MMX", Writes(<<P("q"), Q("q"), I("b")>>))
    BY <1>10 DEF Opcodes_2_low
  <2>2. RowIs(As("MMX", Writes(<<P("q"), Q("q"), I("b")>>)), TRUE, "byte")
    BY RegisterMemoryImmediateLists, RowsFit DEF Ordinary
  <2>3. b \in Coded_2 /\ b \in X86_ModRM_2 /\ Kind2(b) = "byte"
    BY <1>10 DEF Kind2, Coded_2, X86_ModRM_2
  <2> QED BY <2>1, <2>2, <2>3, PlainFits
<1>11. CASE b = \h71
  <2>1. Opcodes_2_low[b] = GROUP(X86_Group_13)
    BY <1>11 DEF Opcodes_2_low
  <2>2. TableFits(X86_Group_13, "byte")
    BY Group13Fits
  <2>3. b \in Coded_2 /\ b \in X86_ModRM_2 /\ Kind2(b) = "byte"
    BY <1>11 DEF Kind2, Coded_2, X86_ModRM_2
  <2> QED BY <2>1, <2>2, <2>3, GroupsFit
<1>12. CASE b = \h72
  <2>1. Opcodes_2_low[b] = GROUP(X86_Group_14)
    BY <1>12 DEF Opcodes_2_low
  <2>2. TableFits(X86_Group_14, "byte")
    BY Group14Fits
  <2>3. b \in Coded_2 /\ b \in X86_ModRM_2 /\ Kind2(b) = "byte"
    BY <1>12 DEF Kind2, Coded_2, X86_ModRM_2
  <2> QED BY <2>1, <2>2, <2>3, GroupsFit
<1>13. CASE b = \h73
  <2>1. Opcodes_2_low[b] = GROUP(X86_Group_15)
    BY <1>13 DEF Opcodes_2_low
  <2>2. TableFits(X86_Group_15, "byte")
    BY Group15Fits
  <2>3. b \in Coded_2 /\ b \in X86_ModRM_2 /\ Kind2(b) = "byte"
    BY <1>13 DEF Kind2, Coded_2, X86_ModRM_2
  <2> QED BY <2>1, <2>2, <2>3, GroupsFit
<1>14. CASE b \in {\h04, \h0A, \h0C} \union \h19..\h1F \union \h24..\h27 \union \h36..\h3F \union
            {\h6C, \h6D} \union \h78..\h7D
  <2>1. Opcodes_2_low[b] = NOINSTR
    BY <1>14 DEF Opcodes_2_low
  <2> QED BY <2>1, RowTypes DEF Fits2, INVALID
<1> QED BY <1>1, <1>2, <1>3, <1>4, <1>5, <1>6, <1>7, <1>8, <1>9, <1>10, <1>11, <1>12, <1>13,
           <1>14

LEMMA HighRows2Fit ==
  ASSUME NEW b \in \h80..\hFF
  PROVE  Fits2(Opcodes_2_high[b], b)
<1>1. CASE b \in \h80..\h8F
  <2>1. Opcodes_2_high[b] = As("BRANCHCC", Reads(<<J("z")>>))
    BY <1>1 DEF Opcodes_2_high
  <2>2. RowIs(As("BRANCHCC", Reads(<<J("z")>>)), FALSE, "operand")
    BY JumpLists, RowsFit DEF Ordinary
  <2>3. b \notin Coded_2 /\ b \notin X86_ModRM_2 /\ Kind2(b) = "operand"
    BY <1>1 DEF Kind2, Coded_2, X86_ModRM_2
  <2> QED BY <2>1, <2>2, <2>3, PlainFits
<1>2. CASE b \in {\hA3, \hA5, \hAB, \hAD, \hAF, \hB2, \hB3, \hB4, \hB5, \hB6, \hB7, \hBB, \hBC,
               \hBD, \hBE, \hBF, \hC3, \hD7, \hE7, \hF7} \union \h90..\h9F
  <2> DEFINE rows ==
           {Writes(<<E("b"), Reg, Reg>>), Reads(<<E("v"), G("v")>>),
            Writes(<<E("v"), G("v"), Reg>>), Writes(<<G("v"), E("v")>>),
            As("MOV", Writes(<<G("z"), M("p")>>)), As("MOV", Writes(<<G("v"), E("b")>>)),
            As("MOV", Writes(<<G("v"), E("w")>>)), Reads(<<G("v"), E("v")>>),
            As("SSE", Writes(<<M("dq"), G("dq")>>)), As("SSE", Writes(<<G("d"), PR("q")>>)),
            As("SSE", Writes(<<M("q"), P("q")>>)), As("SSE", Writes(<<P("q"), PR("q")>>))}
  <2>1. Opcodes_2_high[b] \in rows
    BY <1>2 DEF Opcodes_2_high
  <2>2. \A row \in rows : RowIs(row, TRUE, "none")
    BY MemoryRegisterLists, MemoryRegisterRegisterLists, RegisterMemoryLists, RowsFit
       DEF Ordinary
  <2> HIDE DEF rows
  <2>3. b \in Coded_2 /\ b \in X86_ModRM_2 /\ Kind2(b) = "none"
    BY <1>2 DEF Kind2, Coded_2, X86_ModRM_2
  <2> QED BY <2>1, <2>2, <2>3, PlainFits
<1>3. CASE b \in {\hA0, \hA1, \hA2, \hA8, \hA9, \hAA} \union \hC8..\hCF
  <2> DEFINE rows ==
           {As("PUSH", Reads(<<Reg>>)), As("POP", Writes(<<Reg>>)), Writes(<<Reg, Reg>>), NOARGS,
            Modifies(<<Reg>>)}
  <2>1. Opcodes_2_high[b] \in rows
    BY <1>3 DEF Opcodes_2_high
  <2>2. \A row \in rows : RowIs(row, FALSE, "none")
    BY NoArguments, RegisterLists, RegisterRegisterLists, RowsFit DEF Ordinary
  <2> HIDE DEF rows
  <2>3. b \notin Coded_2 /\ b \notin X86_ModRM_2 /\ Kind2(b) = "none"
    BY <1>3 DEF Kind2, Coded_2, X86_ModRM_2
  <2> QED BY <2>1, <2>2, <2>3, PlainFits
<1>4. CASE b \in {\hA4, \hAC, \hC2, \hC4, \hC5, \hC6}
  <2> DEFINE rows ==
           {Writes(<<E("v"), G("v"), I("b")>>), As("SSE", Writes(<<V("ps"), W("ps"), I("b")>>)),
            As("SSE", Writes(<<P("q"), E("w"), I("b")>>)),
            As("SSE", Writes(<<G("d"), PR("q"), I("b")>>))}
  <2>1. Opcodes_2_high[b] \in rows
    BY <1>4 DEF Opcodes_2_high
  <2>2. \A row \in rows : RowIs(row, TRUE, "byte")
    BY MemoryRegisterImmediateLists, RegisterMemoryImmediateLists, RowsFit DEF Ordinary
  <2> HIDE DEF rows
  <2>3. b \in Coded_2 /\ b \in X86_ModRM_2 /\ Kind2(b) = "byte"
    BY <1>4 DEF Kind2, Coded_2, X86_ModRM_2
  <2> QED BY <2>1, <2>2, <2>3, PlainFits
<1>5. CASE b = \hAE
  <2>1. Opcodes_2_high[b] = GROUP(X86_Group_16)
    BY <1>5 DEF Opcodes_2_high
  <2>2. b \in Coded_2 /\ b \in X86_ModRM_2 /\ Kind2(b) = "none"
    BY <1>5 DEF Kind2, Coded_2, X86_ModRM_2
  <2>3. ASSUME NEW r \in 0..7 PROVE GroupRow2(X86_Group_16[r], b, r)
    BY <1>5, <2>2, Group16Fits DEF GroupRow2
  <2> QED BY <2>1, <2>2, <2>3, Group2RowsFit
<1>6. CASE b = \hB0
  <2>1. Opcodes_2_high[b] = Row("PLAIN", <<E("b"), Reg, G("b")>>, {1, 2}, {1, 2, 3})
    BY <1>6 DEF Opcodes_2_high
  <2>2. RowIs(Row("PLAIN", <<E("b"), Reg, G("b")>>, {1, 2}, {1, 2, 3}), TRUE, "none")
    BY MemoryRegisterRegisterLists, RowMade DEF Ordinary
  <2>3. b \in Coded_2 /\ b \in X86_ModRM_2 /\ Kind2(b) = "none"
    BY <1>6 DEF Kind2, Coded_2, X86_ModRM_2
  <2> QED BY <2>1, <2>2, <2>3, PlainFits
<1>7. CASE b = \hB1
  <2>1. Opcodes_2_high[b] = Row("PLAIN", <<E("v"), Reg, G("v")>>, {1, 2}, {1, 2, 3})
    BY <1>7 DEF Opcodes_2_high
  <2>2. RowIs(Row("PLAIN", <<E("v"), Reg, G("v")>>, {1, 2}, {1, 2, 3}), TRUE, "none")
    BY MemoryRegisterRegisterLists, RowMade DEF Ordinary
  <2>3. b \in Coded_2 /\ b \in X86_ModRM_2 /\ Kind2(b) = "none"
    BY <1>7 DEF Kind2, Coded_2, X86_ModRM_2
  <2> QED BY <2>1, <2>2, <2>3, PlainFits
<1>8. CASE b = \hB9
  <2>1. Opcodes_2_high[b] = GROUP(X86_Group_11)
    BY <1>8 DEF Opcodes_2_high
  <2>2. Opcodes_2_high[b].type = "GROUP"
    BY <2>1, RowTypes
  <2> QED BY <1>8, <2>2 DEF Fits2
<1>9. CASE b = \hBA
  <2>1. Opcodes_2_high[b] = GROUP(X86_Group_8)
    BY <1>9 DEF Opcodes_2_high
  <2>2. TableFits(X86_Group_8, "byte")
    BY Group8Fits
  <2>3. b \in Coded_2 /\ b \in X86_ModRM_2 /\ Kind2(b) = "byte"
    BY <1>9 DEF Kind2, Coded_2, X86_ModRM_2
  <2> QED BY <2>1, <2>2, <2>3, GroupsFit
<1>10. CASE b \in {\hC0, \hC1}
  <2> DEFINE rows ==
           {Exchanges(<<E("b"), G("b")>>), Exchanges(<<E("v"), G("v")>>)}
  <2>1. Opcodes_2_high[b] \in rows
    BY <1>10 DEF Opcodes_2_high
  <2>2. \A row \in rows : RowIs(row, TRUE, "none")
    BY ExchangesFit, MemoryRegisterLists
  <2> HIDE DEF rows
  <2>3. b \in Coded_2 /\ b \in X86_ModRM_2 /\ Kind2(b) = "none"
    BY <1>10 DEF Kind2, Coded_2, X86_ModRM_2
  <2> QED BY <2>1, <2>2, <2>3, PlainFits
<1>11. CASE b = \hC7
  <2>1. Opcodes_2_high[b] = GROUP(X86_Group_9)
    BY <1>11 DEF Opcodes_2_high
  <2>2. TableFits(X86_Group_9, "none")
    BY Group9Fits
  <2>3. b \in Coded_2 /\ b \in X86_ModRM_2 /\ Kind2(b) = "none"
    BY <1>11 DEF Kind2, Coded_2, X86_ModRM_2
  <2> QED BY <2>1, <2>2, <2>3, GroupsFit
<1>12. CASE \/ b \in {\hD4, \hDA, \hDE, \hE0, \hE3, \hE4, \hEA, \hEE, \hF4, \hF6, \hFB}
            \/ b \in (\hD1..\hFE) \ ({\hDA, \hDE, \hE0, \hE3, \hE4, \hEA, \hEE, \hF4, \hF6,
                \hFB, \hD4} \union {\hD6, \hD7, \hE6, \hE7, \hF0, \hF7})
  <2> DEFINE rows ==
           {As("SSE", Writes(<<P("q"), Q("q")>>)), As("MMX", Writes(<<P("q"), Q("q")>>))}
  <2>1. Opcodes_2_high[b] \in rows
    BY <1>12 DEF Opcodes_2_high
  <2>2. \A row \in rows : RowIs(row, TRUE, "none")
    BY RegisterMemoryLists, RowsFit DEF Ordinary
  <2> HIDE DEF rows
  <2>3. b \in Coded_2 /\ b \in X86_ModRM_2 /\ Kind2(b) = "none"
    BY <1>12 DEF Kind2, Coded_2, X86_ModRM_2
  <2> QED BY <2>1, <2>2, <2>3, PlainFits
<1>13. CASE b \in {\hA6, \hA7, \hB8, \hD0, \hD6, \hE6, \hF0, \hFF}
  <2>1. Opcodes_2_high[b] = NOINSTR
    BY <1>13 DEF Opcodes_2_high
  <2> QED BY <2>1, RowTypes DEF Fits2, INVALID
<1> QED BY <1>1, <1>2, <1>3, <1>4, <1>5, <1>6, <1>7, <1>8, <1>9, <1>10, <1>11, <1>12, <1>13

LEMMA Rows66LowFit ==
  ASSUME NEW b \in 0..\h7F
  PROVE  FitsSSE(SSE_66_low[b], b)
<1>1. CASE b \in {\h10, \h11, \h12, \h13, \h14, \h15, \h16, \h17, \h28, \h29, \h2A, \h2B, \h2C,
               \h2D, \h2E, \h2F, \h50, \h51, \h54, \h55, \h56, \h57, \h58, \h59, \h5A, \h5B,
               \h6B, \h6C, \h6D, \h6E, \h6F, \h7C, \h7D, \h7E, \h7F} \union \h5C..\h5F \union
               \h63..\h67 \union \h74..\h76 \union \h60..\h62 \union \h68..\h6A
  <2> DEFINE rows ==
           {As("SSE2", Writes(<<V("pd"), W("pd")>>)), As("SSE2", Writes(<<W("pd"), V("pd")>>)),
            As("SSE2", Writes(<<V("sd"), M("q")>>)), As("SSE2", Writes(<<M("q"), V("sd")>>)),
            As("SSE2", Writes(<<V("pd"), W("q")>>)), As("SSE2", Writes(<<V("o"), W("o")>>)),
            As("SSE2", Writes(<<W("o"), V("o")>>)), As("SSE2", Writes(<<V("o"), Q("q")>>)),
            As("SSE2", Writes(<<M("o"), V("pd")>>)), As("SSE2", Writes(<<P("q"), W("pd")>>)),
            As("SSE2", Reads(<<V("sd"), W("sd")>>)), As("SSE2", Reads(<<V("pd"), W("sd")>>)),
            As("SSE2", Writes(<<G("d"), VR("pd")>>)), As("SSE2", Writes(<<V("ps"), W("pd")>>)),
            As("SSE2", Writes(<<V("o"), W("ps")>>)), As("SSE2", Writes(<<V("o"), W("q")>>)),
            As("SSE2", Writes(<<V("o"), E("dq")>>)), As("SSE3", Writes(<<V("o"), W("o")>>)),
            As("SSE2", Writes(<<E("dq"), V("dq")>>))}
  <2>1. SSE_66_low[b] \in rows
    BY <1>1 DEF SSE_66_low
  <2>2. \A row \in rows : RowIs(row, TRUE, "none")
    BY MemoryRegisterLists, RegisterMemoryLists, RowsFit DEF Ordinary
  <2> HIDE DEF rows
  <2>3. b \in Coded_2 /\ b \in X86_ModRM_2 /\ Kind2(b) = "none"
    BY <1>1 DEF Kind2, Coded_2, X86_ModRM_2
  <2> QED BY <2>1, <2>2, <2>3, PlainFits
<1>2. CASE b = \h70
  <2>1. SSE_66_low[b] = As("SSE2", Writes(<<V("o"), W("o"), I("b")>>))
    BY <1>2 DEF SSE_66_low
  <2>2. RowIs(As("SSE2", Writes(<<V("o"), W("o"), I("b")>>)), TRUE, "byte")
    BY RegisterMemoryImmediateLists, RowsFit DEF Ordinary
  <2>3. b \in Coded_2 /\ b \in X86_ModRM_2 /\ Kind2(b) = "byte"
    BY <1>2 DEF Kind2, Coded_2, X86_ModRM_2
  <2> QED BY <2>1, <2>2, <2>3, PlainFits
<1>3. CASE b = \h71
  <2>1. SSE_66_low[b] = X86_SSE2_Group_13
    BY <1>3 DEF SSE_66_low
  <2>2. \E table : SSE_66_low[b] = GROUP(table) /\ TableFits(table, "byte")
    BY <2>1, ShiftsFit
  <2>3. b \in Coded_2 /\ b \in X86_ModRM_2 /\ Kind2(b) = "byte"
    BY <1>3 DEF Kind2, Coded_2, X86_ModRM_2
  <2> QED BY <2>1, <2>2, <2>3, GroupsFit
<1>4. CASE b = \h72
  <2>1. SSE_66_low[b] = X86_SSE2_Group_14
    BY <1>4 DEF SSE_66_low
  <2>2. \E table : SSE_66_low[b] = GROUP(table) /\ TableFits(table, "byte")
    BY <2>1, ShiftsFit
  <2>3. b \in Coded_2 /\ b \in X86_ModRM_2 /\ Kind2(b) = "byte"
    BY <1>4 DEF Kind2, Coded_2, X86_ModRM_2
  <2> QED BY <2>1, <2>2, <2>3, GroupsFit
<1>5. CASE b = \h73
  <2>1. SSE_66_low[b] = X86_SSE2_Group_15
    BY <1>5 DEF SSE_66_low
  <2>2. \E table : SSE_66_low[b] = GROUP(table) /\ TableFits(table, "byte")
    BY <2>1, ShiftsFit
  <2>3. b \in Coded_2 /\ b \in X86_ModRM_2 /\ Kind2(b) = "byte"
    BY <1>5 DEF Kind2, Coded_2, X86_ModRM_2
  <2> QED BY <2>1, <2>2, <2>3, GroupsFit
<1>6. CASE b \in 0..\h0F \union \h18..\h27 \union \h30..\h4F \union {\h52, \h53} \union
            \h77..\h7B
  <2>1. SSE_66_low[b] = NOINSTR
    BY <1>6 DEF SSE_66_low
  <2> QED BY <2>1, RowTypes DEF FitsSSE, INVALID
<1> QED BY <1>1, <1>2, <1>3, <1>4, <1>5, <1>6

LEMMA Rows66HighFit ==
  ASSUME NEW b \in \h80..\hFF
  PROVE  FitsSSE(SSE_66_high[b], b)
<1>1. CASE b \in {\hC2, \hC4, \hC5, \hC6}
  <2> DEFINE rows ==
           {As("SSE2", Writes(<<V("o"), W("o"), I("b")>>)),
            As("SSE2", Writes(<<V("o"), E("w"), I("b")>>)),
            As("SSE2", Writes(<<G("d"), VR("o"), I("b")>>))}
  <2>1. SSE_66_high[b] \in rows
    BY <1>1 DEF SSE_66_high
  <2>2. \A row \in rows : RowIs(row, TRUE, "byte")
    BY RegisterMemoryImmediateLists, RowsFit DEF Ordinary
  <2> HIDE DEF rows
  <2>3. b \in Coded_2 /\ b \in X86_ModRM_2 /\ Kind2(b) = "byte"
    BY <1>1 DEF Kind2, Coded_2, X86_ModRM_2
  <2> QED BY <2>1, <2>2, <2>3, PlainFits
<1>2. CASE b \in \hD0..\hFE \ {\hF0}
  <2> DEFINE rows ==
           {As("SSE3", Writes(<<V("o"), W("o")>>)), As("SSE2", Writes(<<W("q"), V("q")>>)),
            As("SSE2", Writes(<<G("d"), VR("o")>>)), As("SSE2", Writes(<<V("q"), W("pd")>>)),
            As("SSE2", Writes(<<M("o"), V("o")>>)), As("SSE2", Writes(<<V("o"), VR("o")>>)),
            As("SSE2", Writes(<<V("o"), W("o")>>))}
  <2>1. SSE_66_high[b] \in rows
    BY <1>2 DEF SSE_66_high
  <2>2. \A row \in rows : RowIs(row, TRUE, "none")
    BY MemoryRegisterLists, RegisterMemoryLists, RowsFit DEF Ordinary
  <2> HIDE DEF rows
  <2>3. b \in Coded_2 /\ b \in X86_ModRM_2 /\ Kind2(b) = "none"
    BY <1>2 DEF Kind2, Coded_2, X86_ModRM_2
  <2> QED BY <2>1, <2>2, <2>3, PlainFits
<1>3. CASE b \in \h80..\hC1 \union {\hC3, \hF0, \hFF} \union \hC7..\hCF
  <2>1. SSE_66_high[b] = NOINSTR
    BY <1>3 DEF SSE_66_high
  <2> QED BY <2>1, RowTypes DEF FitsSSE, INVALID
<1> QED BY <1>1, <1>2, <1>3

LEMMA RowsF2LowFit ==
  ASSUME NEW b \in 0..\h7F
  PROVE  FitsSSE(SSE_F2_low[b], b)
<1>1. CASE b \in {\h10, \h11, \h12, \h2A, \h2C, \h2D, \h51, \h58, \h59, \h5A, \h6F, \h7C, \h7D}
               \union \h5C..\h5F
  <2> DEFINE rows ==
           {As("SSE2", Writes(<<V("sdo"), W("sd")>>)), As("SSE2", Writes(<<V("sd"), W("sd")>>)),
            As("SSE2", Writes(<<W("sd"), V("sd")>>)), As("SSE3", Writes(<<V("o"), W("q")>>)),
            As("SSE2", Writes(<<V("sd"), E("dq")>>)), As("SSE2", Writes(<<G("dq"), W("sd")>>)),
            As("SSE2", Writes(<<V("ss"), W("sd")>>)), As("SSE2", Writes(<<V("o"), W("o")>>)),
            As("SSE3", Writes(<<V("o"), W("o")>>))}
  <2>1. SSE_F2_low[b] \in rows
    BY <1>1 DEF SSE_F2_low
  <2>2. \A row \in rows : RowIs(row, TRUE, "none")
    BY MemoryRegisterLists, RegisterMemoryLists, RowsFit DEF Ordinary
  <2> HIDE DEF rows
  <2>3. b \in Coded_2 /\ b \in X86_ModRM_2 /\ Kind2(b) = "none"
    BY <1>1 DEF Kind2, Coded_2, X86_ModRM_2
  <2> QED BY <2>1, <2>2, <2>3, PlainFits
<1>2. CASE b = \h70
  <2>1. SSE_F2_low[b] = As("SSE2", Writes(<<V("q"), W("q"), I("b")>>))
    BY <1>2 DEF SSE_F2_low
  <2>2. RowIs(As("SSE2", Writes(<<V("q"), W("q"), I("b")>>)), TRUE, "byte")
    BY RegisterMemoryImmediateLists, RowsFit DEF Ordinary
  <2>3. b \in Coded_2 /\ b \in X86_ModRM_2 /\ Kind2(b) = "byte"
    BY <1>2 DEF Kind2, Coded_2, X86_ModRM_2
  <2> QED BY <2>1, <2>2, <2>3, PlainFits
<1>3. CASE ~(b = \h10 \/ b \in {\h51, \h58, \h59} \union \h5C..\h5F \/ b = \h11 \/ b = \h12 \/ b
            = \h2A \/ b \in {\h2C, \h2D} \/ b = \h5A \/ b = \h6F \/ b = \h70 \/ b \in {\h7C,
            \h7D})
  <2>1. SSE_F2_low[b] = NOINSTR
    BY <1>3 DEF SSE_F2_low
  <2> QED BY <2>1, RowTypes DEF FitsSSE, INVALID
<1> QED BY <1>1, <1>2, <1>3

LEMMA RowsF2HighFit ==
  ASSUME NEW b \in \h80..\hFF
  PROVE  FitsSSE(SSE_F2_high[b], b)
<1>1. CASE b = \hC2
  <2>1. SSE_F2_high[b] = As("SSE2", Writes(<<V("sd"), W("sd"), I("b")>>))
    BY <1>1 DEF SSE_F2_high
  <2>2. RowIs(As("SSE2", Writes(<<V("sd"), W("sd"), I("b")>>)), TRUE, "byte")
    BY RegisterMemoryImmediateLists, RowsFit DEF Ordinary
  <2>3. b \in Coded_2 /\ b \in X86_ModRM_2 /\ Kind2(b) = "byte"
    BY <1>1 DEF Kind2, Coded_2, X86_ModRM_2
  <2> QED BY <2>1, <2>2, <2>3, PlainFits
<1>2. CASE b \in {\hD0, \hD6, \hE6, \hF0}
  <2> DEFINE rows ==
           {As("SSE3", Writes(<<V("o"), W("o")>>)), As("SSE2", Writes(<<P("q"), VR("q")>>)),
            As("SSE2", Writes(<<V("q"), W("pd")>>)), As("SSE3", Writes(<<V("o"), M("o")>>))}
  <2>1. SSE_F2_high[b] \in rows
    BY <1>2 DEF SSE_F2_high
  <2>2. \A row \in rows : RowIs(row, TRUE, "none")
    BY RegisterMemoryLists, RowsFit DEF Ordinary
  <2> HIDE DEF rows
  <2>3. b \in Coded_2 /\ b \in X86_ModRM_2 /\ Kind2(b) = "none"
    BY <1>2 DEF Kind2, Coded_2, X86_ModRM_2
  <2> QED BY <2>1, <2>2, <2>3, PlainFits
<1>3. CASE ~(b = \hC2 \/ b = \hD0 \/ b = \hD6 \/ b = \hE6 \/ b = \hF0)
  <2>1. SSE_F2_high[b] = NOINSTR
    BY <1>3 DEF SSE_F2_high
  <2> QED BY <2>1, RowTypes DEF FitsSSE, INVALID
<1> QED BY <1>1, <1>2, <1>3

LEMMA RowsF3LowFit ==
  ASSUME NEW b \in 0..\h7F
  PROVE  FitsSSE(SSE_F3_low[b], b)
<1>1. CASE b \in {\h10, \h11, \h12, \h16, \h2A, \h2C, \h2D, \h51, \h52, \h53, \h58, \h59, \h5A,
               \h5B, \h6F, \h7E, \h7F} \union \h5C..\h5F
  <2> DEFINE rows ==
           {As("SSE2", Writes(<<V("sso"), W("ss")>>)), As("SSE2", Writes(<<V("ss"), W("ss")>>)),
            As("SSE2", Writes(<<W("ss"), V("ss")>>)), As("SSE3", Writes(<<V("o"), W("o")>>)),
            As("SSE", Writes(<<V("ss"), E("dq")>>)), As("SSE", Writes(<<G("dq"), W("ss")>>)),
            As("SSE2", Writes(<<V("sd"), W("ss")>>)), As("SSE2", Writes(<<V("o"), W("ps")>>)),
            As("SSE2", Writes(<<V("o"), W("o")>>)), As("SSE2", Writes(<<V("q"), W("q")>>)),
            As("SSE2", Writes(<<W("o"), V("o")>>))}
  <2>1. SSE_F3_low[b] \in rows
    BY <1>1 DEF SSE_F3_low
  <2>2. \A row \in rows : RowIs(row, TRUE, "none")
    BY MemoryRegisterLists, RegisterMemoryLists, RowsFit DEF Ordinary
  <2> HIDE DEF rows
  <2>3. b \in Coded_2 /\ b \in X86_ModRM_2 /\ Kind2(b) = "none"
    BY <1>1 DEF Kind2, Coded_2, X86_ModRM_2
  <2> QED BY <2>1, <2>2, <2>3, PlainFits
<1>2. CASE b = \h70
  <2>1. SSE_F3_low[b] = As("SSE2", Writes(<<V("q"), W("q"), I("b")>>))
    BY <1>2 DEF SSE_F3_low
  <2>2. RowIs(As("SSE2", Writes(<<V("q"), W("q"), I("b")>>)), TRUE, "byte")
    BY RegisterMemoryImmediateLists, RowsFit DEF Ordinary
  <2>3. b \in Coded_2 /\ b \in X86_ModRM_2 /\ Kind2(b) = "byte"
    BY <1>2 DEF Kind2, Coded_2, X86_ModRM_2
  <2> QED BY <2>1, <2>2, <2>3, PlainFits
<1>3. CASE ~(b = \h10 \/ b \in {\h51, \h52, \h53, \h58, \h59} \union \h5C..\h5F \/ b = \h11 \/ b
            \in {\h12, \h16} \/ b = \h2A \/ b \in {\h2C, \h2D} \/ b = \h5A \/ b = \h5B \/ b =
            \h6F \/ b = \h70 \/ b = \h7E \/ b = \h7F)
  <2>1. SSE_F3_low[b] = NOINSTR
    BY <1>3 DEF SSE_F3_low
  <2> QED BY <2>1, RowTypes DEF FitsSSE, INVALID
<1> QED BY <1>1, <1>2, <1>3

LEMMA RowsF3HighFit ==
  ASSUME NEW b \in \h80..\hFF
  PROVE  FitsSSE(SSE_F3_high[b], b)
<1>1. CASE b = \hC2
  <2>1. SSE_F3_high[b] = As("SSE", Writes(<<V("ss"), W("ss"), I("b")>>))
    BY <1>1 DEF SSE_F3_high
  <2>2. RowIs(As("SSE", Writes(<<V("ss"), W("ss"), I("b")>>)), TRUE, "byte")
    BY RegisterMemoryImmediateLists, RowsFit DEF Ordinary
  <2>3. b \in Coded_2 /\ b \in X86_ModRM_2 /\ Kind2(b) = "byte"
    BY <1>1 DEF Kind2, Coded_2, X86_ModRM_2
  <2> QED BY <2>1, <2>2, <2>3, PlainFits
<1>2. CASE b \in {\hD6, \hE6}
  <2> DEFINE rows ==
           {As("SSE2", Writes(<<V("o"), PR("q")>>)), As("SSE2", Writes(<<V("o"), W("q")>>))}
  <2>1. SSE_F3_high[b] \in rows
    BY <1>2 DEF SSE_F3_high
  <2>2. \A row \in rows : RowIs(row, TRUE, "none")
    BY RegisterMemoryLists, RowsFit DEF Ordinary
  <2> HIDE DEF rows
  <2>3. b \in Coded_2 /\ b \in X86_ModRM_2 /\ Kind2(b) = "none"
    BY <1>2 DEF Kind2, Coded_2, X86_ModRM_2
  <2> QED BY <2>1, <2>2, <2>3, PlainFits
<1>3. CASE ~(b = \hC2 \/ b = \hD6 \/ b = \hE6)
  <2>1. SSE_F3_high[b] = NOINSTR
    BY <1>3 DEF SSE_F3_high
  <2> QED BY <2>1, RowTypes DEF FitsSSE, INVALID
<1> QED BY <1>1, <1>2, <1>3

LEMMA AllFit ==
  ASSUME NEW b \in Byte
  PROVE  /\ Fits1(X86_Opcodes_1[b], b) /\ Fits2(X86_Opcodes_2[b], b)
         /\ \A p \in {\h66, \hF2, \hF3} : FitsSSE(X86_SSE(p)[b], b)
<1>1. Fits1(X86_Opcodes_1[b], b)
  <2>1. b \in 0..\h7F => Fits1(X86_Opcodes_1[b], b)
    BY Blocks, LowRowsFit
  <2>2. b \in \h80..\h9F => Fits1(X86_Opcodes_1[b], b)
    BY Blocks, Rows80Fit
  <2>3. b \in \hA0..\hBF => Fits1(X86_Opcodes_1[b], b)
    BY Blocks, RowsA0Fit
  <2>4. b \in \hC0..\hDF => Fits1(X86_Opcodes_1[b], b)
    BY Blocks, RowsC0Fit
  <2>5. b \in \hE0..\hFF => Fits1(X86_Opcodes_1[b], b)
    BY Blocks, RowsE0Fit
  <2> QED BY <2>1, <2>2, <2>3, <2>4, <2>5 DEF Byte
<1>2. b \in 0..\h7F \/ b \in \h80..\hFF
  BY DEF Byte
<1>3. Fits2(X86_Opcodes_2[b], b)
  <2>1. /\ b \in 0..\h7F => X86_Opcodes_2[b] = Opcodes_2_low[b]
        /\ b \in \h80..\hFF => X86_Opcodes_2[b] = Opcodes_2_high[b]
    BY DEF X86_Opcodes_2
  <2> QED BY <1>2, <2>1, LowRows2Fit, HighRows2Fit
<1>4. FitsSSE(X86_SSE(\h66)[b], b)
  <2>1. /\ b \in 0..\h7F => X86_SSE(\h66)[b] = SSE_66_low[b]
        /\ b \in \h80..\hFF => X86_SSE(\h66)[b] = SSE_66_high[b]
    BY DEF X86_SSE, SSE_66
  <2> QED BY <1>2, <2>1, Rows66LowFit, Rows66HighFit
<1>5. FitsSSE(X86_SSE(\hF2)[b], b)
  <2>1. /\ b \in 0..\h7F => X86_SSE(\hF2)[b] = SSE_F2_low[b]
        /\ b \in \h80..\hFF => X86_SSE(\hF2)[b] = SSE_F2_high[b]
    BY DEF X86_SSE
  <2> QED BY <1>2, <2>1, RowsF2LowFit, RowsF2HighFit
<1>6. FitsSSE(X86_SSE(\hF3)[b], b)
  <2>1. /\ b \in 0..\h7F => X86_SSE(\hF3)[b] = SSE_F3_low[b]
        /\ b \in \h80..\hFF => X86_SSE(\hF3)[b] = SSE_F3_high[b]
    BY DEF X86_SSE
  <2> QED BY <1>2, <2>1, RowsF3LowFit, RowsF3HighFit
<1> QED BY <1>1, <1>3, <1>4, <1>5, <1>6

-----------------------------------------------------------------------------
(* The bytes that the operands take. *)

(* j is found from i by n more bytes. *)
Took(i, j, n) ==
  /\ Follows(i, j)
  /\ j.length = i.length + n /\ j.next = i.next + n
  /\ j.OperandSize = i.OperandSize /\ j.AddressSize = i.AddressSize

LEMMA TookNothing == ASSUME NEW i, Typed(i) PROVE Took(i, i, 0)
BY Same DEF Took, Typed

LEMMA TookMore ==
  ASSUME NEW i, Typed(i), NEW j, NEW l, NEW m \in Int, NEW n \in Int, Took(i, j, m), Took(j, l, n)
  PROVE  Took(i, l, m + n)
<1>1. i.length \in Int /\ i.next \in Int
  BY DEF Typed
<1> QED BY <1>1, Further DEF Took

LEMMA TookTyped == ASSUME NEW i, NEW j, NEW n, Took(i, j, n)
                   PROVE  Typed(j) /\ j.row = i.row /\ j.modrm = i.modrm
BY DEF Took, Follows

(* What only looks, or notes what was found. *)
LEMMA TookInc ==
  ASSUME NEW i, Typed(i), NEW n \in Int, i.modrm # NoModRM => n \in Nat
  PROVE  Took(i, INSTR_INC(i, n), n)
<1>1. Follows(i, INSTR_INC(i, n))
  BY Inc
<1> QED BY <1>1 DEF Took, INSTR_INC, Typed, Fields

LEMMA Noting ==
  ASSUME NEW i, Typed(i), NEW c, NEW line
  PROVE  /\ Took(i, AnomalyIf(i, c), 0) /\ Took(i, AbortIf(i, c), 0) /\ Took(i, Abort(i), 0)
         /\ Took(i, Fail(i, line), 0) /\ Took(i, Assert_(i, line, c), 0)
<1>1. /\ Follows(i, AnomalyIf(i, c)) /\ Follows(i, AbortIf(i, c)) /\ Follows(i, Abort(i))
      /\ Follows(i, Fail(i, line))
  BY Anomaly, Aborting, Aborted, Failing
<1>2. Took(i, AnomalyIf(i, c), 0)
  BY <1>1 DEF Took, AnomalyIf, Typed, Fields
<1>3. Took(i, AbortIf(i, c), 0)
  BY <1>1 DEF Took, AbortIf, Typed, Fields
<1>4. Took(i, Abort(i), 0)
  BY <1>1 DEF Took, Abort, Typed, Fields
<1>5. Took(i, Fail(i, line), 0)
  BY <1>1 DEF Took, Fail, Typed, Fields
<1> QED BY <1>2, <1>3, <1>4, <1>5, TookNothing DEF Assert_

LEMMA TookAddr ==
  ASSUME NEW i, Typed(i), NEW k \in 1..3, i.row.ops[k].mode # "G"
  PROVE  Took(i, X86_SET_ADDR(i, k), 0)
<1> DEFINE o == i.operands[k]
           c == o.dst => ~i.dstAddressing
           j == Assert_(i, 174, c)
           e == o.src /\ i.row.type # "STRCMP" => ~i.srcAddressing
           l == Assert_(j, 182, e)
           m == [l EXCEPT !.dstAddressing = @ \/ o.dst, !.srcAddressing = @ \/ o.src]
<1>1. Follows(i, m)
  BY Addr DEF X86_SET_ADDR
<1>2. m = X86_SET_ADDR(i, k)
  BY DEF X86_SET_ADDR
<1> HIDE DEF c, e
<1>3. Took(i, j, 0)
  BY Noting
<1> HIDE DEF j
<1>4. Took(j, l, 0)
  BY <1>3, TookTyped, Noting
<1>5. Took(i, l, 0 + 0) /\ Typed(l)
  BY <1>3, <1>4, TookMore, TookTyped
<1> HIDE DEF l, o
<1>6. Took(i, m, 0)
  BY <1>1, <1>5 DEF Took, Typed, Fields
<1> QED BY <1>2, <1>6

LEMMA TookTarget ==
  ASSUME NEW i, Typed(i), NEW k \in 1..3, NEW b
  PROVE  Took(i, X86_SET_TARGET(i, k, b), 0)
<1>1. Follows(i, [i EXCEPT !.operands[k].target = b])
  BY DEF Typed, Follows, Fields, OperandFields
<1>2. Took(i, [i EXCEPT !.operands[k].target = b], 0)
  BY <1>1 DEF Typed, Took, Fields
<1> QED BY <1>2, Noting DEF X86_SET_TARGET

LEMMA TookSeg ==
  ASSUME NEW i, Typed(i), NEW r
  PROVE  Took(i, X86_SET_SEG(i, r), 0)
<1> DEFINE c == ~i.selector
           j == Assert_(i, 165, c)
           l == [j EXCEPT !.segment = "SS"]
<1>1. X86_SET_SEG(i, r) \in {i, l}
  BY DEF X86_SET_SEG
<1> HIDE DEF c
<1>2. Took(i, j, 0) /\ Typed(j)
  BY Noting, TookTyped
<1> HIDE DEF j
<1>3. Follows(j, l)
  BY <1>2 DEF Typed, Follows, Fields
<1>4. Took(j, l, 0)
  BY <1>2, <1>3 DEF Typed, Took, Fields
<1>5. Took(i, l, 0 + 0)
  BY <1>2, <1>4, TookMore
<1> HIDE DEF l
<1> QED BY <1>1, <1>5, TookNothing

(* Displacements. *)
LEMMA TookOnly ==
  ASSUME NEW i, Typed(i), NEW k \in 1..3, NEW text
  PROVE  Took(i, Displacement_Only(i, k, text), 4)
<1> DEFINE b == TRUE
           t == X86_SET_TARGET(i, k, b)
           j == [t EXCEPT !.operands[k].global = TRUE, !.fullDisplacement = TRUE]
           l == IF IS_VALID_ADDRESS(text, i.next) THEN j ELSE i
<1>1. Displacement_Only(i, k, text) = INSTR_INC(l, 4)
  BY DEF Displacement_Only
<1> HIDE DEF b
<1>2. Took(i, t, 0) /\ Typed(t)
  BY TookTarget, TookTyped
<1> HIDE DEF t
<1>3. Follows(t, j)
  BY <1>2 DEF Typed, Follows, Fields, OperandFields
<1>4. Took(t, j, 0)
  BY <1>2, <1>3 DEF Typed, Took, Fields
<1>5. Took(i, j, 0 + 0)
  BY <1>2, <1>4, TookMore
<1> HIDE DEF j
<1>6. Took(i, l, 0) /\ Typed(l)
  BY <1>5, TookNothing, TookTyped
<1> HIDE DEF l
<1>7. Took(l, INSTR_INC(l, 4), 4)
  BY <1>6, TookInc
<1>8. Took(i, INSTR_INC(l, 4), 0 + 4)
  BY <1>6, <1>7, TookMore
<1> QED BY <1>1, <1>8

Added(m) == IF m = 1 THEN 1 ELSE IF m = 2 THEN 4 ELSE 0

LEMMA TookAdded ==
  ASSUME NEW i, Typed(i), NEW k \in 1..3, NEW text
  PROVE  Took(i, Displacement_Added(i, k, text), Added(mod(i)))
<1> DEFINE j == [i EXCEPT !.operands[k].global = TRUE, !.fullDisplacement = TRUE]
           l == IF IS_VALID_ADDRESS(text, i.next) THEN j ELSE i
<1>1. /\ mod(i) = 1 => Displacement_Added(i, k, text) = INSTR_INC(i, 1)
      /\ mod(i) = 2 => Displacement_Added(i, k, text) = INSTR_INC(l, 4)
      /\ mod(i) \notin {1, 2} => Displacement_Added(i, k, text) = i
  BY DEF Displacement_Added
<1>2. Follows(i, j)
  BY DEF Typed, Follows, Fields, OperandFields
<1>3. Took(i, j, 0)
  BY <1>2 DEF Typed, Took, Fields
<1> HIDE DEF j
<1>4. Took(i, l, 0) /\ Typed(l)
  BY <1>3, TookNothing, TookTyped
<1> HIDE DEF l
<1>5. Took(l, INSTR_INC(l, 4), 4)
  BY <1>4, TookInc
<1>6. Took(i, INSTR_INC(l, 4), 0 + 4)
  BY <1>4, <1>5, TookMore
<1>7. Took(i, INSTR_INC(i, 1), 1) /\ Took(i, i, 0)
  BY TookInc, TookNothing
<1> DEFINE m == mod(i)
<1> HIDE DEF m
<1>8. /\ m = 1 => Added(m) = 1
      /\ m = 2 => Added(m) = 4
      /\ m \notin {1, 2} => Added(m) = 0
  BY DEF Added
<1> USE DEF m
<1> QED BY <1>1, <1>6, <1>7, <1>8

(* What follows the ModRM byte, when i.next is behind it. *)
SIBBytes(i) == IF i.AddressSize = 4 /\ rm(i) = 4 THEN 1 ELSE 0
Absolute(i, text) ==
  IF i.AddressSize = 2 THEN rm(i) = 6 ELSE rm(i) = 5 \/ (rm(i) = 4 /\ At(text, i.next) % 8 = 5)
Rest(i, text) ==
  IF mod(i) = 3 THEN 0
  ELSE SIBBytes(i) + (IF mod(i) = 2 THEN i.AddressSize ELSE IF mod(i) = 1 THEN 1
                      ELSE IF Absolute(i, text) THEN i.AddressSize ELSE 0)

LEMMA Took16 ==
  ASSUME NEW i, Typed(i), NEW k \in 1..3, i.row.ops[k].mode # "G", i.modrm # NoModRM,
         i.AddressSize = 2, NEW text
  PROVE  Took(i, SetModRM16(i, k), Rest(i, text))
<1> DEFINE a == i.operands[k].length \in {1, 2, 4}
           q == Assert_(i, 4131, a)
           j == INSTR_INC(i, mod(i))
           l == IF rm(i) \in {2, 3} THEN X86_SET_SEG(j, EBP) ELSE j
           m == [l EXCEPT !.base = TRUE, !.index = @ \/ rm(i) < 4]
           n == X86_SET_ADDR(i, k)
<1>1. /\ mod(i) = 3 => SetModRM16(i, k) = q
      /\ mod(i) = 0 /\ rm(i) = 6 => SetModRM16(i, k) = INSTR_INC(n, 2)
      /\ mod(i) # 3 /\ ~(mod(i) = 0 /\ rm(i) = 6) => SetModRM16(i, k) = X86_SET_ADDR(m, k)
  BY DEF SetModRM16
<1>2. mod(i) \in 0..3
  BY Fields_ModRM
<1> HIDE DEF a
<1>3. Took(i, q, 0)
  BY Noting
<1>4. Took(i, j, mod(i)) /\ Typed(j)
  BY <1>2, TookInc, TookTyped
<1> HIDE DEF q, j
<1>5. Took(j, l, 0)
  BY <1>4, TookNothing, TookSeg
<1>6. Took(i, l, mod(i) + 0) /\ Typed(l)
  BY <1>2, <1>4, <1>5, TookMore, TookTyped
<1> HIDE DEF l
<1>7. Follows(l, m)
  BY <1>6 DEF Typed, Follows, Fields
<1>8. Took(l, m, 0)
  BY <1>6, <1>7 DEF Typed, Took, Fields
<1>9. Took(i, m, mod(i) + 0 + 0)
  BY <1>2, <1>6, <1>8, TookMore
<1>10. Typed(m) /\ m.row = i.row
  BY <1>9, TookTyped
<1> HIDE DEF m
<1>11. Took(m, X86_SET_ADDR(m, k), 0)
  BY <1>10, TookAddr
<1>12. Took(i, X86_SET_ADDR(m, k), mod(i) + 0 + 0 + 0)
  BY <1>2, <1>9, <1>11, TookMore
<1>13. Took(i, n, 0) /\ Typed(n)
  BY TookAddr, TookTyped
<1> HIDE DEF n
<1>14. Took(n, INSTR_INC(n, 2), 2)
  BY <1>13, TookInc
<1>15. Took(i, INSTR_INC(n, 2), 0 + 2)
  BY <1>13, <1>14, TookMore
<1>16. SIBBytes(i) = 0
  BY DEF SIBBytes
<1>17. /\ mod(i) = 3 => Rest(i, text) = 0
       /\ mod(i) = 0 /\ rm(i) = 6 => Rest(i, text) = 0 + 2
       /\ mod(i) # 3 /\ ~(mod(i) = 0 /\ rm(i) = 6) => Rest(i, text) = mod(i) + 0 + 0 + 0
  <2> DEFINE e == mod(i)
  <2>1. e \in 0..3
    BY <1>2
  <2> HIDE DEF e
  <2>2. Rest(i, text) = IF e = 3 THEN 0 ELSE 0 + (IF e = 2 THEN 2 ELSE IF e = 1 THEN 1
                        ELSE IF rm(i) = 6 THEN 2 ELSE 0)
    BY <1>16 DEF Rest, Absolute, e
  <2>3. e \in {0, 1, 2, 3}
    BY <2>1
  <2>4. /\ e = 3 => Rest(i, text) = 0
        /\ e = 0 /\ rm(i) = 6 => Rest(i, text) = 0 + 2
        /\ e # 3 /\ ~(e = 0 /\ rm(i) = 6) => Rest(i, text) = e + 0 + 0 + 0
    BY <2>2, <2>3
  <2> QED BY <2>4 DEF e
<1> QED BY <1>1, <1>3, <1>12, <1>15, <1>17

LEMMA TookSIB ==
  ASSUME NEW text \in Seq(Byte), NEW i, Typed(i), NEW k \in 1..3, i.row.ops[k].mode # "G",
         i.modrm # NoModRM, i.AddressSize = 4, rm(i) = 4, mod(i) # 3
  PROVE  Took(i, SetSIB(i, k, text), Rest(i, text))
<1> DEFINE sib == At(text, i.next)
           baseField == sib % 8
           indexField == (sib \div 8) % 8
           scale == <<1, 2, 4, 8>>[sib \div 64 + 1]
           a == X86_SET_ADDR(i, k)
           j == INSTR_INC(a, 1)
           g == X86_SET_SEG(j, baseField)
           based == [g EXCEPT !.base = TRUE]
           only == Displacement_Only(j, k, text)
           added == Displacement_Added(based, k, text)
           withBase == IF baseField # 5 THEN based ELSE IF mod(i) = 0 THEN only ELSE added
           indexed == [withBase EXCEPT !.operands[k].target = FALSE, !.index = TRUE,
                                       !.scale = scale]
           withIndex == IF indexField = 4 THEN withBase ELSE indexed
           last == Displacement_Added(withIndex, k, text)
           x == Added(mod(i))
           n == 1 + (IF baseField # 5 THEN 0 ELSE IF mod(i) = 0 THEN 4 ELSE x)
<1>1. SetSIB(i, k, text) = IF baseField = 5 THEN withIndex ELSE last
  BY DEF SetSIB
<1>2. scale \in Nat
  <2>1. sib \in Byte
    BY AtByte DEF Typed
  <2> HIDE DEF sib
  <2>2. sib \div 64 + 1 \in 1..4
    BY <2>1 DEF Byte
  <2> QED BY <2>2
<1>3. mod(i) \in 0..3 /\ x \in Nat
  BY Fields_ModRM DEF Added
<1>4. Took(i, a, 0) /\ Typed(a)
  BY TookAddr, TookTyped
<1> HIDE DEF scale, baseField, indexField, sib, a, x
<1>5. Took(a, j, 1)
  BY <1>4, TookInc
<1>6. Took(i, j, 0 + 1) /\ Typed(j)
  BY <1>4, <1>5, TookMore, TookTyped
<1> HIDE DEF j
<1>7. Took(j, g, 0) /\ Typed(g)
  BY <1>6, TookSeg, TookTyped
<1> HIDE DEF g
<1>8. Follows(g, based)
  BY <1>7 DEF Typed, Follows, Fields
<1>9. Took(g, based, 0)
  BY <1>7, <1>8 DEF Typed, Took, Fields
<1>10. Took(i, g, 0 + 1 + 0)
  BY <1>6, <1>7, TookMore
<1> HIDE DEF based
<1>11. Took(i, based, 0 + 1 + 0 + 0)
  BY <1>9, <1>10, TookMore
<1>12. Typed(based) /\ mod(based) = mod(i)
  BY <1>11, TookTyped DEF mod
<1>13. Took(based, added, x) /\ Took(j, only, 4)
  BY <1>6, <1>12, TookAdded, TookOnly DEF x
<1>14. Took(i, added, 0 + 1 + 0 + 0 + x) /\ Took(i, only, 0 + 1 + 4)
  BY <1>3, <1>6, <1>11, <1>13, TookMore
<1> HIDE DEF added, only
<1>15. Took(i, withBase, n)
  <2>1. CASE baseField # 5
    <3>1. withBase = based /\ n = 0 + 1 + 0 + 0
      BY <2>1
    <3> QED BY <1>11, <3>1
  <2>2. CASE baseField = 5 /\ mod(i) = 0
    <3>1. withBase = only /\ n = 0 + 1 + 4
      BY <2>2
    <3> QED BY <1>14, <3>1
  <2>3. CASE baseField = 5 /\ mod(i) # 0
    <3>1. withBase = added /\ n = 0 + 1 + 0 + 0 + x
      BY <1>3, <2>3
    <3> QED BY <1>14, <3>1
  <2> QED BY <2>1, <2>2, <2>3
<1>16. n \in Nat
  BY <1>3
<1>17. Typed(withBase)
  BY <1>15, TookTyped
<1> HIDE DEF withBase, n
<1>18. Follows(withBase, indexed)
  BY <1>2, <1>17 DEF Typed, Follows, Fields, OperandFields
<1>19. Took(withBase, indexed, 0)
  BY <1>17, <1>18 DEF Typed, Took, Fields
<1> HIDE DEF indexed
<1>20. Took(withBase, withIndex, 0)
  BY <1>17, <1>19, TookNothing
<1>21. Took(i, withIndex, n + 0)
  BY <1>15, <1>16, <1>20, TookMore
<1>22. Typed(withIndex) /\ mod(withIndex) = mod(i)
  BY <1>21, TookTyped DEF mod
<1> HIDE DEF withIndex
<1>23. Took(withIndex, last, x)
  BY <1>22, TookAdded DEF x
<1>24. Took(i, last, n + 0 + x)
  BY <1>3, <1>16, <1>21, <1>23, TookMore
<1>25. Rest(i, text) = IF baseField = 5 THEN n + 0 ELSE n + 0 + x
  <2> DEFINE e == mod(i)
  <2>1. e \in {0, 1, 2}
    BY <1>3
  <2>2. x = IF e = 1 THEN 1 ELSE IF e = 2 THEN 4 ELSE 0
    BY DEF x, Added
  <2>3. n = 1 + (IF baseField # 5 THEN 0 ELSE IF e = 0 THEN 4 ELSE x)
    BY DEF n
  <2>4. Rest(i, text) = 1 + (IF e = 2 THEN 4 ELSE IF e = 1 THEN 1 ELSE IF baseField = 5 THEN 4 ELSE 0)
    BY DEF Rest, SIBBytes, Absolute, baseField, sib
  <2> HIDE DEF e
  <2> QED BY <2>1, <2>2, <2>3, <2>4
<1> QED BY <1>1, <1>21, <1>24, <1>25

LEMMA Took32 ==
  ASSUME NEW text \in Seq(Byte), NEW i, Typed(i), NEW k \in 1..3, i.row.ops[k].mode # "G",
         i.modrm # NoModRM
  PROVE  Took(i, SetModRM32(i, k, text), Rest(i, text))
<1> DEFINE c == i.operands[k].length \in {1, 2, 4, 8}
           r == Assert_(i, 4264, c)
           f == i.operands[k].dst => k <= 2
           q == X86_SET_REG(r, k)
           d == Displacement_Only(i, k, text)
           g == X86_SET_SEG(i, rm(i))
           b == [g EXCEPT !.base = TRUE]
           j == X86_SET_ADDR(b, k)
           last == Displacement_Added(j, k, text)
           x == Added(mod(i))
<1>1. CASE i.AddressSize = 2
  BY <1>1, Took16 DEF SetModRM32
<1>2. CASE i.AddressSize = 4 /\ mod(i) # 3 /\ rm(i) = 4
  <2>1. SetModRM32(i, k, text) = SetSIB(i, k, text)
    BY <1>2 DEF SetModRM32
  <2> QED BY <1>2, <2>1, TookSIB
<1>3. CASE i.AddressSize = 4 /\ ~(mod(i) # 3 /\ rm(i) = 4)
  <2>1. /\ mod(i) = 3 => SetModRM32(i, k, text) = q
        /\ mod(i) = 0 /\ rm(i) = 5 => SetModRM32(i, k, text) = X86_SET_ADDR(d, k)
        /\ mod(i) # 3 /\ ~(mod(i) = 0 /\ rm(i) = 5) => SetModRM32(i, k, text) = last
    BY <1>3 DEF SetModRM32
  <2>2. mod(i) \in 0..3 /\ x \in Nat
    BY Fields_ModRM DEF Added
  <2> HIDE DEF c, x
  <2>3. Took(i, r, 0) /\ Typed(r)
    BY Noting, TookTyped
  <2> HIDE DEF r
  <2>4. Took(r, q, 0)
    BY <2>3, Noting DEF X86_SET_REG
  <2>5. Took(i, q, 0 + 0)
    BY <2>3, <2>4, TookMore
  <2>6. Took(i, d, 4) /\ Typed(d) /\ d.row = i.row
    BY TookOnly, TookTyped
  <2> HIDE DEF d, q
  <2>7. Took(d, X86_SET_ADDR(d, k), 0)
    BY <2>6, TookAddr
  <2>8. Took(i, X86_SET_ADDR(d, k), 4 + 0)
    BY <2>6, <2>7, TookMore
  <2>9. Took(i, g, 0) /\ Typed(g) /\ g.row = i.row
    BY TookSeg, TookTyped
  <2> HIDE DEF g
  <2>10. Follows(g, b)
    BY <2>9 DEF Typed, Follows, Fields
  <2>11. Took(g, b, 0)
    BY <2>9, <2>10 DEF Typed, Took, Fields
  <2>12. Typed(b) /\ b.row = i.row
    BY <2>9, <2>11, TookTyped
  <2> HIDE DEF b
  <2>13. Took(b, j, 0)
    BY <2>12, TookAddr
  <2>14. Took(i, b, 0 + 0)
    BY <2>9, <2>11, TookMore
  <2>15. Took(i, j, 0 + 0 + 0)
    BY <2>13, <2>14, TookMore
  <2>16. Typed(j) /\ mod(j) = mod(i)
    BY <2>15, TookTyped DEF mod
  <2> HIDE DEF j
  <2>17. Took(j, last, x)
    BY <2>16, TookAdded DEF x
  <2>18. Took(i, last, 0 + 0 + 0 + x)
    BY <2>2, <2>15, <2>17, TookMore
  <2> HIDE DEF last
  <2>19. /\ mod(i) = 3 => Rest(i, text) = 0 + 0
         /\ mod(i) = 0 /\ rm(i) = 5 => Rest(i, text) = 4 + 0
         /\ mod(i) # 3 /\ ~(mod(i) = 0 /\ rm(i) = 5) => Rest(i, text) = 0 + 0 + 0 + x
    <3> DEFINE e == mod(i)
               h == rm(i)
    <3>1. e \in {0, 1, 2, 3}
      BY <2>2
    <3>2. x = IF e = 1 THEN 1 ELSE IF e = 2 THEN 4 ELSE 0
      BY DEF x, Added
    <3>3. e # 3 => SIBBytes(i) = 0
      BY <1>3 DEF SIBBytes
    <3>4. e # 3 => (Absolute(i, text) <=> h = 5)
      BY <1>3 DEF Absolute
    <3>5. Rest(i, text) = IF e = 3 THEN 0 ELSE SIBBytes(i) + (IF e = 2 THEN 4 ELSE IF e = 1 THEN 1
                          ELSE IF Absolute(i, text) THEN 4 ELSE 0)
      BY <1>3 DEF Rest
    <3> HIDE DEF e, h
    <3>6. /\ e = 3 => Rest(i, text) = 0 + 0
          /\ e = 0 /\ h = 5 => Rest(i, text) = 4 + 0
          /\ e # 3 /\ ~(e = 0 /\ h = 5) => Rest(i, text) = 0 + 0 + 0 + x
      BY <3>1, <3>2, <3>3, <3>4, <3>5
    <3> QED BY <3>6 DEF e, h
  <2> QED BY <2>1, <2>5, <2>8, <2>18, <2>19
<1> QED BY <1>1, <1>2, <1>3 DEF Typed

(* A jump, an offset or a far address may change the sizes as well. *)
Grew(i, j, n) == Follows(i, j) /\ j.length = i.length + n /\ j.next = i.next + n

LEMMA TookGrew == ASSUME NEW i, NEW j, NEW n, Took(i, j, n) PROVE Grew(i, j, n)
BY DEF Took, Grew

LEMMA GrewMore ==
  ASSUME NEW i, Typed(i), NEW j, NEW l, NEW m \in Int, NEW n \in Int, Grew(i, j, m), Grew(j, l, n)
  PROVE  Grew(i, l, m + n)
<1>1. i.length \in Int /\ i.next \in Int
  BY DEF Typed
<1> QED BY <1>1, Further DEF Grew

LEMMA RestRange == ASSUME NEW i, Typed(i), NEW text PROVE Rest(i, text) \in Nat
BY DEF Rest, SIBBytes, Typed

LEMMA SameRest ==
  ASSUME NEW i, NEW j, NEW text, Took(i, j, 0), Typed(i)
  PROVE  Rest(j, text) = Rest(i, text)
<1>1. j.modrm = i.modrm /\ j.AddressSize = i.AddressSize /\ j.next = i.next
  BY DEF Took, Follows, Typed
<1>2. mod(j) = mod(i) /\ rm(j) = rm(i)
  BY <1>1 DEF mod, rm
<1> QED BY <1>1, <1>2 DEF Rest, SIBBytes, Absolute

LEMMA TookI ==
  ASSUME NEW i, Typed(i), NEW k \in 1..3
  PROVE  Took(i, Operand_I(i, k), i.operands[k].length)
<1> DEFINE x == i.operands[k].length
           n == INSTR_INC(i, x)
           c == i.OperandSize >= x
           j == Assert_(n, 3522, c)
           l == [j EXCEPT !.operands[k].length = i.OperandSize]
<1>1. Operand_I(i, k) \in {j, l}
  BY DEF Operand_I
<1>2. x \in Nat /\ i.OperandSize \in Nat
  BY DEF Typed
<1> HIDE DEF c, x
<1>3. Took(i, n, x) /\ Typed(n)
  BY <1>2, TookInc, TookTyped
<1> HIDE DEF n
<1>4. Took(n, j, 0) /\ Typed(j)
  BY <1>3, Noting, TookTyped
<1>5. Took(i, j, x + 0)
  BY <1>2, <1>3, <1>4, TookMore
<1> HIDE DEF j
<1>6. Follows(j, l)
  BY <1>2, <1>4 DEF Typed, Follows, Fields, OperandFields
<1>7. Took(j, l, 0)
  BY <1>4, <1>6 DEF Typed, Took, Fields
<1> HIDE DEF l
<1>8. Took(i, l, x + 0 + 0)
  BY <1>2, <1>5, <1>7, TookMore
<1>9. x + 0 = x /\ x + 0 + 0 = x
  BY <1>2
<1> QED BY <1>1, <1>5, <1>8, <1>9 DEF x

LEMMA GrewChecked ==
  ASSUME NEW i, Typed(i)
  PROVE  /\ Grew(i, SANITY_CHECK_OPERAND_SIZE(i), 0) /\ Grew(i, SANITY_CHECK_ADDRESS_SIZE(i), 0)
         /\ Took(i, SANITY_CHECK_SEGMENT_OVERRIDE(i), 0)
         /\ SANITY_CHECK_OPERAND_SIZE(i).AddressSize = i.AddressSize
         /\ SANITY_CHECK_OPERAND_SIZE(i).operands = i.operands
         /\ SANITY_CHECK_ADDRESS_SIZE(i).operands = i.operands
         /\ SANITY_CHECK_SEGMENT_OVERRIDE(i).operands = i.operands
<1>1. Follows(i, SANITY_CHECK_OPERAND_SIZE(i)) /\ Follows(i, SANITY_CHECK_ADDRESS_SIZE(i))
  BY OperandSizeChecked, AddressSizeChecked
<1>2. /\ Grew(i, SANITY_CHECK_OPERAND_SIZE(i), 0)
      /\ SANITY_CHECK_OPERAND_SIZE(i).AddressSize = i.AddressSize
      /\ SANITY_CHECK_OPERAND_SIZE(i).operands = i.operands
  BY <1>1 DEF Grew, SANITY_CHECK_OPERAND_SIZE, Typed, Fields
<1>3. /\ Grew(i, SANITY_CHECK_ADDRESS_SIZE(i), 0)
      /\ SANITY_CHECK_ADDRESS_SIZE(i).operands = i.operands
  BY <1>1 DEF Grew, SANITY_CHECK_ADDRESS_SIZE, AnomalyIf, Typed, Fields
<1>4. SANITY_CHECK_SEGMENT_OVERRIDE(i).operands = i.operands
  BY DEF SANITY_CHECK_SEGMENT_OVERRIDE, AnomalyIf, Typed, Fields
<1> QED BY <1>2, <1>3, <1>4, Noting DEF SANITY_CHECK_SEGMENT_OVERRIDE

LEMMA GrewJ ==
  ASSUME NEW text, NEW i, Typed(i), NEW k \in 1..3, i.row.ops[k].mode # "G"
  PROVE  Grew(i, Operand_J(i, k, text), i.operands[k].length)
<1> DEFINE size == i.operands[k].length
           c == SANITY_CHECK_ADDRESS_SIZE(i)
           e == i.row.type \in {"BRANCHCC", "LOOPCC"} /\ ~NonZero(text, i.next, size)
           j == AnomalyIf(c, e)
           n == INSTR_INC(j, size)
           t == [n EXCEPT !.operands[k].target = TRUE]
           l == X86_SET_ADDR(t, k)
           s == SANITY_CHECK_SEGMENT_OVERRIDE(l)
           z == [s EXCEPT !.override = FALSE, !.segment = "CS", !.base = TRUE]
<1>1. Operand_J(i, k, text) = z
  BY DEF Operand_J
<1>2. size \in Nat
  BY DEF Typed
<1> HIDE DEF e, size
<1>3. Grew(i, c, 0) /\ Typed(c)
  BY GrewChecked, Known DEF Grew
<1> HIDE DEF c
<1>4. Grew(c, j, 0)
  BY <1>3, Noting, TookGrew
<1>5. Grew(i, j, 0 + 0)
  BY <1>3, <1>4, GrewMore
<1>6. Typed(j)
  BY <1>5, Known DEF Grew
<1> HIDE DEF j
<1>7. Grew(j, n, size)
  BY <1>2, <1>6, TookInc, TookGrew
<1>8. Grew(i, n, 0 + 0 + size)
  BY <1>2, <1>5, <1>7, GrewMore
<1>9. Typed(n) /\ n.row = i.row
  BY <1>8, Known DEF Grew
<1> HIDE DEF n
<1>10. Follows(n, t)
  BY <1>9 DEF Typed, Follows, Fields, OperandFields
<1>11. Took(n, t, 0) /\ Typed(t) /\ t.row = i.row
  <2>1. Took(n, t, 0)
    BY <1>9, <1>10 DEF Typed, Took, Fields
  <2> QED BY <2>1, <1>9, TookTyped
<1> HIDE DEF t
<1>12. Took(t, l, 0) /\ Typed(l)
  BY <1>11, TookAddr, TookTyped
<1> HIDE DEF l
<1>13. Took(l, s, 0) /\ Typed(s)
  BY <1>12, GrewChecked, TookTyped
<1> HIDE DEF s
<1>14. Follows(s, z)
  BY <1>13 DEF Typed, Follows, Fields
<1>15. Took(s, z, 0)
  BY <1>13, <1>14 DEF Typed, Took, Fields
<1> HIDE DEF z
<1>16. Took(t, s, 0 + 0)
  BY <1>11, <1>12, <1>13, TookMore
<1>17. Took(n, s, 0 + (0 + 0))
  BY <1>9, <1>11, <1>16, TookMore
<1>18. Took(n, z, 0 + (0 + 0) + 0)
  BY <1>9, <1>15, <1>17, TookMore
<1>19. Grew(i, z, 0 + 0 + size + (0 + (0 + 0) + 0))
  BY <1>2, <1>8, <1>18, TookGrew, GrewMore
<1> QED BY <1>1, <1>2, <1>19 DEF size

LEMMA GrewO ==
  ASSUME NEW text, NEW i, Typed(i), NEW k \in 1..3, i.row.ops[k].mode # "G"
  PROVE  Grew(i, Operand_O(i, k, text), i.AddressSize)
<1> DEFINE j == SANITY_CHECK_OPERAND_SIZE(i)
           x == j.AddressSize
           n == INSTR_INC(j, x)
           l == [n EXCEPT !.fullDisplacement = TRUE]
           a == X86_SET_ADDR(l, k)
           e == NonZero(text, j.next, x)
           t == X86_SET_TARGET(a, k, e)
           c == t.segment = "DS" \/ t.override
           z == Assert_(t, 3615, c)
<1>1. Operand_O(i, k, text) = z
  BY DEF Operand_O
<1>2. Grew(i, j, 0) /\ Typed(j) /\ x = i.AddressSize /\ x \in Nat
  <2>1. Grew(i, j, 0) /\ Typed(j) /\ x = i.AddressSize
    BY GrewChecked, Known DEF Grew
  <2> QED BY <2>1 DEF Typed
<1> HIDE DEF j, x, e
<1>3. Grew(j, n, x)
  BY <1>2, TookInc, TookGrew
<1>4. Grew(i, n, 0 + x)
  BY <1>2, <1>3, GrewMore
<1>5. Typed(n) /\ n.row = i.row
  BY <1>4, Known DEF Grew
<1> HIDE DEF n
<1>6. Follows(n, l)
  BY <1>5 DEF Typed, Follows, Fields
<1>7. Took(n, l, 0) /\ Typed(l) /\ l.row = i.row
  <2>1. Took(n, l, 0)
    BY <1>5, <1>6 DEF Typed, Took, Fields
  <2> QED BY <2>1, <1>5, TookTyped
<1> HIDE DEF l
<1>8. Took(l, a, 0) /\ Typed(a)
  BY <1>7, TookAddr, TookTyped
<1> HIDE DEF a
<1>9. Took(a, t, 0) /\ Typed(t)
  BY <1>8, TookTarget, TookTyped
<1> HIDE DEF t, c
<1>10. Took(t, z, 0)
  BY <1>9, Noting
<1> HIDE DEF z
<1>11. Took(l, t, 0 + 0)
  BY <1>7, <1>8, <1>9, TookMore
<1>12. Took(l, z, 0 + 0 + 0)
  BY <1>7, <1>10, <1>11, TookMore
<1>13. Took(n, z, 0 + (0 + 0 + 0))
  BY <1>5, <1>7, <1>12, TookMore
<1>14. Grew(i, z, 0 + x + (0 + (0 + 0 + 0)))
  BY <1>2, <1>4, <1>13, TookGrew, GrewMore
<1> QED BY <1>1, <1>2, <1>14

LEMMA GrewA ==
  ASSUME NEW i, Typed(i), NEW k \in 1..3, i.row.ops[k].mode # "G"
  PROVE  Grew(i, Operand_A(i, k), i.operands[k].length)
<1> DEFINE c == SANITY_CHECK_ADDRESS_SIZE(i)
           j == SANITY_CHECK_SEGMENT_OVERRIDE(c)
           x == j.operands[k].length
           n == INSTR_INC(j, x)
           l == [n EXCEPT !.selector = TRUE, !.override = FALSE, !.segment = "selector",
                          !.fullDisplacement = TRUE]
           a == X86_SET_ADDR(l, k)
           e == TRUE
           z == X86_SET_TARGET(a, k, e)
<1>1. Operand_A(i, k) = z
  BY DEF Operand_A
<1>2. Grew(i, c, 0) /\ Typed(c) /\ c.operands = i.operands
  BY GrewChecked, Known DEF Grew
<1> HIDE DEF c, e
<1>3. Grew(c, j, 0) /\ Typed(j) /\ j.operands = c.operands
  BY <1>2, GrewChecked, Known, TookGrew, TookTyped
<1>4. Grew(i, j, 0 + 0) /\ x = i.operands[k].length /\ x \in Nat
  <2>1. Grew(i, j, 0 + 0)
    BY <1>2, <1>3, GrewMore
  <2>2. x = i.operands[k].length
    BY <1>2, <1>3
  <2>3. x \in Nat
    BY <1>3 DEF Typed
  <2> QED BY <2>1, <2>2, <2>3
<1> HIDE DEF j, x
<1>5. Grew(j, n, x)
  BY <1>3, <1>4, TookInc, TookGrew
<1>6. Grew(i, n, 0 + 0 + x)
  BY <1>4, <1>5, GrewMore
<1>7. Typed(n) /\ n.row = i.row
  BY <1>6, Known DEF Grew
<1> HIDE DEF n
<1>8. Follows(n, l)
  BY <1>7 DEF Typed, Follows, Fields
<1>9. Took(n, l, 0) /\ Typed(l) /\ l.row = i.row
  <2>1. Took(n, l, 0)
    BY <1>7, <1>8 DEF Typed, Took, Fields
  <2> QED BY <2>1, <1>7, TookTyped
<1> HIDE DEF l
<1>10. Took(l, a, 0) /\ Typed(a)
  BY <1>9, TookAddr, TookTyped
<1> HIDE DEF a
<1>11. Took(a, z, 0)
  BY <1>10, TookTarget
<1> HIDE DEF z
<1>12. Took(l, z, 0 + 0)
  BY <1>9, <1>10, <1>11, TookMore
<1>13. Took(n, z, 0 + (0 + 0))
  BY <1>7, <1>9, <1>12, TookMore
<1>14. Grew(i, z, 0 + 0 + x + (0 + (0 + 0)))
  BY <1>4, <1>6, <1>13, TookGrew, GrewMore
<1> QED BY <1>1, <1>4, <1>14

LEMMA TookXY ==
  ASSUME NEW i, Typed(i), NEW k \in 1..3, i.row.ops[k].mode # "G"
  PROVE  Took(i, Operand_X(i, k), 0) /\ Took(i, Operand_Y(i, k), 0)
<1> DEFINE b == [i EXCEPT !.base = TRUE]
           j == X86_SET_ADDR(b, k)
           ds == [j EXCEPT !.segment = "DS"]
           es == [j EXCEPT !.segment = "ES"]
           c == TRUE
<1>1. Follows(i, b)
  BY DEF Typed, Follows, Fields
<1>2. Took(i, b, 0)
  BY <1>1 DEF Typed, Took, Fields
<1>3. Typed(b) /\ b.row = i.row
  BY <1>2, TookTyped
<1>4. /\ Operand_X(i, k) \in {j, ds}
      /\ Operand_Y(i, k) \in {AnomalyIf(j, c), es}
  BY DEF Operand_X, Operand_Y
<1> HIDE DEF b, c
<1>5. Took(b, j, 0)
  BY <1>3, TookAddr
<1>6. Took(i, j, 0 + 0) /\ Typed(j)
  BY <1>2, <1>5, TookMore, TookTyped
<1> HIDE DEF j
<1>7. Took(j, AnomalyIf(j, c), 0)
  BY <1>6, Noting
<1>8. Follows(j, ds) /\ Follows(j, es)
  BY <1>6 DEF Typed, Follows, Fields
<1>9. Took(j, ds, 0) /\ Took(j, es, 0)
  BY <1>6, <1>8 DEF Typed, Took, Fields
<1> HIDE DEF ds, es
<1>10. /\ Took(i, AnomalyIf(j, c), 0 + 0 + 0) /\ Took(i, ds, 0 + 0 + 0) /\ Took(i, es, 0 + 0 + 0)
  BY <1>6, <1>7, <1>9, TookMore
<1> QED BY <1>4, <1>6, <1>10

LEMMA TookXlat ==
  ASSUME NEW i, Typed(i), NEW k \in 1..3, i.row.ops[k].mode # "G"
  PROVE  Took(i, Operand_xlat(i, k), 0)
<1> DEFINE j == X86_SET_ADDR(i, k)
           l == [j EXCEPT !.scale = 1, !.base = TRUE, !.index = TRUE]
<1>1. Took(i, j, 0) /\ Typed(j)
  BY TookAddr, TookTyped
<1>2. Operand_xlat(i, k) = l
  BY DEF Operand_xlat
<1> HIDE DEF j
<1>3. Follows(j, l)
  BY <1>1 DEF Typed, Follows, Fields
<1>4. Took(j, l, 0)
  BY <1>1, <1>3 DEF Typed, Took, Fields
<1> HIDE DEF l
<1>5. Took(i, l, 0 + 0)
  BY <1>1, <1>4, TookMore
<1> QED BY <1>2, <1>5

LEMMA TookReg ==
  ASSUME NEW i, Typed(i), NEW k \in 1..3, NEW line, NEW c
  PROVE  /\ Took(i, X86_SET_REG(i, k), 0)
         /\ Took(i, X86_SET_REG(AbortIf(i, c), k), 0)
         /\ Took(i, X86_SET_REG(Assert_(i, line, c), k), 0)
<1> DEFINE j == AbortIf(i, c)
           l == Assert_(i, line, c)
<1>1. \A x : Typed(x) => Took(x, X86_SET_REG(x, k), 0)
  BY Noting DEF X86_SET_REG
<1>2. Took(i, j, 0) /\ Took(i, l, 0) /\ Typed(j) /\ Typed(l)
  BY Noting, TookTyped
<1> SUFFICES Took(i, X86_SET_REG(i, k), 0) /\ Took(i, X86_SET_REG(j, k), 0)
             /\ Took(i, X86_SET_REG(l, k), 0)
  OBVIOUS
<1> HIDE DEF j, l
<1>3. Took(i, X86_SET_REG(j, k), 0 + 0) /\ Took(i, X86_SET_REG(l, k), 0 + 0)
  BY <1>1, <1>2, TookMore
<1> QED BY <1>1, <1>3

(* Where a register must be in rm, nothing follows. *)
LEMMA TookInRM ==
  ASSUME NEW i, Typed(i), NEW k \in 1..3, NEW text
  PROVE  /\ Took(i, Operand_RegisterInRM(i, k), 0)
         /\ Running(Operand_RegisterInRM(i, k)) => Rest(i, text) = 0
<1> DEFINE c == mod(i) # 3 \/ (i.row.ops[k].mode \in {"PR", "VR"} /\ i.OperandSize = 2)
           j == AbortIf(i, c)
           l == X86_SET_REG(j, k)
<1>1. Operand_RegisterInRM(i, k) = l
  BY DEF Operand_RegisterInRM
<1>2. c \/ mod(i) = 3
  OBVIOUS
<1> HIDE DEF c
<1>3. j.aborted = (i.aborted \/ c)
  BY DEF AbortIf, Typed, Fields
<1>4. l.aborted = j.aborted
  <2>1. Took(i, j, 0) /\ Typed(j)
    BY Noting, TookTyped
  <2> HIDE DEF j
  <2> QED BY <2>1 DEF X86_SET_REG, Assert_, Fail, Typed, Fields
<1>5. Running(l) => mod(i) = 3
  BY <1>2, <1>3, <1>4 DEF Running
<1> QED BY <1>1, <1>5, TookReg DEF Rest

LEMMA TookInReg ==
  ASSUME NEW i, Typed(i), NEW k \in 1..3, i.row.ops[k].mode \in {"P", "V", "G", "S", "C", "D"}
  PROVE  Took(i, Operand_RegisterInReg(i, k), 0)
BY TookReg DEF Operand_RegisterInReg

LEMMA TookM ==
  ASSUME NEW i, Typed(i), NEW k \in 1..3, i.row.ops[k].mode # "G", i.modrm # NoModRM,
         NEW text \in Seq(Byte), Running(Operand_M(i, k, text))
  PROVE  Took(i, Operand_M(i, k, text), Rest(i, text))
<1> DEFINE c == i.segment = "DS" \/ i.override
           j == Assert_(i, 4001, c)
           l == SetModRM32(j, k, text)
<1>1. Abort(i).aborted
  BY DEF Abort, Typed, Fields
<1>2. Operand_M(i, k, text) = l
  BY <1>1 DEF Operand_M, Running
<1> HIDE DEF c
<1>3. Took(i, j, 0)
  BY Noting
<1>4. Typed(j) /\ j.row = i.row /\ j.modrm = i.modrm
  BY <1>3, TookTyped
<1>5. Rest(j, text) = Rest(i, text)
  BY <1>3, SameRest
<1> HIDE DEF j
<1>6. Took(j, l, Rest(j, text))
  BY <1>4, Took32
<1>7. Rest(j, text) \in Int
  BY <1>4, RestRange
<1>8. Took(i, l, 0 + Rest(j, text))
  BY <1>3, <1>6, <1>7, TookMore
<1> QED BY <1>2, <1>5, <1>7, <1>8

LEMMA TookE ==
  ASSUME NEW i, Typed(i), NEW k \in 1..3, i.row.ops[k].mode # "G", i.modrm # NoModRM,
         NEW text \in Seq(Byte), Running(Operand_E(i, k, text))
  PROVE  Took(i, Operand_E(i, k, text), Rest(i, text))
<1> DEFINE j == SetModRM32(i, k, text)
           l == [j EXCEPT !.operands[k].length = i.OperandSize]
           n == Rest(i, text)
<1>1. Abort(i).aborted
  BY DEF Abort, Typed, Fields
<1>2. Operand_E(i, k, text) \in {j, l}
  BY <1>1 DEF Operand_E, Running
<1>3. Took(i, j, n) /\ Typed(j) /\ n \in Int
  BY Took32, TookTyped, RestRange
<1>4. i.OperandSize \in Nat
  BY DEF Typed
<1> HIDE DEF j, n
<1>5. Follows(j, l)
  BY <1>3, <1>4 DEF Typed, Follows, Fields, OperandFields
<1>6. Took(j, l, 0)
  BY <1>3, <1>5 DEF Typed, Took, Fields
<1> HIDE DEF l
<1>7. Took(i, l, n + 0)
  BY <1>3, <1>6, TookMore
<1> QED BY <1>2, <1>3, <1>7 DEF n

LEMMA TookQW ==
  ASSUME NEW i, Typed(i), NEW k \in 1..3, i.row.ops[k].mode # "G", i.modrm # NoModRM,
         NEW text \in Seq(Byte)
  PROVE  Took(i, Operand_QW(i, k, text), Rest(i, text))
BY Took32, TookReg DEF Operand_QW, Rest

(* The size first. *)
LEMMA TookSized ==
  ASSUME NEW i, Typed(i), NEW k \in 1..3
  PROVE  /\ Took(i, Sized(i, k), 0)
         /\ Sized(i, k).operands[k].length = OperandLength(i, i.row.ops[k].size)
<1> DEFINE size == i.row.ops[k].size
           c == size \in OperandSizes
           e == size = "p" /\ i.override
           known == Assert_(i, 3421, c)
           a == AnomalyIf(known, e)
           n == OperandLength(i, size)
           l == [a EXCEPT !.operands[k].length = n]
<1>1. Sized(i, k) = l
  BY DEF Sized
<1>2. n \in Nat
  BY Sizes
<1> HIDE DEF l, n
<1> SUFFICES Took(i, l, 0) /\ l.operands[k].length = n
  BY <1>1 DEF n
<1> USE DEF l
<1> HIDE DEF c, e
<1>3. Took(i, known, 0) /\ Typed(known)
  BY Noting, TookTyped
<1> HIDE DEF known
<1>4. Took(known, a, 0) /\ Typed(a)
  BY <1>3, Noting, TookTyped
<1>5. Took(i, a, 0 + 0)
  BY <1>3, <1>4, TookMore
<1> HIDE DEF a
<1>6. Follows(a, l)
  BY <1>2, <1>4 DEF Typed, Follows, Fields, OperandFields
<1>7. Took(a, l, 0)
  BY <1>4, <1>6 DEF Typed, Took, Fields
<1>8. l.operands[k].length = n
  BY <1>4 DEF Typed, Fields, OperandFields
<1> HIDE DEF l
<1>9. Took(i, l, 0 + 0 + 0)
  BY <1>5, <1>7, TookMore
<1> QED BY <1>8, <1>9

LEMMA LengthOf ==
  ASSUME NEW i, Typed(i)
  PROVE  /\ OperandLength(i, "b") = 1 /\ OperandLength(i, "w") = 2
         /\ OperandLength(i, "z") = i.OperandSize /\ OperandLength(i, "v") = i.OperandSize
         /\ OperandLength(i, "p") = i.OperandSize + 2
BY DEF OperandLength, FixedSize, SizeByOperandSize, Typed

LEMMA OperandTakes ==
  ASSUME NEW text \in Seq(Byte), NEW i, Typed(i), NEW k \in 1..3, KnownOp(i.row.ops[k]),
         i.row.ops[k].mode \in ModRMModes => i.modrm # NoModRM,
         Running(SetOperand(i, k, text))
  PROVE  /\ Grew(i, SetOperand(i, k, text),
                 Bytes(i.row.ops[k], Rest(i, text), i.OperandSize, i.AddressSize))
         /\ i.row.ops[k].mode \notin {"J", "O", "A"} =>
              Took(i, SetOperand(i, k, text),
                   Bytes(i.row.ops[k], Rest(i, text), i.OperandSize, i.AddressSize))
<1> DEFINE o == i.row.ops[k]
           j == Sized(i, k)
           l == Placed(j, k, text)
           a == Rest(i, text)
           z == i.OperandSize
           s == i.AddressSize
           n == Bytes(o, a, z, s)
<1>1. a \in Nat /\ z \in Nat /\ s \in Nat
  BY RestRange DEF Typed
<1>2. Took(i, j, 0) /\ j.operands[k].length = OperandLength(i, o.size)
  BY TookSized
<1>3. Typed(j) /\ j.row = i.row /\ j.modrm = i.modrm /\ Rest(j, text) = a
  BY <1>2, TookTyped, SameRest
<1>4. j.OperandSize = z /\ j.AddressSize = s
  BY <1>2 DEF Took
<1>5. CASE o.mode = "fixed"
  <2>1. SetOperand(i, k, text) = i
    BY <1>5 DEF SetOperand
  <2>2. n = 0
    BY <1>5 DEF Bytes, ModRMModes
  <2> QED BY <2>1, <2>2, TookNothing, TookGrew
<1>6. CASE o.mode # "fixed"
  <2>1. SetOperand(i, k, text) = l
    BY <1>6 DEF SetOperand
  <2>2. Running(l)
    BY <2>1
  <2> SUFFICES Grew(i, l, n) /\ (o.mode \notin {"J", "O", "A"} => Took(i, l, n))
    BY <2>1
  <2> HIDE DEF j
  <2>3. ASSUME Took(j, l, n) PROVE Grew(i, l, n) /\ Took(i, l, n)
    <3>1. n \in Int
      BY <1>1 DEF Bytes, SizedBytes
    <3> HIDE DEF l, n
    <3>2. Took(i, l, 0 + n)
      BY <1>2, <2>3, <3>1, TookMore
    <3>3. 0 + n = n
      BY <3>1
    <3> QED BY <3>2, <3>3, TookGrew
  <2>4. ASSUME Grew(j, l, n) PROVE Grew(i, l, n)
    <3>1. n \in Int
      BY <1>1 DEF Bytes, SizedBytes
    <3> HIDE DEF l, n
    <3>2. Grew(i, l, 0 + n)
      BY <1>2, <2>4, <3>1, TookGrew, GrewMore
    <3>3. 0 + n = n
      BY <3>1
    <3> QED BY <3>2, <3>3
  <2>5. CASE o.mode \in {"PR", "VR", "R"}
    <3>1. l = Operand_RegisterInRM(j, k)
      BY <1>3, <2>5 DEF Placed
    <3>2. Took(j, l, 0) /\ a = 0
      BY <1>3, <2>2, <3>1, TookInRM
    <3>3. n = a
      BY <2>5 DEF Bytes, ModRMModes
    <3> QED BY <2>3, <3>2, <3>3
  <2>6. CASE o.mode \in {"P", "V", "G", "S", "C", "D"}
    <3>1. l = Operand_RegisterInReg(j, k)
      BY <1>3, <2>6 DEF Placed
    <3>2. n = 0
      BY <2>6 DEF Bytes, ModRMModes
    <3> QED BY <1>3, <2>3, <2>6, <3>1, <3>2, TookInReg
  <2>7. CASE o.mode \in {"M", "E", "Q", "W"}
    <3>1. n = a /\ j.modrm # NoModRM /\ j.row.ops[k].mode # "G"
      BY <1>3, <2>7 DEF Bytes, ModRMModes
    <3>2. /\ o.mode = "M" => l = Operand_M(j, k, text)
          /\ o.mode = "E" => l = Operand_E(j, k, text)
          /\ o.mode \in {"Q", "W"} => l = Operand_QW(j, k, text)
      BY <1>3, <2>7 DEF Placed
    <3>3. o.mode = "M" => Took(j, l, a)
      BY <1>3, <2>2, <3>1, <3>2, TookM
    <3>4. o.mode = "E" => Took(j, l, a)
      BY <1>3, <2>2, <3>1, <3>2, TookE
    <3>5. o.mode \in {"Q", "W"} => Took(j, l, a)
      BY <1>3, <2>2, <3>1, <3>2, TookQW
    <3> QED BY <2>3, <2>7, <3>1, <3>3, <3>4, <3>5
  <2>8. CASE o.mode \in {"X", "Y", "xlat"}
    <3>1. n = 0 /\ j.row.ops[k].mode # "G"
      BY <1>3, <2>8 DEF Bytes, ModRMModes
    <3>2. /\ o.mode = "X" => l = Operand_X(j, k)
          /\ o.mode = "Y" => l = Operand_Y(j, k)
          /\ o.mode = "xlat" => l = Operand_xlat(j, k)
      BY <1>3, <2>8 DEF Placed
    <3> QED BY <1>3, <2>3, <2>8, <3>1, <3>2, TookXY, TookXlat
  <2>9. CASE o.mode = "I"
    <3>1. o.size \in {"b", "w", "z", "v"}
      BY <2>9 DEF KnownOp, RegisterOp, ModRMOp, LargeOp, StringOp, ImmediateOp, JumpOp, OffsetOp,
                  FarOp, Registers, ModRMModes
    <3>2. n = j.operands[k].length
      BY <1>2, <2>9, <3>1, LengthOf DEF Bytes, ModRMModes, SizedBytes
    <3>3. l = Operand_I(j, k)
      BY <1>3, <2>9 DEF Placed
    <3> QED BY <1>3, <2>3, <3>2, <3>3, TookI
  <2>10. CASE o.mode = "J"
    <3>1. o.size \in {"b", "z"}
      BY <2>10 DEF KnownOp, RegisterOp, ModRMOp, LargeOp, StringOp, ImmediateOp, JumpOp, OffsetOp,
                   FarOp, Registers, ModRMModes
    <3>2. n = j.operands[k].length
      BY <1>2, <2>10, <3>1, LengthOf DEF Bytes, ModRMModes, SizedBytes
    <3>3. l = Operand_J(j, k, text)
      BY <1>3, <2>10 DEF Placed
    <3>4. Grew(j, l, n)
      BY <1>3, <2>10, <3>2, <3>3, GrewJ
    <3> QED BY <2>4, <2>10, <3>4
  <2>11. CASE o.mode = "O"
    <3>1. n = j.AddressSize
      BY <1>4, <2>11 DEF Bytes, ModRMModes
    <3>2. l = Operand_O(j, k, text)
      BY <1>3, <2>11 DEF Placed
    <3>3. Grew(j, l, n)
      BY <1>3, <2>11, <3>1, <3>2, GrewO
    <3> QED BY <2>4, <2>11, <3>3
  <2>12. CASE o.mode = "A"
    <3>1. o.size = "p"
      BY <2>12 DEF KnownOp, RegisterOp, ModRMOp, LargeOp, StringOp, ImmediateOp, JumpOp, OffsetOp,
                   FarOp, Registers, ModRMModes
    <3>2. n = j.operands[k].length
      BY <1>2, <2>12, <3>1, LengthOf DEF Bytes, ModRMModes
    <3>3. l = Operand_A(j, k)
      BY <1>3, <2>12 DEF Placed
    <3>4. Grew(j, l, n)
      BY <1>3, <2>12, <3>2, <3>3, GrewA
    <3> QED BY <2>4, <2>12, <3>4
  <2>13. o.mode \in Registers \union ModRMModes
                    \union {"X", "Y", "xlat", "I", "J", "O", "A"}
    BY DEF KnownOp, RegisterOp, ModRMOp, LargeOp, StringOp, ImmediateOp, JumpOp, OffsetOp,
           FarOp, Registers, ModRMModes
  <2> QED BY <1>6, <2>5, <2>6, <2>7, <2>8, <2>9, <2>10, <2>11, <2>12, <2>13
          DEF Registers, ModRMModes
<1> QED BY <1>5, <1>6

-----------------------------------------------------------------------------
(* The bytes that a list of operands takes. *)

LEMMA NthAtLeast ==
  ASSUME NEW ops, Len(ops) \in 0..3, NEW k \in 1..3
  PROVE  /\ NthBytes(ops, k, 0, 0, 0) \in Nat /\ NthBytes(ops, k, 1, 0, 0) \in Nat
         /\ NthBytes(ops, k, 0, 0, 0) <= NthBytes(ops, k, 1, 0, 0)
         /\ k <= Len(ops) /\ ops[k].mode \in ModRMModes =>
              NthBytes(ops, k, 0, 0, 0) < NthBytes(ops, k, 1, 0, 0)
BY DEF NthBytes, Bytes, SizedBytes

LEMMA ImmediatesRange ==
  ASSUME NEW kind, NEW z \in Nat, NEW s \in Nat PROVE Immediates(kind, z, s) \in Nat
BY DEF Immediates

(* Without a ModRM byte no operand is in one. *)
LEMMA NoModRMOps ==
  ASSUME NEW ops, NEW m, ~m, NEW kind, OpsFit(ops, m, kind)
  PROVE  \A k \in 1..Len(ops) : ops[k].mode \notin ModRMModes
<1> SUFFICES ASSUME NEW k \in 1..Len(ops), ops[k].mode \in ModRMModes PROVE FALSE
  OBVIOUS
<1> DEFINE n(j, a) == NthBytes(ops, j, a, 0, 0)
           x == Immediates(kind, 0, 0)
<1>1. Len(ops) \in 0..3
  BY DEF OpsFit
<1>2. x \in Nat
  BY ImmediatesRange
<1>3. \A a \in Nat : AllBytes(ops, a, 0, 0) = 0 + x
  BY DEF OpsFit
<1>4. \A j \in 1..3 : /\ n(j, 0) \in Nat /\ n(j, 1) \in Nat /\ n(j, 0) <= n(j, 1)
                      /\ j <= Len(ops) /\ ops[j].mode \in ModRMModes => n(j, 0) < n(j, 1)
  BY <1>1, NthAtLeast
<1>5. /\ AllBytes(ops, 0, 0, 0) = n(1, 0) + n(2, 0) + n(3, 0)
      /\ AllBytes(ops, 1, 0, 0) = n(1, 1) + n(2, 1) + n(3, 1)
  BY DEF AllBytes
<1> HIDE DEF n, x
<1>6. k \in 1..3 /\ n(k, 0) < n(k, 1)
  BY <1>1, <1>4
<1>7. n(1, 0) + n(2, 0) + n(3, 0) = n(1, 1) + n(2, 1) + n(3, 1)
  BY <1>2, <1>3, <1>5
<1>8. /\ n(1, 0) \in Nat /\ n(1, 1) \in Nat /\ n(1, 0) <= n(1, 1)
      /\ n(2, 0) \in Nat /\ n(2, 1) \in Nat /\ n(2, 0) <= n(2, 1)
      /\ n(3, 0) \in Nat /\ n(3, 1) \in Nat /\ n(3, 0) <= n(3, 1)
  BY <1>4
<1>9. k = 1 \/ k = 2 \/ k = 3
  BY <1>6
<1> QED BY <1>6, <1>7, <1>8, <1>9

(* Where there is no operand there is nothing to read. *)
LEMMA NothingToRead ==
  ASSUME NEW ops, ops = <<>>, NEW m \in BOOLEAN, NEW kind, OpsFit(ops, m, kind)
  PROVE  ~m /\ \A z, s \in Nat : Immediates(kind, z, s) = 0
<1>1. Len(ops) = 0
  OBVIOUS
<1>2. \A a, z, s : AllBytes(ops, a, z, s) = 0
  BY <1>1 DEF AllBytes, NthBytes
<1>3. \A a, z, s \in Nat : 0 = (IF m THEN a ELSE 0) + Immediates(kind, z, s)
  BY <1>2 DEF OpsFit
<1>4. \A z, s \in Nat : Immediates(kind, z, s) \in Nat
  BY ImmediatesRange
<1>5. ~m
  <2>1. Immediates(kind, 0, 0) \in Nat /\ 0 = (IF m THEN 1 ELSE 0) + Immediates(kind, 0, 0)
    BY <1>3, <1>4
  <2> QED BY <2>1
<1>6. ASSUME NEW z \in Nat, NEW s \in Nat PROVE Immediates(kind, z, s) = 0
  <2>1. Immediates(kind, z, s) \in Nat /\ 0 = (IF m THEN 0 ELSE 0) + Immediates(kind, z, s)
    BY <1>3, <1>4
  <2> QED BY <1>5, <2>1
<1> QED BY <1>5, <1>6

(* From i the decoder has reached j, where it sets operand k, and t bytes  *)
(* were read.                                                              *)
NoJump(ops, k) == \A n \in 1..Len(ops) : n < k => ops[n].mode \notin {"J", "O", "A"}
OnlyRegisters(ops, k) == \A n \in 1..Len(ops) : n < k => ops[n].mode \in Registers
Reached(i, j, k, t) ==
  /\ Follows(i, j) /\ j.length = i.length + t
  /\ NoJump(i.row.ops, k) => j.OperandSize = i.OperandSize /\ j.AddressSize = i.AddressSize
  /\ OnlyRegisters(i.row.ops, k) => j.next = i.next

LEMMA NextOperand ==
  ASSUME NEW text \in Seq(Byte), NEW i, Typed(i), NEW m \in BOOLEAN, NEW kind,
         OpsFit(i.row.ops, m, kind), m => i.modrm # NoModRM,
         NEW a \in Nat, i.modrm # NoModRM => a = Rest(i, text),
         NEW j, NEW k \in 1..3, NEW t \in Nat, Reached(i, j, k, t),
         NEW l, l = IF Running(j) /\ k <= Len(i.row.ops) THEN SetOperand(j, k, text) ELSE j,
         Running(l)
  PROVE  /\ Running(j)
         /\ Reached(i, l, k + 1, t + NthBytes(i.row.ops, k, a, i.OperandSize, i.AddressSize))
<1> DEFINE ops == i.row.ops
           o == ops[k]
           z == i.OperandSize
           s == i.AddressSize
           x == Bytes(o, a, z, s)
           y == Bytes(o, Rest(j, text), j.OperandSize, j.AddressSize)
<1>1. Running(j)
  OBVIOUS
<1>2. /\ Follows(i, j) /\ Typed(j) /\ j.row = i.row /\ j.modrm = i.modrm
      /\ j.length = i.length + t /\ i.length \in Int
  BY DEF Reached, Follows, Typed
<1>3. NoJump(ops, k + 1) => NoJump(ops, k)
  BY DEF NoJump
<1>4. OnlyRegisters(ops, k + 1) => OnlyRegisters(ops, k)
  BY DEF OnlyRegisters
<1>5. CASE k > Len(ops)
  <2>1. Len(ops) \in 0..3
    BY DEF OpsFit
  <2>2. l = j /\ NthBytes(ops, k, a, z, s) = 0
    BY <1>5, <2>1 DEF NthBytes
  <2> QED BY <1>1, <1>2, <1>3, <1>4, <2>2 DEF Reached
<1>6. CASE k <= Len(ops)
  <2>1. l = SetOperand(j, k, text) /\ k \in 1..Len(ops) /\ Len(ops) \in 0..3
    BY <1>1, <1>6 DEF OpsFit
  <2>2. KnownOp(o)
    BY <2>1 DEF OpsFit
  <2>3. o.mode \in ModRMModes => j.modrm # NoModRM /\ a = Rest(i, text)
    BY <1>2, <2>1, NoModRMOps
  <2>4. /\ Grew(j, l, y)
        /\ o.mode \notin {"J", "O", "A"} => Took(j, l, y)
    <3>1. o = j.row.ops[k]
      BY <1>2
    <3> HIDE DEF o
    <3> QED BY <1>2, <2>1, <2>2, <2>3, <3>1, OperandTakes
  <2>5. x = y
    <3>1. CASE o.mode \in Registers
      BY <3>1 DEF Bytes, Registers, ModRMModes
    <3>2. CASE o.mode \notin Registers
      <4>1. NoJump(ops, k)
        <5> SUFFICES ASSUME NEW n \in 1..Len(ops), n < k, ops[n].mode \in {"J", "O", "A"}
                     PROVE  FALSE
          BY DEF NoJump
        <5>1. o.mode = "fixed"
          BY <2>1 DEF OpsFit
        <5> QED BY <3>2, <5>1 DEF Registers
      <4>2. j.OperandSize = z /\ j.AddressSize = s
        BY <4>1 DEF Reached
      <4>3. CASE o.mode \in ModRMModes
        <5>1. OnlyRegisters(ops, k)
          <6> SUFFICES ASSUME NEW n \in 1..Len(ops), n < k PROVE ops[n].mode \in Registers
            BY DEF OnlyRegisters
          <6> QED BY <2>1, <4>3 DEF OpsFit
        <5>2. j.next = i.next
          BY <5>1 DEF Reached
        <5>3. mod(j) = mod(i) /\ rm(j) = rm(i)
          BY <1>2 DEF mod, rm
        <5>4. Rest(j, text) = Rest(i, text)
          BY <4>2, <5>2, <5>3 DEF Rest, SIBBytes, Absolute
        <5> QED BY <2>3, <4>2, <4>3, <5>4
      <4>4. CASE o.mode \notin ModRMModes
        BY <4>2, <4>4 DEF Bytes
      <4> QED BY <4>3, <4>4
    <3> QED BY <3>1, <3>2
  <2>6. NthBytes(ops, k, a, z, s) = x /\ x \in Nat
    <3>1. z \in Nat /\ s \in Nat
      BY DEF Typed
    <3> QED BY <1>6, <3>1 DEF NthBytes, Bytes, SizedBytes
  <2> HIDE DEF x, y
  <2>7. Follows(i, l) /\ l.length = i.length + (t + x)
    <3>1. Follows(j, l) /\ l.length = j.length + x
      BY <2>4, <2>5 DEF Grew
    <3>2. Follows(i, l)
      BY <1>2, <3>1, Further
    <3> QED BY <1>2, <2>6, <3>1, <3>2
  <2>8. NoJump(ops, k + 1) => l.OperandSize = z /\ l.AddressSize = s
    <3> SUFFICES ASSUME NoJump(ops, k + 1) PROVE l.OperandSize = z /\ l.AddressSize = s
      OBVIOUS
    <3>1. o.mode \notin {"J", "O", "A"}
      BY <2>1 DEF NoJump
    <3>2. j.OperandSize = z /\ j.AddressSize = s
      BY <1>3 DEF Reached
    <3> QED BY <2>4, <3>1, <3>2 DEF Took
  <2>9. OnlyRegisters(ops, k + 1) => l.next = i.next
    <3> SUFFICES ASSUME OnlyRegisters(ops, k + 1) PROVE l.next = i.next
      OBVIOUS
    <3>1. o.mode \in Registers
      BY <2>1 DEF OnlyRegisters
    <3>2. x = 0
      BY <3>1 DEF x, Bytes, Registers, ModRMModes
    <3>3. j.next = i.next /\ j.next \in Int
      BY <1>2, <1>4 DEF Reached, Typed
    <3> QED BY <2>4, <2>5, <3>2, <3>3 DEF Grew
  <2> QED BY <1>1, <2>6, <2>7, <2>8, <2>9 DEF Reached
<1> QED BY <1>5, <1>6, <1>2 DEF OpsFit

LEMMA OperandsTake ==
  ASSUME NEW text \in Seq(Byte), NEW i, Typed(i), NEW m \in BOOLEAN, NEW kind,
         OpsFit(i.row.ops, m, kind), m => i.modrm # NoModRM,
         i.modrm # NoModRM /\ ~m => mod(i) = 3, Running(SetOperands(i, text))
  PROVE  SetOperands(i, text).length =
           i.length + (IF i.modrm = NoModRM THEN 0 ELSE 1 + Rest(INSTR_INC(i, 1), text))
             + Immediates(kind, i.OperandSize, i.AddressSize)
<1> DEFINE start == IF i.modrm = NoModRM THEN i ELSE INSTR_INC(i, 1)
           ops == i.row.ops
           z == i.OperandSize
           s == i.AddressSize
           Nth(j, k) == IF Running(j) /\ k <= Len(ops) THEN SetOperand(j, k, text) ELSE j
           x1 == Nth(start, 1)
           x2 == Nth(x1, 2)
           x3 == Nth(x2, 3)
           b == IF i.modrm = NoModRM THEN 0 ELSE 1
           a == IF i.modrm = NoModRM THEN 0 ELSE Rest(start, text)
           n(k) == NthBytes(ops, k, a, z, s)
<1>1. SetOperands(i, text) = x3
  BY DEF SetOperands
<1>2. Took(i, start, b)
  BY TookInc, TookNothing
<1>3. Typed(start) /\ start.row = i.row /\ start.modrm = i.modrm
  BY <1>2, TookTyped
<1>4. start.OperandSize = z /\ start.AddressSize = s /\ start.length = i.length + b
  BY <1>2 DEF Took
<1>5. z \in Nat /\ s \in Nat /\ a \in Nat /\ i.length \in Int /\ b \in Nat
  <2>1. Rest(start, text) \in Nat
    BY <1>3, RestRange
  <2>2. z \in Nat /\ s \in Nat /\ i.length \in Int
    BY DEF Typed
  <2> QED BY <2>1, <2>2
<1>6. i.modrm # NoModRM => Rest(start, text) = Rest(INSTR_INC(i, 1), text)
  OBVIOUS
<1>7. ~m => a = 0
  <2>1. mod(start) = mod(i)
    BY <1>3 DEF mod
  <2> QED BY <2>1 DEF Rest
<1>8. i.modrm # NoModRM => a = Rest(start, text)
  OBVIOUS
<1>9. a + b = IF i.modrm = NoModRM THEN 0 ELSE 1 + Rest(INSTR_INC(i, 1), text)
  BY <1>5, <1>6
<1>10. Running(x3)
  BY <1>1
<1> HIDE DEF start, a, b, Nth
<1>11. \A k \in 1..3 : n(k) \in Nat
  BY <1>5 DEF NthBytes, Bytes, SizedBytes
<1>12. Reached(start, start, 1, 0)
  <2>1. Follows(start, start) /\ start.length \in Int
    BY <1>3, Same DEF Typed
  <2> QED BY <2>1 DEF Reached
<1>13. ASSUME NEW j, NEW k \in 1..3, NEW t \in Nat, Reached(start, j, k, t), Running(Nth(j, k))
       PROVE  Running(j) /\ Reached(start, Nth(j, k), k + 1, t + n(k))
  <2>1. Nth(j, k) = IF Running(j) /\ k <= Len(start.row.ops) THEN SetOperand(j, k, text) ELSE j
    BY <1>3 DEF Nth
  <2>2. OpsFit(start.row.ops, m, kind)
    BY <1>3
  <2> DEFINE l == Nth(j, k)
  <2> HIDE DEF l
  <2>3. l = IF Running(j) /\ k <= Len(start.row.ops) THEN SetOperand(j, k, text) ELSE j
    BY <2>1 DEF l
  <2>4. Running(l)
    BY <1>13 DEF l
  <2>5. Running(j) /\ Reached(start, l, k + 1,
                        t + NthBytes(start.row.ops, k, a, start.OperandSize, start.AddressSize))
    BY <1>3, <1>5, <1>8, <1>13, <2>2, <2>3, <2>4, NextOperand
  <2> QED BY <1>3, <1>4, <2>5 DEF l
<1>14. Running(x1) /\ Running(x2)
  BY <1>10 DEF Nth
<1>15. Reached(start, x1, 2, 0 + n(1))
  BY <1>12, <1>13, <1>14
<1> HIDE DEF x1, n
<1>16. Reached(start, x2, 3, 0 + n(1) + n(2))
  <2>1. 0 + n(1) \in Nat /\ x2 = Nth(x1, 2)
    BY <1>11
  <2> HIDE DEF x2
  <2>2. Reached(start, Nth(x1, 2), 2 + 1, 0 + n(1) + n(2))
    BY <1>13, <1>14, <1>15, <2>1
  <2> QED BY <2>1, <2>2
<1> HIDE DEF x2
<1>17. Reached(start, x3, 4, 0 + n(1) + n(2) + n(3))
  <2>1. 0 + n(1) + n(2) \in Nat /\ x3 = Nth(x2, 3)
    BY <1>11
  <2> HIDE DEF x3
  <2>2. Reached(start, Nth(x2, 3), 3 + 1, 0 + n(1) + n(2) + n(3))
    BY <1>10, <1>13, <1>16, <2>1
  <2> QED BY <2>1, <2>2
<1> HIDE DEF x3
<1>18. n(1) + n(2) + n(3) = (IF m THEN a ELSE 0) + Immediates(kind, z, s)
  <2>1. AllBytes(ops, a, z, s) = n(1) + n(2) + n(3)
    BY DEF AllBytes, n
  <2>2. AllBytes(ops, a, z, s) = (IF m THEN a ELSE 0) + Immediates(kind, z, s)
    BY <1>5 DEF OpsFit
  <2> QED BY <2>1, <2>2
<1>19. Immediates(kind, z, s) \in Nat
  BY <1>5, ImmediatesRange
<1>20. (IF m THEN a ELSE 0) = a
  BY <1>5, <1>7
<1>21. x3.length = i.length + b + (0 + n(1) + n(2) + n(3))
  BY <1>4, <1>17 DEF Reached
<1>22. n(1) \in Nat /\ n(2) \in Nat /\ n(3) \in Nat
  BY <1>11
<1>23. x3.length = i.length + (a + b) + Immediates(kind, z, s)
  BY <1>5, <1>18, <1>19, <1>20, <1>21, <1>22
<1> QED BY <1>1, <1>9, <1>23

-----------------------------------------------------------------------------
(* The length that the encoding says. *)

LEMMA AddressingTaken ==
  ASSUME NEW text \in Seq(Byte), NEW at \in Nat, NEW i, Typed(i), i.modrm # NoModRM,
         i.modrm = At(text, ModRMAt(text, at)), i.next = ModRMAt(text, at) + 1,
         i.AddressSize = AddressSizeAt(text, at)
  PROVE  AddressingLength(text, at) = 1 + Rest(i, text)
<1> DEFINE modField == ModField(text, at)
           rmField == At(text, ModRMAt(text, at)) % 8
           base == At(text, ModRMAt(text, at) + 1) % 8
           short == HasPrefix(text, at, \h67)
           sib == IF ~short /\ rmField = 4 THEN 1 ELSE 0
           absolute == IF short THEN rmField = 6 ELSE rmField = 5 \/ (sib = 1 /\ base = 5)
           word == IF short THEN 2 ELSE 4
<1>1. AddressingLength(text, at) = CASE modField = 3 -> 1
                                     [] modField = 2 -> 1 + sib + word
                                     [] modField = 1 -> 1 + sib + 1
                                     [] modField = 0 -> 1 + sib + (IF absolute THEN word ELSE 0)
  BY DEF AddressingLength
<1>2. mod(i) = modField /\ rm(i) = rmField /\ modField \in 0..3 /\ rmField \in 0..7
  BY Fields_ModRM DEF mod, rm, ModField
<1>3. i.AddressSize = word /\ At(text, i.next) % 8 = base
  BY DEF AddressSizeAt
<1>4. SIBBytes(i) = sib /\ (Absolute(i, text) <=> absolute)
  BY <1>2, <1>3 DEF SIBBytes, Absolute
<1>5. Rest(i, text) = IF modField = 3 THEN 0
        ELSE sib + (IF modField = 2 THEN word ELSE IF modField = 1 THEN 1
                    ELSE IF absolute THEN word ELSE 0)
  BY <1>2, <1>3, <1>4 DEF Rest
<1>6. sib \in Nat /\ word \in Nat
  OBVIOUS
<1> HIDE DEF modField, rmField, base, short, sib, absolute, word
<1> QED BY <1>1, <1>2, <1>5, <1>6

(* The checks of the prefixes read nothing. *)
LEMMA ChecksTake ==
  ASSUME NEW i, Typed(i)
  PROVE  /\ Took(i, Check_Segment(i), 0) /\ Took(i, Check_Prefixes(i), 0)
         /\ Took(i, Check_Repeat(i), 0)
<1>1. Took(i, Check_Segment(i), 0)
  <2>1. Follows(i, Check_Segment(i))
    BY SegmentChecks
  <2> QED BY <2>1 DEF Took, Check_Segment, SANITY_CHECK_SEGMENT_OVERRIDE, AnomalyIf, Typed, Fields
<1>2. Took(i, Check_Prefixes(i), 0)
  <2> DEFINE
     fpu == i.row.type \in FPU_Types
     IsSize(k) == i.prefixes[k] = PREFIX_OPERAND_SIZE /\ i.row.type \in SIMD_Types \union {"FPU"}
     IsRepeat(k) == i.prefixes[k] \in {PREFIX_REP, PREFIX_REPNE}
     Refused(k) == (IsSize(k) /\ ~i.anomaly) \/ (IsRepeat(k) /\ ~fpu)
     Unmatched(k) == IsRepeat(k) /\ fpu /\ i.repeat = "none"
     Before(k) == \A n \in 1..(k - 1) : ~Refused(n) /\ ~Unmatched(n)
     listed == DOMAIN i.prefixes
     refuse == \E k \in listed : Before(k) /\ Refused(k)
     match == \A k \in listed : Before(k) => ~Unmatched(k)
     j == AbortIf(i, refuse)
     l == Assert_(j, 1683, match)
     size == l.opSize /\ ~\E k \in listed : IsSize(k)
     e == [l EXCEPT !.opSize = size]
  <2>1. Check_Prefixes(i) \in {i, e}
    BY DEF Check_Prefixes
  <2> HIDE DEF refuse, match
  <2>2. Took(i, j, 0) /\ Typed(j)
    BY Noting, TookTyped
  <2> HIDE DEF j
  <2>3. Took(j, l, 0) /\ Typed(l)
    BY <2>2, Noting, TookTyped
  <2>4. Took(i, l, 0 + 0)
    BY <2>2, <2>3, TookMore
  <2> HIDE DEF l, size
  <2>5. Follows(l, e)
    BY <2>3 DEF Follows, Typed, Fields
  <2>6. Took(l, e, 0)
    BY <2>3, <2>5 DEF Took, Typed, Fields
  <2> HIDE DEF e
  <2>7. Took(i, e, 0 + 0 + 0)
    BY <2>4, <2>6, TookMore
  <2> QED BY <2>1, <2>7, TookNothing
<1>3. Took(i, Check_Repeat(i), 0)
  <2>1. Follows(i, Check_Repeat(i))
    BY RepeatChecks
  <2> QED BY <2>1 DEF Took, Check_Repeat, AnomalyIf, Typed, Fields
<1> QED BY <1>1, <1>2, <1>3

(* Nor do the checks of what the prefixes were used for. *)
LEMMA UnusedTake ==
  ASSUME NEW i, Typed(i)
  PROVE  Branch_Hints(Unusual_Segment(Unused_Prefixes(i))).length = i.length
<1> DEFINE a == Unused_Prefixes(i)
           b == Unusual_Segment(a)
           c == Branch_Hints(b)
<1>1. \A j : Typed(j) =>
        /\ Typed(Unused_Prefixes(j)) /\ Unused_Prefixes(j).length = j.length
        /\ Typed(Unusual_Segment(j)) /\ Unusual_Segment(j).length = j.length
        /\ Branch_Hints(j).length = j.length
  BY DEF Unused_Prefixes, Unusual_Segment, Branch_Hints, AnomalyIf, Typed, Fields
<1>2. Typed(a) /\ a.length = i.length
  BY <1>1
<1> HIDE DEF a
<1>3. Typed(b) /\ b.length = i.length
  BY <1>1, <1>2
<1> HIDE DEF b
<1>4. c.length = i.length
  BY <1>1, <1>3
<1> QED BY <1>4 DEF a, b

-----------------------------------------------------------------------------
(* The sizes that the prefixes set. *)

BytesRead(text, at, n, b) == \E k \in 0..(n - 1) : At(text, at + k) = b
SizesRead(text, at, i) ==
  /\ i.opSize <=> BytesRead(text, at, i.length, \h66)
  /\ i.adSize <=> BytesRead(text, at, i.length, \h67)
  /\ i.OperandSize = IF i.opSize THEN 2 ELSE 4
  /\ i.AddressSize = IF i.adSize THEN 2 ELSE 4

SameOperandSize(i, j) == (j.opSize <=> i.opSize) /\ j.OperandSize = i.OperandSize
SameAddressSize(i, j) == (j.adSize <=> i.adSize) /\ j.AddressSize = i.AddressSize
SameSizes(i, j) == SameOperandSize(i, j) /\ SameAddressSize(i, j)

LEMMA SameOn ==
  ASSUME NEW i, NEW j, NEW l
  PROVE  SameSizes(i, j) /\ SameSizes(j, l) => SameSizes(i, l)
BY DEF SameSizes, SameOperandSize, SameAddressSize

LEMMA NotingSizes ==
  ASSUME NEW i, Typed(i), NEW c, NEW line
  PROVE  /\ SameSizes(i, AnomalyIf(i, c)) /\ SameSizes(i, AbortIf(i, c))
         /\ SameSizes(i, Fail(i, line)) /\ SameSizes(i, Assert_(i, line, c))
         /\ SameSizes(i, Abort(i))
<1>1. SameSizes(i, AnomalyIf(i, c))
  BY DEF SameSizes, SameOperandSize, SameAddressSize, AnomalyIf, Typed, Fields
<1>2. SameSizes(i, AbortIf(i, c))
  BY DEF SameSizes, SameOperandSize, SameAddressSize, AbortIf, Typed, Fields
<1>3. SameSizes(i, Fail(i, line))
  BY DEF SameSizes, SameOperandSize, SameAddressSize, Fail, Typed, Fields
<1>4. SameSizes(i, Abort(i))
  BY DEF SameSizes, SameOperandSize, SameAddressSize, Abort, Typed, Fields
<1>5. SameSizes(i, i)
  BY DEF SameSizes, SameOperandSize, SameAddressSize
<1> QED BY <1>1, <1>2, <1>3, <1>4, <1>5 DEF Assert_

LEMMA EffectSizes ==
  ASSUME NEW i, Typed(i), NEW prefix \in PrefixBytes
  PROVE  /\ prefix # \h66 => SameOperandSize(i, Prefix_Effect(i, prefix))
         /\ prefix # \h67 => SameAddressSize(i, Prefix_Effect(i, prefix))
         /\ prefix = \h66 /\ i.opSize => SameOperandSize(i, Prefix_Effect(i, prefix))
         /\ prefix = \h67 /\ i.adSize => SameAddressSize(i, Prefix_Effect(i, prefix))
         /\ prefix = \h66 /\ ~i.opSize =>
              /\ Prefix_Effect(i, prefix).opSize
              /\ Prefix_Effect(i, prefix).OperandSize = OtherSize(i.OperandSize)
         /\ prefix = \h67 /\ ~i.adSize =>
              /\ Prefix_Effect(i, prefix).adSize
              /\ Prefix_Effect(i, prefix).AddressSize = OtherSize(i.AddressSize)
<1>1. ASSUME NEW this, NEW other PROVE SameSizes(i, Repeat_Prefix(i, prefix, this, other))
  BY DEF Repeat_Prefix, AnomalyIf, SameSizes, SameOperandSize, SameAddressSize, Typed, Fields
<1>2. /\ SameAddressSize(i, OperandSize_Prefix(i))
      /\ i.opSize => SameOperandSize(i, OperandSize_Prefix(i))
      /\ ~i.opSize => /\ OperandSize_Prefix(i).opSize
                      /\ OperandSize_Prefix(i).OperandSize = OtherSize(i.OperandSize)
  BY DEF OperandSize_Prefix, AnomalyIf, SameOperandSize, SameAddressSize, Typed, Fields
<1>3. /\ SameOperandSize(i, AddressSize_Prefix(i))
      /\ i.adSize => SameAddressSize(i, AddressSize_Prefix(i))
      /\ ~i.adSize => /\ AddressSize_Prefix(i).adSize
                      /\ AddressSize_Prefix(i).AddressSize = OtherSize(i.AddressSize)
  BY DEF AddressSize_Prefix, AnomalyIf, SameOperandSize, SameAddressSize, Typed, Fields
<1>4. ASSUME NEW segment
      PROVE  SameSizes(i, [SANITY_CHECK_SEGMENT_OVERRIDE(i) EXCEPT !.override = TRUE,
                                                                   !.segment = segment])
  BY DEF SANITY_CHECK_SEGMENT_OVERRIDE, AnomalyIf, SameSizes, SameOperandSize, SameAddressSize,
         Typed, Fields
<1>5. SameSizes(i, [AnomalyIf(i, i.lock) EXCEPT !.lock = TRUE])
  BY DEF AnomalyIf, SameSizes, SameOperandSize, SameAddressSize, Typed, Fields
<1> DEFINE seg == SegmentOf[prefix]
           rne == Repeat_Prefix(i, prefix, "repne", "rep")
           rep == Repeat_Prefix(i, prefix, "rep", "repne")
           ops == OperandSize_Prefix(i)
           ads == AddressSize_Prefix(i)
           ovr == [SANITY_CHECK_SEGMENT_OVERRIDE(i) EXCEPT !.override = TRUE, !.segment = seg]
           lck == [AnomalyIf(i, i.lock) EXCEPT !.lock = TRUE]
<1>6. DOMAIN SegmentOf = {\h26, \h2E, \h36, \h3E, \h64, \h65}
  BY DEF SegmentOf
<1>7. /\ prefix \in {\h26, \h2E, \h36, \h3E, \h64, \h65} => Prefix_Effect(i, prefix) = ovr
      /\ prefix = \hF2 => Prefix_Effect(i, prefix) = rne
      /\ prefix = \hF3 => Prefix_Effect(i, prefix) = rep
      /\ prefix = \h66 => Prefix_Effect(i, prefix) = ops
      /\ prefix = \h67 => Prefix_Effect(i, prefix) = ads
      /\ prefix = \hF0 => Prefix_Effect(i, prefix) = lck
  BY <1>6 DEF Prefix_Effect, PREFIX_REPNE, PREFIX_REP, PREFIX_OPERAND_SIZE,
              PREFIX_ADDRESS_SIZE, PREFIX_LOCK
<1>8. SameSizes(i, ovr) /\ SameSizes(i, rne) /\ SameSizes(i, rep) /\ SameSizes(i, lck)
  BY <1>1, <1>4, <1>5
<1> HIDE DEF seg, rne, rep, ovr, lck
<1>9. prefix \in {\h26, \h2E, \h36, \h3E, \h64, \h65, \h66, \h67, \hF0, \hF2, \hF3}
  BY DEF PrefixBytes
<1> QED BY <1>2, <1>3, <1>7, <1>8, <1>9 DEF SameSizes

LEMMA AddedSizes ==
  ASSUME NEW i, Typed(i), NEW prefix
  PROVE  SameSizes(i, Prefix_Add(i, prefix))
<1> DEFINE count == Len(i.prefixes)
           c == count = X86_MAX_PREFIX_LENGTH
           j == AnomalyIf(i, c)
           few == j.anomaly \/ count < X86_MAX_PREFIX_LENGTH
           l == Assert_(j, 1195, few)
           m == [l EXCEPT !.prefixes = Append(@, prefix)]
<1>1. Prefix_Add(i, prefix) \in {Abort(i), m}
  BY DEF Prefix_Add
<1> HIDE DEF c
<1>2. SameSizes(i, j) /\ Took(i, j, 0)
  BY NotingSizes, Noting
<1>3. Typed(j)
  BY <1>2, TookTyped
<1> HIDE DEF j, few
<1>4. SameSizes(j, l) /\ Took(j, l, 0)
  BY <1>3, NotingSizes, Noting
<1>5. Typed(l)
  BY <1>4, TookTyped
<1> HIDE DEF l
<1>6. SameSizes(l, m)
  BY <1>5 DEF SameSizes, SameOperandSize, SameAddressSize, Typed, Fields
<1> HIDE DEF m
<1>7. SameSizes(i, m)
  BY <1>2, <1>4, <1>6, SameOn
<1> QED BY <1>1, <1>7, NotingSizes

LEMMA ReadOn ==
  ASSUME NEW text, NEW at, NEW n \in Nat, NEW b
  PROVE  BytesRead(text, at, n + 1, b) <=> BytesRead(text, at, n, b) \/ At(text, at + n) = b
<1>1. \A k : k \in 0..(n + 1 - 1) <=> k \in 0..(n - 1) \/ k = n
  OBVIOUS
<1> QED BY <1>1 DEF BytesRead

LEMMA PrefixSizesRead ==
  ASSUME DecodeInv, Prefix, SizesRead(code, dwRet, ins)
  PROVE  SizesRead(code, dwRet, ins')
<1>1. pc = "opcode" /\ Typed(ins) /\ ins.length \in Nat /\ ins.next = dwRet + ins.length
  BY DEF Prefix, DecodeInv, PrefixInv
<1>2. Opcode \in PrefixBytes /\ ins'.length = ins.length + 1
  BY PrefixRead
<1>3. Opcode = At(code, dwRet + ins.length)
  BY <1>1 DEF Opcode
<1> DEFINE read == INSTR_INC(ins, 1)
           listed == Listed(ins, Opcode)
           noted == AnomalyIf(read, listed)
           felt == Prefix_Effect(noted, Opcode)
           i == Prefix_Add(felt, Opcode)
<1>4. ins' = i
  BY DEF Prefix, Continue
<1> HIDE DEF listed
<1>5. Typed(read) /\ SameSizes(ins, read)
  <2>1. Follows(ins, read)
    BY <1>1, Inc
  <2>2. SameSizes(ins, read)
    BY <1>1 DEF INSTR_INC, SameSizes, SameOperandSize, SameAddressSize, Typed, Fields
  <2> QED BY <2>1, <2>2, Known
<1> HIDE DEF read
<1>6. Typed(noted) /\ SameSizes(ins, noted)
  <2>1. SameSizes(read, noted)
    BY <1>5, NotingSizes
  <2>2. Took(read, noted, 0)
    BY <1>5, Noting
  <2> QED BY <1>5, <2>1, <2>2, SameOn, TookTyped
<1> HIDE DEF noted
<1>7. Typed(felt)
  BY <1>6, PrefixEffect DEF Stays
<1>8. /\ Opcode # \h66 => SameOperandSize(noted, felt)
      /\ Opcode # \h67 => SameAddressSize(noted, felt)
      /\ Opcode = \h66 /\ noted.opSize => SameOperandSize(noted, felt)
      /\ Opcode = \h67 /\ noted.adSize => SameAddressSize(noted, felt)
      /\ Opcode = \h66 /\ ~noted.opSize =>
           felt.opSize /\ felt.OperandSize = OtherSize(noted.OperandSize)
      /\ Opcode = \h67 /\ ~noted.adSize =>
           felt.adSize /\ felt.AddressSize = OtherSize(noted.AddressSize)
  BY <1>2, <1>6, EffectSizes
<1> HIDE DEF felt
<1>9. SameSizes(felt, i)
  BY <1>7, AddedSizes
<1> HIDE DEF i
<1>10. /\ BytesRead(code, dwRet, i.length, \h66) <=>
            BytesRead(code, dwRet, ins.length, \h66) \/ Opcode = \h66
       /\ BytesRead(code, dwRet, i.length, \h67) <=>
            BytesRead(code, dwRet, ins.length, \h67) \/ Opcode = \h67
  <2>1. i.length = ins.length + 1
    BY <1>2, <1>4
  <2>2. ASSUME NEW b
        PROVE  BytesRead(code, dwRet, ins.length + 1, b) <=>
                 BytesRead(code, dwRet, ins.length, b) \/ At(code, dwRet + ins.length) = b
    BY <1>1, ReadOn
  <2> QED BY <1>3, <2>1, <2>2
<1>11. /\ i.opSize <=> BytesRead(code, dwRet, i.length, \h66)
       /\ i.OperandSize = IF i.opSize THEN 2 ELSE 4
  <2>1. /\ ins.opSize <=> BytesRead(code, dwRet, ins.length, \h66)
        /\ ins.OperandSize = IF ins.opSize THEN 2 ELSE 4
    BY DEF SizesRead
  <2>2. /\ noted.opSize <=> ins.opSize
        /\ noted.OperandSize = ins.OperandSize /\ (i.opSize <=> felt.opSize)
        /\ i.OperandSize = felt.OperandSize
    BY <1>6, <1>9 DEF SameSizes, SameOperandSize
  <2>3. CASE Opcode = \h66 /\ ~noted.opSize
    BY <1>8, <1>10, <2>1, <2>2, <2>3 DEF OtherSize
  <2>4. CASE ~(Opcode = \h66 /\ ~noted.opSize)
    <3>1. (felt.opSize <=> noted.opSize) /\ felt.OperandSize = noted.OperandSize
      BY <1>8, <2>4 DEF SameOperandSize
    <3> QED BY <1>10, <2>1, <2>2, <2>4, <3>1
  <2> QED BY <2>3, <2>4
<1>12. /\ i.adSize <=> BytesRead(code, dwRet, i.length, \h67)
       /\ i.AddressSize = IF i.adSize THEN 2 ELSE 4
  <2>1. /\ ins.adSize <=> BytesRead(code, dwRet, ins.length, \h67)
        /\ ins.AddressSize = IF ins.adSize THEN 2 ELSE 4
    BY DEF SizesRead
  <2>2. /\ noted.adSize <=> ins.adSize
        /\ noted.AddressSize = ins.AddressSize /\ (i.adSize <=> felt.adSize)
        /\ i.AddressSize = felt.AddressSize
    BY <1>6, <1>9 DEF SameSizes, SameAddressSize
  <2>3. CASE Opcode = \h67 /\ ~noted.adSize
    BY <1>8, <1>10, <2>1, <2>2, <2>3 DEF OtherSize
  <2>4. CASE ~(Opcode = \h67 /\ ~noted.adSize)
    <3>1. (felt.adSize <=> noted.adSize) /\ felt.AddressSize = noted.AddressSize
      BY <1>8, <2>4 DEF SameAddressSize
    <3> QED BY <1>10, <2>1, <2>2, <2>4, <3>1
  <2> QED BY <2>3, <2>4
<1> QED BY <1>4, <1>11, <1>12 DEF SizesRead

(* The prefix that may be part of the opcode. *)
KnownSSE(i) == i.ssePrefix \in {0, \h66, \hF2, \hF3}

LEMMA EffectSSE ==
  ASSUME NEW i, Typed(i), KnownSSE(i), NEW prefix \in PrefixBytes
  PROVE  KnownSSE(Prefix_Effect(i, prefix))
<1>1. ASSUME NEW this, NEW other, prefix \in {\hF2, \hF3}
      PROVE  KnownSSE(Repeat_Prefix(i, prefix, this, other))
  BY <1>1 DEF Repeat_Prefix, AnomalyIf, KnownSSE, Typed, Fields
<1>2. KnownSSE(OperandSize_Prefix(i)) /\ KnownSSE(AddressSize_Prefix(i))
  BY DEF OperandSize_Prefix, AddressSize_Prefix, AnomalyIf, KnownSSE, PREFIX_OPERAND_SIZE, Typed,
         Fields
<1>3. ASSUME NEW segment
      PROVE  KnownSSE([SANITY_CHECK_SEGMENT_OVERRIDE(i) EXCEPT !.override = TRUE,
                                                               !.segment = segment])
  BY DEF SANITY_CHECK_SEGMENT_OVERRIDE, AnomalyIf, KnownSSE, Typed, Fields
<1>4. KnownSSE([AnomalyIf(i, i.lock) EXCEPT !.lock = TRUE])
  BY DEF AnomalyIf, KnownSSE, Typed, Fields
<1> DEFINE seg == SegmentOf[prefix]
           rne == Repeat_Prefix(i, prefix, "repne", "rep")
           rep == Repeat_Prefix(i, prefix, "rep", "repne")
           ovr == [SANITY_CHECK_SEGMENT_OVERRIDE(i) EXCEPT !.override = TRUE, !.segment = seg]
           lck == [AnomalyIf(i, i.lock) EXCEPT !.lock = TRUE]
<1>5. DOMAIN SegmentOf = {\h26, \h2E, \h36, \h3E, \h64, \h65}
  BY DEF SegmentOf
<1>6. /\ prefix \in {\h26, \h2E, \h36, \h3E, \h64, \h65} => Prefix_Effect(i, prefix) = ovr
      /\ prefix = \hF2 => Prefix_Effect(i, prefix) = rne
      /\ prefix = \hF3 => Prefix_Effect(i, prefix) = rep
      /\ prefix = \h66 => Prefix_Effect(i, prefix) = OperandSize_Prefix(i)
      /\ prefix = \h67 => Prefix_Effect(i, prefix) = AddressSize_Prefix(i)
      /\ prefix = \hF0 => Prefix_Effect(i, prefix) = lck
  BY <1>5 DEF Prefix_Effect, PREFIX_REPNE, PREFIX_REP, PREFIX_OPERAND_SIZE,
              PREFIX_ADDRESS_SIZE, PREFIX_LOCK
<1>7. prefix \in {\hF2, \hF3} => KnownSSE(rne) /\ KnownSSE(rep)
  BY <1>1
<1>8. KnownSSE(ovr) /\ KnownSSE(lck)
  BY <1>3, <1>4
<1> HIDE DEF seg, rne, rep, ovr, lck
<1>9. prefix \in {\h26, \h2E, \h36, \h3E, \h64, \h65, \h66, \h67, \hF0, \hF2, \hF3}
  BY DEF PrefixBytes
<1> QED BY <1>2, <1>6, <1>7, <1>8, <1>9

LEMMA AddedSSE ==
  ASSUME NEW i, Typed(i), KnownSSE(i), NEW prefix
  PROVE  KnownSSE(Prefix_Add(i, prefix))
<1> DEFINE count == Len(i.prefixes)
           c == count = X86_MAX_PREFIX_LENGTH
           j == AnomalyIf(i, c)
           few == j.anomaly \/ count < X86_MAX_PREFIX_LENGTH
           l == Assert_(j, 1195, few)
           m == [l EXCEPT !.prefixes = Append(@, prefix)]
<1>1. Prefix_Add(i, prefix) \in {Abort(i), m}
  BY DEF Prefix_Add
<1> HIDE DEF c
<1>2. j.ssePrefix = i.ssePrefix /\ DOMAIN j = Fields
  BY DEF AnomalyIf, Typed, Fields
<1> HIDE DEF j, few
<1>3. l.ssePrefix = i.ssePrefix /\ DOMAIN l = Fields
  BY <1>2 DEF Assert_, Fail, Fields
<1> HIDE DEF l
<1>4. m.ssePrefix = i.ssePrefix
  BY <1>3 DEF Fields
<1>5. Abort(i).ssePrefix = i.ssePrefix
  BY DEF Abort, Typed, Fields
<1> HIDE DEF m
<1> QED BY <1>1, <1>4, <1>5 DEF KnownSSE

LEMMA PrefixSSE ==
  ASSUME DecodeInv, Prefix, KnownSSE(ins)
  PROVE  KnownSSE(ins')
<1>1. Typed(ins) /\ Opcode \in PrefixBytes
  BY PrefixRead DEF DecodeInv
<1> DEFINE read == INSTR_INC(ins, 1)
           listed == Listed(ins, Opcode)
           noted == AnomalyIf(read, listed)
           felt == Prefix_Effect(noted, Opcode)
           i == Prefix_Add(felt, Opcode)
<1>2. ins' = i
  BY DEF Prefix, Continue
<1> HIDE DEF listed
<1>3. Typed(read) /\ KnownSSE(read)
  <2>1. Follows(ins, read)
    BY <1>1, Inc
  <2>2. read.ssePrefix = ins.ssePrefix
    BY <1>1 DEF INSTR_INC, Typed, Fields
  <2> QED BY <2>1, <2>2, Known DEF KnownSSE
<1> HIDE DEF read
<1>4. Typed(noted) /\ KnownSSE(noted)
  <2>1. noted.ssePrefix = read.ssePrefix
    BY <1>3 DEF AnomalyIf, Typed, Fields
  <2>2. Took(read, noted, 0)
    BY <1>3, Noting
  <2> QED BY <1>3, <2>1, <2>2, TookTyped DEF KnownSSE
<1> HIDE DEF noted
<1>5. Typed(felt) /\ KnownSSE(felt)
  BY <1>1, <1>4, PrefixEffect, EffectSSE DEF Stays
<1> HIDE DEF felt
<1>6. KnownSSE(i)
  BY <1>5, AddedSSE
<1> QED BY <1>2, <1>6

-----------------------------------------------------------------------------
(* The lengths that are counted. *)

KindAt(text, at) == KindOf(OpcodeOf(text, at), RegField(text, at))

(* The opcode has been read, and the ModRM byte where one follows it.      *)
CodedAt(text, at, i) ==
  /\ Typed(i)
  /\ i.length = PrefixCount(text, at) + OpcodeBytes(text, at)
  /\ i.next = ModRMAt(text, at) /\ i.next \in Nat
  /\ i.AddressSize = AddressSizeAt(text, at)
  /\ \E b \in Byte : OpcodeOf(text, at) \in {b, 256 + b}
  /\ i.modrm = IF OpcodeOf(text, at) \in WithModRM THEN At(text, ModRMAt(text, at)) ELSE NoModRM

(* The operands of its row take what the encoding has.                     *)
RowAt(text, at, i) ==
  /\ \E m \in BOOLEAN : /\ RowFits(i.row, m, KindAt(text, at))
                        /\ m => i.modrm # NoModRM
                        /\ i.modrm # NoModRM /\ ~m => mod(i) = 3
  /\ i.row.ops = <<>> => i.modrm = NoModRM
  /\ KindAt(text, at) \in {"operand", "far"} => i.OperandSize = OperandSizeAt(text, at)

ReadyAt(text, at, i) == CodedAt(text, at, i) /\ RowAt(text, at, i)
DoneAt(text, at, i) == i.row.ops = <<>> /\ i.length = EncodedLength(text, at)

CountedAt(text, at, place, i) ==
  /\ place = "opcode" => SizesRead(text, at, i) /\ KnownSSE(i)
  /\ place \in {"check", "operands"} => ReadyAt(text, at, i) \/ DoneAt(text, at, i)
  /\ place \in {"post", "references", "decoded"} => i.length = EncodedLength(text, at)
  /\ place # "suffix"
Counted(place, i) == (place # "opcode" /\ Miscounted(dwRet)) \/ CountedAt(code, dwRet, place, i)

CountInv == Counted(pc, ins) /\ WholeInstructions

LEMMA CountContinued ==
  ASSUME CountInv, NEW i, NEW next, Continue(i, next),
         Running(i) => Counted(next, i)
  PROVE  CountInv'
<1>1. ins' = i /\ code' = code /\ dwRet' = dwRet /\ moved' = moved
  BY DEF Continue
<1>2. pc' \in {"failed", "aborted"} \/ (pc' = next /\ Running(i))
  BY DEF Continue, Running
<1>3. Counted(pc, ins)'
  <2>1. CASE pc' \in {"failed", "aborted"}
    BY <2>1 DEF Counted, CountedAt
  <2>2. CASE pc' = next /\ Running(i)
    <3>1. Counted(next, i)
      BY <2>2
    <3>2. CountedAt(code, dwRet, next, i) => CountedAt(code', dwRet', pc', ins')
      BY <1>1, <2>2
    <3>3. Miscounted(dwRet) => Miscounted(dwRet)'
      BY <1>1 DEF Miscounted
    <3> QED BY <2>2, <3>1, <3>2, <3>3 DEF Counted
  <2> QED BY <1>2, <2>1, <2>2
<1>4. WholeInstructions'
  <2>1. WholeInstructions
    BY DEF CountInv
  <2> QED BY <1>1, <2>1 DEF WholeInstructions, Whole, Miscounted
<1> QED BY <1>3, <1>4 DEF CountInv

(* What was read of the instruction, but for the row that is chosen.       *)
Alike(i, j) ==
  /\ j.length = i.length /\ j.next = i.next /\ j.modrm = i.modrm
  /\ j.AddressSize = i.AddressSize

LEMMA AlikeCoded ==
  ASSUME NEW text, NEW at, NEW i, CodedAt(text, at, i), NEW j, Typed(j), Alike(i, j)
  PROVE  CodedAt(text, at, j) /\ mod(j) = mod(i) /\ reg(j) = reg(i)
BY DEF CodedAt, Alike, mod, reg

LEMMA RowGiven ==
  ASSUME NEW text, NEW at, NEW i, CodedAt(text, at, i), NEW m \in BOOLEAN,
         RowFits(i.row, m, KindAt(text, at)), m => i.modrm # NoModRM,
         i.modrm # NoModRM /\ ~m => mod(i) = 3 /\ i.row.ops # <<>>,
         KindAt(text, at) \in {"operand", "far"} => i.OperandSize = OperandSizeAt(text, at)
  PROVE  ReadyAt(text, at, i)
<1>1. i.row.ops = <<>> => ~m
  <2>1. OpsFit(i.row.ops, m, KindAt(text, at))
    BY DEF RowFits
  <2> QED BY <2>1, NothingToRead
<1>2. i.row.ops = <<>> => i.modrm = NoModRM
  BY <1>1
<1> QED BY <1>2 DEF ReadyAt, RowAt

(* An instruction without operands whose ModRM byte says what it is.       *)
LEMMA WholeByteDone ==
  ASSUME NEW text \in Seq(Byte), NEW at \in Nat, NEW i, CodedAt(text, at, i),
         i.modrm # NoModRM, mod(i) = 3, KindAt(text, at) = "none",
         NEW j, j.row.ops = <<>>, j.length = i.length + 1
  PROVE  DoneAt(text, at, j)
<1>1. OpcodeOf(text, at) \in WithModRM /\ i.modrm = At(text, ModRMAt(text, at))
  BY DEF CodedAt
<1>2. ModField(text, at) = 3 /\ RegField(text, at) = reg(i) /\ reg(i) \in 0..7
  BY <1>1, Fields_ModRM DEF ModField, mod, RegField, reg, CodedAt
<1>3. AddressingLength(text, at) = 1
  BY <1>2 DEF AddressingLength
<1>4. ImmediateLength(text, at) = 0
  <2>0. PICK b \in Byte : OpcodeOf(text, at) \in {b, 256 + b}
    BY DEF CodedAt
  <2>1. ImmediateLength(text, at)
        = Immediates(KindAt(text, at), OperandSizeAt(text, at), AddressSizeAt(text, at))
    BY <1>2, <2>0, ImmediatesCoded DEF KindAt
  <2> QED BY <2>1 DEF Immediates
<1>5. i.length \in Int /\ i.length = PrefixCount(text, at) + OpcodeBytes(text, at)
  BY DEF CodedAt, Typed
<1>6. EncodedLength(text, at) = i.length + 1 + 0
  BY <1>1, <1>3, <1>4, <1>5 DEF EncodedLength
<1> QED BY <1>5, <1>6 DEF DoneAt

(* SetOperands counts what the encoding has. *)
LEMMA ReadyCounts ==
  ASSUME NEW text \in Seq(Byte), NEW at \in Nat, NEW i, ReadyAt(text, at, i),
         Running(SetOperands(i, text))
  PROVE  SetOperands(i, text).length = EncodedLength(text, at)
<1> DEFINE kind == KindAt(text, at)
           j == INSTR_INC(i, 1)
           s == AddressSizeAt(text, at)
           z == OperandSizeAt(text, at)
<1>1. /\ Typed(i) /\ i.length = PrefixCount(text, at) + OpcodeBytes(text, at)
      /\ i.next = ModRMAt(text, at) /\ ModRMAt(text, at) \in Nat /\ i.AddressSize = s
      /\ i.modrm = IF OpcodeOf(text, at) \in WithModRM THEN At(text, ModRMAt(text, at)) ELSE NoModRM
  BY DEF ReadyAt, CodedAt
<1>2. PICK m \in BOOLEAN : /\ RowFits(i.row, m, kind) /\ (m => i.modrm # NoModRM)
                           /\ i.modrm # NoModRM /\ ~m => mod(i) = 3
  BY DEF ReadyAt, RowAt
<1>3. OpsFit(i.row.ops, m, kind)
  BY <1>2 DEF RowFits
<1>4. kind \in {"operand", "far"} => i.OperandSize = z
  BY DEF ReadyAt, RowAt
<1>5. Took(i, j, 1)
  BY <1>1, TookInc
<1> HIDE DEF j, s, z
<1>6. SetOperands(i, text).length =
           i.length + (IF i.modrm = NoModRM THEN 0 ELSE 1 + Rest(j, text))
             + Immediates(kind, i.OperandSize, i.AddressSize)
  BY <1>1, <1>2, <1>3, OperandsTake DEF j
<1>7. RegField(text, at) \in 0..7
  <2> DEFINE x == At(text, ModRMAt(text, at))
  <2>1. x \in 0..255
    BY <1>1, AtByte DEF Byte
  <2> HIDE DEF x
  <2>2. x \div 8 \in 0..31 /\ (x \div 8) % 8 \in 0..7
    BY <2>1
  <2> QED BY <2>2 DEF x, RegField
<1>8. ImmediateLength(text, at) = Immediates(kind, z, s)
  <2>1. PICK b \in Byte : OpcodeOf(text, at) \in {b, 256 + b}
    BY DEF ReadyAt, CodedAt
  <2> QED BY <1>7, <2>1, ImmediatesCoded DEF KindAt, z, s
<1>9. Immediates(kind, i.OperandSize, i.AddressSize) = Immediates(kind, z, s)
  BY <1>1, <1>4 DEF Immediates
<1>10. At(text, ModRMAt(text, at)) # NoModRM
  <2> DEFINE x == At(text, ModRMAt(text, at))
  <2>1. x \in Byte
    BY <1>1, AtByte
  <2> HIDE DEF x
  <2>2. x # NoModRM
    BY <2>1 DEF Byte, NoModRM
  <2> QED BY <2>2 DEF x
<1>11. OpcodeOf(text, at) \in WithModRM => AddressingLength(text, at) = 1 + Rest(j, text)
  <2> SUFFICES ASSUME OpcodeOf(text, at) \in WithModRM
               PROVE  AddressingLength(text, at) = 1 + Rest(j, text)
    OBVIOUS
  <2>1. Typed(j) /\ j.modrm = i.modrm /\ j.next = i.next + 1 /\ j.AddressSize = i.AddressSize
    BY <1>5 DEF Took, Follows
  <2> QED BY <1>1, <1>10, <2>1, AddressingTaken DEF s
<1>12. (i.modrm = NoModRM) <=> OpcodeOf(text, at) \notin WithModRM
  BY <1>1, <1>10
<1> QED BY <1>1, <1>6, <1>8, <1>9, <1>11, <1>12 DEF EncodedLength

-----------------------------------------------------------------------------
(* What has been counted where the opcode was read. *)

LEMMA OneByteTakes ==
  ASSUME NEW i, Typed(i), i.next \in Nat
  PROVE  /\ OneByte(i).length = i.length + 1 /\ OneByte(i).next = i.next + 1
         /\ OneByte(i).OperandSize = i.OperandSize /\ OneByte(i).AddressSize = i.AddressSize
         /\ OneByte(i).modrm = IF Opcode \in X86_ModRM_1 THEN At(code, i.next + 1) ELSE NoModRM
<1> DEFINE j == INSTR_INC(i, 1)
           modrm == IF Opcode \in X86_ModRM_1 THEN At(code, j.next) ELSE NoModRM
           op == Opcode
           row == X86_Opcodes_1[Opcode]
<1>1. Took(i, j, 1)
  BY TookInc
<1>2. DOMAIN j = Fields
  BY <1>1 DEF Took, Follows, Typed
<1>3. OneByte(i) = [j EXCEPT !.opcode = op, !.OpcodeLength = 1, !.row = row, !.modrm = modrm]
  BY DEF OneByte
<1>4. modrm = IF Opcode \in X86_ModRM_1 THEN At(code, i.next + 1) ELSE NoModRM
  BY <1>1 DEF Took
<1> HIDE DEF j, modrm, op, row
<1>5. /\ OneByte(i).length = j.length /\ OneByte(i).next = j.next
      /\ OneByte(i).OperandSize = j.OperandSize /\ OneByte(i).AddressSize = j.AddressSize
      /\ OneByte(i).modrm = modrm
  BY <1>2, <1>3 DEF Fields
<1> QED BY <1>1, <1>4, <1>5 DEF Took

LEMMA TwoByteTakes ==
  ASSUME NEW i, Typed(i), i.next \in Nat
  PROVE  /\ TwoByte(i).length = i.length + 2 /\ TwoByte(i).next = i.next + 2
         /\ TwoByte(i).OperandSize = i.OperandSize /\ TwoByte(i).AddressSize = i.AddressSize
         /\ TwoByte(i).modrm = IF Opcode2 \in X86_ModRM_2 THEN At(code, i.next + 2) ELSE NoModRM
<1> DEFINE j == INSTR_INC(i, 2)
           modrm == IF Opcode2 \in X86_ModRM_2 THEN At(code, j.next) ELSE NoModRM
           op == Opcode2
           row == X86_Opcodes_2[Opcode2]
<1>1. Took(i, j, 2)
  BY TookInc
<1>2. DOMAIN j = Fields
  BY <1>1 DEF Took, Follows, Typed
<1>3. TwoByte(i) = [j EXCEPT !.opcode = op, !.OpcodeLength = 2, !.row = row, !.modrm = modrm]
  BY DEF TwoByte
<1>4. modrm = IF Opcode2 \in X86_ModRM_2 THEN At(code, i.next + 2) ELSE NoModRM
  BY <1>1 DEF Took
<1> HIDE DEF j, modrm, op, row
<1>5. /\ TwoByte(i).length = j.length /\ TwoByte(i).next = j.next
      /\ TwoByte(i).OperandSize = j.OperandSize /\ TwoByte(i).AddressSize = j.AddressSize
      /\ TwoByte(i).modrm = modrm
  BY <1>2, <1>3 DEF Fields
<1> QED BY <1>1, <1>4, <1>5 DEF Took

(* The prefixes are counted and their sizes known. *)
LEMMA SizesFound ==
  ASSUME DecodeInv, CountInv, pc = "opcode", Opcode \notin PrefixBytes
  PROVE  /\ PrefixCount(code, dwRet) = ins.length /\ OpcodeAt(code, dwRet) = ins.next
         /\ Typed(ins) /\ dwRet \in Nat /\ ins.next \in Nat /\ code \in Seq(Byte)
         /\ Opcode \in Byte /\ Opcode2 \in Byte
         /\ ins.OperandSize = OperandSizeAt(code, dwRet)
         /\ ins.AddressSize = AddressSizeAt(code, dwRet)
         /\ KnownSSE(ins)
<1> DEFINE n == ins.length
<1>1. /\ code \in Seq(Byte) /\ dwRet \in Nat /\ n \in Nat /\ ins.next = dwRet + n /\ Typed(ins)
      /\ \A k \in 0..(n - 1) : At(code, dwRet + k) \in PrefixBytes
  BY DEF DecodeInv, SkipInv, PrefixInv
<1>2. SizesRead(code, dwRet, ins) /\ KnownSSE(ins)
  BY DEF CountInv, Counted, CountedAt
<1>3. /\ ins.opSize <=> BytesRead(code, dwRet, n, \h66)
      /\ ins.adSize <=> BytesRead(code, dwRet, n, \h67)
      /\ ins.OperandSize = IF ins.opSize THEN 2 ELSE 4
      /\ ins.AddressSize = IF ins.adSize THEN 2 ELSE 4
  BY <1>2 DEF SizesRead
<1> HIDE DEF n
<1>4. Opcode = At(code, dwRet + n)
  BY <1>1 DEF Opcode
<1>5. Prefixed(code, dwRet, n)
  BY <1>1, <1>4 DEF Prefixed
<1>6. PrefixCount(code, dwRet) = n
  BY <1>1, <1>5, PrefixCounted
<1>7. \A b : HasPrefix(code, dwRet, b) <=> BytesRead(code, dwRet, n, b)
  BY <1>6 DEF HasPrefix, BytesRead
<1>8. /\ ins.OperandSize = OperandSizeAt(code, dwRet)
      /\ ins.AddressSize = AddressSizeAt(code, dwRet)
  BY <1>3, <1>7 DEF OperandSizeAt, AddressSizeAt
<1>9. OpcodeAt(code, dwRet) = ins.next /\ ins.next \in Nat
  BY <1>1, <1>6 DEF OpcodeAt
<1>10. Opcode \in Byte /\ Opcode2 \in Byte
  BY Reading
<1> QED BY <1>1, <1>2, <1>6, <1>8, <1>9, <1>10 DEF n

LEMMA OneByteCounted ==
  ASSUME DecodeInv, CountInv, pc = "opcode", Opcode \notin PrefixBytes, Opcode # TWO_BYTE_OPCODE
  PROVE  /\ CodedAt(code, dwRet, OneByte(ins)) /\ Typed(OneByte(ins))
         /\ OneByte(ins).OperandSize = OperandSizeAt(code, dwRet)
         /\ OpcodeOf(code, dwRet) = Opcode /\ Opcode \in Byte /\ OneByte(ins).row = X86_Opcodes_1[Opcode]
         /\ (OneByte(ins).modrm # NoModRM <=> Opcode \in X86_ModRM_1)
         /\ RegField(code, dwRet) \in 0..7
         /\ (Opcode \in X86_ModRM_1 => RegField(code, dwRet) = reg(OneByte(ins)))
         /\ KindAt(code, dwRet) = Kind1(Opcode, RegField(code, dwRet))
<1> DEFINE i == OneByte(ins)
           at == dwRet
<1>1. /\ PrefixCount(code, at) = ins.length /\ OpcodeAt(code, at) = ins.next
      /\ Typed(ins) /\ ins.next \in Nat /\ code \in Seq(Byte) /\ Opcode \in Byte
      /\ ins.OperandSize = OperandSizeAt(code, at) /\ ins.AddressSize = AddressSizeAt(code, at)
  BY SizesFound
<1>2. /\ i.length = ins.length + 1 /\ i.next = ins.next + 1
      /\ i.OperandSize = ins.OperandSize /\ i.AddressSize = ins.AddressSize
      /\ i.modrm = IF Opcode \in X86_ModRM_1 THEN At(code, ins.next + 1) ELSE NoModRM
  BY <1>1, OneByteTakes
<1>3. Typed(i) /\ i.row = X86_Opcodes_1[Opcode]
  BY <1>1, Coded
<1>4. OpcodeBytes(code, at) = 1 /\ OpcodeOf(code, at) = Opcode /\ ModRMAt(code, at) = ins.next + 1
  BY <1>1 DEF OpcodeBytes, OpcodeOf, ModRMAt, EscapedAt, Opcode, TWO_BYTE_OPCODE
<1>5. OpcodeOf(code, at) \in WithModRM <=> Opcode \in X86_ModRM_1
  BY <1>1, <1>4, ModRMCoded
<1>6. At(code, ins.next + 1) \in Byte
  BY <1>1, AtByte
<1> HIDE DEF i, at
<1>7. CodedAt(code, at, i)
  <2>1. \E b \in Byte : OpcodeOf(code, at) \in {b, 256 + b}
    BY <1>1, <1>4
  <2> QED BY <1>1, <1>2, <1>3, <1>4, <1>5, <2>1 DEF CodedAt
<1>8. i.modrm # NoModRM <=> Opcode \in X86_ModRM_1
  BY <1>2, <1>6 DEF Byte, NoModRM
<1>9. RegField(code, at) \in 0..7 /\ (Opcode \in X86_ModRM_1 => RegField(code, at) = reg(i))
  <2> DEFINE x == At(code, ins.next + 1)
  <2>1. RegField(code, at) = (x \div 8) % 8
    BY <1>4 DEF RegField
  <2>2. Opcode \in X86_ModRM_1 => reg(i) = (x \div 8) % 8
    BY <1>2 DEF reg
  <2>3. x \in 0..255
    BY <1>6 DEF Byte
  <2> HIDE DEF x
  <2>4. x \div 8 \in 0..31 /\ (x \div 8) % 8 \in 0..7
    BY <2>3
  <2> QED BY <2>1, <2>2, <2>4
<1>10. KindAt(code, at) = Kind1(Opcode, RegField(code, at))
  BY <1>1, <1>4 DEF KindAt, KindOf, Byte
<1> QED BY <1>1, <1>2, <1>3, <1>4, <1>7, <1>8, <1>9, <1>10 DEF i, at

LEMMA TwoByteCounted ==
  ASSUME DecodeInv, CountInv, Escaped
  PROVE  /\ Typed(TwoByte(ins)) /\ Opcode2 \in Byte /\ TwoByte(ins).row = X86_Opcodes_2[Opcode2]
         /\ TwoByte(ins).OperandSize = OperandSizeAt(code, dwRet)
         /\ OpcodeOf(code, dwRet) = 256 + Opcode2
         /\ KindAt(code, dwRet) = Kind2(Opcode2)
         /\ (TwoByte(ins).modrm # NoModRM <=> Opcode2 \in X86_ModRM_2)
         /\ (Opcode2 \in X86_ModRM_2 =>
               RegField(code, dwRet) = reg(TwoByte(ins)) /\ reg(TwoByte(ins)) \in 0..7)
         /\ ((Opcode2 \in Coded_2 <=> Opcode2 \in X86_ModRM_2) => CodedAt(code, dwRet, TwoByte(ins)))
<1> DEFINE i == TwoByte(ins)
           at == dwRet
<1>1. pc = "opcode" /\ Opcode = TWO_BYTE_OPCODE /\ Opcode \notin PrefixBytes
  BY DEF Escaped, TWO_BYTE_OPCODE, PrefixBytes
<1>2. /\ PrefixCount(code, at) = ins.length /\ OpcodeAt(code, at) = ins.next
      /\ Typed(ins) /\ ins.next \in Nat /\ code \in Seq(Byte) /\ Opcode2 \in Byte
      /\ ins.OperandSize = OperandSizeAt(code, at) /\ ins.AddressSize = AddressSizeAt(code, at)
  BY <1>1, SizesFound
<1>3. /\ i.length = ins.length + 2 /\ i.next = ins.next + 2
      /\ i.OperandSize = ins.OperandSize /\ i.AddressSize = ins.AddressSize
      /\ i.modrm = IF Opcode2 \in X86_ModRM_2 THEN At(code, ins.next + 2) ELSE NoModRM
  BY <1>2, TwoByteTakes
<1>4. Typed(i) /\ i.row = X86_Opcodes_2[Opcode2]
  BY <1>2, Coded2
<1>5. /\ OpcodeBytes(code, at) = 2 /\ OpcodeOf(code, at) = 256 + Opcode2
      /\ ModRMAt(code, at) = ins.next + 2
  BY <1>1, <1>2 DEF OpcodeBytes, OpcodeOf, ModRMAt, EscapedAt, Opcode, Opcode2, TWO_BYTE_OPCODE
<1>6. OpcodeOf(code, at) \in WithModRM <=> Opcode2 \in Coded_2
  BY <1>2, <1>5, ModRMCoded
<1>7. At(code, ins.next + 2) \in Byte
  BY <1>2, AtByte
<1> HIDE DEF i, at
<1>8. (Opcode2 \in Coded_2 <=> Opcode2 \in X86_ModRM_2) => CodedAt(code, at, i)
  <2>1. \E b \in Byte : OpcodeOf(code, at) \in {b, 256 + b}
    BY <1>2, <1>5
  <2> QED BY <1>2, <1>3, <1>4, <1>5, <1>6, <2>1 DEF CodedAt
<1>9. i.modrm # NoModRM <=> Opcode2 \in X86_ModRM_2
  BY <1>3, <1>7 DEF Byte, NoModRM
<1>10. Opcode2 \in X86_ModRM_2 => RegField(code, at) = reg(i)
  <2>1. RegField(code, at) = (At(code, ins.next + 2) \div 8) % 8
    BY <1>5 DEF RegField
  <2>2. Opcode2 \in X86_ModRM_2 => reg(i) = (At(code, ins.next + 2) \div 8) % 8
    BY <1>3 DEF reg
  <2> QED BY <2>1, <2>2
<1>11. reg(i) \in 0..7
  BY <1>4, RegRange
<1>12. KindAt(code, at) = Kind2(Opcode2)
  BY <1>2, <1>5 DEF KindAt, KindOf, Byte
<1> QED BY <1>2, <1>3, <1>4, <1>5, <1>8, <1>9, <1>10, <1>11, <1>12 DEF i, at

(* Each step keeps the count. *)
LEMMA PrefixCounts == DecodeInv /\ CountInv /\ Prefix => CountInv'
<1> SUFFICES ASSUME DecodeInv, CountInv, Prefix PROVE CountInv'
  OBVIOUS
<1>1. /\ code' = code /\ dwRet' = dwRet /\ moved' = moved
      /\ pc = "opcode" /\ pc' \in {"failed", "aborted", "opcode"}
  BY PrefixRead
<1>2. SizesRead(code, dwRet, ins) /\ KnownSSE(ins)
  BY <1>1 DEF CountInv, Counted, CountedAt
<1>3. SizesRead(code, dwRet, ins') /\ KnownSSE(ins')
  BY <1>2, PrefixSizesRead, PrefixSSE
<1>4. CountedAt(code', dwRet', pc', ins')
  BY <1>1, <1>3 DEF CountedAt
<1>5. WholeInstructions'
  <2>1. WholeInstructions
    BY DEF CountInv
  <2> QED BY <1>1, <2>1 DEF WholeInstructions, Whole, Miscounted
<1> QED BY <1>4, <1>5 DEF CountInv, Counted

(* A row that stands for no other. *)
LEMMA PlainReady ==
  ASSUME NEW i, CodedAt(code, dwRet, i), NEW m \in BOOLEAN,
         RowIs(i.row, m, KindAt(code, dwRet)), i.modrm # NoModRM <=> m,
         i.OperandSize = OperandSizeAt(code, dwRet)
  PROVE  ReadyAt(code, dwRet, i)
<1>1. RowFits(i.row, m, KindAt(code, dwRet))
  BY DEF RowIs
<1> QED BY <1>1, RowGiven

LEMMA ReadyCounted ==
  ASSUME NEW i, ReadyAt(code, dwRet, i) \/ DoneAt(code, dwRet, i)
  PROVE  Counted("check", i)
BY DEF Counted, CountedAt

(* The row takes the place of the one that selects it.                     *)
LEMMA SelectedReady ==
  ASSUME NEW i, CodedAt(code, dwRet, i), NEW j, Typed(j), Alike(i, j),
         j.OperandSize = i.OperandSize, NEW m \in BOOLEAN,
         RowFits(j.row, m, KindAt(code, dwRet)), i.modrm # NoModRM <=> m,
         i.OperandSize = OperandSizeAt(code, dwRet)
  PROVE  ReadyAt(code, dwRet, j)
<1>1. CodedAt(code, dwRet, j)
  BY AlikeCoded
<1>2. j.modrm = i.modrm
  BY DEF Alike
<1> QED BY <1>1, <1>2, RowGiven

LEMMA AbortedAlike ==
  ASSUME NEW i, Typed(i), NEW c
  PROVE  /\ Typed(AbortIf(i, c)) /\ Alike(i, AbortIf(i, c))
         /\ AbortIf(i, c).OperandSize = i.OperandSize /\ AbortIf(i, c).row = i.row
         /\ Running(AbortIf(i, c)) => ~c
<1>1. Typed(AbortIf(i, c))
  BY Aborting DEF Follows
<1> QED BY <1>1 DEF AbortIf, Alike, Running, Typed, Fields

LEMMA OneByteCounts == DecodeInv /\ CountInv /\ OneByteOpcode => CountInv'
<1> SUFFICES ASSUME DecodeInv, CountInv, OneByteOpcode PROVE CountInv'
  OBVIOUS
<1> DEFINE b == Opcode
           j == OneByte(ins)
           invalid == INVALID(X86_Opcodes_1[b])
           i == AbortIf(j, invalid)
           r == RegField(code, dwRet)
<1>1. pc = "opcode" /\ b \notin PrefixBytes /\ b # TWO_BYTE_OPCODE /\ Continue(i, "check")
  BY Reading, PrefixRows DEF OneByteOpcode, IsPrefix
<1>2. /\ CodedAt(code, dwRet, j) /\ Typed(j) /\ j.OperandSize = OperandSizeAt(code, dwRet)
      /\ b \in Byte /\ j.row = X86_Opcodes_1[b] /\ (j.modrm # NoModRM <=> b \in X86_ModRM_1)
      /\ r \in 0..7 /\ KindAt(code, dwRet) = Kind1(b, r)
  BY <1>1, OneByteCounted
<1>3. X86_Opcodes_1[b].type \notin SPECIAL \union {"GROUP", "PREFIX"}
  BY <1>1, <1>2, PrefixRows DEF OneByteOpcode
<1>4. invalid \/ RowIs(j.row, b \in X86_ModRM_1, Kind1(b, r))
  <2>1. Fits1(X86_Opcodes_1[b], b)
    BY <1>2, AllFit
  <2> QED BY <1>1, <1>2, <1>3, <2>1 DEF Fits1, SPECIAL
<1> HIDE DEF j, invalid, b, r
<1>5. /\ Typed(i) /\ Alike(j, i) /\ i.OperandSize = j.OperandSize /\ i.row = j.row
      /\ Running(i) => ~invalid
  BY <1>2, AbortedAlike
<1> HIDE DEF i
<1>6. ASSUME Running(i) PROVE Counted("check", i)
  <2> DEFINE m == b \in X86_ModRM_1
  <2>1. m \in BOOLEAN
    OBVIOUS
  <2>2. RowFits(i.row, m, KindAt(code, dwRet)) /\ (j.modrm # NoModRM <=> m)
    BY <1>2, <1>4, <1>5, <1>6 DEF RowIs
  <2> HIDE DEF m
  <2>3. ReadyAt(code, dwRet, i)
    BY <1>2, <1>5, <2>1, <2>2, SelectedReady
  <2> QED BY <2>3, ReadyCounted
<1> QED BY <1>1, <1>6, CountContinued

LEMMA GroupAlike ==
  ASSUME NEW i, Typed(i), NEW table, NEW group, Running(Group(i, table, group))
  PROVE  /\ ~INVALID(table[reg(i)]) /\ Group(i, table, group).row = table[reg(i)]
         /\ Typed(Group(i, table, group)) /\ Alike(i, Group(i, table, group))
         /\ Group(i, table, group).OperandSize = i.OperandSize
<1> DEFINE row == table[reg(i)]
           r == reg(i)
           j == [i EXCEPT !.row = row, !.group = group, !.extension = r]
<1>1. ~INVALID(row)
  <2> SUFFICES ASSUME INVALID(row) PROVE FALSE
    OBVIOUS
  <2> DEFINE h == [i EXCEPT !.length = @ + 1]
  <2>1. Group(i, table, group) = Abort(h)
    BY DEF Group
  <2>2. DOMAIN h = Fields
    BY DEF Typed
  <2> HIDE DEF h
  <2>3. Abort(h).aborted
    BY <2>2 DEF Abort, Fields
  <2> QED BY <2>1, <2>3 DEF Running
<1>2. Group(i, table, group) = j
  BY <1>1 DEF Group
<1>3. r \in 0..63
  BY RegRange
<1> HIDE DEF row, r
<1>4. Typed(j) /\ j.row = row
  <2>1. j.row = row
    BY DEF Typed, Fields
  <2>2. Typed(j)
    BY <1>3 DEF Typed, Fields
  <2> QED BY <2>1, <2>2
<1>5. Alike(i, j) /\ j.OperandSize = i.OperandSize
  BY DEF Alike, Typed, Fields
<1> QED BY <1>1, <1>2, <1>4, <1>5 DEF row

LEMMA OneByteGroupCounts == DecodeInv /\ CountInv /\ OneByteGroup => CountInv'
<1> SUFFICES ASSUME DecodeInv, CountInv, OneByteGroup PROVE CountInv'
  OBVIOUS
<1> DEFINE b == Opcode
           j == OneByte(ins)
           table == j.row.table
           group == X86_Groups_1[Opcode]
           i == Group(j, table, group)
           r == RegField(code, dwRet)
<1>1. pc = "opcode" /\ X86_Opcodes_1[b].type = "GROUP" /\ Continue(i, "check")
  BY DEF OneByteGroup
<1>2. b \in Byte /\ b \notin PrefixBytes /\ b # TWO_BYTE_OPCODE
  BY <1>1, Reading, PrefixRows, Escape0F
<1>3. /\ CodedAt(code, dwRet, j) /\ Typed(j) /\ j.OperandSize = OperandSizeAt(code, dwRet)
      /\ j.row = X86_Opcodes_1[b] /\ (j.modrm # NoModRM <=> b \in X86_ModRM_1)
      /\ r \in 0..7 /\ (b \in X86_ModRM_1 => r = reg(j))
      /\ KindAt(code, dwRet) = Kind1(b, r)
  BY <1>1, <1>2, OneByteCounted
<1>4. b \in X86_ModRM_1 /\ (INVALID(table[r]) \/ RowFits(table[r], TRUE, Kind1(b, r)))
  <2>1. Fits1(X86_Opcodes_1[b], b)
    BY <1>2, AllFit
  <2> QED BY <1>1, <1>2, <1>3, <2>1 DEF Fits1, Indirect, SPECIAL, INVALID
<1> HIDE DEF j, b, r, table, group
<1>5. ASSUME Running(i) PROVE Counted("check", i)
  <2>1. /\ ~INVALID(table[reg(j)]) /\ i.row = table[reg(j)]
        /\ Typed(i) /\ Alike(j, i) /\ i.OperandSize = j.OperandSize
    BY <1>3, <1>5, GroupAlike
  <2> HIDE DEF i
  <2>2. PICK m \in BOOLEAN : m = TRUE
    OBVIOUS
  <2>3. RowFits(i.row, m, KindAt(code, dwRet)) /\ (j.modrm # NoModRM <=> m)
    BY <1>3, <1>4, <2>1, <2>2
  <2>4. ReadyAt(code, dwRet, i)
    BY <1>3, <2>1, <2>3, SelectedReady
  <2> QED BY <2>4, ReadyCounted
<1> HIDE DEF i
<1> QED BY <1>1, <1>5, CountContinued

LEMMA FPUCounts == DecodeInv /\ CountInv /\ FPU_Extension => CountInv'
<1> SUFFICES ASSUME DecodeInv, CountInv, FPU_Extension PROVE CountInv'
  OBVIOUS
<1> DEFINE b == Opcode
           h == OneByte(ins)
           memory == h.modrm < \hC0
           extension == IF memory THEN reg(h) ELSE h.modrm % 64
           index == IF memory THEN extension ELSE 8 + extension
           row == h.row.table[index]
           invalid == INVALID(row)
           a == AbortIf(h, invalid)
           j == [a EXCEPT !.row = row, !.extension = extension]
           whole == row.ops = <<>> /\ ~INVALID(row)
           i == IF whole THEN INSTR_INC(j, 1) ELSE j
           r == RegField(code, dwRet)
<1>1. pc = "opcode" /\ X86_Opcodes_1[b].type = "EXT_FPU" /\ Continue(i, "check")
  BY DEF FPU_Extension
<1>2. b \in Byte /\ b \notin PrefixBytes /\ b # TWO_BYTE_OPCODE
  BY <1>1, Reading, PrefixRows, Escape0F
<1>3. /\ CodedAt(code, dwRet, h) /\ Typed(h) /\ h.OperandSize = OperandSizeAt(code, dwRet)
      /\ h.row = X86_Opcodes_1[b] /\ (h.modrm # NoModRM <=> b \in X86_ModRM_1)
      /\ KindAt(code, dwRet) = Kind1(b, r)
  BY <1>1, <1>2, OneByteCounted
<1>4. b \in \hD8..\hDF /\ \A k \in 0..71 : INVALID(h.row.table[k]) \/ RowFits(h.row.table[k], k < 8, "none")
  <2>1. Fits1(X86_Opcodes_1[b], b)
    BY <1>2, AllFit
  <2> QED BY <1>1, <1>2, <1>3, <2>1 DEF Fits1, Indirect, SPECIAL, INVALID
<1>5. b \in X86_ModRM_1 /\ KindAt(code, dwRet) = "none"
  <2> HIDE DEF r
  <2> QED BY <1>3, <1>4 DEF X86_ModRM_1, Kind1
<1>6. extension \in 0..63 /\ index \in 0..71 /\ (index < 8 <=> memory) /\ (memory \/ mod(h) = 3)
  <2> DEFINE m == h.modrm
  <2>1. m \in 0..255
    BY <1>3, <1>5 DEF Typed, Byte
  <2>2. reg(h) \in 0..7
    BY <1>3, RegRange
  <2>3. mod(h) = m \div 64
    BY DEF mod
  <2> HIDE DEF m
  <2>4. m % 64 \in 0..63 /\ (~(m < \hC0) => m \div 64 = 3)
    BY <2>1
  <2> QED BY <2>2, <2>3, <2>4 DEF m
<1>7. INVALID(row) \/ RowFits(row, index < 8, "none")
  BY <1>4, <1>6
<1> HIDE DEF b, h, r, memory, extension, index, row, invalid
<1>8. /\ Typed(a) /\ Alike(h, a) /\ a.OperandSize = h.OperandSize /\ (Running(a) => ~invalid)
  BY <1>3, AbortedAlike
<1> HIDE DEF a
<1>9. /\ Typed(j) /\ j.row = row /\ Alike(h, j) /\ j.OperandSize = h.OperandSize
      /\ Running(j) => ~INVALID(row)
  <2>1. Typed(j) /\ j.row = row
    <3>1. j.row = row
      BY <1>8 DEF Typed, Fields
    <3>2. Typed(j)
      BY <1>6, <1>8 DEF Typed, Fields
    <3> QED BY <3>1, <3>2
  <2>2. /\ Alike(a, j) /\ j.OperandSize = a.OperandSize
        /\ j.aborted = a.aborted /\ j.failed = a.failed
    BY <1>8 DEF Alike, Typed, Fields
  <2> HIDE DEF j
  <2> QED BY <1>8, <2>1, <2>2 DEF Alike, Running, invalid
<1> HIDE DEF j
<1>10. CodedAt(code, dwRet, j) /\ mod(j) = mod(h) /\ j.modrm # NoModRM
  BY <1>3, <1>5, <1>9, AlikeCoded DEF Alike
<1>11. CASE whole
  <2>1. /\ INSTR_INC(j, 1).row = j.row /\ INSTR_INC(j, 1).length = j.length + 1
    BY <1>9, TookInc DEF Took, Follows
  <2>2. i.row.ops = <<>> /\ i.length = j.length + 1
    BY <1>9, <1>11, <2>1
  <2>3. RowFits(row, index < 8, "none")
    BY <1>7, <1>11
  <2>4. ~(index < 8)
    <3>1. row.ops = <<>> /\ OpsFit(row.ops, index < 8, "none")
      BY <1>11, <2>3 DEF RowFits
    <3>2. (index < 8) \in BOOLEAN
      OBVIOUS
    <3> HIDE DEF whole
    <3> QED BY <3>1, <3>2, NothingToRead
  <2> HIDE DEF i
  <2>5. DoneAt(code, dwRet, i)
    <3>1. code \in Seq(Byte) /\ dwRet \in Nat
      BY DEF DecodeInv, SkipInv
    <3> QED BY <1>5, <1>6, <1>10, <2>2, <2>4, <3>1, WholeByteDone
  <2>6. Counted("check", i)
    BY <2>5, ReadyCounted
  <2> QED BY <1>1, <2>6, CountContinued
<1>12. CASE ~whole
  <2>1. i = j
    BY <1>12
  <2>2. ASSUME Running(j) PROVE Counted("check", j)
    <3> DEFINE m == index < 8
    <3>1. m \in BOOLEAN
      OBVIOUS
    <3>2. RowFits(j.row, m, KindAt(code, dwRet)) /\ (~m => mod(j) = 3) /\ j.row.ops # <<>>
      BY <1>5, <1>6, <1>7, <1>9, <1>10, <1>12, <2>2
    <3> HIDE DEF m
    <3>3. ReadyAt(code, dwRet, j)
      BY <1>3, <1>9, <1>10, <3>1, <3>2, RowGiven
    <3> QED BY <3>3, ReadyCounted
  <2> QED BY <1>1, <2>1, <2>2, CountContinued
<1> QED BY <1>11, <1>12

LEMMA InvalidTwoByteCounts == DecodeInv /\ CountInv /\ InvalidTwoByteOpcode => CountInv'
<1> SUFFICES ASSUME DecodeInv, CountInv, InvalidTwoByteOpcode PROVE CountInv'
  OBVIOUS
<1> DEFINE j == TwoByte(ins)
           i == Abort(j)
<1>1. Continue(i, "check") /\ Typed(j)
  BY TwoByteCounted DEF InvalidTwoByteOpcode
<1> HIDE DEF j
<1>2. ~Running(i)
  BY <1>1 DEF Running, Abort, Typed, Fields
<1> HIDE DEF i
<1> QED BY <1>1, <1>2, CountContinued

LEMMA TwoByteCounts == DecodeInv /\ CountInv /\ TwoByteOpcode => CountInv'
<1> SUFFICES ASSUME DecodeInv, CountInv, TwoByteOpcode PROVE CountInv'
  OBVIOUS
<1> DEFINE b == Opcode2
           i == TwoByte(ins)
           m == b \in Coded_2
<1>1. Escaped /\ Continue(i, "check")
  BY DEF TwoByteOpcode
<1>2. /\ Typed(i) /\ b \in Byte /\ i.row = X86_Opcodes_2[b]
      /\ i.OperandSize = OperandSizeAt(code, dwRet) /\ KindAt(code, dwRet) = Kind2(b)
      /\ i.modrm # NoModRM <=> b \in X86_ModRM_2
      /\ (m <=> b \in X86_ModRM_2) => CodedAt(code, dwRet, i)
  BY <1>1, TwoByteCounted
<1>3. (m <=> b \in X86_ModRM_2) /\ RowIs(X86_Opcodes_2[b], m, Kind2(b))
  <2>1. Fits2(X86_Opcodes_2[b], b)
    BY <1>2, AllFit
  <2>2. /\ X86_Opcodes_2[b].type \notin SPECIAL \union {"GROUP"}
        /\ ~INVALID(X86_Opcodes_2[b])
    BY DEF TwoByteOpcode, Special2, Rejected2
  <2> QED BY <2>1, <2>2 DEF Fits2, SPECIAL
<1>4. m \in BOOLEAN
  OBVIOUS
<1> HIDE DEF i, m, b
<1>5. ReadyAt(code, dwRet, i)
  BY <1>2, <1>3, <1>4, PlainReady
<1>6. Counted("check", i)
  BY <1>5, ReadyCounted
<1> QED BY <1>1, <1>6, CountContinued

LEMMA MiscountedOn ==
  ASSUME Miscounted(dwRet), NEW next, next # "opcode", NEW i
  PROVE  Counted(next, i)
BY DEF Counted

LEMMA TwoByteGroupCounts == DecodeInv /\ CountInv /\ TwoByteGroup => CountInv'
<1> SUFFICES ASSUME DecodeInv, CountInv, TwoByteGroup PROVE CountInv'
  OBVIOUS
<1> DEFINE b == Opcode2
           j == TwoByte(ins)
           table == j.row.table
           group == X86_Groups_2[b]
           i == Group(j, table, group)
           r == reg(j)
<1>1. Escaped /\ X86_Opcodes_2[b].type = "GROUP" /\ Continue(i, "check")
  BY DEF TwoByteGroup
<1>2. /\ Typed(j) /\ b \in Byte /\ j.row = X86_Opcodes_2[b]
      /\ j.OperandSize = OperandSizeAt(code, dwRet) /\ KindAt(code, dwRet) = Kind2(b)
      /\ OpcodeOf(code, dwRet) = 256 + b
      /\ j.modrm # NoModRM <=> b \in X86_ModRM_2
      /\ b \in X86_ModRM_2 => RegField(code, dwRet) = r /\ r \in 0..7
      /\ (b \in Coded_2 <=> b \in X86_ModRM_2) => CodedAt(code, dwRet, j)
  BY <1>1, TwoByteCounted
<1>3. \/ b = \hB9
      \/ /\ b \in Coded_2 /\ b \in X86_ModRM_2
         /\ \A k \in 0..7 : \/ INVALID(table[k])
                            \/ b = \hAE /\ k \in 5..7
                            \/ RowFits(table[k], TRUE, Kind2(b))
  <2>1. Fits2(X86_Opcodes_2[b], b)
    BY <1>2, AllFit
  <2> QED BY <1>1, <1>2, <2>1 DEF Fits2, Indirect, SPECIAL, INVALID
<1> HIDE DEF b, j, table, group, r
<1>4. ASSUME Running(i) PROVE Counted("check", i)
  <2>1. /\ ~INVALID(table[r]) /\ i.row = table[r]
        /\ Typed(i) /\ Alike(j, i) /\ i.OperandSize = j.OperandSize
    BY <1>2, <1>4, GroupAlike DEF r
  <2> HIDE DEF i
  <2>2. CASE b = \hB9 \/ (b = \hAE /\ r \in 5..7 /\ b \in X86_ModRM_2)
    <3>1. Miscounted(dwRet)
      BY <1>2, <2>2 DEF Miscounted
    <3> QED BY <3>1, MiscountedOn
  <2>3. CASE b \in Coded_2 /\ b \in X86_ModRM_2 /\ RowFits(table[r], TRUE, Kind2(b))
    <3>1. PICK m \in BOOLEAN : m = TRUE
      OBVIOUS
    <3>2. RowFits(i.row, m, KindAt(code, dwRet)) /\ (j.modrm # NoModRM <=> m)
      BY <1>2, <2>1, <2>3, <3>1
    <3>3. ReadyAt(code, dwRet, i)
      BY <1>2, <2>1, <2>3, <3>2, SelectedReady
    <3> QED BY <3>3, ReadyCounted
  <2> QED BY <1>2, <1>3, <2>1, <2>2, <2>3
<1> HIDE DEF i
<1> QED BY <1>1, <1>4, CountContinued

LEMMA SuffixOperandsCounts == DecodeInv /\ CountInv /\ Suffix_Operands => CountInv'
<1> SUFFICES ASSUME DecodeInv, CountInv, Suffix_Operands PROVE CountInv'
  OBVIOUS
<1>1. Escaped /\ X86_Opcodes_2[Opcode2].type = "EXT_SUFFIX" /\ \E i : Continue(i, "suffix")
  BY DEF Suffix_Operands
<1>2. Opcode2 \in Byte /\ OpcodeOf(code, dwRet) = 256 + Opcode2
  BY <1>1, TwoByteCounted
<1>3. Opcode2 = \h0F
  <2>1. Fits2(X86_Opcodes_2[Opcode2], Opcode2)
    BY <1>2, AllFit
  <2> QED BY <1>1, <2>1 DEF Fits2, Indirect, SPECIAL, INVALID
<1>4. Miscounted(dwRet)
  BY <1>2, <1>3 DEF Miscounted
<1> QED BY <1>1, <1>4, MiscountedOn, CountContinued

LEMMA SuffixCounts == DecodeInv /\ CountInv /\ Suffix_Extension => CountInv'
<1> SUFFICES ASSUME DecodeInv, CountInv, Suffix_Extension PROVE CountInv'
  OBVIOUS
<1>1. pc = "suffix" /\ \E i : Continue(i, "check")
  BY DEF Suffix_Extension
<1>2. Miscounted(dwRet)
  BY <1>1 DEF CountInv, Counted, CountedAt
<1> QED BY <1>1, <1>2, MiscountedOn, CountContinued

LEMMA Extension64Counts == DecodeInv /\ CountInv /\ Extension_64 => CountInv'
<1> SUFFICES ASSUME DecodeInv, CountInv, Extension_64 PROVE CountInv'
  OBVIOUS
<1> DEFINE b == Opcode
           c == Opcode2
           i == IF b = TWO_BYTE_OPCODE THEN TwoByte(ins) ELSE OneByte(ins)
           row == i.row.table[1]
           j == [i EXCEPT !.row = row]
<1>1. \E m \in BOOLEAN :
         /\ CodedAt(code, dwRet, i) /\ i.OperandSize = OperandSizeAt(code, dwRet)
         /\ i.modrm # NoModRM <=> m
         /\ RowFits(row, m, KindAt(code, dwRet))
  <2>1. CASE pc = "opcode" /\ X86_Opcodes_1[b].type = "EXT_64"
    <3>1. b # TWO_BYTE_OPCODE /\ b \in Byte /\ b \notin PrefixBytes
      BY <2>1, Reading, PrefixRows, Escape0F
    <3> DEFINE h == OneByte(ins)
               r == RegField(code, dwRet)
    <3>2. /\ CodedAt(code, dwRet, h) /\ h.OperandSize = OperandSizeAt(code, dwRet)
          /\ h.row = X86_Opcodes_1[b] /\ (h.modrm # NoModRM <=> b \in X86_ModRM_1)
          /\ KindAt(code, dwRet) = Kind1(b, r)
      BY <2>1, <3>1, OneByteCounted
    <3>3. b = \h63 /\ RowFits(h.row.table[1], TRUE, "none")
      <4>1. Fits1(X86_Opcodes_1[b], b)
        BY <3>1, AllFit
      <4> QED BY <2>1, <3>1, <3>2, <4>1 DEF Fits1, Indirect, SPECIAL, INVALID, RowIs
    <3>4. i = h
      BY <3>1
    <3> HIDE DEF h, r, i, b
    <3>5. \h63 \in X86_ModRM_1 /\ Kind1(\h63, r) = "none"
      BY DEF X86_ModRM_1, Kind1
    <3> QED BY <3>2, <3>3, <3>4, <3>5
  <2>2. CASE Escaped /\ ~Rejected2 /\ X86_Opcodes_2[c].type = "EXT_64"
    <3> DEFINE h == TwoByte(ins)
    <3>1. /\ c \in Byte /\ h.row = X86_Opcodes_2[c]
          /\ h.OperandSize = OperandSizeAt(code, dwRet) /\ KindAt(code, dwRet) = Kind2(c)
          /\ h.modrm # NoModRM <=> c \in X86_ModRM_2
          /\ (c \in Coded_2 <=> c \in X86_ModRM_2) => CodedAt(code, dwRet, h)
      BY <2>2, TwoByteCounted
    <3>2. c = \h05 /\ RowFits(h.row.table[1], FALSE, "none")
      <4>1. Fits2(X86_Opcodes_2[c], c)
        BY <3>1, AllFit
      <4> QED BY <2>2, <3>1, <4>1 DEF Fits2, Indirect, SPECIAL, INVALID, RowIs
    <3>3. i = h
      BY <2>2 DEF Escaped
    <3> HIDE DEF h, i, b, c
    <3>4. \h05 \notin X86_ModRM_2 /\ \h05 \notin Coded_2 /\ Kind2(\h05) = "none"
      BY DEF X86_ModRM_2, Coded_2, Kind2
    <3> QED BY <3>1, <3>2, <3>3, <3>4
  <2> QED BY <2>1, <2>2 DEF Extension_64
<1>2. Typed(i)
  BY <1>1 DEF CodedAt
<1>3. Continue(j, "check")
  <2>1. j = [i EXCEPT !.row = @.table[1]]
    <3> HIDE DEF i
    <3> QED BY <1>2 DEF Typed, Fields
  <2> QED BY <2>1 DEF Extension_64
<1> HIDE DEF i, row
<1>4. Typed(j) /\ j.row = row /\ Alike(i, j) /\ j.OperandSize = i.OperandSize
  <2>1. j.row = row /\ Alike(i, j) /\ j.OperandSize = i.OperandSize
    BY <1>2 DEF Alike, Typed, Fields
  <2>2. Typed(j)
    BY <1>2 DEF Typed, Fields
  <2> QED BY <2>1, <2>2
<1> HIDE DEF j
<1>5. PICK m \in BOOLEAN : /\ CodedAt(code, dwRet, i) /\ i.OperandSize = OperandSizeAt(code, dwRet)
                           /\ i.modrm # NoModRM <=> m
                           /\ RowFits(j.row, m, KindAt(code, dwRet))
  BY <1>1, <1>4
<1>6. ReadyAt(code, dwRet, j)
  BY <1>4, <1>5, SelectedReady
<1>7. Counted("check", j)
  BY <1>6, ReadyCounted
<1> QED BY <1>3, <1>7, CountContinued

LEMMA AssertedAlike ==
  ASSUME NEW i, Typed(i), NEW line, NEW c
  PROVE  Typed(Assert_(i, line, c)) /\ Alike(i, Assert_(i, line, c))
<1>1. Typed(Assert_(i, line, c))
  BY Asserting DEF Follows
<1>2. Alike(i, Assert_(i, line, c))
  BY DEF Alike, Assert_, Fail, Typed, Fields
<1> QED BY <1>1, <1>2

LEMMA SSEAlike ==
  ASSUME NEW i, Typed(i)
  PROVE  Typed(SSE_Removed(i)) /\ Alike(i, SSE_Removed(i))
<1> DEFINE listed == i.prefixes # <<>>
           j == Assert_(i, 1337, listed)
           l == [j EXCEPT !.OpcodeLength = 3, !.repeat = "none", !.opSize = FALSE,
                          !.prefixes = IF @ = <<>> THEN @ ELSE Tail(@)]
           m == [l EXCEPT !.OperandSize = 4]
<1>1. SSE_Removed(i) \in {l, m}
  BY DEF SSE_Removed
<1> HIDE DEF listed
<1>2. Typed(j) /\ Alike(i, j)
  BY AssertedAlike
<1> HIDE DEF j
<1>3. Alike(i, l) /\ DOMAIN l = Fields
  BY <1>2 DEF Alike, Typed, Fields
<1> HIDE DEF l
<1>4. Alike(i, m)
  BY <1>3 DEF Alike, Fields
<1> HIDE DEF m
<1> QED BY <1>1, <1>3, <1>4, SSERemoved DEF Rowed

LEMMA SSECounts == DecodeInv /\ CountInv /\ SSE => CountInv'
<1> SUFFICES ASSUME DecodeInv, CountInv, SSE PROVE CountInv'
  OBVIOUS
<1> DEFINE o == Opcode2
           h == TwoByte(ins)
           m == SSE_Removed(h)
           modrm == Opcode2 \in X86_ModRM_2
           i == Assert_(m, 1360, modrm)
           row == X86_SSE(ins.ssePrefix)[o]
           r == reg(i)
           extended == row.table[r]
           group == X86_Groups_2[o]
           invalid == INVALID(extended)
           a == Abort(i)
           g == [i EXCEPT !.row = extended, !.group = group, !.extension = r]
           b == AbortIf(g, invalid)
           c == [i EXCEPT !.row = row]
<1>1. \/ Continue(a, "check")
      \/ ~INVALID(row) /\ row.type = "GROUP" /\ Continue(b, "check")
      \/ ~INVALID(row) /\ row.type # "GROUP" /\ Continue(c, "check")
  <2>1. CASE INVALID(row)
    BY <2>1 DEF SSE, INVALID
  <2>2. CASE ~INVALID(row) /\ row.type = "GROUP"
    BY <2>2 DEF SSE, INVALID
  <2>3. CASE ~INVALID(row) /\ row.type # "GROUP"
    BY <2>3 DEF SSE, INVALID
  <2> QED BY <2>1, <2>2, <2>3
<1>2. Escaped /\ ins.ssePrefix # 0
  BY DEF SSE, IsSSE
<1>3. /\ Typed(h) /\ o \in Byte /\ KindAt(code, dwRet) = Kind2(o)
      /\ h.modrm # NoModRM <=> o \in X86_ModRM_2
      /\ (o \in Coded_2 <=> o \in X86_ModRM_2) => CodedAt(code, dwRet, h)
      /\ o \in X86_ModRM_2 => RegField(code, dwRet) = reg(h)
  BY <1>2, TwoByteCounted
<1>4. FitsSSE(row, o)
  <2>1. pc = "opcode" /\ Opcode \notin PrefixBytes
    BY <1>2 DEF Escaped, TWO_BYTE_OPCODE, PrefixBytes
  <2>2. ins.ssePrefix \in {\h66, \hF2, \hF3}
    BY <1>2, <2>1, SizesFound DEF KnownSSE
  <2> QED BY <1>3, <2>2, AllFit
<1> HIDE DEF h
<1>5. Typed(m) /\ Alike(h, m)
  BY <1>3, SSEAlike
<1> HIDE DEF m, modrm
<1>6. Typed(i) /\ Alike(h, i)
  <2>1. Typed(i) /\ Alike(m, i)
    BY <1>5, AssertedAlike
  <2> HIDE DEF i
  <2> QED BY <1>5, <2>1 DEF Alike
<1>7. r \in 0..7
  BY <1>6, RegRange
<1> HIDE DEF i, r, row, extended, invalid, group, o
<1>8. ~Running(a)
  BY <1>6 DEF Running, Abort, Typed, Fields
<1>9. Typed(g) /\ g.row = extended /\ Alike(i, g)
  <2>1. g.row = extended /\ Alike(i, g)
    BY <1>6 DEF Alike, Typed, Fields
  <2>2. Typed(g)
    BY <1>6, <1>7 DEF Typed, Fields
  <2> QED BY <2>1, <2>2
<1> HIDE DEF g
<1>10. Typed(b) /\ b.row = extended /\ Alike(i, b) /\ (Running(b) => ~invalid)
  <2>1. Typed(b) /\ b.row = g.row /\ Alike(g, b) /\ (Running(b) => ~invalid)
    BY <1>9, AbortedAlike
  <2> HIDE DEF b
  <2> QED BY <1>9, <2>1 DEF Alike
<1> HIDE DEF b
<1>11. Typed(c) /\ c.row = row /\ Alike(i, c)
  <2>1. c.row = row /\ Alike(i, c)
    BY <1>6 DEF Alike, Typed, Fields
  <2>2. Typed(c)
    BY <1>6 DEF Typed, Fields
  <2> QED BY <2>1, <2>2
<1> HIDE DEF a, c
<1>12. ASSUME o \in Coded_2, o \in X86_ModRM_2, NEW j, Typed(j), Alike(i, j),
              RowFits(j.row, TRUE, Kind2(o))
       PROVE  Counted("check", j)
  <2>1. CodedAt(code, dwRet, h) /\ h.modrm # NoModRM
    BY <1>3, <1>12
  <2>2. Alike(h, j)
    BY <1>6, <1>12 DEF Alike
  <2>3. CodedAt(code, dwRet, j) /\ j.modrm # NoModRM
    BY <1>12, <2>1, <2>2, AlikeCoded DEF Alike
  <2>4. Kind2(o) \notin {"operand", "far"}
    BY <1>3, <1>12 DEF Kind2, Coded_2
  <2>5. PICK n \in BOOLEAN : n = TRUE
    OBVIOUS
  <2>6. RowFits(j.row, n, KindAt(code, dwRet)) /\ n
    BY <1>3, <1>12, <2>5
  <2>7. ReadyAt(code, dwRet, j)
    BY <1>3, <2>3, <2>4, <2>6, RowGiven
  <2> QED BY <2>7, ReadyCounted
<1>13. CASE ~INVALID(row) /\ row.type = "GROUP" /\ Continue(b, "check")
  <2>1. o \in Coded_2 /\ o \in X86_ModRM_2 /\ TableFits(row.table, Kind2(o))
    BY <1>4, <1>13 DEF FitsSSE, Indirect
  <2>2. invalid \/ RowFits(extended, TRUE, Kind2(o))
    <3>1. INVALID(row.table[r]) \/ RowIs(row.table[r], TRUE, Kind2(o))
      BY <1>7, <2>1 DEF TableFits
    <3> QED BY <3>1 DEF RowIs, invalid, extended
  <2>3. Running(b) => Counted("check", b)
    BY <1>10, <1>12, <2>1, <2>2
  <2> QED BY <1>13, <2>3, CountContinued
<1>14. CASE ~INVALID(row) /\ row.type # "GROUP" /\ Continue(c, "check")
  <2>1. o \in Coded_2 /\ o \in X86_ModRM_2 /\ RowFits(row, TRUE, Kind2(o))
    BY <1>4, <1>14 DEF FitsSSE, RowIs
  <2>2. Counted("check", c)
    BY <1>11, <1>12, <2>1
  <2> QED BY <1>14, <2>2, CountContinued
<1>15. CASE Continue(a, "check")
  BY <1>8, <1>15, CountContinued
<1> QED BY <1>1, <1>13, <1>14, <1>15

ModRMRow(b, row) ==
  \/ b \in {\hC8, \hC9} /\ row.type # "GROUP" /\ row.ops = <<>>
  \/ b = \hF8 /\ row.type # "GROUP" /\ row.ops # <<>> /\ RowFits(row, FALSE, "none")
  \/ row.type = "GROUP" /\ row.table = X86_Group_7

LEMMA ModRMRows ==
  ASSUME NEW b \in Byte
  PROVE  ModRMRow(b, X86_0F01_ModRM[b])
<1>1. CASE b \in {\hC8, \hC9}
  <2>1. X86_0F01_ModRM[b] = NOARGS
    BY <1>1 DEF X86_0F01_ModRM
  <2>2. NOARGS.ops = <<>> /\ NOARGS.type # "GROUP"
    BY DEF NOARGS, Reads, Row
  <2> QED BY <1>1, <2>1, <2>2 DEF ModRMRow
<1>2. CASE b = \hF8
  <2>1. X86_0F01_ModRM[b] = As("64BIT", Reads(<<Reg>>))
    BY <1>2 DEF X86_0F01_ModRM
  <2>2. RowIs(As("64BIT", Reads(<<Reg>>)), FALSE, "none")
    BY RegisterLists, RowsFit DEF Ordinary
  <2>3. As("64BIT", Reads(<<Reg>>)).ops = <<Reg>>
    BY DEF As, Reads, Row
  <2>4. As("64BIT", Reads(<<Reg>>)).type # "GROUP"
    BY <2>2 DEF RowIs, Indirect
  <2> DEFINE row == As("64BIT", Reads(<<Reg>>))
  <2>5. row.ops # <<>> /\ row.type # "GROUP" /\ RowFits(row, FALSE, "none")
    <3>1. row.ops # <<>>
      BY <2>3
    <3>2. RowFits(row, FALSE, "none")
      BY <2>2 DEF RowIs
    <3> QED BY <2>4, <3>1, <3>2
  <2> HIDE DEF row
  <2>6. ModRMRow(b, row)
    BY <1>2, <2>5 DEF ModRMRow
  <2> QED BY <2>1, <2>6 DEF row
<1>3. CASE b \notin {\hC8, \hC9, \hF8}
  <2>1. X86_0F01_ModRM[b] = GROUP(X86_Group_7)
    BY <1>3 DEF X86_0F01_ModRM
  <2> DEFINE row == GROUP(X86_Group_7)
  <2>2. row.type = "GROUP" /\ row.table = X86_Group_7
    BY RowTypes
  <2> HIDE DEF row
  <2>3. ModRMRow(b, row)
    BY <2>2 DEF ModRMRow
  <2> QED BY <2>1, <2>3 DEF row
<1> QED BY <1>1, <1>2, <1>3

LEMMA ModRMCounts == DecodeInv /\ CountInv /\ ModRM_Extension => CountInv'
<1> SUFFICES ASSUME DecodeInv, CountInv, ModRM_Extension PROVE CountInv'
  OBVIOUS
<1> DEFINE o == Opcode2
           i == TwoByte(ins)
           row == i.row.table[i.modrm]
           table == row.table
           group == X86_Groups_2[Opcode2]
           a == Abort(i)
           b == Group(i, table, group)
           c == [i EXCEPT !.row = row]
           d == INSTR_INC(c, 1)
<1>1. \/ Continue(a, "check")
      \/ row.type = "GROUP" /\ Continue(b, "check")
      \/ row.type # "GROUP" /\ row.ops # <<>> /\ Continue(c, "check")
      \/ row.type # "GROUP" /\ row.ops = <<>> /\ Continue(d, "check")
  <2>1. CASE INVALID(row)
    BY <2>1 DEF ModRM_Extension, INVALID
  <2>2. CASE ~INVALID(row) /\ row.type = "GROUP"
    BY <2>2 DEF ModRM_Extension, INVALID
  <2>3. CASE ~INVALID(row) /\ row.type # "GROUP" /\ row.ops = <<>>
    BY <2>3 DEF ModRM_Extension, INVALID
  <2>4. CASE ~INVALID(row) /\ row.type # "GROUP" /\ row.ops # <<>>
    BY <2>4 DEF ModRM_Extension, INVALID
  <2> QED BY <2>1, <2>2, <2>3, <2>4
<1>2. Escaped /\ X86_Opcodes_2[o].type = "EXT_MODRM"
  BY DEF ModRM_Extension
<1>3. /\ Typed(i) /\ o \in Byte /\ i.row = X86_Opcodes_2[o]
      /\ i.OperandSize = OperandSizeAt(code, dwRet) /\ KindAt(code, dwRet) = Kind2(o)
      /\ i.modrm # NoModRM <=> o \in X86_ModRM_2
      /\ (o \in Coded_2 <=> o \in X86_ModRM_2) => CodedAt(code, dwRet, i)
  BY <1>2, TwoByteCounted
<1>4. o = \h01 /\ i.row.table = X86_0F01_ModRM
  <2>1. Fits2(X86_Opcodes_2[o], o)
    BY <1>3, AllFit
  <2> QED BY <1>2, <1>3, <2>1 DEF Fits2, Indirect, SPECIAL, INVALID
<1>5. CodedAt(code, dwRet, i) /\ i.modrm # NoModRM /\ KindAt(code, dwRet) = "none"
  <2>1. \h01 \in Coded_2 /\ \h01 \in X86_ModRM_2 /\ Kind2(\h01) = "none"
    BY DEF Coded_2, X86_ModRM_2, Kind2
  <2> HIDE DEF o, i
  <2> QED BY <1>3, <1>4, <2>1
<1>6. i.modrm \in Byte /\ row = X86_0F01_ModRM[i.modrm]
  BY <1>3, <1>4, <1>5 DEF Typed
<1>7. reg(i) \in 0..7 /\ (i.modrm \in {\hC8, \hC9, \hF8} => mod(i) = 3)
  <2>1. i.modrm \in {\hC8, \hC9, \hF8} => mod(i) = 3
    BY DEF mod
  <2> QED BY <1>3, <2>1, RegRange
<1> HIDE DEF i, row, group, o
<1>8. \/ i.modrm \in {\hC8, \hC9} /\ row.type # "GROUP" /\ row.ops = <<>>
      \/ /\ i.modrm = \hF8 /\ row.type # "GROUP" /\ row.ops # <<>>
         /\ RowFits(row, FALSE, "none")
      \/ row.type = "GROUP" /\ table = X86_Group_7
  <2>1. ModRMRow(i.modrm, row)
    BY <1>6, ModRMRows
  <2> QED BY <2>1 DEF ModRMRow
<1> HIDE DEF table
<1>9. CASE Continue(a, "check")
  <2>1. ~Running(a)
    BY <1>3 DEF Running, Abort, Typed, Fields
  <2> QED BY <1>9, <2>1, CountContinued
<1>10. CASE row.type = "GROUP" /\ Continue(b, "check")
  <2>1. ASSUME Running(b) PROVE Counted("check", b)
    <3>1. /\ ~INVALID(table[reg(i)]) /\ b.row = table[reg(i)]
          /\ Typed(b) /\ Alike(i, b) /\ b.OperandSize = i.OperandSize
      BY <1>3, <2>1, GroupAlike
    <3> HIDE DEF b
    <3>2. RowFits(b.row, TRUE, "none")
      <4>1. INVALID(X86_Group_7[reg(i)]) \/ RowIs(X86_Group_7[reg(i)], TRUE, "none")
        BY <1>7, Group7Fits DEF TableFits
      <4> QED BY <1>8, <1>10, <3>1, <4>1 DEF RowIs
    <3>3. PICK m \in BOOLEAN : m = TRUE
      OBVIOUS
    <3>4. RowFits(b.row, m, KindAt(code, dwRet)) /\ (i.modrm # NoModRM <=> m)
      BY <1>5, <3>2, <3>3
    <3>5. ReadyAt(code, dwRet, b)
      BY <1>3, <1>5, <3>1, <3>4, SelectedReady
    <3> QED BY <3>5, ReadyCounted
  <2> QED BY <1>10, <2>1, CountContinued
<1>11. Typed(c) /\ c.row = row /\ Alike(i, c) /\ c.OperandSize = i.OperandSize
  <2>1. c.row = row /\ Alike(i, c) /\ c.OperandSize = i.OperandSize
    BY <1>3 DEF Alike, Typed, Fields
  <2>2. Typed(c)
    BY <1>3 DEF Typed, Fields
  <2> QED BY <2>1, <2>2
<1> HIDE DEF a, b, c
<1>12. CodedAt(code, dwRet, c) /\ mod(c) = mod(i) /\ c.modrm # NoModRM
  BY <1>5, <1>11, AlikeCoded DEF Alike
<1>13. CASE row.type # "GROUP" /\ row.ops # <<>> /\ Continue(c, "check")
  <2>1. PICK m \in BOOLEAN : m = FALSE
    OBVIOUS
  <2>2. RowFits(c.row, m, KindAt(code, dwRet)) /\ mod(c) = 3 /\ c.row.ops # <<>>
    BY <1>5, <1>7, <1>8, <1>11, <1>12, <1>13, <2>1
  <2>3. ReadyAt(code, dwRet, c)
    BY <1>5, <1>12, <2>1, <2>2, RowGiven
  <2>4. Counted("check", c)
    BY <2>3, ReadyCounted
  <2> QED BY <1>13, <2>4, CountContinued
<1>14. CASE row.type # "GROUP" /\ row.ops = <<>> /\ Continue(d, "check")
  <2>1. d.row = c.row /\ d.length = c.length + 1
    BY <1>11, TookInc DEF Took, Follows
  <2> HIDE DEF d
  <2>2. d.row.ops = <<>> /\ mod(c) = 3
    BY <1>7, <1>8, <1>11, <1>12, <1>14, <2>1
  <2>3. DoneAt(code, dwRet, d)
    <3>1. code \in Seq(Byte) /\ dwRet \in Nat
      BY DEF DecodeInv, SkipInv
    <3> QED BY <1>5, <1>12, <2>1, <2>2, <3>1, WholeByteDone
  <2>4. Counted("check", d)
    BY <2>3, ReadyCounted
  <2> QED BY <1>14, <2>4, CountContinued
<1> QED BY <1>1, <1>9, <1>10, <1>13, <1>14

(* Without operands all of the instruction has been stepped over. *)
LEMMA NothingCounts ==
  ASSUME NEW text \in Seq(Byte), NEW at \in Nat, NEW i, ReadyAt(text, at, i), i.row.ops = <<>>
  PROVE  i.length = EncodedLength(text, at)
<1> DEFINE kind == KindAt(text, at)
           x == At(text, ModRMAt(text, at))
<1>1. /\ Typed(i) /\ i.length = PrefixCount(text, at) + OpcodeBytes(text, at)
      /\ ModRMAt(text, at) \in Nat /\ i.modrm = NoModRM
      /\ i.modrm = IF OpcodeOf(text, at) \in WithModRM THEN x ELSE NoModRM
  BY DEF ReadyAt, RowAt, CodedAt
<1>2. PICK b \in Byte : OpcodeOf(text, at) \in {b, 256 + b}
  BY DEF ReadyAt, CodedAt
<1>3. PICK m \in BOOLEAN : OpsFit(i.row.ops, m, kind)
  BY DEF ReadyAt, RowAt, RowFits
<1>4. x \in 0..255
  BY <1>1, AtByte DEF Byte
<1>5. RegField(text, at) = (x \div 8) % 8
  BY DEF RegField
<1> HIDE DEF x
<1>6. x # NoModRM /\ x \div 8 \in 0..31 /\ (x \div 8) % 8 \in 0..7
  BY <1>4 DEF NoModRM
<1>7. ImmediateLength(text, at) = Immediates(kind, OperandSizeAt(text, at), AddressSizeAt(text, at))
  BY <1>2, <1>5, <1>6, ImmediatesCoded DEF KindAt
<1>8. OperandSizeAt(text, at) \in Nat /\ AddressSizeAt(text, at) \in Nat
  BY DEF OperandSizeAt, AddressSizeAt
<1>9. ImmediateLength(text, at) = 0
  BY <1>3, <1>7, <1>8, NothingToRead
<1>10. OpcodeOf(text, at) \notin WithModRM /\ i.length \in Int
  BY <1>1, <1>6 DEF Typed
<1> QED BY <1>1, <1>9, <1>10 DEF EncodedLength

LEMMA TookReady ==
  ASSUME NEW text, NEW at, NEW i, NEW j, ReadyAt(text, at, i), Took(i, j, 0)
  PROVE  ReadyAt(text, at, j)
<1>1. /\ Typed(j) /\ j.length = i.length /\ j.next = i.next /\ j.row = i.row /\ j.modrm = i.modrm
      /\ j.OperandSize = i.OperandSize /\ j.AddressSize = i.AddressSize
  BY DEF Took, Follows, ReadyAt, CodedAt, Typed
<1>2. CodedAt(text, at, j) /\ mod(j) = mod(i)
  BY <1>1, AlikeCoded DEF Alike, ReadyAt
<1> QED BY <1>1, <1>2 DEF ReadyAt, RowAt

LEMMA CheckCounts == DecodeInv /\ CountInv /\ CheckPrefixes => CountInv'
<1> SUFFICES ASSUME DecodeInv, CountInv, CheckPrefixes PROVE CountInv'
  OBVIOUS
<1>1. pc = "check" /\ Typed(ins) /\ Counted("check", ins)
  BY DEF CheckPrefixes, DecodeInv, CountInv
<1> DEFINE long == ins.row.type = "64BIT"
           i == AbortIf(ins, long)
           s == Check_Segment(i)
           j == Check_Prefixes(s)
           r == Check_Repeat(j)
           l == CASE i.aborted -> i
                  [] ~i.aborted /\ ~Running(j) -> j
                  [] OTHER -> r
<1>2. Continue(l, "operands")
  BY DEF CheckPrefixes
<1> HIDE DEF long
<1>3. Typed(i) /\ Took(ins, i, 0)
  <2>1. Follows(ins, i)
    BY <1>1, Aborting
  <2>2. /\ i.length = ins.length /\ i.next = ins.next
        /\ i.OperandSize = ins.OperandSize /\ i.AddressSize = ins.AddressSize
    BY <1>1 DEF AbortIf, Typed, Fields
  <2> HIDE DEF i
  <2> QED BY <1>1, <2>1, <2>2, Known DEF Took, Typed
<1> HIDE DEF i
<1>4. Took(i, s, 0) /\ Typed(s)
  <2>1. Took(i, s, 0)
    BY <1>3, ChecksTake
  <2> QED BY <2>1 DEF Took, Follows
<1> HIDE DEF s
<1>5. Took(s, j, 0) /\ Typed(j)
  <2>1. Took(s, j, 0)
    BY <1>4, ChecksTake
  <2> QED BY <2>1 DEF Took, Follows
<1> HIDE DEF j
<1>6. Took(j, r, 0)
  BY <1>5, ChecksTake
<1> HIDE DEF r
<1>7. Took(ins, s, 0)
  <2>1. Took(ins, s, 0 + 0)
    BY <1>1, <1>3, <1>4, TookMore
  <2> QED BY <2>1
<1>8. Took(ins, j, 0)
  <2>1. Took(ins, j, 0 + 0)
    BY <1>1, <1>5, <1>7, TookMore
  <2> QED BY <2>1
<1>9. Took(ins, r, 0)
  <2>1. Took(ins, r, 0 + 0)
    BY <1>1, <1>6, <1>8, TookMore
  <2> QED BY <2>1
<1>10. l \in {i, j, r}
  OBVIOUS
<1> HIDE DEF l
<1>11. Took(ins, l, 0)
  BY <1>3, <1>8, <1>9, <1>10
<1>12. Counted("operands", l)
  <2>1. ReadyAt(code, dwRet, ins) => ReadyAt(code, dwRet, l)
    BY <1>11, TookReady
  <2>2. DoneAt(code, dwRet, ins) => DoneAt(code, dwRet, l)
    BY <1>1, <1>11 DEF DoneAt, Took, Follows, Typed
  <2> QED BY <1>1, <2>1, <2>2 DEF Counted, CountedAt
<1> QED BY <1>2, <1>12, CountContinued

LEMMA OperandsCounts == DecodeInv /\ CountInv /\ Operands => CountInv'
<1> SUFFICES ASSUME DecodeInv, CountInv, Operands PROVE CountInv'
  OBVIOUS
<1>1. /\ pc = "operands" /\ Typed(ins) /\ code \in Seq(Byte) /\ dwRet \in Nat
      /\ Counted("operands", ins)
  BY DEF Operands, DecodeInv, SkipInv, CountInv
<1> DEFINE marked == [k \in 1..3 |-> [ins.operands[k] EXCEPT !.dst = k \in ins.row.dst,
                                                             !.src = k \in ins.row.src,
                                                             !.global = FALSE]]
           i == [ins EXCEPT !.operands = marked]
           j == SetOperands(i, code)
           l == IF ins.row.ops = <<>> THEN ins ELSE j
<1>2. Continue(l, "post")
  <2>1. i = [ins EXCEPT !.operands =
                 [k \in 1..3 |-> [@[k] EXCEPT !.dst = k \in ins.row.dst,
                                              !.src = k \in ins.row.src,
                                              !.global = FALSE]]]
    BY <1>1 DEF Typed, Fields
  <2> QED BY <2>1 DEF Operands
<1>3. /\ \A k \in 1..3 : DOMAIN marked[k] = OperandFields /\ marked[k].length \in Nat
      /\ DOMAIN marked = 1..3
  BY <1>1 DEF Typed, OperandFields
<1> HIDE DEF marked
<1>4. /\ Typed(i) /\ Alike(ins, i) /\ i.row = ins.row /\ i.OperandSize = ins.OperandSize
  BY <1>1, <1>3 DEF Typed, Fields, Alike
<1> HIDE DEF i
<1>5. ASSUME ~Miscounted(dwRet), Running(l)
      PROVE  l.length = EncodedLength(code, dwRet)
  <2>1. ReadyAt(code, dwRet, ins) \/ DoneAt(code, dwRet, ins)
    BY <1>1, <1>5 DEF Counted, CountedAt
  <2>2. CASE ins.row.ops = <<>>
    <3>1. l = ins
      BY <2>2
    <3> QED BY <1>1, <2>1, <2>2, <3>1, NothingCounts DEF DoneAt
  <2>3. CASE ins.row.ops # <<>>
    <3>1. l = j
      BY <2>3
    <3>2. ReadyAt(code, dwRet, ins)
      BY <2>1, <2>3 DEF DoneAt
    <3>3. CodedAt(code, dwRet, i) /\ mod(i) = mod(ins) /\ i.modrm = ins.modrm
      BY <1>4, <3>2, AlikeCoded DEF ReadyAt, Alike
    <3>4. ReadyAt(code, dwRet, i)
      BY <1>4, <3>2, <3>3 DEF ReadyAt, RowAt
    <3> QED BY <1>1, <1>5, <3>1, <3>4, ReadyCounts
  <2> QED BY <2>2, <2>3
<1> HIDE DEF l
<1>6. Running(l) => Counted("post", l)
  BY <1>5 DEF Counted, CountedAt
<1> QED BY <1>2, <1>6, CountContinued

(* A length that has been counted is not counted again.                    *)
LEMMA LengthKept ==
  ASSUME Counted(pc, ins), pc \in {"post", "references", "decoded"},
         NEW next \in {"post", "references", "decoded"}, NEW i, i.length = ins.length
  PROVE  Counted(next, i)
BY DEF Counted, CountedAt

LEMMA PostCounts == DecodeInv /\ CountInv /\ PostChecks => CountInv'
<1> SUFFICES ASSUME DecodeInv, CountInv, PostChecks PROVE CountInv'
  OBVIOUS
<1>1. pc = "post" /\ Typed(ins) /\ Counted(pc, ins)
  BY DEF PostChecks, DecodeInv, CountInv
<1> DEFINE i == Branch_Hints(Unusual_Segment(Unused_Prefixes(ins)))
           refused == \/ i.lock /\ ~IsValidLockPrefix(i)
                      \/ i.length \notin 1..X86_MAX_INSTRUCTION_LEN
           j == AbortIf(i, refused)
<1>2. Continue(j, "references")
  BY DEF PostChecks
<1>3. i.length = ins.length /\ Typed(i)
  BY <1>1, UnusedTake, UnusedChecks DEF Follows
<1> HIDE DEF i, refused
<1>4. j.length = ins.length
  BY <1>3, AbortedAlike DEF Alike
<1> HIDE DEF j
<1>5. Counted("references", j)
  BY <1>1, <1>4, LengthKept
<1> QED BY <1>2, <1>5, CountContinued

LEMMA ReferencesCounts == DecodeInv /\ CountInv /\ References => CountInv'
<1> SUFFICES ASSUME DecodeInv, CountInv, References PROVE CountInv'
  OBVIOUS
<1>1. pc = "references" /\ Typed(ins) /\ Counted(pc, ins)
  BY DEF References, DecodeInv, CountInv
<1> DEFINE b == CodeBranch(ins)
           d1 == DataReference(ins, 1)
           d2 == DataReference(d1, 2)
           d3 == DataReference(d2, 3)
           j == IF ins.row.type \in EXEC THEN b ELSE d3
<1>2. Continue(j, "decoded")
  BY DEF References
<1>3. Stands(ins, b)
  BY <1>1, BranchStands
<1>4. Stands(ins, d1)
  BY <1>1, DataStands
<1> HIDE DEF b, d1
<1>5. Stands(d1, d2)
  BY <1>4, DataStands DEF Stands, Follows
<1> HIDE DEF d2
<1>6. Stands(d2, d3)
  BY <1>5, DataStands DEF Stands, Follows
<1> HIDE DEF d3
<1>7. j.length = ins.length
  BY <1>3, <1>4, <1>5, <1>6 DEF Stands
<1> HIDE DEF j
<1>8. Counted("decoded", j)
  BY <1>1, <1>7, LengthKept
<1> QED BY <1>2, <1>8, CountContinued

LEMMA StartCounts ==
  ASSUME NEW text, NEW address
  PROVE  /\ SizesRead(text, address, X86_InitInstruction(address))
         /\ KnownSSE(X86_InitInstruction(address))
<1> DEFINE i == X86_InitInstruction(address)
<1>1. /\ ~i.opSize /\ ~i.adSize /\ i.length = 0 /\ i.OperandSize = 4 /\ i.AddressSize = 4
      /\ i.ssePrefix = 0
  BY DEF X86_InitInstruction
<1> HIDE DEF i
<1>2. \A b : ~BytesRead(text, address, i.length, b)
  BY <1>1 DEF BytesRead
<1>3. SizesRead(text, address, i) /\ KnownSSE(i)
  BY <1>1, <1>2 DEF SizesRead, KnownSSE
<1> QED BY <1>3 DEF i

LEMMA EndCounts ==
  DecodeInv /\ CountInv /\ (GetInstructionFails \/ Stop \/ Skip) => CountInv'
<1> SUFFICES ASSUME DecodeInv, CountInv, GetInstructionFails \/ Stop \/ Skip PROVE CountInv'
  OBVIOUS
<1>1. WholeInstructions
  BY DEF CountInv
<1>2. CASE GetInstructionFails \/ Stop
  <2>1. pc' \in {"failed", "done"} /\ moved' = moved /\ code' = code
    BY <1>2 DEF GetInstructionFails, Stop
  <2>2. WholeInstructions'
    BY <1>1, <2>1 DEF WholeInstructions, Whole, Miscounted
  <2>3. Counted(pc, ins)'
    BY <2>1 DEF Counted, CountedAt
  <2> QED BY <2>2, <2>3 DEF CountInv
<1>3. CASE Skip
  <2> DEFINE new == [at |-> dwRet, length |-> ins.length]
  <2>1. /\ ins' = X86_InitInstruction(dwRet') /\ pc' \in {"opcode", "done"}
        /\ pc = "decoded" /\ moved' = Append(moved, new) /\ code' = code
    BY <1>3 DEF Skip
  <2>2. CountedAt(code, dwRet', pc', ins')
    BY <2>1, StartCounts DEF CountedAt
  <2>3. Counted(pc, ins)'
    BY <2>1, <2>2 DEF Counted
  <2>4. Miscounted(new.at) \/ Whole(new)
    <3>1. Counted("decoded", ins)
      BY <2>1 DEF CountInv
    <3> QED BY <3>1 DEF Counted, CountedAt, Whole
  <2>5. /\ DOMAIN moved' = 1..(Len(moved) + 1) /\ moved'[Len(moved) + 1] = new
        /\ \A k \in 1..Len(moved) : moved'[k] = moved[k]
        /\ DOMAIN moved = 1..Len(moved) /\ Len(moved) \in Nat
    <3>1. moved \in Seq([at : Nat, length : Nat])
      BY DEF DecodeInv, MovedInv
    <3> HIDE DEF new
    <3> QED BY <2>1, <3>1
  <2> HIDE DEF new
  <2>6. ASSUME NEW k \in DOMAIN moved' PROVE Miscounted(moved'[k].at) \/ Whole(moved'[k])
    <3>1. k \in 1..Len(moved) \/ k = Len(moved) + 1
      BY <2>5
    <3> QED BY <1>1, <2>4, <2>5, <3>1 DEF WholeInstructions
  <2>7. WholeInstructions'
    BY <2>1, <2>6 DEF WholeInstructions, Whole, Miscounted
  <2> QED BY <2>3, <2>7 DEF CountInv
<1> QED BY <1>2, <1>3

LEMMA InitCounts == Init => CountInv
<1> SUFFICES ASSUME Init PROVE CountInv
  OBVIOUS
<1>1. ins = X86_InitInstruction(0) /\ dwRet = 0 /\ pc = "opcode" /\ moved = <<>>
  BY DEF Init
<1>2. Counted(pc, ins)
  BY <1>1, StartCounts DEF Counted, CountedAt
<1>3. WholeInstructions
  BY <1>1 DEF WholeInstructions
<1> QED BY <1>2, <1>3 DEF CountInv

LEMMA NextCounts == DecodeInv /\ CountInv /\ [Next]_vars => CountInv'
<1> SUFFICES ASSUME DecodeInv, CountInv, [Next]_vars PROVE CountInv'
  OBVIOUS
<1>1. CASE UNCHANGED vars
  <2>1. code' = code /\ dwRet' = dwRet /\ ins' = ins /\ pc' = pc /\ moved' = moved
    BY <1>1 DEF vars
  <2>2. Counted(pc, ins) => Counted(pc, ins)'
    BY <2>1 DEF Counted, CountedAt, Miscounted
  <2>3. WholeInstructions => WholeInstructions'
    BY <2>1 DEF WholeInstructions, Whole, Miscounted
  <2> QED BY <2>2, <2>3 DEF CountInv
<1>2. CASE Next
  <2>1. Finished => UNCHANGED vars
    BY DEF Finished
  <2> QED BY <1>1, <1>2, <2>1, PrefixCounts, OneByteCounts, OneByteGroupCounts, FPUCounts,
             InvalidTwoByteCounts, TwoByteCounts, TwoByteGroupCounts, SSECounts, ModRMCounts,
             SuffixOperandsCounts, SuffixCounts, Extension64Counts, CheckCounts,
             OperandsCounts, PostCounts, ReferencesCounts, EndCounts DEF Next
<1> QED BY <1>1, <1>2

(* Every instruction that is moved into the trampoline is moved whole, for *)
(* every machine code: what the decoder has counted at each place is what  *)
(* the encoding has up to there, and an operand of a row takes the bytes   *)
(* the encoding says (disasm_x86.c:2676-2689, mhook.cpp:560-640).  But for *)
(* the few opcodes that are miscounted.                                    *)
THEOREM WholeSkipped == Spec => []WholeInstructions
<1>1. Init => DecodeInv /\ CountInv
  BY InitDecodes, InitCounts
<1>2. (DecodeInv /\ CountInv) /\ [Next]_vars => (DecodeInv /\ CountInv)'
  BY NextDecodes, NextCounts
<1>3. CountInv => WholeInstructions
  BY DEF CountInv
<1> QED BY <1>1, <1>2, <1>3, PTL DEF Spec

=============================================================================
