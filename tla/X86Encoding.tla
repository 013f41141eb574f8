---------------------------- MODULE X86Encoding ----------------------------
(***************************************************************************)
(* What the IA-32 encoding says of an instruction, in 32-bit code: its     *)
(* length, whether it transfers control, and whether it may be locked.     *)
(* This is the reference Disasm is checked against.  It is stated from the *)
(* format of an instruction - prefixes, opcode, ModRM, SIB, displacement,  *)
(* immediate - and shares no table with the disassembler.                  *)
(***************************************************************************)
EXTENDS Integers, Sequences

CONSTANT Filler        (* the byte found past the end of the machine code  *)
ASSUME FillerAssumption == Filler \in 0..255

PrefixBytes == {\h26, \h2E, \h36, \h3E, \h64, \h65, \h66, \h67, \hF0, \hF2, \hF3}

(* The byte at offset k of the machine code; Filler is what stands in      *)
(* memory behind it.                                                       *)
At(code, k) == IF k < Len(code) THEN code[k + 1] ELSE Filler

PrefixCount(code, at) ==
  CHOOSE n \in 0..Len(code) : /\ At(code, at + n) \notin PrefixBytes
                              /\ \A k \in 0..(n - 1) : At(code, at + k) \in PrefixBytes
HasPrefix(code, at, byte) ==
  \E k \in 0..(PrefixCount(code, at) - 1) : At(code, at + k) = byte

-----------------------------------------------------------------------------
(* The opcode: one byte, or 0F and one byte, here plus 256. *)

OpcodeAt(code, at) == at + PrefixCount(code, at)
EscapedAt(code, at) == At(code, OpcodeAt(code, at)) = \h0F
OpcodeBytes(code, at) == IF EscapedAt(code, at) THEN 2 ELSE 1
OpcodeOf(code, at) ==
  IF EscapedAt(code, at) THEN 256 + At(code, OpcodeAt(code, at) + 1)
  ELSE At(code, OpcodeAt(code, at))

Two(bytes) == {256 + b : b \in bytes}

(* The opcodes that a ModRM byte follows. *)
WithModRM ==
  {b \in \h00..\h3F : b % 8 < 4}
    \union {\h62, \h63, \h69, \h6B} \union \h80..\h8F
    \union {\hC0, \hC1} \union \hC4..\hC7 \union \hD0..\hD3 \union \hD8..\hDF
    \union {\hF6, \hF7, \hFE, \hFF}
    \union Two((\h00..\hFF) \ ({\h77} \union \h04..\h0C \union \h30..\h37 \union \h80..\h8F
                \union \hA0..\hA2 \union \hA8..\hAA \union \hC8..\hCF \union {\h0E}))

ModRMAt(code, at) == OpcodeAt(code, at) + OpcodeBytes(code, at)
RegField(code, at) == (At(code, ModRMAt(code, at)) \div 8) % 8
ModField(code, at) == At(code, ModRMAt(code, at)) \div 64
InMemory(code, at) == OpcodeOf(code, at) \in WithModRM /\ ModField(code, at) # 3

(* The ModRM byte with the SIB byte and the displacement. *)
AddressingLength(code, at) ==
  LET modField == ModField(code, at)
      rmField == At(code, ModRMAt(code, at)) % 8
      base == At(code, ModRMAt(code, at) + 1) % 8
      short == HasPrefix(code, at, \h67)
      sib == IF ~short /\ rmField = 4 THEN 1 ELSE 0
      absolute == IF short THEN rmField = 6 ELSE rmField = 5 \/ (sib = 1 /\ base = 5)
      word == IF short THEN 2 ELSE 4
  IN CASE modField = 3 -> 1
       [] modField = 2 -> 1 + sib + word
       [] modField = 1 -> 1 + sib + 1
       [] modField = 0 -> 1 + sib + (IF absolute THEN word ELSE 0)

(* The immediates. *)
ByteImmediate ==
  {b \in \h00..\h3F : b % 8 = 4}
    \union {\h6A, \h6B, \h80, \h82, \h83, \hA8, \hC0, \hC1, \hC6, \hCD, \hD4, \hD5, \hEB}
    \union \h70..\h7F \union \hB0..\hB7 \union \hE0..\hE7
    \union Two(\h70..\h73 \union {\h0F, \hA4, \hAC, \hBA, \hC2, \hC4, \hC5, \hC6})
WordImmediate == {\hC2, \hCA}
OperandImmediate ==
  {b \in \h00..\h3F : b % 8 = 5} \union {\h68, \h69, \h81, \hA9, \hC7, \hE8, \hE9}
    \union \hB8..\hBF \union Two(\h80..\h8F)

ImmediateLength(code, at) ==
  LET opcode == OpcodeOf(code, at)
      operand == IF HasPrefix(code, at, \h66) THEN 2 ELSE 4
      address == IF HasPrefix(code, at, \h67) THEN 2 ELSE 4
      test == RegField(code, at) \in {0, 1}
  IN CASE opcode \in ByteImmediate -> 1
       [] opcode \in WordImmediate -> 2
       [] opcode \in OperandImmediate -> operand
       [] opcode = \hC8 -> 3
       [] opcode \in {\h9A, \hEA} -> operand + 2
       [] opcode \in \hA0..\hA3 -> address
       [] opcode = \hF6 -> IF test THEN 1 ELSE 0
       [] opcode = \hF7 -> IF test THEN operand ELSE 0
       [] OTHER -> 0

EncodedLength(code, at) ==
  PrefixCount(code, at) + OpcodeBytes(code, at)
    + (IF OpcodeOf(code, at) \in WithModRM THEN AddressingLength(code, at) ELSE 0)
    + ImmediateLength(code, at)

-----------------------------------------------------------------------------
(* Jumps, calls and returns that leave the straight line within a process, *)
(* LOOP and JECXZ apart.                                                   *)

LoopInstruction(code, at) == OpcodeOf(code, at) \in \hE0..\hE3

ControlTransfer(code, at) ==
  \/ OpcodeOf(code, at) \in \h70..\h7F \union \hE8..\hEB \union Two(\h80..\h8F)
                              \union {\h9A, \hC2, \hC3, \hCA, \hCB}
  \/ OpcodeOf(code, at) = \hFF /\ RegField(code, at) \in 2..5

(* The instructions a LOCK prefix is defined for: they read and write      *)
(* memory.                                                                 *)
Lockable(code, at) ==
  LET opcode == OpcodeOf(code, at)
      register == RegField(code, at)
  IN /\ InMemory(code, at)
     /\ \/ opcode \in {b \in \h00..\h31 : b % 8 < 2} \union {\h86, \h87}
        \/ opcode \in \h80..\h83 /\ register # 7
        \/ opcode \in {\hF6, \hF7} /\ register \in {2, 3}
        \/ opcode \in {\hFE, \hFF} /\ register \in {0, 1}
        \/ opcode \in Two({\hAB, \hB0, \hB1, \hB3, \hBB, \hC0, \hC1})
        \/ opcode = 256 + \hBA /\ register \in 5..7
        \/ opcode = 256 + \hC7 /\ register = 1

=============================================================================
