------------------------------- MODULE Disasm -------------------------------
(***************************************************************************)
(* The disassembler of mhook and its one caller.  DisassembleAndSkip       *)
(* (mhook.cpp:541) decodes the first instructions of the function to be    *)
(* hooked, until at least dwMinLen bytes of whole instructions have been   *)
(* skipped: these bytes are moved to the trampoline and the jump to the    *)
(* hook is written over them.  X86_GetInstruction (disasm_x86.c:965)       *)
(* decodes one instruction, in the order of the source: prefixes, opcode,  *)
(* checks of the prefixes, operands, checks after the operands, references *)
(* to code and data.                                                       *)
(*                                                                         *)
(* The machine code is any of Texts, chosen when the hook is set.  One     *)
(* action is one part of X86_GetInstruction; the record ins is what the    *)
(* decoder has found so far.                                               *)
(***************************************************************************)
EXTENDS X86Operands

(* The jump to the hook, and the room for the instructions it replaces and *)
(* for the jump back: MHOOK_JMPSIZE, MHOOKS_MAX_CODE_BYTES (mhook.cpp).     *)
MHOOK_JMPSIZE == 5
MHOOKS_MAX_CODE_BYTES == 32

CONSTANTS
  Texts,      (* the machine codes considered, sequences of bytes          *)
  dwMinLen    (* bytes the jump to the hook takes, MHOOK_JMPSIZE           *)

ASSUME TextsAssumption == Texts \subseteq Seq(Byte)
ASSUME MinLenAssumption == dwMinLen \in 1 .. MHOOK_JMPSIZE

VARIABLES
  code,       (* the machine code at pFunction                             *)
  dwRet,      (* the bytes skipped, the offset of pLoc from pFunction      *)
  ins,        (* Disassembler->Instruction and the locals of the decoder   *)
  pc,         (* the part of GetInstruction that runs next                 *)
  moved       (* history: the instructions skipped, which will be moved    *)

vars == <<code, dwRet, ins, pc, moved>>

X86_MAX_INSTRUCTION_LEN == 15
X86_MAX_PREFIX_LENGTH == 4
MAX_INSTRUCTION_LENGTH == 25
TWO_BYTE_OPCODE == \h0F

Init ==
  /\ code \in Texts
  /\ dwRet = 0
  /\ ins = X86_InitInstruction(0)
  /\ pc = "opcode"
  /\ moved = <<>>

(* The decoder goes on with the part next, leaves by abort, or ends the    *)
(* process at an assertion.                                                *)
Continue(i, next) ==
  /\ ins' = i
  /\ pc' = IF ins'.failed # 0 THEN "failed" ELSE IF ins'.aborted THEN "aborted" ELSE next
  /\ UNCHANGED <<code, dwRet, moved>>

-----------------------------------------------------------------------------
(* Prefixes. *)

SegmentOf ==
  [prefix \in {\h26, \h2E, \h36, \h3E, \h64, \h65} |->
     CASE prefix = \h26 -> "ES" [] prefix = \h2E -> "CS" [] prefix = \h36 -> "SS"
       [] prefix = \h3E -> "DS" [] prefix = \h64 -> "FS" [] prefix = \h65 -> "GS"]

PREFIX_OPERAND_SIZE == \h66
PREFIX_ADDRESS_SIZE == \h67
PREFIX_LOCK == \hF0
PREFIX_REPNE == \hF2
PREFIX_REP == \hF3

Repeat_Prefix(i, prefix, this, other) ==
  [AnomalyIf(i, i.repeat = other) EXCEPT !.ssePrefix = prefix, !.repeat = this]

OperandSize_Prefix(i) ==
  IF i.opSize THEN [AnomalyIf(i, TRUE) EXCEPT !.ssePrefix = PREFIX_OPERAND_SIZE]
  ELSE [i EXCEPT !.ssePrefix = PREFIX_OPERAND_SIZE, !.opSize = TRUE,
                 !.OperandSize = OtherSize(@)]

AddressSize_Prefix(i) ==
  IF i.adSize THEN AnomalyIf(i, TRUE)
  ELSE [i EXCEPT !.adSize = TRUE, !.AddressSize = OtherSize(@)]

Prefix_Effect(i, prefix) ==
  CASE prefix = PREFIX_REPNE -> Repeat_Prefix(i, prefix, "repne", "rep")
    [] prefix = PREFIX_REP -> Repeat_Prefix(i, prefix, "rep", "repne")
    [] prefix = PREFIX_OPERAND_SIZE -> OperandSize_Prefix(i)
    [] prefix = PREFIX_ADDRESS_SIZE -> AddressSize_Prefix(i)
    [] prefix \in DOMAIN SegmentOf ->
         [SANITY_CHECK_SEGMENT_OVERRIDE(i) EXCEPT !.override = TRUE,
                                                  !.segment = SegmentOf[prefix]]
    [] prefix = PREFIX_LOCK -> [AnomalyIf(i, i.lock) EXCEPT !.lock = TRUE]
    [] OTHER -> Fail(i, 1180)

(* Mutants: one prefix more than the list holds is taken; the fifth prefix  *)
(* is not noted as an anomaly.                                             *)
Prefix_Add_OneMore(i, prefix) ==
  IF Len(i.prefixes) > X86_MAX_INSTRUCTION_LEN THEN Abort(i)
  ELSE [AnomalyIf(i, TRUE) EXCEPT !.prefixes = Append(@, prefix)]
Prefix_Add_Silent(i, prefix) ==
  IF Len(i.prefixes) >= X86_MAX_INSTRUCTION_LEN THEN Abort(i)
  ELSE [Assert_(i, 1195, i.anomaly \/ Len(i.prefixes) < X86_MAX_PREFIX_LENGTH)
          EXCEPT !.prefixes = Append(@, prefix)]
Prefix_Add(i, prefix) ==
  LET count == Len(i.prefixes)
      j == AnomalyIf(i, count = X86_MAX_PREFIX_LENGTH)
  IN IF count >= X86_MAX_INSTRUCTION_LEN THEN Abort(i)
     ELSE [Assert_(j, 1195, j.anomaly \/ count < X86_MAX_PREFIX_LENGTH)
             EXCEPT !.prefixes = Append(@, prefix)]

Opcode == At(code, ins.next)
Opcode2 == At(code, ins.next + 1)
IsPrefix(byte) == X86_Opcodes_1[byte].type = "PREFIX"
Listed(i, prefix) == \E n \in DOMAIN i.prefixes : i.prefixes[n] = prefix

Prefix ==
  /\ pc = "opcode"
  /\ IsPrefix(Opcode)
  /\ LET i == AnomalyIf(INSTR_INC(ins, 1), Listed(ins, Opcode))
     IN Continue(Prefix_Add(Prefix_Effect(i, Opcode), Opcode), "opcode")

-----------------------------------------------------------------------------
(* One-byte opcodes. *)

SPECIAL == {"EXT_FPU", "EXT_64", "EXT_MODRM", "EXT_SUFFIX"}
INVALID(row) == row.type = "NOINSTR"

(* The record once the opcode has been read; the ModRM byte is read but    *)
(* not yet stepped over.                                                   *)
OneByte(i) ==
  LET j == INSTR_INC(i, 1)
  IN [j EXCEPT !.opcode = Opcode, !.OpcodeLength = 1, !.row = X86_Opcodes_1[Opcode],
               !.modrm = IF Opcode \in X86_ModRM_1 THEN At(code, j.next) ELSE NoModRM]

(* A row of a group, which the reg field selects; of an invalid one the    *)
(* ModRM byte is counted before abort.                                     *)
Group(i, table, group) ==
  LET row == table[reg(i)]
  IN IF INVALID(row) THEN Abort([i EXCEPT !.length = @ + 1])
     ELSE [i EXCEPT !.row = row, !.group = group, !.extension = reg(i)]

OneByteOpcode ==
  /\ pc = "opcode"
  /\ ~IsPrefix(Opcode) /\ Opcode # TWO_BYTE_OPCODE
  /\ X86_Opcodes_1[Opcode].type \notin SPECIAL \union {"GROUP"}
  /\ Continue(AbortIf(OneByte(ins), INVALID(X86_Opcodes_1[Opcode])), "check")

OneByteGroup ==
  /\ pc = "opcode"
  /\ X86_Opcodes_1[Opcode].type = "GROUP"
  /\ LET i == OneByte(ins)
     IN Continue(Group(i, i.row.table, X86_Groups_1[Opcode]), "check")

(* The escape opcodes: an instruction without operands, all of them in its *)
(* ModRM byte, is stepped over here.                                       *)
FPU_Extension ==
  /\ pc = "opcode"
  /\ X86_Opcodes_1[Opcode].type = "EXT_FPU"
  /\ LET i == OneByte(ins)
         extension == IF i.modrm < \hC0 THEN reg(i) ELSE i.modrm % 64
         row == i.row.table[IF i.modrm < \hC0 THEN extension ELSE 8 + extension]
         j == [AbortIf(i, INVALID(row)) EXCEPT !.row = row, !.extension = extension]
     IN Continue(IF row.ops = <<>> /\ ~INVALID(row) THEN INSTR_INC(j, 1) ELSE j, "check")

-----------------------------------------------------------------------------
(* Two-byte opcodes. *)

TwoByte(i) ==
  LET j == INSTR_INC(i, 2)
  IN [j EXCEPT !.opcode = Opcode2, !.OpcodeLength = 2, !.row = X86_Opcodes_2[Opcode2],
               !.modrm = IF Opcode2 \in X86_ModRM_2 THEN At(code, j.next) ELSE NoModRM]

Escaped == pc = "opcode" /\ Opcode = TWO_BYTE_OPCODE
Rejected2 ==
  \/ INVALID(X86_Opcodes_2[Opcode2])
  \/ ins.OperandSize = 2 /\ Opcode2 \in X86_Invalid_Op16_2
Special2 == X86_Opcodes_2[Opcode2].type \in SPECIAL
IsSSE == ins.ssePrefix # 0 /\ ~INVALID(X86_SSE(PREFIX_OPERAND_SIZE)[Opcode2])

InvalidTwoByteOpcode ==
  /\ Escaped /\ Rejected2
  /\ Continue(Abort(TwoByte(ins)), "check")

TwoByteOpcode ==
  /\ Escaped /\ ~Rejected2 /\ ~Special2 /\ ~IsSSE
  /\ X86_Opcodes_2[Opcode2].type # "GROUP"
  /\ Continue(TwoByte(ins), "check")

TwoByteGroup ==
  /\ Escaped /\ ~Rejected2 /\ ~IsSSE
  /\ X86_Opcodes_2[Opcode2].type = "GROUP"
  /\ LET i == TwoByte(ins)
     IN Continue(Group(i, i.row.table, X86_Groups_2[Opcode2]), "check")

(* The prefix that is part of the opcode is taken out of the list of       *)
(* prefixes: the first that is not 0 is taken for it.  Groups 13 to 15     *)
(* have rows for the operand size prefix only.                             *)
SSE_Removed(i) ==
  LET j == Assert_(i, 1337, i.prefixes # <<>>)
      l == [j EXCEPT !.OpcodeLength = 3, !.repeat = "none", !.opSize = FALSE,
                     !.prefixes = IF @ = <<>> THEN @ ELSE Tail(@)]
  IN IF i.ssePrefix = PREFIX_OPERAND_SIZE THEN [l EXCEPT !.OperandSize = 4] ELSE l

SSE ==
  /\ Escaped /\ ~Rejected2 /\ ~Special2 /\ IsSSE
  /\ LET i == Assert_(SSE_Removed(TwoByte(ins)), 1360, Opcode2 \in X86_ModRM_2)
         row == X86_SSE(ins.ssePrefix)[Opcode2]
         extended == row.table[reg(i)]
     IN Continue(CASE INVALID(row) -> Abort(i)
                   [] row.type = "GROUP" ->
                        AbortIf([i EXCEPT !.row = extended, !.group = X86_Groups_2[Opcode2],
                                          !.extension = reg(i)], INVALID(extended))
                   [] OTHER -> [i EXCEPT !.row = row], "check")

(* 0F 01: the whole ModRM byte selects a row or group 7. *)
ModRM_Extension ==
  /\ Escaped /\ ~Rejected2
  /\ X86_Opcodes_2[Opcode2].type = "EXT_MODRM"
  /\ LET i == TwoByte(ins)
         row == i.row.table[i.modrm]
         whole == ~INVALID(row) /\ row.type # "GROUP"
     IN Continue(CASE INVALID(row) -> Abort(i)
                   [] row.type = "GROUP" -> Group(i, row.table, X86_Groups_2[Opcode2])
                   [] whole /\ row.ops = <<>> -> INSTR_INC([i EXCEPT !.row = row], 1)
                   [] OTHER -> [i EXCEPT !.row = row], "check")

(* 0F 0F, 3DNow: the opcode stands behind the operands.  They are set      *)
(* first to find it, from a copy of Address, which is left where it was;   *)
(* Length is not.                                                          *)
Suffix_Operands ==
  /\ Escaped /\ ~Rejected2
  /\ X86_Opcodes_2[Opcode2].type = "EXT_SUFFIX"
  /\ LET i == TwoByte(ins)
         plain == IF i.opSize
                  THEN [AnomalyIf(i, TRUE) EXCEPT !.opSize = FALSE, !.OperandSize = 4] ELSE i
         j == Assert_(plain, 1591, plain.next = plain.address + plain.length)
     IN Continue([SetOperands(j, code) EXCEPT !.next = ins.next + 2], "suffix")

Suffix_Extension ==
  /\ pc = "suffix"
  /\ LET row == ins.row.table[At(code, ins.address + ins.length)]
         i == [AbortIf(ins, INVALID(row)) EXCEPT !.row = row, !.OpcodeLength = 3, !.length = @ + 1]
     IN Continue(Assert_(i, 1603, INVALID(row) \/ i.length >= 4 + Len(i.prefixes)), "check")

(* 63 and 0F 05: the first of two rows, the other is for 64-bit code. *)
Extension_64 ==
  /\ \/ pc = "opcode" /\ X86_Opcodes_1[Opcode].type = "EXT_64"
     \/ Escaped /\ ~Rejected2 /\ X86_Opcodes_2[Opcode2].type = "EXT_64"
  /\ LET i == IF Opcode = TWO_BYTE_OPCODE THEN TwoByte(ins) ELSE OneByte(ins)
     IN Continue([i EXCEPT !.row = @.table[1]], "check")

-----------------------------------------------------------------------------
(* The prefixes, now that the opcode is known. *)

Check_Segment(i) ==
  IF i.row.type \in {"PUSHF", "POPF", "ENTER", "LEAVE", "RET", "DEBUG", "OFLOW", "TRAP",
                     "TRAPRET"}
  THEN [SANITY_CHECK_SEGMENT_OVERRIDE(i) EXCEPT !.override = FALSE,
          !.segment = IF i.row.type \in {"PUSHF", "POPF", "ENTER", "LEAVE"} THEN "SS" ELSE "CS"]
  ELSE i

FPU_Types == {"FPU", "FLOADENV", "FSAVE", "FRESTORE"}
SIMD_Types == {"MMX", "SSE", "SSE2", "SSE3"}

(* The prefixes still listed are looked at in their order, up to the first *)
(* that the instruction may not have.                                      *)
Check_Prefixes(i) ==
  LET fpu == i.row.type \in FPU_Types
      IsSize(k) == i.prefixes[k] = PREFIX_OPERAND_SIZE /\ i.row.type \in SIMD_Types \union {"FPU"}
      IsRepeat(k) == i.prefixes[k] \in {PREFIX_REP, PREFIX_REPNE}
      Refused(k) == (IsSize(k) /\ ~i.anomaly) \/ (IsRepeat(k) /\ ~fpu)
      Unmatched(k) == IsRepeat(k) /\ fpu /\ i.repeat = "none"
      Reached(k) == \A n \in 1..(k - 1) : ~Refused(n) /\ ~Unmatched(n)
      listed == DOMAIN i.prefixes
      j == AbortIf(i, \E k \in listed : Reached(k) /\ Refused(k))
      l == Assert_(j, 1683, \A k \in listed : Reached(k) => ~Unmatched(k))
  IN IF i.row.type \in FPU_Types \union SIMD_Types
     THEN [l EXCEPT !.opSize = @ /\ ~\E k \in listed : IsSize(k)] ELSE i

Check_Repeat(i) ==
  CASE i.repeat = "none" \/ i.row.type = "STRCMP" -> i
    [] i.repeat # "none" /\ i.row.type \in {"IN", "OUT", "STRMOV", "STRSTOR", "STRLOAD"} ->
         [AnomalyIf(i, i.repeat = "repne") EXCEPT !.repeat = "rep"]
    [] OTHER -> [AnomalyIf(i, TRUE) EXCEPT !.repeat = "none"]

CheckPrefixes ==
  /\ pc = "check"
  /\ LET i == AbortIf(ins, ins.row.type = "64BIT")
         j == Check_Prefixes(Check_Segment(i))
     IN Continue(CASE i.aborted -> i
                   [] ~i.aborted /\ ~Running(j) -> j
                   [] OTHER -> Check_Repeat(j), "operands")

-----------------------------------------------------------------------------
(* Operands, and the checks that need them. *)

Operands ==
  /\ pc = "operands"
  /\ LET i == [ins EXCEPT !.operands =
                 [k \in 1..3 |-> [@[k] EXCEPT !.dst = k \in ins.row.dst,
                                              !.src = k \in ins.row.src,
                                              !.global = FALSE]]]
     IN Continue(IF ins.row.ops = <<>> THEN ins ELSE SetOperands(i, code), "post")

Unused_Prefixes(i) ==
  IF i.dstAddressing \/ i.srcAddressing THEN i
  ELSE [AnomalyIf(i, i.adSize \/ i.override) EXCEPT !.adSize = FALSE, !.override = FALSE]

EXEC == {"BRANCH", "BRANCHCC", "CALL", "RET", "LOOPCC"}

Unusual_Segment(i) ==
  AnomalyIf(i, \/ i.segment = "ES" /\ i.row.type \notin {"IN", "STRMOV", "STRCMP", "STRSTOR"}
               \/ i.segment = "FS" /\ i.row.type \in EXEC
               \/ i.segment \in {"GS", "selector"})

(* 2E and 3E are hints in front of a conditional branch; the operand has   *)
(* made the segment CS before they are looked at.                          *)
Branch_Hints(i) ==
  IF i.row.type \in {"BRANCHCC", "LOOPCC"} /\ (Listed(i, \h2E) \/ Listed(i, \h3E))
  THEN [AnomalyIf(i, Listed(i, \h3E) \/ i.segment # "CS")
          EXCEPT !.override = FALSE, !.segment = "CS"]
  ELSE i

(* Mutant: whether the operand in memory is written is not looked at.      *)
IsValidLockPrefix_AnyOperand(i) ==
  /\ i.OpcodeLength = 1 => i.opcode \in X86_LockPrefix_1.always
  /\ i.modrm # NoModRM /\ mod(i) # 3
IsValidLockPrefix(i) ==
  LET allowed == IF i.OpcodeLength = 1 THEN X86_LockPrefix_1 ELSE X86_LockPrefix_2
  IN /\ \/ i.opcode \in allowed.always
        \/ /\ i.opcode \in allowed.group
           /\ i.group \in DOMAIN X86_LockPrefix_Groups
           /\ i.extension \in X86_LockPrefix_Groups[i.group]
     /\ i.modrm # NoModRM /\ mod(i) # 3
     /\ i.dstAddressing

(* Mutant: the instruction's length is not limited.                        *)
PostChecks_Unlimited ==
  /\ pc = "post"
  /\ LET i == Branch_Hints(Unusual_Segment(Unused_Prefixes(ins)))
     IN Continue(AbortIf(i, i.lock /\ ~IsValidLockPrefix(i)), "references")
PostChecks ==
  /\ pc = "post"
  /\ LET i == Branch_Hints(Unusual_Segment(Unused_Prefixes(ins)))
     IN Continue(AbortIf(i, \/ i.lock /\ ~IsValidLockPrefix(i)
                            \/ i.length \notin 1..X86_MAX_INSTRUCTION_LEN), "references")

-----------------------------------------------------------------------------
(* What the instruction refers to: a table of addresses is assumed where a *)
(* valid displacement is added to one register.                            *)

OneRegister(i) == i.base # i.index
Scale(i, k) == IF i.scale = 0 THEN i.operands[k].length ELSE i.scale
tmpScale(i, k) ==
  LET scale == Scale(i, k)
      length == i.operands[k].length
  IN IF scale > length THEN scale ELSE length

CodeBranch(i) ==
  IF i.row.type \in {"BRANCH", "CALL"} /\ ~i.operands[1].target /\ i.fullDisplacement
     /\ OneRegister(i)
  THEN LET line == IF i.row.type = "CALL" THEN 2214 ELSE 2172
           j == Assert_([i EXCEPT !.scale = Scale(i, 1)], line, tmpScale(i, 1) <= 16)
       IN Assert_(j, 2216, i.row.type = "CALL" => j.scale > 1)
  ELSE i

DataReference(i, k) ==
  IF k <= Len(i.row.ops) /\ ~i.operands[k].target /\ i.operands[k].global /\ OneRegister(i)
  THEN LET o == i.operands[k]
           j == Assert_(i, 2303, i.scale = 0 => o.length <= \hFF)
           l == Assert_(j, 2309, i.fullDisplacement)
           d == Assert_(l, 2313, o.dst => tmpScale(i, k) <= 16)
       IN [Assert_(d, 2323, o.src => tmpScale(i, k) <= 16) EXCEPT !.scale = Scale(i, k)]
  ELSE i

References ==
  /\ pc = "references"
  /\ Continue(IF ins.row.type \in EXEC THEN CodeBranch(ins)
              ELSE DataReference(DataReference(DataReference(ins, 1), 2), 3), "decoded")

-----------------------------------------------------------------------------
(* GetInstruction and DisassembleAndSkip. *)

(* GetInstruction answers NULL, and DisassembleAndSkip stops. *)
(* Mutant: the loop does not end when there is no instruction.             *)
GetInstructionFails_Retried ==
  /\ pc = "aborted"
  /\ pc' = "opcode"
  /\ ins' = X86_InitInstruction(dwRet)
  /\ UNCHANGED <<code, dwRet, moved>>
GetInstructionFails ==
  /\ pc = "aborted"
  /\ LET i == Assert_(ins, 97, ins.length < MAX_INSTRUCTION_LENGTH)
     IN /\ pc' = IF i.failed # 0 THEN "failed" ELSE "done"
        /\ ins' = i
  /\ UNCHANGED <<code, dwRet, moved>>

(* There is no instruction of type CALLCC in the tables. *)
(* Mutant: conditional branches are skipped like other instructions.       *)
Stops_Unconditional == {"RET", "BRANCH", "CALL", "CALLCC"}
Stops == {"RET", "BRANCH", "BRANCHCC", "CALL", "CALLCC"}

Stop ==
  /\ pc = "decoded"
  /\ ins.row.type \in Stops
  /\ pc' = "done"
  /\ UNCHANGED <<code, dwRet, ins, moved>>

Skip ==
  /\ pc = "decoded"
  /\ ins.row.type \notin Stops
  /\ dwRet' = dwRet + ins.length
  /\ moved' = Append(moved, [at |-> dwRet, length |-> ins.length])
  /\ ins' = X86_InitInstruction(dwRet + ins.length)
  /\ pc' = IF dwRet + ins.length < dwMinLen THEN "opcode" ELSE "done"
  /\ UNCHANGED code

(* What DisassembleAndSkip answers is used by Mhook_SetHook, see Mhook. *)
Finished == pc \in {"done", "failed"} /\ UNCHANGED vars

Next ==
  \/ Prefix
  \/ OneByteOpcode \/ OneByteGroup \/ FPU_Extension
  \/ InvalidTwoByteOpcode \/ TwoByteOpcode \/ TwoByteGroup \/ SSE
  \/ ModRM_Extension \/ Suffix_Operands \/ Suffix_Extension \/ Extension_64
  \/ CheckPrefixes \/ Operands \/ PostChecks \/ References
  \/ GetInstructionFails \/ Stop \/ Skip \/ Finished

Spec == Init /\ [][Next]_vars

-----------------------------------------------------------------------------
(* Safety. *)

Order == <<"opcode", "suffix", "check", "operands", "post", "references", "decoded", "aborted",
           "failed", "done">>
Parts == {Order[n] : n \in DOMAIN Order}

(* The decoder's counters and fields stay in their ranges; at most 15      *)
(* prefixes are listed and a decoded instruction has 1 to 15 bytes         *)
(* (disasm_x86.c:1184-1197, 2104-2114), also where its suffix is counted.  *)
TypeOK ==
  /\ code \in Seq(Byte)
  /\ dwRet \in 0..(dwMinLen + X86_MAX_INSTRUCTION_LEN - 1)
  /\ pc \in Parts
  /\ ins.prefixes \in Seq(PrefixBytes) /\ Len(ins.prefixes) <= X86_MAX_INSTRUCTION_LEN
  /\ ins.modrm \in Byte \union {NoModRM}
  /\ ins.OperandSize \in {2, 4} /\ ins.AddressSize \in {2, 4}
  /\ ins.repeat \in {"none", "rep", "repne"}
  /\ ins.OpcodeLength \in 0..3 /\ ins.extension \in 0..63
  /\ ins.scale \in Nat
  /\ pc = "decoded" => ins.length \in 1..X86_MAX_INSTRUCTION_LEN

(* The instructions whose ModRM byte is not counted, for their rows have   *)
(* no operands - fences and CLFLUSH, UD1 -, and those of 3DNow, of which   *)
(* too much is counted.                                                    *)
Miscounted(at) ==
  \/ OpcodeOf(code, at) = 256 + \hAE /\ RegField(code, at) \in 5..7
  \/ OpcodeOf(code, at) \in {256 + \hB9, 256 + \h0F}

(* The bytes that DisassembleAndSkip lets mhook overwrite are whole        *)
(* instructions, as the IA-32 encoding defines them: nothing in the        *)
(* trampoline is cut in two, and the jump back goes to the start of the    *)
(* next one (mhook.cpp:535-536, 638-639).                                  *)
Whole(skipped) == skipped.length = EncodedLength(code, skipped.at)
EndsOnBoundary == \A k \in DOMAIN moved : Whole(moved[k])

(* The same of the code up to an instruction that is miscounted. *)
WholeInstructions ==
  \A k \in DOMAIN moved : Miscounted(moved[k].at) \/ Whole(moved[k])

(* Nothing that leaves the straight line is moved into the trampoline      *)
(* (mhook.cpp:537-538, 562-566): a relative jump would lead elsewhere, and *)
(* what follows a return may be another function.  LOOP and JECXZ are the  *)
(* exception: their type is not in the list.                               *)
StopsAtBranches == \A k \in DOMAIN moved : ~ControlTransfer(code, moved[k].at)

(* What is moved and the jump back fit in codeTrampoline, whatever the     *)
(* code (mhook.cpp:98-108, 662-663).                                       *)
SkipFits == dwRet + MHOOK_JMPSIZE <= MHOOKS_MAX_CODE_BYTES

(* An assertion about an instruction's operands or its prefixes            *)
(* (disasm_x86.c:2 keeps them) ends the process that is hooked only for    *)
(* what compilers do not emit: 14 or more prefixes, or 10 of an            *)
(* instruction of 3DNow, which is counted twice; and an indirect call or   *)
(* an instruction that saves or loads the whole state of the FPU with an   *)
(* address and a register as its operand.  Not modelled are the assertions *)
(* about the text that is printed, about changes of the stack (2339-2345,  *)
(* 2484) and that no address was noted before (2276, 2285, 2312, 2322).    *)
Fatal(at) ==
  \/ PrefixCount(code, at) >= 14
  \/ PrefixCount(code, at) >= 10 /\ OpcodeOf(code, at) = 256 + \h0F
  \/ /\ InMemory(code, at)
     /\ \/ OpcodeOf(code, at) = \hFF /\ RegField(code, at) \in {2, 3}
        \/ OpcodeOf(code, at) \in {\hD9, \hDD} /\ RegField(code, at) \in {4, 6}
        \/ OpcodeOf(code, at) = 256 + \hAE /\ RegField(code, at) \in {0, 1}
AssertionsHold == pc = "failed" => Fatal(ins.address)

(* A LOCK prefix is accepted only where the processor accepts it, on an    *)
(* instruction that reads and writes memory, which the comment at          *)
(* disasm_x86_tables.h:3449-3452 lists: the checks need the operands, the  *)
(* group and the opcode together (disasm_x86.c:1955-1963, 4611-4662).  BT, *)
(* which only reads, is accepted in group 8 along with BTS, BTR and BTC.   *)
BitTest(at) == OpcodeOf(code, at) = 256 + \hBA /\ RegField(code, at) = 4
LockedWritesMemory ==
  pc = "decoded" /\ HasPrefix(code, ins.address, PREFIX_LOCK) =>
    Lockable(code, ins.address) \/ BitTest(ins.address)

-----------------------------------------------------------------------------
(* Termination. *)

(* Every step takes the skip further, or the decoder to a later part, or,  *)
(* within a part, past one more byte; TypeOK bounds all three, so whatever *)
(* the code is, the hook is set or given up or an assertion fails, and the *)
(* thread that loads the DLL does not decode for ever (mhook.cpp:560,      *)
(* disasm_x86.c:1005).                                                     *)
Place == [k \in Parts |-> CHOOSE n \in DOMAIN Order : Order[n] = k]
Advance ==
  \/ dwRet' > dwRet
  \/ dwRet' = dwRet /\ Place[pc'] > Place[pc]
  \/ dwRet' = dwRet /\ pc' = pc /\ ins'.length > ins.length
SkipAdvances == [][Advance]_vars

=============================================================================
