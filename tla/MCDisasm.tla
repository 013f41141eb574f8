------------------------------ MODULE MCDisasm ------------------------------
(***************************************************************************)
(* Instances of Disasm for TLC: the machine codes that are looked at.      *)
(***************************************************************************)
EXTENDS Disasm

-----------------------------------------------------------------------------
(* The machine codes.  In valid the displacement is an address IS_VALID_   *)
(* ADDRESS accepts, also where a SIB byte or an address of 16 bits comes   *)
(* first.                                                                  *)

valid == <<0, 0, 64, 0, 64, 0>>
zero == <<0, 0, 0, 0, 0, 0>>

Escape2 == {<<TWO_BYTE_OPCODE, b>> : b \in Byte}
OneBytes == {<<b>> : b \in Byte \ {TWO_BYTE_OPCODE}}
ModRMOpcodes ==
  {<<b>> : b \in X86_ModRM_1} \union {<<TWO_BYTE_OPCODE, b>> : b \in X86_ModRM_2}
GroupOpcodes ==
  {<<b>> : b \in DOMAIN X86_Groups_1 \union \hD8..\hDF}
    \union {<<TWO_BYTE_OPCODE, b>> : b \in DOMAIN X86_Groups_2}

(* Each opcode with each prefix, its operand in memory and in a register.  *)
Prefixes1 == {<<>>} \union {<<p>> : p \in PrefixBytes}
Prefixes2 == {<<\h66, \h67>>, <<\hF3, \h66>>, <<\h2E, \hF3>>, <<\h3E, \hF2>>, <<\h66, \h66>>,
              <<\hF0, \hF3>>, <<\h3E, \h26, \h67, \h66>>,
              <<\hF0, \h67, \hF3, \h3E, \h66>>}
OpcodeTexts ==
  {p \o o \o <<m>> \o valid : p \in Prefixes1 \union Prefixes2, o \in OneBytes \union Escape2,
                              m \in {\h08, \hC8}}

(* Each form of addressing. *)
AddressForms ==
  {<<m>> \o t : m \in {\h05, \h06, \h44, \h46, \h84, \h85, \h86}, t \in {valid, zero}}
    \union {<<m, sib>> \o t : m \in {\h04, \h84}, sib \in {\h05, \h20, \h0D, \h48, \hCD, \h25},
                              t \in {valid, zero}}
AddressTexts ==
  {p \o o \o f : p \in {<<>>, <<\h67>>}, o \in ModRMOpcodes, f \in AddressForms}

(* Each row of each group, with an index register of scale 1 among them.   *)
GroupTexts ==
  {p \o o \o <<m>> \o t :
     p \in {<<>>, <<\h66>>, <<\hF0>>, <<\hF2>>}, o \in GroupOpcodes,
     m \in {8 * r : r \in 0..7} \union {\hC0 + r : r \in 0..63}, t \in {<<\h00>> \o valid}}
    \union
  {o \o <<m>> \o t :
     o \in GroupOpcodes, m \in {8 * r + 4 : r \in 0..7} \union {8 * r + 132 : r \in 0..7},
     t \in {<<\h05>> \o valid, <<\h88>> \o valid}}

(* Prefixes up to and beyond what an instruction may have. *)
LongTexts ==
  {[k \in 1..n |-> p] \o o :
     n \in 1..17, p \in {\h3E, \h66, \h67, \hF3},
     o \in {<<\h90>>, <<\hC7, \h84, \h24>> \o valid \o zero, <<TWO_BYTE_OPCODE, \h58, \hC0>>,
           <<TWO_BYTE_OPCODE, \h0F, \h84, \h24>> \o valid \o <<\hB4>>}}
    \union
  {<<\h55, \h83, \hEC, \h08>> \o [k \in 1..n |-> \h3E] \o <<\hC7, \h84, \h24>> \o valid \o zero :
     n \in {4, 5, 13}}

(* Several instructions. *)
Instructions ==
  {<<\h55>>, <<\h8B, \hEC>>, <<\h8B, \hFF>>, <<\h83, \hEC, \h08>>, <<\hE2, \hFE>>,
   <<TWO_BYTE_OPCODE, \hAE, \hE8>>, <<\h74, \h02>>, <<\hFF, \h25>> \o <<0, 0, 64, 0>>,
   <<\h64, \hA1>> \o <<0, 0, 64, 0>>, <<\hF3, \hA5>>, <<\hC3>>, <<\hCD, \h2E>>,
   [k \in 1..4 |-> \h3E] \o <<\hC7, \h84, \h24>> \o <<0, 0, 64, 0, 1, 0, 0, 0>>}
SeveralTexts ==
  {a \o b \o c \o d : a \in Instructions, b \in Instructions, c \in Instructions,
                      d \in {<<\h90>>, <<\h6A, \h01>>}}

TextsDef ==
  OpcodeTexts \union AddressTexts \union GroupTexts \union LongTexts \union SeveralTexts

=============================================================================
