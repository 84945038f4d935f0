----------------------------- MODULE Instruction -----------------------------
(***************************************************************************)
(* class Instruction (arch/connex16-hm-generic): the assembler builds an   *)
(* instruction and sends it as a word of 32 bits, the simulator makes an   *)
(* instruction of the word again.                                          *)
(***************************************************************************)
EXTENDS Integers, Sequences

\* The opcodes of Instruction.h.
Opcode == [
    DISABLE_CELL |-> 48, ENABLE_ALL_CELLS |-> 49, PRINT_REG |-> 259,
    ADD |-> 324, ADDC |-> 356, SUB |-> 340, SUBC |-> 372, POPCNT |-> 368,
    NOT |-> 332, BIT_REVERSE |-> 333, OR |-> 348, AND |-> 364, XOR |-> 380,
    EQ |-> 328, LT |-> 344, ULT |-> 360,
    SHL |-> 320, SHR |-> 336, SHRA |-> 352,
    ISHL |-> 321, ISHR |-> 337, ISHRA |-> 353,
    LDIX |-> 288, LDSH |-> 304, CELL_SHL |-> 274, CELL_SHR |-> 273,
    READ |-> 292, WRITE |-> 276,
    MULT |-> 264, MULT_U |-> 265, MULT_LO |-> 296, MULT_HI |-> 312,
    WHERE_CRY |-> 284, WHERE_EQ |-> 285, WHERE_LT |-> 286, END_WHERE |-> 287,
    REDUCE |-> 256, REDUCE_U |-> 257, SCAN |-> 290,
    SETLC_REDUCE |-> 289, SETLC_REDUCE_NOTNULL |-> 258, NOP |-> 0,
    VLOAD |-> 53, IREAD |-> 52, IWRITE |-> 50,
    SETLC |-> 21, IJMPNZ |-> 19, IJMPNZ_RED |-> 23, PRINT_CHARS |-> 20, QUIT |-> 22 ]

Opcodes(names) == {Opcode[n] : n \in names}

-----------------------------------------------------------------------------
(* Which of the two formats an opcode has: type_for_opcode[].              *)

NoImmediate ==
    {0, 22} \cup 256..259 \cup {264, 265, 273, 274, 276} \cup 284..288
    \cup {292, 296, 304, 312, 320, 321, 324, 328, 332, 333, 336, 337, 340}
    \cup {344, 348, 352, 353, 356, 360, 364, 368, 372, 380}

WithImmediate == 19..21 \cup {23} \cup 48..50 \cup {52, 53}

TypeForOpcode(opcode) ==
    IF opcode \in NoImmediate THEN "no_immediate"
    ELSE IF opcode \in WithImmediate THEN "with_immediate"
    ELSE "unknown"

-----------------------------------------------------------------------------
(* An instruction.  The field that its format does not have is never set;  *)
(* no caller reads it.                                                     *)

Unset == "unset"

\* NO_REG_INDEX: the operand is not a register.
NoRegIndex == 100000

\* 16 bits as a signed number, in the conversions of both constructors.
SignExtended(bits) == IF bits >= 32768 THEN bits - 65536 ELSE bits

\* Instruction(opcode, rightOrValue, left, dest)
Constructed(opcode, rightOrValue, left, dest) ==
    [ type   |-> TypeForOpcode(opcode),
      opcode |-> opcode,
      value  |-> IF TypeForOpcode(opcode) = "with_immediate"
                 THEN SignExtended(rightOrValue % 65536) ELSE Unset,
      right  |-> IF TypeForOpcode(opcode) = "with_immediate"
                 THEN NoRegIndex ELSE rightOrValue,
      left   |-> left,
      dest   |-> dest ]

\* ... which throws or asserts unless
Constructible(i) ==
    /\ i.type # "unknown"
    /\ i.type = "no_immediate" => i.right \in 0..31
    /\ i.left \in 0..31
    /\ i.dest \in 0..31

-----------------------------------------------------------------------------
(* A word, cut where either format has a boundary: bits 31..23, 22..15,    *)
(* 14..10, 9..5 and 4..0.  Bits 31..26 are the opcode of the second        *)
(* format, and bits 25..10 its immediate.                                  *)

\* Mutant: the opcode is not moved to the top of a word with an immediate.
AssembledLow(i) ==
    LET bits == i.value % 65536 IN
    IF i.type = "no_immediate"
    THEN [top |-> i.opcode, middle |-> 0, low |-> i.right,
          left |-> i.left, dest |-> i.dest]
    ELSE [top |-> i.opcode + (bits \div 8192), middle |-> (bits \div 32) % 256,
          low |-> bits % 32, left |-> i.left, dest |-> i.dest]

\* assemble()
Assembled(i) ==
    IF i.type = "no_immediate"
    THEN [top |-> i.opcode, middle |-> 0, low |-> i.right,
          left |-> i.left, dest |-> i.dest]
    ELSE LET bits == i.value % 65536 IN
         [top |-> 8 * i.opcode + bits \div 8192, middle |-> (bits \div 32) % 256,
          low |-> bits % 32, left |-> i.left, dest |-> i.dest]

\* TYPE_BIT_INDEX is bit 30 of the word.
TypeBit(word) == (word.top \div 128) % 2

\* Instruction(word)
Disassembled(word) ==
    IF TypeBit(word) = 0
    THEN [type |-> "no_immediate", opcode |-> word.top, value |-> Unset,
          right |-> word.low, left |-> word.left, dest |-> word.dest]
    ELSE [type |-> "with_immediate", opcode |-> word.top \div 8,
          value |-> SignExtended((word.top % 8) * 8192 + word.middle * 32 + word.low),
          right |-> Unset, left |-> word.left, dest |-> word.dest]

\* ... which throws on a word whose opcode has the other format.
Decodable(word) ==
    LET i == Disassembled(word) IN TypeForOpcode(i.opcode) = i.type

-----------------------------------------------------------------------------
(* The getters, which the simulator takes the operands from.               *)

WithoutRegisters ==
    Opcodes({"NOP", "WHERE_CRY", "WHERE_EQ", "WHERE_LT", "END_WHERE", "DISABLE_CELL",
             "ENABLE_ALL_CELLS", "SETLC", "IJMPNZ", "PRINT_CHARS"})

OnlyDest == Opcodes({"IREAD", "VLOAD", "LDIX", "MULT_LO", "MULT_HI", "LDSH"})

ImmediateShifts == Opcodes({"ISHL", "ISHR", "ISHRA"})

GetLeft(i) ==
    IF i.opcode \in WithoutRegisters \cup OnlyDest \cup Opcodes({"READ"})
    THEN NoRegIndex ELSE i.left

GetRight(i) ==
    IF i.opcode \in WithoutRegisters \cup OnlyDest \cup ImmediateShifts
                    \cup Opcodes({"REDUCE", "REDUCE_U", "SCAN", "IWRITE", "POPCNT",
                                  "NOT", "PRINT_REG"})
    THEN NoRegIndex ELSE i.right

GetDest(i) ==
    IF i.opcode \in WithoutRegisters
                    \cup Opcodes({"REDUCE", "REDUCE_U", "SCAN", "IWRITE", "WRITE",
                                  "MULT", "MULT_U", "CELL_SHL", "CELL_SHR", "PRINT_REG"})
    THEN NoRegIndex ELSE i.dest

\* The immediate of a shift travels in the field of the right register.
GetValue(i) == IF i.opcode \in ImmediateShifts THEN i.right ELSE i.value

\* What the simulator can know of an instruction.
Presented(i) == <<i.opcode, GetDest(i), GetLeft(i), GetRight(i), GetValue(i)>>

=============================================================================
