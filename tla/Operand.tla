------------------------------- MODULE Operand -------------------------------
(***************************************************************************)
(* class Operand (core/Operand.cpp) and the macros of Kernel.h: the        *)
(* instructions that a statement of a kernel appends.                      *)
(*                                                                         *)
(* A statement is a record: d is the register assigned to, a and b are     *)
(* registers, or b is an immediate.  The NOPs that Kernel::append() puts   *)
(* in for data hazards change nothing here and are left to module Kernel.  *)
(***************************************************************************)
EXTENDS Instruction

Statement(form, op, d, a, b) == [form |-> form, op |-> op, d |-> d, a |-> a, b |-> b]

\* The statements of a kernel by the macros and operators that write them.
Plain(form, d, a, b)     == Statement(form, "", d, a, b)

InAll                    == Plain("in_all", 0, 0, 0)
Only(condition)          == Statement("where", condition, 0, 0, 0)
NoOperation              == Plain("nop", 0, 0, 0)

Bin(op, d, a, b)         == Statement("binary", op, d, a, b)
ShiftBits(op, d, a, n)   == Statement("shift", op, d, a, n)
Const(d, n)              == Plain("const", d, 0, n)
Index(d)                 == Plain("index", d, 0, 0)

Reduce(a)                == Plain("reduce", 0, a, 0)
ReduceU(a)               == Plain("reduce_u", 0, a, 0)

\* EXECUTE_WHERE_EQ or _LT around a body, after the comparison and the NOP it
\* needs, and the EXECUTE_IN_ALL that follows.
ExecuteWhere(comparison, condition, body) ==
    <<comparison, NoOperation, Only(condition)>> \o body \o <<InAll>>

\* CELL_SHR or CELL_SHL, the NOP, and the result out of SHIFT_REG.
Moved(form, d, a, counts) ==
    <<Plain(form, 0, a, counts), NoOperation, Plain("shiftreg", d, 0, 0)>>

\* The operators and macros with two register operands and a result.
CodeOf == [
    plus |-> "ADD", minus |-> "SUB", addc |-> "ADDC", subc |-> "SUBC",
    or |-> "OR", and |-> "AND", xor |-> "XOR",
    eq |-> "EQ", lt |-> "LT", ult |-> "ULT",
    shl |-> "SHL", shr |-> "SHR", shra |-> "SHRA" ]

\* ... with a register and an immediate, and with one register.
CodeOfShift == [shl |-> "ISHL", shr |-> "ISHR", shra |-> "ISHRA"]
CodeOfUnary == [not |-> "NOT", popcnt |-> "POPCNT", reverse |-> "BIT_REVERSE"]

New(code, rightOrValue, left, dest) ==
    Constructed(Opcode[code], rightOrValue, left, dest)

\* The sums pass their operands the other way round.
Binary(op, a, b, dest) ==
    IF op \in {"plus", "addc"}
    THEN New(CodeOf[op], a, b, dest)
    ELSE New(CodeOf[op], b, a, dest)

\* operator=(Instruction): a product has been appended already and is fetched
\* from MULT_LO; any other instruction gets its destination.
AssignInstruction(d, instr) ==
    IF instr.opcode = Opcode.MULT
    THEN <<New("MULT_LO", 0, 0, d)>>
    ELSE <<[instr EXCEPT !.dest = d]>>

\* operator*: appends, and returns the instruction to be assigned.
Multiply(a, b) == New("MULT", b, a, 0)

\* What one statement appends.
Emitted(st) ==
    CASE st.form = "binary"   -> AssignInstruction(st.d, Binary(st.op, st.a, st.b, 0))
      [] st.form = "update"   -> <<Binary(st.op, st.d, st.b, st.d)>>
      [] st.form = "unary"    -> AssignInstruction(st.d, New(CodeOfUnary[st.op], 0, st.a, 0))
      [] st.form = "shift"    -> AssignInstruction(st.d, New(CodeOfShift[st.op], st.b, st.a, 0))
      [] st.form = "copy"     -> <<New("ISHL", 0, st.a, st.d)>>
      [] st.form = "const"    -> <<New("VLOAD", st.b, 0, st.d)>>
      [] st.form = "index"    -> <<New("LDIX", 0, 0, st.d)>>
      [] st.form = "shiftreg" -> <<New("LDSH", 0, 0, st.d)>>
      [] st.form = "read"     -> <<New("READ", st.b, 0, st.d)>>
      [] st.form = "iread"    -> <<New("IREAD", st.b, 0, st.d)>>
      [] st.form = "write"    -> <<New("WRITE", st.b, st.a, 0)>>
      [] st.form = "iwrite"   -> <<New("IWRITE", st.b, st.a, 0)>>
      [] st.form = "mult"     -> <<Multiply(st.a, st.b)>>
      [] st.form = "product"  -> <<Multiply(st.a, st.b)>>
                                 \o AssignInstruction(st.d, Multiply(st.a, st.b))
      [] st.form = "mult_u"   -> <<New("MULT_U", st.b, st.a, 0)>>
      [] st.form = "multlo"   -> AssignInstruction(st.d, New("MULT_LO", 0, 0, 0))
      [] st.form = "multhi"   -> AssignInstruction(st.d, New("MULT_HI", 0, 0, 0))
      [] st.form = "cellshl"  -> <<New("CELL_SHL", st.b, st.a, 0)>>
      [] st.form = "cellshr"  -> <<New("CELL_SHR", st.b, st.a, 0)>>
      [] st.form = "reduce"   -> <<New("REDUCE", 0, st.a, 0)>>
      [] st.form = "reduce_u" -> <<New("REDUCE_U", 0, st.a, 0)>>
      [] st.form = "in_all"   -> <<New("END_WHERE", 0, 0, 0)>>
      [] st.form = "where"    -> <<New(st.op, 0, 0, 0)>>
      [] st.form = "disable"  -> <<New("DISABLE_CELL", 0, 0, 0)>>
      [] st.form = "enable"   -> <<New("ENABLE_ALL_CELLS", 0, 0, 0)>>
      [] st.form = "nop"      -> <<New("NOP", 0, 0, 0)>>

\* What a kernel's statements append, one after the other, and its words.
Appended(statements) ==
    LET upTo[k \in 0..Len(statements)] ==
            IF k = 0 THEN << >> ELSE upTo[k - 1] \o Emitted(statements[k])
    IN  upTo[Len(statements)]

KernelWords(statements) ==
    LET appended == Appended(statements)
    IN  [k \in DOMAIN appended |-> Assembled(appended[k])]

=============================================================================
