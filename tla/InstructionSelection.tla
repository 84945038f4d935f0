------------------------ MODULE InstructionSelection ------------------------
(***************************************************************************)
(* Kernel::genLLVMISelManualCode() (core/Kernel.cpp): a region of a kernel *)
(* becomes the text of a selection DAG for the LLVM back end, one node for *)
(* each instruction.  A node has a variable; here it is its number, and    *)
(* <<"input", r>> is the variable that the caller has named for register   *)
(* r.  Wording, types and the constants' nodes are left out, and so are    *)
(* CopyToReg nodes, which NEW2018_08_10 drops from the text.               *)
(***************************************************************************)
EXTENDS Instruction, FiniteSetsExt

CONSTANT Regions               \* instructions, offset, count, inputs, gating

\* An instruction has a destination among the registers, or none.
ASSUME RegionsAssumption ==
    \A r \in Regions :
        /\ r.offset \in Nat /\ r.count \in Nat
        /\ \A k \in 1..Len(r.instructions) :
              GetDest(r.instructions[k]) \in 0..31 \cup {NoRegIndex}

VARIABLES
    region,                    \* the call's kernel and parameters
    index,                     \* indexInstrCrt, 0..numInstructionsToCodegen
    names,                     \* sdNodeVarNameRegDef
    virtual,                   \* virtRegVarNameIdRegDef
    nodes,                     \* what has been written
    inWhere, inRepeat, inGating,
    wheres, endWheres,         \* numWhereInstrs, numEndWhereInstrs
    outcome                    \* "generating", "done" or "assert"

selectionVars == <<region, index, names, virtual, nodes, inWhere, inRepeat, inGating,
                   wheres, endWheres, outcome>>

SelectionRegisters == 0..31

Input(r) == <<"input", r>>
Node(k)  == <<"node", k>>
NotInitialized == <<"none", 0>>            \* STR_NOT_INIT, or no name at all

\* With lane gating, append has put an ENABLE_ALL_CELLS before the region.
Offset(r) == IF r.gating THEN r.offset + 1 ELSE r.offset

Instr(k) == region.instructions[Offset(region) + k + 1]

Init ==
    \E r \in Regions :
        /\ r.inputs # {}                   \* the assertions at the beginning
        /\ Len(r.instructions) >= Offset(r) + r.count
        /\ region = r
        /\ index = 0
        /\ names = [g \in SelectionRegisters |-> IF g \in r.inputs THEN Input(g) ELSE NotInitialized]
        /\ virtual = names
        /\ nodes = << >>
        /\ inWhere = FALSE /\ inRepeat = FALSE /\ inGating = FALSE
        /\ wheres = 0 /\ endWheres = 0
        /\ outcome = "generating"

-----------------------------------------------------------------------------
Current == Instr(index)
Dest == GetDest(Current)
HasDest == Dest # NoRegIndex

\* Mutant: the port of the value, where there is one, is taken for the chain's.
OrderEdgeFirst ==
    IF index = 0 THEN <<Input(Max(region.inputs)), 1>> ELSE <<Node(index), 0>>

\* UPDATE_GLUESTR: the last port of the node before, or of the last input.
\* isRequiredGlueOrChainOutput() is always true.
OrderEdge ==
    IF index = 0 THEN <<Input(Max(region.inputs)), 1>>
    ELSE <<Node(index), nodes[index].outputs>>

NoEdge == <<NotInitialized, 0>>

\* An instruction with a destination where some lanes may keep what they have is
\* a _SPECIAL_H node, tied to the last definition of its destination.
Predicated(where, repeat, gating) == HasDest /\ (where \/ repeat \/ gating)

\* Mutant: ties are to the first definition of a register.
DefineFirst(node) ==
    /\ names' = [names EXCEPT ![Dest] = node]
    /\ virtual' = [virtual EXCEPT ![Dest] = IF @ = NotInitialized THEN node ELSE @]

\* GenerateIfRequiredCopyToReg() with ..._MOST_RECENT_DEFINITION_...
Define(node) ==
    /\ names' = [names EXCEPT ![Dest] = node]
    /\ virtual' = [virtual EXCEPT ![Dest] = node]

\* An assertion of the call: it is over.
Fails == outcome' = "assert" /\ UNCHANGED <<nodes, names, virtual, index>>

\* What every case of the switch comes to, with the operands and the number of
\* results of this one, and under the selection that it leaves.
Written(inputs, outputs, edge, where, repeat, gating) ==
    IF \/ NotInitialized \in {inputs[k] : k \in DOMAIN inputs}
       \/ ~HasDest /\ outputs # 0 /\ Current.opcode \notin
            Opcodes({"WHERE_CRY", "WHERE_EQ", "WHERE_LT", "END_WHERE", "IWRITE", "SETLC",
                     "IJMPNZ"})
    THEN Fails
    ELSE LET special == Predicated(where, repeat, gating) IN
         /\ nodes' = Append(nodes,
                [special |-> special, inputs |-> inputs, outputs |-> outputs, edge |-> edge,
                 tied |-> IF special THEN virtual[Dest] ELSE NotInitialized])
         /\ IF HasDest THEN Define(Node(index + 1)) ELSE UNCHANGED <<names, virtual>>
         /\ index' = index + 1
         /\ outcome' = outcome

Case(opcodes) ==
    /\ outcome = "generating"
    /\ index < region.count
    /\ Current.opcode \in Opcodes(opcodes)
    /\ region' = region

\* Cases that select no lanes.
Plainly(inputs, outputs, edge) ==
    /\ Written(inputs, outputs, edge, inWhere, inRepeat, inGating)
    /\ UNCHANGED <<inWhere, inRepeat, inGating, wheres, endWheres>>

LeftOperand  == names[GetLeft(Current)]
RightOperand == names[GetRight(Current)]

-----------------------------------------------------------------------------
SelectMirrored ==
    /\ Case({"XOR", "AND", "OR", "ADD"})
    /\ Plainly(<<RightOperand, LeftOperand>>, 1, OrderEdge)

SelectBinary ==
    /\ Case({"SUB", "SHL", "SHR", "SHRA", "EQ", "LT", "ULT"})
    /\ Plainly(<<LeftOperand, RightOperand>>, 1, OrderEdge)

\* The carry is that of the instruction before: its result is an operand, and
\* stands for the edge of the order.
SelectWithCarry ==
    /\ Case({"ADDC", "SUBC"})
    /\ IF index = 0 \/ (index > 0 /\ GetDest(Instr(index - 1)) = NoRegIndex)
       THEN Fails /\ UNCHANGED <<inWhere, inRepeat, inGating, wheres, endWheres>>
       ELSE Plainly(<<LeftOperand, RightOperand, names[GetDest(Instr(index - 1))]>>, 1, NoEdge)

SelectUnary ==
    /\ Case({"ISHL", "ISHR", "ISHRA", "POPCNT", "NOT"})
    /\ Plainly(<<LeftOperand>>, 1, OrderEdge)

SelectWithoutOperands ==
    /\ Case({"VLOAD", "MULT_LO", "MULT_HI", "LDSH", "LDIX", "IREAD"})
    /\ Plainly(<< >>, 1, OrderEdge)

\* ST_INDIRECT_H has an output, though WRITE has no destination, and ST_H has no
\* operand with the data.
SelectAccess ==
    \/ Case({"READ", "WRITE"}) /\ Plainly(<<RightOperand>>, 1, OrderEdge)
    \/ Case({"IWRITE"}) /\ Plainly(<< >>, 0, OrderEdge)

SelectWithoutResult ==
    \/ Case({"REDUCE", "REDUCE_U"}) /\ Plainly(<<LeftOperand>>, 0, OrderEdge)
    \/ /\ Case({"MULT", "MULT_U", "CELL_SHL", "CELL_SHR"})
       /\ Plainly(<<LeftOperand, RightOperand>>, 0, OrderEdge)
    \/ Case({"NOP"}) /\ Plainly(<< >>, 0, OrderEdge)

\* Any other instruction, without its operands.
SelectDefault ==
    /\ Case({"BIT_REVERSE"})
    /\ Plainly(<< >>, 1, OrderEdge)

SelectRepeat ==
    /\ Case({"SETLC", "IJMPNZ"})
    /\ inRepeat' = (Current.opcode = Opcode.SETLC)
    /\ Written(<< >>, 0, OrderEdge, inWhere, inRepeat', inGating)
    /\ UNCHANGED <<inWhere, inGating, wheres, endWheres>>

\* The comparison has to be in the region, and before a NOP if there is one.
SelectWhere ==
    /\ Case({"WHERE_CRY", "WHERE_EQ", "WHERE_LT"})
    /\ inWhere' = TRUE
    /\ wheres' = wheres + 1
    /\ IF index = 0 \/ (index = 1 /\ Instr(0).opcode = Opcode.NOP)
       THEN Fails
       ELSE Written(<< >>, 0, OrderEdge, TRUE, inRepeat, inGating)
    /\ UNCHANGED <<inRepeat, inGating, endWheres>>

SelectEndWhere ==
    /\ Case({"END_WHERE"})
    /\ inWhere' = FALSE
    /\ endWheres' = endWheres + 1
    /\ Written(<< >>, 0, OrderEdge, FALSE, inRepeat, inGating)
    /\ UNCHANGED <<inRepeat, inGating, wheres>>

SelectGating ==
    /\ Case({"DISABLE_CELL", "ENABLE_ALL_CELLS"})
    /\ inGating' = (Current.opcode = Opcode.DISABLE_CELL)
    /\ Written(<< >>, 0, OrderEdge, inWhere, inRepeat, inGating')
    /\ UNCHANGED <<inWhere, inRepeat, wheres, endWheres>>

Finish ==
    /\ outcome = "generating"
    /\ index = region.count
    /\ outcome' = IF wheres = endWheres THEN "done" ELSE "assert"
    /\ UNCHANGED <<region, index, names, virtual, nodes, inWhere, inRepeat, inGating,
                   wheres, endWheres>>

Generate ==
    \/ SelectMirrored \/ SelectBinary \/ SelectWithCarry \/ SelectUnary
    \/ SelectWithoutOperands \/ SelectAccess \/ SelectWithoutResult \/ SelectDefault
    \/ SelectRepeat \/ SelectWhere \/ SelectEndWhere \/ SelectGating
    \/ Finish

-----------------------------------------------------------------------------
\* Each node comes after the node before it, by the edge of the order, which is
\* on that node's last port, or by an operand that is its result.
\* The back end may schedule nodes in no other order than the kernel's, between
\* whose instructions flags, products and selections are passed
\* (core/Kernel.cpp:1629-1639 and 1793-1806).
NothingIsReordered ==
    \A k \in DOMAIN nodes :
        LET before == IF k = 1 THEN Input(Max(region.inputs)) ELSE Node(k - 1)
            last == IF k = 1 THEN 1 ELSE nodes[k - 1].outputs
        IN  \/ nodes[k].edge = <<before, last>>
            \/ /\ before \in {nodes[k].inputs[n] : n \in DOMAIN nodes[k].inputs}
               /\ k > 1 => nodes[k - 1].outputs = 1

=============================================================================
