---------------------------- MODULE SelectedCode ----------------------------
(***************************************************************************)
(* A region of a kernel and the nodes that InstructionSelection has made   *)
(* of it, executed side by side.  A value is known by the step that has    *)
(* computed it.  One lane is looked at; what it does at a WHERE, and how   *)
(* often a REPEAT goes round, is left open.                                *)
(*                                                                         *)
(* The nodes are executed as the back end is to allocate them: a node has  *)
(* a register of its own, unless it is tied.                               *)
(***************************************************************************)
EXTENDS InstructionSelection

CONSTANT MaxJumps              \* bound: jumps back in an execution

VARIABLES
    at,                        \* the position of the next instruction
    selected, disabled,        \* the lane
    step,
    jumps,
    registers,                 \* the step that has set a register of the kernel
    places                     \* ... and the place of a node or input

executionVars == <<at, selected, disabled, step, jumps, registers, places>>
vars == <<selectionVars, executionVars>>

Nowhere == 0

\* The nodes of a chain of ties are in one place.
PlaceOf(code) ==
    LET place[k \in 0..Len(code)] ==
            IF k = 0 THEN NotInitialized
            ELSE IF code[k].tied = NotInitialized THEN Node(k)
            ELSE IF code[k].tied[1] = "input" THEN code[k].tied
            ELSE place[code[k].tied[2]]
    IN  place

Place(definition) ==
    IF definition[1] = "node" THEN PlaceOf(nodes)[definition[2]] ELSE definition

Held(definition) == places[Place(definition)]

CodeInit ==
    /\ Init
    /\ at = 0
    /\ selected = TRUE                     \* the region follows EXECUTE_IN_ALL
    /\ disabled = FALSE
    /\ step = 0
    /\ jumps = 0
    /\ registers = [g \in SelectionRegisters |-> -(g + 1)]
    /\ places = << >>

\* The inputs are where the registers are that they have been named for.
Allocate ==
    /\ outcome = "done"
    /\ places = << >>
    /\ LET all == {Input(g) : g \in region.inputs} \cup {Node(k) : k \in DOMAIN nodes} IN
       places' = [d \in all |-> IF d[1] = "input" THEN -(d[2] + 1) ELSE Nowhere]
    /\ UNCHANGED <<selectionVars, at, selected, disabled, step, jumps, registers>>

Running == outcome = "done" /\ places # << >> /\ at < region.count
Next0 == Instr(at)
NextNode == nodes[at + 1]
Takes == selected /\ ~disabled

Executing(opcodes) ==
    /\ Running
    /\ Next0.opcode \in Opcodes(opcodes)
    /\ step' = step + 1
    /\ UNCHANGED selectionVars

\* A tied node leaves the lane what was in its place, any other one nothing.
Compute ==
    /\ Running
    /\ Next0.opcode \notin Opcodes({"WHERE_CRY", "WHERE_EQ", "WHERE_LT", "END_WHERE",
                                    "DISABLE_CELL", "ENABLE_ALL_CELLS", "IJMPNZ"})
    /\ step' = step + 1
    /\ IF GetDest(Next0) = NoRegIndex THEN UNCHANGED <<registers, places>>
       ELSE LET place == Place(Node(at + 1)) IN
            /\ registers' = IF Takes THEN [registers EXCEPT ![GetDest(Next0)] = step']
                            ELSE registers
            /\ places' = IF Takes THEN [places EXCEPT ![place] = step']
                         ELSE IF NextNode.tied = NotInitialized
                              THEN [places EXCEPT ![place] = Nowhere]
                         ELSE places
    /\ at' = at + 1
    /\ UNCHANGED <<selectionVars, selected, disabled, jumps>>

SelectLane ==
    /\ \/ /\ Executing({"WHERE_CRY", "WHERE_EQ", "WHERE_LT"})
          /\ selected' \in BOOLEAN
       \/ Executing({"END_WHERE"}) /\ selected' = TRUE
    /\ at' = at + 1
    /\ UNCHANGED <<disabled, jumps, registers, places>>

GateLane ==
    /\ Executing({"DISABLE_CELL", "ENABLE_ALL_CELLS"})
    /\ disabled' = (Next0.opcode = Opcode.DISABLE_CELL /\ (disabled \/ selected))
    /\ at' = at + 1
    /\ UNCHANGED <<selected, jumps, registers, places>>

Jump ==
    /\ Executing({"IJMPNZ"})
    /\ \/ at' = at + 1 /\ jumps' = jumps
       \/ jumps < MaxJumps /\ at' = at - Next0.value /\ jumps' = jumps + 1
    /\ UNCHANGED <<selected, disabled, registers, places>>

Rest ==
    /\ outcome = "assert" \/ (places # << >> /\ ~Running)
    /\ UNCHANGED vars

Next ==
    \/ Generate /\ UNCHANGED executionVars
    \/ Allocate
    \/ Compute
    \/ SelectLane
    \/ GateLane
    \/ Jump
    \/ Rest

Spec == CodeInit /\ [][Next]_vars

-----------------------------------------------------------------------------
(* Regions as the callers choose them.  The generator knows of one REPEAT   *)
(* at a time, and of no lanes that keep a value from the round before.      *)

Operation(r, k) == r.instructions[Offset(r) + k + 1]

\* Before instruction k something has been opened that nothing has closed.
Within(r, k, opening, closing) ==
    \E b \in 0..(k - 1) :
        /\ Operation(r, b).opcode \in Opcodes(opening)
        /\ \A c \in (b + 1)..(k - 1) : Operation(r, c).opcode \notin Opcodes(closing)

WithinWhere(r, k)  == Within(r, k, {"WHERE_CRY", "WHERE_EQ", "WHERE_LT"}, {"END_WHERE"})
WithinRepeat(r, k) == Within(r, k, {"SETLC"}, {"IJMPNZ"})
WithinGating(r, k) == Within(r, k, {"DISABLE_CELL"}, {"ENABLE_ALL_CELLS"})

\* Operands are registers, and nodes have them (the code for IWRITE and
\* BIT_REVERSE does not).
HasItsOperands(i) ==
    /\ i.opcode \notin Opcodes({"IWRITE", "BIT_REVERSE"})
    /\ i.opcode \notin WithoutRegisters \cup OnlyDest \cup Opcodes({"READ"})
           => i.left \in SelectionRegisters
    /\ i.opcode \notin WithoutRegisters \cup OnlyDest \cup ImmediateShifts
                       \cup Opcodes({"REDUCE", "REDUCE_U", "IWRITE", "POPCNT", "NOT"})
           => i.right \in SelectionRegisters

\* Instruction k gives its destination the first value that it has.
First(r, k) ==
    LET g == GetDest(Operation(r, k)) IN
    /\ g \notin r.inputs \cup {NoRegIndex}
    /\ \A b \in 0..(k - 1) : GetDest(Operation(r, b)) # g

\* The jump at j goes back over a body that has no REPEAT in it, begins under the
\* selection it ends with, and gives no register its first value in some lanes.
RegularJump(r, j) ==
    LET first == j - Operation(r, j).value IN
    /\ first \in 0..j
    /\ \A k \in first..j : WithinRepeat(r, k)
    /\ WithinWhere(r, j) => WithinWhere(r, first)
    /\ WithinGating(r, j) => WithinGating(r, first)
    /\ \A k \in first..(j - 1) :
          First(r, k) => ~WithinWhere(r, k) /\ ~WithinGating(r, k)

Regular(r) ==
    \A k \in 0..(r.count - 1) :
        /\ HasItsOperands(Operation(r, k))
        /\ Operation(r, k).opcode = Opcode.IJMPNZ => RegularJump(r, k)

-----------------------------------------------------------------------------
\* The registers that an instruction takes values from.
Read(i) == {r \in {GetLeft(i), GetRight(i)} : r # NoRegIndex}

\* A register that the region or its caller has given a value.
Defined(g) == registers[g] > 0 \/ g \in region.inputs

\* In a lane that takes part, a node finds in its operands the very values that
\* the instruction finds in its registers, whatever lanes were left out of the
\* assignments before and however often a body was repeated; and so does code
\* after the region that takes the last variable of a register.  This is what
\* ties are for ("we use for the tied-to constraint the most recent definition
\* of a register, even if it is in a WHERE block", core/Kernel.cpp:881-888).
ReadsTheSameValues ==
    /\ Running /\ Takes =>
          \A r \in Read(Next0) :
              Defined(r) => \E n \in DOMAIN NextNode.inputs :
                                Held(NextNode.inputs[n]) = registers[r]
    /\ Running /\ Takes =>
          \A n \in DOMAIN NextNode.inputs :
              n <= 2 /\ Next0.opcode \notin Opcodes({"ADD", "AND", "OR", "XOR", "READ"}) =>
                  LET r == IF n = 1 THEN GetLeft(Next0) ELSE GetRight(Next0) IN
                  Defined(r) => Held(NextNode.inputs[n]) = registers[r]
    /\ outcome = "done" /\ places # << >> /\ at = region.count =>
          \A g \in SelectionRegisters :
              names[g] # NotInitialized /\ Defined(g) => Held(names[g]) = registers[g]

=============================================================================
