----------------------------- MODULE ConnexLanes -----------------------------
(***************************************************************************)
(* ConnexSimulator::executeInstruction() on the register file, the flags   *)
(* and the local store: one action per kind of instruction.  The words of  *)
(* a kernel are taken one after the other; loops are in module CoreThread. *)
(***************************************************************************)
EXTENDS Operand, ConnexVector

CONSTANTS
    Registers,                 \* 0..CONNEX_REG_COUNT-1
    Rows                       \* 0..CONNEX_MEM_NUM_ROWS+..._EXTRA-1

\* An immediate can address every row: there are 1224.
ASSUME LanesAssumption ==
    /\ Registers \subseteq 0..31
    /\ Rows \subseteq Nat
    /\ \E last \in Rows : last < 32768 /\ Rows = 0..last

VARIABLES
    words,                     \* the kernel
    pc,                        \* the position of the next word
    registerFile,
    localStore,
    flags,                     \* carryFlag, eqFlag and ltFlag
    active,
    cellDisabled,
    mult,                      \* multLow and multHigh
    shiftReg,
    reductions,                \* what has been written to the reduction FIFO
    failure                    \* "none", "assert" or "hang"

lanesVars == <<words, pc, registerFile, localStore, flags, active, cellDisabled,
               mult, shiftReg, reductions, failure>>

Everywhere(v) == [l \in Lanes |-> v]

\* A kernel finds in registers and local store what was left there, and the
\* selection that the last kernel ended with.  ConnexState is all zeros at
\* first: no lane is selected before an END_WHERE.
Start(kernel, registers, store, selection) ==
    /\ words = kernel
    /\ pc = 1
    /\ registerFile = registers
    /\ localStore = store
    /\ flags = [carry |-> Everywhere(0), eq |-> Everywhere(0), lt |-> Everywhere(0)]
    /\ active = selection
    /\ cellDisabled = Everywhere(0)
    /\ mult = [low |-> Everywhere(0), high |-> Everywhere(0)]
    /\ shiftReg = Everywhere(0)
    /\ reductions = << >>
    /\ failure = "none"

IsCellActive(l) == active[l] = 1 /\ cellDisabled[l] = 0
Selected == {l \in Lanes : IsCellActive(l)}

-----------------------------------------------------------------------------
Ended == pc > Len(words)
Now == Disassembled(words[pc])

\* An instruction with one of these opcodes is executed.
Execute(names) ==
    /\ failure = "none"
    /\ ~Ended
    /\ Decodable(words[pc])
    /\ Now.opcode \in Opcodes(names)
    /\ pc' = pc + 1
    /\ words' = words

Left  == registerFile[GetLeft(Now)]
Right == registerFile[GetRight(Now)]

\* Mutant: the predication of an assignment is forgotten.
AssignedAll(old, new) == new

\* operator= of ConnexVector: only selected lanes take part.
AssignedWhere(old, new) == [l \in Lanes |-> IF IsCellActive(l) THEN new[l] ELSE old[l]]

AssignDest(vector) ==
    registerFile' = [registerFile EXCEPT ![GetDest(Now)] = AssignedWhere(@, vector)]

-----------------------------------------------------------------------------
OperatorOf ==
    [ADD |-> "+", SUB |-> "-", OR |-> "|", AND |-> "&", XOR |-> "^",
     EQ |-> "==", LT |-> "<"]

Arithmetic(name) ==
    /\ Execute({name})
    /\ AssignDest(ResultVector(OperatorOf[name], Left, Right))
    /\ flags' = Flags(OperatorOf[name], Left, Right, flags.carry)
    /\ failure' = failure
    /\ UNCHANGED <<localStore, active, cellDisabled, mult, shiftReg, reductions>>

\* Mutant: the carry is added last, when the flags are those of this sum.
AddWithLateCarry ==
    LET sum   == ResultVector("+", Left, Right)
        after == Flags("+", Left, Right, flags.carry)
    IN  /\ Execute({"ADDC"})
        /\ AssignDest(ResultVector("+", sum, after.carry))
        /\ flags' = Flags("+", sum, after.carry, after.carry)
        /\ failure' = failure
        /\ UNCHANGED <<localStore, active, cellDisabled, mult, shiftReg, reductions>>

\* _ADDC: (carryFlag + left) + right, each sum setting the flags.
AddWithCarry ==
    LET sum   == ResultVector("+", flags.carry, Left)
        after == Flags("+", flags.carry, Left, flags.carry)
    IN  /\ Execute({"ADDC"})
        /\ AssignDest(ResultVector("+", sum, Right))
        /\ flags' = Flags("+", sum, Right, after.carry)
        /\ failure' = failure
        /\ UNCHANGED <<localStore, active, cellDisabled, mult, shiftReg, reductions>>

\* _SUBC: (left - carryFlag) - right.
SubWithCarry ==
    LET diff  == ResultVector("-", Left, flags.carry)
        after == Flags("-", Left, flags.carry, flags.carry)
    IN  /\ Execute({"SUBC"})
        /\ AssignDest(ResultVector("-", diff, Right))
        /\ flags' = Flags("-", diff, Right, after.carry)
        /\ failure' = failure
        /\ UNCHANGED <<localStore, active, cellDisabled, mult, shiftReg, reductions>>

\* Instructions with a result and no flags.
Unflagged(names, vector) ==
    /\ Execute(names)
    /\ AssignDest(vector)
    /\ UNCHANGED <<localStore, flags, active, cellDisabled, mult, shiftReg,
                   reductions, failure>>

Unary ==
    \/ Unflagged({"NOT"}, [l \in Lanes |-> Complement(Left[l])])
    \/ Unflagged({"POPCNT"}, [l \in Lanes |-> PopCount(Left[l])])
    \/ Unflagged({"BIT_REVERSE"}, [l \in Lanes |-> Reversed(Left[l])])

CompareUnsigned ==
    Unflagged({"ULT"}, [l \in Lanes |-> UnsignedLess(Left[l], Right[l])])

\* Each lane shifts by its own count.
Shift(name, op) ==
    /\ Execute({name})
    /\ \E number \in ShiftNumbers([l \in Selected |-> Signed(Right[l])]) :
        AssignDest([l \in Lanes |->
            IF IsCellActive(l) THEN ShiftBy(op, Left[l], number[l]) ELSE Left[l]])
    /\ UNCHANGED <<localStore, flags, active, cellDisabled, mult, shiftReg,
                   reductions, failure>>

ShiftImmediate(name, op) ==
    Unflagged({name}, [l \in Lanes |-> ShiftBy(op, Left[l], GetValue(Now))])

Shifting ==
    \/ Shift("SHL", "shl") \/ Shift("SHR", "shr") \/ Shift("SHRA", "shra")
    \/ ShiftImmediate("ISHL", "shl")
    \/ ShiftImmediate("ISHR", "shr")
    \/ ShiftImmediate("ISHRA", "shra")

\* Mutant: the immediate is not cut to the size of a cell.
LoadImmediateUncut == Unflagged({"VLOAD"}, Everywhere(GetValue(Now)))

LoadImmediate == Unflagged({"VLOAD"}, Everywhere(Cell(GetValue(Now))))
LoadIndex     == Unflagged({"LDIX"}, [l \in Lanes |-> Cell(l)])
LoadShiftReg  == Unflagged({"LDSH"}, shiftReg)
LoadProduct ==
    Unflagged({"MULT_LO"}, mult.low) \/ Unflagged({"MULT_HI"}, mult.high)

-----------------------------------------------------------------------------
\* operator* and mult_u() store both halves, in the selected lanes.
Multiplying(name, value(_)) ==
    /\ Execute({name})
    /\ LET product == [l \in Lanes |-> value(Left[l]) * value(Right[l])] IN
       mult' = [low  |-> AssignedWhere(mult.low, [l \in Lanes |-> LowHalf(product[l])]),
                high |-> AssignedWhere(mult.high, [l \in Lanes |-> HighHalf(product[l])])]
    /\ UNCHANGED <<registerFile, localStore, flags, active, cellDisabled, shiftReg,
                   reductions, failure>>

MultiplySigned   == Multiplying("MULT", Signed)
MultiplyUnsigned == Multiplying("MULT_U", LAMBDA c : c)

-----------------------------------------------------------------------------
(* Which lanes are selected.                                               *)

Where(name, flag) ==
    /\ Execute({name})
    /\ active' = flag
    /\ UNCHANGED <<registerFile, localStore, flags, cellDisabled, mult, shiftReg,
                   reductions, failure>>

Selecting ==
    \/ Where("WHERE_CRY", flags.carry)
    \/ Where("WHERE_EQ", flags.eq)
    \/ Where("WHERE_LT", flags.lt)
    \/ Where("END_WHERE", Everywhere(1))

\* Lane gating; see module CoreThread for what the core thread does next.
DisableCell ==
    /\ Execute({"DISABLE_CELL"})
    /\ cellDisabled' = AssignedWhere(cellDisabled, active)
    /\ UNCHANGED <<registerFile, localStore, flags, active, mult, shiftReg,
                   reductions, failure>>

EnableAllCells ==
    /\ Execute({"ENABLE_ALL_CELLS"})
    /\ cellDisabled' = Everywhere(0)
    /\ UNCHANGED <<registerFile, localStore, flags, active, mult, shiftReg,
                   reductions, failure>>

-----------------------------------------------------------------------------
\* handleShift(): the lanes exchange cells, selected or not.
CellShift(name, direction) ==
    /\ Execute({name})
    /\ LET counts == [l \in Lanes |-> Signed(Right[l])] IN
       IF \E l \in Lanes : counts[l] < 0
       THEN failure' = "hang" /\ UNCHANGED shiftReg
       ELSE shiftReg' = ShiftedCells(Left, counts, direction) /\ UNCHANGED failure
    /\ UNCHANGED <<registerFile, localStore, flags, active, cellDisabled, mult, reductions>>

\* handleReduction() and handleReduction_u()
Reducing(name, value(_)) ==
    /\ Execute({name})
    /\ LET cells == Left IN
       reductions' = Append(reductions, SumOf(LAMBDA l : value(cells[l]), Selected))
    /\ UNCHANGED <<registerFile, localStore, flags, active, cellDisabled, mult, shiftReg,
                   failure>>

SumSigned   == Reducing("REDUCE", Signed)
SumUnsigned == Reducing("REDUCE_U", LAMBDA c : c)

-----------------------------------------------------------------------------
(* The local store.  An address outside fails an assertion; by then lanes  *)
(* with a lower number have been served, in a process that is gone.        *)

Address(l) == Signed(Right[l])

Read ==
    /\ Execute({"READ"})
    /\ \A l \in Selected : Address(l) \in Rows
    /\ AssignDest([l \in Lanes |->
           IF IsCellActive(l) THEN localStore[Address(l)][l] ELSE 0])
    /\ UNCHANGED <<localStore, flags, active, cellDisabled, mult, shiftReg,
                   reductions, failure>>

Write ==
    /\ Execute({"WRITE"})
    /\ \A l \in Selected : Address(l) \in Rows
    /\ localStore' = [row \in Rows |-> [l \in Lanes |->
                         IF IsCellActive(l) /\ Address(l) = row
                         THEN Left[l] ELSE localStore[row][l]]]
    /\ UNCHANGED <<registerFile, flags, active, cellDisabled, mult, shiftReg,
                   reductions, failure>>

\* Mutant: the address of a lane that takes no part is looked at.
OutOfBoundsAnywhere ==
    /\ Execute({"READ", "WRITE"})
    /\ \E l \in Lanes : Address(l) \notin Rows
    /\ failure' = "assert"
    /\ UNCHANGED <<registerFile, localStore, flags, active, cellDisabled, mult,
                   shiftReg, reductions>>

OutOfBounds ==
    /\ Execute({"READ", "WRITE"})
    /\ \E l \in Selected : Address(l) \notin Rows
    /\ failure' = "assert"
    /\ UNCHANGED <<registerFile, localStore, flags, active, cellDisabled, mult,
                   shiftReg, reductions>>

\* The address is in the word; Operand's operator[] has checked it.
ReadAt == Unflagged({"IREAD"}, localStore[GetValue(Now)])

WriteAt ==
    /\ Execute({"IWRITE"})
    /\ localStore' = [localStore EXCEPT ![GetValue(Now)] = AssignedWhere(@, Left)]
    /\ UNCHANGED <<registerFile, flags, active, cellDisabled, mult, shiftReg,
                   reductions, failure>>

Nop ==
    /\ Execute({"NOP", "PRINT_REG", "PRINT_CHARS"})
    /\ UNCHANGED <<registerFile, localStore, flags, active, cellDisabled, mult,
                   shiftReg, reductions, failure>>

-----------------------------------------------------------------------------
ExecuteInstruction ==
    \/ \E name \in DOMAIN OperatorOf : Arithmetic(name)
    \/ AddWithCarry
    \/ SubWithCarry
    \/ Unary
    \/ CompareUnsigned
    \/ Shifting
    \/ LoadImmediate
    \/ LoadIndex
    \/ LoadShiftReg
    \/ LoadProduct
    \/ MultiplySigned
    \/ MultiplyUnsigned
    \/ Selecting
    \/ DisableCell
    \/ EnableAllCells
    \/ CellShift("CELL_SHL", 1)
    \/ CellShift("CELL_SHR", -1)
    \/ SumSigned
    \/ SumUnsigned
    \/ Read
    \/ Write
    \/ OutOfBounds
    \/ ReadAt
    \/ WriteAt
    \/ Nop

LanesTypeOK ==
    /\ pc \in 1..(Len(words) + 1)
    /\ registerFile \in [Registers -> Vectors]
    /\ localStore \in [Rows -> Vectors]
    /\ \A f \in {"carry", "eq", "lt"} : flags[f] \in [Lanes -> {0, 1}]
    /\ active \in [Lanes -> {0, 1}]
    /\ cellDisabled \in [Lanes -> {0, 1}]
    /\ mult \in [low : Vectors, high : Vectors]
    /\ shiftReg \in Vectors
    /\ reductions \in Seq(Int)
    /\ failure \in {"none", "assert", "hang"}

=============================================================================
