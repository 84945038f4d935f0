-------------------------- MODULE SelectedFunctions --------------------------
(***************************************************************************)
(* The floating-point functions that the back end takes from the files of  *)
(* nodes, executed on lanes.  Twice, side by side: as nodes, each with a   *)
(* place of its own or that of the node it is tied to, and as the          *)
(* statements of the kernel, on its registers.                             *)
(***************************************************************************)
EXTENDS ConnexVector, FloatNumbers, SelectedNodes

CONSTANTS
    Calls,                     \* what is called: a function, and two vectors
    Surroundings               \* what registers and places hold before, and by
                               \* how much an undefined shift shifts

VARIABLES
    call,
    around,
    at,                        \* the number of the next node
    machine,                   \* of the nodes and of the kernel: flags, the
                               \* selection, products, the shift register
    registers,
    places

vars == <<call, around, at, machine, registers, places>>

ASSUME CellsOf16Bits == RegisterBits = 16

NodesOf == [ADDf16 |-> ADDf16, MULTf16 |-> MULTf16, ADDf32 |-> ADDf32, MULTf32 |-> MULTf32]
Functions16 == {"ADDf16", "MULTf16"}

FirstOperand == 27                         \* R27 and R23, and R19
SecondOperand == 23
ResultRegister == 19

Count == Len(NodesOf[call.function])
NodeAt(k) == NodesOf[call.function][k + 1]

-----------------------------------------------------------------------------
(* Places.                                                                 *)

\* Mutant: a node has a place of its own, whatever it is tied to.
PlaceUntied(nodes) == [k \in 0..(Len(nodes) - 1) |-> k]

\* The nodes of a chain of ties are in one place.
PlacesIn(nodes) ==
    LET place[k \in 0..(Len(nodes) - 1)] ==
            IF nodes[k + 1].tied \in {Untied, Unnamed} THEN k
            ELSE place[nodes[k + 1].tied]
    IN  place

PlaceOf == [f \in DOMAIN NodesOf |-> PlacesIn(NodesOf[f])]

Held(n) ==
    CASE n = OpSrcCast1 -> call.first
      [] n = OpSrcCast2 -> call.second
      [] OTHER          -> places[PlaceOf[call.function][n]]

\* The node that has the result: the last that a statement on R19 stands for.
ResultNode ==
    CHOOSE k \in 0..(Count - 1) :
        /\ NodeAt(k).register = ResultRegister
        /\ \A j \in (k + 1)..(Count - 1) : NodeAt(j).register # ResultRegister

-----------------------------------------------------------------------------
Everywhere(v) == [l \in Lanes |-> v]

Start ==
    [flags    |-> [carry |-> Everywhere(0), eq |-> Everywhere(0), lt |-> Everywhere(0)],
     active   |-> Everywhere(1),           \* EXECUTE_IN_ALL is outside
     mult     |-> [low |-> Everywhere(0), high |-> Everywhere(0)],
     shiftReg |-> Everywhere(0)]

Init ==
    /\ call \in Calls
    /\ around \in Surroundings
    /\ at = 0
    /\ machine = [nodes |-> Start, kernel |-> Start]
    /\ registers = [r \in 0..63 |->
                       CASE r = FirstOperand  -> call.first
                         [] r = SecondOperand -> call.second
                         [] OTHER             -> Everywhere(around.register)]
    /\ places = [k \in 0..(Count - 1) |-> Everywhere(around.register)]

-----------------------------------------------------------------------------
(* What an instruction makes of a machine m and of its operands.           *)

OperatorOf ==
    [ADD |-> "+", SUB |-> "-", OR |-> "|", AND |-> "&", XOR |-> "^",
     EQ |-> "==", LT |-> "<"]

ShiftOf == [SHL |-> "shl", SHR |-> "shr", ISHL |-> "shl", ISHR |-> "shr"]

\* A sum sets the flags after the carry has been added, and again after y has.
Chained(op, carry, x, y) ==
    LET first == IF op = "+" THEN ResultVector("+", carry, x) ELSE ResultVector("-", x, carry)
        after == IF op = "+" THEN Flags("+", carry, x, carry) ELSE Flags("-", x, carry, carry)
    IN  [result |-> ResultVector(op, first, y), flags |-> Flags(op, first, y, after.carry)]

ShiftCount(c) == IF Signed(c) \in 0..31 THEN c ELSE around.shift

\* The operands are in o.
Computed(m, node, o) ==
    CASE node.opcode \in DOMAIN OperatorOf ->
             ResultVector(OperatorOf[node.opcode], o[1], o[2])
      [] node.opcode = "ADDC" -> Chained("+", m.flags.carry, o[1], o[2]).result
      [] node.opcode = "SUBC" -> Chained("-", m.flags.carry, o[1], o[2]).result
      [] node.opcode = "ULT" -> [l \in Lanes |-> UnsignedLess(o[1][l], o[2][l])]
      [] node.opcode = "NOT" -> [l \in Lanes |-> Complement(o[1][l])]
      [] node.opcode = "POPCNT" -> [l \in Lanes |-> PopCount(o[1][l])]
      [] node.opcode \in {"SHL", "SHR"} ->
             [l \in Lanes |-> ShiftBy(ShiftOf[node.opcode], o[1][l], ShiftCount(o[2][l]))]
      [] node.opcode \in {"ISHL", "ISHR"} ->
             [l \in Lanes |-> ShiftBy(ShiftOf[node.opcode], o[1][l], node.value)]
      [] node.opcode = "VLOAD" -> Everywhere(Cell(node.value))
      [] node.opcode = "LDIX" -> [l \in Lanes |-> l]
      [] node.opcode = "LDSH" -> m.shiftReg
      [] node.opcode = "MULT_LO" -> m.mult.low
      [] node.opcode = "MULT_HI" -> m.mult.high

FlagsAfter(m, node, o) ==
    CASE node.opcode \in DOMAIN OperatorOf ->
             Flags(OperatorOf[node.opcode], o[1], o[2], m.flags.carry)
      [] node.opcode = "ADDC" -> Chained("+", m.flags.carry, o[1], o[2]).flags
      [] node.opcode = "SUBC" -> Chained("-", m.flags.carry, o[1], o[2]).flags
      [] OTHER -> m.flags

\* Mutant: an assignment takes part in all lanes.
AssignedAll(m, old, new) == new

AssignedWhere(m, old, new) == [l \in Lanes |-> IF m.active[l] = 1 THEN new[l] ELSE old[l]]

-----------------------------------------------------------------------------
Node == NodeAt(at)
NodeOperands == [n \in DOMAIN Node.inputs |-> Held(Node.inputs[n])]
KernelOperands == [n \in DOMAIN Node.read |-> registers[Node.read[n]]]

Running == at < Count
Execute == Running /\ at' = at + 1 /\ UNCHANGED <<call, around>>

\* Both machines do the same to their operands.
BothDo(Do(_, _)) ==
    machine' = [nodes  |-> Do(machine.nodes, NodeOperands),
                kernel |-> Do(machine.kernel, KernelOperands)]

Compute ==
    /\ Execute
    /\ Node.register # NoRegister
    /\ BothDo(LAMBDA m, o : [m EXCEPT !.flags = FlagsAfter(m, Node, o)])
    /\ registers' = [registers EXCEPT ![Node.register] =
           AssignedWhere(machine.kernel, @, Computed(machine.kernel, Node, KernelOperands))]
    /\ places' = [places EXCEPT ![PlaceOf[call.function][at]] =
           AssignedWhere(machine.nodes, @, Computed(machine.nodes, Node, NodeOperands))]

\* Mutant: the flag of "less" is taken from the unsigned comparison.
SelectionByCarry(m, opcode) ==
    CASE opcode = "END_WHERE" -> Everywhere(1)
      [] opcode = "WHERE_EQ"  -> m.flags.carry
      [] opcode = "WHERE_LT"  -> m.flags.carry

Selection(m, opcode) ==
    CASE opcode = "END_WHERE" -> Everywhere(1)
      [] opcode = "WHERE_EQ"  -> m.flags.eq
      [] opcode = "WHERE_LT"  -> m.flags.lt

Select ==
    /\ Execute
    /\ Node.opcode \in {"WHERE_EQ", "WHERE_LT", "END_WHERE"}
    /\ BothDo(LAMBDA m, o : [m EXCEPT !.active = Selection(m, Node.opcode)])
    /\ UNCHANGED <<registers, places>>

\* The halves of a product of 16-bit numbers, by way of the bytes of y.
Halves(x, y) ==
    LET low == x * (y % 256)  high == x * (y \div 256) IN
    [low  |-> Cell(low + 256 * (high % 256)),
     high |-> (low \div 256 + high) \div 256]

\* Signed operands: what the unsigned product has too much is taken off.
Product(opcode, x, y) ==
    LET p == Halves(x, y) IN
    IF opcode = "MULT_U" THEN p
    ELSE [p EXCEPT !.high = Cell(@ - (IF Signed(x) < 0 THEN y ELSE 0)
                                   - (IF Signed(y) < 0 THEN x ELSE 0))]

Multiply ==
    /\ Execute
    /\ Node.opcode \in {"MULT", "MULT_U"}
    /\ BothDo(LAMBDA m, o :
           LET product == [l \in Lanes |-> Product(Node.opcode, o[1][l], o[2][l])] IN
           [m EXCEPT
               !.mult.low  = AssignedWhere(m, @, [l \in Lanes |-> product[l].low]),
               !.mult.high = AssignedWhere(m, @, [l \in Lanes |-> product[l].high])])
    /\ UNCHANGED <<registers, places>>

CellShift ==
    /\ Execute
    /\ Node.opcode \in {"CELL_SHL", "CELL_SHR"}
    /\ BothDo(LAMBDA m, o :
           [m EXCEPT !.shiftReg =
               ShiftedCells(o[1], o[2], IF Node.opcode = "CELL_SHL" THEN 1 ELSE -1)])
    /\ UNCHANGED <<registers, places>>

NoOperation ==
    /\ Execute
    /\ Node.opcode = "NOP"
    /\ UNCHANGED <<machine, registers, places>>

Returned == ~Running /\ UNCHANGED vars

Next ==
    \/ Compute
    \/ Select
    \/ Multiply
    \/ CellShift
    \/ NoOperation
    \/ Returned

Spec == Init /\ [][Next]_vars

-----------------------------------------------------------------------------
ReturnedVector == Held(ResultNode)

\* Sums, conjunctions and the like may have their operands in either order.
InSomeOrder(opcode) == opcode \in {"ADD", "AND", "OR", "XOR"}

\* A function that is called as nodes does what the kernel does whose nodes they
\* are: the same lanes are selected, and in these a node finds in its operands,
\* through ties by which it gets what earlier selections have left out, what the
\* statement finds in its registers; and so does the caller in the result.  A
\* place that is tied to no name holds what the kernel's register did.
NodesDoWhatTheKernelDoes ==
    /\ machine.nodes.active = machine.kernel.active
    /\ Running =>
           LET nodes == NodeOperands  kernel == KernelOperands IN
           \A l \in Lanes : machine.kernel.active[l] = 1 =>
               \/ \A n \in DOMAIN nodes : nodes[n][l] = kernel[n][l]
               \/ InSomeOrder(Node.opcode) /\ nodes[1][l] = kernel[2][l]
                                           /\ nodes[2][l] = kernel[1][l]
    /\ ~Running => ReturnedVector = registers[ResultRegister]

-----------------------------------------------------------------------------
(* The numbers of a call: those of f32 take two lanes, the low half first. *)

Format == IF call.function \in Functions16 THEN F16 ELSE F32

NumberIn(vector, l) ==
    IF Format = F16 THEN NumberOfCell(vector[l]) ELSE NumberOfCells(vector[l], vector[l + 1])

NumberLanes == {l \in Lanes : Format = F16 \/ l % 2 = 0}

ReturnedFrom(functions, Holds(_, _, _)) ==
    call.function \in functions /\ ~Running =>
        \A l \in NumberLanes :
            Holds(NumberIn(call.first, l), NumberIn(call.second, l), NumberIn(ReturnedVector, l))

\* A product of f16 is the number next to the exact product, infinity if that is
\* too large, and otherwise what a product of infinities, zeros and NaNs is; only
\* results below the normal numbers are left out.
IsProduct16(x, y, r) ==
    IF IsNaN(F16, x) \/ IsNaN(F16, y)
       \/ (IsInfinite(F16, x) /\ IsZero(y)) \/ (IsZero(x) /\ IsInfinite(F16, y))
    THEN IsNaN(F16, r)
    ELSE IF IsInfinite(F16, x) \/ IsInfinite(F16, y)
    THEN r = Number(x.negative # y.negative, F16.top, 0)
    ELSE IF IsZero(x) \/ IsZero(y) THEN r = Number(x.negative # y.negative, 0, 0)
    ELSE ExponentOfProduct(F16, x, y) >= 1 => r = ProductOf(F16, x, y)

\* A product of normal f32 is exact if there is a normal number for it.
IsProduct32(x, y, r) ==
    /\ IsNormal(F32, x) /\ IsNormal(F32, y)
    /\ ExponentOfProduct(F32, x, y) \in 1..(F32.top - 1)
    /\ IsExactProduct(F32, x, y)
    => r = ProductOf(F32, x, y)

\* Products are what the comments of the kernels say of rounding ("ROUND_TO_NEAREST",
\* examples/Emulate_f16/MULTf16_manual/output.cpp): in f16 the nearest number,
\* in f32, where a carry out of the low half is lost when it is rounded, what need
\* not be rounded.  And neither depends on what registers and places held before
\* (mantissas go through shifts by counts that are right in some lanes only).
ProductsAreRounded ==
    /\ ReturnedFrom({"MULTf16"}, IsProduct16)
    /\ ReturnedFrom({"MULTf32"}, IsProduct32)

\* The exponents of x for which x + (-x) is zero.
CancelsToZero(F, x) == x.exponent <= F.fraction + 2

IsSum16(x, y, r) ==
    IF IsNaN(F16, x) \/ IsNaN(F16, y)
       \/ (IsInfinite(F16, x) /\ IsInfinite(F16, y) /\ x.negative # y.negative)
    THEN IsNaN(F16, r)
    ELSE IF IsInfinite(F16, x) THEN r = x
    ELSE IF IsInfinite(F16, y) THEN r = y
    ELSE AreNear(F16, x, y) =>
             LET s == SumOfTwo(F16, x, y) IN
             IF s = 0 THEN CancelsToZero(F16, x) => IsZero(r)
             ELSE /\ r.negative = (s < 0)
                  /\ IsWithin(F16, r, IF x.negative = y.negative THEN 1 ELSE 2,
                              Magnitude(s), LowScale(F16, x, y))

IsSum32(x, y, r) ==
    IsNormal(F32, x) /\ IsNormal(F32, y) /\ AreNear(F32, x, y) =>
        LET s      == SumOfTwo(F32, x, y)
            scale  == LowScale(F32, x, y)
            larger == IF x.exponent < y.exponent THEN y.exponent ELSE x.exponent
        IN  IF s = 0 THEN CancelsToZero(F32, x) => IsZero(r)
            ELSE HasNormal(F32, Magnitude(s), scale)
                 /\ larger - NormalOf(F32, FALSE, Magnitude(s), scale).exponent < 16
                 => r = NormalOf(F32, s < 0, Magnitude(s), scale)

\* A sum of f16 is one unit of its last place away from the exact one at most,
\* two if it is a difference: mantissas are aligned in cells of 16 bits, where the
\* bits that go out on the right are lost (MAX_DIFF_EXPONENTS,
\* examples/Emulate_f16/ADD_SUB_f16_manual/output.cpp:573-575).  Infinities and
\* NaNs are what they should be.  A sum of normal f32 that need not be rounded is
\* exact unless 16 leading bits and more cancel.  Of x + (-x) this says that it is
\* zero for small x only, and nothing for the others, for which the functions get
\* it wrong: see OppositesCancel.
SumsAreClose ==
    /\ ReturnedFrom({"ADDf16"}, IsSum16)
    /\ ReturnedFrom({"ADDf32"}, IsSum32)

\* "Checking that x + (-x) is equal 0", a test of the kernel says
\* (examples/Emulate_f16/ADD_SUB_f16_manual/output.cpp:1457-1460), which takes
\* 2^-13 * 1.125 for x: so it is for every finite number.
OppositesCancel ==
    ReturnedFrom({"ADDf16"}, LAMBDA x, y, r :
        IsFinite(F16, x) /\ y = [x EXCEPT !.negative = ~@] => IsZero(r))

=============================================================================
