------------------------- MODULE SelectedCodeProofs -------------------------
(***************************************************************************)
(* The order of the nodes, for every region of every kernel, and the       *)
(* values that they work on, for every region that is regular.             *)
(***************************************************************************)
EXTENDS SelectedCode, Induction

-----------------------------------------------------------------------------
(***************************************************************************)
(* What is known of opcodes.                                               *)
(***************************************************************************)
\* The instructions whose nodes have no result have no destination.
LEMMA NoResultNoDestination ==
    ASSUME NEW i,
           i.opcode \in Opcodes({"REDUCE", "REDUCE_U", "MULT", "MULT_U", "CELL_SHL", "CELL_SHR",
                                 "NOP", "IWRITE", "SETLC", "IJMPNZ", "WHERE_CRY", "WHERE_EQ",
                                 "WHERE_LT", "END_WHERE", "DISABLE_CELL", "ENABLE_ALL_CELLS"})
    PROVE  GetDest(i) = NoRegIndex
BY DEF GetDest, Opcodes, WithoutRegisters

-----------------------------------------------------------------------------
(***************************************************************************)
(* Sequences of any values.                                                *)
(***************************************************************************)
IsSequence(s, n) == s = [k \in 1..n |-> s[k]]

\* A sequence with one element more.
LEMMA Appending ==
    ASSUME NEW n \in Nat, NEW s, IsSequence(s, n), NEW e
    PROVE  /\ DOMAIN s = 1..n
           /\ IsSequence(Append(s, e), n + 1)
           /\ DOMAIN Append(s, e) = 1..(n + 1)
           /\ \A k \in 1..n : Append(s, e)[k] = s[k]
           /\ Append(s, e)[n + 1] = e
<1> DEFINE S == {s[k] : k \in 1..n} \cup {e}
<1>1. s \in [1..n -> S]
  BY DEF IsSequence
<1>2. s \in Seq(S) /\ Len(s) = n /\ DOMAIN s = 1..n
  BY <1>1
<1>3. e \in S
  OBVIOUS
<1> HIDE DEF S
<1>4. Append(s, e) \in Seq(S) /\ Len(Append(s, e)) = n + 1
  BY <1>2, <1>3
<1>5. \A k \in 1..n : Append(s, e)[k] = s[k]
  BY <1>2, <1>3
<1>6. Append(s, e)[n + 1] = e
  BY <1>2, <1>3
<1>7. DOMAIN Append(s, e) = 1..(n + 1)
  BY <1>4
<1>8. IsSequence(Append(s, e), n + 1)
  BY <1>4, <1>7 DEF IsSequence
<1> QED
  BY <1>2, <1>5, <1>6, <1>7, <1>8

-----------------------------------------------------------------------------
(***************************************************************************)
(* The invariant.  A node that takes a carry is ordered by an operand: the *)
(* register that the instruction before has set names the node before.     *)
(***************************************************************************)
InRegion ==
    /\ region \in Regions
    /\ Len(region.instructions) >= Offset(region) + region.count
    /\ index \in 0..region.count
    /\ DOMAIN names = SelectionRegisters

Result(k) == GetDest(Instr(k - 1)) # NoRegIndex => nodes[k].outputs = 1

LastIsNamed ==
    index > 0 /\ GetDest(Instr(index - 1)) # NoRegIndex
        => names[GetDest(Instr(index - 1))] = Node(index)

\* Node k comes after node k - 1.
ComesAfter(k) ==
    LET before == IF k = 1 THEN Input(Max(region.inputs)) ELSE Node(k - 1)
        last == IF k = 1 THEN 1 ELSE nodes[k - 1].outputs
    IN  \/ nodes[k].edge = <<before, last>>
        \/ /\ before \in {nodes[k].inputs[n] : n \in DOMAIN nodes[k].inputs}
           /\ k > 1 => nodes[k - 1].outputs = 1

OrderInv ==
    /\ InRegion
    /\ IsSequence(nodes, index)
    /\ \A k \in 1..index : Result(k)
    /\ LastIsNamed
    /\ \A k \in 1..index : ComesAfter(k)

\* Before the first node, the registers are in order.
LEMMA InitOrder == CodeInit => OrderInv
<1> SUFFICES ASSUME CodeInit PROVE OrderInv
  OBVIOUS
<1>1. region \in Regions /\ index = 0 /\ nodes = << >>
  BY DEF CodeInit, Init
<1>2. InRegion
  BY <1>1, RegionsAssumption DEF CodeInit, Init, InRegion
<1>3. IsSequence(nodes, index)
  BY <1>1 DEF IsSequence
<1> QED
  BY <1>1, <1>2, <1>3 DEF OrderInv, LastIsNamed

\* The destination of an instruction of the region.
LEMMA Destination ==
    ASSUME InRegion, NEW k \in 0..(region.count - 1)
    PROVE  GetDest(Instr(k)) \in SelectionRegisters \cup {NoRegIndex}
<1>1. Offset(region) \in Nat /\ region.count \in Nat
  BY RegionsAssumption DEF InRegion, Offset
<1>2. Offset(region) + k + 1 \in 1..Len(region.instructions)
  BY <1>1 DEF InRegion
<1> QED
  BY <1>2, RegionsAssumption DEF InRegion, Instr, SelectionRegisters

\* A step that leaves the selection alone keeps the invariant.
LEMMA Elsewhere ==
    ASSUME OrderInv, UNCHANGED <<region, index, names, nodes>>
    PROVE  OrderInv'
<1>1. InRegion'
  BY DEF OrderInv, InRegion
<1>2. LastIsNamed'
  BY DEF OrderInv, LastIsNamed, Instr
<1>3. \A k \in 1..index' : Result(k)' /\ ComesAfter(k)'
  BY DEF OrderInv, Result, ComesAfter, Instr
<1> QED
  BY <1>1, <1>2, <1>3 DEF OrderInv, IsSequence

\* A node that is written keeps the invariant if it is ordered after the last
\* one and has a result whenever its instruction has a destination.
LEMMA WrittenInOrder ==
    ASSUME OrderInv, region' = region, index < region.count,
           NEW inputs, NEW outputs, NEW edge, NEW where, NEW repeat, NEW gating,
           Written(inputs, outputs, edge, where, repeat, gating),
           HasDest => outputs = 1,
           \/ edge = OrderEdge
           \/ /\ index > 0 /\ GetDest(Instr(index - 1)) # NoRegIndex
              /\ \E n \in DOMAIN inputs : inputs[n] = names[GetDest(Instr(index - 1))]
    PROVE  OrderInv'
<1>1. index \in Nat /\ index + 1 \in 1..region.count /\ region.count \in Nat
  BY RegionsAssumption DEF OrderInv, InRegion
<1>2. CASE Fails
  BY <1>2, Elsewhere DEF Fails
<1>3. CASE ~Fails
  <2> DEFINE special == Predicated(where, repeat, gating)
             node == [special |-> special, inputs |-> inputs, outputs |-> outputs,
                      edge |-> edge, tied |-> IF special THEN virtual[Dest] ELSE NotInitialized]
  <2>1. /\ nodes' = Append(nodes, node)
        /\ IF HasDest THEN Define(Node(index + 1)) ELSE UNCHANGED <<names, virtual>>
        /\ index' = index + 1
    BY <1>3 DEF Written
  <2>2. node.inputs = inputs /\ node.outputs = outputs /\ node.edge = edge
    OBVIOUS
  <2> HIDE DEF node
  <2>3. /\ IsSequence(nodes', index')
        /\ \A k \in 1..index : nodes'[k] = nodes[k]
        /\ nodes'[index'] = node
    BY <1>1, <2>1, Appending DEF OrderInv
  <2>4. \A k \in 1..index' : GetDest(Instr(k - 1))' = GetDest(Instr(k - 1))
    BY DEF Instr
  <2>5. Dest \in SelectionRegisters \cup {NoRegIndex}
    BY <1>1, Destination DEF OrderInv, Dest, Current
  <2>6. InRegion'
    <3>1. DOMAIN names' = DOMAIN names
      BY <2>1 DEF Define
    <3> QED
      BY <1>1, <2>1, <3>1 DEF OrderInv, InRegion
  <2>7. ASSUME NEW k \in 1..index'
        PROVE  Result(k)'
    <3>1. CASE k = index'
      <4>1. GetDest(Instr(k - 1))' = Dest
        BY <1>1, <2>1, <3>1 DEF Dest, Current, Instr
      <4>2. nodes'[k].outputs = outputs
        BY <2>2, <2>3, <3>1
      <4> QED
        BY <4>1, <4>2 DEF Result, HasDest
    <3>2. CASE k # index'
      <4>1. k \in 1..index
        BY <1>1, <2>1, <3>2
      <4>2. GetDest(Instr(k - 1))' = GetDest(Instr(k - 1))
        BY <2>4
      <4>3. nodes'[k] = nodes[k] /\ Result(k)
        BY <2>3, <4>1 DEF OrderInv
      <4> QED
        BY <4>2, <4>3 DEF Result
    <3> QED
      BY <3>1, <3>2
  <2>8. LastIsNamed'
    <3>1. GetDest(Instr(index - 1))' = Dest
      BY <1>1, <2>1 DEF Dest, Current, Instr
    <3>2. HasDest => names'[Dest] = Node(index + 1)
      BY <2>1, <2>5 DEF Define, HasDest, OrderInv, InRegion
    <3> QED
      BY <2>1, <3>1, <3>2 DEF LastIsNamed, HasDest
  <2>9. ASSUME NEW k \in 1..index'
        PROVE  ComesAfter(k)'
    <3>1. CASE k = index'
      <4>1. nodes'[k].edge = edge /\ nodes'[k].inputs = inputs /\ k = index + 1
        BY <2>1, <2>2, <2>3, <3>1
      <4>2. CASE index = 0
        <5>1. edge = <<Input(Max(region.inputs)), 1>>
          BY <4>2 DEF OrderEdge
        <5>2. k = 1 /\ Input(Max(region.inputs))' = Input(Max(region.inputs))
          BY <4>1, <4>2 DEF Input
        <5> QED
          BY <4>1, <5>1, <5>2 DEF ComesAfter
      <4>3. CASE index > 0
        <5>1. k # 1 /\ k - 1 = index /\ nodes'[k - 1] = nodes[index]
          BY <1>1, <2>3, <4>1, <4>3
        <5>2. CASE edge = OrderEdge
          <6>1. edge = <<Node(k - 1), nodes'[k - 1].outputs>>
            BY <1>1, <4>3, <5>1, <5>2 DEF OrderEdge
          <6> QED
            BY <4>1, <5>1, <6>1 DEF ComesAfter
        <5>3. CASE /\ index > 0 /\ GetDest(Instr(index - 1)) # NoRegIndex
                   /\ \E n \in DOMAIN inputs : inputs[n] = names[GetDest(Instr(index - 1))]
          <6>1. Node(k - 1) \in {inputs[n] : n \in DOMAIN inputs}
            BY <5>1, <5>3 DEF OrderInv, LastIsNamed
          <6>2. nodes'[k - 1].outputs = 1
            BY <1>1, <5>1, <5>3 DEF OrderInv, Result
          <6>3. Node(k - 1) \in {nodes'[k].inputs[n] : n \in DOMAIN nodes'[k].inputs}
            BY <4>1, <6>1
          <6> QED
            BY <5>1, <6>2, <6>3 DEF ComesAfter
        <5> QED
          BY <5>2, <5>3
      <4> QED
        BY <1>1, <4>2, <4>3
    <3>2. CASE k # index'
      <4>1. k \in 1..index /\ (k > 1 => k - 1 \in 1..index)
        BY <1>1, <2>1, <3>2
      <4> QED
        BY <2>3, <4>1 DEF ComesAfter, OrderInv
    <3> QED
      BY <3>1, <3>2
  <2> QED
    BY <2>3, <2>6, <2>7, <2>8, <2>9 DEF OrderInv
<1> QED
  BY <1>2, <1>3

-----------------------------------------------------------------------------
(***************************************************************************)
(* The steps.                                                              *)
(***************************************************************************)
\* A case that appends its code between two nodes keeps the order.
LEMMA PlainlyInOrder ==
    ASSUME OrderInv, NEW S, Case(S), NEW inputs, NEW outputs,
           Plainly(inputs, outputs, OrderEdge), HasDest => outputs = 1
    PROVE  OrderInv'
<1>1. region' = region /\ index < region.count
  BY DEF Case
<1>2. Written(inputs, outputs, OrderEdge, inWhere, inRepeat, inGating)
  BY DEF Plainly
<1> QED
  BY <1>1, <1>2, WrittenInOrder

\* Each case of the switch keeps the order.
LEMMA GenerateInOrder == ASSUME OrderInv, Generate PROVE OrderInv'
<1>1. CASE SelectMirrored
  BY <1>1, PlainlyInOrder DEF SelectMirrored
<1>2. CASE SelectBinary
  BY <1>2, PlainlyInOrder DEF SelectBinary
<1>3. CASE SelectWithCarry
  <2> DEFINE refused == index = 0 \/ (index > 0 /\ GetDest(Instr(index - 1)) = NoRegIndex)
             last == names[GetDest(Instr(index - 1))]
  <2>1. region' = region /\ index < region.count /\ index \in Nat
    BY <1>3, RegionsAssumption DEF SelectWithCarry, Case, OrderInv, InRegion
  <2>2. CASE refused
    <3>1. Fails
      BY <1>3, <2>2 DEF SelectWithCarry
    <3> QED
      BY <2>1, <3>1, Elsewhere DEF Fails
  <2>3. CASE ~refused
    <3>1. Written(<<LeftOperand, RightOperand, last>>, 1, NoEdge, inWhere, inRepeat, inGating)
      BY <1>3, <2>3 DEF SelectWithCarry, Plainly
    <3>2. index > 0 /\ GetDest(Instr(index - 1)) # NoRegIndex
      BY <2>1, <2>3
    <3>3. 3 \in DOMAIN <<LeftOperand, RightOperand, last>>
          /\ <<LeftOperand, RightOperand, last>>[3] = last
      OBVIOUS
    <3> QED
      BY <2>1, <3>1, <3>2, <3>3, WrittenInOrder
  <2> QED
    BY <2>2, <2>3
<1>4. CASE SelectUnary
  BY <1>4, PlainlyInOrder DEF SelectUnary
<1>5. CASE SelectWithoutOperands
  BY <1>5, PlainlyInOrder DEF SelectWithoutOperands
<1>6. CASE SelectAccess
  <2>1. CASE Case({"READ", "WRITE"}) /\ Plainly(<<RightOperand>>, 1, OrderEdge)
    BY <2>1, PlainlyInOrder
  <2>2. CASE Case({"IWRITE"}) /\ Plainly(<< >>, 0, OrderEdge)
    <3>1. ~HasDest
      BY <2>2, NoResultNoDestination DEF Case, HasDest, Dest, Opcodes
    <3> QED
      BY <2>2, <3>1, PlainlyInOrder
  <2> QED
    BY <1>6, <2>1, <2>2 DEF SelectAccess
<1>7. CASE SelectWithoutResult
  <2>1. ~HasDest
    BY <1>7, NoResultNoDestination
    DEF SelectWithoutResult, Case, HasDest, Dest, Opcodes
  <2> QED
    BY <1>7, <2>1, PlainlyInOrder DEF SelectWithoutResult
<1>8. CASE SelectDefault
  BY <1>8, PlainlyInOrder DEF SelectDefault
<1>9. CASE SelectRepeat
  <2>1. ~HasDest
    BY <1>9, NoResultNoDestination DEF SelectRepeat, Case, HasDest, Dest, Opcodes
  <2>2. Written(<< >>, 0, OrderEdge, inWhere, inRepeat', inGating)
    BY <1>9 DEF SelectRepeat
  <2> QED
    BY <1>9, <2>1, <2>2, WrittenInOrder DEF SelectRepeat, Case
<1>10. CASE SelectWhere
  <2>1. ~HasDest
    BY <1>10, NoResultNoDestination DEF SelectWhere, Case, HasDest, Dest, Opcodes
  <2>2. CASE Fails
    BY <1>10, <2>2, Elsewhere DEF SelectWhere, Case, Fails
  <2>3. CASE Written(<< >>, 0, OrderEdge, TRUE, inRepeat, inGating)
    BY <1>10, <2>1, <2>3, WrittenInOrder DEF SelectWhere, Case
  <2> QED
    BY <1>10, <2>2, <2>3 DEF SelectWhere
<1>11. CASE SelectEndWhere
  <2>1. ~HasDest
    BY <1>11, NoResultNoDestination DEF SelectEndWhere, Case, HasDest, Dest, Opcodes
  <2>2. Written(<< >>, 0, OrderEdge, FALSE, inRepeat, inGating)
    BY <1>11 DEF SelectEndWhere
  <2> QED
    BY <1>11, <2>1, <2>2, WrittenInOrder DEF SelectEndWhere, Case
<1>12. CASE SelectGating
  <2>1. ~HasDest
    BY <1>12, NoResultNoDestination DEF SelectGating, Case, HasDest, Dest, Opcodes
  <2>2. Written(<< >>, 0, OrderEdge, inWhere, inRepeat, inGating')
    BY <1>12 DEF SelectGating
  <2> QED
    BY <1>12, <2>1, <2>2, WrittenInOrder DEF SelectGating, Case
<1>13. CASE Finish
  BY <1>13, Elsewhere DEF Finish
<1> QED
  BY <1>1, <1>2, <1>3, <1>4, <1>5, <1>6, <1>7, <1>8, <1>9, <1>10, <1>11, <1>12, <1>13
  DEF Generate

\* The execution beside it changes nothing of the selection.
LEMMA NextInOrder == ASSUME OrderInv, [Next]_vars PROVE OrderInv'
<1>1. CASE Generate
  BY <1>1, GenerateInOrder
<1>2. CASE Allocate \/ Compute \/ SelectLane \/ GateLane \/ Jump \/ Rest \/ UNCHANGED vars
  <2>1. UNCHANGED selectionVars
    BY <1>2 DEF Allocate, Compute, SelectLane, GateLane, Jump, Rest, Executing, vars
  <2> QED
    BY <2>1, Elsewhere DEF selectionVars
<1> QED
  BY <1>1, <1>2 DEF Next

\* Whatever the regions are, however long and of whatever instructions, each node
\* that genLLVMISelManualCode writes is ordered after the one before it
\* (core/Kernel.cpp:1629-1639 and 1793-1806): no instruction can be scheduled
\* between a comparison and its WHERE, or an addition and the ADDC of its carry.
THEOREM Reordering == Spec => []NothingIsReordered
<1>1. CodeInit => OrderInv
  BY InitOrder
<1>2. OrderInv /\ [Next]_vars => OrderInv'
  BY NextInOrder
<1>3. OrderInv => NothingIsReordered
  <2> SUFFICES ASSUME OrderInv PROVE NothingIsReordered
    OBVIOUS
  <2>1. index \in Nat
    BY RegionsAssumption DEF OrderInv, InRegion
  <2>2. DOMAIN nodes = 1..index
    BY <2>1, Appending DEF OrderInv
  <2> QED
    BY <2>2 DEF OrderInv, ComesAfter, NothingIsReordered
<1> QED
  BY <1>1, <1>2, <1>3, PTL DEF Spec


-----------------------------------------------------------------------------
(***************************************************************************)
(* The definitions of a register, as the instructions of a region tell.    *)
(***************************************************************************)
Defines(r, b, g) == GetDest(Operation(r, b - 1)) = g
Definers(r, k, g) == {b \in 1..k : Defines(r, b, g)}
LastOne(S) == CHOOSE b \in S : \A c \in S : c <= b

\* What the first k instructions leave as the last definition of a register.
Latest(r, k, g) ==
    IF Definers(r, k, g) # {} THEN Node(LastOne(Definers(r, k, g)))
    ELSE IF g \in r.inputs THEN Input(g)
    ELSE NotInitialized

\* The lane may keep what instruction k would have assigned.
Kept(r, k) == WithinWhere(r, k) \/ WithinRepeat(r, k) \/ WithinGating(r, k)

\* Inputs, nodes and what is neither of them.
LEMMA Kinds ==
    ASSUME NEW a, NEW b
    PROVE  /\ Input(a) # Node(b) /\ Input(a) # NotInitialized /\ Node(a) # NotInitialized
           /\ Input(a)[1] = "input" /\ Node(a)[1] = "node" /\ Node(a)[2] = a
           /\ NotInitialized[1] # "node" /\ NotInitialized[1] # "input"
           /\ (Node(a) = Node(b)) <=> (a = b)
           /\ (Input(a) = Input(b)) <=> (a = b)
BY DEF Input, Node, NotInitialized

\* Before the first instruction there are the caller's definitions.
LEMMA LatestFirst ==
    ASSUME NEW r, NEW g
    PROVE  Latest(r, 0, g) = IF g \in r.inputs THEN Input(g) ELSE NotInitialized
BY DEF Latest, Definers

\* An instruction is the last definition of its destination, and leaves the last
\* definitions of the other registers alone.
LEMMA LatestStep ==
    ASSUME NEW r, NEW g, NEW k \in Nat
    PROVE  Latest(r, k + 1, g) = IF Defines(r, k + 1, g) THEN Node(k + 1) ELSE Latest(r, k, g)
<1>1. CASE Defines(r, k + 1, g)
  <2> DEFINE S == Definers(r, k + 1, g)
  <2>1. k + 1 \in S /\ \A c \in S : c \in Nat /\ c <= k + 1
    BY <1>1 DEF Definers
  <2> HIDE DEF S
  <2>2. LastOne(S) \in S /\ \A c \in S : c <= LastOne(S)
    BY <2>1 DEF LastOne
  <2>3. LastOne(S) = k + 1
    BY <2>1, <2>2
  <2>4. S # {}
    BY <2>1
  <2> QED
    BY <1>1, <2>3, <2>4 DEF Latest, S
<1>2. CASE ~Defines(r, k + 1, g)
  <2>1. Definers(r, k + 1, g) = Definers(r, k, g)
    BY <1>2 DEF Definers
  <2> QED
    BY <1>2, <2>1 DEF Latest
<1> QED
  BY <1>1, <1>2

\* A last definition is an instruction that has the register as its destination,
\* or the caller's.
LEMMA LatestKinds ==
    ASSUME NEW r, NEW g
    PROVE  \A k \in Nat :
              \/ Latest(r, k, g) = NotInitialized /\ g \notin r.inputs
              \/ Latest(r, k, g) = Input(g) /\ g \in r.inputs
              \/ \E b \in 1..k : Latest(r, k, g) = Node(b) /\ Defines(r, b, g)
<1> DEFINE Known(k) == \/ Latest(r, k, g) = NotInitialized /\ g \notin r.inputs
                       \/ Latest(r, k, g) = Input(g) /\ g \in r.inputs
                       \/ \E b \in 1..k : Latest(r, k, g) = Node(b) /\ Defines(r, b, g)
           T == {k \in Nat : Known(k)}
<1>1. 0 \in T
  BY LatestFirst
<1>2. ASSUME NEW k \in Nat, k \in T PROVE k + 1 \in T
  <2>1. CASE Defines(r, k + 1, g)
    BY <2>1, LatestStep
  <2>2. CASE ~Defines(r, k + 1, g)
    BY <1>2, <2>2, LatestStep
  <2> QED
    BY <2>1, <2>2
<1>3. \A k \in Nat : k \in T
  <2> HIDE DEF T
  <2> QED
    BY <1>1, <1>2, SetInduction
<1> QED
  BY <1>3

\* What has been opened is closed by an instruction that closes it.
LEMMA WithinStep ==
    ASSUME NEW r, NEW k \in Nat, NEW opening, NEW closing
    PROVE  Within(r, k + 1, opening, closing) <=>
              \/ Operation(r, k).opcode \in Opcodes(opening)
              \/ /\ Operation(r, k).opcode \notin Opcodes(closing)
                 /\ Within(r, k, opening, closing)
<1>1. 0..(k + 1 - 1) = 0..(k - 1) \cup {k}
  OBVIOUS
<1>2. \A b \in 0..(k - 1) : (b + 1)..(k + 1 - 1) = (b + 1)..(k - 1) \cup {k}
  OBVIOUS
<1>3. (k + 1)..(k + 1 - 1) = {}
  OBVIOUS
<1> QED
  BY <1>1, <1>2, <1>3 DEF Within

\* Nothing has been opened before the first instruction.
LEMMA WithinFirst ==
    ASSUME NEW r, NEW opening, NEW closing PROVE ~Within(r, 0, opening, closing)
BY DEF Within

-----------------------------------------------------------------------------
(***************************************************************************)
(* What has been generated: names are last definitions, a node is tied to  *)
(* the last definition of its destination wherever a lane may keep it, and *)
(* its inputs are the last definitions of what the instruction reads.      *)
(***************************************************************************)
FlagsTell ==
    /\ inWhere <=> WithinWhere(region, index)
    /\ inRepeat <=> WithinRepeat(region, index)
    /\ inGating <=> WithinGating(region, index)

NamesTell ==
    /\ virtual = names
    /\ \A g \in SelectionRegisters : names[g] = Latest(region, index, g)

\* The tie of node k.
TieOf(k) ==
    LET g == GetDest(Operation(region, k - 1)) IN
    nodes[k].tied = IF g # NoRegIndex /\ Kept(region, k - 1) THEN Latest(region, k - 1, g)
                    ELSE NotInitialized

\* An input is the definition that register r has before node k.
IsLatest(k, input, r) ==
    r \in SelectionRegisters /\ input = Latest(region, k - 1, r) /\ input # NotInitialized

InputsOf(k) ==
    LET i == Operation(region, k - 1)
        inputs == nodes[k].inputs
    IN  /\ \A r \in Read(i) : \E n \in DOMAIN inputs : IsLatest(k, inputs[n], r)
        /\ \A n \in DOMAIN inputs :
              n <= 2 /\ i.opcode \notin Opcodes({"ADD", "AND", "OR", "XOR", "READ"}) =>
                  IsLatest(k, inputs[n], IF n = 1 THEN GetLeft(i) ELSE GetRight(i))

ValueInv ==
    /\ OrderInv
    /\ outcome \in {"generating", "done", "assert"}
    /\ outcome = "generating" => FlagsTell
    /\ outcome = "done" => index = region.count
    /\ NamesTell
    /\ \A k \in 1..index : TieOf(k)
    /\ Regular(region) => \A k \in 1..index : InputsOf(k)

\* Before the first node, names are the caller's.
LEMMA InitValues == CodeInit => ValueInv
<1> SUFFICES ASSUME CodeInit PROVE ValueInv
  OBVIOUS
<1>1. OrderInv
  BY InitOrder
<1>2. index = 0 /\ outcome = "generating" /\ inWhere = FALSE /\ inRepeat = FALSE /\ inGating = FALSE
  BY DEF CodeInit, Init
<1>3. FlagsTell
  BY <1>2, WithinFirst DEF FlagsTell, WithinWhere, WithinRepeat, WithinGating
<1>4. NamesTell
  BY <1>2, LatestFirst DEF CodeInit, Init, NamesTell
<1> QED
  BY <1>1, <1>2, <1>3, <1>4 DEF ValueInv

\* What is already written stays as it is.
LEMMA WrittenBefore ==
    ASSUME ValueInv, region' = region, NEW k \in 1..index, nodes'[k] = nodes[k]
    PROVE  TieOf(k)' /\ (Regular(region) => InputsOf(k)')
<1>1. TieOf(k) /\ (Regular(region) => InputsOf(k))
  BY DEF ValueInv
<1>2. TieOf(k)'
  BY <1>1 DEF TieOf
<1>3. Regular(region) => InputsOf(k)'
  BY <1>1 DEF InputsOf, IsLatest
<1> QED
  BY <1>2, <1>3

\* A step that leaves the nodes and names alone, and is not back to generating.
LEMMA ElsewhereValues ==
    ASSUME ValueInv, UNCHANGED <<region, index, names, virtual, nodes>>,
           outcome' \in {"generating", "done", "assert"},
           outcome' = "generating" => outcome = "generating" /\ UNCHANGED <<inWhere, inRepeat, inGating>>,
           outcome' = "done" => index = region.count
    PROVE  ValueInv'
<1>1. OrderInv'
  BY Elsewhere DEF ValueInv
<1>2. NamesTell'
  BY DEF ValueInv, NamesTell
<1>3. outcome' = "generating" => FlagsTell'
  BY DEF ValueInv, FlagsTell
<1>4. \A k \in 1..index' : TieOf(k)' /\ (Regular(region) => InputsOf(k)')
  BY WrittenBefore
<1> QED
  BY <1>1, <1>2, <1>3, <1>4 DEF ValueInv

\* The flags after an instruction that opens and closes nothing.
LEMMA FlagsStay ==
    ASSUME ValueInv, outcome = "generating", region' = region, index' = index + 1,
           Current.opcode \notin Opcodes({"WHERE_CRY", "WHERE_EQ", "WHERE_LT", "END_WHERE",
                        "DISABLE_CELL", "ENABLE_ALL_CELLS", "SETLC", "IJMPNZ"}),
           UNCHANGED <<inWhere, inRepeat, inGating>>
    PROVE  FlagsTell'
<1>1. index \in Nat /\ Operation(region, index) = Current
  BY RegionsAssumption DEF ValueInv, OrderInv, InRegion, Operation, Current, Instr
<1>2. FlagsTell
  BY DEF ValueInv
<1>3. WithinWhere(region, index + 1) <=> WithinWhere(region, index)
  BY <1>1, WithinStep DEF WithinWhere, Opcodes
<1>4. WithinRepeat(region, index + 1) <=> WithinRepeat(region, index)
  BY <1>1, WithinStep DEF WithinRepeat, Opcodes
<1>5. WithinGating(region, index + 1) <=> WithinGating(region, index)
  BY <1>1, WithinStep DEF WithinGating, Opcodes
<1> QED
  BY <1>2, <1>3, <1>4, <1>5 DEF FlagsTell

\* The inputs that a case gives the node are what its registers are named for.
Suits(inputs) ==
    /\ \A r \in Read(Current) :
          r \in SelectionRegisters /\ \E n \in DOMAIN inputs : inputs[n] = names[r]
    /\ \A n \in DOMAIN inputs :
          n <= 2 /\ Current.opcode \notin Opcodes({"ADD", "AND", "OR", "XOR", "READ"}) =>
              LET r == IF n = 1 THEN GetLeft(Current) ELSE GetRight(Current) IN
              r \in SelectionRegisters /\ inputs[n] = names[r]

\* A node that is written is tied to the last definition where that is the one a
\* lane may keep, and is a last definition itself.
LEMMA WrittenWithValues ==
    ASSUME ValueInv, OrderInv', region' = region, outcome = "generating", index < region.count,
           NEW inputs, NEW outputs, NEW edge, NEW where, NEW repeat, NEW gating,
           Written(inputs, outputs, edge, where, repeat, gating),
           HasDest => ((where \/ repeat \/ gating) <=> (inWhere \/ inRepeat \/ inGating)),
           index' = index + 1 => FlagsTell',
           Regular(region) => Suits(inputs)
    PROVE  ValueInv'
<1>1. index \in Nat /\ index + 1 \in 1..region.count /\ region.count \in Nat
  BY RegionsAssumption DEF ValueInv, OrderInv, InRegion
<1>2. CASE Fails
  BY <1>2, ElsewhereValues DEF Fails
<1>3. CASE ~Fails
  <2> DEFINE special == Predicated(where, repeat, gating)
             node == [special |-> special, inputs |-> inputs, outputs |-> outputs,
                      edge |-> edge, tied |-> IF special THEN virtual[Dest] ELSE NotInitialized]
  <2>1. /\ nodes' = Append(nodes, node)
        /\ IF HasDest THEN Define(Node(index + 1)) ELSE UNCHANGED <<names, virtual>>
        /\ index' = index + 1
        /\ outcome' = outcome
        /\ NotInitialized \notin {inputs[k] : k \in DOMAIN inputs}
    BY <1>3 DEF Written
  <2>2. /\ node.inputs = inputs
        /\ node.tied = IF HasDest /\ (where \/ repeat \/ gating) THEN virtual[Dest]
                       ELSE NotInitialized
    BY DEF Predicated
  <2> HIDE DEF node
  <2>3. /\ \A k \in 1..index : nodes'[k] = nodes[k]
        /\ nodes'[index'] = node
    BY <1>1, <2>1, Appending DEF ValueInv, OrderInv
  <2>4. /\ Dest \in SelectionRegisters \cup {NoRegIndex}
        /\ Operation(region, index) = Current /\ GetDest(Operation(region, index)) = Dest
    BY <1>1, Destination DEF ValueInv, OrderInv, InRegion, Dest, Current, Operation, Instr
  <2>5. NamesTell'
    <3>1. ASSUME NEW g \in SelectionRegisters PROVE names'[g] = Latest(region, index + 1, g)
      <4>1. Defines(region, index + 1, g) <=> Dest = g
        BY <1>1, <2>4 DEF Defines
      <4>2. g # NoRegIndex
        BY DEF SelectionRegisters, NoRegIndex
      <4>3. names[g] = Latest(region, index, g) /\ DOMAIN names = SelectionRegisters
        BY DEF ValueInv, NamesTell, OrderInv, InRegion
      <4>4. names'[g] = IF Dest = g THEN Node(index + 1) ELSE names[g]
        BY <2>1, <2>4, <4>2, <4>3 DEF Define, HasDest
      <4> QED
        BY <1>1, <4>1, <4>3, <4>4, LatestStep
    <3>2. virtual' = names'
      BY <2>1 DEF Define, ValueInv, NamesTell
    <3> QED
      BY <2>1, <3>1, <3>2 DEF NamesTell
  <2>6. ASSUME NEW k \in 1..index', k = index + 1 PROVE TieOf(k)'
    <3>1. HasDest => virtual[Dest] = Latest(region, index, Dest)
      BY <2>4 DEF ValueInv, NamesTell, HasDest
    <3>2. inWhere \/ inRepeat \/ inGating <=> Kept(region, index)
      BY DEF ValueInv, FlagsTell, Kept
    <3>3. nodes'[index + 1].tied = IF Dest # NoRegIndex /\ Kept(region, index)
                                   THEN Latest(region, index, Dest) ELSE NotInitialized
      BY <2>1, <2>2, <2>3, <3>1, <3>2 DEF HasDest
    <3>4. k - 1 = index
      BY <1>1, <2>6
    <3> QED
      BY <2>4, <2>6, <3>3, <3>4 DEF TieOf
  <2>7. ASSUME Regular(region), NEW k \in 1..index', k = index + 1 PROVE InputsOf(k)'
    <3>1. nodes'[k].inputs = inputs /\ k - 1 = index
      <4>1. k = index' /\ k - 1 = index
        BY <1>1, <2>1, <2>7
      <4> QED
        BY <2>2, <2>3, <4>1
    <3>2. \A r \in SelectionRegisters : names[r] = Latest(region, index, r)
      BY DEF ValueInv, NamesTell
    <3>3. \A n \in DOMAIN inputs : inputs[n] # NotInitialized
      BY <2>1
    <3>4. Suits(inputs)
      BY <2>7
    <3>5. \A r \in Read(Current) : \E n \in DOMAIN inputs :
              r \in SelectionRegisters /\ inputs[n] = Latest(region, index, r)
              /\ inputs[n] # NotInitialized
      BY <3>2, <3>3, <3>4 DEF Suits
    <3>6. \A n \in DOMAIN inputs :
              n <= 2 /\ Current.opcode \notin Opcodes({"ADD", "AND", "OR", "XOR", "READ"}) =>
                  LET r == IF n = 1 THEN GetLeft(Current) ELSE GetRight(Current) IN
                  r \in SelectionRegisters /\ inputs[n] = Latest(region, index, r)
                  /\ inputs[n] # NotInitialized
      BY <3>2, <3>3, <3>4 DEF Suits
    <3> QED
      BY <2>4, <3>1, <3>5, <3>6 DEF InputsOf, IsLatest
  <2>8. \A k \in 1..index' : TieOf(k)' /\ (Regular(region) => InputsOf(k)')
    <3>1. \A k \in 1..index : TieOf(k)' /\ (Regular(region) => InputsOf(k)')
      BY <2>3, WrittenBefore
    <3> QED
      BY <1>1, <2>1, <2>6, <2>7, <3>1
  <2>9. FlagsTell' /\ outcome' = "generating"
    BY <2>1
  <2> QED
    BY <2>5, <2>8, <2>9 DEF ValueInv
<1> QED
  BY <1>2, <1>3

\* A case that selects no lanes keeps what is known of values if its inputs are
\* the variables of the registers that it reads.
LEMMA PlainlyWithValues ==
    ASSUME ValueInv, OrderInv', NEW S, Case(S),
           Current.opcode \notin Opcodes({"WHERE_CRY", "WHERE_EQ", "WHERE_LT", "END_WHERE",
                        "DISABLE_CELL", "ENABLE_ALL_CELLS", "SETLC", "IJMPNZ"}),
           NEW inputs, NEW outputs, NEW edge, Plainly(inputs, outputs, edge),
           Regular(region) => Suits(inputs)
    PROVE  ValueInv'
<1>1. region' = region /\ outcome = "generating" /\ index < region.count
  BY DEF Case
<1>2. /\ Written(inputs, outputs, edge, inWhere, inRepeat, inGating)
      /\ UNCHANGED <<inWhere, inRepeat, inGating>>
  BY DEF Plainly
<1>3. index' = index + 1 => FlagsTell'
  BY <1>1, <1>2, FlagsStay
<1> QED
  BY <1>1, <1>2, <1>3, WrittenWithValues

\* A case that selects lanes keeps it if its instruction reads nothing.
LEMMA SelectionWithValues ==
    ASSUME ValueInv, OrderInv', NEW S, Case(S),
           Current.opcode \in Opcodes({"WHERE_CRY", "WHERE_EQ", "WHERE_LT", "END_WHERE",
                        "DISABLE_CELL", "ENABLE_ALL_CELLS", "SETLC", "IJMPNZ"}),
           NEW where, NEW repeat, NEW gating,
           Written(<< >>, 0, OrderEdge, where, repeat, gating),
           index' = index + 1 => FlagsTell'
    PROVE  ValueInv'
<1>1. region' = region /\ outcome = "generating" /\ index < region.count
  BY DEF Case
<1>2. ~HasDest
  BY NoResultNoDestination DEF HasDest, Dest, Opcodes
<1>3. Read(Current) = {}
  BY DEF Read, GetLeft, GetRight, WithoutRegisters, Opcodes
<1>4. Suits(<< >>)
  BY <1>3 DEF Suits
<1> QED
  BY <1>1, <1>2, <1>4, WrittenWithValues

\* What a regular region's instruction takes are registers.
LEMMA OperandsOf ==
    ASSUME ValueInv, outcome = "generating", index < region.count, Regular(region)
    PROVE  HasItsOperands(Current)
<1>1. index \in 0..(region.count - 1) /\ Operation(region, index) = Current
  BY RegionsAssumption DEF ValueInv, OrderInv, InRegion, Operation, Current, Instr
<1> QED
  BY <1>1 DEF Regular

\* The instructions without a left or a right register, and those with both or
\* with a left one.
NoLeft ==
    {"NOP", "WHERE_CRY", "WHERE_EQ", "WHERE_LT", "END_WHERE", "DISABLE_CELL",
     "ENABLE_ALL_CELLS", "SETLC", "IJMPNZ", "PRINT_CHARS", "IREAD", "VLOAD", "LDIX",
     "MULT_LO", "MULT_HI", "LDSH", "READ"}
NoRight ==
    (NoLeft \ {"READ"}) \cup {"ISHL", "ISHR", "ISHRA", "REDUCE", "REDUCE_U", "SCAN", "IWRITE",
                              "POPCNT", "NOT", "PRINT_REG"}
Both ==
    {"XOR", "AND", "OR", "ADD", "ADDC", "SUBC", "SUB", "SHL", "SHR", "SHRA", "EQ", "LT", "ULT",
     "MULT", "MULT_U", "CELL_SHL", "CELL_SHR"}
OnlyLeft == {"ISHL", "ISHR", "ISHRA", "POPCNT", "NOT", "REDUCE", "REDUCE_U"}

\* No two instructions share an opcode.
LEMMA CodesDiffer == \A a, b \in DOMAIN Opcode : Opcode[a] = Opcode[b] => a = b
BY DEF Opcode

\* The sets are of opcodes that there are.
LEMMA CodesAre ==
    NoLeft \subseteq DOMAIN Opcode /\ NoRight \subseteq DOMAIN Opcode
    /\ Both \subseteq DOMAIN Opcode /\ OnlyLeft \subseteq DOMAIN Opcode
BY DEF Opcode, NoLeft, NoRight, Both, OnlyLeft

\* The opcode of one set of instructions is not that of another.
LEMMA CodesApart ==
    ASSUME NEW a, a \subseteq DOMAIN Opcode, NEW b, b \subseteq DOMAIN Opcode, a \cap b = {},
           NEW x \in Opcodes(a)
    PROVE  x \notin Opcodes(b)
BY CodesDiffer DEF Opcodes

\* The operands that getLeft() and getRight() return, and that are registers.
LEMMA OperandRegisters ==
    ASSUME NEW i, HasItsOperands(i)
    PROVE  /\ GetLeft(i) = IF i.opcode \in Opcodes(NoLeft) THEN NoRegIndex ELSE i.left
           /\ GetRight(i) = IF i.opcode \in Opcodes(NoRight) THEN NoRegIndex ELSE i.right
           /\ i.opcode \notin Opcodes(NoLeft) => i.left \in SelectionRegisters
           /\ i.opcode \notin Opcodes(NoRight) => i.right \in SelectionRegisters
<1>1. \A o : /\ o \in WithoutRegisters \cup OnlyDest \cup Opcodes({"READ"})
                    <=> o \in Opcodes(NoLeft)
             /\ o \in WithoutRegisters \cup OnlyDest \cup ImmediateShifts
                      \cup Opcodes({"REDUCE", "REDUCE_U", "SCAN", "IWRITE", "POPCNT",
                                    "NOT", "PRINT_REG"})
                    <=> o \in Opcodes(NoRight)
             /\ o \in WithoutRegisters \cup OnlyDest \cup ImmediateShifts
                      \cup Opcodes({"REDUCE", "REDUCE_U", "IWRITE", "POPCNT", "NOT"})
                    => o \in Opcodes(NoRight)
  BY DEF WithoutRegisters, OnlyDest, ImmediateShifts, Opcodes, NoLeft, NoRight
<1> QED
  BY <1>1 DEF GetLeft, GetRight, HasItsOperands

\* The operands of the cases that take two, one or none.
LEMMA OperandsSuit ==
    ASSUME HasItsOperands(Current)
    PROVE  /\ Current.opcode \in Opcodes({"XOR", "AND", "OR", "ADD"})
                  => Suits(<<RightOperand, LeftOperand>>)
           /\ \A e : Current.opcode \in Opcodes({"ADDC", "SUBC"})
                  => Suits(<<LeftOperand, RightOperand, e>>)
           /\ Current.opcode \in Opcodes({"SUB", "SHL", "SHR", "SHRA", "EQ", "LT", "ULT",
                                          "MULT", "MULT_U", "CELL_SHL", "CELL_SHR"})
                  => Suits(<<LeftOperand, RightOperand>>)
           /\ Current.opcode \in Opcodes(OnlyLeft) => Suits(<<LeftOperand>>)
           /\ Current.opcode \in Opcodes({"READ"}) => Suits(<<RightOperand>>)
           /\ Current.opcode \in Opcodes({"VLOAD", "MULT_LO", "MULT_HI", "LDSH", "LDIX",
                                          "IREAD", "NOP"})
                  => Suits(<< >>)
           /\ Current.opcode \notin Opcodes({"IWRITE", "BIT_REVERSE"})
<1> DEFINE left == GetLeft(Current)
           right == GetRight(Current)
<1>1. /\ left = IF Current.opcode \in Opcodes(NoLeft) THEN NoRegIndex ELSE Current.left
      /\ right = IF Current.opcode \in Opcodes(NoRight) THEN NoRegIndex ELSE Current.right
      /\ Current.opcode \notin Opcodes(NoLeft) => Current.left \in SelectionRegisters
      /\ Current.opcode \notin Opcodes(NoRight) => Current.right \in SelectionRegisters
  BY OperandRegisters
<1>2. LeftOperand = names[left] /\ RightOperand = names[right]
      /\ Read(Current) = {r \in {left, right} : r # NoRegIndex}
  BY DEF LeftOperand, RightOperand, Read
<1>3. Current.opcode \in Opcodes(Both) => left \in SelectionRegisters /\ right \in SelectionRegisters
  <2> SUFFICES ASSUME Current.opcode \in Opcodes(Both)
               PROVE  Current.opcode \notin Opcodes(NoLeft) /\ Current.opcode \notin Opcodes(NoRight)
    BY <1>1
  <2>1. Both \cap NoLeft = {} /\ Both \cap NoRight = {}
    BY DEF Both, NoLeft, NoRight
  <2> QED
    BY <2>1, CodesAre, CodesApart
<1>4. Current.opcode \in Opcodes(OnlyLeft) => left \in SelectionRegisters /\ right = NoRegIndex
  <2> SUFFICES ASSUME Current.opcode \in Opcodes(OnlyLeft)
               PROVE  Current.opcode \notin Opcodes(NoLeft) /\ Current.opcode \in Opcodes(NoRight)
    BY <1>1
  <2>1. OnlyLeft \cap NoLeft = {} /\ OnlyLeft \subseteq NoRight
    BY DEF OnlyLeft, NoLeft, NoRight
  <2>2. Current.opcode \in Opcodes(NoRight)
    BY <2>1 DEF Opcodes
  <2> QED
    BY <2>1, <2>2, CodesAre, CodesApart
<1>5. Current.opcode \in Opcodes({"READ"}) => right \in SelectionRegisters /\ left = NoRegIndex
  <2> SUFFICES ASSUME Current.opcode \in Opcodes({"READ"})
               PROVE  Current.opcode \in Opcodes(NoLeft) /\ Current.opcode \notin Opcodes(NoRight)
    BY <1>1
  <2>1. {"READ"} \cap NoRight = {} /\ {"READ"} \subseteq NoLeft
    BY DEF NoLeft, NoRight
  <2>2. Current.opcode \in Opcodes(NoLeft)
    BY <2>1 DEF Opcodes
  <2> QED
    BY <2>1, <2>2, CodesAre, CodesApart
<1>6. Current.opcode \in Opcodes({"VLOAD", "MULT_LO", "MULT_HI", "LDSH", "LDIX", "IREAD", "NOP"})
          => left = NoRegIndex /\ right = NoRegIndex
  <2> SUFFICES ASSUME Current.opcode \in Opcodes({"VLOAD", "MULT_LO", "MULT_HI", "LDSH", "LDIX",
                                                  "IREAD", "NOP"})
               PROVE  Current.opcode \in Opcodes(NoLeft) /\ Current.opcode \in Opcodes(NoRight)
    BY <1>1
  <2> QED
    BY DEF Opcodes, NoLeft, NoRight
<1> HIDE DEF left, right
<1>7. ASSUME NEW s, DOMAIN s \in {{1, 2}, {1, 2, 3}}, s[1] = names[left], s[2] = names[right],
             Current.opcode \in Opcodes(Both)
      PROVE  Suits(s)
  <2>1. left \in SelectionRegisters /\ right \in SelectionRegisters
    BY <1>3, <1>7
  <2>2. s[1] = names[left] /\ s[2] = names[right] /\ 1 \in DOMAIN s /\ 2 \in DOMAIN s
    BY <1>7
  <2>3. \A r \in Read(Current) :
            r \in SelectionRegisters /\ \E n \in DOMAIN s : s[n] = names[r]
    BY <1>2, <2>1, <2>2
  <2>4. \A n \in DOMAIN s : n <= 2 => n = 1 \/ n = 2
    BY <1>7
  <2> QED
    BY <2>1, <2>2, <2>3, <2>4 DEF Suits, left, right
<1>8. Current.opcode \in Opcodes({"XOR", "AND", "OR", "ADD"})
          => Suits(<<RightOperand, LeftOperand>>)
  <2> SUFFICES ASSUME Current.opcode \in Opcodes({"XOR", "AND", "OR", "ADD"})
               PROVE  Suits(<<RightOperand, LeftOperand>>)
    OBVIOUS
  <2> DEFINE s == <<RightOperand, LeftOperand>>
  <2>1. s[1] = names[right] /\ s[2] = names[left] /\ 1 \in DOMAIN s /\ 2 \in DOMAIN s
    BY <1>2
  <2>2. Current.opcode \in Opcodes(Both)
        /\ Current.opcode \in Opcodes({"ADD", "AND", "OR", "XOR", "READ"})
    BY DEF Opcodes, Both
  <2> HIDE DEF s
  <2>3. left \in SelectionRegisters /\ right \in SelectionRegisters
    BY <1>3, <2>2
  <2>4. \A r \in Read(Current) :
            r \in SelectionRegisters /\ \E n \in DOMAIN s : s[n] = names[r]
    BY <1>2, <2>1, <2>3
  <2>5. Suits(s)
    BY <2>2, <2>4 DEF Suits
  <2> QED
    BY <2>5 DEF s
<1>9. \A e : Current.opcode \in Opcodes({"ADDC", "SUBC"})
          => Suits(<<LeftOperand, RightOperand, e>>)
  <2> TAKE e
  <2> DEFINE s == <<LeftOperand, RightOperand, e>>
  <2>1. DOMAIN s = {1, 2, 3} /\ s[1] = names[left] /\ s[2] = names[right]
    BY <1>2
  <2>2. Current.opcode \in Opcodes({"ADDC", "SUBC"}) => Current.opcode \in Opcodes(Both)
    BY DEF Opcodes, Both
  <2> HIDE DEF s
  <2>3. Current.opcode \in Opcodes({"ADDC", "SUBC"}) => Suits(s)
    BY <1>7, <2>1, <2>2
  <2> QED
    BY <2>3 DEF s
<1>10. Current.opcode \in Opcodes({"SUB", "SHL", "SHR", "SHRA", "EQ", "LT", "ULT",
                                   "MULT", "MULT_U", "CELL_SHL", "CELL_SHR"})
          => Suits(<<LeftOperand, RightOperand>>)
  <2> DEFINE s == <<LeftOperand, RightOperand>>
             codes == {"SUB", "SHL", "SHR", "SHRA", "EQ", "LT", "ULT",
                       "MULT", "MULT_U", "CELL_SHL", "CELL_SHR"}
  <2>1. DOMAIN s = {1, 2} /\ s[1] = names[left] /\ s[2] = names[right]
    BY <1>2
  <2>2. Current.opcode \in Opcodes(codes) => Current.opcode \in Opcodes(Both)
    BY DEF Opcodes, Both
  <2> HIDE DEF s, codes
  <2>3. Current.opcode \in Opcodes(codes) => Suits(s)
    BY <1>7, <2>1, <2>2
  <2> QED
    BY <2>3 DEF s, codes
<1>11. Current.opcode \in Opcodes(OnlyLeft) => Suits(<<LeftOperand>>)
  <2> SUFFICES ASSUME Current.opcode \in Opcodes(OnlyLeft) PROVE Suits(<<LeftOperand>>)
    OBVIOUS
  <2>1. <<LeftOperand>>[1] = names[left] /\ DOMAIN <<LeftOperand>> = {1}
    BY <1>2
  <2> QED
    BY <1>2, <1>4, <2>1 DEF Suits, left
<1>12. Current.opcode \in Opcodes({"READ"}) => Suits(<<RightOperand>>)
  <2> SUFFICES ASSUME Current.opcode \in Opcodes({"READ"}) PROVE Suits(<<RightOperand>>)
    OBVIOUS
  <2>1. <<RightOperand>>[1] = names[right] /\ DOMAIN <<RightOperand>> = {1}
    BY <1>2
  <2>2. Current.opcode \in Opcodes({"ADD", "AND", "OR", "XOR", "READ"})
    BY DEF Opcodes
  <2> QED
    BY <1>2, <1>5, <2>1, <2>2 DEF Suits
<1>13. Current.opcode \in Opcodes({"VLOAD", "MULT_LO", "MULT_HI", "LDSH", "LDIX", "IREAD", "NOP"})
          => Suits(<< >>)
  <2> SUFFICES ASSUME Current.opcode \in Opcodes({"VLOAD", "MULT_LO", "MULT_HI", "LDSH", "LDIX",
                                                  "IREAD", "NOP"})
               PROVE  Suits(<< >>)
    OBVIOUS
  <2>1. Read(Current) = {}
    BY <1>2, <1>6
  <2> QED
    BY <2>1 DEF Suits
<1> QED
  BY <1>8, <1>9, <1>10, <1>11, <1>12, <1>13 DEF HasItsOperands

\* The opcode of a case that selects no lanes.
LEMMA SelectsNothing ==
    ASSUME NEW S, S \subseteq DOMAIN Opcode,
           S \cap {"WHERE_CRY", "WHERE_EQ", "WHERE_LT", "END_WHERE",
                   "DISABLE_CELL", "ENABLE_ALL_CELLS", "SETLC", "IJMPNZ"} = {},
           Current.opcode \in Opcodes(S)
    PROVE  Current.opcode \notin Opcodes({"WHERE_CRY", "WHERE_EQ", "WHERE_LT", "END_WHERE",
                        "DISABLE_CELL", "ENABLE_ALL_CELLS", "SETLC", "IJMPNZ"})
<1>1. {"WHERE_CRY", "WHERE_EQ", "WHERE_LT", "END_WHERE",
       "DISABLE_CELL", "ENABLE_ALL_CELLS", "SETLC", "IJMPNZ"} \subseteq DOMAIN Opcode
  BY DEF Opcode
<1> QED
  BY <1>1, CodesApart

\* Each case that selects no lanes keeps what is known of values.
LEMMA ComputationWithValues ==
    ASSUME ValueInv, OrderInv',
           \/ SelectMirrored \/ SelectBinary \/ SelectWithCarry \/ SelectUnary
           \/ SelectWithoutOperands \/ SelectAccess \/ SelectWithoutResult \/ SelectDefault
    PROVE  ValueInv'
<1> DEFINE Selecting == {"WHERE_CRY", "WHERE_EQ", "WHERE_LT", "END_WHERE",
                         "DISABLE_CELL", "ENABLE_ALL_CELLS", "SETLC", "IJMPNZ"}
<1>1. Regular(region) => HasItsOperands(Current)
  BY OperandsOf
     DEF SelectMirrored, SelectBinary, SelectWithCarry, SelectUnary, SelectWithoutOperands,
         SelectAccess, SelectWithoutResult, SelectDefault, Case
<1>2. ASSUME NEW S, S \subseteq DOMAIN Opcode, S \cap Selecting = {}, Case(S),
             NEW inputs, NEW outputs, NEW edge, Plainly(inputs, outputs, edge),
             Regular(region) => Suits(inputs)
      PROVE  ValueInv'
  <2>1. Current.opcode \notin Opcodes(Selecting)
    BY <1>2, SelectsNothing DEF Case
  <2> QED
    BY <1>2, <2>1, PlainlyWithValues
<1>3. CASE SelectMirrored
  <2> DEFINE S == {"XOR", "AND", "OR", "ADD"}
  <2>1. S \subseteq DOMAIN Opcode /\ S \cap Selecting = {}
    BY DEF Opcode
  <2>2. Case(S) /\ Plainly(<<RightOperand, LeftOperand>>, 1, OrderEdge)
    BY <1>3 DEF SelectMirrored
  <2>3. Regular(region) => Suits(<<RightOperand, LeftOperand>>)
    BY <1>1, <2>2, OperandsSuit DEF Case
  <2> HIDE DEF S, Selecting
  <2> QED
    BY <1>2, <2>1, <2>2, <2>3
<1>4. CASE SelectBinary
  <2> DEFINE S == {"SUB", "SHL", "SHR", "SHRA", "EQ", "LT", "ULT"}
  <2>1. S \subseteq DOMAIN Opcode /\ S \cap Selecting = {}
    BY DEF Opcode
  <2>2. Case(S) /\ Plainly(<<LeftOperand, RightOperand>>, 1, OrderEdge)
    BY <1>4 DEF SelectBinary
  <2>3. Current.opcode \in Opcodes({"SUB", "SHL", "SHR", "SHRA", "EQ", "LT", "ULT",
                                    "MULT", "MULT_U", "CELL_SHL", "CELL_SHR"})
    BY <2>2 DEF Case, Opcodes
  <2>4. Regular(region) => Suits(<<LeftOperand, RightOperand>>)
    BY <1>1, <2>3, OperandsSuit
  <2> HIDE DEF S, Selecting
  <2> QED
    BY <1>2, <2>1, <2>2, <2>4
<1>5. CASE SelectWithCarry
  <2> DEFINE S == {"ADDC", "SUBC"}
             refused == index = 0 \/ (index > 0 /\ GetDest(Instr(index - 1)) = NoRegIndex)
             inputs == <<LeftOperand, RightOperand, names[GetDest(Instr(index - 1))]>>
  <2>1. S \subseteq DOMAIN Opcode /\ S \cap Selecting = {}
    BY DEF Opcode
  <2>2. Case(S)
    BY <1>5 DEF SelectWithCarry
  <2>3. CASE refused
    <3>1. Fails
      BY <1>5, <2>3 DEF SelectWithCarry
    <3> QED
      BY <2>2, <3>1, ElsewhereValues DEF Fails, Case
  <2>4. CASE ~refused
    <3>1. Plainly(inputs, 1, NoEdge)
      BY <1>5, <2>4 DEF SelectWithCarry
    <3>2. Regular(region) => Suits(inputs)
      BY <1>1, <2>2, OperandsSuit DEF Case
    <3> HIDE DEF S, Selecting, inputs
    <3> QED
      BY <1>2, <2>1, <2>2, <3>1, <3>2
  <2> QED
    BY <2>3, <2>4
<1>6. CASE SelectUnary
  <2> DEFINE S == {"ISHL", "ISHR", "ISHRA", "POPCNT", "NOT"}
  <2>1. S \subseteq DOMAIN Opcode /\ S \cap Selecting = {}
    BY DEF Opcode
  <2>2. Case(S) /\ Plainly(<<LeftOperand>>, 1, OrderEdge)
    BY <1>6 DEF SelectUnary
  <2>3. Current.opcode \in Opcodes(OnlyLeft)
    BY <2>2 DEF Case, Opcodes, OnlyLeft
  <2>4. Regular(region) => Suits(<<LeftOperand>>)
    BY <1>1, <2>3, OperandsSuit
  <2> HIDE DEF S, Selecting
  <2> QED
    BY <1>2, <2>1, <2>2, <2>4
<1>7. CASE SelectWithoutOperands
  <2> DEFINE S == {"VLOAD", "MULT_LO", "MULT_HI", "LDSH", "LDIX", "IREAD"}
  <2>1. S \subseteq DOMAIN Opcode /\ S \cap Selecting = {}
    BY DEF Opcode
  <2>2. Case(S) /\ Plainly(<< >>, 1, OrderEdge)
    BY <1>7 DEF SelectWithoutOperands
  <2>3. Current.opcode \in Opcodes({"VLOAD", "MULT_LO", "MULT_HI", "LDSH", "LDIX",
                                    "IREAD", "NOP"})
    BY <2>2 DEF Case, Opcodes
  <2>4. Regular(region) => Suits(<< >>)
    BY <1>1, <2>3, OperandsSuit
  <2> HIDE DEF S, Selecting
  <2> QED
    BY <1>2, <2>1, <2>2, <2>4
<1>8. CASE SelectAccess
  <2>1. CASE Case({"READ", "WRITE"}) /\ Plainly(<<RightOperand>>, 1, OrderEdge)
    <3>1. CASE Current.opcode \in Opcodes({"READ"})
      <4>1. {"READ", "WRITE"} \subseteq DOMAIN Opcode /\ {"READ", "WRITE"} \cap Selecting = {}
        BY DEF Opcode
      <4>2. Regular(region) => Suits(<<RightOperand>>)
        BY <1>1, <3>1, OperandsSuit
      <4> HIDE DEF Selecting
      <4> QED
        BY <1>2, <2>1, <4>1, <4>2
    <3>2. CASE Current.opcode \in Opcodes({"WRITE"})
      <4>1. ~HasDest
        BY <3>2 DEF HasDest, Dest, GetDest, Opcodes
      <4>2. Current.opcode \notin Opcodes({"WHERE_CRY", "WHERE_EQ", "WHERE_LT", "END_WHERE",
                                           "IWRITE", "SETLC", "IJMPNZ"})
        <5>1. {"WHERE_CRY", "WHERE_EQ", "WHERE_LT", "END_WHERE", "IWRITE", "SETLC", "IJMPNZ"}
                  \subseteq DOMAIN Opcode
              /\ {"WRITE"} \subseteq DOMAIN Opcode
          BY DEF Opcode
        <5> QED
          BY <3>2, <5>1, CodesApart
      <4>3. Fails
        BY <2>1, <4>1, <4>2 DEF Plainly, Written
      <4> QED
        BY <2>1, <4>3, ElsewhereValues DEF Fails, Case
    <3> QED
      BY <2>1, <3>1, <3>2 DEF Case, Opcodes
  <2>2. CASE Case({"IWRITE"}) /\ Plainly(<< >>, 0, OrderEdge)
    <3>1. {"IWRITE"} \subseteq DOMAIN Opcode /\ {"IWRITE"} \cap Selecting = {}
      BY DEF Opcode
    <3>2. Current.opcode \in Opcodes({"IWRITE", "BIT_REVERSE"})
      BY <2>2 DEF Case, Opcodes
    <3>3. ~Regular(region)
      BY <1>1, <3>2, OperandsSuit
    <3> HIDE DEF Selecting
    <3> QED
      BY <1>2, <2>2, <3>1, <3>3
  <2> QED
    BY <1>8, <2>1, <2>2 DEF SelectAccess
<1>9. CASE SelectWithoutResult
  <2>1. CASE Case({"REDUCE", "REDUCE_U"}) /\ Plainly(<<LeftOperand>>, 0, OrderEdge)
    <3> DEFINE S == {"REDUCE", "REDUCE_U"}
    <3>1. S \subseteq DOMAIN Opcode /\ S \cap Selecting = {}
      BY DEF Opcode
    <3>2. Current.opcode \in Opcodes(OnlyLeft)
      BY <2>1 DEF Case, Opcodes, OnlyLeft
    <3>3. Regular(region) => Suits(<<LeftOperand>>)
      BY <1>1, <3>2, OperandsSuit
    <3>4. Case(S)
      BY <2>1
    <3> HIDE DEF S, Selecting
    <3> QED
      BY <1>2, <2>1, <3>1, <3>3, <3>4
  <2>2. CASE /\ Case({"MULT", "MULT_U", "CELL_SHL", "CELL_SHR"})
             /\ Plainly(<<LeftOperand, RightOperand>>, 0, OrderEdge)
    <3> DEFINE S == {"MULT", "MULT_U", "CELL_SHL", "CELL_SHR"}
    <3>1. S \subseteq DOMAIN Opcode /\ S \cap Selecting = {}
      BY DEF Opcode
    <3>2. Current.opcode \in Opcodes({"SUB", "SHL", "SHR", "SHRA", "EQ", "LT", "ULT",
                                      "MULT", "MULT_U", "CELL_SHL", "CELL_SHR"})
      BY <2>2 DEF Case, Opcodes
    <3>3. Regular(region) => Suits(<<LeftOperand, RightOperand>>)
      BY <1>1, <3>2, OperandsSuit
    <3>4. Case(S)
      BY <2>2
    <3> HIDE DEF S, Selecting
    <3> QED
      BY <1>2, <2>2, <3>1, <3>3, <3>4
  <2>3. CASE Case({"NOP"}) /\ Plainly(<< >>, 0, OrderEdge)
    <3>1. {"NOP"} \subseteq DOMAIN Opcode /\ {"NOP"} \cap Selecting = {}
      BY DEF Opcode
    <3>2. Current.opcode \in Opcodes({"VLOAD", "MULT_LO", "MULT_HI", "LDSH", "LDIX",
                                      "IREAD", "NOP"})
      BY <2>3 DEF Case, Opcodes
    <3>3. Regular(region) => Suits(<< >>)
      BY <1>1, <3>2, OperandsSuit
    <3> HIDE DEF Selecting
    <3> QED
      BY <1>2, <2>3, <3>1, <3>3
  <2> QED
    BY <1>9, <2>1, <2>2, <2>3 DEF SelectWithoutResult
<1>10. CASE SelectDefault
  <2>1. {"BIT_REVERSE"} \subseteq DOMAIN Opcode /\ {"BIT_REVERSE"} \cap Selecting = {}
    BY DEF Opcode
  <2>2. Case({"BIT_REVERSE"}) /\ Plainly(<< >>, 1, OrderEdge)
    BY <1>10 DEF SelectDefault
  <2>3. Current.opcode \in Opcodes({"IWRITE", "BIT_REVERSE"})
    BY <2>2 DEF Case, Opcodes
  <2>4. ~Regular(region)
    BY <1>1, <2>3, OperandsSuit
  <2> HIDE DEF Selecting
  <2> QED
    BY <1>2, <2>1, <2>2, <2>4
<1> QED
  BY <1>3, <1>4, <1>5, <1>6, <1>7, <1>8, <1>9, <1>10

\* The opcodes that select lanes are those that open and close what a lane is
\* within.
LEMMA SelectingCodes ==
    ASSUME NEW x
    PROVE  LET wheres0 == Opcodes({"WHERE_CRY", "WHERE_EQ", "WHERE_LT"})
               ends == Opcodes({"END_WHERE"})
               gates == Opcodes({"DISABLE_CELL"})
               ungates == Opcodes({"ENABLE_ALL_CELLS"})
               setlcs == Opcodes({"SETLC"})
               jumps0 == Opcodes({"IJMPNZ"})
           IN  /\ x \in wheres0 => x \notin ends \cup gates \cup ungates \cup setlcs \cup jumps0
               /\ x \in ends => x \notin wheres0 \cup gates \cup ungates \cup setlcs \cup jumps0
               /\ x \in gates => x \notin wheres0 \cup ends \cup ungates \cup setlcs \cup jumps0
               /\ x \in ungates => x \notin wheres0 \cup ends \cup gates \cup setlcs \cup jumps0
               /\ x \in setlcs => x \notin wheres0 \cup ends \cup gates \cup ungates \cup jumps0
               /\ x \in jumps0 => x \notin wheres0 \cup ends \cup gates \cup ungates \cup setlcs
               /\ x \in gates <=> x = Opcode.DISABLE_CELL
               /\ x \in ungates <=> x = Opcode.ENABLE_ALL_CELLS
               /\ x \in setlcs <=> x = Opcode.SETLC
               /\ x \in jumps0 <=> x = Opcode.IJMPNZ
BY DEF Opcodes, Opcode

\* What the lane is within before and after an instruction.
LEMMA SelectionStep ==
    ASSUME ValueInv, outcome = "generating"
    PROVE  LET o == Current.opcode IN
           /\ WithinWhere(region, index + 1) <=>
                 \/ o \in Opcodes({"WHERE_CRY", "WHERE_EQ", "WHERE_LT"})
                 \/ o \notin Opcodes({"END_WHERE"}) /\ inWhere
           /\ WithinRepeat(region, index + 1) <=>
                 o \in Opcodes({"SETLC"}) \/ (o \notin Opcodes({"IJMPNZ"}) /\ inRepeat)
           /\ WithinGating(region, index + 1) <=>
                 \/ o \in Opcodes({"DISABLE_CELL"})
                 \/ o \notin Opcodes({"ENABLE_ALL_CELLS"}) /\ inGating
<1>1. index \in Nat /\ Operation(region, index) = Current
  BY RegionsAssumption DEF ValueInv, OrderInv, InRegion, Operation, Current, Instr
<1>2. FlagsTell
  BY DEF ValueInv
<1> QED
  BY <1>1, <1>2, WithinStep DEF FlagsTell, WithinWhere, WithinRepeat, WithinGating

\* Each case that selects lanes keeps what is known of values.
LEMMA SelectionCasesWithValues ==
    ASSUME ValueInv, OrderInv',
           SelectRepeat \/ SelectWhere \/ SelectEndWhere \/ SelectGating
    PROVE  ValueInv'
<1> DEFINE o == Current.opcode
<1>1. region' = region /\ outcome = "generating"
  BY DEF SelectRepeat, SelectWhere, SelectEndWhere, SelectGating, Case
<1>2. CASE SelectRepeat
  <2>1. Case({"SETLC", "IJMPNZ"}) /\ Written(<< >>, 0, OrderEdge, inWhere, inRepeat', inGating)
        /\ UNCHANGED <<inWhere, inGating>>
    BY <1>2 DEF SelectRepeat
  <2>2. o \in Opcodes({"SETLC"}) \/ o \in Opcodes({"IJMPNZ"})
    BY <2>1 DEF Case, Opcodes
  <2>3. inRepeat' <=> o \in Opcodes({"SETLC"})
    BY <1>2, SelectingCodes DEF SelectRepeat
  <2>4. index' = index + 1 => FlagsTell'
    <3> HIDE DEF o
    <3> QED
      BY <1>1, <2>1, <2>2, <2>3, SelectionStep, SelectingCodes DEF FlagsTell, o
  <2>5. o \in Opcodes({"WHERE_CRY", "WHERE_EQ", "WHERE_LT", "END_WHERE",
                       "DISABLE_CELL", "ENABLE_ALL_CELLS", "SETLC", "IJMPNZ"})
    BY <2>2 DEF Opcodes
  <2> QED
    BY <2>1, <2>4, <2>5, SelectionWithValues
<1>3. CASE SelectWhere
  <2>1. Case({"WHERE_CRY", "WHERE_EQ", "WHERE_LT"}) /\ inWhere' = TRUE
        /\ UNCHANGED <<inRepeat, inGating>>
    BY <1>3 DEF SelectWhere
  <2>2. CASE Fails
    BY <2>1, <2>2, ElsewhereValues DEF Fails, Case
  <2>3. CASE Written(<< >>, 0, OrderEdge, TRUE, inRepeat, inGating)
    <3>1. o \in Opcodes({"WHERE_CRY", "WHERE_EQ", "WHERE_LT"})
      BY <2>1 DEF Case
    <3>2. index' = index + 1 => FlagsTell'
      BY <1>1, <2>1, <3>1, SelectionStep, SelectingCodes DEF FlagsTell
    <3>3. o \in Opcodes({"WHERE_CRY", "WHERE_EQ", "WHERE_LT", "END_WHERE",
                         "DISABLE_CELL", "ENABLE_ALL_CELLS", "SETLC", "IJMPNZ"})
      BY <3>1 DEF Opcodes
    <3> QED
      BY <2>1, <2>3, <3>2, <3>3, SelectionWithValues
  <2> QED
    BY <1>3, <2>2, <2>3 DEF SelectWhere
<1>4. CASE SelectEndWhere
  <2>1. Case({"END_WHERE"}) /\ inWhere' = FALSE /\ UNCHANGED <<inRepeat, inGating>>
        /\ Written(<< >>, 0, OrderEdge, FALSE, inRepeat, inGating)
    BY <1>4 DEF SelectEndWhere
  <2>2. o \in Opcodes({"END_WHERE"})
    BY <2>1 DEF Case
  <2>3. index' = index + 1 => FlagsTell'
    BY <1>1, <2>1, <2>2, SelectionStep, SelectingCodes DEF FlagsTell
  <2>4. o \in Opcodes({"WHERE_CRY", "WHERE_EQ", "WHERE_LT", "END_WHERE",
                       "DISABLE_CELL", "ENABLE_ALL_CELLS", "SETLC", "IJMPNZ"})
    BY <2>2 DEF Opcodes
  <2> QED
    BY <2>1, <2>3, <2>4, SelectionWithValues
<1>5. CASE SelectGating
  <2>1. Case({"DISABLE_CELL", "ENABLE_ALL_CELLS"}) /\ UNCHANGED <<inWhere, inRepeat>>
        /\ Written(<< >>, 0, OrderEdge, inWhere, inRepeat, inGating')
    BY <1>5 DEF SelectGating
  <2>2. o \in Opcodes({"DISABLE_CELL"}) \/ o \in Opcodes({"ENABLE_ALL_CELLS"})
    BY <2>1 DEF Case, Opcodes
  <2>3. inGating' <=> o \in Opcodes({"DISABLE_CELL"})
    BY <1>5, SelectingCodes DEF SelectGating
  <2>4. index' = index + 1 => FlagsTell'
    <3> HIDE DEF o
    <3> QED
      BY <1>1, <2>1, <2>2, <2>3, SelectionStep, SelectingCodes DEF FlagsTell, o
  <2>5. o \in Opcodes({"WHERE_CRY", "WHERE_EQ", "WHERE_LT", "END_WHERE",
                       "DISABLE_CELL", "ENABLE_ALL_CELLS", "SETLC", "IJMPNZ"})
    BY <2>2 DEF Opcodes
  <2> QED
    BY <2>1, <2>4, <2>5, SelectionWithValues
<1> QED
  BY <1>2, <1>3, <1>4, <1>5

\* Every step keeps what is known of values.
LEMMA NextWithValues == ASSUME ValueInv, [Next]_vars PROVE ValueInv'
<1>1. OrderInv'
  BY NextInOrder DEF ValueInv
<1>2. CASE Generate
  <2>1. CASE Finish
    BY <2>1, ElsewhereValues DEF Finish
  <2> QED
    BY <1>1, <1>2, <2>1, ComputationWithValues, SelectionCasesWithValues DEF Generate
<1>3. CASE Allocate \/ Compute \/ SelectLane \/ GateLane \/ Jump \/ Rest \/ UNCHANGED vars
  <2>1. UNCHANGED selectionVars
    BY <1>3 DEF Allocate, Compute, SelectLane, GateLane, Jump, Rest, Executing, vars
  <2>2. outcome' = outcome /\ (outcome = "done" => index = region.count)
        /\ outcome \in {"generating", "done", "assert"}
    BY <2>1 DEF selectionVars, ValueInv
  <2> QED
    BY <2>1, <2>2, ElsewhereValues DEF selectionVars
<1> QED
  BY <1>2, <1>3 DEF Next

-----------------------------------------------------------------------------
(***************************************************************************)
(* Places.                                                                 *)
(***************************************************************************)
PlacesTo(place, code, n) ==
    place = [k \in 0..n |->
                IF k = 0 THEN NotInitialized
                ELSE IF code[k].tied = NotInitialized THEN Node(k)
                ELSE IF code[k].tied[1] = "input" THEN code[k].tied
                ELSE place[code[k].tied[2]]]

\* Ties go back.
Backward(code, n) ==
    \A k \in 1..n : \/ code[k].tied = NotInitialized
                    \/ code[k].tied[1] = "input"
                    \/ code[k].tied[2] \in 0..(k - 1)

\* Nodes whose ties go back have places, however many they are.
LEMMA PlacesExist ==
    ASSUME NEW code, NEW n \in Nat, Backward(code, n)
    PROVE  \E place : PlacesTo(place, code, n)
<1> DEFINE T == {k \in 0..n : \E place : PlacesTo(place, code, k)}
<1>1. 0 \in T
  <2>1. PlacesTo([k \in 0..0 |-> NotInitialized], code, 0)
    BY DEF PlacesTo
  <2> QED
    BY <2>1
<1>2. ASSUME NEW k \in 0..(n - 1), k \in T PROVE k + 1 \in T
  <2>1. PICK f : PlacesTo(f, code, k)
    BY <1>2
  <2>2. \A l \in 0..k : f[l] = IF l = 0 THEN NotInitialized
                               ELSE IF code[l].tied = NotInitialized THEN Node(l)
                               ELSE IF code[l].tied[1] = "input" THEN code[l].tied
                               ELSE f[code[l].tied[2]]
    BY <2>1 DEF PlacesTo
  <2> DEFINE last == IF code[k + 1].tied = NotInitialized THEN Node(k + 1)
                     ELSE IF code[k + 1].tied[1] = "input" THEN code[k + 1].tied
                     ELSE f[code[k + 1].tied[2]]
             g == [l \in 0..(k + 1) |-> IF l <= k THEN f[l] ELSE last]
  <2>3. \A l \in 0..k : g[l] = f[l]
    OBVIOUS
  <2>4. g[k + 1] = last
    OBVIOUS
  <2>5. \A l \in 1..(k + 1) : \/ code[l].tied = NotInitialized
                              \/ code[l].tied[1] = "input"
                              \/ code[l].tied[2] \in 0..(l - 1)
    BY DEF Backward
  <2> DEFINE Tie(l) == code[l].tied
  <2> HIDE DEF g, Tie
  <2>6. \A l \in 0..(k + 1) : g[l] = IF l = 0 THEN NotInitialized
                                     ELSE IF Tie(l) = NotInitialized THEN Node(l)
                                     ELSE IF Tie(l)[1] = "input" THEN Tie(l)
                                     ELSE g[Tie(l)[2]]
    <3> TAKE l \in 0..(k + 1)
    <3>1. CASE l = k + 1
      BY <2>3, <2>4, <2>5, <3>1 DEF Tie
    <3>2. CASE l \in 0..k
      BY <2>2, <2>3, <2>5, <3>2 DEF Tie
    <3> QED
      BY <3>1, <3>2
  <2>7. PlacesTo(g, code, k + 1)
    BY <2>6 DEF PlacesTo, g, Tie
  <2> QED
    BY <2>7
<1> HIDE DEF T
<1>3. \A k \in 0..n : k \in T
  BY <1>1, <1>2, BoundedInduction
<1> QED
  BY <1>3 DEF T

\* The place of a node whose ties go back: its own or that of its tie.
LEMMA PlaceOfNodes ==
    ASSUME Len(nodes) \in Nat, Backward(nodes, Len(nodes)), NEW k \in 1..Len(nodes)
    PROVE  Place(Node(k)) = IF nodes[k].tied = NotInitialized THEN Node(k)
                            ELSE IF nodes[k].tied[1] = "input" THEN nodes[k].tied
                            ELSE PlaceOf(nodes)[nodes[k].tied[2]]
<1>1. PICK f : PlacesTo(f, nodes, Len(nodes))
  BY PlacesExist
<1>2. PlacesTo(PlaceOf(nodes), nodes, Len(nodes))
  BY <1>1 DEF PlacesTo, PlaceOf
<1>3. Place(Node(k)) = PlaceOf(nodes)[k]
  BY Kinds DEF Place
<1>4. k \in 0..Len(nodes) /\ k # 0
  OBVIOUS
<1> QED
  BY <1>2, <1>3, <1>4 DEF PlacesTo

\* The counts and numbers of a region.
LEMMA Numbers ==
    ASSUME ValueInv
    PROVE  /\ index \in Nat /\ region.count \in Nat /\ index <= region.count
           /\ \A g \in SelectionRegisters : g # NoRegIndex
<1>1. index \in Nat /\ region.count \in Nat /\ index <= region.count
  BY RegionsAssumption DEF ValueInv, OrderInv, InRegion
<1>2. \A g \in SelectionRegisters : g # NoRegIndex
  BY DEF SelectionRegisters, NoRegIndex
<1> QED
  BY <1>1, <1>2

\* A node is where the value is that a lane may keep, if there is one.
LEMMA PlaceRule ==
    ASSUME ValueInv, NEW k \in 1..index
    PROVE  LET g == GetDest(Operation(region, k - 1)) IN
           Place(Node(k)) =
               IF g # NoRegIndex /\ Kept(region, k - 1) /\ Latest(region, k - 1, g) # NotInitialized
               THEN Place(Latest(region, k - 1, g)) ELSE Node(k)
<1> DEFINE g(l) == GetDest(Operation(region, l - 1))
<1>1. index \in Nat /\ Len(nodes) = index
  <2>1. index \in Nat
    BY RegionsAssumption DEF ValueInv, OrderInv, InRegion
  <2>2. nodes = [l \in 1..index |-> nodes[l]]
    BY DEF ValueInv, OrderInv, IsSequence
  <2> DEFINE S == {nodes[l] : l \in 1..index}
  <2>3. nodes \in [1..index -> S]
    BY <2>2
  <2> QED
    BY <2>1, <2>3
<1>2. \A l \in 1..index : nodes[l].tied = IF g(l) # NoRegIndex /\ Kept(region, l - 1)
                                          THEN Latest(region, l - 1, g(l)) ELSE NotInitialized
  BY DEF ValueInv, TieOf
<1>3. ASSUME NEW l \in 1..index
      PROVE  \/ nodes[l].tied = NotInitialized
             \/ \E h : nodes[l].tied = Input(h)
             \/ \E b \in 1..(l - 1) : nodes[l].tied = Node(b)
  <2>1. l - 1 \in Nat
    BY <1>1
  <2>2. \/ Latest(region, l - 1, g(l)) = NotInitialized
        \/ \E h : Latest(region, l - 1, g(l)) = Input(h)
        \/ \E b \in 1..(l - 1) : Latest(region, l - 1, g(l)) = Node(b)
    BY <2>1, LatestKinds
  <2> QED
    BY <1>2, <2>2
<1>4. Backward(nodes, Len(nodes))
  <2> SUFFICES ASSUME NEW l \in 1..index
               PROVE  \/ nodes[l].tied = NotInitialized
                      \/ nodes[l].tied[1] = "input"
                      \/ nodes[l].tied[2] \in 0..(l - 1)
    BY <1>1 DEF Backward
  <2> QED
    BY <1>1, <1>3, Kinds
<1>5. Place(Node(k)) = IF nodes[k].tied = NotInitialized THEN Node(k)
                       ELSE IF nodes[k].tied[1] = "input" THEN nodes[k].tied
                       ELSE PlaceOf(nodes)[nodes[k].tied[2]]
  BY <1>1, <1>4, PlaceOfNodes
<1>6. Place(Node(k)) = IF nodes[k].tied = NotInitialized THEN Node(k) ELSE Place(nodes[k].tied)
  <2>1. CASE nodes[k].tied = NotInitialized
    BY <1>5, <2>1
  <2>2. CASE \E h : nodes[k].tied = Input(h)
    <3>1. nodes[k].tied[1] = "input" /\ nodes[k].tied # NotInitialized
      BY <2>2, Kinds
    <3> QED
      BY <1>5, <3>1 DEF Place
  <2>3. CASE \E b \in 1..(k - 1) : nodes[k].tied = Node(b)
    <3>1. nodes[k].tied[1] = "node" /\ nodes[k].tied # NotInitialized
      BY <2>3, Kinds
    <3> QED
      BY <1>5, <3>1 DEF Place
  <2> QED
    BY <1>3, <2>1, <2>2, <2>3
<1> QED
  BY <1>2, <1>6

\* The values of a register are in the caller's place for it, or in the place of
\* a node that it is the destination of: no two registers share a place.
LEMMA HomeOfRegister ==
    ASSUME ValueInv, NEW g \in SelectionRegisters
    PROVE  \A k \in 0..index :
              Latest(region, k, g) # NotInitialized =>
                  \/ Place(Latest(region, k, g)) = Input(g) /\ g \in region.inputs
                  \/ \E b \in 1..k : Place(Latest(region, k, g)) = Node(b) /\ Defines(region, b, g)
<1> DEFINE Home(k) ==
              Latest(region, k, g) # NotInitialized =>
                  \/ Place(Latest(region, k, g)) = Input(g) /\ g \in region.inputs
                  \/ \E b \in 1..k : Place(Latest(region, k, g)) = Node(b) /\ Defines(region, b, g)
           T == {k \in 0..index : Home(k)}
<1>1. index \in Nat /\ g # NoRegIndex
  BY Numbers
<1>2. 0 \in T
  <2>1. Latest(region, 0, g) = IF g \in region.inputs THEN Input(g) ELSE NotInitialized
    BY LatestFirst
  <2>2. Place(Input(g)) = Input(g)
    BY Kinds DEF Place
  <2>3. Home(0)
    BY <2>1, <2>2
  <2> QED
    BY <1>1, <2>3
<1>3. ASSUME NEW k \in 0..(index - 1), k \in T PROVE k + 1 \in T
  <2>1. k \in Nat /\ k + 1 \in 1..index /\ k + 1 - 1 = k
    BY <1>1
  <2>2. Home(k)
    BY <1>3
  <2>3. CASE Defines(region, k + 1, g)
    <3>1. GetDest(Operation(region, k)) = g
      BY <2>1, <2>3 DEF Defines
    <3>2. Latest(region, k + 1, g) = Node(k + 1)
      BY <2>1, <2>3, LatestStep
    <3>3. Place(Node(k + 1)) = IF Kept(region, k) /\ Latest(region, k, g) # NotInitialized
                               THEN Place(Latest(region, k, g)) ELSE Node(k + 1)
      BY <1>1, <2>1, <3>1, PlaceRule
    <3>4. \A b \in 1..k : b \in 1..(k + 1)
      BY <2>1
    <3>5. Home(k + 1)
      BY <2>1, <2>2, <2>3, <3>2, <3>3, <3>4
    <3> QED
      BY <2>1, <3>5
  <2>4. CASE ~Defines(region, k + 1, g)
    <3>1. Latest(region, k + 1, g) = Latest(region, k, g)
      BY <2>1, <2>4, LatestStep
    <3>2. \A b \in 1..k : b \in 1..(k + 1)
      BY <2>1
    <3>3. Home(k + 1)
      BY <2>2, <3>1, <3>2
    <3> QED
      BY <2>1, <3>3
  <2> QED
    BY <2>3, <2>4
<1>4. \A k \in 0..index : k \in T
  <2> HIDE DEF T
  <2> QED
    BY <1>1, <1>2, <1>3, BoundedInduction
<1> QED
  BY <1>4

\* Two places of two registers are two.
LEMMA HomesDiffer ==
    ASSUME ValueInv, NEW g \in SelectionRegisters, NEW h \in SelectionRegisters, g # h,
           NEW k \in 0..index, NEW l \in 0..index,
           Latest(region, k, g) # NotInitialized, Latest(region, l, h) # NotInitialized
    PROVE  Place(Latest(region, k, g)) # Place(Latest(region, l, h))
<1>1. \/ Place(Latest(region, k, g)) = Input(g)
      \/ \E b \in 1..k : Place(Latest(region, k, g)) = Node(b) /\ Defines(region, b, g)
  BY HomeOfRegister
<1>2. \/ Place(Latest(region, l, h)) = Input(h)
      \/ \E b \in 1..l : Place(Latest(region, l, h)) = Node(b) /\ Defines(region, b, h)
  BY HomeOfRegister
<1>3. \A b : ~(Defines(region, b, g) /\ Defines(region, b, h))
  BY DEF Defines
<1> QED
  BY <1>1, <1>2, <1>3, Kinds

\* In the body of a REPEAT, a register stays where it was before the body.
LEMMA BodyKeepsPlaces ==
    ASSUME ValueInv, NEW g \in SelectionRegisters, NEW j \in 0..index, NEW first \in 0..j,
           \A k \in first..j : WithinRepeat(region, k),
           Latest(region, first, g) # NotInitialized
    PROVE  /\ Latest(region, j, g) # NotInitialized
           /\ Place(Latest(region, j, g)) = Place(Latest(region, first, g))
<1> DEFINE Same(k) == /\ Latest(region, k, g) # NotInitialized
                      /\ Place(Latest(region, k, g)) = Place(Latest(region, first, g))
           n == j - first
           T == {k \in 0..n : Same(first + k)}
<1>1. index \in Nat /\ g # NoRegIndex
  BY Numbers
<1>2. n \in Nat /\ first \in Nat /\ j \in Nat /\ first + 0 = first
  BY <1>1
<1>3. 0 \in T
  <2>1. Same(first + 0)
    BY <1>2
  <2> QED
    BY <1>2, <2>1
<1>4. ASSUME NEW k \in 0..(n - 1), k \in T PROVE k + 1 \in T
  <2> DEFINE a == first + k
  <2>1. a \in Nat /\ a + 1 \in 1..index /\ a + 1 - 1 = a /\ a \in first..j /\ first + (k + 1) = a + 1
        /\ k + 1 \in 0..n
    BY <1>1, <1>2
  <2>2. Same(a)
    BY <1>4
  <2>3. WithinRepeat(region, a)
    BY <2>1
  <2> HIDE DEF a
  <2>4. CASE Defines(region, a + 1, g)
    <3>1. GetDest(Operation(region, a)) = g
      BY <2>1, <2>4 DEF Defines
    <3>2. Latest(region, a + 1, g) = Node(a + 1)
      BY <2>1, <2>4, LatestStep
    <3>3. Place(Node(a + 1)) = Place(Latest(region, a, g))
      BY <1>1, <2>1, <2>2, <2>3, <3>1, PlaceRule DEF Kept
    <3> QED
      BY <2>1, <2>2, <3>2, <3>3, Kinds
  <2>5. CASE ~Defines(region, a + 1, g)
    BY <2>1, <2>2, <2>5, LatestStep
  <2> QED
    BY <2>4, <2>5
<1>5. \A k \in 0..n : k \in T
  <2> HIDE DEF T, n
  <2> QED
    BY <1>2, <1>3, <1>4, BoundedInduction
<1>6. n \in 0..n /\ first + n = j
  BY <1>2
<1>7. Same(first + n)
  BY <1>5, <1>6
<1> QED
  BY <1>6, <1>7

-----------------------------------------------------------------------------
(***************************************************************************)
(* The execution of a regular region.  The last definition of a register   *)
(* holds its value; and a register that has one, although the instructions *)
(* before this one give it none, has it from a round before.               *)
(***************************************************************************)
\* A jump goes back from behind an instruction that assigns register h to a place
\* that is not behind instruction a.
Ahead(a, h) ==
    \E j \in 0..(region.count - 1) :
        /\ Operation(region, j).opcode = Opcode.IJMPNZ
        /\ j - Operation(region, j).value \in 0..j
        /\ a \in (j - Operation(region, j).value)..j
        /\ \E k \in a..(j - 1) : GetDest(Operation(region, k)) = h

LaneInv ==
    /\ at \in 0..region.count
    /\ step \in Nat
    /\ registers \in [SelectionRegisters -> Int]
    /\ selected \in BOOLEAN /\ disabled \in BOOLEAN
    /\ ~WithinWhere(region, at) => selected = TRUE
    /\ ~WithinGating(region, at) => disabled = FALSE

AllocatedInv ==
    /\ \A g \in region.inputs : Input(g) \in DOMAIN places
    /\ \A k \in 1..index : Node(k) \in DOMAIN places

HeldBy(g) ==
    Latest(region, at, g) # NotInitialized /\ Defined(g) =>
        Held(Latest(region, at, g)) = registers[g]

FromRoundBefore(g) ==
    Latest(region, at, g) = NotInitialized /\ registers[g] > 0 => Ahead(at, g)

ExecInv ==
    /\ region.inputs # {}
    /\ outcome # "done" => places = << >>
    /\ places = << >> => at = 0 /\ registers = [g \in SelectionRegisters |-> -(g + 1)]
    /\ LaneInv
    /\ places # << >> => /\ AllocatedInv
                         /\ \A g \in SelectionRegisters : HeldBy(g) /\ FromRoundBefore(g)

\* Before the execution nothing has been set.
LEMMA InitExec == CodeInit => ExecInv
<1> SUFFICES ASSUME CodeInit PROVE ExecInv
  OBVIOUS
<1>1. region \in Regions /\ region.inputs # {} /\ outcome = "generating"
  BY DEF CodeInit, Init
<1>2. region.count \in Nat
  BY <1>1, RegionsAssumption
<1>3. LaneInv
  <2>1. \A g \in SelectionRegisters : -(g + 1) \in Int
    BY DEF SelectionRegisters
  <2>2. registers \in [SelectionRegisters -> Int]
    BY <2>1 DEF CodeInit
  <2>3. at \in 0..region.count /\ step \in Nat
    BY <1>2 DEF CodeInit
  <2>4. selected \in BOOLEAN /\ disabled \in BOOLEAN /\ selected = TRUE /\ disabled = FALSE
    BY DEF CodeInit
  <2> QED
    BY <2>2, <2>3, <2>4 DEF LaneInv
<1> QED
  BY <1>1, <1>3 DEF CodeInit, ExecInv

\* While the nodes are written, nothing is executed.
LEMMA GenerateExec == ASSUME ValueInv, ExecInv, Generate, UNCHANGED executionVars PROVE ExecInv'
<1>1. region' = region /\ outcome = "generating"
  BY DEF Generate, SelectMirrored, SelectBinary, SelectWithCarry, SelectUnary,
         SelectWithoutOperands, SelectAccess, SelectWithoutResult, SelectDefault, SelectRepeat,
         SelectWhere, SelectEndWhere, SelectGating, Finish, Case
<1>2. places = << >> /\ places' = << >>
  BY <1>1 DEF ExecInv, executionVars
<1>3. LaneInv'
  BY <1>1 DEF ExecInv, LaneInv, executionVars
<1> QED
  BY <1>1, <1>2, <1>3 DEF ExecInv, executionVars

\* What a step leaves alone that only goes on in the execution.
LEMMA SameCode ==
    ASSUME UNCHANGED selectionVars
    PROVE  /\ region' = region /\ nodes' = nodes /\ index' = index /\ outcome' = outcome
           /\ \A d : Place(d)' = Place(d)
BY DEF selectionVars, Place

\* The inputs are where their registers are.
LEMMA AllocateExec == ASSUME ValueInv, ExecInv, Allocate PROVE ExecInv'
<1>1. /\ UNCHANGED selectionVars /\ UNCHANGED <<at, selected, disabled, step, registers>>
      /\ outcome = "done" /\ places = << >>
  BY DEF Allocate
<1>2. region' = region /\ index' = index /\ outcome' = outcome
  BY <1>1 DEF selectionVars
<1>3. at = 0 /\ registers = [g \in SelectionRegisters |-> -(g + 1)]
  BY <1>1 DEF ExecInv
<1>4. LaneInv'
  BY <1>1, <1>2 DEF ExecInv, LaneInv
<1> DEFINE all == {Input(g) : g \in region.inputs} \cup {Node(k) : k \in DOMAIN nodes}
<1>5. places' = [d \in all |-> IF d[1] = "input" THEN -(d[2] + 1) ELSE Nowhere]
  BY DEF Allocate
<1>6. DOMAIN nodes = 1..index
  BY Numbers, Appending DEF ValueInv, OrderInv
<1>7. AllocatedInv'
  BY <1>2, <1>5, <1>6 DEF AllocatedInv
<1>8. ASSUME NEW g \in SelectionRegisters PROVE HeldBy(g)' /\ FromRoundBefore(g)'
  <2>1. g \in Int /\ g >= 0
    BY DEF SelectionRegisters
  <2>2. registers'[g] = -(g + 1)
    BY <1>1, <1>3
  <2>3. Latest(region, 0, g) = IF g \in region.inputs THEN Input(g) ELSE NotInitialized
    BY LatestFirst
  <2>4. FromRoundBefore(g)'
    BY <2>1, <2>2 DEF FromRoundBefore
  <2>5. g \in region.inputs => places'[Input(g)] = -(g + 1)
    BY <1>5 DEF Input
  <2>6. Place(Input(g))' = Input(g)
    BY Kinds DEF Place, Input
  <2>7. HeldBy(g)'
    <3>1. CASE g \in region.inputs
      <4>1. Held(Latest(region, 0, g))' = -(g + 1)
        BY <1>2, <2>3, <2>5, <2>6, <3>1 DEF Held
      <4> QED
        BY <1>1, <1>2, <1>3, <2>2, <4>1 DEF HeldBy
    <3>2. CASE g \notin region.inputs
      BY <1>1, <1>2, <1>3, <2>3, <3>2 DEF HeldBy
    <3> QED
      BY <3>1, <3>2
  <2> QED
    BY <2>4, <2>7
<1>9. region.inputs # {} /\ (outcome # "done" => places' = << >>)
  BY <1>1 DEF ExecInv
<1>10. at' = 0 /\ registers' = [g \in SelectionRegisters |-> -(g + 1)]
  BY <1>1, <1>3
<1> QED
  BY <1>2, <1>4, <1>7, <1>8, <1>9, <1>10 DEF ExecInv

\* An execution under way is one of all the nodes of the region.
LEMMA UnderWay ==
    ASSUME ValueInv, ExecInv, Running
    PROVE  /\ outcome = "done" /\ places # << >> /\ index = region.count
           /\ at \in 0..(region.count - 1) /\ at \in Nat /\ at + 1 \in 1..index
           /\ at + 1 \in 0..region.count
           /\ Next0 = Operation(region, at)
           /\ NextNode = nodes[at + 1]
           /\ GetDest(Next0) \in SelectionRegisters \cup {NoRegIndex}
<1>1. outcome = "done" /\ places # << >> /\ at < region.count
  BY DEF Running
<1>2. index = region.count
  BY <1>1 DEF ValueInv
<1>3. at \in 0..(region.count - 1) /\ at \in Nat /\ at + 1 \in 1..index /\ at + 1 \in 0..region.count
  BY <1>1, <1>2, Numbers DEF ExecInv, LaneInv
<1>4. Next0 = Operation(region, at) /\ Next0 = Instr(at)
  BY DEF Next0, Instr, Operation
<1>5. GetDest(Next0) \in SelectionRegisters \cup {NoRegIndex}
  BY <1>3, <1>4, Destination DEF ValueInv, OrderInv
<1> QED
  BY <1>1, <1>2, <1>3, <1>4, <1>5 DEF NextNode

\* Behind an instruction that does not assign a register, the register is as it
\* was, and so are the rounds that are to come back.
LEMMA PassingBy ==
    ASSUME ValueInv, ExecInv, Running, UNCHANGED selectionVars, at' = at + 1,
           NEW h \in SelectionRegisters, GetDest(Next0) # h,
           registers'[h] = registers[h],
           Latest(region, at, h) # NotInitialized =>
               places'[Place(Latest(region, at, h))] = places[Place(Latest(region, at, h))]
    PROVE  HeldBy(h)' /\ FromRoundBefore(h)'
<1>1. at \in Nat /\ Next0 = Operation(region, at) /\ at + 1 - 1 = at /\ places # << >>
  BY UnderWay
<1>2. ~Defines(region, at + 1, h)
  BY <1>1 DEF Defines
<1>3. Latest(region, at + 1, h) = Latest(region, at, h)
  BY <1>1, <1>2, LatestStep
<1>4. /\ region' = region
      /\ \A d : Place(d)' = Place(d)
  BY SameCode
<1>5. HeldBy(h) /\ FromRoundBefore(h)
  BY <1>1 DEF ExecInv
<1>6. HeldBy(h)'
  <2>1. PICK d : d = Latest(region, at, h)
    OBVIOUS
  <2>2. Latest(region, at, h)' = d
    BY <1>3, <1>4, <2>1
  <2>3. d # NotInitialized => Held(d)' = Held(d)
    BY <1>4, <2>1 DEF Held
  <2> QED
    BY <1>4, <1>5, <2>1, <2>2, <2>3 DEF HeldBy, Defined
<1>7. FromRoundBefore(h)'
  <2> SUFFICES ASSUME Latest(region, at, h) = NotInitialized, registers[h] > 0, NEW a, a = at + 1
               PROVE  Ahead(a, h)'
    BY <1>3, <1>4 DEF FromRoundBefore
  <2>1. Ahead(at, h)
    BY <1>5 DEF FromRoundBefore
  <2>2. PICK j \in 0..(region.count - 1) :
            /\ Operation(region, j).opcode = Opcode.IJMPNZ
            /\ j - Operation(region, j).value \in 0..j
            /\ at \in (j - Operation(region, j).value)..j
            /\ \E k \in at..(j - 1) : GetDest(Operation(region, k)) = h
    BY <2>1 DEF Ahead
  <2>3. PICK k \in at..(j - 1) : GetDest(Operation(region, k)) = h
    BY <2>2
  <2>4. k # at
    BY <1>1, <2>3
  <2>5. k \in a..(j - 1) /\ a \in (j - Operation(region, j).value)..j
    BY <1>1, <2>2, <2>3, <2>4
  <2>6. Ahead(a, h)
    BY <2>2, <2>3, <2>5 DEF Ahead
  <2> QED
    BY <1>4, <2>6 DEF Ahead
<1> QED
  BY <1>6, <1>7

\* What the lane is within before and after the instruction that is executed.
LEMMA ExecutedStep ==
    ASSUME ValueInv, ExecInv, Running
    PROVE  LET o == Next0.opcode IN
           /\ WithinWhere(region, at + 1) <=>
                 \/ o \in Opcodes({"WHERE_CRY", "WHERE_EQ", "WHERE_LT"})
                 \/ o \notin Opcodes({"END_WHERE"}) /\ WithinWhere(region, at)
           /\ WithinRepeat(region, at + 1) <=>
                 o \in Opcodes({"SETLC"}) \/ (o \notin Opcodes({"IJMPNZ"}) /\ WithinRepeat(region, at))
           /\ WithinGating(region, at + 1) <=>
                 \/ o \in Opcodes({"DISABLE_CELL"})
                 \/ o \notin Opcodes({"ENABLE_ALL_CELLS"}) /\ WithinGating(region, at)
<1>1. at \in Nat /\ Next0 = Operation(region, at)
  BY UnderWay
<1>2. WithinWhere(region, at + 1) <=>
          \/ Next0.opcode \in Opcodes({"WHERE_CRY", "WHERE_EQ", "WHERE_LT"})
          \/ Next0.opcode \notin Opcodes({"END_WHERE"}) /\ WithinWhere(region, at)
  BY <1>1, WithinStep DEF WithinWhere
<1>3. WithinRepeat(region, at + 1) <=>
          \/ Next0.opcode \in Opcodes({"SETLC"})
          \/ Next0.opcode \notin Opcodes({"IJMPNZ"}) /\ WithinRepeat(region, at)
  BY <1>1, WithinStep DEF WithinRepeat
<1>4. WithinGating(region, at + 1) <=>
          \/ Next0.opcode \in Opcodes({"DISABLE_CELL"})
          \/ Next0.opcode \notin Opcodes({"ENABLE_ALL_CELLS"}) /\ WithinGating(region, at)
  BY <1>1, WithinStep DEF WithinGating
<1> QED
  BY <1>2, <1>3, <1>4

\* An instruction that leaves the lane without its first value of a register is
\* not the one that gives it: if it is executed again, no lane is left out.
LEMMA FirstIsTaken ==
    ASSUME ValueInv, ExecInv, Regular(region), Running, NEW g \in SelectionRegisters,
           GetDest(Next0) = g, Latest(region, at, g) = NotInitialized, registers[g] > 0
    PROVE  Takes
<1>1. /\ at \in 0..(region.count - 1) /\ at \in Nat /\ places # << >>
      /\ Next0 = Operation(region, at)
  BY UnderWay
<1>2. Ahead(at, g)
  BY <1>1 DEF ExecInv, FromRoundBefore
<1>3. PICK j \in 0..(region.count - 1) :
          /\ Operation(region, j).opcode = Opcode.IJMPNZ
          /\ j - Operation(region, j).value \in 0..j
          /\ at \in (j - Operation(region, j).value)..j
          /\ \E k \in at..(j - 1) : GetDest(Operation(region, k)) = g
  BY <1>2 DEF Ahead
<1>4. RegularJump(region, j)
  BY <1>3 DEF Regular
<1>5. at \in (j - Operation(region, j).value)..(j - 1)
  BY <1>1, <1>3
<1>6. First(region, at)
  <2>1. g # NoRegIndex
    BY Numbers
  <2>2. g \notin region.inputs
    BY <1>1, LatestKinds, Kinds
  <2>3. ASSUME NEW b \in 0..(at - 1) PROVE GetDest(Operation(region, b)) # g
    <3>1. Definers(region, at, g) = {}
      BY Kinds DEF Latest
    <3>2. b + 1 \in 1..at /\ b + 1 - 1 = b
      BY <1>1
    <3> QED
      BY <3>1, <3>2 DEF Definers, Defines
  <2> QED
    BY <1>1, <2>1, <2>2, <2>3 DEF First
<1>7. ~WithinWhere(region, at) /\ ~WithinGating(region, at)
  BY <1>4, <1>5, <1>6 DEF RegularJump
<1> QED
  BY <1>7 DEF ExecInv, LaneInv, Takes

\* A node computes what its instruction computes, and where the lane does not take
\* part it leaves in the place of its tie what the register keeps.
LEMMA ComputeExec == ASSUME ValueInv, ExecInv, Regular(region), Compute PROVE ExecInv'
<1>0. PICK g : g = GetDest(Next0)
  OBVIOUS
<1>1. /\ Running /\ UNCHANGED selectionVars /\ UNCHANGED <<selected, disabled>>
      /\ at' = at + 1 /\ step' = step + 1
      /\ Next0.opcode \notin Opcodes({"WHERE_CRY", "WHERE_EQ", "WHERE_LT", "END_WHERE",
                                      "DISABLE_CELL", "ENABLE_ALL_CELLS", "IJMPNZ"})
  BY DEF Compute
<1>2. /\ outcome = "done" /\ places # << >> /\ index = region.count
      /\ at \in 0..(region.count - 1) /\ at \in Nat /\ at + 1 \in 1..index
      /\ at + 1 \in 0..region.count
      /\ Next0 = Operation(region, at)
      /\ NextNode = nodes[at + 1]
      /\ g \in SelectionRegisters \cup {NoRegIndex}
  BY <1>0, <1>1, UnderWay
<1>3. /\ region' = region /\ nodes' = nodes /\ index' = index /\ outcome' = outcome
      /\ \A d : Place(d)' = Place(d)
  BY <1>1, SameCode
<1>4. step \in Nat /\ registers \in [SelectionRegisters -> Int]
      /\ selected \in BOOLEAN /\ disabled \in BOOLEAN
  BY DEF ExecInv, LaneInv
<1>5. /\ WithinWhere(region, at + 1) <=> WithinWhere(region, at)
      /\ WithinGating(region, at + 1) <=> WithinGating(region, at)
  BY <1>1, ExecutedStep DEF Opcodes
<1>6. ASSUME registers' \in [SelectionRegisters -> Int] PROVE LaneInv'
  <2>1. ~WithinWhere(region, at + 1) => selected' = TRUE
    BY <1>1, <1>5 DEF ExecInv, LaneInv
  <2>2. ~WithinGating(region, at + 1) => disabled' = FALSE
    BY <1>1, <1>5 DEF ExecInv, LaneInv
  <2> QED
    BY <1>1, <1>2, <1>3, <1>4, <1>6, <2>1, <2>2 DEF LaneInv
<1>7. PICK input : input \in region.inputs
  BY DEF ExecInv
<1>8. ASSUME registers' \in [SelectionRegisters -> Int], DOMAIN places' = DOMAIN places,
             \A h \in SelectionRegisters : HeldBy(h)' /\ FromRoundBefore(h)'
      PROVE  ExecInv'
  <2>1. LaneInv'
    BY <1>6, <1>8
  <2>2. AllocatedInv'
    BY <1>2, <1>3, <1>8 DEF ExecInv, AllocatedInv
  <2>3. places' # << >>
    <3>1. Input(input) \in DOMAIN places'
      BY <1>2, <1>7, <1>8 DEF ExecInv, AllocatedInv
    <3> QED
      BY <3>1
  <2> QED
    BY <1>2, <1>3, <1>8, <2>1, <2>2, <2>3 DEF ExecInv
<1>9. CASE g = NoRegIndex
  <2>1. UNCHANGED <<registers, places>>
    BY <1>0, <1>9 DEF Compute
  <2>2. \A h \in SelectionRegisters : HeldBy(h)' /\ FromRoundBefore(h)'
    BY <1>0, <1>1, <1>9, <2>1, Numbers, PassingBy
  <2> QED
    BY <1>4, <1>8, <2>1, <2>2
<1>10. CASE g \in SelectionRegisters
  <2>0. PICK place : place = Place(Node(at + 1))
    OBVIOUS
  <2>1. /\ registers' = IF Takes THEN [registers EXCEPT ![g] = step + 1] ELSE registers
        /\ places' = IF Takes THEN [places EXCEPT ![place] = step + 1]
                     ELSE IF NextNode.tied = NotInitialized THEN [places EXCEPT ![place] = Nowhere]
                     ELSE places
    BY <1>0, <1>1, <1>10, <2>0, Numbers DEF Compute
  <2>2. Defines(region, at + 1, g) /\ at + 1 - 1 = at
    BY <1>0, <1>2 DEF Defines
  <2>3. Latest(region, at + 1, g) = Node(at + 1)
    BY <1>2, <2>2, LatestStep
  <2>4. place = Place(Latest(region, at + 1, g)) /\ Latest(region, at + 1, g) # NotInitialized
    BY <2>0, <2>3, Kinds
  <2>5. place \in DOMAIN places
    <3>1. \/ place = Input(g) /\ g \in region.inputs
          \/ \E b \in 1..(at + 1) : place = Node(b)
      BY <1>2, <1>10, <2>4, HomeOfRegister
    <3>2. \A b \in 1..(at + 1) : b \in 1..index
      <4>1. at \in Nat /\ index \in Nat /\ at + 1 <= index
        BY <1>2, Numbers
      <4> QED
        BY <4>1
    <3> QED
      BY <1>2, <3>1, <3>2 DEF ExecInv, AllocatedInv
  <2>6. ASSUME NEW h \in SelectionRegisters, h # g PROVE HeldBy(h)' /\ FromRoundBefore(h)'
    <3>1. registers'[h] = registers[h]
      BY <1>4, <2>1, <2>6
    <3>2. Latest(region, at, h) # NotInitialized => Place(Latest(region, at, h)) # place
      <4>1. at \in 0..index /\ at + 1 \in 0..index
        <5>1. at \in Nat /\ index \in Nat /\ at + 1 <= index
          BY <1>2, Numbers
        <5> QED
          BY <5>1
      <4> QED
        BY <1>10, <2>4, <2>6, <4>1, HomesDiffer
    <3>3. \A d : d # place => places'[d] = places[d]
      BY <2>1
    <3> QED
      BY <1>0, <1>1, <2>6, <3>1, <3>2, <3>3, PassingBy
  <2>7. FromRoundBefore(g)'
    BY <1>1, <1>3, <2>4 DEF FromRoundBefore
  <2>8. HeldBy(g)'
    <3>1. Held(Latest(region, at + 1, g)) = places[place]
      BY <2>4 DEF Held
    <3>2. ASSUME registers'[g] > 0 \/ g \in region.inputs PROVE places'[place] = registers'[g]
      <4>1. CASE Takes
        BY <1>4, <1>10, <2>1, <2>5, <4>1
      <4>2. CASE ~Takes /\ NextNode.tied = NotInitialized
        <5>1. nodes[at + 1].tied = IF Kept(region, at) THEN Latest(region, at, g)
                                   ELSE NotInitialized
          BY <1>0, <1>2, <1>10, <2>2, Numbers DEF ValueInv, TieOf
        <5>2. Kept(region, at)
          BY <4>2 DEF Kept, Takes, ExecInv, LaneInv
        <5>3. Latest(region, at, g) = NotInitialized
          BY <1>2, <4>2, <5>1, <5>2
        <5>4. g \notin region.inputs /\ registers'[g] = registers[g]
          BY <1>2, <2>1, <4>2, <5>3, LatestKinds, Kinds
        <5> QED
          BY <1>0, <1>1, <1>10, <3>2, <4>2, <5>3, <5>4, FirstIsTaken
      <4>3. CASE ~Takes /\ NextNode.tied # NotInitialized
        <5>1. nodes[at + 1].tied = IF Kept(region, at) THEN Latest(region, at, g)
                                   ELSE NotInitialized
          BY <1>0, <1>2, <1>10, <2>2, Numbers DEF ValueInv, TieOf
        <5>2. Kept(region, at) /\ Latest(region, at, g) # NotInitialized
          BY <1>2, <4>3, <5>1
        <5>3. place = Place(Latest(region, at, g))
          BY <1>0, <1>2, <1>10, <2>0, <2>2, <5>2, Numbers, PlaceRule
        <5>4. places' = places /\ registers' = registers
          BY <2>1, <4>3
        <5>5. HeldBy(g)
          BY <1>2, <1>10 DEF ExecInv
        <5> QED
          BY <3>2, <5>2, <5>3, <5>4, <5>5 DEF HeldBy, Held, Defined
      <4> QED
        BY <4>1, <4>2, <4>3
    <3>3. PICK d : d = Latest(region, at + 1, g)
      OBVIOUS
    <3>4. Latest(region, at, g)' = d /\ Place(d)' = place
      BY <1>1, <1>3, <2>4, <3>3
    <3> QED
      BY <1>3, <3>2, <3>4 DEF HeldBy, Held, Defined
  <2>9. registers' \in [SelectionRegisters -> Int] /\ DOMAIN places' = DOMAIN places
    <3>1. step + 1 \in Int
      BY <1>4
    <3>2. registers' \in [SelectionRegisters -> Int]
      BY <1>4, <2>1, <3>1
    <3>3. DOMAIN places' = DOMAIN places
      BY <2>1
    <3> QED
      BY <3>2, <3>3
  <2>10. \A h \in SelectionRegisters : HeldBy(h)' /\ FromRoundBefore(h)'
    BY <2>6, <2>7, <2>8
  <2> QED
    BY <1>8, <2>9, <2>10
<1> QED
  BY <1>2, <1>9, <1>10

\* An instruction without a destination passes by every register.
LEMMA PassingAll ==
    ASSUME ValueInv, ExecInv, Running, UNCHANGED selectionVars, UNCHANGED <<registers, places>>,
           at' = at + 1, GetDest(Next0) = NoRegIndex, LaneInv'
    PROVE  ExecInv'
<1>1. \A h \in SelectionRegisters : HeldBy(h)' /\ FromRoundBefore(h)'
  BY Numbers, PassingBy
<1>2. region' = region /\ index' = index /\ outcome' = outcome
  BY SameCode
<1>3. outcome = "done" /\ places # << >>
  BY UnderWay
<1>4. AllocatedInv'
  BY <1>2, <1>3 DEF ExecInv, AllocatedInv
<1> QED
  BY <1>1, <1>2, <1>3, <1>4 DEF ExecInv

\* A WHERE leaves the lane as it may, its end takes it back.
LEMMA SelectLaneExec == ASSUME ValueInv, ExecInv, SelectLane PROVE ExecInv'
<1> DEFINE o == Next0.opcode
<1>1. /\ Running /\ UNCHANGED selectionVars /\ at' = at + 1 /\ step' = step + 1
      /\ UNCHANGED <<disabled, registers, places>>
      /\ \/ o \in Opcodes({"WHERE_CRY", "WHERE_EQ", "WHERE_LT"}) /\ selected' \in BOOLEAN
         \/ o \in Opcodes({"END_WHERE"}) /\ selected' = TRUE
  BY DEF SelectLane, Executing
<1>2. GetDest(Next0) = NoRegIndex
  BY <1>1, NoResultNoDestination DEF Opcodes
<1>3. at + 1 \in 0..region.count /\ region' = region
  BY <1>1, UnderWay, SameCode
<1>4. WithinWhere(region, at + 1) \/ selected' = TRUE
  BY <1>1, ExecutedStep
<1>5. WithinGating(region, at + 1) <=> WithinGating(region, at)
  BY <1>1, ExecutedStep, SelectingCodes
<1>6. selected' \in BOOLEAN
  BY <1>1
<1>7. ~WithinGating(region, at + 1) => disabled' = FALSE
  BY <1>1, <1>5 DEF ExecInv, LaneInv
<1>8. step' \in Nat /\ registers' \in [SelectionRegisters -> Int] /\ disabled' \in BOOLEAN
  BY <1>1 DEF ExecInv, LaneInv
<1>9. LaneInv'
  BY <1>1, <1>3, <1>4, <1>6, <1>7, <1>8 DEF LaneInv
<1> QED
  BY <1>1, <1>2, <1>9, PassingAll

\* So does lane gating.
LEMMA GateLaneExec == ASSUME ValueInv, ExecInv, GateLane PROVE ExecInv'
<1> DEFINE o == Next0.opcode
<1>1. /\ Running /\ UNCHANGED selectionVars /\ at' = at + 1 /\ step' = step + 1
      /\ UNCHANGED <<selected, registers, places>>
      /\ o \in Opcodes({"DISABLE_CELL", "ENABLE_ALL_CELLS"})
      /\ disabled' = (o = Opcode.DISABLE_CELL /\ (disabled \/ selected))
  BY DEF GateLane, Executing
<1>2. GetDest(Next0) = NoRegIndex
  BY <1>1, NoResultNoDestination DEF Opcodes
<1>3. at + 1 \in 0..region.count /\ region' = region
  BY <1>1, UnderWay, SameCode
<1>4. o \in Opcodes({"DISABLE_CELL"}) \/ o \in Opcodes({"ENABLE_ALL_CELLS"})
  BY <1>1 DEF Opcodes
<1>5. WithinWhere(region, at + 1) <=> WithinWhere(region, at)
  BY <1>1, <1>4, ExecutedStep, SelectingCodes
<1>6. disabled' \in BOOLEAN
  BY <1>1
<1>7. WithinGating(region, at + 1) \/ disabled' = FALSE
  <2>1. CASE o \in Opcodes({"DISABLE_CELL"})
    BY <1>1, <2>1, ExecutedStep
  <2>2. CASE o \in Opcodes({"ENABLE_ALL_CELLS"})
    BY <1>1, <2>2, SelectingCodes
  <2> QED
    BY <1>4, <2>1, <2>2
<1>8. ~WithinWhere(region, at + 1) => selected' = TRUE
  BY <1>1, <1>5 DEF ExecInv, LaneInv
<1>9. step' \in Nat /\ registers' \in [SelectionRegisters -> Int] /\ selected' \in BOOLEAN
  BY <1>1 DEF ExecInv, LaneInv
<1>10. LaneInv'
  BY <1>1, <1>3, <1>6, <1>7, <1>8, <1>9 DEF LaneInv
<1> QED
  BY <1>1, <1>2, <1>10, PassingAll

\* A jump back finds each value in the place where the body has left it: what the
\* body assigns it ties to what was there before, or assigns in every lane.
LEMMA JumpExec == ASSUME ValueInv, ExecInv, Regular(region), Jump PROVE ExecInv'
<1>1. /\ Running /\ UNCHANGED selectionVars /\ step' = step + 1
      /\ UNCHANGED <<selected, disabled, registers, places>>
      /\ Next0.opcode \in Opcodes({"IJMPNZ"})
      /\ at' = at + 1 \/ at' = at - Next0.value
  BY DEF Jump, Executing
<1>2. /\ outcome = "done" /\ places # << >> /\ index = region.count
      /\ at \in 0..(region.count - 1) /\ at \in Nat /\ at + 1 \in 1..index
      /\ at + 1 \in 0..region.count
      /\ Next0 = Operation(region, at)
  BY <1>1, UnderWay
<1>3. /\ region' = region /\ nodes' = nodes /\ index' = index /\ outcome' = outcome
      /\ \A d : Place(d)' = Place(d)
  BY <1>1, SameCode
<1>4. /\ GetDest(Next0) = NoRegIndex
      /\ Next0.opcode = Opcode.IJMPNZ
  BY <1>1, NoResultNoDestination DEF Opcodes
<1>5. step' \in Nat /\ registers' \in [SelectionRegisters -> Int]
      /\ selected' \in BOOLEAN /\ disabled' \in BOOLEAN
  BY <1>1 DEF ExecInv, LaneInv
<1>6. CASE at' = at + 1
  <2>1. /\ WithinWhere(region, at + 1) <=> WithinWhere(region, at)
        /\ WithinGating(region, at + 1) <=> WithinGating(region, at)
    BY <1>1, ExecutedStep, SelectingCodes
  <2>2. ~WithinWhere(region, at + 1) => selected' = TRUE
    BY <1>1, <2>1 DEF ExecInv, LaneInv
  <2>3. ~WithinGating(region, at + 1) => disabled' = FALSE
    BY <1>1, <2>1 DEF ExecInv, LaneInv
  <2>4. LaneInv'
    BY <1>2, <1>3, <1>5, <1>6, <2>2, <2>3 DEF LaneInv
  <2> QED
    BY <1>1, <1>4, <1>6, <2>4, PassingAll
<1>7. CASE at' = at - Next0.value
  <2>1. PICK first : first = at - Next0.value
    OBVIOUS
  <2>2. RegularJump(region, at)
    BY <1>2, <1>4 DEF Regular
  <2>3. /\ first \in 0..at
        /\ \A k \in first..at : WithinRepeat(region, k)
        /\ WithinWhere(region, at) => WithinWhere(region, first)
        /\ WithinGating(region, at) => WithinGating(region, first)
    BY <1>2, <2>1, <2>2 DEF RegularJump
  <2>4. at' = first /\ first \in 0..region.count /\ at \in 0..index /\ index \in Nat
        /\ first \in Nat
    BY <1>2, <1>7, <2>1, <2>3, Numbers
  <2>5. LaneInv'
    <3>1. ~WithinWhere(region, first) => selected' = TRUE
      BY <1>1, <2>3 DEF ExecInv, LaneInv
    <3>2. ~WithinGating(region, first) => disabled' = FALSE
      BY <1>1, <2>3 DEF ExecInv, LaneInv
    <3> QED
      BY <1>3, <1>5, <2>4, <3>1, <3>2 DEF LaneInv
  <2>6. AllocatedInv'
    BY <1>1, <1>2, <1>3 DEF ExecInv, AllocatedInv
  <2>7. ASSUME NEW h \in SelectionRegisters PROVE HeldBy(h)'
    <3>1. PICK d : d = Latest(region, first, h)
      OBVIOUS
    <3>2. HeldBy(h)
      BY <1>2 DEF ExecInv
    <3>3. CASE d = NotInitialized
      BY <1>3, <2>4, <3>1, <3>3 DEF HeldBy
    <3>4. CASE d # NotInitialized
      <4>1. /\ Latest(region, at, h) # NotInitialized
            /\ Place(Latest(region, at, h)) = Place(d)
        BY <2>3, <2>4, <3>1, <3>4, BodyKeepsPlaces
      <4>2. Defined(h) => places[Place(d)] = registers[h]
        BY <3>2, <4>1 DEF HeldBy, Held
      <4>3. Latest(region, at, h)' = d /\ Place(d)' = Place(d)
        BY <1>3, <2>4, <3>1
      <4> QED
        BY <1>1, <1>3, <4>2, <4>3 DEF HeldBy, Held, Defined
    <3> QED
      BY <3>3, <3>4
  <2>8. ASSUME NEW h \in SelectionRegisters PROVE FromRoundBefore(h)'
    <3> SUFFICES ASSUME Latest(region, first, h) = NotInitialized, registers[h] > 0
                 PROVE  Ahead(first, h)'
      BY <1>1, <1>3, <2>4 DEF FromRoundBefore
    <3>1. CASE Latest(region, at, h) = NotInitialized
      <4>1. Ahead(at, h)
        BY <1>2, <3>1 DEF ExecInv, FromRoundBefore
      <4>2. PICK j \in 0..(region.count - 1) :
                /\ Operation(region, j).opcode = Opcode.IJMPNZ
                /\ j - Operation(region, j).value \in 0..j
                /\ at \in (j - Operation(region, j).value)..j
                /\ \E k \in at..(j - 1) : GetDest(Operation(region, k)) = h
        BY <4>1 DEF Ahead
      <4>3. at + 1 \in (j - Operation(region, j).value)..j
        BY <1>2, <4>2
      <4>4. RegularJump(region, j)
        BY <4>2 DEF Regular
      <4>5. WithinRepeat(region, at + 1)
        BY <4>3, <4>4 DEF RegularJump
      <4>6. ~WithinRepeat(region, at + 1)
        BY <1>1, ExecutedStep, SelectingCodes
      <4> QED
        BY <4>5, <4>6
    <3>2. CASE Latest(region, at, h) # NotInitialized
      <4>1. h \notin region.inputs
        BY <2>4, LatestKinds, Kinds
      <4>2. Definers(region, at, h) # {}
        BY <3>2, <4>1 DEF Latest
      <4>3. PICK b \in 1..at : Defines(region, b, h)
        BY <4>2 DEF Definers
      <4>4. Definers(region, first, h) = {}
        BY Kinds DEF Latest
      <4>5. b \notin 1..first
        BY <4>3, <4>4 DEF Definers
      <4>6. b - 1 \in first..(at - 1)
        BY <1>2, <2>4, <4>3, <4>5
      <4>7. GetDest(Operation(region, b - 1)) = h
        BY <4>3 DEF Defines
      <4>8. \E k \in first..(at - 1) : GetDest(Operation(region, k)) = h
        BY <4>6, <4>7
      <4>9. /\ Operation(region, at).opcode = Opcode.IJMPNZ
            /\ at - Operation(region, at).value = first
            /\ first \in 0..at /\ first \in first..at
        BY <1>2, <1>4, <2>1, <2>3, <2>4
      <4>10. Ahead(first, h)
        BY <1>2, <4>8, <4>9 DEF Ahead
      <4> QED
        BY <1>3, <4>10 DEF Ahead
    <3> QED
      BY <3>1, <3>2
  <2>9. region.inputs # {} /\ places' # << >> /\ outcome' = "done"
    BY <1>1, <1>2, <1>3 DEF ExecInv
  <2> QED
    BY <1>3, <2>5, <2>6, <2>7, <2>8, <2>9 DEF ExecInv
<1> QED
  BY <1>1, <1>6, <1>7

-----------------------------------------------------------------------------
(***************************************************************************)
(* The theorem about values.                                               *)
(***************************************************************************)
\* What the invariants say of a moment.
LEMMA ValuesAreRead == ASSUME ValueInv, ExecInv, Regular(region) PROVE ReadsTheSameValues
<1> DEFINE Last(input, r) == /\ r \in SelectionRegisters
                             /\ input = Latest(region, at, r) /\ input # NotInitialized
<1>1. ASSUME Running
      PROVE  /\ \A r \in Read(Next0) : \E n \in DOMAIN NextNode.inputs : Last(NextNode.inputs[n], r)
             /\ \A n \in DOMAIN NextNode.inputs :
                   n <= 2 /\ Next0.opcode \notin Opcodes({"ADD", "AND", "OR", "XOR", "READ"}) =>
                       Last(NextNode.inputs[n], IF n = 1 THEN GetLeft(Next0) ELSE GetRight(Next0))
             /\ \A g \in SelectionRegisters : HeldBy(g)
  <2>1. PICK k : k = at + 1
    OBVIOUS
  <2>2. /\ k \in 1..index /\ k - 1 = at /\ places # << >>
        /\ Next0 = Operation(region, at) /\ NextNode = nodes[k]
    BY <1>1, <2>1, UnderWay
  <2>3. InputsOf(k)
    BY <2>2 DEF ValueInv
  <2>4. \A g \in SelectionRegisters : HeldBy(g)
    BY <2>2 DEF ExecInv
  <2> QED
    BY <2>2, <2>3, <2>4 DEF InputsOf, IsLatest
<1>2. ASSUME Running, NEW r \in Read(Next0), Defined(r)
      PROVE  \E n \in DOMAIN NextNode.inputs : Held(NextNode.inputs[n]) = registers[r]
  <2>1. PICK n \in DOMAIN NextNode.inputs : Last(NextNode.inputs[n], r)
    BY <1>1, <1>2
  <2>2. HeldBy(r)
    BY <1>1, <1>2, <2>1
  <2> QED
    BY <1>2, <2>1, <2>2 DEF HeldBy
<1>3. ASSUME Running, NEW n \in DOMAIN NextNode.inputs, n <= 2,
             Next0.opcode \notin Opcodes({"ADD", "AND", "OR", "XOR", "READ"})
      PROVE  LET r == IF n = 1 THEN GetLeft(Next0) ELSE GetRight(Next0) IN
             Defined(r) => Held(NextNode.inputs[n]) = registers[r]
  <2>1. PICK r : r = IF n = 1 THEN GetLeft(Next0) ELSE GetRight(Next0)
    OBVIOUS
  <2>2. Last(NextNode.inputs[n], r)
    BY <1>1, <1>3, <2>1
  <2>3. HeldBy(r)
    BY <1>1, <1>3, <2>2
  <2> QED
    BY <2>1, <2>2, <2>3 DEF HeldBy
<1>4. ASSUME outcome = "done", places # << >>, at = region.count,
             NEW g \in SelectionRegisters, names[g] # NotInitialized, Defined(g)
      PROVE  Held(names[g]) = registers[g]
  <2>1. index = at /\ names[g] = Latest(region, at, g)
    BY <1>4 DEF ValueInv, NamesTell
  <2>2. HeldBy(g)
    BY <1>4 DEF ExecInv
  <2> QED
    BY <1>4, <2>1, <2>2 DEF HeldBy
<1> QED
  BY <1>2, <1>3, <1>4 DEF ReadsTheSameValues

\* Every step of a regular region keeps both invariants.
LEMMA NextWithExec ==
    ASSUME ValueInv, Regular(region) => ExecInv, [Next]_vars
    PROVE  Regular(region') => ExecInv'
<1>1. region' = region
  BY DEF Next, Generate, SelectMirrored, SelectBinary, SelectWithCarry, SelectUnary,
         SelectWithoutOperands, SelectAccess, SelectWithoutResult, SelectDefault, SelectRepeat,
         SelectWhere, SelectEndWhere, SelectGating, Finish, Case, Allocate, Compute,
         SelectLane, GateLane, Jump, Rest, Executing, vars, selectionVars
<1> SUFFICES ASSUME Regular(region), ExecInv PROVE ExecInv'
  BY <1>1
<1>2. CASE Generate /\ UNCHANGED executionVars
  BY <1>2, GenerateExec
<1>3. CASE Allocate
  BY <1>3, AllocateExec
<1>4. CASE Compute
  BY <1>4, ComputeExec
<1>5. CASE SelectLane
  BY <1>5, SelectLaneExec
<1>6. CASE GateLane
  BY <1>6, GateLaneExec
<1>7. CASE Jump
  BY <1>7, JumpExec
<1>8. CASE Rest \/ UNCHANGED vars
  <2>1. UNCHANGED vars
    BY <1>8 DEF Rest
  <2>2. UNCHANGED <<region, index, nodes, names, outcome, at, selected, disabled, step,
                    registers, places>>
    BY <2>1 DEF vars, selectionVars, executionVars
  <2> QED
    BY <2>2 DEF ExecInv, LaneInv, AllocatedInv, HeldBy, FromRoundBefore, Held, Place, Defined,
                Ahead
<1> QED
  BY <1>2, <1>3, <1>4, <1>5, <1>6, <1>7, <1>8 DEF Next

\* For every region that is regular, whatever its length, its registers and the
\* way its REPEATs and WHEREs go, the nodes that genLLVMISelManualCode writes
\* compute in a lane what the instructions compute, if each is where its tie is
\* (core/Kernel.cpp:881-888): a node finds in its operands the values that its
\* instruction reads, and the last variables hold what the registers hold.
THEOREM SelectedValues == Spec => [](Regular(region) => ReadsTheSameValues)
<1> DEFINE Inv == ValueInv /\ (Regular(region) => ExecInv)
<1>1. CodeInit => Inv
  BY InitValues, InitExec
<1>2. Inv /\ [Next]_vars => Inv'
  <2> SUFFICES ASSUME Inv, [Next]_vars PROVE Inv'
    OBVIOUS
  <2>1. ValueInv'
    BY NextWithValues
  <2>2. Regular(region') => ExecInv'
    BY NextWithExec
  <2> QED
    BY <2>1, <2>2
<1>3. Inv => (Regular(region) => ReadsTheSameValues)
  BY ValuesAreRead
<1> HIDE DEF Inv
<1> QED
  BY <1>1, <1>2, <1>3, PTL DEF Spec

=============================================================================
