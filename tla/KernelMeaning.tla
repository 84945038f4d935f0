---------------------------- MODULE KernelMeaning ----------------------------
(***************************************************************************)
(* What the statements of a kernel say, in the arithmetic of integers and  *)
(* for each lane by itself: an assignment in an EXECUTE_WHERE happens in   *)
(* the lanes whose last comparison had the outcome asked for.  A kernel    *)
(* means nothing (`defined' is FALSE) when it asks for more than that.     *)
(*                                                                         *)
(* Nothing here knows of opcodes, flags, words or vector registers.        *)
(***************************************************************************)
EXTENDS ConnexVector, Sequences

\* The signed number that is left of n in a register.
Wrapped(n) == Signed(n % Values)
Unsigned(x) == x % Values

CommonBits(x, y) == FromBits(Bits(Unsigned(x)) \cap Bits(Unsigned(y)))

\* d = x op y; c is the carry or borrow of the sum or difference before.
Value(op, x, y, c) ==
    CASE op = "plus"  -> Wrapped(x + y)
      [] op = "minus" -> Wrapped(x - y)
      [] op = "addc"  -> Wrapped(x + y + c)
      [] op = "subc"  -> Wrapped(x - y - c)
      [] op = "and"   -> Wrapped(CommonBits(x, y))
      [] op = "or"    -> Wrapped(x + y - CommonBits(x, y))
      [] op = "xor"   -> Wrapped(x + y - 2 * CommonBits(x, y))
      [] op = "eq"    -> Wrapped(IF x = y THEN 1 ELSE 0)
      [] op = "lt"    -> Wrapped(IF x < y THEN 1 ELSE 0)
      [] op = "ult"   -> Wrapped(IF Unsigned(x) < Unsigned(y) THEN 1 ELSE 0)
      [] op = "shl"   -> Wrapped(x * 2^Positions(y))
      [] op = "shr"   -> Wrapped(Unsigned(x) \div 2^Positions(y))
      [] op = "shra"  -> x \div 2^Positions(y)

UnaryValue(op, x) ==
    CASE op = "not"     -> -1 - x
      [] op = "popcnt"  -> Wrapped(Cardinality(Bits(Unsigned(x))))
      [] op = "reverse" -> Wrapped(FromBits({RegisterBits - 1 - k : k \in Bits(Unsigned(x))}))

IsShift(op) == op \in {"shl", "shr", "shra"}
IsUnflagged(op) == IsShift(op) \/ op = "ult"

-----------------------------------------------------------------------------
\* The last comparison, sum or difference of a lane.
Compared(op, x, y) == [op |-> op, x |-> x, y |-> y]

CarryAfter(c) ==
    CASE c.op = "plus"  -> IF Unsigned(c.x) + Unsigned(c.y) >= Values THEN 1 ELSE 0
      [] c.op = "minus" -> IF Unsigned(c.x) < Unsigned(c.y) THEN 1 ELSE 0
      [] OTHER          -> 0

Holds(condition, c) ==
    CASE condition = "WHERE_EQ"  -> c.x = c.y
      [] condition = "WHERE_LT"  -> c.x < c.y
      [] condition = "WHERE_CRY" -> CarryAfter(c) = 1

\* Whether the condition is one that the operator before it decides.  After a
\* sum there is a carry to ask for and no order.  The carry out of an ADDC is
\* not one to rely on: a sum of two registers and a carry is made of two.
Decides(op, condition) ==
    \/ condition = "WHERE_CRY" /\ op \in {"plus", "minus"}
    \/ condition = "WHERE_EQ"  /\ op \in {"minus", "eq", "lt"}
    \/ condition = "WHERE_LT"  /\ op \in {"minus", "eq", "lt"}

-----------------------------------------------------------------------------
Outset(registers, store, selection) ==
    [ val      |-> [r \in DOMAIN registers |-> [l \in Lanes |-> Signed(registers[r][l])]],
      store    |-> [w \in DOMAIN store |-> [l \in Lanes |-> Signed(store[w][l])]],
      selected |-> {l \in Lanes : selection[l] = 1},
      gated    |-> {},
      last     |-> [l \in Lanes |-> Compared("none", 0, 0)],
      product  |-> [l \in Lanes |-> 0],
      shifted  |-> [l \in Lanes |-> 0],
      sums     |-> << >>,
      defined  |-> TRUE ]

Taking(m) == m.selected \ m.gated

\* m with register d set to value(l) in the lanes that take part.
SetReg(m, d, value(_)) ==
    [m EXCEPT !.val[d] = [l \in Lanes |-> IF l \in Taking(m) THEN value(l) ELSE @[l]]]

Undefined(m, isDefined) == [m EXCEPT !.defined = @ /\ isDefined]

BinaryMeaning(m, op, d, a, b) ==
    LET x == m.val[a]  y == m.val[b]
        set == SetReg(m, d, LAMBDA l :
                   IF IsShift(op) /\ y[l] \notin 0..31 THEN 0
                   ELSE Value(op, x[l], y[l], CarryAfter(m.last[l])))
    IN  IF IsUnflagged(op)
        THEN Undefined(set, IsShift(op) => \A l \in Taking(m) : y[l] \in 0..31)
        ELSE Undefined(
                 \* The other lanes lose their comparison: flags are common.
                 [set EXCEPT !.last = [l \in Lanes |->
                     IF l \in Taking(m) THEN Compared(op, x[l], y[l])
                     ELSE Compared("lost", 0, 0)]],
                 op \in {"addc", "subc"} =>
                     \A l \in Taking(m) : m.last[l].op \in {"plus", "minus"})

ShiftMeaning(m, a, b, direction) ==
    LET n == m.val[b][0] IN
    IF n >= 0 /\ \A l \in Lanes : m.val[b][l] = n
    THEN [m EXCEPT !.shifted = [l \in Lanes |->
                                   m.val[a][(l + direction * n) % VectorLength]]]
    ELSE Undefined(m, FALSE)

\* Which row the lanes that take part address, if all of them do.
InStore(m, b) == \A l \in Taking(m) : m.val[b][l] \in DOMAIN m.store

Meaning(st, m) ==
    CASE st.form = "binary"   -> BinaryMeaning(m, st.op, st.d, st.a, st.b)
      [] st.form = "update"   -> BinaryMeaning(m, st.op, st.d, st.d, st.b)
      [] st.form = "unary"    -> SetReg(m, st.d, LAMBDA l : UnaryValue(st.op, m.val[st.a][l]))
      [] st.form = "shift"    -> SetReg(m, st.d, LAMBDA l : Value(st.op, m.val[st.a][l], st.b, 0))
      [] st.form = "copy"     -> SetReg(m, st.d, LAMBDA l : m.val[st.a][l])
      [] st.form = "const"    -> SetReg(m, st.d, LAMBDA l : Wrapped(st.b))
      [] st.form = "index"    -> SetReg(m, st.d, LAMBDA l : Wrapped(l))
      [] st.form = "shiftreg" -> SetReg(m, st.d, LAMBDA l : m.shifted[l])
      [] st.form = "iread"    -> SetReg(m, st.d, LAMBDA l : m.store[st.b][l])
      [] st.form = "read"     ->
            IF InStore(m, st.b)
            THEN SetReg(m, st.d, LAMBDA l : m.store[m.val[st.b][l]][l])
            ELSE Undefined(m, FALSE)
      [] st.form = "write"    ->
            IF InStore(m, st.b)
            THEN [m EXCEPT !.store = [w \in DOMAIN @ |-> [l \in Lanes |->
                     IF l \in Taking(m) /\ m.val[st.b][l] = w
                     THEN m.val[st.a][l] ELSE @[w][l]]]]
            ELSE Undefined(m, FALSE)
      [] st.form = "iwrite"   ->
            [m EXCEPT !.store[st.b] = [l \in Lanes |->
                 IF l \in Taking(m) THEN m.val[st.a][l] ELSE @[l]]]
      [] st.form \in {"mult", "product"} ->
            LET exact == [m EXCEPT !.product = [l \in Lanes |->
                     IF l \in Taking(m) THEN m.val[st.a][l] * m.val[st.b][l] ELSE @[l]]]
            IN  IF st.form = "mult" THEN exact
                ELSE SetReg(exact, st.d, LAMBDA l : Wrapped(exact.product[l]))
      [] st.form = "mult_u"   ->
            [m EXCEPT !.product = [l \in Lanes |->
                 IF l \in Taking(m) THEN Unsigned(m.val[st.a][l]) * Unsigned(m.val[st.b][l])
                 ELSE @[l]]]
      [] st.form = "multlo"   -> SetReg(m, st.d, LAMBDA l : Wrapped(m.product[l]))
      [] st.form = "multhi"   -> SetReg(m, st.d, LAMBDA l : Wrapped(m.product[l] \div Values))
      [] st.form = "cellshl"  -> ShiftMeaning(m, st.a, st.b, 1)
      [] st.form = "cellshr"  -> ShiftMeaning(m, st.a, st.b, -1)
      [] st.form = "reduce"   ->
            [m EXCEPT !.sums = Append(@, SumOf(LAMBDA l : m.val[st.a][l], Taking(m)))]
      [] st.form = "reduce_u" ->
            [m EXCEPT !.sums = Append(@, SumOf(LAMBDA l : Unsigned(m.val[st.a][l]), Taking(m)))]
      [] st.form = "in_all"   -> [m EXCEPT !.selected = Lanes]
      [] st.form = "where"    ->
            Undefined([m EXCEPT !.selected = {l \in Lanes :
                           Decides(m.last[l].op, st.op) /\ Holds(st.op, m.last[l])}],
                      \A l \in Lanes \ m.gated : Decides(m.last[l].op, st.op))
      [] st.form = "disable"  -> [m EXCEPT !.gated = @ \cup Taking(m)]
            \* What lanes do while they are gated is nothing to ask for: they come
            \* back when all of them are selected.
      [] st.form = "enable"   ->
            Undefined([m EXCEPT !.gated = {}], m.gated \subseteq m.selected)
      [] st.form = "nop"      -> m

\* A kernel as a whole.
MeaningOf(program, registers, store, selection) ==
    LET after[k \in 0..Len(program)] ==
            IF k = 0 THEN Outset(registers, store, selection) ELSE Meaning(program[k], after[k - 1])
    IN  after[Len(program)]

=============================================================================
