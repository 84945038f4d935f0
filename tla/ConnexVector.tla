---------------------------- MODULE ConnexVector ----------------------------
(***************************************************************************)
(* class ConnexVector (simulator/src/ConnexVector.cpp): what the operators *)
(* of the simulator compute, cell by cell.  A cell holds RegisterBits      *)
(* bits; it is kept as the unsigned number of these bits, and Signed() is  *)
(* the ConnexVectorElementType they stand for.                             *)
(***************************************************************************)
EXTENDS Integers, FiniteSetsExt

CONSTANTS
    RegisterBits,              \* 16: CONNEX_REGISTER_SIZE
    VectorLength               \* CONNEX_VECTOR_LENGTH, a power of two

ASSUME VectorAssumption ==
    /\ RegisterBits \in Nat \ {0}
    /\ VectorLength \in {2^k : k \in 1..10}

Values == 2^RegisterBits                   \* REG_MAX_VAL + 1
Lanes == 0..(VectorLength - 1)
Cells == 0..(Values - 1)
Vectors == [Lanes -> Cells]

Cell(n) == n % Values                      \* conversion to the element type
Signed(c) == IF 2 * c < Values THEN c ELSE c - Values

Bits(c) == {k \in 0..(RegisterBits - 1) : (c \div 2^k) % 2 = 1}
FromBits(B) == MapThenSumSet(LAMBDA k : 2^k, B)

-----------------------------------------------------------------------------
(* The operators that set flags, named after their C++ symbols.            *)

Result(op, x, y) ==
    CASE op = "+"  -> Cell(x + y)
      [] op = "-"  -> Cell(x - y)
      [] op = "==" -> IF x = y THEN 1 ELSE 0
      [] op = "<"  -> IF Signed(x) < Signed(y) THEN 1 ELSE 0
      [] op = "|"  -> FromBits(Bits(x) \cup Bits(y))
      [] op = "&"  -> FromBits(Bits(x) \cap Bits(y))
      [] op = "^"  -> FromBits((Bits(x) \cup Bits(y)) \ (Bits(x) \cap Bits(y)))

\* BINARY_OP_FLAGS_LIKE_ADD, _ADDC, _SUB and _SUBC.
CarryOf(op, x, y, carry) ==
    CASE op \in {"+", "=="}     -> x + y >= Values
      [] op = "&"               -> x + carry + y >= Values
      [] op \in {"-", "<", "|"} -> x < y
      [] op = "^"               -> x < y + carry

AsFlag(b) == IF b THEN 1 ELSE 0

\* The flags after `left op right`: of every lane, selected or not.
Flags(op, left, right, carryFlag) ==
    [ carry |-> [l \in Lanes |-> AsFlag(CarryOf(op, left[l], right[l], carryFlag[l]))],
      eq    |-> [l \in Lanes |-> AsFlag(left[l] = right[l])],
      lt    |-> [l \in Lanes |-> AsFlag(Signed(left[l]) < Signed(right[l]))] ]

ResultVector(op, left, right) == [l \in Lanes |-> Result(op, left[l], right[l])]

-----------------------------------------------------------------------------
(* The operators that set no flags.                                        *)

\* Cells are shifted as ints: more positions than a cell has bits leave what as
\* many do, and of a cell shifted left only the bits that stay in it.
Positions(n) == IF n < RegisterBits THEN n ELSE RegisterBits

ShiftedLeft(x, n)         == (x % 2^(RegisterBits - Positions(n))) * 2^Positions(n)
ShiftedRight(x, n)        == x \div 2^Positions(n)
ShiftedArithmetic(x, n)   == Cell(Signed(x) \div 2^Positions(n))

ShiftBy(op, x, n) ==
    CASE op = "shl"  -> ShiftedLeft(x, n)
      [] op = "shr"  -> ShiftedRight(x, n)
      [] op = "shra" -> ShiftedArithmetic(x, n)

\* A shift by a number outside 0..31 is undefined in C++: what the instruction
\* of the host's processor does is a shift by some other number.  The numbers
\* that lanes with these counts may shift by.
ShiftNumbers(counts) ==
    LET undefined == {l \in DOMAIN counts : counts[l] \notin 0..31} IN
    {[l \in DOMAIN counts |-> IF l \in undefined THEN other[l] ELSE counts[l]] :
        other \in [undefined -> 0..RegisterBits]}

Complement(x) == FromBits((0..(RegisterBits - 1)) \ Bits(x))
PopCount(x)   == Cardinality(Bits(x))
Reversed(x)   == FromBits({RegisterBits - 1 - k : k \in Bits(x)})
UnsignedLess(x, y) == AsFlag(x < y)

\* The two halves of a product, signed and unsigned.
LowHalf(p)  == Cell(p)
HighHalf(p) == Cell(p \div Values)

-----------------------------------------------------------------------------
\* shift(): rounds, each of which moves a cell by one lane into the lanes whose
\* count is not used up.  It does not return if a count is negative.
ShiftedCells(vector, counts, direction) ==
    LET last == CHOOSE n \in {counts[l] : l \in Lanes} :
                    \A l \in Lanes : counts[l] <= n
        round[n \in 0..last] ==
            IF n = 0 THEN vector
            ELSE [l \in Lanes |-> IF counts[l] >= n
                                  THEN round[n - 1][(l + direction) % VectorLength]
                                  ELSE round[n - 1][l]]
    IN  round[last]

\* reduce() and reduce_u(): a sum over the selected lanes, in an int.
SumOf(value(_), selected) == MapThenSumSet(LAMBDA l : value(l), selected)

=============================================================================
