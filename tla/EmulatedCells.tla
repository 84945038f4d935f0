---------------------------- MODULE EmulatedCells ----------------------------
(***************************************************************************)
(* The kernels of examples/Emulate_i16: a product and a quotient of cells, *)
(* bit by bit.  The constants 14, 15 and 16 of the source are those of     *)
(* cells of 16 bits; REPEAT and the C loops are written out.  The number   *)
(* of rows is one.                                                         *)
(***************************************************************************)
EXTENDS Operand, ConnexVector, SequencesExt

LOCAL CT0 == 31
LOCAL CT1 == 30

\* The lanes where a and every register of masks is 1.
WhereAll(aux, masks, body) ==
    [k \in DOMAIN masks |-> Bin("and", aux, aux, masks[k])]
    \o ExecuteWhere(Bin("eq", aux, aux, CT1), "WHERE_EQ", body)

-----------------------------------------------------------------------------
(* The product, of two cells, in rows 2 and 3.                             *)

LOCAL CT16 == 28        LOCAL HIGH == 26      LOCAL LOW == 27
LOCAL SRC1 == 24        LOCAL SRC2 == 25
LOCAL RES_LOW == 23     LOCAL RES_HIGH == 22
LOCAL PRED == 21        LOCAL IDX == 5        LOCAL IDX16 == 4

\* The lanes whose second operand has its lowest bit set.
WhereOdd(pred, body) ==
    <<Bin("and", pred, SRC2, CT1)>>
    \o ExecuteWhere(Bin("eq", pred - 1, pred, CT1), "WHERE_EQ", body)

AddAligned ==
    <<Statement("update", "plus", RES_LOW, 0, LOW), Bin("addc", RES_HIGH, RES_HIGH, CT0),
      Statement("update", "plus", RES_HIGH, 0, HIGH)>>

\* The highest bit of a number in two's complement counts negatively.
SubtractAligned ==
    <<Statement("update", "minus", RES_LOW, 0, LOW), Bin("subc", RES_HIGH, RES_HIGH, CT0),
      Statement("update", "minus", RES_HIGH, 0, HIGH)>>

Halve == <<ShiftBits("shr", SRC2, SRC2, 1)>>

\* Mutant: the bit of the sign is treated as the others are.
MulInt16Unsigned ==
    <<InAll, Const(1, 0), Const(2, 1), Const(3, 2),
      Plain("read", SRC1, 0, 1), Plain("read", SRC2, 0, 2),
      Const(CT0, 0), Const(CT1, 1), Const(RES_LOW, 0), Const(RES_HIGH, 0), Const(IDX, 0)>>
    \o FlattenSeq([k \in 1..RegisterBits |->
           <<ShiftBits("shl", LOW, SRC1, k - 1), ShiftBits("shra", HIGH, SRC1, RegisterBits + 1 - k)>>
           \o WhereOdd(20, AddAligned) \o Halve])
    \o <<Plain("write", 0, RES_LOW, 3), Bin("plus", 3, 3, CT1), NoOperation,
         Plain("write", 0, RES_HIGH, 3), Reduce(0)>>

MulInt16 ==
    <<InAll, Const(1, 0), Const(2, 1), Const(3, 2),
      Plain("read", SRC1, 0, 1), Plain("read", SRC2, 0, 2),
      Const(CT0, 0), Const(CT1, 1), Const(RES_LOW, 0), Const(RES_HIGH, 0),
      Const(CT16, RegisterBits), ShiftBits("shl", LOW, SRC1, 0), Const(HIGH, 0)>>
    \o ExecuteWhere(Bin("lt", PRED, SRC1, CT0), "WHERE_LT", <<Const(HIGH, -1)>>)
    \o <<Bin("and", PRED, SRC2, CT1)>>
    \o ExecuteWhere(Bin("eq", PRED, PRED, CT1), "WHERE_EQ", AddAligned)
    \o Halve \o <<Const(IDX, 1)>>
    \o FlattenSeq([k \in 1..(RegisterBits - 2) |->
           <<Bin("shl", LOW, SRC1, IDX), Bin("minus", IDX16, CT16, IDX),
             Bin("shra", HIGH, SRC1, IDX16)>>
           \o WhereOdd(20, AddAligned)
           \o Halve \o <<Statement("update", "plus", IDX, 0, CT1)>>])
    \o WhereOdd(18, <<ShiftBits("shl", LOW, SRC1, RegisterBits - 1),
                      ShiftBits("shra", HIGH, SRC1, 1)>> \o SubtractAligned)
    \o <<Bin("plus", 1, 1, 3), Bin("plus", 6, 6, 3), Plain("write", 0, RES_LOW, 3),
         Bin("plus", 3, 3, CT1), NoOperation, Plain("write", 0, RES_HIGH, 3),
         Bin("plus", 1, 1, CT1), Bin("plus", 2, 2, CT1), Bin("plus", 3, 3, CT1), Reduce(0)>>

-----------------------------------------------------------------------------
(* Quotient and remainder, in rows 2 and 3, by sign and magnitude.         *)

LOCAL CT2 == 29         LOCAL TYPE_MIN == 28
LOCAL QUOTIENT == 26    LOCAL QUOTIENT_TOTAL == 25    LOCAL REMAINDER == 24
LOCAL CORRECT_QUOTIENT == 23
LOCAL DIVIDEND == 21    LOCAL DIVISOR == 22
LOCAL LOW16 == 20       LOCAL HIGH16 == 19            LOCAL RESIDUAL == 18
LOCAL CHANGE_SIGN == 15 LOCAL AUX == 14               LOCAL AUX2 == 13
LOCAL MASK_CONTINUE == 11

LOCAL Copy(d, a) == Bin("or", d, a, a)
LOCAL Negate(d)  == Bin("minus", d, CT0, d)

\* Divisors equal to the least number are done at once, and their lanes left
\* out of the rest.
LeastDivisor ==
    ExecuteWhere(Bin("eq", MASK_CONTINUE, DIVISOR, TYPE_MIN), "WHERE_EQ",
          <<Copy(REMAINDER, DIVIDEND)>>)
    \o <<Bin("eq", AUX, DIVIDEND, TYPE_MIN)>>
    \o WhereAll(AUX, <<MASK_CONTINUE>>, <<Const(QUOTIENT_TOTAL, 1), Const(REMAINDER, 0)>>)
    \o <<Bin("minus", MASK_CONTINUE, CT1, MASK_CONTINUE)>>

\* The least number has no absolute value: its neighbour is divided.
LeastDividend ==
    <<Const(CORRECT_QUOTIENT, 0), Bin("eq", AUX, DIVIDEND, TYPE_MIN)>>
    \o WhereAll(AUX, <<MASK_CONTINUE>>,
           <<Statement("update", "plus", DIVIDEND, 0, CT1),
             ShiftBits("shr", CORRECT_QUOTIENT, DIVISOR, RegisterBits - 1),
             ShiftBits("shl", CORRECT_QUOTIENT, CORRECT_QUOTIENT, 1),
             Bin("minus", CORRECT_QUOTIENT, CORRECT_QUOTIENT, CT1)>>)

Magnitudes ==
    ExecuteWhere(Bin("lt", AUX, DIVIDEND, CT0), "WHERE_LT",
          <<Negate(DIVIDEND), Copy(CHANGE_SIGN, CT1)>>)
    \o ExecuteWhere(Bin("lt", AUX, DIVISOR, CT0), "WHERE_LT",
             <<Negate(DIVISOR), Bin("or", CHANGE_SIGN, CHANGE_SIGN, CT2)>>)

\* One bit of the quotient.  A lane whose rest becomes zero is left out of all
\* that follows.
QuotientBit(bit) ==
    <<ShiftBits("shl", LOW16, DIVISOR, bit),
      ShiftBits("shr", HIGH16, DIVISOR, RegisterBits - bit),
      Bin("eq", AUX, LOW16, RESIDUAL), Bin("eq", AUX2, HIGH16, CT0)>>
    \o WhereAll(AUX, <<AUX2, MASK_CONTINUE>>,
           <<Const(RESIDUAL, 0), Bin("or", QUOTIENT_TOTAL, QUOTIENT_TOTAL, QUOTIENT)>>)
    \o <<Bin("minus", AUX, CT1, AUX), Bin("and", MASK_CONTINUE, MASK_CONTINUE, AUX),
         Bin("ult", AUX, RESIDUAL, LOW16), Bin("minus", AUX, CT1, AUX),
         Bin("eq", AUX2, HIGH16, CT0)>>
    \o WhereAll(AUX, <<AUX2, MASK_CONTINUE>>,
           <<Bin("minus", RESIDUAL, RESIDUAL, LOW16),
             Bin("or", QUOTIENT_TOTAL, QUOTIENT_TOTAL, QUOTIENT)>>)
    \o <<Bin("shr", QUOTIENT, QUOTIENT, CT1)>>

\* Mutant: the remainder gets the sign of the quotient.
SetSignsAlike ==
    <<Statement("unary", "popcnt", AUX, CHANGE_SIGN, 0)>>
    \o WhereAll(AUX, <<MASK_CONTINUE>>, <<Negate(QUOTIENT_TOTAL), Negate(REMAINDER)>>)

\* The sign of the quotient if one of the operands was negative, and of the
\* remainder if the dividend was.
SetSigns ==
    <<Statement("unary", "popcnt", AUX, CHANGE_SIGN, 0)>>
    \o WhereAll(AUX, <<MASK_CONTINUE>>, <<Negate(QUOTIENT_TOTAL)>>)
    \o <<Bin("and", AUX, CHANGE_SIGN, CT1)>>
    \o WhereAll(AUX, <<MASK_CONTINUE>>, <<Negate(REMAINDER)>>)

\* One more is taken away from the remainder of the neighbour.
CorrectQuotient ==
    <<Bin("eq", AUX, CORRECT_QUOTIENT, CT0)>>
    \o ExecuteWhere(Bin("eq", AUX, AUX, CT0), "WHERE_EQ",
             <<Bin("minus", REMAINDER, REMAINDER, CT1), Negate(DIVISOR)>>)
    \o <<Bin("eq", AUX2, REMAINDER, DIVISOR)>>
    \o WhereAll(AUX, <<AUX2>>,
           <<Const(REMAINDER, 0),
             Bin("plus", QUOTIENT_TOTAL, QUOTIENT_TOTAL, CORRECT_QUOTIENT)>>)

DivInt16 ==
    <<InAll, Const(CT0, 0), Const(CT1, 1), Const(6, 0), Const(1, 1), Const(2, 2),
      Const(5, 3), Const(4, 0), Const(3, 1),
      Plain("read", DIVIDEND, 0, 6), Plain("read", DIVISOR, 0, 1),
      Bin("plus", 1, 1, 3), Bin("plus", 6, 6, 3),
      Const(CT2, 2), Const(TYPE_MIN, -(2^(RegisterBits - 1))), Const(REMAINDER, 0),
      Const(QUOTIENT_TOTAL, 0), Const(CHANGE_SIGN, 0)>>
    \o LeastDivisor \o LeastDividend \o Magnitudes
    \o <<Const(QUOTIENT, 2^(RegisterBits - 2)), Copy(RESIDUAL, DIVIDEND)>>
    \o FlattenSeq([k \in 1..(RegisterBits - 1) |-> QuotientBit(RegisterBits - 1 - k)])
    \o ExecuteWhere(Bin("eq", AUX, MASK_CONTINUE, CT1), "WHERE_EQ", <<Copy(REMAINDER, RESIDUAL)>>)
    \o SetSigns \o CorrectQuotient
    \o <<Plain("write", 0, QUOTIENT_TOTAL, 2), Plain("write", 0, REMAINDER, 5),
         Bin("plus", 2, 2, 3), Bin("plus", 5, 5, 3), Reduce(0)>>

=============================================================================
