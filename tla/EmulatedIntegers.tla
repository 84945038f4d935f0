-------------------------- MODULE EmulatedIntegers --------------------------
(***************************************************************************)
(* The kernels of examples/Emulate_i32 and Emulate_i64: sums, products,    *)
(* shifts and reductions of numbers of two or four cells.                  *)
(*                                                                         *)
(* A number of two cells lies in two lanes, the low half in the even one.  *)
(* The constants 16, 31, 14 and 15 of the source are those of cells of 16  *)
(* bits.  Registers have the names of the source; the numbers are those of *)
(* ADDi32, where kernels differ and no two names share one.                *)
(***************************************************************************)
EXTENDS Operand, ConnexVector, SequencesExt

CT0 == 31      CT1 == 30      CT16 == 10     CT31 == 8
DST == 29      SRC1 == 27     SRC2 == 28
IDX == 26      IDXMOD2 == 25  IDXPRED == 24  IDXPRED2 == 19
CRY == 23      DST_2 == 22    CRY_2 == 21    CRY_FINAL == 20

Constants01 == <<Const(CT0, 0), Const(CT1, 1)>>

\* The statements of the lanes with an odd index.
InOddLanes(body) ==
    <<Index(IDX), Bin("and", IDXMOD2, IDX, CT1)>>
    \o ExecuteWhere(Bin("eq", IDXPRED, IDXMOD2, CT1), "WHERE_EQ", body)

\* Around each of the kernels: operands in rows 0..n-1 and n..2n-1, results in
\* rows 2n..3n-1.  The REPEAT is written out.
StripMined(n, body, result) ==
    <<InAll>> \o Constants01
    \o <<Const(0, 0), Const(1, n), Const(2, 2 * n), Const(3, 1), Const(4, 0)>>
    \o FlattenSeq([k \in 1..n |->
           <<Plain("read", SRC1, 0, 0), Plain("read", SRC2, 0, 1)>>
           \o body
           \o <<NoOperation, Plain("write", 0, result, 2), Bin("plus", 1, 1, 3),
                Bin("plus", 0, 0, 3), Bin("plus", 2, 2, 3)>>])
    \o <<Reduce(0)>>

-----------------------------------------------------------------------------
(* Sums and differences: the carry of the low half is moved to the lane of *)
(* the high half.                                                          *)

\* Mutant: the carries of the high halves go to the next number.
ADDi32Unmasked ==
    Constants01
    \o <<Bin("plus", DST, SRC2, SRC1), Bin("addc", CRY, CT0, CT0)>>
    \o Moved("cellshr", CRY_2, CRY, CT1)
    \o <<Bin("plus", DST_2, DST, CRY_2)>>

ADDi32 ==
    Constants01
    \o <<Bin("plus", DST, SRC2, SRC1), Bin("addc", CRY, CT0, CT0)>>
    \o InOddLanes(<<Const(CRY, 0)>>)
    \o Moved("cellshr", CRY_2, CRY, CT1)
    \o <<Bin("plus", DST_2, DST, CRY_2)>>

\* Mutant: the carry that comes of adding a carry is forgotten.
ADDi32SettingFirstCarry ==
    Constants01
    \o <<Bin("plus", DST, SRC2, SRC1), Bin("addc", CRY, CT0, CT0), Const(CRY_FINAL, 0)>>
    \o InOddLanes(<<Plain("copy", CRY_FINAL, CRY, 0), Const(CRY, 0)>>)
    \o Moved("cellshr", CRY_2, CRY, CT1)
    \o <<Bin("plus", DST_2, DST, CRY_2), Const(19, -1), Bin("plus", 19, 19, CRY_FINAL)>>

\* ... with the carry of the whole sum in the flags at the end.
ADDi32SettingCarry ==
    Constants01
    \o <<Bin("plus", DST, SRC2, SRC1), Bin("addc", CRY, CT0, CT0), Const(CRY_FINAL, 0)>>
    \o InOddLanes(<<Plain("copy", CRY_FINAL, CRY, 0), Const(CRY, 0)>>)
    \o Moved("cellshr", CRY_2, CRY, CT1)
    \o <<Bin("plus", DST_2, DST, CRY_2), Bin("addc", CRY, CT0, CT0),
         Bin("or", CRY_FINAL, CRY_FINAL, CRY),
         Const(19, -1), Bin("plus", 19, 19, CRY_FINAL)>>

SUBi32 ==
    Constants01
    \o <<Bin("minus", DST, SRC1, SRC2), Bin("addc", CRY, CT0, CT0)>>
    \o InOddLanes(<<Const(CRY, 0)>>)
    \o Moved("cellshr", CRY, CRY, CT1)
    \o <<Bin("minus", DST, DST, CRY)>>

\* Four cells: a carry may travel over three lanes.
AddI64 ==
    LET CT3 == 18
        ripple ==
            <<Bin("addc", CRY, CT0, CT0), Index(IDX), Bin("and", IDX, IDX, CT3)>>
            \o ExecuteWhere(Bin("eq", IDX, IDX, CT3), "WHERE_EQ", <<Const(CRY, 0)>>)
            \o Moved("cellshr", CRY, CRY, CT1)
            \o <<Bin("plus", DST, DST, CRY), InAll>>
    IN  Constants01 \o <<Const(CT3, 3), Bin("plus", DST, SRC1, SRC2), InAll>>
        \o ripple \o ripple \o ripple

-----------------------------------------------------------------------------
\* The low two cells of the product: three products of cells.
MULTi32 ==
    LET RES0_L == 18  RES0_H == 17  RES1_L == 16  RES2_L == 15  RESX == 14 IN
    Constants01
    \o <<Plain("mult_u", 0, SRC2, SRC1),
         Plain("multlo", RES0_L, 0, 0), Plain("multhi", RES0_H, 0, 0)>>
    \o Moved("cellshr", RES1_L, SRC1, CT1)
    \o <<Plain("mult_u", 0, RES1_L, SRC2), Plain("multlo", RES1_L, 0, 0)>>
    \o Moved("cellshr", RES2_L, SRC2, CT1)
    \o <<Plain("mult_u", 0, RES2_L, SRC1), Plain("multlo", RES2_L, 0, 0)>>
    \o Moved("cellshr", RESX, RES0_H, CT1)
    \o InOddLanes(<<Bin("or", RES0_L, RESX, RESX),
                    Bin("plus", RES0_L, RES0_L, RES1_L),
                    Bin("plus", RES0_L, RES0_L, RES2_L)>>)

\* Both halves are reduced by themselves.
REDi32 ==
    LET SRCAUX == 22 IN
    <<InAll, Const(CT1, 1), Const(0, 0), Plain("read", SRC1, 0, 0), Const(CT1, 1)>>
    \o Moved("cellshr", SRCAUX, SRC1, CT1)
    \o InOddLanes(<<Const(SRC1, 0), Const(SRCAUX, 0)>>)
    \o <<ReduceU(SRC1), ReduceU(SRCAUX)>>

-----------------------------------------------------------------------------
(* Shifts by what is in the low half of the second operand.                *)

ShiftConstants ==
    Constants01 \o <<Const(CT16, RegisterBits), Const(CT31, 2 * RegisterBits - 1)>>

AUX == 18      AUX2 == 17     SRC2_16 == 16  OTHER_HALF == 15

\* The number of positions, in both lanes, and whether it is more than a cell.
SpreadCount ==
    <<Bin("and", SRC2, SRC2, CT31), Index(IDXMOD2), Bin("and", IDXMOD2, IDXMOD2, CT1)>>
    \o Moved("cellshr", SRC2, SRC2, IDXMOD2)
    \o <<Bin("lt", AUX2, CT16, SRC2)>>

\* The lanes where both AUX2 and IDXMOD2 are 1.
WhereBoth(body) ==
    <<Bin("and", IDXPRED, AUX2, IDXMOD2)>>
    \o ExecuteWhere(Bin("eq", IDXPRED2, IDXPRED, CT1), "WHERE_EQ", body)

\* Mutant: what is left of its own bits is lost.
CombinedOther(farOp, nearOp, backOp) ==
    WhereBoth(<<Bin("minus", SRC2_16, SRC2, CT16), Bin(farOp, DST, OTHER_HALF, SRC2_16)>>)
    \o <<Bin("minus", AUX2, CT1, AUX2)>>
    \o WhereBoth(<<Bin("minus", SRC2_16, CT16, SRC2), Bin(backOp, AUX, OTHER_HALF, SRC2_16),
                   Bin("or", DST, AUX, AUX)>>)

\* The half that receives bits of the other one: all of them, or some between
\* what is left of its own.
Combined(farOp, nearOp, backOp) ==
    WhereBoth(<<Bin("minus", SRC2_16, SRC2, CT16), Bin(farOp, DST, OTHER_HALF, SRC2_16)>>)
    \o <<Bin("minus", AUX2, CT1, AUX2)>>
    \o WhereBoth(<<Bin("minus", SRC2_16, CT16, SRC2), Bin(backOp, AUX, OTHER_HALF, SRC2_16),
                   Bin(nearOp, DST, SRC1, SRC2), Bin("or", DST, DST, AUX)>>)

SHLi32 ==
    ShiftConstants \o SpreadCount
    \o <<Bin("shl", DST, SRC1, SRC2)>>
    \o Moved("cellshr", OTHER_HALF, SRC1, CT1)
    \o <<Bin("eq", IDXMOD2, IDXMOD2, CT1)>>
    \o Combined("shl", "shl", "shr")

SHRi32 ==
    ShiftConstants \o SpreadCount
    \o <<Bin("eq", IDXPRED, IDXMOD2, CT1), Bin("and", IDXPRED, AUX2, IDXPRED)>>
    \o ExecuteWhere(Bin("eq", IDXPRED2, IDXPRED, CT1), "WHERE_EQ", <<Plain("copy", SRC2, CT16, 0)>>)
    \o <<Bin("shr", DST, SRC1, SRC2)>>
    \o Moved("cellshl", OTHER_HALF, SRC1, CT1)
    \o <<Bin("eq", IDXMOD2, IDXMOD2, CT0)>>
    \o Combined("shr", "shr", "shl")

SHRAi32 ==
    ShiftConstants \o SpreadCount
    \o <<Bin("shra", DST, SRC1, SRC2)>>
    \o Moved("cellshl", OTHER_HALF, SRC1, CT1)
    \o <<Bin("eq", IDXMOD2, IDXMOD2, CT0)>>
    \o Combined("shra", "shr", "shl")

\* By an immediate of up to a cell.
ISHRAi32(n) ==
    Constants01
    \o <<ShiftBits("shra", DST, SRC1, n)>>
    \o Moved("cellshl", OTHER_HALF, SRC1, CT1)
    \o <<Index(IDX), Bin("and", IDXMOD2, IDX, CT1)>>
    \o ExecuteWhere(Bin("eq", IDXPRED, IDXMOD2, CT0), "WHERE_EQ",
             <<ShiftBits("shl", AUX, OTHER_HALF, RegisterBits - n),
               ShiftBits("shr", DST, SRC1, n), Bin("or", DST, AUX, DST)>>)

=============================================================================
