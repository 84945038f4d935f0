---------------------------- MODULE LanePatterns ----------------------------
(***************************************************************************)
(* Kernels whose lanes work together: the maximum of a vector              *)
(* (examples/RED-Max_i16), its prefix sums (examples/Scan_SUM_i16) and its *)
(* sorting (examples/Sort/BubbleSort).  The C loops that write statements  *)
(* are written out.  After a move of the cells, one NOP stands for the     *)
(* number of them that the source computes.                                *)
(***************************************************************************)
EXTENDS Operand, ConnexVector, SequencesExt

\* VectorLength is a power of two: the steps of halving it.
Halvings == CHOOSE k \in 1..10 : 2^k = VectorLength

-----------------------------------------------------------------------------
(* In each round the lower half of the lanes takes what is larger in the   *)
(* other half; then the first lane's cell goes to all of them.             *)

LOCAL SRC == 29

MaxRound(k) ==
    LET CT1 == 30  MAX2 == 28  IDX == 27  PRED == 26  PRED2 == 25  STEPS == 25 IN
    <<Const(STEPS, VectorLength \div 2^k)>>
    \o Moved("cellshl", MAX2, SRC, STEPS)
    \o <<Bin("lt", PRED, IDX, STEPS), Bin("lt", PRED2, SRC, MAX2),
         Statement("update", "and", PRED, 0, PRED2)>>
    \o ExecuteWhere(Bin("eq", PRED2, PRED, CT1), "WHERE_EQ", <<Plain("copy", SRC, MAX2, 0)>>)

MaxStart == <<InAll, Plain("iread", SRC, 0, 0), Const(31, 0), Const(30, 1), Index(27)>>

\* Mutant: the loop of halvings ends one round early.
MaxReduceShort ==
    MaxStart \o FlattenSeq([k \in 1..(Halvings - 1) |-> MaxRound(k)])
    \o Moved("cellshr", SRC, SRC, 27) \o <<Reduce(SRC)>>

MaxReduce ==
    MaxStart \o FlattenSeq([k \in 1..Halvings |-> MaxRound(k)])
    \o Moved("cellshr", SRC, SRC, 27) \o <<Reduce(SRC)>>

-----------------------------------------------------------------------------
(* Prefix sums by doubling: the last sum of each block of lanes is added   *)
(* to all of the next block.                                               *)

LOCAL SUM == 20   LOCAL SUM01 == 18   LOCAL SHIFTED == 17   LOCAL DISPLACEMENT == 16

\* The cells that a CELL_SHR has brought are added where a comparison holds.
AddShifted(counts, comparison, condition) ==
    Moved("cellshr", SHIFTED, SUM, counts)
    \o <<Const(SUM01, 0)>>
    \o ExecuteWhere(comparison, condition, <<Plain("copy", SUM01, SHIFTED, 0)>>)
    \o <<Statement("update", "plus", SUM, 0, SUM01)>>

\* Mutant: only the first lane of an upper half is added to.
ScanRoundFirst(i) ==
    LET CT1 == 31  CT0 == 30  AUX == 10  AUX2 == 9 IN
    <<Const(12, 2^(i + 1) - 1), Const(AUX, 2^i), Index(DISPLACEMENT),
      Bin("and", AUX2, DISPLACEMENT, 12), Bin("eq", DISPLACEMENT, AUX2, AUX)>>
    \o AddShifted(DISPLACEMENT, Bin("lt", AUX, CT0, DISPLACEMENT), "WHERE_LT")

\* The i-th round: lanes of the upper half of a block of 2^(i+1) fetch the sum
\* at the end of the lower half.
ScanRound(i) ==
    LET CT1 == 31  CT0 == 30  CT_AUX == 12  POW2 == 15  POW2_MINUS_1 == 14
        AUX == 10  AUX2 == 9
    IN  <<Const(CT_AUX, 2^i - 1), Plain("copy", AUX, POW2, 0), ShiftBits("shl", POW2, POW2, 1),
          Bin("minus", POW2_MINUS_1, POW2, CT1), Index(DISPLACEMENT),
          Bin("and", AUX2, DISPLACEMENT, POW2_MINUS_1)>>
        \o ExecuteWhere(Bin("lt", AUX2, AUX2, AUX), "WHERE_LT", <<Const(DISPLACEMENT, 0)>>)
        \o ExecuteWhere(Bin("eq", AUX2, AUX2, CT0), "WHERE_EQ",
                 <<Statement("update", "minus", DISPLACEMENT, 0,
                             IF i = 1 THEN CT1 ELSE CT_AUX)>>)
        \o AddShifted(DISPLACEMENT, Bin("lt", AUX, CT0, DISPLACEMENT), "WHERE_LT")

\* The source sums INDEX + 1, the two statements of load; any vector may be.
ScanKernel(load) ==
    LET CT1 == 31  CT0 == 30  CT01 == 29  CT10 == 28  POW2 == 15  AUX == 10 IN
    <<InAll, Const(CT1, 1)>> \o load
    \o <<Const(CT1, 1), Const(CT0, 0), Const(POW2, 2), Index(CT01),
         Bin("and", CT01, CT01, CT1), Statement("unary", "not", CT10, CT01, 0)>>
    \o AddShifted(CT01, Bin("eq", AUX, CT01, CT1), "WHERE_EQ")
    \o FlattenSeq([i \in 1..(Halvings - 1) |-> ScanRound(i)])
    \o <<Plain("iwrite", 0, SUM, 2), Reduce(0)>>

IndexPlusOne == <<Index(SUM), Statement("update", "plus", SUM, 0, 31)>>

-----------------------------------------------------------------------------
(* Neighbours are exchanged, first the odd lanes with the next ones, then  *)
(* the even ones.  Registers outlive a kernel: the first kernel prepares   *)
(* those the second one starts with, each time it is executed.             *)

LOCAL ZERO == 31   LOCAL ONE == 30   LOCAL ONE_A == 29   LOCAL ONE_B == 28
LOCAL INDEX == 27  LOCAL KEY == 26   LOCAL AUX1 == 25    LOCAL AUX2 == 24
LOCAL PRED1 == 23  LOCAL PRED2 == 22 LOCAL PRED3 == 21   LOCAL IDXMOD2 == 20

\* CT1A and CT1B are 1 but in the first lane and in the last one, where nothing
\* comes from the other end.
InitBubbleSortKernel ==
    <<InAll, Plain("iread", KEY, 0, 0), Const(ZERO, 0), Const(ONE, 1), Const(ONE_A, 1),
      Const(ONE_B, 1), Index(INDEX)>>
    \o ExecuteWhere(Bin("eq", PRED1, INDEX, ZERO), "WHERE_EQ", <<Const(ONE_A, 0)>>)
    \o <<Const(AUX1, VectorLength - 1)>>
    \o ExecuteWhere(Bin("eq", PRED1, INDEX, AUX1), "WHERE_EQ", <<Const(ONE_B, 0)>>)
    \o <<Reduce(0)>>

\* The lanes with index mod 2 = first take the smaller of two cells, the others
\* the larger one; sums up the lanes of the latter that have changed.
Exchange(first, second) ==
    Moved("cellshl", AUX1, KEY, ONE_B) \o Moved("cellshr", AUX2, KEY, ONE_A)
    \o <<Bin("eq", PRED1, IDXMOD2, first), Bin("lt", PRED2, AUX1, KEY),
         Bin("and", PRED3, PRED1, PRED2)>>
    \o ExecuteWhere(Bin("eq", PRED3, PRED3, ONE), "WHERE_EQ", <<Plain("copy", KEY, AUX1, 0)>>)
    \o Moved("cellshr", PRED2, PRED2, ONE_A)
    \o <<Bin("eq", PRED1, IDXMOD2, second), Bin("and", PRED3, PRED1, PRED2)>>
    \o ExecuteWhere(Bin("eq", PRED3, PRED3, ONE), "WHERE_EQ", <<Plain("copy", KEY, AUX2, 0)>>)
    \o <<Reduce(PRED3)>>

\* Mutant: both halves exchange the same neighbours.
BubbleSortOddOnly ==
    <<InAll, Index(IDXMOD2), Statement("update", "and", IDXMOD2, 0, ONE)>>
    \o Exchange(ONE, ZERO) \o Exchange(ONE, ZERO)
    \o <<Plain("iwrite", 0, KEY, 1)>>

BubbleSortKernel ==
    <<InAll, Index(IDXMOD2), Statement("update", "and", IDXMOD2, 0, ONE)>>
    \o Exchange(ONE, ZERO) \o Exchange(ZERO, ONE)
    \o <<Plain("iwrite", 0, KEY, 1)>>

=============================================================================
