-------------------------- MODULE MCEmulatedKernels --------------------------
(***************************************************************************)
(* Eight lanes of four bits: numbers of two cells have eight bits.         *)
(***************************************************************************)
EXTENDS EmulatedKernels

AllRegisters == 0..31
SixRows == 0..5

Empty == [l \in Lanes |-> 0]

\* Rows given by functions of the lane, zero elsewhere.
StoreOf(rows) == [w \in Rows |-> IF w < Len(rows) THEN rows[w + 1] ELSE Empty]

-----------------------------------------------------------------------------
(* Eight pairs of numbers at a time.                                       *)

\* The ends of the range, of its halves, and numbers in between.
Boundary == <<0, 1, 7, 15, 16, 17, 100, 127, 128, 129, 143, 171, 239, 240, 254, 255>>

\* The row with the numbers f[0], f[1], ... of two cells.
RowOfTwo(f(_)) ==
    [l \in Lanes |-> IF l % 2 = 0 THEN f(l \div 2) % Values ELSE f(l \div 2) \div Values]

PairRows(x(_), y(_)) ==
    <<RowOfTwo(x), RowOfTwo(LAMBDA k : x(k + 4)), RowOfTwo(y), RowOfTwo(LAMBDA k : y(k + 4))>>

\* Each x of Boundary with eight of the ys.
BoundaryRows ==
    {PairRows(LAMBDA k : Boundary[a], LAMBDA k : Boundary[8 * h + k + 1]) :
        a \in 1..16, h \in {0, 1}}

\* Each number of positions, and four numbers that have a carry beside them.
ShiftedNumbers == <<1, 24, 129, 150, 255>>
ShiftRows ==
    {PairRows(LAMBDA k : IF k % 2 = 0 THEN x ELSE 255 - x, LAMBDA k : (k + 136) % 256) :
        x \in {ShiftedNumbers[k] : k \in 1..5}}

TwoCells(name, kernel, rows) ==
    {[name |-> name, kernel |-> StripMined(2, kernel, IF name \in {"ADDi32", "ADDi32SettingCarry"} THEN DST_2 ELSE DST),
      rows |-> 2, store |-> StoreOf(r)] : r \in rows}

WidePrograms ==
    TwoCells("ADDi32", ADDi32, BoundaryRows)
    \cup TwoCells("ADDi32SettingCarry", ADDi32SettingCarry, BoundaryRows)
    \cup TwoCells("SUBi32", SUBi32, BoundaryRows)
    \cup {[p EXCEPT !.kernel = StripMined(2, MULTi32, 18)] :
             p \in TwoCells("MULTi32", MULTi32, BoundaryRows)}
    \cup TwoCells("SHLi32", SHLi32, ShiftRows)
    \cup TwoCells("SHRi32", SHRi32, ShiftRows)
    \cup TwoCells("SHRAi32", SHRAi32, ShiftRows)
    \cup {[name |-> "ISHRAi32", kernel |-> StripMined(2, ISHRAi32(n), DST), rows |-> 2,
           bits |-> n, store |-> StoreOf(r)] : n \in 0..RegisterBits, r \in ShiftRows}
    \cup {[name |-> "REDi32", kernel |-> REDi32, rows |-> 1, store |-> StoreOf(r)] :
             r \in BoundaryRows}

\* Four cells: sums whose carry travels over none, one, two and three of them.
Nibbles(a, b, c, d) ==
    [l \in Lanes |-> IF l < 4 THEN <<a, b, c, d>>[l + 1] ELSE <<d, a, c, b>>[l - 3]]

QuadPrograms ==
    {[name |-> "AddI64", kernel |-> StripMined(1, AddI64, DST), rows |-> 1,
      store |-> StoreOf(<<Nibbles(a, b, c, d), Nibbles(1, e, 0, 15)>>)] :
        a \in {14, 15}, b \in {0, 15}, c \in {7, 15}, d \in {0, 15}, e \in {0, 15}}

-----------------------------------------------------------------------------
(* All pairs of cells: an operand in all lanes with half of the others.    *)

AllPairs ==
    {<<[l \in Lanes |-> a], [l \in Lanes |-> 8 * h + l]>> : a \in Cells, h \in {0, 1}}

CellPrograms(name, kernel) ==
    {[name |-> name, kernel |-> kernel, rows |-> 1, store |-> StoreOf(r)] : r \in AllPairs}

-----------------------------------------------------------------------------
(* Vectors.                                                                *)

\* A comparator network sorts everything if it sorts all vectors of two values;
\* some vectors of many values are for the lanes' arithmetic.
TwoValued(n) == [l \in Lanes |-> IF (n \div 2^l) % 2 = 1 THEN 7 ELSE 8]
Many ==
    {[l \in Lanes |-> Cell(7 - 2 * l)], [l \in Lanes |-> Cell(3 * l + 5)],
     [l \in Lanes |-> Cell(5 * l)], [l \in Lanes |-> 15 - l], [l \in Lanes |-> l]}

Vector(name, kernel, vectors) ==
    {[name |-> name, kernel |-> kernel, rows |-> 1, summed |-> v, store |-> StoreOf(<<v>>)] :
        v \in vectors}

\* ScanKernel sums what its two statements load: here any vector.
FirstRow == <<Plain("iread", 20, 0, 0)>>

\* A single cell larger than the others, in each lane.
Peaks == {[l \in Lanes |-> IF l = m THEN n + 1 ELSE n] : m \in Lanes, n \in {0, 6, 8, 13}}

VectorPrograms ==
    Vector("MaxReduce", MaxReduce, Peaks \cup Many)
    \cup Vector("ScanKernel", ScanKernel(FirstRow), Peaks \cup Many)
    \cup Vector("ScanKernel", ScanKernel(IndexPlusOne), {[l \in Lanes |-> l + 1]})
    \cup Vector("BubbleSort", InitBubbleSortKernel,
                Many \cup {TwoValued(n) : n \in 0..255})

DivisionPrograms == CellPrograms("DivInt16", DivInt16)

AllPrograms ==
    WidePrograms \cup QuadPrograms \cup CellPrograms("MulInt16", MulInt16)
    \cup DivisionPrograms \cup VectorPrograms

=============================================================================
