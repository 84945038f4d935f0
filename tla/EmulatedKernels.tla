--------------------------- MODULE EmulatedKernels ---------------------------
(***************************************************************************)
(* The kernels of examples/ on the lanes, and their hosts: a host writes   *)
(* operands to the local store, executes a kernel and takes the results    *)
(* from the local store or from the reductions.  The host of BubbleSort    *)
(* executes its kernel again and again.                                    *)
(***************************************************************************)
EXTENDS ConnexLanes, EmulatedIntegers, EmulatedCells, LanePatterns

CONSTANT Programs              \* what is computed, its kernel, its rows and
                               \* what lies in the local store

VARIABLES
    program,                   \* history: the program that is run
    executions                 \* of BubbleSortKernel

vars == <<lanesVars, program, executions>>

\* The registers and the selection hold what another kernel has left.
Leftover == [r \in Registers |-> [l \in Lanes |-> (5 * r + 3 * l) % Values]]

Init ==
    \E p \in Programs :
        /\ program = p
        /\ executions = 0
        /\ Start(KernelWords(p.kernel), Leftover, p.store, [l \in Lanes |-> l % 2])

-----------------------------------------------------------------------------
\* The host's loop ends when neither half of an execution has exchanged cells,
\* and after VectorLength / 2 + 1 executions at the latest.
Exchanged == executions = 0 \/ reductions # <<0, 0>>

SortsAgain ==
    /\ Ended
    /\ program.name = "BubbleSort"
    /\ Exchanged
    /\ executions < VectorLength \div 2 + 1

Finished == Ended /\ failure = "none" /\ ~SortsAgain

ExecuteBubbleSort ==
    /\ SortsAgain
    /\ executions' = executions + 1
    /\ words' = KernelWords(BubbleSortKernel)
    /\ pc' = 1
    /\ reductions' = << >>
    /\ UNCHANGED <<registerFile, localStore, flags, active, cellDisabled, mult,
                   shiftReg, failure, program>>

Rest == Finished /\ UNCHANGED vars

Next ==
    \/ ExecuteInstruction /\ UNCHANGED <<program, executions>>
    \/ ExecuteBubbleSort
    \/ Rest

Spec == Init /\ [][Next]_vars

-----------------------------------------------------------------------------
(* Numbers of several cells, the lowest in the first of their lanes.       *)

Pairs == {l \in Lanes : l % 2 = 0}
Quads == {l \in Lanes : l % 4 = 0}

Two(store, row, l)  == store[row][l] + Values * store[row][l + 1]
Four(store, row, l) == Two(store, row, l) + Values^2 * Two(store, row, l + 2)

SignedTwo(n) == IF 2 * n < Values^2 THEN n ELSE n - Values^2

\* In each row of results, what is made of the operands is Meant(x, y).
PairsHold(name, meant(_, _)) ==
    program.name = name =>
        \A k \in 0..(program.rows - 1), l \in Pairs :
            Two(localStore, 2 * program.rows + k, l)
                = meant(Two(program.store, k, l), Two(program.store, program.rows + k, l))
                      % Values^2

Count(y) == y % (2 * RegisterBits)

\* Sums, differences and products of numbers of two and of four cells are those
\* of integers: a carry reaches the next cell of its own number and no other,
\* and ADDC emulations find the carry of the whole sum in the flags
\* (examples/Emulate_i32/ADDi32_manual/output.cpp:72-131 and the kernels beside
\* it, checked there with numbers from rand()).
WideSums ==
    Finished =>
        /\ PairsHold("ADDi32", LAMBDA x, y : x + y)
        /\ PairsHold("ADDi32SettingCarry", LAMBDA x, y : x + y)
        /\ PairsHold("SUBi32", LAMBDA x, y : x - y)
        /\ PairsHold("MULTi32", LAMBDA x, y : x * y)
        /\ program.name = "AddI64" =>
              \A l \in Quads :
                  Four(localStore, 2, l)
                      = (Four(program.store, 0, l) + Four(program.store, 1, l)) % Values^4
        /\ program.name = "REDi32" =>
              reductions[1] + Values * reductions[2]
                  = SumOf(LAMBDA l : Two(program.store, 0, l), Pairs)

\* ... the lane of the high half has it in the carry flag, and the other lane
\* has none.
CarryIsLeft ==
    Finished /\ program.name = "ADDi32SettingCarry" =>
        \A l \in Pairs :
            LET last == program.rows - 1
                sum  == Two(program.store, last, l)
                            + Two(program.store, program.rows + last, l)
            IN  registerFile[CRY_FINAL][l + 1] = sum \div Values^2
                /\ registerFile[CRY_FINAL][l] = 0

\* Bits that a shift moves out of one half arrive in the other, for every number
\* of positions below the size of both: none, less than a cell, exactly a cell
\* and more (examples/Emulate_i32/SHLi32_manual/output.cpp:60-228, SHRi32,
\* SHRAi32 and SHRA_imm_ISHRA).
WideShifts ==
    Finished =>
        /\ PairsHold("SHLi32", LAMBDA x, y : x * 2^Count(y))
        /\ PairsHold("SHRi32", LAMBDA x, y : x \div 2^Count(y))
        /\ PairsHold("SHRAi32", LAMBDA x, y : SignedTwo(x) \div 2^Count(y))
        /\ PairsHold("ISHRAi32", LAMBDA x, y : SignedTwo(x) \div 2^program.bits)

-----------------------------------------------------------------------------
(* Products and quotients of cells.                                        *)

In(row, l)  == Signed(program.store[row][l])
Out(row, l) == Signed(localStore[row][l])

\* The bitwise product is the product of two numbers in two's complement, all
\* of its bits (MulInt16, examples/Emulate_i16/MUL_i16_manual/output.cpp:86).
ProductIsExact ==
    Finished /\ program.name = "MulInt16" =>
        \A l \in Lanes :
            Values * Out(3, l) + localStore[2][l] = In(0, l) * In(1, l)

\* Division as C has it: the quotient is rounded towards zero, the remainder has
\* the sign of the dividend.
Abs(n) == IF n < 0 THEN -n ELSE n
Sign(n) == IF n < 0 THEN -1 ELSE 1
QuotientInC(x, y) == Sign(x) * Sign(y) * (Abs(x) \div Abs(y))
RemainderInC(x, y) == x - y * QuotientInC(x, y)

DividesInC(l) ==
    /\ Out(2, l) = QuotientInC(In(0, l), In(1, l))
    /\ Out(3, l) = RemainderInC(In(0, l), In(1, l))

\* The dividend whose magnitude is divided.
Divided(x) == IF x = -(Values \div 2) THEN x + 1 ELSE x

\* A lane whose rest becomes zero has ended before signs are set.
EndsEarly(x, y) == Divided(x) % Abs(y) = 0 /\ (x < 0 \/ y < 0)

\* Quotient and remainder are those of C for every divisor but zero, the least
\* number on either side included, if there is a rest or both operands have no
\* sign (DivInt16, examples/Emulate_i16/DIV_i16_manual/output.cpp:785).  The
\* operands left out are exactly those the kernel divides wrongly; that it should
\* divide these too is DividesLikeC.
DivisionWithRest ==
    Finished /\ program.name = "DivInt16" =>
        \A l \in Lanes :
            In(1, l) # 0 /\ ~EndsEarly(In(0, l), In(1, l)) => DividesInC(l)

\* What the program beside the kernel tests, on numbers from rand(): "B[i] != 0 &&
\* (A[i] / B[i] != C[i] || A[i] % B[i] != D[i])" is a failure
\* (examples/Emulate_i16/DIV_i16_manual/output.cpp:1340-1341).  Quotients that no
\* cell can hold, of the least number and -1, are not asked for.
DividesLikeC ==
    Finished /\ program.name = "DivInt16" =>
        \A l \in Lanes :
            In(1, l) # 0 /\ QuotientInC(In(0, l), In(1, l)) < Values \div 2
                => DividesInC(l)

-----------------------------------------------------------------------------
(* The lanes together.                                                     *)

MaxOf(vector) == CHOOSE n \in {Signed(vector[l]) : l \in Lanes} :
                     \A l \in Lanes : Signed(vector[l]) <= n

\* The maximum of the vector arrives in every lane (MaxReduce,
\* examples/RED-Max_i16/output.cpp:35: the sum of all lanes is what the host
\* compares).
MaximumEverywhere ==
    Finished /\ program.name = "MaxReduce" =>
        reductions = <<VectorLength * MaxOf(program.store[0])>>

\* Each lane gets the sum of its own cell and of those in the lanes before it
\* (ScanKernel, examples/Scan_SUM_i16/output.cpp:72), though the displacements
\* are not the ones of its comments but larger.
PrefixSums ==
    Finished /\ program.name = "ScanKernel" =>
        \A l \in Lanes :
            localStore[2][l] = Cell(SumOf(LAMBDA m : program.summed[m], 0..l))

Occurrences(vector, c) == Cardinality({l \in Lanes : vector[l] = c})

\* When the host's loop has ended, because nothing was exchanged or because it
\* counts no further, the cells are those it was given, in order
\* (BubbleSortKernel, examples/Sort/BubbleSort/output.cpp:350-372).
SortedWhenStopped ==
    Finished /\ program.name = "BubbleSort" =>
        /\ \A l \in Lanes : l > 0 => Out(1, l - 1) <= Out(1, l)
        /\ \A c \in Cells :
              Occurrences(localStore[1], c) = Occurrences(program.store[0], c)

=============================================================================
