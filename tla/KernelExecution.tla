--------------------------- MODULE KernelExecution ---------------------------
(***************************************************************************)
(* A kernel from its statements to the results the host makes of it: the   *)
(* words that Operand and Instruction make of the statements, their        *)
(* execution on the lanes, and readCorrectReductionResults().              *)
(***************************************************************************)
EXTENDS ConnexLanes, KernelMeaning

CONSTANT
    Kernels                    \* the statements, and what they find: registers,
                               \* local store and the lanes that are selected

\* A statement whose operands have been constructed: registers there are, rows
\* there are, and what the macros and operators ask for.
Written(st) ==
    /\ st.form \in {"binary", "update", "unary", "shift", "copy", "const", "index",
                   "shiftreg", "read", "iread", "write", "iwrite", "mult", "product",
                   "mult_u", "multlo", "multhi", "cellshl", "cellshr", "reduce",
                   "reduce_u", "in_all", "where", "disable", "enable", "nop"}
    /\ {st.d, st.a} \subseteq Registers
    /\ st.b \in Int
    /\ st.form \in {"binary", "update"} => st.op \in DOMAIN CodeOf
    /\ st.form = "unary" => st.op \in DOMAIN CodeOfUnary
    /\ st.form = "shift" => st.op \in DOMAIN CodeOfShift
    /\ st.form = "where" => st.op \in {"WHERE_CRY", "WHERE_EQ", "WHERE_LT"}
    /\ st.form \in {"binary", "update", "read", "write", "mult", "product", "mult_u",
                    "cellshl", "cellshr"} => st.b \in Registers
    /\ st.form \in {"iread", "iwrite"} => st.b \in Rows

\* The lanes that a kernel finds selected, its registers and the local store are
\* what another one has left there.
ASSUME KernelsAssumption ==
    \A k \in Kernels :
        /\ Len(k.statements) \in Nat
        /\ \A n \in 1..Len(k.statements) : Written(k.statements[n])
        /\ k.registers \in [Registers -> Vectors]
        /\ k.store \in [Rows -> Vectors]
        /\ k.selection \in [Lanes -> {0, 1}]

\* The immediate of a word fills a cell.
ASSUME WidthAssumption == RegisterBits <= 16

VARIABLES
    kernel,                    \* history: the kernel that is executed
    answer                     \* what the host's program has got

vars == <<lanesVars, kernel, answer>>

NoAnswer == [from |-> "none", mode |-> "none", values |-> << >>]

\* A kernel with an instruction that cannot be constructed is never executed.
Init ==
    \E k \in Kernels :
        /\ \A n \in DOMAIN Appended(k.statements) :
               Constructible(Appended(k.statements)[n])
        /\ kernel = k
        /\ answer = NoAnswer
        /\ Start(KernelWords(k.statements), k.registers, k.store, k.selection)

-----------------------------------------------------------------------------
(* The host reads the reduction FIFO when the kernel has ended.            *)

\* The FIFO is the simulator's or the board's.  The simulator writes an int.  The
\* processor, according to the comment in readCorrectReductionResults(), a number
\* of 16 + log2(length) bits.
Sources == {"simulator", "board"}

ResultBits == RegisterBits + (CHOOSE k \in 1..10 : 2^k = VectorLength)

Delivered(from) == [k \in DOMAIN reductions |->
    IF from = "board" THEN reductions[k] % 2^ResultBits ELSE reductions[k]]

\* Mutant: the ints are read as if they lay as close as elements of a cell.
ShortResultsPacked(results) ==
    [k \in DOMAIN results |->
        IF k % 2 = 1 THEN Signed(Cell(results[(k + 1) \div 2]))
        ELSE Signed(Cell(results[k \div 2] \div Values))]

\* Results for elements of the size of a cell: each int is cut.
ShortResults(results) == [k \in DOMAIN results |-> Signed(Cell(results[k]))]

\* Ints, which are sign extended if the *status* of the read is a big number.
SignExtendedResults(results, status) ==
    [k \in DOMAIN results |->
        IF status > 2^(ResultBits - 1) THEN results[k] - 2^ResultBits ELSE results[k]]

ReadResults(from, mode) ==
    /\ Ended
    /\ failure = "none"
    /\ reductions # << >>
    /\ answer = NoAnswer
    /\ answer' = [from |-> from, mode |-> mode, values |->
           IF mode = "short" THEN ShortResults(Delivered(from))
           ELSE SignExtendedResults(Delivered(from), 0)]
    /\ UNCHANGED <<lanesVars, kernel>>

\* The end, or the loop of a shift that never ends.
Rest ==
    /\ failure # "none" \/ (Ended /\ (reductions = << >> \/ answer # NoAnswer))
    /\ UNCHANGED vars

Next ==
    \/ ExecuteInstruction /\ UNCHANGED <<kernel, answer>>
    \/ \E from \in Sources, mode \in {"short", "sign_extend"} : ReadResults(from, mode)
    \/ Rest

Spec == Init /\ [][Next]_vars

-----------------------------------------------------------------------------
Meant == MeaningOf(kernel.statements, kernel.registers, kernel.store, kernel.selection)

TypeOK ==
    /\ LanesTypeOK
    /\ answer.from \in {"none"} \cup Sources
    /\ answer.mode \in {"none", "short", "sign_extend"}
    /\ answer.values \in Seq(Int)

\* A kernel that has ended has done what its statements say, in each lane: the
\* values are in the registers and in the local store, and the sums have been
\* sent, in order (executeInstruction(), ConnexSimulator.cpp:816, and all that
\* leads to it from the operators of Operand.cpp).
DoesWhatIsWritten ==
    Ended /\ failure = "none" /\ Meant.defined =>
        /\ \A r \in Registers, l \in Lanes : Signed(registerFile[r][l]) = Meant.val[r][l]
        /\ \A w \in Rows, l \in Lanes : Signed(localStore[w][l]) = Meant.store[w][l]
        /\ reductions = Meant.sums

\* An assertion of loadFrom() or storeTo() fails (ConnexVector.cpp:845, 873), or the
\* loop of shift() never ends (ConnexVector.cpp:821), only in a kernel that means
\* nothing, because it addresses a row that does not exist or shifts by a negative
\* number of lanes.  This is about these three functions.  The energy table that
\* coreThreadHandler() looks an instruction up in after it is executed asserts on
\* its own account, also in kernels that mean something: on ENABLE_ALL_CELLS,
\* DISABLE_CELL and BIT_REVERSE (ConnexSimulator.cpp:430), which is not among the
\* failures of this module (see action Gate of module CoreThread).
AccessesFailOnlyOnMisuse == failure # "none" => ~Meant.defined

\* Each word that is fetched shows the simulator the instruction that the
\* program constructed, with its operands, and is one it accepts.
DecodedAsConstructed ==
    LET built == Appended(kernel.statements) IN
    /\ Len(words) = Len(built)
    /\ \A k \in DOMAIN words :
          /\ Decodable(words[k])
          /\ Presented(Disassembled(words[k])) = Presented(built[k])

\* The host gets the sums of the reductions, in order and as numbers with a sign:
\* cut to the size of a cell, whether the FIFO has whole ints or the fewer bits of
\* the board, and as ints if it is the simulator's, which sends ints
\* (readCorrectReductionResults(), ConnexMachine.cpp:800-829).  Ints made of what
\* the board sends are not among them: see BoardResultsAreExtended.
ResultsAreSums ==
    answer # NoAnswer /\ Meant.defined =>
        /\ answer.mode = "short" =>
               answer.values = [k \in DOMAIN Meant.sums |-> Wrapped(Meant.sums[k])]
        /\ answer.mode = "sign_extend" /\ answer.from = "simulator" =>
               answer.values = Meant.sums

\* "Connex 128 returns a result on 23 bits (among which 1 sign bit), which needs
\* to be sign extended to i32 if it is actually a negative number"
\* (readCorrectReductionResults(), ConnexMachine.cpp:816-820): the ints the host
\* makes of the board's results are the sums, the negative ones too.
BoardResultsAreExtended ==
    answer.mode = "sign_extend" /\ answer.from = "board" /\ Meant.defined
    /\ (\A n \in DOMAIN kernel.statements : kernel.statements[n].form # "reduce_u")
    => answer.values = Meant.sums

-----------------------------------------------------------------------------
(* Numbers of two cells, as in the emulations of i32: kernels that compute *)
(* with R2:R0 and R3:R1 and leave R5:R4.                                   *)

WideAdd == <<InAll, Bin("plus", 4, 0, 1), Bin("addc", 5, 2, 3)>>
WideSub == <<InAll, Bin("minus", 4, 0, 1), Bin("subc", 5, 2, 3)>>

WideMultiply ==
    <<InAll, Plain("mult_u", 0, 0, 1), Plain("multlo", 4, 0, 0), Plain("multhi", 5, 0, 0),
      Plain("product", 6, 0, 3), Statement("update", "plus", 5, 0, 6),
      Plain("product", 6, 2, 1), Statement("update", "plus", 5, 0, 6)>>

\* The absolute value, and the sum of both halves over all lanes.
WideAbs ==
    <<InAll, Plain("copy", 4, 0, 0), Plain("copy", 5, 2, 0), Const(6, 0),
      Bin("lt", 3, 2, 6), Only("WHERE_LT"), Bin("minus", 4, 6, 0), Bin("subc", 5, 6, 2),
      InAll, ReduceU(4), Reduce(5)>>

\* The number of two cells in a lane: of what the kernel has left, and of what
\* it has found.
Pair(high, low, l) == Values * registerFile[high][l] + registerFile[low][l]
PairFound(high, low, l) == Values * kernel.registers[high][l] + kernel.registers[low][l]

ModPair(n) == n % (Values * Values)
Absolute(n) == IF 2 * n < Values * Values THEN n ELSE Values * Values - n

\* Chains of ADD and ADDC, of SUB and SUBC and of the products' halves compute
\* with numbers of two cells: the carry that the first of two instructions
\* leaves is the carry the second one takes, also under a WHERE ("making it
\* work well with the initial value of the Carry flags", executeInstruction(),
\* ConnexSimulator.cpp:853-879).
WideArithmetic ==
    Ended /\ failure = "none" =>
        /\ \A l \in Lanes :
              LET x == PairFound(2, 0, l)  y == PairFound(3, 1, l)  z == Pair(5, 4, l) IN
              /\ kernel.statements = WideAdd => z = ModPair(x + y)
              /\ kernel.statements = WideSub => z = ModPair(x - y)
              /\ kernel.statements = WideMultiply => z = ModPair(x * y)
              /\ kernel.statements = WideAbs => z = Absolute(x)
        /\ kernel.statements = WideAbs =>
              LET wide == [l \in Lanes |->
                             IF Pair(5, 4, l) = (Values * Values) \div 2
                             THEN -Pair(5, 4, l) ELSE Pair(5, 4, l)]
              IN  Values * reductions[2] + reductions[1] = SumOf(LAMBDA l : wide[l], Lanes)

=============================================================================
