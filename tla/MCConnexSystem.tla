--------------------------- MODULE MCConnexSystem ---------------------------
(***************************************************************************)
(* Programs for one thread and for several.                                *)
(***************************************************************************)
EXTENDS SynchronousMachine, TLC

SmallKernels ==
    [copy  |-> <<Instr("IREAD", 2), Instr("IWRITE", 3), Instr("RED", 0)>>,
     after |-> <<Instr("RED", 0), Instr("IREAD", 2), Instr("IWRITE", 3)>>,
     many  |-> <<Instr("VLOAD", 7), Instr("RED", 0), Instr("RED", 0),
                 Instr("RED", 0)>>]

Executes == {ExecuteKernel(name) : name \in {"copy", "after", "many", "none"}}
Reduces == {ReadReductionResults(count) : count \in {1, 2}}
Writes == {WriteDataToConnex(2, <<1>>), WriteDataToConnex(2, <<2, 3>>)}
Reads == {ReadDataFromConnex(3, 1), ReadDataFromConnex(2, 2)}

\* One thread calls.
Only(requests) == [c \in Client |-> IF c = "c1" THEN requests ELSE << >>]

\* All programs of up to three calls, and longer ones that write, execute,
\* reduce, read, and do so again.
ShortPrograms ==
    {Only(requests) :
        requests \in UNION {[1..n -> Executes \cup Reduces \cup Writes \cup Reads] :
                               n \in 1..3}}

RoundPrograms ==
    {Only(<<w, e, r, t, w2, e2, r2, t2>>) :
        w \in Writes, e \in Executes, r \in Reduces, t \in Reads,
        w2 \in Writes, e2 \in {ExecuteKernel("copy"), ExecuteKernel("many")},
        r2 \in {ReadReductionResults(1)}, t2 \in {ReadDataFromConnex(2, 2)}}

SinglePrograms == ShortPrograms \cup RoundPrograms

-----------------------------------------------------------------------------
SharedKernels ==
    [tens     |-> <<Instr("VLOAD", 10), Instr("RED", 0),
                    Instr("VLOAD", 11), Instr("RED", 0)>>,
     twenties |-> <<Instr("VLOAD", 20), Instr("IWRITE", 3), Instr("RED", 0),
                    Instr("VLOAD", 21), Instr("RED", 0)>>,
     fail     |-> <<Instr("VLOAD", 30), Instr("THROW", 0)>>]

TwoResults == ReadReductionResults(2)
Tens == ExecuteKernel("tens")
Twenties == ExecuteKernel("twenties")
Fail == ExecuteKernel("fail")

\* Two threads transfer overlapping rows while a third leaves results unread
\* until its kernel blocks, waits for results that nobody computes, or makes
\* the simulator exit; two threads execute kernels and read results while a
\* third transfers, inside the local store or beyond its end.
SharedPrograms ==
    {[c1 |-> <<WriteDataToConnex(0, <<1, 2>>), ReadDataFromConnex(0, 3)>>,
      c2 |-> <<WriteDataToConnex(1, <<3, 4>>), ReadDataFromConnex(0, 2)>>,
      c3 |-> third] :
        third \in {<<Twenties, Twenties>>, <<TwoResults, Tens>>, <<Fail, Tens>>}}
    \cup
    {[c1 |-> <<Tens, TwoResults>>,
      c2 |-> <<Twenties, TwoResults>>,
      c3 |-> <<WriteDataToConnex(1, <<1, 2>>), last>>] :
        last \in {ReadDataFromConnex(0, 3), ReadDataFromConnex(3, 2)}}

AllKernels == SmallKernels @@ SharedKernels
AllPrograms == SinglePrograms \cup SharedPrograms

-----------------------------------------------------------------------------
FailingPrograms ==
    {[c1 |-> <<Fail>>,
      c2 |-> <<WriteDataToConnex(0, <<1>>), last>>] :
        last \in {ReadDataFromConnex(0, 1), ReadDataFromConnex(0, 2)}}

=============================================================================
