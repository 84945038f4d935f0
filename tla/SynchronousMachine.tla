------------------------- MODULE SynchronousMachine -------------------------
(***************************************************************************)
(* What one thread may expect of its calls: the machine taken to execute a *)
(* kernel before executeKernel() returns.  It does not, so a program has   *)
(* to see to it, by reading reductions, that a kernel is done before it    *)
(* transfers the rows the kernel uses ("execute a reduction so we're sure  *)
(* the software's done executing", tests/src/simple_io_tests.cpp:140); and *)
(* the FIFOs have to be sized for the results it leaves unread             *)
(* (ConnexSimulator.cpp:57-77).                                            *)
(***************************************************************************)
EXTENDS ConnexSystem

-----------------------------------------------------------------------------
\* The machine as calls leave it: a local store, a register, the results not
\* read yet; and what the calls returned.
Fresh ==
    [store |-> [row \in 0..(Rows - 1) |-> Zero], register |-> Zero,
     results |-> << >>, answers |-> << >>]

RunInstr(m, instr) ==
    CASE instr.op = "VLOAD"  -> [m EXCEPT !.register = instr.arg]
      [] instr.op = "IREAD"  -> [m EXCEPT !.register = m.store[instr.arg]]
      [] instr.op = "IWRITE" -> [m EXCEPT !.store[instr.arg] = m.register]
      [] instr.op = "RED"    -> [m EXCEPT !.results = Append(@, m.register)]

Answering(m, answer) == [m EXCEPT !.answers = Append(@, answer)]

\* The machine before the first of the words, and after each.
RunWords(m, words) ==
    LET after[n \in 0..Len(words)] ==
            IF n = 0 THEN m ELSE RunInstr(after[n - 1], words[n])
    IN after

RunCall(m, request) ==
    CASE request.type = "execute" ->
            IF request.kernel \in DOMAIN Kernels
            THEN LET words == Kernels[request.kernel] IN
                 Answering(RunWords(m, words)[Len(words)], Returned(<< >>))
            ELSE Answering(m, Threw)
      [] request.type = "reduce" ->
            LET n == request.count IN
            Answering([m EXCEPT !.results = SubSeq(@, n + 1, Len(@))],
                      Returned(SubSeq(m.results, 1, n)))
      [] request.type = "write" ->
            Answering([m EXCEPT !.store =
                          [row \in 0..(Rows - 1) |->
                              LET i == row - request.row + 1 IN
                              IF i \in 1..Len(request.data) THEN request.data[i]
                              ELSE @[row]]],
                      Returned(<< >>))
      [] request.type = "read" ->
            Answering(m, Returned([i \in 1..request.count |->
                                      m.store[request.row + i - 1]]))

\* The machine before the first of the calls, and after each.
RunCalls(requests) ==
    LET after[n \in 0..Len(requests)] ==
            IF n = 0 THEN Fresh ELSE RunCall(after[n - 1], requests[n])
    IN after

-----------------------------------------------------------------------------
WordsOf(request) ==
    IF request.type = "execute" /\ request.kernel \in DOMAIN Kernels
    THEN Kernels[request.kernel] ELSE << >>

ResultsOf(request) == IF request.type = "reduce" THEN request.count ELSE 0

\* The words that the first n calls send, and the number of results they
\* read, for every n.
WordsSent(requests) ==
    LET words[n \in 0..Len(requests)] ==
            IF n = 0 THEN << >> ELSE words[n - 1] \o WordsOf(requests[n])
    IN words

ResultsRead(requests) ==
    LET count[n \in 0..Len(requests)] ==
            IF n = 0 THEN 0 ELSE count[n - 1] + ResultsOf(requests[n])
    IN count

\* The reductions among the first n words.
Reductions(words, n) == {i \in 1..n : words[i].op = "RED"}

\* The words up to and with the n-th reduction; all of them, if there are
\* fewer reductions.
UpToReduction(words, n) ==
    IF n = 0 THEN 0
    ELSE LET nth == {i \in Reductions(words, Len(words)) :
                        Cardinality(Reductions(words, i)) = n}
         IN IF nth = {} THEN Len(words) ELSE CHOOSE i \in nth : TRUE

\* Of the first calls, as many as last says, no transfer uses a row that an
\* instruction uses which may still be waiting to be executed: one after the
\* last reduction whose result was read.
Synchronised(requests, last) ==
    \A n \in 1..last :
        requests[n].type \in Transfers =>
            LET words == WordsSent(requests)[n - 1]
                first == UpToReduction(words, ResultsRead(requests)[n - 1]) + 1
                rows == requests[n].row ..
                           (requests[n].row + CountOf(requests[n]) - 1)
                uses == IF requests[n].type = "write" THEN {"IREAD", "IWRITE"}
                        ELSE {"IWRITE"}
            IN \A i \in first..Len(words) :
                  words[i].op \in uses => words[i].arg \notin rows

\* Results are read only if computed; and whenever a kernel is sent, the words
\* after the reduction that finds its FIFO full fit the distribution FIFO.
SizedCall(requests, n) ==
    LET words == WordsSent(requests)[n]
        read == ResultsRead(requests)[n]
        blocked == UpToReduction(words, read + ReductionCapacity + 1)
    IN /\ Cardinality(Reductions(words, Len(words))) >= read
       /\ requests[n].type = "execute" =>
             Len(words) - blocked <= DistributionCapacity
       /\ requests[n].type \in Transfers =>
             requests[n].row + CountOf(requests[n]) <= Rows

Sized(requests) == \A n \in 1..Len(requests) : SizedCall(requests, n)

-----------------------------------------------------------------------------
\* No other thread calls anything.
Alone(c) == \A d \in Client \ {c} : program[d] = << >>

\* The calls of a thread that is alone and synchronises answer as if each
\* kernel had been executed before executeKernel() returned, although words,
\* results and rows go through four FIFOs and two threads.
AnswersAreSequential ==
    \A c \in Client :
        LET returned == Len(answers[c]) IN
        Alone(c) /\ Synchronised(program[c], returned) =>
            answers[c] = RunCalls(program[c])[returned].answers

\* "It's blocking, so we need to make it as large as required": a program
\* that the FIFOs are sized for ends.
SizedFinishes == \A c \in Client : Alone(c) /\ Sized(program[c]) ~> Finished(c)

\* And a program that they are not sized for never does: the condition is
\* exact.
FinishedMeansSized == \A c \in Client : Alone(c) /\ Finished(c) => Sized(program[c])

-----------------------------------------------------------------------------
\* The simulator survives these words.
Ends(words) == \A i \in 1..Len(words) : words[i].op # "THROW"

\* The j-th word is the last of the first i that loads the register, and loads
\* a constant.
Loads(words, j, i) ==
    /\ j \in 1..i
    /\ words[j].op = "VLOAD"
    /\ \A k \in (j + 1)..i : words[k].op \notin {"VLOAD", "IREAD"}

\* Words that compute results, from what they have loaded, and let the simulator
\* survive; or no result.
Computes(words, count) ==
    LET last == Len(words) IN
    \/ Cardinality(Reductions(words, last)) = 0
    \/ /\ Cardinality(Reductions(words, last)) = count
       /\ Ends(words)
       /\ \A i \in Reductions(words, last) : \E j \in 1..i : Loads(words, j, i)

\* Of the kernels that are executed, all that compute results compute as many.
KernelsCompute(count) ==
    \A c \in Client : \A n \in 1..Len(program[c]) :
        LET request == program[c][n] IN
        request.type = "execute" /\ request.kernel \in DOMAIN Kernels =>
            Computes(Kernels[request.kernel], count)

\* As many results are read at once.
ReadsAskFor(count) ==
    \A c \in Client : \A n \in 1..Len(program[c]) :
        program[c][n].type = "reduce" => program[c][n].count = count

\* The results of the kernels that a program may execute, each kernel's
\* together.
KernelResults ==
    {RunWords(Fresh, Kernels[name])[Len(Kernels[name])].results :
        name \in {kernel \in DOMAIN Kernels : Ends(Kernels[kernel])}}

\* Threads that execute kernels and read as many results as one computes get
\* the results of one kernel, whole and in order, though not always of their
\* own: neither the words of two kernels nor the results of two reads mix,
\* while FIFOs are full or empty and threads take turns.
ReadsOneKernel ==
    \A c \in Client : \A n \in 1..Len(answers[c]) :
        LET request == program[c][n] IN
        request.type = "reduce" /\ request.count \in Nat \ {0}
        /\ KernelsCompute(request.count) /\ ReadsAskFor(request.count)
            => answers[c][n].data \in KernelResults

=============================================================================
