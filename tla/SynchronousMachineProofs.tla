---------------------- MODULE SynchronousMachineProofs ----------------------
(***************************************************************************)
(* Theorems about calls, for any program, any kernels and FIFOs of any     *)
(* size.  Those of a thread that is alone answer as if kernels were        *)
(* executed before executeKernel() returns, if the program synchronises,   *)
(* and a program ends only if the FIFOs are sized for it.  Threads that    *)
(* share the machine read the results of one kernel at a time.             *)
(***************************************************************************)
EXTENDS SynchronousMachine, ConnexSystemProofs, FiniteSetTheorems, Induction

\* No kernel has an instruction the simulator throws at.  (After a throw the
\* process is gone, and its results with it.)
KernelsRun ==
    \A name \in DOMAIN Kernels : \A i \in 1..Len(Kernels[name]) :
        Kernels[name][i].op # "THROW"

-----------------------------------------------------------------------------
(***************************************************************************)
(* The words of thread c: those of the calls that have returned and of the *)
(* kernel that it is sending, how many of them it has sent, and how many   *)
(* the core thread has fetched.                                            *)
(***************************************************************************)
Returns(c) == Len(answers[c])

WordsBefore(c) == WordsSent(program[c])[Returns(c)]

Words(c) ==
    IF call[c].at = "execute" THEN WordsSent(program[c])[Returns(c) + 1]
    ELSE WordsBefore(c)

SentWords(c) ==
    Len(WordsBefore(c)) + IF call[c].at = "execute" THEN call[c].sent ELSE 0

FetchedWords(c) == SentWords(c) - Len(distribution)

\* The results it has received.
Received(c) == IF call[c].at = "reduce" THEN call[c].got ELSE << >>

ReceivedCount(c) == ResultsRead(program[c])[Returns(c)] + Len(Received(c))

\* The distribution FIFO holds the words that are sent and not fetched, and
\* the results of the reductions that are fetched have been received, are in
\* the reduction FIFO or about to be written to it.  A core thread that is
\* about to write has fetched nothing since.
Counted(c) ==
    /\ SentWords(c) <= Len(Words(c))
    /\ FetchedWords(c) >= 0
    /\ \A i \in 1..Len(distribution) :
          distribution[i] = Words(c)[FetchedWords(c) + i]
    /\ ResultsRead(program[c])[Returns(c)] \in Nat
    /\ Cardinality(Reductions(Words(c), FetchedWords(c)))
          = ReceivedCount(c) + Len(reduction) + Len(reporting)
    /\ reporting # << >> =>
          /\ FetchedWords(c) >= 1
          /\ Words(c)[FetchedWords(c)].op = "RED"

SizedSoFar(c) == \A n \in 1..Returns(c) : SizedCall(program[c], n)

-----------------------------------------------------------------------------
(***************************************************************************)
(* The machine as it is, and the machine that executes kernels at once.    *)
(***************************************************************************)
Machine ==
    [store : [0..(Rows - 1) -> Value], register : Value,
     results : Seq(Value), answers : Seq(Answered)]

\* The actual machine, results the thread has received for the call that it
\* is in included.
Actual(c) ==
    [store |-> localStore, register |-> register,
     results |-> Received(c) \o reduction \o reporting,
     answers |-> answers[c]]

\* The rows of r whose first n are written.
Written(store, r, n) ==
    [row \in 0..(Rows - 1) |->
        IF row \in r.row..(r.row + n - 1) THEN r.data[row - r.row + 1]
        ELSE store[row]]

\* How many rows of its write the I/O thread has written.
RowsWritten(c) ==
    IF io.at = "store" THEN io.row - Current(c).row
    ELSE IF io.at = "ack" \/ ioRead # << >> \/ call[c].got # << >>
    THEN CountOf(Current(c))
    ELSE 0

\* The sequential machine when the calls that have returned are done.
Before(c) == RunCalls(program[c])[Returns(c)]

\* And when what a call under way has sent is executed too, or what the I/O
\* thread has stored of it.
Sequential(c) ==
    CASE call[c].at = "execute" ->
            RunWords(Before(c), Kernels[Current(c).kernel])[call[c].sent]
      [] call[c].at = "write" ->
            [Before(c) EXCEPT !.store = Written(@, Current(c), RowsWritten(c))]
      [] OTHER -> Before(c)

\* When the words still in the distribution FIFO are executed, the actual
\* machine is the sequential one.
Ran(c) == RunWords(Actual(c), distribution)[Len(distribution)] = Sequential(c)

\* A read has the rows of the sequential machine.
RowsRead(c) ==
    call[c].at = "read" =>
        LET rows == call[c].got \o ioRead IN
        \A j \in 1..Len(rows) :
            rows[j] = Before(c).store[Current(c).row + j - 1]

\* The I/O thread has the rows of a write that it is still to store.
RowsToStore(c) ==
    call[c].at = "write" /\ io.at = "store" =>
        /\ Current(c).row <= io.row
        /\ \A j \in 1..Len(io.rows) :
              io.rows[j] = Current(c).data[io.row - Current(c).row + j]

InStep(c) ==
    /\ Before(c) \in Machine
    /\ Ran(c)
    /\ RowsRead(c)
    /\ RowsToStore(c)

Begun(c) == Returns(c) + (IF call[c].at = "idle" THEN 0 ELSE 1)

SequentialSoFar(c) == Synchronised(program[c], Begun(c)) => InStep(c)

-----------------------------------------------------------------------------
(***************************************************************************)
(* The recursive functions.                                                *)
(***************************************************************************)
\* What a function that runs the first last words has to be.
WordsRun(f, m, words, last) ==
    f = [n \in 0..last |-> IF n = 0 THEN m ELSE RunInstr(f[n - 1], words[n])]

\* For any number of words there is one: RunWords is what the recursion over
\* the words of a kernel says.
LEMMA WordsRunExists ==
    ASSUME NEW m, NEW words
    PROVE  \A last \in Nat : \E f : WordsRun(f, m, words, last)
  <1> DEFINE T == {last \in Nat : \E f : WordsRun(f, m, words, last)}
  <1>1. 0 \in T
    <2>1. WordsRun([n \in 0..0 |-> m], m, words, 0)
      BY DEF WordsRun
    <2> QED BY <2>1
  <1>2. ASSUME NEW last \in Nat, last \in T PROVE last + 1 \in T
    <2>1. PICK f : WordsRun(f, m, words, last)
      BY <1>2
    <2>2. \A n \in 0..last :
              f[n] = IF n = 0 THEN m ELSE RunInstr(f[n - 1], words[n])
      BY <2>1 DEF WordsRun
    <2> DEFINE g == [n \in 0..(last + 1) |->
                        IF n <= last THEN f[n] ELSE RunInstr(f[last], words[n])]
    <2>3. \A n \in 0..(last + 1) :
              g[n] = IF n = 0 THEN m ELSE RunInstr(g[n - 1], words[n])
      BY <2>2
    <2>4. WordsRun(g, m, words, last + 1)
      BY <2>3 DEF WordsRun
    <2> QED BY <2>4
  <1>3. \A last \in Nat : last \in T
    <2> HIDE DEF T
    <2> QED BY <1>1, <1>2, SetInduction
  <1> QED BY <1>3

\* The machine before the first word is m, and each word takes it one further.
LEMMA RunWordsSteps ==
    ASSUME NEW m, NEW words, Len(words) \in Nat
    PROVE  /\ DOMAIN RunWords(m, words) = 0..Len(words)
           /\ RunWords(m, words)[0] = m
           /\ \A n \in 1..Len(words) :
                  RunWords(m, words)[n]
                      = RunInstr(RunWords(m, words)[n - 1], words[n])
  <1>1. WordsRun(RunWords(m, words), m, words, Len(words))
    BY WordsRunExists DEF WordsRun, RunWords
  <1> DEFINE f == RunWords(m, words)
  <1>2. f = [n \in 0..Len(words) |->
                IF n = 0 THEN m ELSE RunInstr(f[n - 1], words[n])]
    BY <1>1 DEF WordsRun
  <1> HIDE DEF f
  <1>3. /\ DOMAIN f = 0..Len(words)
        /\ f[0] = m
        /\ \A n \in 1..Len(words) : f[n] = RunInstr(f[n - 1], words[n])
    BY <1>2
  <1> QED BY <1>3 DEF f

\* A function that takes the machine one further with each word ends where
\* RunWords ends.
LEMMA RunWordsUnique ==
    ASSUME NEW m, NEW words, Len(words) \in Nat, NEW t, t[0] = m,
           \A n \in 1..Len(words) : t[n] = RunInstr(t[n - 1], words[n])
    PROVE  \A n \in 0..Len(words) : RunWords(m, words)[n] = t[n]
  <1> DEFINE f == RunWords(m, words)
             T == {n \in Nat : f[n] = t[n]}
  <1>1. f[0] = m /\ \A n \in 1..Len(words) : f[n] = RunInstr(f[n - 1], words[n])
    BY RunWordsSteps
  <1> HIDE DEF f
  <1>2. 0 \in T
    BY <1>1
  <1>3. ASSUME NEW n \in 0..(Len(words) - 1), n \in T PROVE n + 1 \in T
    <2>1. n + 1 \in 1..Len(words) /\ (n + 1) - 1 = n
      OBVIOUS
    <2> QED BY <2>1, <1>1, <1>3
  <1>4. \A n \in 0..Len(words) : n \in T
    <2> HIDE DEF T
    <2> QED BY <1>2, <1>3, BoundedInduction
  <1> QED BY <1>4 DEF f

\* The same for the calls.
CallsRun(f, requests, last) ==
    f = [n \in 0..last |-> IF n = 0 THEN Fresh ELSE RunCall(f[n - 1], requests[n])]

\* There is one for any number of calls.
LEMMA CallsRunExists ==
    ASSUME NEW requests
    PROVE  \A last \in Nat : \E f : CallsRun(f, requests, last)
  <1> DEFINE T == {last \in Nat : \E f : CallsRun(f, requests, last)}
  <1>1. 0 \in T
    <2>1. CallsRun([n \in 0..0 |-> Fresh], requests, 0)
      BY DEF CallsRun
    <2> QED BY <2>1
  <1>2. ASSUME NEW last \in Nat, last \in T PROVE last + 1 \in T
    <2>1. PICK f : CallsRun(f, requests, last)
      BY <1>2
    <2>2. \A n \in 0..last :
              f[n] = IF n = 0 THEN Fresh ELSE RunCall(f[n - 1], requests[n])
      BY <2>1 DEF CallsRun
    <2> DEFINE g == [n \in 0..(last + 1) |->
                        IF n <= last THEN f[n] ELSE RunCall(f[last], requests[n])]
    <2>3. \A n \in 0..(last + 1) :
              g[n] = IF n = 0 THEN Fresh ELSE RunCall(g[n - 1], requests[n])
      BY <2>2
    <2>4. CallsRun(g, requests, last + 1)
      BY <2>3 DEF CallsRun
    <2> QED BY <2>4
  <1>3. \A last \in Nat : last \in T
    <2> HIDE DEF T
    <2> QED BY <1>1, <1>2, SetInduction
  <1> QED BY <1>3

\* So RunCalls runs one call after the other.
LEMMA RunCallsSteps ==
    ASSUME NEW requests, Len(requests) \in Nat
    PROVE  /\ RunCalls(requests)[0] = Fresh
           /\ \A n \in 1..Len(requests) :
                  RunCalls(requests)[n] = RunCall(RunCalls(requests)[n - 1], requests[n])
  <1>1. CallsRun(RunCalls(requests), requests, Len(requests))
    BY CallsRunExists DEF CallsRun, RunCalls
  <1> DEFINE f == RunCalls(requests)
  <1>2. f = [n \in 0..Len(requests) |->
                IF n = 0 THEN Fresh ELSE RunCall(f[n - 1], requests[n])]
    BY <1>1 DEF CallsRun
  <1> HIDE DEF f
  <1>3. /\ f[0] = Fresh
        /\ \A n \in 1..Len(requests) : f[n] = RunCall(f[n - 1], requests[n])
    BY <1>2
  <1> QED BY <1>3 DEF f

\* The words the calls send, and how many results they read.
WordsAdded(f, requests, last) ==
    f = [n \in 0..last |-> IF n = 0 THEN << >> ELSE f[n - 1] \o WordsOf(requests[n])]

\* There is one for any number of calls.
LEMMA WordsAddedExists ==
    ASSUME NEW requests
    PROVE  \A last \in Nat : \E f : WordsAdded(f, requests, last)
  <1> DEFINE T == {last \in Nat : \E f : WordsAdded(f, requests, last)}
  <1>1. 0 \in T
    <2>1. WordsAdded([n \in 0..0 |-> << >>], requests, 0)
      BY DEF WordsAdded
    <2> QED BY <2>1
  <1>2. ASSUME NEW last \in Nat, last \in T PROVE last + 1 \in T
    <2>1. PICK f : WordsAdded(f, requests, last)
      BY <1>2
    <2>2. \A n \in 0..last :
              f[n] = IF n = 0 THEN << >> ELSE f[n - 1] \o WordsOf(requests[n])
      BY <2>1 DEF WordsAdded
    <2> DEFINE g == [n \in 0..(last + 1) |->
                        IF n <= last THEN f[n] ELSE f[last] \o WordsOf(requests[n])]
    <2>3. \A n \in 0..(last + 1) :
              g[n] = IF n = 0 THEN << >> ELSE g[n - 1] \o WordsOf(requests[n])
      BY <2>2
    <2>4. WordsAdded(g, requests, last + 1)
      BY <2>3 DEF WordsAdded
    <2> QED BY <2>4
  <1>3. \A last \in Nat : last \in T
    <2> HIDE DEF T
    <2> QED BY <1>1, <1>2, SetInduction
  <1> QED BY <1>3

\* So WordsSent adds the words of one call after the other, as SendWord puts
\* them into the FIFO.
LEMMA WordsSentSteps ==
    ASSUME NEW requests, Len(requests) \in Nat
    PROVE  /\ WordsSent(requests)[0] = << >>
           /\ \A n \in 1..Len(requests) :
                  WordsSent(requests)[n]
                      = WordsSent(requests)[n - 1] \o WordsOf(requests[n])
           /\ \A n \in 0..Len(requests) : WordsSent(requests)[n] \in Seq(Word)
  <1>1. WordsAdded(WordsSent(requests), requests, Len(requests))
    BY WordsAddedExists DEF WordsAdded, WordsSent
  <1> DEFINE f == WordsSent(requests)
             T == {n \in Nat : f[n] \in Seq(Word)}
             longer(n) == f[n - 1] \o WordsOf(requests[n])
  <1>0. << >> \in Seq(Word)
    OBVIOUS
  <1>2. f = [n \in 0..Len(requests) |->
                IF n = 0 THEN << >> ELSE longer(n)]
    BY <1>1 DEF WordsAdded
  <1> HIDE DEF f
  <1>3. /\ f[0] = << >>
        /\ \A n \in 1..Len(requests) : f[n] = f[n - 1] \o WordsOf(requests[n])
    <2> HIDE DEF longer
    <2>1. /\ f[0] = << >>
          /\ \A n \in 1..Len(requests) : f[n] = longer(n)
      BY <1>2
    <2> QED BY <2>1 DEF longer
  <1>4. 0 \in T
    <2>1. f[0] \in Seq(Word)
      BY <1>0, <1>3
    <2> QED BY <2>1
  <1>5. ASSUME NEW n \in 0..(Len(requests) - 1), n \in T PROVE n + 1 \in T
    <2>1. n + 1 \in 1..Len(requests) /\ (n + 1) - 1 = n
      OBVIOUS
    <2>2. f[n + 1] = f[n] \o WordsOf(requests[n + 1])
      BY <2>1, <1>3
    <2>3. WordsOf(requests[n + 1]) \in Seq(Word)
      <3>1. CASE WordsOf(requests[n + 1]) = << >>
        BY <3>1, <1>0
      <3>2. CASE /\ requests[n + 1].kernel \in DOMAIN Kernels
                 /\ WordsOf(requests[n + 1]) = Kernels[requests[n + 1].kernel]
        BY <3>2, KernelsAssumption
      <3> QED BY <3>1, <3>2 DEF WordsOf
    <2>4. \A a, b \in Seq(Word) : a \o b \in Seq(Word)
      OBVIOUS
    <2>5. f[n + 1] \in Seq(Word)
      BY <1>5, <2>2, <2>3, <2>4
    <2> QED BY <2>5
  <1>6. \A n \in 0..Len(requests) : n \in T
    <2> HIDE DEF T
    <2> QED BY <1>4, <1>5, BoundedInduction
  <1> QED BY <1>3, <1>6 DEF f

\* The sums of what the calls read.
ResultsAdded(f, requests, last) ==
    f = [n \in 0..last |-> IF n = 0 THEN 0 ELSE f[n - 1] + ResultsOf(requests[n])]

\* There is one for any number of calls.
LEMMA ResultsAddedExists ==
    ASSUME NEW requests
    PROVE  \A last \in Nat : \E f : ResultsAdded(f, requests, last)
  <1> DEFINE T == {last \in Nat : \E f : ResultsAdded(f, requests, last)}
  <1>1. 0 \in T
    <2>1. ResultsAdded([n \in 0..0 |-> 0], requests, 0)
      BY DEF ResultsAdded
    <2> QED BY <2>1
  <1>2. ASSUME NEW last \in Nat, last \in T PROVE last + 1 \in T
    <2>1. PICK f : ResultsAdded(f, requests, last)
      BY <1>2
    <2>2. \A n \in 0..last :
              f[n] = IF n = 0 THEN 0 ELSE f[n - 1] + ResultsOf(requests[n])
      BY <2>1 DEF ResultsAdded
    <2> DEFINE g == [n \in 0..(last + 1) |->
                        IF n <= last THEN f[n] ELSE f[last] + ResultsOf(requests[n])]
    <2>3. \A n \in 0..(last + 1) :
              g[n] = IF n = 0 THEN 0 ELSE g[n - 1] + ResultsOf(requests[n])
      BY <2>2
    <2>4. ResultsAdded(g, requests, last + 1)
      BY <2>3 DEF ResultsAdded
    <2> QED BY <2>4
  <1>3. \A last \in Nat : last \in T
    <2> HIDE DEF T
    <2> QED BY <1>1, <1>2, SetInduction
  <1> QED BY <1>3

\* So ResultsRead adds up what one call after the other reads.
LEMMA ResultsReadSteps ==
    ASSUME NEW requests, Len(requests) \in Nat
    PROVE  /\ ResultsRead(requests)[0] = 0
           /\ \A n \in 1..Len(requests) :
                  ResultsRead(requests)[n]
                      = ResultsRead(requests)[n - 1] + ResultsOf(requests[n])
  <1>1. ResultsAdded(ResultsRead(requests), requests, Len(requests))
    BY ResultsAddedExists DEF ResultsAdded, ResultsRead
  <1> DEFINE f == ResultsRead(requests)
  <1>2. f = [n \in 0..Len(requests) |->
                IF n = 0 THEN 0 ELSE f[n - 1] + ResultsOf(requests[n])]
    BY <1>1 DEF ResultsAdded
  <1> HIDE DEF f
  <1>3. /\ f[0] = 0
        /\ \A n \in 1..Len(requests) : f[n] = f[n - 1] + ResultsOf(requests[n])
    BY <1>2
  <1> QED BY <1>3 DEF f

-----------------------------------------------------------------------------
(***************************************************************************)
(* Counting reductions.                                                    *)
(***************************************************************************)
\* Each word is a reduction or not.
LEMMA ReductionsNext ==
    ASSUME NEW words, NEW n \in Nat
    PROVE  /\ Cardinality(Reductions(words, n)) \in Nat
           /\ Cardinality(Reductions(words, n + 1))
                  = Cardinality(Reductions(words, n))
                    + IF words[n + 1].op = "RED" THEN 1 ELSE 0
  <1>1. IsFiniteSet(1..n)
    BY FS_Interval
  <1>2. Reductions(words, n) \subseteq 1..n
    BY DEF Reductions
  <1>3. IsFiniteSet(Reductions(words, n))
    BY <1>1, <1>2, FS_Subset
  <1>4. Cardinality(Reductions(words, n)) \in Nat
    BY <1>3, FS_CardinalityType
  <1>5. CASE words[n + 1].op = "RED"
    <2>1. Reductions(words, n + 1) = Reductions(words, n) \cup {n + 1}
      BY <1>5 DEF Reductions
    <2>2. n + 1 \notin Reductions(words, n)
      BY DEF Reductions
    <2> QED BY <1>3, <1>4, <1>5, <2>1, <2>2, FS_AddElement
  <1>6. CASE words[n + 1].op # "RED"
    <2>1. Reductions(words, n + 1) = Reductions(words, n)
      BY <1>6 DEF Reductions
    <2> QED BY <1>4, <1>6, <2>1
  <1> QED BY <1>4, <1>5, <1>6

\* More words have no fewer reductions, and no words have none.
LEMMA ReductionsGrow ==
    ASSUME NEW words, NEW n \in Nat, NEW k \in 0..n
    PROVE  /\ Cardinality(Reductions(words, k)) <= Cardinality(Reductions(words, n))
           /\ Cardinality(Reductions(words, 0)) = 0
  <1>1. IsFiniteSet(Reductions(words, n))
    <2>1. Reductions(words, n) \subseteq 1..n
      BY DEF Reductions
    <2> QED BY <2>1, FS_Interval, FS_Subset
  <1>2. Reductions(words, k) \subseteq Reductions(words, n)
    BY DEF Reductions
  <1>3. Cardinality(Reductions(words, k)) <= Cardinality(Reductions(words, n))
    BY <1>1, <1>2, FS_Subset
  <1>4. Reductions(words, 0) = {}
    BY DEF Reductions
  <1> QED BY <1>3, <1>4, FS_EmptySet

\* Where as many reductions are counted as n, the n-th is no later.
LEMMA UpToReached ==
    ASSUME NEW words, Len(words) \in Nat, NEW f \in 0..Len(words), NEW n \in Nat,
           Cardinality(Reductions(words, f)) >= n
    PROVE  UpToReduction(words, n) \in 0..f
  <1> DEFINE count(i) == Cardinality(Reductions(words, i))
             nth == {i \in Reductions(words, Len(words)) : count(i) = n}
             T == {i \in Nat : count(i) >= n}
  <1>1. CASE n = 0
    BY <1>1 DEF UpToReduction
  <1>2. CASE n # 0
    <2>1. \A i \in Nat : count(i) \in Nat
      BY ReductionsNext
    <2>2. \A i \in Nat : count(i + 1) = count(i) + IF words[i + 1].op = "RED" THEN 1 ELSE 0
      BY ReductionsNext
    <2>3. count(0) = 0 /\ count(f) >= n
      BY ReductionsGrow
    <2>4. \A i \in Nat : \A k \in 0..i : count(k) <= count(i)
      BY ReductionsGrow
    <2> HIDE DEF count
    <2>5. PICK q \in T : \A i \in T : q <= i
      <3>1. T \subseteq Nat /\ f \in T
        BY <2>3
      <3> HIDE DEF T
      <3> QED BY <3>1, LeastNumber
    <2>6. q # 0 /\ q <= f
      BY <1>2, <2>3, <2>5
    <2>7. q - 1 \in Nat /\ count(q - 1) < n
      <3>1. q - 1 \in Nat /\ q - 1 \notin T
        BY <2>5, <2>6
      <3> QED BY <3>1, <2>1
    <2>8. count(q) = n /\ words[q].op = "RED"
      <3>1. (q - 1) + 1 = q
        BY <2>5
      <3>2. count(q) = count(q - 1) + IF words[q].op = "RED" THEN 1 ELSE 0
        BY <3>1, <2>2, <2>7
      <3>3. count(q) >= n /\ count(q) \in Nat /\ count(q - 1) \in Nat
        BY <2>1, <2>5, <2>7
      <3> QED BY <3>2, <3>3, <2>7
    <2>9. q \in nth
      BY <2>6, <2>8, <2>5 DEF Reductions
    <2>10. ASSUME NEW i \in nth PROVE i \in 1..f
      <3>1. i \in 1..Len(words) /\ words[i].op = "RED" /\ count(i) = n
        BY <2>10 DEF Reductions
      <3>2. i - 1 \in Nat /\ (i - 1) + 1 = i
        BY <3>1
      <3>3. count(i - 1) = n - 1
        <4>1. count((i - 1) + 1)
                  = count(i - 1) + IF words[(i - 1) + 1].op = "RED" THEN 1 ELSE 0
          BY <3>2, <2>2
        <4>2. count(i - 1) \in Nat /\ count(i) = count(i - 1) + 1
          BY <4>1, <3>1, <3>2, <2>1
        <4> QED BY <4>2, <3>1
      <3>4. ASSUME i > f PROVE FALSE
        <4>1. count(f) <= count(i - 1)
          BY <3>1, <3>2, <3>4, <2>4
        <4> QED BY <4>1, <3>3, <2>1, <2>3
      <3> QED BY <3>1, <3>4
    <2>11. UpToReduction(words, n) = CHOOSE i \in nth : TRUE
      BY <1>2, <2>9 DEF UpToReduction, count
    <2>12. (CHOOSE i \in nth : TRUE) \in nth
      BY <2>9
    <2> QED BY <2>10, <2>11, <2>12
  <1> QED BY <1>1, <1>2

\* Where no more reductions are counted than n, and the last word is the n-th
\* if they are as many, the n-th is no earlier.
LEMMA UpToPassed ==
    ASSUME NEW words, Len(words) \in Nat, NEW f \in 0..Len(words), NEW n \in Nat \ {0},
           Cardinality(Reductions(words, f)) <= n,
           Cardinality(Reductions(words, f)) = n => f >= 1 /\ words[f].op = "RED"
    PROVE  UpToReduction(words, n) \in f..Len(words)
  <1> DEFINE count(i) == Cardinality(Reductions(words, i))
             nth == {i \in Reductions(words, Len(words)) : count(i) = n}
  <1>1. CASE nth = {}
    BY <1>1 DEF UpToReduction
  <1>2. CASE nth # {}
    <2>1. \A i \in Nat : count(i) \in Nat
      BY ReductionsNext
    <2>2. \A i \in Nat : count(i + 1) = count(i) + IF words[i + 1].op = "RED" THEN 1 ELSE 0
      BY ReductionsNext
    <2>4. \A i \in Nat : \A k \in 0..i : count(k) <= count(i)
      BY ReductionsGrow
    <2>5. count(f) <= n /\ (count(f) = n => f >= 1 /\ words[f].op = "RED")
      OBVIOUS
    <2>6. UpToReduction(words, n) = CHOOSE i \in nth : TRUE
      BY <1>2 DEF UpToReduction
    <2> HIDE DEF count
    <2>7. PICK q : q = CHOOSE i \in nth : TRUE
      OBVIOUS
    <2>8. q \in 1..Len(words) /\ count(q) = n
      BY <1>2, <2>7 DEF Reductions
    <2>9. ASSUME q < f PROVE FALSE
      <3>1. count(q) <= count(f)
        BY <2>4, <2>8, <2>9
      <3>2. count(f) = n
        BY <3>1, <2>1, <2>5, <2>8
      <3>3. PICK e \in Nat : f = e + 1
        BY <2>8, <2>9
      <3>4. words[e + 1].op = "RED"
        BY <3>2, <3>3, <2>5
      <3>5. count(e + 1) = count(e) + 1
        BY <3>4, <2>2
      <3>6. count(q) <= count(e)
        BY <3>3, <2>4, <2>8, <2>9
      <3>7. count(e) \in Nat /\ count(e) + 1 = n /\ n <= count(e)
        BY <3>2, <3>3, <3>5, <3>6, <2>1, <2>8
      <3> QED BY <3>7
    <2> QED BY <2>6, <2>7, <2>8, <2>9
  <1> QED BY <1>1, <1>2

\* Only the words counted matter.
LEMMA ReductionsSame ==
    ASSUME NEW words, NEW others, NEW n \in Nat, \A i \in 1..n : words[i] = others[i]
    PROVE  Reductions(words, n) = Reductions(others, n)
  BY DEF Reductions

-----------------------------------------------------------------------------
(***************************************************************************)
(* Words and results are counted rightly.                                  *)
(***************************************************************************)
\* Where thread c is in its program.
LEMMA CallFacts ==
    ASSUME IInv, NEW c \in Client
    PROVE  /\ Len(program[c]) \in Nat
           /\ Returns(c) \in 0..Len(program[c])
           /\ call[c] \in CallState /\ call[c].sent \in Nat
           /\ call[c].got \in Seq(Value) /\ Received(c) \in Seq(Value)
           /\ answers[c] \in Seq(Answered)
           /\ WordsBefore(c) \in Seq(Word)
           /\ Words(c) \in Seq(Word)
           /\ SentWords(c) \in Nat /\ Len(distribution) \in Nat
           /\ call[c].at # "idle" => ~Finished(c) /\ Current(c).type = call[c].at
           /\ call[c].at = "execute" =>
                 /\ Current(c).kernel \in DOMAIN Kernels
                 /\ Kernels[Current(c).kernel] \in Seq(Word)
                 /\ Words(c) = WordsBefore(c) \o Kernels[Current(c).kernel]
  <1>1. HostOK /\ PipesOK
    BY DEF IInv, TypeOK
  <1>2. program[c] \in Seq(Requests) /\ answers[c] \in Seq(Answered)
    BY <1>1, ClientAssumption DEF HostOK
  <1>3. /\ Len(program[c]) \in Nat /\ Len(answers[c]) \in Nat
        /\ Len(answers[c]) <= Len(program[c])
    BY <1>1, <1>2 DEF HostOK
  <1>4. Returns(c) \in 0..Len(program[c])
    BY <1>3 DEF Returns
  <1>5. /\ call[c] \in CallState /\ call[c].sent \in Nat
        /\ call[c].got \in Seq(Value)
    BY <1>1 DEF HostOK, CallState
  <1>6. Received(c) \in Seq(Value)
    <2>1. << >> \in Seq(Value)
      OBVIOUS
    <2> QED BY <2>1, <1>5 DEF Received
  <1>7. WordsBefore(c) \in Seq(Word)
    BY <1>3, <1>4, WordsSentSteps DEF WordsBefore
  <1>8. call[c].at # "idle" => ~Finished(c) /\ Current(c).type = call[c].at
    BY DEF IInv, Calling
  <1>9. ASSUME call[c].at = "execute"
        PROVE  /\ Current(c).kernel \in DOMAIN Kernels
               /\ Kernels[Current(c).kernel] \in Seq(Word)
               /\ Words(c) = WordsBefore(c) \o Kernels[Current(c).kernel]
               /\ Words(c) \in Seq(Word)
    <2>1. Current(c).kernel \in DOMAIN Kernels
      BY <1>9 DEF IInv, Calling
    <2>2. Kernels[Current(c).kernel] \in Seq(Word)
      BY <2>1, KernelsAssumption
    <2>3. ~Finished(c) /\ Current(c).type = "execute"
      BY <1>8, <1>9
    <2>4. Returns(c) + 1 \in 1..Len(program[c]) /\ (Returns(c) + 1) - 1 = Returns(c)
      BY <2>3, <1>3 DEF Returns, Finished
    <2>5. WordsSent(program[c])[Returns(c) + 1]
              = WordsBefore(c) \o WordsOf(program[c][Returns(c) + 1])
      BY <2>4, <1>3, WordsSentSteps DEF WordsBefore
    <2>6. program[c][Returns(c) + 1] = Current(c)
      BY DEF Returns, Current
    <2>7. WordsOf(Current(c)) = Kernels[Current(c).kernel]
      BY <2>1, <2>3 DEF WordsOf
    <2>8. Words(c) = WordsBefore(c) \o Kernels[Current(c).kernel]
      BY <1>9, <2>5, <2>6, <2>7 DEF Words
    <2>9. Words(c) \in Seq(Word)
      <3>1. \A a, b \in Seq(Word) : a \o b \in Seq(Word)
        OBVIOUS
      <3> QED BY <3>1, <1>7, <2>2, <2>8
    <2> QED BY <2>1, <2>2, <2>8, <2>9
  <1>10. Words(c) \in Seq(Word)
    BY <1>7, <1>9 DEF Words
  <1>11. SentWords(c) \in Nat
    <2>1. Len(WordsBefore(c)) \in Nat
      BY <1>7
    <2> QED BY <2>1, <1>5 DEF SentWords
  <1>12. Len(distribution) \in Nat
    BY <1>1 DEF PipesOK
  <1> QED BY <1>2, <1>3, <1>4, <1>5, <1>6, <1>7, <1>8, <1>9, <1>10, <1>11, <1>12

\* What a call adds when it has returned.
LEMMA NextCallFacts ==
    ASSUME IInv, NEW c \in Client, ~Finished(c)
    PROVE  /\ Returns(c) + 1 \in 1..Len(program[c])
           /\ Current(c) = program[c][Returns(c) + 1]
           /\ WordsSent(program[c])[Returns(c) + 1]
                  = WordsBefore(c) \o WordsOf(Current(c))
           /\ WordsSent(program[c])[Returns(c) + 1] \in Seq(Word)
           /\ ResultsRead(program[c])[Returns(c) + 1]
                  = ResultsRead(program[c])[Returns(c)] + ResultsOf(Current(c))
           /\ RunCalls(program[c])[Returns(c) + 1]
                  = RunCall(RunCalls(program[c])[Returns(c)], Current(c))
  <1>1. Len(program[c]) \in Nat /\ Returns(c) \in 0..Len(program[c])
    BY CallFacts
  <1>2. Returns(c) + 1 \in 1..Len(program[c]) /\ (Returns(c) + 1) - 1 = Returns(c)
    BY <1>1 DEF Returns, Finished
  <1>3. Current(c) = program[c][Returns(c) + 1]
    BY DEF Returns, Current
  <1>4. WordsSent(program[c])[Returns(c) + 1] = WordsBefore(c) \o WordsOf(Current(c))
    BY <1>1, <1>2, <1>3, WordsSentSteps DEF WordsBefore
  <1>5. ResultsRead(program[c])[Returns(c) + 1]
            = ResultsRead(program[c])[Returns(c)] + ResultsOf(Current(c))
    BY <1>1, <1>2, <1>3, ResultsReadSteps
  <1>6. RunCalls(program[c])[Returns(c) + 1]
            = RunCall(RunCalls(program[c])[Returns(c)], Current(c))
    BY <1>1, <1>2, <1>3, RunCallsSteps
  <1>7. WordsSent(program[c])[Returns(c) + 1] \in Seq(Word)
    <2>1. Returns(c) + 1 \in 0..Len(program[c])
      BY <1>1, <1>2
    <2> QED BY <1>1, <2>1, WordsSentSteps
  <1> QED BY <1>2, <1>3, <1>4, <1>5, <1>6, <1>7

\* A step that changes none of what is counted.
LEMMA CountedKept ==
    ASSUME NEW c \in Client, Counted(c),
           Words(c)' = Words(c), SentWords(c)' = SentWords(c),
           (ResultsRead(program[c])[Returns(c)])' \in Nat,
           ReceivedCount(c)' = ReceivedCount(c),
           UNCHANGED <<distribution, reduction, reporting>>
    PROVE  Counted(c)'
  <1>1. FetchedWords(c)' = FetchedWords(c)
    BY DEF FetchedWords
  <1> QED BY <1>1 DEF Counted

\* What is counted says that the FIFOs are sized for what has been sent, once
\* a kernel is sent as a whole.
LEMMA SizedNow ==
    ASSUME IInv, NEW c \in Client, Counted(c), SentWords(c) = Len(Words(c))
    PROVE  /\ Cardinality(Reductions(Words(c), Len(Words(c)))) >= ReceivedCount(c)
           /\ Len(Words(c)) - UpToReduction(Words(c),
                                            ReceivedCount(c) + ReductionCapacity + 1)
                  <= DistributionCapacity
  <1> DEFINE words == Words(c)
             f == FetchedWords(c)
             n == ReceivedCount(c) + ReductionCapacity + 1
  <1>1. /\ words \in Seq(Word) /\ Len(words) \in Nat
        /\ SentWords(c) \in Nat /\ Len(distribution) \in Nat
        /\ Len(Received(c)) \in Nat
    <2>1. words \in Seq(Word) /\ Received(c) \in Seq(Value)
      BY CallFacts
    <2> QED BY <2>1, CallFacts
  <1>2. /\ Len(distribution) <= DistributionCapacity
        /\ Len(reduction) \in Nat /\ Len(reduction) <= ReductionCapacity
        /\ Len(reporting) \in Nat /\ Len(reporting) <= 1
        /\ Len(reporting) = 1 => reporting # << >>
    <2>1. reduction \in Seq(Value) /\ reporting \in Seq(Value) /\ Len(reporting) <= 1
      BY DEF IInv, TypeOK, PipesOK, ThreadsOK
    <2>2. Len(reduction) \in Nat /\ Len(reporting) \in Nat
      BY <2>1
    <2>3. reporting = << >> => Len(reporting) = 0
      OBVIOUS
    <2>4. /\ Len(distribution) <= DistributionCapacity
          /\ Len(reduction) <= ReductionCapacity
      BY DEF IInv, TypeOK, PipesOK
    <2>5. Len(reporting) = 1 => Len(reporting) # 0
      OBVIOUS
    <2> QED BY <2>1, <2>2, <2>3, <2>4, <2>5
  <1>3. ReceivedCount(c) \in Nat
    BY <1>1 DEF Counted, ReceivedCount
  <1>4. f \in 0..Len(words) /\ f = Len(words) - Len(distribution)
    BY <1>1 DEF Counted, FetchedWords
  <1>5. /\ Cardinality(Reductions(words, f))
              = ReceivedCount(c) + Len(reduction) + Len(reporting)
        /\ reporting # << >> => f >= 1 /\ words[f].op = "RED"
    BY DEF Counted
  <1> HIDE DEF words, f
  <1>6. ReductionCapacity \in Nat
    BY PipesAssumption
  <1>7. Cardinality(Reductions(words, Len(words))) >= ReceivedCount(c)
    <2>1. Cardinality(Reductions(words, f)) <= Cardinality(Reductions(words, Len(words)))
      BY <1>1, <1>4, ReductionsGrow
    <2>2. Cardinality(Reductions(words, Len(words))) \in Nat
      BY <1>1, ReductionsNext
    <2> QED BY <1>2, <1>3, <1>5, <2>1, <2>2
  <1>8. n \in Nat \ {0}
    BY <1>3, <1>6
  <1>9. /\ Cardinality(Reductions(words, f)) <= n
        /\ Cardinality(Reductions(words, f)) = n => f >= 1 /\ words[f].op = "RED"
    <2>1. \A r, a, b, size \in Nat :
              a <= size /\ b <= 1 =>
                  /\ r + a + b <= r + size + 1
                  /\ r + a + b = r + size + 1 => b = 1
      OBVIOUS
    <2>2. /\ Cardinality(Reductions(words, f)) <= n
          /\ Cardinality(Reductions(words, f)) = n => Len(reporting) = 1
      BY <2>1, <1>2, <1>3, <1>5, <1>6
    <2> QED BY <2>2, <1>2, <1>5
  <1> HIDE DEF n
  <1>10. UpToReduction(words, n) \in f..Len(words)
    BY <1>1, <1>4, <1>8, <1>9, UpToPassed
  <1>11. DistributionCapacity \in Nat
    BY PipesAssumption
  <1>12. Len(words) - UpToReduction(words, n) <= DistributionCapacity
    BY <1>1, <1>2, <1>4, <1>10, <1>11
  <1> QED BY <1>7, <1>12 DEF words, n

\* A call that returns is sized for, if what it was counted for is what its
\* thread has sent and received now.
LEMMA SizedNext ==
    ASSUME IInv, NEW c \in Client, Counted(c), SizedSoFar(c), ~Finished(c),
           SentWords(c) = Len(Words(c)),
           Words(c) = WordsSent(program[c])[Returns(c) + 1],
           ReceivedCount(c) = ResultsRead(program[c])[Returns(c) + 1],
           Current(c).type \in Transfers => Current(c).row + CountOf(Current(c)) <= Rows
    PROVE  \A n \in 1..(Returns(c) + 1) : SizedCall(program[c], n)
  <1>1. SizedCall(program[c], Returns(c) + 1)
    BY SizedNow, NextCallFacts DEF SizedCall
  <1>2. Returns(c) \in Nat
    BY CallFacts
  <1> QED BY <1>1, <1>2 DEF SizedSoFar

\* A call that returns has been counted for already.
LEMMA ReturnCounted ==
    ASSUME IInv, NEW c \in Client, Counted(c), SizedSoFar(c), ~Finished(c),
           SentWords(c) = Len(Words(c)),
           Words(c) = WordsSent(program[c])[Returns(c) + 1],
           ReceivedCount(c) = ResultsRead(program[c])[Returns(c) + 1],
           Current(c).type \in Transfers => Current(c).row + CountOf(Current(c)) <= Rows,
           call'[c] = Idle, Returns(c)' = Returns(c) + 1,
           UNCHANGED <<program, distribution, reduction, reporting>>
    PROVE  Counted(c)' /\ SizedSoFar(c)'
  <1>1. call'[c].at = "idle"
    BY DEF Idle
  <1>2. WordsBefore(c)' = Words(c) /\ Words(c)' = Words(c)
    BY <1>1 DEF WordsBefore, Words
  <1>3. SentWords(c)' = SentWords(c)
    <2>1. Len(Words(c)) \in Nat
      BY CallFacts
    <2>2. SentWords(c)' = Len(Words(c)) + 0
      BY <1>1, <1>2 DEF SentWords
    <2> QED BY <2>1, <2>2
  <1>4. ReceivedCount(c) \in Nat
    <2>1. Len(Received(c)) \in Nat
      BY CallFacts
    <2> QED BY <2>1 DEF Counted, ReceivedCount
  <1>5. /\ (ResultsRead(program[c])[Returns(c)])' = ReceivedCount(c)
        /\ ReceivedCount(c)' = ReceivedCount(c)
    <2>1. (ResultsRead(program[c])[Returns(c)])' = ReceivedCount(c)
      OBVIOUS
    <2>2. Received(c)' = << >>
      BY <1>1 DEF Received
    <2>3. Len(<< >>) = 0
      OBVIOUS
    <2>4. ReceivedCount(c)' = ReceivedCount(c) + 0
      BY <2>1, <2>2, <2>3 DEF ReceivedCount
    <2> QED BY <2>1, <2>4, <1>4
  <1>6. Counted(c)'
    BY <1>2, <1>3, <1>4, <1>5, CountedKept
  <1>7. SizedSoFar(c)'
    BY SizedNext DEF SizedSoFar
  <1> QED BY <1>6, <1>7

\* What holds of a sequence and a longer one that begins with it.
LEMMA BeginsWith ==
    ASSUME NEW S, NEW a \in Seq(S), NEW b \in Seq(S)
    PROVE  /\ a \o b \in Seq(S)
           /\ Len(a \o b) = Len(a) + Len(b)
           /\ \A i \in 1..Len(a) : (a \o b)[i] = a[i]
           /\ \A i \in 1..Len(b) : (a \o b)[Len(a) + i] = b[i]
  OBVIOUS

\* executeKernel() begins: nothing of the kernel has been sent.
LEMMA ExecuteCounted ==
    ASSUME IInv, NEW c \in Client, Counted(c), SizedSoFar(c),
           Execute(c), UNCHANGED threadVars
    PROVE  Counted(c)' /\ SizedSoFar(c)'
  <1>1. /\ HostOK /\ call[c] = Idle /\ call[c].at = "idle" /\ ~Finished(c)
        /\ Current(c).type = "execute"
        /\ UNCHANGED <<program, distribution, reduction, reporting>>
    BY DEF Execute, Calls, IInv, TypeOK, HostOK, Calling, Idle, pipeVars, threadVars
  <1>2. /\ WordsBefore(c) \in Seq(Word) /\ Returns(c) \in Nat
        /\ Len(distribution) \in Nat
    BY CallFacts
  <1>3. /\ Words(c) = WordsBefore(c) /\ SentWords(c) = Len(WordsBefore(c)) + 0
        /\ Received(c) = << >>
    BY <1>1 DEF Words, SentWords, Received
  <1>4. Len(WordsBefore(c)) \in Nat
    BY <1>2
  <1>5. CASE Current(c).kernel \in DOMAIN Kernels
    <2>1. Enter(c) /\ UNCHANGED answers
      BY <1>5 DEF Execute
    <2>2. call'[c] = [at |-> "execute", sent |-> 0, got |-> << >>]
      BY <1>1, <2>1, EnterFacts
    <2>3. Returns(c)' = Returns(c) /\ WordsBefore(c)' = WordsBefore(c)
      BY <1>1, <2>1 DEF Returns, WordsBefore
    <2>4. /\ Words(c)' = WordsBefore(c) \o Kernels[Current(c).kernel]
          /\ Kernels[Current(c).kernel] \in Seq(Word)
      <3>1. Words(c)' = WordsSent(program[c])[Returns(c) + 1]
        BY <1>1, <2>2, <2>3 DEF Words
      <3>2. WordsOf(Current(c)) = Kernels[Current(c).kernel]
        BY <1>1, <1>5 DEF WordsOf
      <3> QED BY <1>1, <1>5, <3>1, <3>2, NextCallFacts, KernelsAssumption
    <2>5. SentWords(c)' = SentWords(c) /\ FetchedWords(c)' = FetchedWords(c)
      BY <1>1, <1>3, <2>2, <2>3 DEF SentWords, FetchedWords
    <2>6. ReceivedCount(c)' = ReceivedCount(c)
      BY <1>1, <1>3, <2>2, <2>3 DEF ReceivedCount, Received
    <2>7. /\ Len(Words(c)') \in Nat /\ Len(Words(c)) <= Len(Words(c)')
          /\ \A i \in 1..Len(Words(c)) : Words(c)'[i] = Words(c)[i]
      <3>1. Len(Kernels[Current(c).kernel]) \in Nat
        BY <2>4
      <3> QED BY <1>2, <1>3, <1>4, <2>4, <3>1, BeginsWith
    <2>8. FetchedWords(c) \in 0..Len(Words(c))
          /\ FetchedWords(c) + Len(distribution) = Len(Words(c))
      BY <1>2, <1>3, <1>4 DEF Counted, FetchedWords
    <2>9. Counted(c)'
      <3>1. Reductions(Words(c)', FetchedWords(c)) = Reductions(Words(c), FetchedWords(c))
        <4>1. FetchedWords(c) \in Nat
              /\ \A i \in 1..FetchedWords(c) : Words(c)'[i] = Words(c)[i]
          BY <2>7, <2>8, <1>3, <1>4
        <4> QED BY <4>1, ReductionsSame
      <3>2. \A i \in 1..Len(distribution) :
                distribution[i] = Words(c)'[FetchedWords(c) + i]
        <4> TAKE i \in 1..Len(distribution)
        <4>1. FetchedWords(c) + i \in 1..Len(Words(c))
          BY <2>8, <1>2, <1>3, <1>4
        <4> QED BY <4>1, <2>7 DEF Counted
      <3>3. FetchedWords(c) >= 1 => Words(c)'[FetchedWords(c)] = Words(c)[FetchedWords(c)]
        BY <2>7, <2>8, <1>3, <1>4
      <3>4. SentWords(c) <= Len(Words(c)')
        BY <1>3, <1>4, <2>7
      <3> QED BY <3>1, <3>2, <3>3, <3>4, <1>1, <2>3, <2>5, <2>6 DEF Counted
    <2>10. SizedSoFar(c)'
      BY <1>1, <2>3 DEF SizedSoFar
    <2> QED BY <2>9, <2>10
  <1>6. CASE Current(c).kernel \notin DOMAIN Kernels
    <2>1. Answer(c, Threw)
      BY <1>6 DEF Execute
    <2>2. Threw \in Answered
      BY DEF Threw, Answered
    <2>3. call'[c] = Idle /\ Returns(c)' = Returns(c) + 1
      BY <1>1, <2>1, <2>2, AnswerFacts DEF Returns
    <2>4. /\ WordsSent(program[c])[Returns(c) + 1] = WordsBefore(c)
          /\ ResultsRead(program[c])[Returns(c) + 1] = ResultsRead(program[c])[Returns(c)]
      <3>1. WordsOf(Current(c)) = << >> /\ ResultsOf(Current(c)) = 0
        BY <1>1, <1>6 DEF WordsOf, ResultsOf
      <3>2. WordsBefore(c) \o << >> = WordsBefore(c)
        BY <1>2
      <3>3. ResultsRead(program[c])[Returns(c)] + 0 = ResultsRead(program[c])[Returns(c)]
        BY DEF Counted
      <3> QED BY <1>1, <3>1, <3>2, <3>3, NextCallFacts
    <2>5. SentWords(c) = Len(Words(c)) /\ Words(c) = WordsSent(program[c])[Returns(c) + 1]
      BY <1>3, <1>4, <2>4
    <2>6. ReceivedCount(c) = ResultsRead(program[c])[Returns(c) + 1]
      <3>1. Len(<< >>) = 0
        OBVIOUS
      <3>2. ReceivedCount(c) = ResultsRead(program[c])[Returns(c)] + 0
        BY <3>1, <1>3 DEF ReceivedCount
      <3>3. ResultsRead(program[c])[Returns(c)] \in Nat
        BY DEF Counted
      <3> QED BY <3>2, <3>3, <2>4
    <2>7. Current(c).type \notin Transfers
      BY <1>1 DEF Transfers
    <2> QED BY <1>1, <2>3, <2>5, <2>6, <2>7, ReturnCounted
  <1> QED BY <1>5, <1>6

\* A step within a call leaves its words as they are.
LEMMA WithinCall ==
    ASSUME NEW c \in Client, call'[c].at = call[c].at, UNCHANGED <<program, answers>>
    PROVE  /\ Returns(c)' = Returns(c) /\ WordsBefore(c)' = WordsBefore(c)
           /\ Words(c)' = Words(c) /\ Current(c)' = Current(c)
           /\ Finished(c)' = Finished(c)
           /\ (ResultsRead(program[c])[Returns(c)])' = ResultsRead(program[c])[Returns(c)]
           /\ SizedSoFar(c) => SizedSoFar(c)'
  <1>1. Returns(c)' = Returns(c) /\ Current(c)' = Current(c) /\ Finished(c)' = Finished(c)
    BY DEF Returns, Current, Finished
  <1>2. WordsBefore(c)' = WordsBefore(c)
    BY <1>1 DEF WordsBefore
  <1>3. Words(c)' = Words(c)
    BY <1>1, <1>2 DEF Words
  <1>4. SizedSoFar(c) => SizedSoFar(c)'
    BY <1>1 DEF SizedSoFar
  <1> QED BY <1>1, <1>2, <1>3, <1>4

\* What a step does to the call that it goes on with.
LEMMA CallStep ==
    ASSUME HostOK, NEW c \in Client
    PROVE  /\ call' = [call EXCEPT ![c].sent = @ + 1] =>
                 /\ call'[c].at = call[c].at /\ call'[c].got = call[c].got
                 /\ call'[c].sent = call[c].sent + 1
           /\ \A x : call' = [call EXCEPT ![c].got = Append(@, x)] =>
                 /\ call'[c].at = call[c].at /\ call'[c].sent = call[c].sent
                 /\ call'[c].got = Append(call[c].got, x)
  <1>1. call \in [Client -> CallState] /\ call[c] \in CallState
    BY DEF HostOK
  <1>2. ASSUME call' = [call EXCEPT ![c].sent = @ + 1]
        PROVE  /\ call'[c].at = call[c].at /\ call'[c].got = call[c].got
               /\ call'[c].sent = call[c].sent + 1
    <2>1. call'[c] = [call[c] EXCEPT !.sent = @ + 1]
      BY <1>1, <1>2
    <2> QED BY <2>1, <1>1 DEF CallState
  <1>3. ASSUME NEW x, call' = [call EXCEPT ![c].got = Append(@, x)]
        PROVE  /\ call'[c].at = call[c].at /\ call'[c].sent = call[c].sent
               /\ call'[c].got = Append(call[c].got, x)
    <2>1. call'[c] = [call[c] EXCEPT !.got = Append(@, x)]
      BY <1>1, <1>3
    <2> QED BY <2>1, <1>1 DEF CallState
  <1> QED BY <1>2, <1>3

\* A step that ends the program's process, or one that does not touch what is
\* counted.
LEMMA QuietCounted ==
    ASSUME NEW c \in Client, Counted(c), SizedSoFar(c), Returns(c) \in Nat,
           UNCHANGED <<program, answers, call, distribution, reduction, reporting>>
    PROVE  Counted(c)' /\ SizedSoFar(c)'
  <1>1. /\ Words(c)' = Words(c) /\ WordsBefore(c)' = WordsBefore(c)
        /\ (ResultsRead(program[c])[Returns(c)])' = ResultsRead(program[c])[Returns(c)]
        /\ SizedSoFar(c)'
    BY WithinCall
  <1>2. SentWords(c)' = SentWords(c) /\ ReceivedCount(c)' = ReceivedCount(c)
    BY <1>1 DEF SentWords, ReceivedCount, Received
  <1>3. Counted(c)'
    BY <1>1, <1>2, CountedKept DEF Counted
  <1> QED BY <1>1, <1>3

\* Kernel::writeTo(): one more word is sent, and not fetched.
LEMMA SendWordCounted ==
    ASSUME IInv, NEW c \in Client, Counted(c), SizedSoFar(c),
           SendWord(c), UNCHANGED threadVars
    PROVE  Counted(c)' /\ SizedSoFar(c)'
  <1> DEFINE words == Kernels[Current(c).kernel]
             word == words[call[c].sent + 1]
  <1>1. /\ HostOK /\ PipesOK /\ call[c].at = "execute" /\ call[c].sent < Len(words)
        /\ UNCHANGED reporting
    BY DEF SendWord, Within, IInv, TypeOK, threadVars
  <1>2. CASE BrokenPipe
    <2>1. Returns(c) \in Nat
      BY CallFacts
    <2> QED BY <1>1, <1>2, <2>1, QuietCounted DEF BrokenPipe, pipeVars
  <1>3. CASE ~BrokenPipe
    <2>1. /\ distribution' = Append(distribution, word)
          /\ call' = [call EXCEPT ![c].sent = @ + 1]
          /\ UNCHANGED <<program, answers, reduction, reporting>>
      BY <1>1, <1>3 DEF SendWord
    <2>2. /\ call'[c].at = "execute" /\ call'[c].got = call[c].got
          /\ call'[c].sent = call[c].sent + 1
      BY <1>1, <2>1, CallStep
    <2>3. /\ WordsBefore(c)' = WordsBefore(c) /\ Words(c)' = Words(c)
          /\ (ResultsRead(program[c])[Returns(c)])' = ResultsRead(program[c])[Returns(c)]
          /\ SizedSoFar(c)'
      BY <1>1, <2>1, <2>2, WithinCall
    <2>4. /\ words \in Seq(Word) /\ WordsBefore(c) \in Seq(Word)
          /\ Words(c) = WordsBefore(c) \o words
          /\ call[c].sent \in Nat /\ Len(distribution) \in Nat
      BY <1>1, CallFacts
    <2>5. Len(words) \in Nat /\ Len(WordsBefore(c)) \in Nat
      BY <2>4
    <2>6. /\ SentWords(c) = Len(WordsBefore(c)) + call[c].sent
          /\ SentWords(c)' = Len(WordsBefore(c)) + (call[c].sent + 1)
      BY <1>1, <2>2, <2>3 DEF SentWords
    <2>7. /\ distribution \in Seq(Word) /\ word \in Word
      BY <1>1, <2>4 DEF PipesOK
    <2> HIDE DEF word
    <2>8. /\ Len(distribution') = Len(distribution) + 1
          /\ \A i \in 1..Len(distribution) : distribution'[i] = distribution[i]
          /\ distribution'[Len(distribution) + 1] = word
      BY <2>1, <2>7
    <2>9. FetchedWords(c)' = FetchedWords(c)
          /\ FetchedWords(c) + (Len(distribution) + 1)
                = Len(WordsBefore(c)) + (call[c].sent + 1)
      <3>1. \A a, b, d \in Nat : /\ (a + (b + 1)) - (d + 1) = (a + b) - d
                               /\ ((a + b) - d) + (d + 1) = a + (b + 1)
        OBVIOUS
      <3>2. /\ FetchedWords(c) = (Len(WordsBefore(c)) + call[c].sent) - Len(distribution)
            /\ FetchedWords(c)' = (Len(WordsBefore(c)) + (call[c].sent + 1))
                                      - (Len(distribution) + 1)
        BY <2>6, <2>8 DEF FetchedWords
      <3>3. /\ call[c].sent \in Nat /\ Len(distribution) \in Nat
            /\ Len(WordsBefore(c)) \in Nat
        BY <2>4, <2>5
      <3> DEFINE a == Len(WordsBefore(c))  b == call[c].sent  d == Len(distribution)
      <3>4. /\ FetchedWords(c) = (a + b) - d
            /\ FetchedWords(c)' = (a + (b + 1)) - (d + 1)
        BY ONLY <3>2
      <3>5. a \in Nat /\ b \in Nat /\ d \in Nat
        BY ONLY <3>3
      <3> HIDE DEF a, b, d
      <3>6. /\ (a + (b + 1)) - (d + 1) = (a + b) - d
            /\ ((a + b) - d) + (d + 1) = a + (b + 1)
        BY ONLY <3>1, <3>5
      <3>7. FetchedWords(c)' = FetchedWords(c) /\ FetchedWords(c) + (d + 1) = a + (b + 1)
        BY ONLY <3>4, <3>6
      <3> QED BY ONLY <3>7 DEF a, b, d
    <2>10. /\ Len(Words(c)) = Len(WordsBefore(c)) + Len(words)
           /\ Words(c)[Len(WordsBefore(c)) + (call[c].sent + 1)] = word
      <3>1. call[c].sent + 1 \in 1..Len(words)
        BY <1>1, <2>4, <2>5
      <3>2. /\ Len(WordsBefore(c) \o words) = Len(WordsBefore(c)) + Len(words)
            /\ \A i \in 1..Len(words) :
                  (WordsBefore(c) \o words)[Len(WordsBefore(c)) + i] = words[i]
        <4> HIDE DEF words
        <4> QED BY <2>4, BeginsWith
      <3> HIDE DEF words
      <3> QED BY <3>1, <3>2, <2>4 DEF word
    <2>11. \A i \in 1..Len(distribution') :
               distribution'[i] = Words(c)[FetchedWords(c) + i]
      <3> TAKE i \in 1..Len(distribution')
      <3>1. CASE i \in 1..Len(distribution)
        BY <3>1, <2>8 DEF Counted
      <3>2. CASE i = Len(distribution) + 1
        BY <3>2, <2>8, <2>9, <2>10
      <3>3. i \in 1..Len(distribution) \/ i = Len(distribution) + 1
        <4>1. i \in 1..(Len(distribution) + 1)
          BY <2>8
        <4> QED BY <4>1, <2>4
      <3> QED BY <3>1, <3>2, <3>3
    <2>12. ReceivedCount(c)' = ReceivedCount(c)
      BY <1>1, <2>2, <2>3 DEF ReceivedCount, Received
    <2>13. SentWords(c)' <= Len(Words(c))
      BY <1>1, <2>4, <2>5, <2>6, <2>10
    <2>14. Counted(c)'
      BY <2>1, <2>3, <2>9, <2>11, <2>12, <2>13 DEF Counted
    <2> QED BY <2>3, <2>14
  <1> QED BY <1>2, <1>3

\* executeKernel() returns when the last word is sent.
LEMMA ExecuteReturnsCounted ==
    ASSUME IInv, NEW c \in Client, Counted(c), SizedSoFar(c),
           ExecuteReturns(c), UNCHANGED threadVars
    PROVE  Counted(c)' /\ SizedSoFar(c)'
  <1> DEFINE words == Kernels[Current(c).kernel]
  <1>1. /\ HostOK /\ call[c].at = "execute" /\ call[c].sent = Len(words)
        /\ Answer(c, Returned(<< >>))
        /\ UNCHANGED <<program, distribution, reduction, reporting>>
    BY DEF ExecuteReturns, Within, IInv, TypeOK, threadVars, pipeVars
  <1>2. /\ ~Finished(c) /\ Current(c).type = "execute"
        /\ words \in Seq(Word) /\ WordsBefore(c) \in Seq(Word)
        /\ Words(c) = WordsBefore(c) \o words
    BY <1>1, CallFacts
  <1>3. Returned(<< >>) \in Answered
    BY DEF Returned, Answered
  <1>4. call'[c] = Idle /\ Returns(c)' = Returns(c) + 1
    BY <1>1, <1>2, <1>3, AnswerFacts DEF Returns
  <1>5. SentWords(c) = Len(Words(c))
    BY <1>1, <1>2, BeginsWith DEF SentWords
  <1>6. Words(c) = WordsSent(program[c])[Returns(c) + 1]
    BY <1>1 DEF Words
  <1>7. ReceivedCount(c) = ResultsRead(program[c])[Returns(c) + 1]
    <2>1. Received(c) = << >>
      BY <1>1 DEF Received
    <2>2. Len(<< >>) = 0
      OBVIOUS
    <2>3. ReceivedCount(c) = ResultsRead(program[c])[Returns(c)] + 0
      BY <2>1, <2>2 DEF ReceivedCount
    <2>4. ResultsOf(Current(c)) = 0
      BY <1>2 DEF ResultsOf
    <2> QED BY <2>3, <2>4, <1>2, NextCallFacts
  <1>8. Current(c).type \notin Transfers
    BY <1>2 DEF Transfers
  <1> QED BY <1>1, <1>2, <1>4, <1>5, <1>6, <1>7, <1>8, ReturnCounted

\* A call that begins, and is not executeKernel(), has sent no words and
\* received no results.
LEMMA EnterCounted ==
    ASSUME IInv, NEW c \in Client, Counted(c), SizedSoFar(c),
           call[c].at = "idle", ~Finished(c), Current(c).type # "execute", Enter(c),
           UNCHANGED <<program, answers, distribution, reduction, reporting>>
    PROVE  Counted(c)' /\ SizedSoFar(c)'
  <1>1. call[c] = Idle /\ HostOK
    BY DEF IInv, TypeOK, Calling
  <1>2. call'[c] = [at |-> Current(c).type, sent |-> 0, got |-> << >>]
    BY <1>1, EnterFacts
  <1>3. call'[c].at # "execute" /\ call'[c].got = << >>
    BY <1>2
  <1>4. Returns(c)' = Returns(c)
    BY DEF Returns
  <1>5. WordsBefore(c)' = WordsBefore(c) /\ Words(c)' = Words(c)
    BY <1>3, <1>4 DEF WordsBefore, Words
  <1>6. SentWords(c)' = SentWords(c)
    BY <1>3, <1>5 DEF SentWords
  <1>7. ReceivedCount(c)' = ReceivedCount(c)
    BY <1>3, <1>4 DEF ReceivedCount, Received
  <1>8. Counted(c)'
    BY <1>4, <1>5, <1>6, <1>7, CountedKept DEF Counted
  <1>9. SizedSoFar(c)'
    BY <1>4 DEF SizedSoFar
  <1> QED BY <1>8, <1>9

\* readFromPipe(): a result is received that was in the FIFO.
LEMMA ReceiveResultCounted ==
    ASSUME IInv, NEW c \in Client, Counted(c), SizedSoFar(c),
           ReceiveResult(c), UNCHANGED threadVars
    PROVE  Counted(c)' /\ SizedSoFar(c)'
  <1>1. /\ HostOK /\ PipesOK /\ call[c].at = "reduce" /\ reduction # << >>
        /\ call' = [call EXCEPT ![c].got = Append(@, Head(reduction))]
        /\ reduction' = Tail(reduction)
        /\ UNCHANGED <<program, answers, distribution, reporting>>
    BY DEF ReceiveResult, Within, IInv, TypeOK, threadVars
  <1>2. /\ call'[c].at = call[c].at /\ call'[c].sent = call[c].sent
        /\ call'[c].got = Append(call[c].got, Head(reduction))
    BY <1>1, CallStep
  <1>3. /\ WordsBefore(c)' = WordsBefore(c) /\ Words(c)' = Words(c)
        /\ (ResultsRead(program[c])[Returns(c)])' = ResultsRead(program[c])[Returns(c)]
        /\ SizedSoFar(c)'
    BY <1>1, <1>2, WithinCall
  <1>4. /\ Len(reduction) \in Nat \ {0} /\ Len(reduction') = Len(reduction) - 1
        /\ Head(reduction) \in Value
    <2>1. reduction \in Seq(Value)
      BY <1>1 DEF PipesOK
    <2> QED BY <2>1, <1>1
  <1>5. Len(call[c].got) \in Nat /\ Len(call'[c].got) = Len(call[c].got) + 1
    <2>1. call[c].got \in Seq(Value)
      BY CallFacts
    <2> QED BY <2>1, <1>2, <1>4
  <1>6. ReceivedCount(c) \in Nat /\ ReceivedCount(c)' = ReceivedCount(c) + 1
    <2>1. /\ ReceivedCount(c) = ResultsRead(program[c])[Returns(c)] + Len(call[c].got)
          /\ ReceivedCount(c)' = ResultsRead(program[c])[Returns(c)] + Len(call'[c].got)
      BY <1>1, <1>2, <1>3 DEF ReceivedCount, Received
    <2>2. ResultsRead(program[c])[Returns(c)] \in Nat
      BY DEF Counted
    <2> QED BY <2>1, <2>2, <1>5
  <1>7. ReceivedCount(c)' + Len(reduction') + Len(reporting)
            = ReceivedCount(c) + Len(reduction) + Len(reporting)
    <2>1. Len(reporting) \in Nat
      <3>1. reporting \in Seq(Value)
        BY DEF IInv, TypeOK, ThreadsOK
      <3> QED BY <3>1
    <2> QED BY <2>1, <1>4, <1>6
  <1>8. SentWords(c)' = SentWords(c) /\ FetchedWords(c)' = FetchedWords(c)
    BY <1>1, <1>2, <1>3 DEF SentWords, FetchedWords
  <1>9. Counted(c)'
    BY <1>1, <1>3, <1>7, <1>8 DEF Counted
  <1> QED BY <1>3, <1>9

\* readReductionResults() returns as many results as it was asked for.
LEMMA ReduceReturnsCounted ==
    ASSUME IInv, NEW c \in Client, Counted(c), SizedSoFar(c),
           ReduceReturns(c), UNCHANGED threadVars
    PROVE  Counted(c)' /\ SizedSoFar(c)'
  <1>1. /\ HostOK /\ call[c].at = "reduce" /\ Len(call[c].got) = Current(c).count
        /\ Answer(c, Returned(call[c].got))
        /\ UNCHANGED <<program, distribution, reduction, reporting>>
    BY DEF ReduceReturns, Within, IInv, TypeOK, threadVars, pipeVars
  <1>2. /\ ~Finished(c) /\ Current(c).type = "reduce"
        /\ WordsBefore(c) \in Seq(Word) /\ call[c].got \in Seq(Value)
    BY <1>1, CallFacts
  <1>3. Returned(call[c].got) \in Answered
    BY <1>2 DEF Returned, Answered
  <1>4. call'[c] = Idle /\ Returns(c)' = Returns(c) + 1
    BY <1>1, <1>2, <1>3, AnswerFacts DEF Returns
  <1>5. Words(c) = WordsBefore(c) /\ SentWords(c) = Len(Words(c))
    <2>1. Len(WordsBefore(c)) \in Nat
      BY <1>2
    <2> QED BY <2>1, <1>1 DEF Words, SentWords
  <1>6. Words(c) = WordsSent(program[c])[Returns(c) + 1]
    <2>1. WordsOf(Current(c)) = << >>
      BY <1>2 DEF WordsOf
    <2>2. WordsBefore(c) \o << >> = WordsBefore(c)
      BY <1>2
    <2> QED BY <2>1, <2>2, <1>2, <1>5, NextCallFacts
  <1>7. ReceivedCount(c) = ResultsRead(program[c])[Returns(c) + 1]
    <2>1. ReceivedCount(c) = ResultsRead(program[c])[Returns(c)] + Current(c).count
      BY <1>1 DEF ReceivedCount, Received
    <2>2. ResultsOf(Current(c)) = Current(c).count
      BY <1>2 DEF ResultsOf
    <2> QED BY <2>1, <2>2, <1>2, NextCallFacts
  <1>8. Current(c).type \notin Transfers
    BY <1>2 DEF Transfers
  <1> QED BY <1>1, <1>2, <1>4, <1>5, <1>6, <1>7, <1>8, ReturnCounted

\* Transfers send no words and receive no results.
LEMMA TransferCounted ==
    ASSUME IInv, NEW c \in Client, Counted(c), SizedSoFar(c),
           call[c].at \in Transfers, call'[c].at = call[c].at,
           UNCHANGED <<program, answers, distribution, reduction, reporting>>
    PROVE  Counted(c)' /\ SizedSoFar(c)'
  <1>1. call[c].at # "execute" /\ call[c].at # "reduce"
    BY DEF Transfers
  <1>2. /\ Words(c)' = Words(c) /\ WordsBefore(c)' = WordsBefore(c)
        /\ (ResultsRead(program[c])[Returns(c)])' = ResultsRead(program[c])[Returns(c)]
        /\ SizedSoFar(c)'
    BY WithinCall
  <1>3. SentWords(c)' = SentWords(c) /\ ReceivedCount(c)' = ReceivedCount(c)
    BY <1>1, <1>2 DEF SentWords, ReceivedCount, Received
  <1>4. Counted(c)'
    BY <1>2, <1>3, CountedKept DEF Counted
  <1> QED BY <1>2, <1>4

\* A transfer that returns sends no word and reads no result either.
LEMMA TransferReturnsCounted ==
    ASSUME IInv, NEW c \in Client, Counted(c), SizedSoFar(c),
           TransferReturns(c), UNCHANGED threadVars
    PROVE  Counted(c)' /\ SizedSoFar(c)'
  <1>1. /\ call[c].at \in Transfers
        /\ Answer(c, Returned(IF Current(c).type = "read" THEN call[c].got ELSE << >>))
        /\ UNCHANGED <<program, distribution, reduction, reporting>>
    BY DEF TransferReturns, Within, threadVars, pipeVars
  <1>2. /\ HostOK /\ ~Finished(c) /\ Current(c).type \in Transfers
        /\ call[c].got \in Seq(Value)
        /\ Current(c).row + CountOf(Current(c)) <= Rows
    BY <1>1, HolderFacts
  <1>3. Returned(IF Current(c).type = "read" THEN call[c].got ELSE << >>) \in Answered
    <2>1. << >> \in Seq(Value)
      OBVIOUS
    <2> QED BY <2>1, <1>2 DEF Returned, Answered
  <1>4. call'[c] = Idle /\ Returns(c)' = Returns(c) + 1
    BY <1>1, <1>2, <1>3, AnswerFacts DEF Returns
  <1>5. call[c].at # "execute" /\ call[c].at # "reduce"
    BY <1>1 DEF Transfers
  <1>6. Words(c) = WordsBefore(c) /\ SentWords(c) = Len(Words(c))
    <2>1. Len(WordsBefore(c)) \in Nat
      BY CallFacts
    <2> QED BY <2>1, <1>5 DEF Words, SentWords
  <1>7. WordsOf(Current(c)) = << >> /\ ResultsOf(Current(c)) = 0
    BY <1>2 DEF WordsOf, ResultsOf, Transfers
  <1>8. Words(c) = WordsSent(program[c])[Returns(c) + 1]
    <2>1. WordsBefore(c) \o << >> = WordsBefore(c)
      BY CallFacts
    <2> QED BY <2>1, <1>2, <1>6, <1>7, NextCallFacts
  <1>9. ReceivedCount(c) = ResultsRead(program[c])[Returns(c) + 1]
    <2>1. Received(c) = << >>
      BY <1>5 DEF Received
    <2>2. Len(<< >>) = 0
      OBVIOUS
    <2>3. ReceivedCount(c) = ResultsRead(program[c])[Returns(c)] + 0
      BY <2>1, <2>2 DEF ReceivedCount
    <2> QED BY <2>3, <1>2, <1>7, NextCallFacts
  <1> QED BY <1>1, <1>2, <1>4, <1>6, <1>8, <1>9, ReturnCounted

\* The core thread takes a word from its FIFO, and has a result to write if it
\* is a reduction.
LEMMA FetchCounted ==
    ASSUME IInv, NEW c \in Client, Counted(c), SizedSoFar(c), NEW op, Fetch(op),
           op = "RED" => Len(reporting') = 1, op # "RED" => reporting' = << >>,
           UNCHANGED <<program, answers, call, reduction>>
    PROVE  Counted(c)' /\ SizedSoFar(c)'
  <1>1. /\ reporting = << >> /\ distribution # << >>
        /\ Head(distribution).op = op /\ distribution' = Tail(distribution)
    BY DEF Fetch
  <1>2. /\ Len(distribution) \in Nat \ {0} /\ Len(distribution') = Len(distribution) - 1
        /\ Head(distribution) = distribution[1]
        /\ \A i \in 1..Len(distribution') : distribution'[i] = distribution[i + 1]
    <2>1. distribution \in Seq(Word)
      BY DEF IInv, TypeOK, PipesOK
    <2> QED BY <2>1, <1>1
  <1>3. /\ Words(c)' = Words(c) /\ WordsBefore(c)' = WordsBefore(c)
        /\ (ResultsRead(program[c])[Returns(c)])' = ResultsRead(program[c])[Returns(c)]
        /\ SizedSoFar(c)'
    BY WithinCall
  <1>4. SentWords(c)' = SentWords(c) /\ ReceivedCount(c)' = ReceivedCount(c)
    BY <1>3 DEF SentWords, ReceivedCount, Received
  <1>5. FetchedWords(c) \in Nat /\ FetchedWords(c)' = FetchedWords(c) + 1
    <2>1. SentWords(c) \in Nat /\ FetchedWords(c) >= 0
      BY CallFacts DEF Counted
    <2> QED BY <2>1, <1>2, <1>4 DEF FetchedWords
  <1>6. Words(c)[FetchedWords(c) + 1].op = op
    <2>1. 1 \in 1..Len(distribution)
      BY <1>2
    <2> QED BY <2>1, <1>1, <1>2 DEF Counted
  <1>7. \A i \in 1..Len(distribution') :
            distribution'[i] = Words(c)[(FetchedWords(c) + 1) + i]
    <2> TAKE i \in 1..Len(distribution')
    <2>1. i + 1 \in 1..Len(distribution)
      BY <1>2
    <2>2. (FetchedWords(c) + 1) + i = FetchedWords(c) + (i + 1)
      BY <1>2, <1>5
    <2> QED BY <2>1, <2>2, <1>2 DEF Counted
  <1>8. /\ Len(reporting) = 0 /\ Len(reduction) \in Nat /\ ReceivedCount(c) \in Nat
        /\ Len(reporting') = IF op = "RED" THEN 1 ELSE 0
    <2>1. Len(<< >>) = 0
      OBVIOUS
    <2>2. reduction \in Seq(Value)
      BY DEF IInv, TypeOK, PipesOK
    <2>3. Len(reduction) \in Nat
      BY <2>2
    <2>4. Len(Received(c)) \in Nat
      BY CallFacts
    <2>5. ReceivedCount(c) \in Nat
      BY <2>4 DEF Counted, ReceivedCount
    <2> QED BY <2>1, <2>3, <2>5, <1>1
  <1>9. Cardinality(Reductions(Words(c), FetchedWords(c) + 1))
            = ReceivedCount(c) + Len(reduction) + Len(reporting')
    <2>1. Cardinality(Reductions(Words(c), FetchedWords(c) + 1))
              = Cardinality(Reductions(Words(c), FetchedWords(c)))
                + IF op = "RED" THEN 1 ELSE 0
      BY <1>5, <1>6, ReductionsNext
    <2>2. Cardinality(Reductions(Words(c), FetchedWords(c)))
              = ReceivedCount(c) + Len(reduction) + Len(reporting)
      BY DEF Counted
    <2> QED BY <2>1, <2>2, <1>8
  <1>10. reporting' # << >> =>
             FetchedWords(c) + 1 >= 1 /\ Words(c)[FetchedWords(c) + 1].op = "RED"
    BY <1>5, <1>6
  <1>11. FetchedWords(c)' >= 0
    BY <1>5
  <1>12. Counted(c)'
    BY <1>3, <1>4, <1>5, <1>7, <1>9, <1>10, <1>11 DEF Counted
  <1> QED BY <1>3, <1>12

\* handleReduction() has written its result.
LEMMA ReportCounted ==
    ASSUME IInv, NEW c \in Client, Counted(c), SizedSoFar(c), Report, UNCHANGED hostVars
    PROVE  Counted(c)' /\ SizedSoFar(c)'
  <1>1. /\ reduction' = reduction \o reporting /\ reporting' = << >>
        /\ UNCHANGED <<program, answers, call, distribution>>
    BY DEF Report, hostVars
  <1>2. /\ Words(c)' = Words(c) /\ WordsBefore(c)' = WordsBefore(c)
        /\ (ResultsRead(program[c])[Returns(c)])' = ResultsRead(program[c])[Returns(c)]
        /\ SizedSoFar(c)'
    BY <1>1, WithinCall
  <1>3. /\ SentWords(c)' = SentWords(c) /\ ReceivedCount(c)' = ReceivedCount(c)
        /\ FetchedWords(c)' = FetchedWords(c)
    BY <1>1, <1>2 DEF SentWords, ReceivedCount, Received, FetchedWords
  <1>4. /\ Len(reduction') = Len(reduction) + Len(reporting) /\ Len(reporting') = 0
        /\ Len(reduction) \in Nat /\ Len(reporting) \in Nat
    <2>1. reduction \in Seq(Value) /\ reporting \in Seq(Value)
      BY DEF IInv, TypeOK, PipesOK, ThreadsOK
    <2> QED BY <2>1, <1>1
  <1>5. ReceivedCount(c) + Len(reduction') + Len(reporting')
            = ReceivedCount(c) + Len(reduction) + Len(reporting)
    <2>1. Len(Received(c)) \in Nat
      BY CallFacts
    <2>2. ReceivedCount(c) \in Nat
      BY <2>1 DEF Counted, ReceivedCount
    <2> QED BY <2>2, <1>4
  <1>6. Counted(c)'
    BY <1>1, <1>2, <1>3, <1>5 DEF Counted
  <1> QED BY <1>2, <1>6

\* No step changes what is called.
LEMMA ProgramKept ==
    ASSUME [Next]_systemVars
    PROVE  program' = program
  <1>1. CASE UNCHANGED systemVars
    BY <1>1 DEF systemVars, hostVars
  <1>2. CASE (CoreStep \/ IoStep) /\ UNCHANGED hostVars
    BY <1>2 DEF hostVars
  <1>3. ASSUME NEW c \in Client, ClientStep(c) PROVE program' = program
    BY <1>3 DEF ClientStep, Execute, SendWord, BrokenPipe, ExecuteReturns, Reduce,
                ReceiveResult, ReduceReturns, StartTransfer, SendItem, ReceiveItem,
                TransferReturns
  <1> QED BY <1>1, <1>2, <1>3 DEF Next, Quiet

\* The others call nothing.
LEMMA OthersIdle ==
    ASSUME IInv, NEW c \in Client, Alone(c), NEW d \in Client \ {c}
    PROVE  Finished(d) /\ call[d].at = "idle"
  <1>1. HostOK /\ program[d] = << >>
    BY DEF Alone, IInv, TypeOK
  <1>2. answers[d] \in Seq(Answered) /\ Len(answers[d]) <= Len(program[d])
    BY <1>1 DEF HostOK
  <1>3. Len(answers[d]) \in Nat /\ Len(program[d]) = 0
    BY <1>1, <1>2
  <1>4. Finished(d)
    BY <1>2, <1>3 DEF Finished
  <1> QED BY <1>4 DEF IInv, Calling

\* A step of the system is that thread's, if it is alone, or the simulator's.
LEMMA AloneSteps ==
    ASSUME IInv, NEW c \in Client, Alone(c), [Next]_systemVars
    PROVE  \/ ClientStep(c) /\ UNCHANGED threadVars
           \/ CoreStep /\ UNCHANGED hostVars
           \/ IoStep /\ UNCHANGED hostVars
           \/ UNCHANGED systemVars
  <1>1. ASSUME NEW d \in Client \ {c} PROVE ~ClientStep(d)
    <2>1. Finished(d) /\ call[d].at = "idle"
      BY OthersIdle
    <2> QED BY <2>1
            DEF ClientStep, Execute, SendWord, ExecuteReturns, Reduce, ReceiveResult,
                ReduceReturns, StartTransfer, SendItem, ReceiveItem, TransferReturns,
                Calls, Within, Transfers
  <1> QED BY <1>1 DEF Next, Quiet

\* Whatever thread takes a step.
LEMMA NextCounted ==
    ASSUME IInv, NEW c \in Client, Alone(c), Counted(c), SizedSoFar(c),
           [Next]_systemVars
    PROVE  Counted(c)' /\ SizedSoFar(c)'
  <1>1. Returns(c) \in Nat
    BY CallFacts
  <1>2. CASE UNCHANGED systemVars
    BY <1>1, <1>2, QuietCounted DEF systemVars, hostVars, pipeVars, threadVars
  <1>3. CASE ClientStep(c) /\ UNCHANGED threadVars
    <2>1. CASE Execute(c)
      BY <1>3, <2>1, ExecuteCounted
    <2>2. CASE SendWord(c)
      BY <1>3, <2>2, SendWordCounted
    <2>3. CASE ExecuteReturns(c)
      BY <1>3, <2>3, ExecuteReturnsCounted
    <2>4. CASE Reduce(c)
      BY <1>3, <2>4, EnterCounted DEF Reduce, Calls, pipeVars, threadVars
    <2>5. CASE ReceiveResult(c)
      BY <1>3, <2>5, ReceiveResultCounted
    <2>6. CASE ReduceReturns(c)
      BY <1>3, <2>6, ReduceReturnsCounted
    <2>7. CASE StartTransfer(c)
      <3>1. /\ UNCHANGED <<program, answers, distribution, reduction, reporting>>
            /\ call[c].at = "idle" /\ ~Finished(c) /\ Current(c).type # "execute"
            /\ Enter(c) \/ UNCHANGED call
        BY <1>3, <2>7 DEF StartTransfer, Calls, Transfers, pipeVars, threadVars
      <3> QED BY <1>1, <3>1, EnterCounted, QuietCounted
    <2>8. CASE SendItem(c) \/ ReceiveItem(c)
      <3>1. /\ UNCHANGED <<program, answers, distribution, reduction, reporting>>
            /\ call[c].at \in Transfers
        BY <1>3, <2>8
           DEF SendItem, ReceiveItem, BrokenPipe, Within, pipeVars, threadVars
      <3>2. call'[c].at = call[c].at
        <4>1. HostOK
          BY DEF IInv, TypeOK
        <4>2. \/ UNCHANGED call
              \/ call' = [call EXCEPT ![c].sent = @ + 1]
              \/ \E x : call' = [call EXCEPT ![c].got = Append(@, x)]
          BY <2>8 DEF SendItem, ReceiveItem, BrokenPipe
        <4> QED BY <4>1, <4>2, CallStep
      <3> QED BY <3>1, <3>2, TransferCounted
    <2>9. CASE TransferReturns(c)
      BY <1>3, <2>9, TransferReturnsCounted
    <2> QED BY <1>3, <2>1, <2>2, <2>3, <2>4, <2>5, <2>6, <2>7, <2>8, <2>9 DEF ClientStep
  <1>4. CASE CoreStep /\ UNCHANGED hostVars
    <2>1. CASE Report
      BY <1>4, <2>1, ReportCounted
    <2>2. CASE Red
      <3>1. /\ Fetch("RED") /\ reporting' = <<register>>
            /\ UNCHANGED <<program, answers, call, reduction>>
        BY <1>4, <2>2 DEF Red, hostVars
      <3>2. Len(<<register>>) = 1
        OBVIOUS
      <3> QED BY <3>1, <3>2, FetchCounted
    <2>3. CASE Vload \/ Iread \/ Iwrite \/ Throw
      <3>1. PICK op \in {"VLOAD", "IREAD", "IWRITE", "THROW"} : Fetch(op)
        BY <2>3 DEF Vload, Iread, Iwrite, Throw
      <3>2. op # "RED" /\ UNCHANGED <<program, answers, call, reduction, reporting>>
        BY <1>4, <2>3 DEF Vload, Iread, Iwrite, Throw, threadVars, hostVars
      <3>3. reporting' = << >>
        BY <3>1, <3>2 DEF Fetch
      <3> QED BY <3>1, <3>2, <3>3, FetchCounted
    <2> QED BY <1>4, <2>1, <2>2, <2>3 DEF CoreStep
  <1>5. CASE IoStep /\ UNCHANGED hostVars
    <2>1. UNCHANGED <<program, answers, call, distribution, reduction, reporting>>
      BY <1>5 DEF IoStep, Receive, Collect, Store, Acknowledge, Send, pipeVars, hostVars
    <2> QED BY <1>1, <2>1, QuietCounted
  <1> QED BY <1>2, <1>3, <1>4, <1>5, AloneSteps

\* Nothing has been called.
LEMMA InitCounted ==
    ASSUME Init, NEW c \in Client
    PROVE  Counted(c) /\ SizedSoFar(c)
  <1>1. IInv
    BY InitInv
  <1>2. /\ answers[c] = << >> /\ call[c] = Idle /\ distribution = << >>
        /\ reduction = << >> /\ reporting = << >>
    BY DEF Init, HostInit, PipesInit, ThreadsInit
  <1>3. call[c].at = "idle"
    BY <1>2 DEF Idle
  <1>4. Len(<< >>) = 0
    OBVIOUS
  <1>5. Len(program[c]) \in Nat /\ Returns(c) = 0
    BY <1>1, <1>2, <1>4, CallFacts DEF Returns
  <1>6. WordsBefore(c) = << >> /\ Words(c) = << >> /\ Received(c) = << >>
    BY <1>3, <1>5, WordsSentSteps DEF WordsBefore, Words, Received
  <1>7. ResultsRead(program[c])[Returns(c)] = 0
    BY <1>5, ResultsReadSteps
  <1>8. SentWords(c) = 0 /\ FetchedWords(c) = 0 /\ ReceivedCount(c) = 0
    BY <1>2, <1>3, <1>4, <1>6, <1>7 DEF SentWords, FetchedWords, ReceivedCount
  <1>9. Cardinality(Reductions(Words(c), 0)) = 0
    BY ReductionsGrow
  <1>10. Counted(c)
    BY <1>2, <1>4, <1>6, <1>7, <1>8, <1>9 DEF Counted
  <1>11. SizedSoFar(c)
    BY <1>5 DEF SizedSoFar
  <1> QED BY <1>10, <1>11

\* A program of one thread that has ended is one that the FIFOs are sized for:
\* it read no more results than its kernels compute, and whenever it sent a
\* kernel, the words after the reduction that finds its FIFO full fit the
\* distribution FIFO.  ("The ONLY thing that matters is the size of the buffer
\* for reductionDescriptor, because sending the kernel [...] is BLOCKING, so we
\* need to make it as large as required", ConnexSimulator.cpp:57.)
THEOREM OnlySizedProgramsEnd == Spec => []FinishedMeansSized
  <1> DEFINE Inv == \A c \in Client : Alone(c) => Counted(c) /\ SizedSoFar(c)
  <1>1. Init => IInv /\ Inv
    BY InitInv, InitCounted
  <1>2. IInv /\ Inv /\ [Next]_systemVars => (IInv /\ Inv)'
    <2> SUFFICES ASSUME IInv, Inv, [Next]_systemVars, NEW c \in Client, Alone(c)'
                 PROVE  (Counted(c) /\ SizedSoFar(c))'
      BY NextInv
    <2>1. Alone(c)
      BY ProgramKept DEF Alone
    <2> QED BY <2>1, NextCounted
  <1>3. Inv => FinishedMeansSized
    BY DEF FinishedMeansSized, Finished, Sized, SizedSoFar, Returns
  <1> HIDE DEF Inv
  <1> QED BY <1>1, <1>2, <1>3, PTL DEF Spec

-----------------------------------------------------------------------------
(***************************************************************************)
(* Words that run.                                                         *)
(***************************************************************************)
Runnable(words) ==
    /\ words \in Seq(Word)
    /\ \A i \in 1..Len(words) : words[i].op # "THROW"

\* An instruction leaves the machine a machine.
LEMMA InstrTyped ==
    ASSUME NEW m \in Machine, NEW instr \in Word, instr.op # "THROW"
    PROVE  RunInstr(m, instr) \in Machine
  <1>1. CASE instr.op = "VLOAD"
    <2>1. instr.arg \in Value
      BY <1>1 DEF Word
    <2> QED BY <1>1, <2>1 DEF RunInstr, Machine
  <1>2. CASE instr.op = "IREAD"
    <2>1. m.store[instr.arg] \in Value
      BY <1>2 DEF Word, Machine
    <2> QED BY <1>2, <2>1 DEF RunInstr, Machine
  <1>3. CASE instr.op = "IWRITE"
    <2>1. RunInstr(m, instr) = [m EXCEPT !.store[instr.arg] = m.register]
      BY <1>3 DEF RunInstr
    <2>2. [m.store EXCEPT ![instr.arg] = m.register] \in [0..(Rows - 1) -> Value]
      BY DEF Machine
    <2> QED BY <2>1, <2>2 DEF Machine
  <1>4. CASE instr.op = "RED"
    <2>1. Append(m.results, m.register) \in Seq(Value)
      BY DEF Machine
    <2> QED BY <1>4, <2>1 DEF RunInstr, Machine
  <1> QED BY <1>1, <1>2, <1>3, <1>4 DEF Word

\* And so do the words of a kernel, one after the other.
LEMMA RunTyped ==
    ASSUME NEW m \in Machine, NEW words, Runnable(words)
    PROVE  \A n \in 0..Len(words) : RunWords(m, words)[n] \in Machine
  <1> DEFINE f == RunWords(m, words)
             T == {n \in Nat : f[n] \in Machine}
  <1>1. words \in Seq(Word) /\ Len(words) \in Nat
    BY DEF Runnable
  <1>2. f[0] = m /\ \A n \in 1..Len(words) : f[n] = RunInstr(f[n - 1], words[n])
    BY <1>1, RunWordsSteps
  <1> HIDE DEF f
  <1>3. 0 \in T
    BY <1>2
  <1>4. ASSUME NEW n \in 0..(Len(words) - 1), n \in T PROVE n + 1 \in T
    <2>1. n + 1 \in 1..Len(words) /\ (n + 1) - 1 = n
      BY <1>1
    <2>2. f[n + 1] = RunInstr(f[n], words[n + 1])
      BY <2>1, <1>2
    <2>3. words[n + 1] \in Word /\ words[n + 1].op # "THROW"
      BY <2>1, <1>1 DEF Runnable
    <2>4. f[n + 1] \in Machine
      BY <2>2, <2>3, <1>4, InstrTyped
    <2> QED BY <2>1, <2>4
  <1>5. \A n \in 0..Len(words) : n \in T
    <2> HIDE DEF T
    <2> QED BY <1>1, <1>3, <1>4, BoundedInduction
  <1> QED BY <1>5 DEF f

\* The first word can be executed before the rest is run.
LEMMA RunFetched ==
    ASSUME NEW m, NEW words \in Seq(Word), words # << >>
    PROVE  RunWords(RunInstr(m, Head(words)), Tail(words))[Len(Tail(words))]
               = RunWords(m, words)[Len(words)]
  <1> DEFINE f == RunWords(m, words)
             rest == Tail(words)
             t == [n \in 0..Len(rest) |-> f[n + 1]]
  <1>1. /\ Len(words) \in Nat \ {0} /\ Len(rest) = Len(words) - 1
        /\ Head(words) = words[1]
        /\ \A n \in 1..Len(rest) : rest[n] = words[n + 1]
    OBVIOUS
  <1>2. f[0] = m /\ \A n \in 1..Len(words) : f[n] = RunInstr(f[n - 1], words[n])
    BY <1>1, RunWordsSteps
  <1> HIDE DEF f, rest
  <1>3. f[1] = RunInstr(m, words[1])
    <2>1. f[1] = RunInstr(f[1 - 1], words[1])
      BY <1>1, <1>2
    <2> QED BY <2>1, <1>2
  <1>4. t[0] = RunInstr(m, Head(words))
    BY <1>1, <1>3
  <1>5. ASSUME NEW n \in 1..Len(rest) PROVE t[n] = RunInstr(t[n - 1], rest[n])
    <2>1. n + 1 \in 1..Len(words) /\ (n + 1) - 1 = n /\ (n - 1) + 1 = n
      BY <1>1
    <2>2. t[n] = f[n + 1] /\ t[n - 1] = f[n]
      BY <1>1, <2>1
    <2>3. f[n + 1] = RunInstr(f[n], words[n + 1])
      BY <1>2, <2>1
    <2> QED BY <2>2, <2>3, <1>1
  <1>6. Len(rest) \in 0..Len(rest) /\ t[Len(rest)] = f[Len(words)]
    BY <1>1
  <1> HIDE DEF t
  <1>7. RunWords(RunInstr(m, Head(words)), rest)[Len(rest)] = t[Len(rest)]
    BY <1>1, <1>4, <1>5, <1>6, RunWordsUnique
  <1> QED BY <1>6, <1>7 DEF f, rest

\* A word that is appended is executed last.
LEMMA RunAppended ==
    ASSUME NEW m, NEW words \in Seq(Word), NEW word \in Word
    PROVE  LET longer == Append(words, word) IN
           RunWords(m, longer)[Len(longer)] = RunInstr(RunWords(m, words)[Len(words)], word)
  <1> DEFINE longer == Append(words, word)
             t == RunWords(m, longer)
  <1>1. /\ Len(words) \in Nat /\ Len(longer) = Len(words) + 1
        /\ longer[Len(words) + 1] = word
        /\ \A n \in 1..Len(words) : longer[n] = words[n]
    OBVIOUS
  <1> HIDE DEF longer
  <1>2. t[0] = m /\ \A n \in 1..Len(longer) : t[n] = RunInstr(t[n - 1], longer[n])
    BY <1>1, RunWordsSteps
  <1> HIDE DEF t
  <1>3. \A n \in 1..Len(words) : t[n] = RunInstr(t[n - 1], words[n])
    BY <1>1, <1>2
  <1>4. RunWords(m, words)[Len(words)] = t[Len(words)]
    BY <1>1, <1>2, <1>3, RunWordsUnique
  <1>5. t[Len(words) + 1] = RunInstr(t[Len(words)], word)
    <2>1. Len(words) + 1 \in 1..Len(longer) /\ (Len(words) + 1) - 1 = Len(words)
      BY <1>1
    <2>2. t[Len(words) + 1] = RunInstr(t[(Len(words) + 1) - 1], longer[Len(words) + 1])
      BY <1>2, <2>1
    <2> QED BY <2>1, <2>2, <1>1
  <1> QED BY <1>1, <1>4, <1>5 DEF longer, t

\* A change that each word commutes with can be made before the words are run.
LEMMA RunCommutes ==
    ASSUME NEW F \in [Machine -> Machine], NEW m \in Machine, NEW words, Runnable(words),
           \A i \in 1..Len(words) : \A x \in Machine :
               F[RunInstr(x, words[i])] = RunInstr(F[x], words[i])
    PROVE  \A n \in 0..Len(words) : RunWords(F[m], words)[n] = F[RunWords(m, words)[n]]
  <1> DEFINE f == RunWords(m, words)
             t == [n \in 0..Len(words) |-> F[f[n]]]
  <1>1. Len(words) \in Nat
    BY DEF Runnable
  <1>2. f[0] = m /\ \A n \in 1..Len(words) : f[n] = RunInstr(f[n - 1], words[n])
    BY <1>1, RunWordsSteps
  <1>3. \A n \in 0..Len(words) : f[n] \in Machine
    BY RunTyped
  <1> HIDE DEF f
  <1>4. t[0] = F[m]
    BY <1>1, <1>2
  <1>5. ASSUME NEW n \in 1..Len(words) PROVE t[n] = RunInstr(t[n - 1], words[n])
    <2>1. n - 1 \in 0..Len(words) /\ n \in 0..Len(words)
      BY <1>1
    <2>2. t[n] = F[RunInstr(f[n - 1], words[n])] /\ t[n - 1] = F[f[n - 1]]
      BY <2>1, <1>2
    <2> QED BY <2>1, <2>2, <1>3
  <1> HIDE DEF t
  <1>6. \A n \in 0..Len(words) : RunWords(F[m], words)[n] = t[n]
    BY <1>1, <1>4, <1>5, RunWordsUnique
  <1> QED BY <1>6 DEF t, f

\* Words do not touch the answers, or a row that none of them stores to.
LEMMA RunKeeps ==
    ASSUME NEW m \in Machine, NEW words, Runnable(words)
    PROVE  /\ RunWords(m, words)[Len(words)].answers = m.answers
           /\ \A row \in 0..(Rows - 1) :
                 (\A i \in 1..Len(words) : words[i].op = "IWRITE" => words[i].arg # row)
                     => RunWords(m, words)[Len(words)].store[row] = m.store[row]
  <1> DEFINE f == RunWords(m, words)
  <1>1. words \in Seq(Word) /\ Len(words) \in Nat
    BY DEF Runnable
  <1>2. f[0] = m /\ \A n \in 1..Len(words) : f[n] = RunInstr(f[n - 1], words[n])
    BY <1>1, RunWordsSteps
  <1>3. \A n \in 0..Len(words) : f[n] \in Machine
    BY RunTyped
  <1> HIDE DEF f
  <1>4. ASSUME NEW n \in 0..(Len(words) - 1)
        PROVE  /\ f[n + 1].answers = f[n].answers
               /\ \A row \in 0..(Rows - 1) :
                     (words[n + 1].op = "IWRITE" => words[n + 1].arg # row)
                         => f[n + 1].store[row] = f[n].store[row]
    <2>1. n + 1 \in 1..Len(words) /\ (n + 1) - 1 = n /\ n \in 0..Len(words)
      BY <1>1
    <2>2. f[n + 1] = RunInstr(f[n], words[n + 1]) /\ f[n] \in Machine
      BY <2>1, <1>2, <1>3
    <2>3. words[n + 1] \in Word /\ words[n + 1].op # "THROW"
      BY <2>1, <1>1 DEF Runnable
    <2> QED BY <2>2, <2>3 DEF RunInstr, Machine, Word
  <1>5. f[Len(words)].answers = m.answers
    <2> DEFINE T == {n \in Nat : f[n].answers = m.answers}
    <2>1. 0 \in T
      BY <1>2
    <2>2. \A n \in 0..(Len(words) - 1) : n \in T => n + 1 \in T
      BY <1>4
    <2>3. \A n \in 0..Len(words) : n \in T
      <3> HIDE DEF T
      <3> QED BY <1>1, <2>1, <2>2, BoundedInduction
    <2> QED BY <2>3, <1>1
  <1>6. ASSUME NEW row \in 0..(Rows - 1),
               \A i \in 1..Len(words) : words[i].op = "IWRITE" => words[i].arg # row
        PROVE  f[Len(words)].store[row] = m.store[row]
    <2> DEFINE T == {n \in Nat : f[n].store[row] = m.store[row]}
    <2>1. 0 \in T
      BY <1>2
    <2>2. ASSUME NEW n \in 0..(Len(words) - 1), n \in T PROVE n + 1 \in T
      <3>1. n + 1 \in 1..Len(words)
        BY <1>1
      <3>2. f[n + 1].store[row] = f[n].store[row]
        BY <3>1, <1>4, <1>6
      <3> QED BY <3>1, <3>2, <2>2
    <2>3. \A n \in 0..Len(words) : n \in T
      <3> HIDE DEF T
      <3> QED BY <1>1, <2>1, <2>2, BoundedInduction
    <2> QED BY <2>3, <1>1
  <1> QED BY <1>5, <1>6 DEF f

-----------------------------------------------------------------------------
(***************************************************************************)
(* The actual machine stays in step.                                       *)
(***************************************************************************)
\* What is on its way to the core thread are words that run.
LEMMA PendingRunnable ==
    ASSUME IInv, KernelsRun
    PROVE  /\ Runnable(distribution)
           /\ \A name \in DOMAIN Kernels : Runnable(Kernels[name])
  <1>1. \A name \in DOMAIN Kernels : Runnable(Kernels[name])
    BY KernelsAssumption DEF Runnable, KernelsRun
  <1>2. ASSUME NEW i \in 1..Len(distribution) PROVE distribution[i].op # "THROW"
    <2>1. PICK name \in DOMAIN Kernels : distribution[i] \in ToSet(Kernels[name])
      BY DEF IInv, Distributing
    <2>2. PICK j \in 1..Len(Kernels[name]) : distribution[i] = Kernels[name][j]
      <3>1. Kernels[name] \in Seq(Word)
        BY KernelsAssumption
      <3> QED BY <2>1, <3>1 DEF ToSet
    <2> QED BY <2>2 DEF KernelsRun
  <1>3. distribution \in Seq(Word)
    BY DEF IInv, TypeOK, PipesOK
  <1> QED BY <1>1, <1>2, <1>3 DEF Runnable

\* The actual machine is a machine.
LEMMA ActualTyped ==
    ASSUME IInv, NEW c \in Client
    PROVE  /\ Actual(c) \in Machine
           /\ Received(c) \in Seq(Value) /\ reduction \in Seq(Value)
           /\ reporting \in Seq(Value)
  <1>1. /\ reduction \in Seq(Value) /\ reporting \in Seq(Value)
        /\ localStore \in [0..(Rows - 1) -> Value] /\ register \in Value
    BY DEF IInv, TypeOK, PipesOK, ThreadsOK
  <1>2. Received(c) \in Seq(Value) /\ answers[c] \in Seq(Answered)
    BY CallFacts
  <1>3. Received(c) \o reduction \o reporting \in Seq(Value)
    <2>1. \A a, b \in Seq(Value) : a \o b \in Seq(Value)
      OBVIOUS
    <2> QED BY <2>1, <1>1, <1>2
  <1> QED BY <1>1, <1>2, <1>3 DEF Actual, Machine

\* What the words still to be executed make of the actual machine.
LEMMA RanTyped ==
    ASSUME IInv, KernelsRun, NEW c \in Client
    PROVE  RunWords(Actual(c), distribution)[Len(distribution)] \in Machine
  <1>1. Actual(c) \in Machine /\ Runnable(distribution)
    BY ActualTyped, PendingRunnable
  <1>2. Len(distribution) \in 0..Len(distribution)
    BY <1>1 DEF Runnable
  <1> QED BY <1>1, <1>2, RunTyped

\* A step that leaves both machines as they are.
LEMMA StaysInStep ==
    ASSUME NEW c \in Client, InStep(c),
           Before(c)' = Before(c), Actual(c)' = Actual(c),
           Sequential(c)' = Sequential(c), UNCHANGED distribution,
           RowsRead(c)', RowsToStore(c)'
    PROVE  InStep(c)'
  <1>1. Ran(c)'
    BY DEF InStep, Ran
  <1> QED BY <1>1 DEF InStep

\* A step that is no transfer's keeps what is said of transfers.
LEMMA NoTransfer ==
    ASSUME NEW c \in Client, call'[c].at \notin Transfers
    PROVE  RowsRead(c)' /\ RowsToStore(c)'
  BY DEF RowsRead, RowsToStore, Transfers

\* A call that returns what the sequential machine answers.
LEMMA AnswerInStep ==
    ASSUME IInv, IInv', KernelsRun, NEW c \in Client, InStep(c), NEW a \in Answered,
           call'[c] = Idle, answers'[c] = Append(answers[c], a), Received(c) = << >>,
           Before(c)' = Answering(Sequential(c), a),
           UNCHANGED <<localStore, register, reduction, reporting, distribution>>
    PROVE  InStep(c)'
  <1> DEFINE F == [x \in Machine |-> Answering(x, a)]
  <1>1. /\ Actual(c) \in Machine /\ Runnable(distribution)
        /\ Sequential(c) \in Machine
    <2>1. Actual(c) \in Machine /\ Runnable(distribution)
      BY ActualTyped, PendingRunnable
    <2>2. Sequential(c) \in Machine
      BY RanTyped DEF InStep, Ran
    <2> QED BY <2>1, <2>2
  <1>2. F \in [Machine -> Machine]
    <2> SUFFICES ASSUME NEW x \in Machine PROVE Answering(x, a) \in Machine
      OBVIOUS
    <2>1. Append(x.answers, a) \in Seq(Answered)
      BY DEF Machine
    <2> QED BY <2>1 DEF Answering, Machine
  <1>3. ASSUME NEW i \in 1..Len(distribution), NEW x \in Machine
        PROVE  F[RunInstr(x, distribution[i])] = RunInstr(F[x], distribution[i])
    <2>1. distribution[i] \in Word /\ distribution[i].op # "THROW"
      BY <1>1 DEF Runnable
    <2>2. RunInstr(x, distribution[i]) \in Machine
      BY <2>1, InstrTyped
    <2>3. Answering(RunInstr(x, distribution[i]), a)
              = RunInstr(Answering(x, a), distribution[i])
      BY <2>1 DEF Answering, RunInstr, Machine, Word
    <2> QED BY <2>2, <2>3
  <1>4. Actual(c)' = F[Actual(c)]
    <2>1. Received(c)' = << >>
      BY DEF Received, Idle
    <2>2. F[Actual(c)] = Answering(Actual(c), a)
      BY <1>1
    <2> QED BY <2>1, <2>2, <1>1 DEF Actual, Answering
  <1>5. F[Sequential(c)] = Answering(Sequential(c), a)
    BY <1>1
  <1> HIDE DEF F
  <1>6. RunWords(Actual(c)', distribution)[Len(distribution)] = Answering(Sequential(c), a)
    <2>1. Len(distribution) \in 0..Len(distribution)
      BY <1>1 DEF Runnable
    <2>2. RunWords(F[Actual(c)], distribution)[Len(distribution)]
              = F[RunWords(Actual(c), distribution)[Len(distribution)]]
      BY <2>1, <1>1, <1>2, <1>3, RunCommutes
    <2> QED BY <2>2, <1>4, <1>5 DEF InStep, Ran
  <1>7. Sequential(c)' = Before(c)'
    BY DEF Sequential, Idle
  <1>8. Ran(c)'
    BY <1>6, <1>7 DEF Ran
  <1>9. Before(c)' \in Machine
    <2>1. F[Sequential(c)] \in Machine
      BY <1>1, <1>2
    <2> QED BY <2>1, <1>5
  <1>10. call'[c].at \notin Transfers
    BY DEF Idle, Transfers
  <1> QED BY <1>8, <1>9, <1>10, NoTransfer DEF InStep

\* executeKernel() begins, or throws when there is no such kernel.
LEMMA ExecuteInStep ==
    ASSUME IInv, IInv', KernelsRun, NEW c \in Client, InStep(c),
           Execute(c), UNCHANGED threadVars
    PROVE  InStep(c)'
  <1>1. /\ HostOK /\ call[c] = Idle /\ call[c].at = "idle" /\ ~Finished(c)
        /\ Current(c).type = "execute"
        /\ UNCHANGED <<program, distribution, reduction, localStore, register, reporting>>
    BY DEF Execute, Calls, IInv, TypeOK, HostOK, Calling, Idle, pipeVars, threadVars
  <1>2. Received(c) = << >> /\ Sequential(c) = Before(c)
    BY <1>1 DEF Received, Sequential
  <1>3. CASE Current(c).kernel \in DOMAIN Kernels
    <2>1. Enter(c) /\ UNCHANGED answers
      BY <1>3 DEF Execute
    <2>2. call'[c] = [at |-> "execute", sent |-> 0, got |-> << >>]
      BY <1>1, <2>1, EnterFacts
    <2>3. Before(c)' = Before(c) /\ Current(c)' = Current(c)
      BY <1>1, <2>1 DEF Before, Returns, Current
    <2>4. Actual(c)' = Actual(c)
      BY <1>1, <1>2, <2>1, <2>2 DEF Actual, Received
    <2>5. Sequential(c)' = Before(c)
      <3>1. Sequential(c)' = RunWords(Before(c), Kernels[Current(c).kernel])[0]
        BY <2>2, <2>3 DEF Sequential
      <3>2. Len(Kernels[Current(c).kernel]) \in Nat
        <4>1. Kernels[Current(c).kernel] \in Seq(Word)
          BY <1>3, KernelsAssumption
        <4> QED BY <4>1
      <3> QED BY <3>1, <3>2, RunWordsSteps
    <2>6. call'[c].at \notin Transfers
      BY <2>2 DEF Transfers
    <2> QED BY <1>1, <1>2, <2>3, <2>4, <2>5, <2>6, NoTransfer, StaysInStep
  <1>4. CASE Current(c).kernel \notin DOMAIN Kernels
    <2>1. Answer(c, Threw)
      BY <1>4 DEF Execute
    <2>2. Threw \in Answered
      BY DEF Threw, Answered
    <2>3. /\ call'[c] = Idle /\ Returns(c)' = Returns(c) + 1
          /\ answers'[c] = Append(answers[c], Threw)
      BY <1>1, <2>1, <2>2, AnswerFacts DEF Returns
    <2>4. Before(c)' = Answering(Sequential(c), Threw)
      <3>1. Before(c)' = RunCalls(program[c])[Returns(c) + 1]
        BY <1>1, <2>3 DEF Before
      <3>2. Before(c)' = RunCall(Before(c), Current(c))
        BY <3>1, <1>1, NextCallFacts DEF Before
      <3> QED BY <3>2, <1>1, <1>2, <1>4 DEF RunCall
    <2> QED BY <1>1, <1>2, <2>2, <2>3, <2>4, AnswerInStep
  <1> QED BY <1>3, <1>4

\* Kernel::writeTo(): the word that is sent will be executed last.
LEMMA SendWordInStep ==
    ASSUME IInv, IInv', KernelsRun, NEW c \in Client, InStep(c),
           SendWord(c), UNCHANGED threadVars
    PROVE  InStep(c)'
  <1> DEFINE words == Kernels[Current(c).kernel]
             word == words[call[c].sent + 1]
  <1>1. /\ HostOK /\ PipesOK /\ call[c].at = "execute" /\ call[c].sent < Len(words)
        /\ UNCHANGED <<localStore, register, reporting>>
    BY DEF SendWord, Within, IInv, TypeOK, threadVars
  <1>2. CASE BrokenPipe
    <2>1. UNCHANGED <<program, answers, call, distribution, reduction>>
      BY <1>2 DEF BrokenPipe, pipeVars
    <2>2. /\ Before(c)' = Before(c) /\ Actual(c)' = Actual(c)
          /\ Current(c)' = Current(c)
      BY <1>1, <2>1 DEF Before, Returns, Actual, Received, Current
    <2>3. Sequential(c)' = Sequential(c)
      BY <1>1, <2>1, <2>2 DEF Sequential
    <2>4. call'[c].at \notin Transfers
      BY <1>1, <2>1 DEF Transfers
    <2> QED BY <2>1, <2>2, <2>3, <2>4, NoTransfer, StaysInStep
  <1>3. CASE ~BrokenPipe
    <2>1. /\ distribution' = Append(distribution, word)
          /\ call' = [call EXCEPT ![c].sent = @ + 1]
          /\ UNCHANGED <<program, answers, reduction>>
      BY <1>1, <1>3 DEF SendWord
    <2>2. /\ call'[c].at = "execute" /\ call'[c].got = call[c].got
          /\ call'[c].sent = call[c].sent + 1
      BY <1>1, <2>1, CallStep
    <2>3. words \in Seq(Word) /\ call[c].sent \in Nat /\ distribution \in Seq(Word)
      BY <1>1, CallFacts DEF PipesOK
    <2>4. Len(words) \in Nat /\ call[c].sent + 1 \in 1..Len(words)
          /\ (call[c].sent + 1) - 1 = call[c].sent
      BY <1>1, <2>3
    <2>5. word \in Word
      BY <2>3, <2>4
    <2>6. /\ Before(c)' = Before(c) /\ Actual(c)' = Actual(c)
          /\ Current(c)' = Current(c)
      BY <1>1, <2>1, <2>2 DEF Before, Returns, Actual, Received, Current
    <2>7. Sequential(c)' = RunInstr(Sequential(c), word)
      <3>1. /\ Sequential(c) = RunWords(Before(c), words)[call[c].sent]
            /\ Sequential(c)' = RunWords(Before(c), words)[call[c].sent + 1]
        BY <1>1, <2>2, <2>6 DEF Sequential
      <3> HIDE DEF words
      <3>2. RunWords(Before(c), words)[call[c].sent + 1]
                = RunInstr(RunWords(Before(c), words)[(call[c].sent + 1) - 1],
                           words[call[c].sent + 1])
        BY <2>4, RunWordsSteps
      <3> QED BY <3>1, <3>2, <2>4
    <2> HIDE DEF word
    <2>8. Ran(c)'
      <3>1. RunWords(Actual(c), distribution')[Len(distribution')]
                = RunInstr(RunWords(Actual(c), distribution)[Len(distribution)], word)
        BY <2>1, <2>3, <2>5, RunAppended
      <3> QED BY <3>1, <2>6, <2>7 DEF InStep, Ran
    <2>9. call'[c].at \notin Transfers
      BY <2>2 DEF Transfers
    <2> QED BY <2>6, <2>8, <2>9, NoTransfer DEF InStep
  <1> QED BY <1>2, <1>3

\* executeKernel() returns when all words have been sent.
LEMMA ExecuteReturnsInStep ==
    ASSUME IInv, IInv', KernelsRun, NEW c \in Client, InStep(c),
           ExecuteReturns(c), UNCHANGED threadVars
    PROVE  InStep(c)'
  <1> DEFINE words == Kernels[Current(c).kernel]
  <1>1. /\ HostOK /\ call[c].at = "execute" /\ call[c].sent = Len(words)
        /\ Answer(c, Returned(<< >>))
        /\ UNCHANGED <<program, distribution, reduction, localStore, register, reporting>>
    BY DEF ExecuteReturns, Within, IInv, TypeOK, threadVars, pipeVars
  <1>2. /\ ~Finished(c) /\ Current(c).type = "execute"
        /\ Current(c).kernel \in DOMAIN Kernels
    BY <1>1, CallFacts
  <1>3. Returned(<< >>) \in Answered
    BY DEF Returned, Answered
  <1>4. /\ call'[c] = Idle /\ Returns(c)' = Returns(c) + 1
        /\ answers'[c] = Append(answers[c], Returned(<< >>))
    BY <1>1, <1>2, <1>3, AnswerFacts DEF Returns
  <1>5. Before(c)' = Answering(Sequential(c), Returned(<< >>))
    <2>1. Before(c)' = RunCalls(program[c])[Returns(c) + 1]
      BY <1>1, <1>4 DEF Before
    <2>2. Before(c)' = RunCall(Before(c), Current(c))
      BY <2>1, <1>2, NextCallFacts DEF Before
    <2>3. Sequential(c) = RunWords(Before(c), words)[Len(words)]
      BY <1>1 DEF Sequential
    <2> HIDE DEF Answering
    <2> QED BY <2>2, <2>3, <1>2 DEF RunCall
  <1>6. Received(c) = << >>
    BY <1>1 DEF Received
  <1> QED BY <1>1, <1>3, <1>4, <1>5, <1>6, AnswerInStep

\* readReductionResults() begins.
LEMMA ReduceInStep ==
    ASSUME IInv, NEW c \in Client, InStep(c), Reduce(c), UNCHANGED threadVars
    PROVE  InStep(c)'
  <1>1. /\ HostOK /\ call[c] = Idle /\ call[c].at = "idle" /\ ~Finished(c)
        /\ Current(c).type = "reduce" /\ Enter(c)
        /\ UNCHANGED <<program, answers, distribution, reduction>>
        /\ UNCHANGED <<localStore, register, reporting>>
    BY DEF Reduce, Calls, IInv, TypeOK, HostOK, Calling, Idle, pipeVars, threadVars
  <1>2. call'[c] = [at |-> "reduce", sent |-> 0, got |-> << >>]
    BY <1>1, EnterFacts
  <1>3. call'[c].at = "reduce" /\ call'[c].got = << >>
    BY <1>2
  <1>4. Before(c)' = Before(c)
    BY <1>1 DEF Before, Returns
  <1>5. Actual(c)' = Actual(c)
    BY <1>1, <1>3 DEF Actual, Received
  <1>6. Sequential(c)' = Sequential(c)
    BY <1>1, <1>3, <1>4 DEF Sequential
  <1>7. call'[c].at \notin Transfers
    BY <1>3 DEF Transfers
  <1> QED BY <1>1, <1>4, <1>5, <1>6, <1>7, NoTransfer, StaysInStep

\* A result that is received is still the result that was computed before those
\* in the FIFO.
LEMMA ReceiveResultInStep ==
    ASSUME IInv, NEW c \in Client, InStep(c), ReceiveResult(c), UNCHANGED threadVars
    PROVE  InStep(c)'
  <1>1. /\ HostOK /\ call[c].at = "reduce" /\ reduction # << >>
        /\ call' = [call EXCEPT ![c].got = Append(@, Head(reduction))]
        /\ reduction' = Tail(reduction)
        /\ UNCHANGED <<program, answers, distribution>>
        /\ UNCHANGED <<localStore, register, reporting>>
    BY DEF ReceiveResult, Within, IInv, TypeOK, threadVars
  <1>2. /\ call'[c].at = call[c].at
        /\ call'[c].got = Append(call[c].got, Head(reduction))
    BY <1>1, CallStep
  <1>3. Before(c)' = Before(c)
    BY <1>1 DEF Before, Returns
  <1>4. Received(c)' \o reduction' = Received(c) \o reduction
    <2>1. call[c].got \in Seq(Value) /\ reduction \in Seq(Value)
      BY CallFacts, ActualTyped
    <2>2. Append(call[c].got, Head(reduction)) \o Tail(reduction) = call[c].got \o reduction
      BY <2>1, <1>1, Shifted
    <2> QED BY <2>2, <1>1, <1>2 DEF Received
  <1>5. Actual(c)' = Actual(c)
    BY <1>1, <1>4 DEF Actual
  <1>6. Sequential(c)' = Sequential(c)
    BY <1>1, <1>2, <1>3 DEF Sequential
  <1>7. call'[c].at \notin Transfers
    BY <1>1, <1>2 DEF Transfers
  <1> QED BY <1>1, <1>3, <1>5, <1>6, <1>7, NoTransfer, StaysInStep

\* Taking a sequence apart that was put together.
LEMMA TakenApart ==
    ASSUME NEW S, NEW a \in Seq(S), NEW b \in Seq(S)
    PROVE  /\ SubSeq(a \o b, 1, Len(a)) = a
           /\ SubSeq(a \o b, Len(a) + 1, Len(a \o b)) = b
  <1>1. /\ a \o b \in Seq(S) /\ Len(a \o b) = Len(a) + Len(b)
        /\ Len(a) \in Nat /\ Len(b) \in Nat
        /\ \A i \in 1..Len(a) : (a \o b)[i] = a[i]
        /\ \A i \in 1..Len(b) : (a \o b)[Len(a) + i] = b[i]
    BY BeginsWith
  <1> DEFINE s == a \o b
  <1> HIDE DEF s
  <1>2. SubSeq(s, 1, Len(a)) = a
    <2>1. /\ SubSeq(s, 1, Len(a)) \in Seq(S) /\ Len(SubSeq(s, 1, Len(a))) = Len(a)
          /\ \A i \in 1..Len(a) : SubSeq(s, 1, Len(a))[i] = s[i]
      BY <1>1 DEF s
    <2> QED BY <2>1, <1>1 DEF s
  <1>3. SubSeq(s, Len(a) + 1, Len(s)) = b
    <2> DEFINE u == SubSeq(s, Len(a) + 1, Len(s))
    <2>1. s \in Seq(S) /\ Len(s) = Len(a) + Len(b) /\ Len(s) \in Nat
      BY <1>1 DEF s
    <2>2. /\ u \in Seq(S) /\ Len(u) = Len(b)
          /\ \A i \in 1..Len(b) : u[i] = s[Len(a) + i]
      BY <2>1, <1>1
    <2> HIDE DEF u
    <2> QED BY <2>2, <1>1 DEF s, u
  <1> QED BY <1>2, <1>3 DEF s

\* readReductionResults() returns the first results.
LEMMA ReduceReturnsInStep ==
    ASSUME IInv, IInv', KernelsRun, NEW c \in Client, InStep(c),
           ReduceReturns(c), UNCHANGED threadVars
    PROVE  InStep(c)'
  <1> DEFINE got == call[c].got
             k == answers[c]
             a == Returned(got)
             G == [x \in Machine |-> [x EXCEPT !.results = got \o @, !.answers = k]]
             X == RunWords(Actual(c)', distribution)[Len(distribution)]
  <1>1. /\ HostOK /\ call[c].at = "reduce" /\ Len(got) = Current(c).count
        /\ Answer(c, a)
        /\ UNCHANGED <<program, distribution, reduction, localStore, register, reporting>>
    BY DEF ReduceReturns, Within, IInv, TypeOK, threadVars, pipeVars
  <1>2. /\ ~Finished(c) /\ Current(c).type = "reduce" /\ got \in Seq(Value)
        /\ k \in Seq(Answered)
    BY <1>1, CallFacts
  <1>3. a \in Answered
    BY <1>2 DEF Returned, Answered
  <1>4. /\ call'[c] = Idle /\ Returns(c)' = Returns(c) + 1
        /\ answers'[c] = Append(k, a)
    BY <1>1, <1>2, <1>3, AnswerFacts DEF Returns
  <1>5. /\ Actual(c) \in Machine /\ Runnable(distribution)
        /\ reduction \in Seq(Value) /\ reporting \in Seq(Value)
    BY ActualTyped, PendingRunnable
  <1>6. Actual(c)' = [store |-> localStore, register |-> register,
                      results |-> reduction \o reporting, answers |-> Append(k, a)]
    <2>1. Received(c)' = << >>
      BY <1>4 DEF Received, Idle
    <2>2. << >> \o reduction = reduction
      BY <1>5
    <2> QED BY <2>1, <2>2, <1>1, <1>4 DEF Actual
  <1>7. Actual(c)' \in Machine
    <2>1. localStore \in [0..(Rows - 1) -> Value] /\ register \in Value
      BY DEF IInv, TypeOK, ThreadsOK
    <2>2. reduction \o reporting \in Seq(Value) /\ Append(k, a) \in Seq(Answered)
      <3> HIDE DEF k, a
      <3> QED BY <1>2, <1>3, <1>5
    <2> HIDE DEF k, a
    <2> QED BY <2>1, <2>2, <1>6 DEF Machine
  <1>8. G \in [Machine -> Machine]
    <2> SUFFICES ASSUME NEW x \in Machine
                 PROVE  [x EXCEPT !.results = got \o @, !.answers = k] \in Machine
      OBVIOUS
    <2>1. got \o x.results \in Seq(Value)
      <3>1. x.results \in Seq(Value)
        BY DEF Machine
      <3>2. \A s, t \in Seq(Value) : s \o t \in Seq(Value)
        OBVIOUS
      <3> QED BY <3>1, <3>2, <1>2
    <2> HIDE DEF got, k
    <2> QED BY <2>1, <1>2 DEF Machine
  <1>9. ASSUME NEW i \in 1..Len(distribution), NEW x \in Machine
        PROVE  G[RunInstr(x, distribution[i])] = RunInstr(G[x], distribution[i])
    <2>1. distribution[i] \in Word /\ distribution[i].op # "THROW"
      BY <1>5 DEF Runnable
    <2>2. RunInstr(x, distribution[i]) \in Machine
      BY <2>1, InstrTyped
    <2>3. got \o Append(x.results, x.register) = Append(got \o x.results, x.register)
      <3>1. x.results \in Seq(Value) /\ x.register \in Value
        BY DEF Machine
      <3>2. got \in Seq(Value)
        BY <1>2
      <3> DEFINE t == x.results  e == x.register
      <3> HIDE DEF got, t, e
      <3>3. t \in Seq(Value) /\ e \in Value
        BY <3>1 DEF t, e
      <3>4. got \o Append(t, e) = Append(got \o t, e)
        BY ONLY <3>2, <3>3, AppendedLast
      <3> QED BY <3>4 DEF t, e
    <2> DEFINE g(y) == [y EXCEPT !.results = got \o @, !.answers = k]
    <2>4. g(RunInstr(x, distribution[i])) = RunInstr(g(x), distribution[i])
      <3> HIDE DEF got, k
      <3> QED BY <2>1, <2>3 DEF RunInstr, Machine, Word
    <2>5. G[x] = g(x) /\ G[RunInstr(x, distribution[i])] = g(RunInstr(x, distribution[i]))
      BY <2>2
    <2> HIDE DEF g, G
    <2> QED BY <2>4, <2>5
  <1>10. G[Actual(c)'] = Actual(c)
    <2>1. (got \o reduction) \o reporting = got \o (reduction \o reporting)
      <3> HIDE DEF got
      <3> QED BY <1>2, <1>5
    <2>2. Received(c) = got
      BY <1>1 DEF Received
    <2>3. G[Actual(c)'] = [Actual(c)' EXCEPT !.results = got \o @, !.answers = k]
      BY <1>7
    <2> HIDE DEF got, a, G
    <2> QED BY <2>1, <2>2, <2>3, <1>6 DEF Actual
  <1>11. X \in Machine /\ X.answers = Append(k, a)
    <2>1. Len(distribution) \in 0..Len(distribution)
      BY <1>5 DEF Runnable
    <2>2. X \in Machine
      BY <2>1, <1>5, <1>7, RunTyped
    <2>3. X.answers = (Actual(c)').answers
      BY <1>5, <1>7, RunKeeps
    <2> QED BY <2>2, <2>3, <1>6
  <1>12. Before(c) = [X EXCEPT !.results = got \o @, !.answers = k]
    <2>1. Sequential(c) = Before(c)
      BY <1>1 DEF Sequential
    <2>2. Len(distribution) \in 0..Len(distribution)
      BY <1>5 DEF Runnable
    <2>3. G[X] = [X EXCEPT !.results = got \o @, !.answers = k]
      BY <1>11
    <2> HIDE DEF G
    <2>4. RunWords(G[Actual(c)'], distribution)[Len(distribution)] = G[X]
      BY <2>2, <1>5, <1>7, <1>8, <1>9, RunCommutes
    <2> QED BY <2>1, <2>3, <2>4, <1>10 DEF InStep, Ran
  <1>13. Before(c)' = X
    <2>1. Before(c)' = RunCalls(program[c])[Returns(c) + 1]
      BY <1>1, <1>4 DEF Before
    <2>2. Before(c)' = RunCall(Before(c), Current(c))
      BY <2>1, <1>2, NextCallFacts DEF Before
    <2> DEFINE n == Current(c).count
               b == Before(c)
    <2>3. Before(c)' = Answering([b EXCEPT !.results = SubSeq(@, n + 1, Len(@))],
                                 Returned(SubSeq(b.results, 1, n)))
      BY <2>2, <1>2 DEF RunCall
    <2>4. b.results = got \o X.results /\ b.answers = k /\ b \in Machine
      <3> HIDE DEF X, got, k
      <3> QED BY <1>11, <1>12 DEF Machine, InStep
    <2>5. /\ SubSeq(b.results, n + 1, Len(b.results)) = X.results
          /\ SubSeq(b.results, 1, n) = got
      <3>1. X.results \in Seq(Value)
        BY <1>11 DEF Machine
      <3>2. got \in Seq(Value) /\ n = Len(got) /\ b.results = got \o X.results
        BY <2>4, <1>1, <1>2
      <3> DEFINE t == X.results  r == b.results
      <3>3. t \in Seq(Value) /\ r = got \o t
        BY <3>1, <3>2
      <3> HIDE DEF X, got, t, r, n
      <3>4. SubSeq(r, n + 1, Len(r)) = t /\ SubSeq(r, 1, n) = got
        BY ONLY <3>2, <3>3, TakenApart
      <3> QED BY <3>4 DEF t, r
    <2>6. Before(c)' = [b EXCEPT !.results = X.results, !.answers = Append(k, a)]
      <3> HIDE DEF X, b, n, k
      <3> QED BY <2>3, <2>4, <2>5 DEF Answering, Machine
    <2> HIDE DEF X, k, a, got
    <2> QED BY <2>6, <1>11, <1>12 DEF Machine
  <1>14. Ran(c)'
    <2>1. Sequential(c)' = Before(c)'
      BY <1>4 DEF Sequential, Idle
    <2> QED BY <2>1, <1>1, <1>13 DEF Ran
  <1>15. call'[c].at \notin Transfers
    BY <1>4 DEF Idle, Transfers
  <1> QED BY <1>11, <1>13, <1>14, <1>15, NoTransfer DEF InStep

\* The core thread executes the first of the words it is sent.
LEMMA FetchInStep ==
    ASSUME IInv, NEW c \in Client, InStep(c), NEW op, Fetch(op),
           Actual(c)' = RunInstr(Actual(c), Head(distribution)),
           UNCHANGED <<program, answers, call, ioRead, io>>
    PROVE  InStep(c)'
  <1>1. distribution \in Seq(Word) /\ distribution # << >>
        /\ distribution' = Tail(distribution)
    BY DEF Fetch, IInv, TypeOK, PipesOK
  <1>2. Before(c)' = Before(c) /\ Current(c)' = Current(c)
    BY DEF Before, Returns, Current
  <1>3. Sequential(c)' = Sequential(c)
    BY <1>2 DEF Sequential, RowsWritten
  <1>4. Ran(c)'
    <2>1. RunWords(RunInstr(Actual(c), Head(distribution)), distribution')[Len(distribution')]
              = RunWords(Actual(c), distribution)[Len(distribution)]
      BY <1>1, RunFetched
    <2> QED BY <2>1, <1>3 DEF InStep, Ran
  <1>5. RowsRead(c)' /\ RowsToStore(c)'
    BY <1>2 DEF InStep, RowsRead, RowsToStore
  <1> QED BY <1>2, <1>4, <1>5 DEF InStep

\* Whatever the core thread does.
LEMMA CoreInStep ==
    ASSUME IInv, KernelsRun, NEW c \in Client, InStep(c), CoreStep, UNCHANGED hostVars
    PROVE  InStep(c)'
  <1>1. UNCHANGED <<program, answers, call, io, ioRead>>
    BY DEF CoreStep, Vload, Iread, Iwrite, Red, Report, Throw, hostVars, threadVars
  <1>2. Received(c)' = Received(c)
    BY <1>1 DEF Received
  <1>3. /\ Received(c) \in Seq(Value) /\ reduction \in Seq(Value)
        /\ reporting \in Seq(Value)
    BY ActualTyped
  <1>4. ASSUME NEW op, Fetch(op)
        PROVE  Head(distribution).op = op /\ op # "THROW" /\ reporting = << >>
    <2>1. Head(distribution).op = op /\ reporting = << >> /\ distribution # << >>
      BY <1>4 DEF Fetch
    <2>2. Runnable(distribution)
      BY PendingRunnable
    <2>3. Head(distribution) = distribution[1] /\ 1 \in 1..Len(distribution)
      BY <2>1, <2>2 DEF Runnable
    <2> QED BY <2>1, <2>2, <2>3 DEF Runnable
  <1>5. CASE Vload
    <2>1. Fetch("VLOAD") /\ register' = Head(distribution).arg
          /\ UNCHANGED <<localStore, reporting, reduction>>
      BY <1>5 DEF Vload
    <2>2. Actual(c)' = RunInstr(Actual(c), Head(distribution))
      <3>1. RunInstr(Actual(c), Head(distribution))
                = [Actual(c) EXCEPT !.register = Head(distribution).arg]
        BY <2>1, <1>4 DEF RunInstr
      <3> QED BY <3>1, <2>1, <1>1, <1>2 DEF Actual
    <2> QED BY <2>1, <2>2, <1>1, FetchInStep
  <1>6. CASE Iread
    <2>1. Fetch("IREAD") /\ register' = localStore[Head(distribution).arg]
          /\ UNCHANGED <<localStore, reporting, reduction>>
      BY <1>6 DEF Iread
    <2>2. Actual(c)' = RunInstr(Actual(c), Head(distribution))
      <3>1. RunInstr(Actual(c), Head(distribution))
                = [Actual(c) EXCEPT !.register = Actual(c).store[Head(distribution).arg]]
        BY <2>1, <1>4 DEF RunInstr
      <3> QED BY <3>1, <2>1, <1>1, <1>2 DEF Actual
    <2> QED BY <2>1, <2>2, <1>1, FetchInStep
  <1>7. CASE Iwrite
    <2>1. /\ Fetch("IWRITE")
          /\ localStore' = [localStore EXCEPT ![Head(distribution).arg] = register]
          /\ UNCHANGED <<register, reporting, reduction>>
      BY <1>7 DEF Iwrite
    <2>2. Actual(c)' = RunInstr(Actual(c), Head(distribution))
      <3>1. RunInstr(Actual(c), Head(distribution))
                = [Actual(c) EXCEPT !.store[Head(distribution).arg] = Actual(c).register]
        BY <2>1, <1>4 DEF RunInstr
      <3> QED BY <3>1, <2>1, <1>1, <1>2 DEF Actual
    <2> QED BY <2>1, <2>2, <1>1, FetchInStep
  <1>8. CASE Red
    <2>1. Fetch("RED") /\ reporting' = <<register>>
          /\ UNCHANGED <<localStore, register, reduction>>
      BY <1>8 DEF Red
    <2>2. Received(c) \o reduction \o <<register>>
              = Append(Received(c) \o reduction \o << >>, register)
      <3> DEFINE s == Received(c) \o reduction
      <3>1. s \in Seq(Value)
        <4>1. \A a, b \in Seq(Value) : a \o b \in Seq(Value)
          OBVIOUS
        <4> QED BY <4>1, <1>3
      <3>2. register \in Value
        BY DEF IInv, TypeOK, ThreadsOK
      <3> HIDE DEF s
      <3>3. s \o <<register>> = Append(s \o << >>, register)
        BY <3>1, <3>2
      <3> QED BY <3>3 DEF s
    <2>3. Actual(c)' = RunInstr(Actual(c), Head(distribution))
      <3>1. RunInstr(Actual(c), Head(distribution))
                = [Actual(c) EXCEPT !.results = Append(@, Actual(c).register)]
        BY <2>1, <1>4 DEF RunInstr
      <3>2. reporting = << >>
        BY <2>1, <1>4
      <3> QED BY <3>1, <3>2, <2>1, <2>2, <1>1, <1>2 DEF Actual
    <2> QED BY <2>1, <2>3, <1>1, FetchInStep
  <1>9. CASE Report
    <2>1. /\ reduction' = reduction \o reporting /\ reporting' = << >>
          /\ UNCHANGED <<localStore, register, distribution>>
      BY <1>9 DEF Report
    <2>2. Received(c) \o (reduction \o reporting) \o << >>
              = Received(c) \o reduction \o reporting
      BY <1>3
    <2>3. Before(c)' = Before(c) /\ Current(c)' = Current(c)
      BY <1>1 DEF Before, Returns, Current
    <2>4. Actual(c)' = Actual(c)
      BY <2>1, <2>2, <1>1, <1>2 DEF Actual
    <2>5. Sequential(c)' = Sequential(c)
      BY <2>3, <1>1 DEF Sequential, RowsWritten
    <2>6. RowsRead(c)' /\ RowsToStore(c)'
      BY <2>3, <1>1 DEF InStep, RowsRead, RowsToStore
    <2> QED BY <2>1, <2>3, <2>4, <2>5, <2>6, StaysInStep
  <1>10. CASE Throw
    BY <1>10, <1>4 DEF Throw
  <1> QED BY <1>5, <1>6, <1>7, <1>8, <1>9, <1>10 DEF CoreStep

\* What may still be waiting to be executed leaves the rows of a transfer alone,
\* if the program synchronises: the last reduction whose result was read has
\* been fetched.
LEMMA PendingApart ==
    ASSUME IInv, NEW c \in Client, Counted(c), call[c].at \in Transfers,
           Synchronised(program[c], Returns(c) + 1)
    PROVE  \A i \in 1..Len(distribution) :
               \/ distribution[i].op = "IWRITE"
               \/ distribution[i].op = "IREAD" /\ call[c].at = "write"
               => distribution[i].arg \notin
                      Current(c).row..(Current(c).row + CountOf(Current(c)) - 1)
  <1> DEFINE n == Returns(c) + 1
             words == WordsSent(program[c])[n - 1]
             read == ResultsRead(program[c])[n - 1]
             first == UpToReduction(words, read) + 1
             uses == IF Current(c).type = "write" THEN {"IREAD", "IWRITE"} ELSE {"IWRITE"}
             rows == Current(c).row..(Current(c).row + CountOf(Current(c)) - 1)
  <1>1. ~Finished(c) /\ Current(c).type = call[c].at /\ Current(c).type \in Transfers
    BY HolderFacts
  <1>2. /\ n \in Nat /\ n \in 1..n /\ n - 1 = Returns(c)
        /\ program[c][n] = Current(c)
    <2>1. Returns(c) \in Nat
      BY CallFacts
    <2> QED BY <2>1 DEF Current, Returns
  <1>3. \A i \in first..Len(words) : words[i].op \in uses => words[i].arg \notin rows
    BY <1>1, <1>2 DEF Synchronised
  <1>4. call[c].at # "execute" /\ call[c].at # "reduce"
    BY DEF Transfers
  <1>5. words = WordsBefore(c) /\ words = Words(c) /\ words \in Seq(Word)
    BY <1>2, <1>4, CallFacts DEF WordsBefore, Words
  <1>6. Len(words) \in Nat /\ SentWords(c) = Len(words)
    <2>1. Len(words) \in Nat
      BY <1>5
    <2> QED BY <2>1, <1>4, <1>5 DEF SentWords
  <1>7. /\ FetchedWords(c) \in 0..Len(words)
        /\ FetchedWords(c) + Len(distribution) = Len(words)
        /\ Len(distribution) \in Nat
    BY <1>6, CallFacts DEF Counted, FetchedWords
  <1>8. Cardinality(Reductions(words, FetchedWords(c))) >= read /\ read \in Nat
    <2>1. Received(c) = << >>
      BY <1>4 DEF Received
    <2>2. Len(<< >>) = 0
      OBVIOUS
    <2>3. read \in Nat /\ ReceivedCount(c) = read + 0
      BY <2>1, <2>2, <1>2 DEF ReceivedCount, Counted
    <2>4. Len(reduction) \in Nat /\ Len(reporting) \in Nat
      <3>1. reduction \in Seq(Value) /\ reporting \in Seq(Value)
        BY ActualTyped
      <3> QED BY <3>1
    <2>5. Cardinality(Reductions(words, FetchedWords(c)))
              = ReceivedCount(c) + Len(reduction) + Len(reporting)
      BY <1>5 DEF Counted
    <2> QED BY <2>3, <2>4, <2>5
  <1>9. UpToReduction(words, read) \in 0..FetchedWords(c)
    BY <1>6, <1>7, <1>8, UpToReached
  <1> SUFFICES ASSUME NEW i \in 1..Len(distribution),
                      \/ distribution[i].op = "IWRITE"
                      \/ distribution[i].op = "IREAD" /\ call[c].at = "write"
               PROVE  distribution[i].arg \notin rows
    OBVIOUS
  <1>10. distribution[i] = words[FetchedWords(c) + i]
    BY <1>5 DEF Counted
  <1> HIDE DEF words, read
  <1>11. FetchedWords(c) + i \in first..Len(words)
    BY <1>7, <1>9
  <1>12. words[FetchedWords(c) + i].op \in uses
    BY <1>1, <1>10
  <1> QED BY <1>3, <1>10, <1>11, <1>12

\* writeDataToConnex() or readDataFromConnex() begins: no row has been moved.
LEMMA StartTransferInStep ==
    ASSUME IInv, NEW c \in Client, InStep(c), StartTransfer(c), UNCHANGED threadVars
    PROVE  InStep(c)'
  <1>1. /\ HostOK /\ call[c] = Idle /\ call[c].at = "idle" /\ ~Finished(c)
        /\ Current(c).type \in Transfers /\ threadMutex = NoClient
        /\ UNCHANGED <<program, answers, distribution, reduction, ioRead>>
        /\ UNCHANGED <<localStore, register, reporting, io>>
    BY DEF StartTransfer, Calls, IInv, TypeOK, HostOK, Calling, Idle, pipeVars, threadVars
  <1>2. ioRead = << >> /\ io = Waiting /\ io.at = "idle"
    BY <1>1 DEF IInv, Transferring, Waiting
  <1>3. Before(c)' = Before(c) /\ Sequential(c) = Before(c) /\ Received(c) = << >>
    BY <1>1 DEF Before, Returns, Sequential, Received
  <1>4. CASE Enter(c)
    <2>1. call'[c] = [at |-> Current(c).type, sent |-> 0, got |-> << >>]
      BY <1>1, <1>4, EnterFacts
    <2>2. call'[c].at = Current(c).type /\ call'[c].got = << >>
      BY <2>1
    <2>3. call'[c].at # "execute" /\ call'[c].at # "reduce"
      BY <2>2, <1>1 DEF Transfers
    <2>4. Actual(c)' = Actual(c)
      BY <1>1, <1>3, <2>3 DEF Actual, Received
    <2>5. RowsWritten(c)' = 0
      BY <1>1, <1>2, <2>2 DEF RowsWritten
    <2>6. \A store \in [0..(Rows - 1) -> Value] : Written(store, Current(c)', 0) = store
      <3> TAKE store \in [0..(Rows - 1) -> Value]
      <3>1. Current(c)' = Current(c)
        BY <1>1 DEF Current
      <3>2. Current(c).row \in Nat
        BY <1>1, CurrentFacts, TransferFacts
      <3>3. \A row \in 0..(Rows - 1) :
                row \notin Current(c).row..(Current(c).row + 0 - 1)
        BY <3>2
      <3> QED BY <3>1, <3>3 DEF Written
    <2>7. Sequential(c)' = Before(c)
      <3>1. Before(c) \in Machine
        BY DEF InStep
      <3>2. [Before(c) EXCEPT !.store = Written(@, Current(c)', 0)] = Before(c)
        BY <3>1, <2>6 DEF Machine
      <3> QED BY <3>2, <1>3, <2>3, <2>5 DEF Sequential
    <2>8. RowsRead(c)'
      <3>1. call'[c].got \o ioRead' = << >>
        <4>1. << >> \o << >> = << >>
          OBVIOUS
        <4> QED BY <4>1, <1>1, <1>2, <2>2
      <3>2. Len(<< >>) = 0
        OBVIOUS
      <3> QED BY <3>1, <3>2 DEF RowsRead
    <2>9. RowsToStore(c)'
      BY <1>1, <1>2 DEF RowsToStore
    <2> QED BY <1>1, <1>3, <2>4, <2>7, <2>8, <2>9, StaysInStep
  <1>5. CASE UNCHANGED call
    <2>1. Actual(c)' = Actual(c) /\ Sequential(c)' = Sequential(c)
      BY <1>1, <1>3, <1>5 DEF Actual, Received, Sequential
    <2>2. call'[c].at \notin Transfers
      BY <1>1, <1>5 DEF Transfers
    <2> QED BY <1>1, <1>3, <2>1, <2>2, NoTransfer, StaysInStep
  <1> QED BY <1>4, <1>5 DEF StartTransfer

\* What was written to ioWrite is not stored yet.
LEMMA SendItemInStep ==
    ASSUME IInv, NEW c \in Client, InStep(c), SendItem(c), UNCHANGED threadVars
    PROVE  InStep(c)'
  <1>1. /\ HostOK /\ call[c].at \in Transfers
        /\ UNCHANGED <<program, answers, distribution, reduction, ioRead>>
        /\ UNCHANGED <<localStore, register, reporting, io>>
        /\ UNCHANGED call \/ call' = [call EXCEPT ![c].sent = @ + 1]
    BY DEF SendItem, BrokenPipe, Within, IInv, TypeOK, pipeVars, threadVars
  <1>2. call'[c].at = call[c].at /\ call'[c].got = call[c].got
    BY <1>1, CallStep
  <1>3. call[c].at # "execute" /\ call[c].at # "reduce"
    BY <1>1 DEF Transfers
  <1>4. Before(c)' = Before(c) /\ Current(c)' = Current(c)
    BY <1>1 DEF Before, Returns, Current
  <1>5. Actual(c)' = Actual(c) /\ RowsWritten(c)' = RowsWritten(c)
    BY <1>1, <1>2, <1>4 DEF Actual, Received, RowsWritten
  <1>6. Sequential(c)' = Sequential(c)
    BY <1>2, <1>3, <1>4, <1>5 DEF Sequential
  <1>7. RowsRead(c)' /\ RowsToStore(c)'
    BY <1>1, <1>2, <1>4 DEF InStep, RowsRead, RowsToStore
  <1> QED BY <1>1, <1>4, <1>5, <1>6, <1>7, StaysInStep

\* A row that is received is still the row that was sent before those in ioRead.
LEMMA ReceiveItemInStep ==
    ASSUME IInv, NEW c \in Client, InStep(c), ReceiveItem(c), UNCHANGED threadVars
    PROVE  InStep(c)'
  <1>1. /\ HostOK /\ call[c].at \in Transfers /\ ioRead # << >>
        /\ ioRead' = Tail(ioRead)
        /\ UNCHANGED <<program, answers, distribution, reduction>>
        /\ UNCHANGED <<localStore, register, reporting, io>>
        /\ call' = [call EXCEPT ![c].got = Append(@, Head(ioRead))]
    BY DEF ReceiveItem, Within, IInv, TypeOK, threadVars
  <1>2. /\ call'[c].at = call[c].at /\ call'[c].got = Append(call[c].got, Head(ioRead))
    BY <1>1, CallStep
  <1>3. call[c].at # "execute" /\ call[c].at # "reduce"
    BY <1>1 DEF Transfers
  <1>4. Before(c)' = Before(c) /\ Current(c)' = Current(c)
    BY <1>1 DEF Before, Returns, Current
  <1>5. /\ call'[c].got \o ioRead' = call[c].got \o ioRead
        /\ call'[c].got # << >>
    <2>1. call[c].got \in Seq(Value) /\ ioRead \in Seq(Value)
      BY CallFacts DEF IInv, TypeOK, PipesOK
    <2>2. Head(ioRead) \in Value
      BY <2>1, <1>1
    <2>3. Append(call[c].got, Head(ioRead)) \o Tail(ioRead) = call[c].got \o ioRead
      BY <2>1, <1>1, Shifted
    <2>4. Append(call[c].got, Head(ioRead)) # << >>
      <3>1. \A q \in Seq(Value), x \in Value : Append(q, x) # << >>
        <4> TAKE q \in Seq(Value), x \in Value
        <4>1. Len(Append(q, x)) = Len(q) + 1 /\ Len(q) \in Nat
          OBVIOUS
        <4>2. Len(<< >>) = 0
          OBVIOUS
        <4>3. Len(Append(q, x)) # 0
          BY <4>1
        <4> QED BY <4>2, <4>3
      <3> QED BY <3>1, <2>1, <2>2
    <2> QED BY <2>3, <2>4, <1>1, <1>2
  <1>6. Actual(c)' = Actual(c) /\ RowsWritten(c)' = RowsWritten(c)
    BY <1>1, <1>2, <1>3, <1>4, <1>5 DEF Actual, Received, RowsWritten
  <1>7. Sequential(c)' = Sequential(c)
    BY <1>2, <1>3, <1>4, <1>6 DEF Sequential
  <1>8. RowsRead(c)'
    BY <1>2, <1>4, <1>5 DEF InStep, RowsRead
  <1>9. RowsToStore(c)'
    BY <1>1, <1>2, <1>4 DEF InStep, RowsToStore
  <1> QED BY <1>1, <1>4, <1>6, <1>7, <1>8, <1>9, StaysInStep

\* A transfer returns: all rows are stored, or have been received.
LEMMA TransferReturnsInStep ==
    ASSUME IInv, IInv', KernelsRun, NEW c \in Client, InStep(c),
           TransferReturns(c), UNCHANGED threadVars
    PROVE  InStep(c)'
  <1> DEFINE r == Current(c)
             got == call[c].got
             a == Returned(IF r.type = "read" THEN got ELSE << >>)
             b == Before(c)
  <1>1. /\ call[c].at \in Transfers /\ Len(got) = AwaitedOf(r)
        /\ Answer(c, a)
        /\ UNCHANGED <<program, distribution, reduction, localStore, register, reporting>>
    BY DEF TransferReturns, Within, threadVars, pipeVars
  <1>2. /\ HostOK /\ ~Finished(c) /\ r \in Requests /\ r.type = call[c].at
        /\ got \in Seq(Value) /\ r.row + CountOf(r) <= Rows
    BY <1>1, HolderFacts
  <1>3. a \in Answered
    <2>1. << >> \in Seq(Value)
      OBVIOUS
    <2> QED BY <2>1, <1>2 DEF Returned, Answered
  <1>4. /\ call'[c] = Idle /\ Returns(c)' = Returns(c) + 1
        /\ answers'[c] = Append(answers[c], a)
    BY <1>1, <1>2, <1>3, AnswerFacts DEF Returns
  <1>5. Received(c) = << >> /\ call[c].at # "execute"
    BY <1>1 DEF Received, Transfers
  <1>6. ioRead = << >> /\ io = Waiting /\ io.at = "idle"
    BY TransferEnds DEF Waiting
  <1>7. Before(c)' = RunCall(b, r)
    <2>1. Before(c)' = RunCalls(program[c])[Returns(c) + 1]
      BY <1>1, <1>4 DEF Before
    <2> QED BY <2>1, <1>2, NextCallFacts DEF Before
  <1>8. b \in Machine /\ r.row \in Nat
    BY <1>1, <1>2, TransferFacts DEF InStep
  <1>9. Before(c)' = Answering(Sequential(c), a)
    <2>1. CASE r.type = "write"
      <3>1. CountOf(r) = Len(r.data) /\ CountOf(r) \in Nat
        BY <2>1, <1>1, <1>2, TransferFacts
      <3>2. RowsWritten(c) = CountOf(r)
        <4>1. Len(got) = 1
          BY <2>1, <1>1 DEF AwaitedOf
        <4>2. got # << >>
          BY <4>1
        <4> QED BY <4>2, <1>6 DEF RowsWritten
      <3>3. Sequential(c) = [b EXCEPT !.store = Written(@, r, CountOf(r))]
        BY <2>1, <3>2, <1>2 DEF Sequential
      <3>4. Written(b.store, r, CountOf(r))
                = [row \in 0..(Rows - 1) |->
                      LET i == row - r.row + 1 IN
                      IF i \in 1..Len(r.data) THEN r.data[i] ELSE b.store[row]]
        <4> DEFINE n == CountOf(r)
                   first == r.row
                   data == r.data
                   store == b.store
        <4>1. \A row \in 0..(Rows - 1) :
                  row \in first..(first + n - 1) <=> row - first + 1 \in 1..n
          <5>1. n \in Nat /\ first \in Nat
            BY <3>1, <1>8
          <5> HIDE DEF n, first
          <5> QED BY <5>1
        <4>2. n = Len(data)
          BY <3>1
        <4> HIDE DEF n, first, data, store
        <4>3. [row \in 0..(Rows - 1) |->
                  IF row \in first..(first + n - 1) THEN data[row - first + 1] ELSE store[row]]
              = [row \in 0..(Rows - 1) |->
                  LET i == row - first + 1 IN
                  IF i \in 1..Len(data) THEN data[i] ELSE store[row]]
          BY <4>1, <4>2
        <4> QED BY <4>3 DEF Written, n, first, data, store
      <3>5. a = Returned(<< >>)
        BY <2>1
      <3>6. Before(c)'
                = Answering([b EXCEPT !.store =
                                [row \in 0..(Rows - 1) |->
                                    LET i == row - r.row + 1 IN
                                    IF i \in 1..Len(r.data) THEN r.data[i] ELSE @[row]]],
                            Returned(<< >>))
        BY <2>1, <1>7 DEF RunCall
      <3> HIDE DEF a, b, r
      <3> QED BY <3>3, <3>4, <3>5, <3>6
    <2>2. CASE r.type = "read"
      <3>1. Sequential(c) = b
        BY <2>2, <1>2 DEF Sequential
      <3>2. a = Returned(got) /\ Len(got) = r.count
        BY <2>2, <1>1 DEF AwaitedOf
      <3>3. \A j \in 1..Len(got) : got[j] = b.store[r.row + j - 1]
        <4>1. got \o ioRead = got
          BY <1>2, <1>6
        <4> QED BY <4>1, <2>2, <1>2 DEF InStep, RowsRead
      <3>4. got = [i \in 1..r.count |-> b.store[r.row + i - 1]]
        <4> HIDE DEF b, r, got
        <4>1. got = [i \in 1..Len(got) |-> got[i]]
          BY <1>2
        <4> QED BY <4>1, <3>2, <3>3
      <3> HIDE DEF b
      <3> QED BY <2>2, <3>1, <3>2, <3>4, <1>7 DEF RunCall
    <2> QED BY <2>1, <2>2, <1>1, <1>2 DEF Transfers
  <1> HIDE DEF a
  <1> QED BY <1>1, <1>3, <1>4, <1>5, <1>9, AnswerInStep

\* The descriptor is received, or a row of a write: nothing is stored yet.
LEMMA TakeInStep ==
    ASSUME IInv, NEW c \in Client, InStep(c), Receive \/ Collect, UNCHANGED hostVars
    PROVE  InStep(c)'
  <1>1. /\ UNCHANGED <<program, answers, call, distribution, reduction>>
        /\ UNCHANGED <<localStore, register, reporting>>
        /\ ioWrite # << >>
    BY DEF Receive, Collect, hostVars
  <1>2. Before(c)' = Before(c) /\ Actual(c)' = Actual(c) /\ Current(c)' = Current(c)
    BY <1>1 DEF Before, Returns, Actual, Received, Current
  <1>3. CASE call[c].at \notin Transfers
    <2>1. Sequential(c)' = Sequential(c)
      BY <1>1, <1>2, <1>3 DEF Sequential, Transfers
    <2> QED BY <1>1, <1>2, <1>3, <2>1, NoTransfer, StaysInStep
  <1>4. CASE call[c].at \in Transfers
    <2> DEFINE r == Current(c)
    <2>1. r \in Requests /\ r.type = call[c].at /\ r.row \in Nat
      BY <1>4, HolderFacts, TransferFacts
    <2>2. CASE Receive
      <3>1. io.at = "idle" /\ ioRead = << >> /\ ioRead' = << >> /\ call[c].got = << >>
            /\ io'.at = r.type
        BY <2>2, <1>4, ReceiveFacts DEF Receive
      <3>2. io'.at # "store" /\ io'.at # "ack"
        BY <3>1, <2>1, <1>4 DEF Transfers
      <3>3. RowsWritten(c)' = RowsWritten(c)
        BY <3>1, <3>2, <1>1 DEF RowsWritten
      <3>4. Sequential(c)' = Sequential(c)
        BY <3>3, <1>1, <1>2 DEF Sequential
      <3>5. RowsRead(c)' /\ RowsToStore(c)'
        BY <3>1, <3>2, <1>1, <1>2 DEF InStep, RowsRead, RowsToStore
      <3> QED BY <1>1, <1>2, <3>4, <3>5, StaysInStep
    <2>3. CASE Collect
      <3> DEFINE taken == call[c].sent - Len(ioWrite)
      <3>1. /\ io.at = "write" /\ ioRead = << >> /\ call[c].got = << >>
            /\ io'.row = r.row /\ io'.at \in {"store", "write"}
            /\ Len(io'.rows) = taken /\ taken \in 1..CountOf(r)
            /\ \A k \in 1..taken : io'.rows[k] = r.data[k]
        BY <2>3, <1>4, CollectFacts DEF Collecting
      <3>2. ioRead' = ioRead
        BY <2>3 DEF Collect
      <3>3. RowsWritten(c)' = RowsWritten(c)
        <4>1. r.row - r.row = 0
          BY <2>1
        <4> QED BY <4>1, <3>1, <3>2, <1>1, <1>2 DEF RowsWritten
      <3>4. Sequential(c)' = Sequential(c)
        BY <3>3, <1>1, <1>2 DEF Sequential
      <3>5. RowsRead(c)'
        BY <3>2, <1>1, <1>2 DEF InStep, RowsRead
      <3>6. RowsToStore(c)'
        <4>1. r.row <= io'.row
          BY <3>1, <2>1
        <4>2. \A j \in 1..Len(io'.rows) : io'.rows[j] = r.data[io'.row - r.row + j]
          <5> TAKE j \in 1..Len(io'.rows)
          <5>1. j \in 1..taken
            BY <3>1
          <5>2. io'.row - r.row + j = j
            <6>1. taken \in Nat
              BY <3>1
            <6>2. j \in Nat
              BY <6>1, <5>1
            <6> QED BY <6>2, <3>1, <2>1
          <5> QED BY <5>1, <5>2, <3>1
        <4> QED BY <4>1, <4>2, <1>2 DEF RowsToStore
      <3> QED BY <1>1, <1>2, <3>4, <3>5, <3>6, StaysInStep
    <2> QED BY <2>2, <2>3
  <1> QED BY <1>3, <1>4

\* A row of a write is stored: no word waiting to be executed uses it.
LEMMA StoreInStep ==
    ASSUME IInv, KernelsRun, NEW c \in Client, InStep(c), Counted(c),
           call[c].at \in Transfers, Synchronised(program[c], Returns(c) + 1),
           Store, UNCHANGED hostVars
    PROVE  InStep(c)'
  <1> DEFINE r == Current(c)
             n == RowsWritten(c)
             v == Head(io.rows)
             F == [x \in Machine |-> [x EXCEPT !.store[io.row] = v]]
  <1>1. /\ io.at = "store"
        /\ localStore' = [localStore EXCEPT ![io.row] = v]
        /\ io' = [io EXCEPT !.row = @ + 1, !.rows = Tail(@),
                            !.at = IF Len(io.rows) = 1 THEN "ack" ELSE @]
        /\ UNCHANGED <<program, answers, call, distribution, reduction, ioRead>>
        /\ UNCHANGED <<register, reporting>>
    BY DEF Store, hostVars, pipeVars
  <1>2. /\ r \in Requests /\ r.type \in Transfers /\ r.type = call[c].at
        /\ r.row + CountOf(r) <= Rows /\ io \in IoState
    BY HolderFacts DEF ThreadsOK
  <1>3. /\ r.type = "write" /\ io.rows # << >>
        /\ io.row + Len(io.rows) = r.row + CountOf(r) /\ ioRead = << >>
        /\ call[c].got = << >>
    BY <1>1, AllTaken DEF Storing
  <1>4. /\ io.row \in Nat /\ io.rows \in Seq(Value) /\ r.row \in Nat
        /\ CountOf(r) \in Nat
    BY <1>2, TransferFacts DEF IoState
  <1>5. /\ r.row <= io.row
        /\ \A j \in 1..Len(io.rows) : io.rows[j] = r.data[io.row - r.row + j]
    BY <1>1, <1>2, <1>3 DEF InStep, RowsToStore
  <1>6. /\ Len(io.rows) \in Nat \ {0} /\ v = io.rows[1] /\ v \in Value
        /\ Len(Tail(io.rows)) = Len(io.rows) - 1
        /\ \A j \in 1..(Len(io.rows) - 1) : Tail(io.rows)[j] = io.rows[j + 1]
    BY <1>3, <1>4
  <1>7. /\ io'.row = io.row + 1 /\ io'.rows = Tail(io.rows)
        /\ io'.at = IF Len(io.rows) = 1 THEN "ack" ELSE "store"
    BY <1>1, <1>2 DEF IoState
  <1>8. io.row \in r.row..(r.row + CountOf(r) - 1) /\ io.row \in 0..(Rows - 1)
    <2>1. Rows \in Nat
      BY PipesAssumption
    <2> QED BY <2>1, <1>2, <1>3, <1>4, <1>5, <1>6
  <1>9. /\ Before(c)' = Before(c) /\ Current(c)' = Current(c)
        /\ Received(c)' = Received(c)
    BY <1>1 DEF Before, Returns, Received, Current
  <1>10. /\ Actual(c) \in Machine /\ Runnable(distribution)
         /\ Sequential(c) \in Machine /\ Before(c) \in Machine
    BY ActualTyped, PendingRunnable, RanTyped DEF InStep, Ran
  <1> HIDE DEF v
  <1>11. F \in [Machine -> Machine]
    <2> SUFFICES ASSUME NEW x \in Machine
                 PROVE  [x EXCEPT !.store[io.row] = v] \in Machine
      OBVIOUS
    <2>1. [x.store EXCEPT ![io.row] = v] \in [0..(Rows - 1) -> Value]
      BY <1>6 DEF Machine
    <2> QED BY <2>1 DEF Machine
  <1>12. ASSUME NEW i \in 1..Len(distribution), NEW x \in Machine
         PROVE  F[RunInstr(x, distribution[i])] = RunInstr(F[x], distribution[i])
    <2>1. distribution[i] \in Word /\ distribution[i].op # "THROW"
      BY <1>10 DEF Runnable
    <2>2. RunInstr(x, distribution[i]) \in Machine
      BY <2>1, InstrTyped
    <2>3. distribution[i].op \in {"IREAD", "IWRITE"} => distribution[i].arg # io.row
      BY <1>2, <1>3, <1>8, PendingApart
    <2> DEFINE g(y) == [y EXCEPT !.store[io.row] = v]
    <2>4. g(RunInstr(x, distribution[i])) = RunInstr(g(x), distribution[i])
      <3>1. CASE distribution[i].op = "VLOAD"
        BY <3>1 DEF RunInstr, Machine
      <3>2. CASE distribution[i].op = "RED"
        BY <3>2 DEF RunInstr, Machine
      <3>3. CASE distribution[i].op = "IREAD"
        <4>1. g(x).store[distribution[i].arg] = x.store[distribution[i].arg]
          BY <3>3, <2>3 DEF Machine
        <4> QED BY <4>1, <3>3 DEF RunInstr, Machine
      <3>4. CASE distribution[i].op = "IWRITE"
        <4> DEFINE row == distribution[i].arg
                   s == x.store
                   w == x.register
        <4>1. [[s EXCEPT ![row] = w] EXCEPT ![io.row] = v]
                  = [[s EXCEPT ![io.row] = v] EXCEPT ![row] = w]
          <5>1. row # io.row
            BY <3>4, <2>3
          <5>2. s \in [0..(Rows - 1) -> Value]
            BY DEF Machine
          <5> HIDE DEF row, s, w
          <5> QED BY <5>1, <5>2
        <4>2. RunInstr(x, distribution[i]) = [x EXCEPT !.store = [s EXCEPT ![row] = w]]
          BY <3>4 DEF RunInstr
        <4>3. RunInstr(g(x), distribution[i])
                  = [x EXCEPT !.store = [[s EXCEPT ![io.row] = v] EXCEPT ![row] = w]]
          BY <3>4 DEF RunInstr, Machine
        <4> HIDE DEF row
        <4> QED BY <4>1, <4>2, <4>3 DEF Machine
      <3> QED BY <2>1, <3>1, <3>2, <3>3, <3>4 DEF Word
    <2>5. F[x] = g(x) /\ F[RunInstr(x, distribution[i])] = g(RunInstr(x, distribution[i]))
      BY <2>2
    <2> HIDE DEF g, F
    <2> QED BY <2>4, <2>5
  <1>13. Actual(c)' = F[Actual(c)]
    <2>1. F[Actual(c)] = [Actual(c) EXCEPT !.store[io.row] = v]
      BY <1>10
    <2> HIDE DEF F
    <2> QED BY <2>1, <1>1, <1>9 DEF Actual
  <1>14. n \in Nat /\ io.row = r.row + n /\ RowsWritten(c)' = n + 1
    <2>1. n = io.row - r.row
      BY <1>1 DEF RowsWritten
    <2>2. n \in Nat /\ io.row = r.row + n
      BY <2>1, <1>4, <1>5
    <2>3. CASE Len(io.rows) = 1
      <3>1. RowsWritten(c)' = CountOf(r)
        BY <2>3, <1>7, <1>9 DEF RowsWritten
      <3> QED BY <3>1, <2>2, <2>3, <1>3, <1>4
    <2>4. CASE Len(io.rows) # 1
      <3>1. RowsWritten(c)' = (io.row + 1) - r.row
        BY <2>4, <1>7, <1>9 DEF RowsWritten
      <3> QED BY <3>1, <2>2, <1>4
    <2> QED BY <2>2, <2>3, <2>4
  <1>15. v = r.data[(r.row + n) - r.row + 1]
    <2>1. 1 \in 1..Len(io.rows)
      BY <1>6
    <2>2. v = r.data[io.row - r.row + 1]
      BY <2>1, <1>5, <1>6
    <2> QED BY <2>2, <1>14
  <1>16. Sequential(c)' = F[Sequential(c)]
    <2> DEFINE b == Before(c)
               store == b.store
               before == Written(store, r, n)
               after == Written(store, r, n + 1)
    <2>1. /\ Sequential(c) = [b EXCEPT !.store = before]
          /\ Sequential(c)' = [b EXCEPT !.store = after]
      BY <1>1, <1>2, <1>3, <1>9, <1>14 DEF Sequential
    <2>2. after = [before EXCEPT ![io.row] = v]
      <3> DEFINE first == r.row
                 data == r.data
      <3>1. \A row \in 0..(Rows - 1) :
                row \in first..(first + (n + 1) - 1)
                    <=> row \in first..(first + n - 1) \/ row = first + n
        <4>1. n \in Nat /\ first \in Nat
          BY <1>4, <1>14
        <4> HIDE DEF n, first
        <4> QED BY <4>1
      <3>2. v = data[(first + n) - first + 1] /\ io.row = first + n
        BY <1>14, <1>15
      <3> HIDE DEF n, first, data, store
      <3>3. [row \in 0..(Rows - 1) |->
                IF row \in first..(first + (n + 1) - 1) THEN data[row - first + 1]
                ELSE store[row]]
            = [[row \in 0..(Rows - 1) |->
                  IF row \in first..(first + n - 1) THEN data[row - first + 1]
                  ELSE store[row]] EXCEPT ![first + n] = v]
        BY <3>1, <3>2
      <3> QED BY <3>2, <3>3 DEF Written, first, data
    <2>3. F[Sequential(c)] = [Sequential(c) EXCEPT !.store[io.row] = v]
      BY <1>10
    <2> HIDE DEF F, before, after
    <2>4. [[b EXCEPT !.store = before] EXCEPT !.store[io.row] = v]
              = [b EXCEPT !.store = [before EXCEPT ![io.row] = v]]
      BY <1>10 DEF Machine
    <2> QED BY <2>1, <2>2, <2>3, <2>4
  <1>17. Ran(c)'
    <2>1. Len(distribution) \in 0..Len(distribution)
      BY <1>10 DEF Runnable
    <2> HIDE DEF F
    <2>2. RunWords(F[Actual(c)], distribution)[Len(distribution)]
              = F[RunWords(Actual(c), distribution)[Len(distribution)]]
      BY <2>1, <1>10, <1>11, <1>12, RunCommutes
    <2> QED BY <2>2, <1>1, <1>13, <1>16 DEF InStep, Ran
  <1>18. RowsRead(c)'
    BY <1>1, <1>2, <1>3 DEF RowsRead
  <1>19. RowsToStore(c)'
    <2>1. r.row <= io'.row
      BY <1>4, <1>5, <1>7
    <2>2. \A j \in 1..Len(io'.rows) : io'.rows[j] = r.data[io'.row - r.row + j]
      <3> TAKE j \in 1..Len(io'.rows)
      <3>1. j \in 1..(Len(io.rows) - 1) /\ j + 1 \in 1..Len(io.rows)
        BY <1>6, <1>7
      <3>2. io'.row - r.row + j = io.row - r.row + (j + 1)
        <4>1. \A x, y, z \in Int : (x + 1) - y + z = x - y + (z + 1)
          OBVIOUS
        <4>2. j \in Int /\ io.row \in Int /\ r.row \in Int /\ io'.row = io.row + 1
          BY <3>1, <1>4, <1>6, <1>7
        <4> HIDE DEF r
        <4> QED BY ONLY <4>1, <4>2
      <3> QED BY <3>1, <3>2, <1>5, <1>6, <1>7
    <2> QED BY <2>1, <2>2, <1>9 DEF RowsToStore
  <1> QED BY <1>9, <1>10, <1>17, <1>18, <1>19 DEF InStep

\* The write is acknowledged.
LEMMA AcknowledgeInStep ==
    ASSUME IInv, NEW c \in Client, InStep(c), call[c].at \in Transfers,
           Acknowledge, UNCHANGED hostVars
    PROVE  InStep(c)'
  <1>1. /\ io.at = "ack" /\ ioRead' = Append(ioRead, Zero) /\ io' = Waiting
        /\ UNCHANGED <<program, answers, call, distribution, reduction>>
        /\ UNCHANGED <<localStore, register, reporting>>
    BY DEF Acknowledge, hostVars
  <1>2. Current(c).type = "write" /\ Current(c).type = call[c].at
    BY <1>1, AllTaken, HolderFacts DEF Acknowledging
  <1>3. /\ Before(c)' = Before(c) /\ Actual(c)' = Actual(c)
        /\ Current(c)' = Current(c)
    BY <1>1 DEF Before, Returns, Actual, Received, Current
  <1>4. io'.at = "idle" /\ ioRead' # << >>
    <2>1. ioRead \in Seq(Value) /\ Zero \in Value
      BY PipesAssumption DEF IInv, TypeOK, PipesOK
    <2> QED BY <2>1, <1>1 DEF Waiting
  <1>5. RowsWritten(c)' = RowsWritten(c)
    BY <1>1, <1>3, <1>4 DEF RowsWritten
  <1>6. Sequential(c)' = Sequential(c)
    BY <1>1, <1>3, <1>5 DEF Sequential
  <1>7. RowsRead(c)' /\ RowsToStore(c)'
    BY <1>1, <1>2, <1>4 DEF RowsRead, RowsToStore
  <1> QED BY <1>1, <1>3, <1>6, <1>7, StaysInStep

\* A row is sent: no word waiting to be executed stores to it.
LEMMA SendInStep ==
    ASSUME IInv, KernelsRun, NEW c \in Client, InStep(c), Counted(c),
           call[c].at \in Transfers, Synchronised(program[c], Returns(c) + 1),
           Send, UNCHANGED hostVars
    PROVE  InStep(c)'
  <1> DEFINE r == Current(c)
             got == call[c].got
             rows == got \o ioRead
             v == localStore[io.row]
  <1>1. /\ io.at = "read" /\ ioRead' = Append(ioRead, v)
        /\ io' = IF io.count = 1 THEN Waiting
                 ELSE [io EXCEPT !.row = @ + 1, !.count = @ - 1]
        /\ UNCHANGED <<program, answers, call, distribution, reduction>>
        /\ UNCHANGED <<localStore, register, reporting>>
    BY DEF Send, hostVars
  <1>2. /\ r \in Requests /\ r.type \in Transfers /\ r.type = call[c].at
        /\ r.row + CountOf(r) <= Rows /\ io \in IoState
        /\ got \in Seq(Value) /\ ioRead \in Seq(Value)
        /\ localStore \in [0..(Rows - 1) -> Value]
    BY HolderFacts DEF ThreadsOK, PipesOK
  <1>3. /\ r.type = "read" /\ io.count \in 1..CountOf(r)
        /\ io.row + io.count = r.row + CountOf(r)
        /\ Len(ioRead) + Len(got) = CountOf(r) - io.count
    BY <1>1, AllTaken DEF Sending
  <1>4. /\ io.row \in Nat /\ r.row \in Nat /\ CountOf(r) \in Nat
        /\ Len(got) \in Nat /\ Len(ioRead) \in Nat
    BY <1>2, TransferFacts DEF IoState
  <1>5. io.row = r.row + (Len(got) + Len(ioRead))
    <2>1. \A a, k, f, m, x, y \in Int : a + k = f + m /\ x + y = m - k => a = f + (y + x)
      OBVIOUS
    <2>2. io.count \in Int /\ Len(got) \in Int /\ Len(ioRead) \in Int /\ io.row \in Int
          /\ r.row \in Int /\ CountOf(r) \in Int
      BY <1>3, <1>4
    <2> DEFINE a == io.row  k == io.count  f == r.row  m == CountOf(r)
               x == Len(ioRead)  y == Len(got)
    <2>3. a \in Int /\ k \in Int /\ f \in Int /\ m \in Int /\ x \in Int /\ y \in Int
      BY <1>4, <2>2
    <2>4. a + k = f + m /\ x + y = m - k
      BY <1>3
    <2> HIDE DEF a, k, f, m, x, y
    <2>5. a = f + (y + x)
      BY ONLY <2>1, <2>3, <2>4
    <2> QED BY <2>5 DEF a, k, f, m, x, y
  <1>6. io.row \in r.row..(r.row + CountOf(r) - 1) /\ io.row \in 0..(Rows - 1)
    <2>1. Rows \in Nat /\ r.row <= io.row
      BY PipesAssumption, <1>4, <1>5
    <2>2. io.count \in Int /\ 1 <= io.count /\ io.row + io.count = r.row + CountOf(r)
      BY <1>3, <1>4
    <2>3. r.row + CountOf(r) <= Rows
      BY <1>2
    <2> DEFINE a == io.row  k == io.count  f == r.row  e == CountOf(r)
    <2>4. /\ a \in Nat /\ k \in Int /\ f \in Nat /\ e \in Nat /\ Rows \in Nat
          /\ f <= a /\ 1 <= k /\ a + k = f + e /\ f + e <= Rows
      BY <1>4, <2>1, <2>2, <2>3
    <2> HIDE DEF a, k, f, e
    <2>5. a \in f..(f + e - 1) /\ a \in 0..(Rows - 1)
      BY ONLY <2>4
    <2> QED BY <2>5 DEF a, f, e
  <1>7. v \in Value
    BY <1>2, <1>6
  <1>8. v = Before(c).store[io.row]
    <2>1. Actual(c) \in Machine /\ Runnable(distribution)
      BY ActualTyped, PendingRunnable
    <2>2. \A i \in 1..Len(distribution) :
              distribution[i].op = "IWRITE" => distribution[i].arg # io.row
      BY <1>6, PendingApart
    <2>3. RunWords(Actual(c), distribution)[Len(distribution)].store[io.row]
              = Actual(c).store[io.row]
      BY <2>1, <2>2, <1>6, RunKeeps
    <2>4. Sequential(c) = Before(c)
      BY <1>2, <1>3 DEF Sequential
    <2>5. Actual(c).store[io.row] = v
      BY DEF Actual
    <2> QED BY <2>3, <2>4, <2>5 DEF InStep, Ran
  <1>9. /\ Before(c)' = Before(c) /\ Actual(c)' = Actual(c)
        /\ Current(c)' = Current(c)
    BY <1>1 DEF Before, Returns, Actual, Received, Current
  <1>10. Sequential(c)' = Sequential(c)
    BY <1>1, <1>2, <1>3, <1>9 DEF Sequential
  <1>11. RowsRead(c)'
    <2> HIDE DEF v
    <2>1. got \o Append(ioRead, v) = Append(rows, v)
      <3> HIDE DEF got
      <3> QED BY <1>2, <1>7, AppendedLast
    <2>2. rows \in Seq(Value) /\ Len(rows) = Len(got) + Len(ioRead)
      <3> HIDE DEF got
      <3> QED BY <1>2, BeginsWith
    <2>3. \A j \in 1..Len(rows) : rows[j] = Before(c).store[r.row + j - 1]
      BY <1>2, <1>3 DEF InStep, RowsRead
    <2> HIDE DEF rows
    <2>4. /\ Len(Append(rows, v)) = Len(rows) + 1 /\ Append(rows, v)[Len(rows) + 1] = v
          /\ \A j \in 1..Len(rows) : Append(rows, v)[j] = rows[j]
          /\ Len(rows) \in Nat
      BY <2>2, <1>7
    <2>5. r.row + (Len(rows) + 1) - 1 = io.row
      BY <2>2, <2>4, <1>4, <1>5
    <2>6. \A j \in 1..(Len(rows) + 1) :
              Append(rows, v)[j] = Before(c).store[r.row + j - 1]
      <3> TAKE j \in 1..(Len(rows) + 1)
      <3>1. CASE j = Len(rows) + 1
        BY <3>1, <2>4, <2>5, <1>8
      <3>2. CASE j \in 1..Len(rows)
        BY <3>2, <2>3, <2>4
      <3> QED BY <3>1, <3>2, <2>4
    <2> HIDE DEF r, got
    <2>7. call'[c].got \o ioRead' = Append(rows, v)
      BY <2>1, <1>1 DEF got, v
    <2> QED BY <2>4, <2>6, <2>7, <1>9 DEF RowsRead, r
  <1>12. RowsToStore(c)'
    BY <1>1, <1>2, <1>3 DEF RowsToStore
  <1> QED BY <1>1, <1>9, <1>10, <1>11, <1>12, StaysInStep

\* If one call more is synchronised, so are those before it.
LEMMA FewerSynchronised ==
    ASSUME NEW requests, NEW k \in Nat, NEW n \in Nat, k <= n, Synchronised(requests, n)
    PROVE  Synchronised(requests, k)
  <1>1. 1..k \subseteq 1..n
    OBVIOUS
  <1> QED BY <1>1 DEF Synchronised

\* What a step begins is synchronised already, if what has begun then is.
LEMMA BegunBefore ==
    ASSUME IInv, NEW c \in Client, [Next]_systemVars, Alone(c),
           Synchronised(program[c], Begun(c))'
    PROVE  Synchronised(program[c], Begun(c))
  <1>1. /\ HostOK /\ Returns(c) \in Nat
        /\ call[c].at # "idle" => ~Finished(c)
        /\ call[c].at = "idle" => call[c] = Idle
    BY CallFacts DEF IInv, TypeOK, Calling
  <1>2. program' = program
    BY ProgramKept
  <1>0. Begun(c) \in Nat
    BY <1>1 DEF Begun
  <1>3. answers' = answers /\ call' = call => Begun(c)' \in Nat /\ Begun(c) <= Begun(c)'
    <2>1. answers' = answers /\ call' = call => Begun(c)' = Begun(c)
      BY DEF Begun, Returns
    <2> QED BY <2>1, <1>0
  <1>4. call[c].at # "idle" /\ call'[c].at = call[c].at /\ answers' = answers
            => Begun(c)' \in Nat /\ Begun(c) <= Begun(c)'
    <2>1. call[c].at # "idle" /\ call'[c].at = call[c].at /\ answers' = answers
              => Begun(c)' = Begun(c)
      BY DEF Begun, Returns
    <2> QED BY <2>1, <1>0
  <1>5. ASSUME call[c].at = "idle", ~Finished(c), Enter(c), UNCHANGED answers
        PROVE  Begun(c)' \in Nat /\ Begun(c) <= Begun(c)'
    <2>1. Returns(c)' = Returns(c)
      BY <1>5 DEF Returns
    <2> QED BY <2>1, <1>1, <1>5 DEF Begun
  <1>6. ASSUME NEW a \in Answered, ~Finished(c), Answer(c, a)
        PROVE  Begun(c)' \in Nat /\ Begun(c) <= Begun(c)'
    <2>1. call'[c] = Idle /\ Returns(c)' = Returns(c) + 1
      BY <1>1, <1>6, AnswerFacts DEF Returns
    <2> QED BY <2>1, <1>1 DEF Begun, Idle
  <1>7. Begun(c)' \in Nat /\ Begun(c) <= Begun(c)'
    <2>1. CASE UNCHANGED systemVars
      BY <2>1, <1>3 DEF systemVars, hostVars
    <2>2. CASE (CoreStep \/ IoStep) /\ UNCHANGED hostVars
      BY <2>2, <1>3 DEF hostVars
    <2>3. CASE ClientStep(c)
      <3>1. CASE Execute(c)
        <4>1. Threw \in Answered
          BY DEF Threw, Answered
        <4>2. call[c].at = "idle" /\ ~Finished(c)
          BY <3>1 DEF Execute, Calls
        <4> QED BY <3>1, <4>1, <4>2, <1>5, <1>6 DEF Execute
      <3>2. CASE Reduce(c)
        BY <3>2, <1>5 DEF Reduce, Calls
      <3>3. CASE StartTransfer(c)
        BY <3>3, <1>3, <1>5 DEF StartTransfer, Calls
      <3>4. CASE SendWord(c) \/ ReceiveResult(c) \/ SendItem(c) \/ ReceiveItem(c)
        <4>1. call[c].at # "idle" /\ UNCHANGED answers
          BY <3>4 DEF SendWord, ReceiveResult, SendItem, ReceiveItem, BrokenPipe,
                      Within, Transfers
        <4>2. \/ UNCHANGED call
              \/ call' = [call EXCEPT ![c].sent = @ + 1]
              \/ \E x : call' = [call EXCEPT ![c].got = Append(@, x)]
          BY <3>4 DEF SendWord, ReceiveResult, SendItem, ReceiveItem, BrokenPipe
        <4>3. call'[c].at = call[c].at
          BY <4>2, <1>1, CallStep
        <4> QED BY <4>1, <4>3, <1>4
      <3>5. CASE ExecuteReturns(c) \/ ReduceReturns(c) \/ TransferReturns(c)
        <4>1. call[c].at # "idle"
          BY <3>5 DEF ExecuteReturns, ReduceReturns, TransferReturns, Within, Transfers
        <4>2. ~Finished(c)
          BY <4>1, <1>1
        <4>3. << >> \in Seq(Value) /\ call[c].got \in Seq(Value)
          BY CallFacts
        <4>4. \A s \in Seq(Value) : Returned(s) \in Answered
          BY DEF Returned, Answered
        <4>5. \E s \in Seq(Value) : Answer(c, Returned(s))
          BY <3>5, <4>3 DEF ExecuteReturns, ReduceReturns, TransferReturns
        <4> QED BY <4>2, <4>4, <4>5, <1>6
      <3> QED BY <2>3, <3>1, <3>2, <3>3, <3>4, <3>5 DEF ClientStep
    <2> QED BY <2>1, <2>2, <2>3, AloneSteps
  <1> QED BY <1>0, <1>2, <1>7, FewerSynchronised

\* Whatever thread takes a step.
LEMMA NextInStep ==
    ASSUME IInv, IInv', KernelsRun, NEW c \in Client, Alone(c), Counted(c),
           SequentialSoFar(c), [Next]_systemVars
    PROVE  SequentialSoFar(c)'
  <1> SUFFICES ASSUME Synchronised(program[c], Begun(c))'
               PROVE  InStep(c)'
    BY DEF SequentialSoFar
  <1>1. Synchronised(program[c], Begun(c))
    BY BegunBefore
  <1>2. InStep(c)
    BY <1>1 DEF SequentialSoFar
  <1>3. CASE UNCHANGED systemVars
    <2>1. /\ Before(c)' = Before(c) /\ Actual(c)' = Actual(c)
          /\ UNCHANGED distribution
          /\ Current(c)' = Current(c) /\ RowsWritten(c)' = RowsWritten(c)
      BY <1>3 DEF systemVars, hostVars, pipeVars, threadVars, Before, Returns, Actual,
                  Received, Current, RowsWritten
    <2>2. Sequential(c)' = Sequential(c)
      BY <1>3, <2>1 DEF systemVars, hostVars, Sequential
    <2>3. RowsRead(c)' /\ RowsToStore(c)'
      BY <1>2, <1>3, <2>1
         DEF InStep, RowsRead, RowsToStore, systemVars, hostVars, pipeVars, threadVars
    <2> QED BY <1>2, <2>1, <2>2, <2>3, StaysInStep
  <1>4. CASE ClientStep(c) /\ UNCHANGED threadVars
    <2>1. CASE Execute(c)
      BY <1>2, <1>4, <2>1, ExecuteInStep
    <2>2. CASE SendWord(c)
      BY <1>2, <1>4, <2>2, SendWordInStep
    <2>3. CASE ExecuteReturns(c)
      BY <1>2, <1>4, <2>3, ExecuteReturnsInStep
    <2>4. CASE Reduce(c)
      BY <1>2, <1>4, <2>4, ReduceInStep
    <2>5. CASE ReceiveResult(c)
      BY <1>2, <1>4, <2>5, ReceiveResultInStep
    <2>6. CASE ReduceReturns(c)
      BY <1>2, <1>4, <2>6, ReduceReturnsInStep
    <2>7. CASE StartTransfer(c)
      BY <1>2, <1>4, <2>7, StartTransferInStep
    <2>8. CASE SendItem(c)
      BY <1>2, <1>4, <2>8, SendItemInStep
    <2>9. CASE ReceiveItem(c)
      BY <1>2, <1>4, <2>9, ReceiveItemInStep
    <2>10. CASE TransferReturns(c)
      BY <1>2, <1>4, <2>10, TransferReturnsInStep
    <2> QED BY <1>4, <2>1, <2>2, <2>3, <2>4, <2>5, <2>6, <2>7, <2>8, <2>9, <2>10
            DEF ClientStep
  <1>5. CASE CoreStep /\ UNCHANGED hostVars
    BY <1>2, <1>5, CoreInStep
  <1>6. CASE IoStep /\ UNCHANGED hostVars
    <2>1. CASE Receive \/ Collect
      BY <1>2, <1>6, <2>1, TakeInStep
    <2>2. CASE Store \/ Acknowledge \/ Send
      <3>1. call[c].at \in Transfers
        <4>1. io.at # "idle"
          BY <2>2 DEF Store, Acknowledge, Send
        <4>2. PICK d \in Client : call[d].at \in Transfers
          BY <4>1, SomeHolder
        <4> QED BY <4>2, OthersIdle DEF Transfers
      <3>2. Synchronised(program[c], Returns(c) + 1)
        BY <3>1, <1>1 DEF Begun, Transfers
      <3> QED BY <1>2, <1>6, <2>2, <3>1, <3>2, StoreInStep, AcknowledgeInStep, SendInStep
    <2> QED BY <1>6, <2>1, <2>2 DEF IoStep
  <1> QED BY <1>3, <1>4, <1>5, <1>6, AloneSteps

\* Nothing has been called, and nothing is on its way.
LEMMA InitInStep ==
    ASSUME Init, NEW c \in Client
    PROVE  SequentialSoFar(c)
  <1>1. IInv
    BY InitInv
  <1>2. /\ answers[c] = << >> /\ call[c] = Idle /\ distribution = << >>
        /\ reduction = << >> /\ reporting = << >> /\ register = Zero
        /\ localStore = [row \in 0..(Rows - 1) |-> Zero]
    BY DEF Init, HostInit, PipesInit, ThreadsInit
  <1>3. call[c].at = "idle"
    BY <1>2 DEF Idle
  <1>4. Len(<< >>) = 0 /\ << >> \o << >> = << >>
    OBVIOUS
  <1>5. Len(program[c]) \in Nat /\ Returns(c) = 0
    BY <1>1, <1>2, <1>4, CallFacts DEF Returns
  <1>6. Before(c) = Fresh
    BY <1>5, RunCallsSteps DEF Before
  <1>7. Actual(c) = Fresh
    <2>1. Received(c) = << >>
      BY <1>3 DEF Received
    <2> QED BY <2>1, <1>2, <1>4 DEF Actual, Fresh
  <1>8. Before(c) \in Machine
    BY <1>1, <1>6, <1>7, ActualTyped
  <1>9. Ran(c)
    <2>1. Len(distribution) = 0
      BY <1>2, <1>4
    <2>2. RunWords(Actual(c), distribution)[0] = Actual(c)
      BY <2>1, RunWordsSteps
    <2>3. Sequential(c) = Before(c)
      BY <1>3 DEF Sequential
    <2> QED BY <2>1, <2>2, <2>3, <1>6, <1>7 DEF Ran
  <1> QED BY <1>3, <1>8, <1>9 DEF SequentialSoFar, InStep, RowsRead, RowsToStore

\* A call that returns leaves its thread idle.
LEMMA AnswersKept ==
    ASSUME IInv, NEW c \in Client, Alone(c), [Next]_systemVars
    PROVE  call'[c].at = "idle" \/ (program' = program /\ answers' = answers)
  <1>1. CASE UNCHANGED systemVars
    BY <1>1 DEF systemVars, hostVars
  <1>2. CASE (CoreStep \/ IoStep) /\ UNCHANGED hostVars
    BY <1>2 DEF hostVars
  <1>3. CASE ClientStep(c)
    <2>1. call' = [call EXCEPT ![c] = Idle] => call'[c].at = "idle"
      BY DEF Idle, IInv, TypeOK, HostOK
    <2>2. CASE ExecuteReturns(c) \/ ReduceReturns(c) \/ TransferReturns(c)
      BY <2>1, <2>2 DEF ExecuteReturns, ReduceReturns, TransferReturns, Answer
    <2>3. CASE Execute(c)
      BY <2>1, <2>3 DEF Execute, Answer
    <2>4. CASE \/ SendWord(c) \/ Reduce(c) \/ ReceiveResult(c)
               \/ StartTransfer(c) \/ SendItem(c) \/ ReceiveItem(c)
      BY <2>4 DEF SendWord, BrokenPipe, Reduce, ReceiveResult, StartTransfer, SendItem,
                  ReceiveItem
    <2> QED BY <1>3, <2>2, <2>3, <2>4 DEF ClientStep
  <1> QED BY <1>1, <1>2, <1>3, AloneSteps

\* Between two calls, the answers are those of the sequential machine.
LEMMA IdleAnswered ==
    ASSUME IInv, KernelsRun, NEW c \in Client, call[c].at = "idle", SequentialSoFar(c),
           Synchronised(program[c], Returns(c))
    PROVE  answers[c] = Before(c).answers
  <1>1. Begun(c) = Returns(c)
    <2>1. Returns(c) \in Nat
      BY CallFacts
    <2> QED BY <2>1 DEF Begun
  <1>2. Actual(c) \in Machine /\ Runnable(distribution)
    BY ActualTyped, PendingRunnable
  <1>3. RunWords(Actual(c), distribution)[Len(distribution)] = Before(c)
    BY <1>1 DEF SequentialSoFar, InStep, Ran, Sequential
  <1>4. RunWords(Actual(c), distribution)[Len(distribution)].answers = Actual(c).answers
    BY <1>2, RunKeeps
  <1> QED BY <1>3, <1>4 DEF Actual

\* And they stay so while the next call is under way, even if that one is not
\* synchronised.
AnsweredSoFar(c) ==
    call[c].at # "idle" /\ Synchronised(program[c], Returns(c)) =>
        answers[c] = Before(c).answers

\* No step of the system breaks that: a call that returns answers as the
\* synchronous machine does, and no other step touches the answers.
LEMMA NextAnswered ==
    ASSUME IInv, KernelsRun, NEW c \in Client, Alone(c),
           SequentialSoFar(c), AnsweredSoFar(c), [Next]_systemVars
    PROVE  AnsweredSoFar(c)'
  <1>1. CASE call'[c].at = "idle"
    BY <1>1 DEF AnsweredSoFar
  <1>2. CASE program' = program /\ answers' = answers
    <2>1. Returns(c)' = Returns(c) /\ Before(c)' = Before(c)
      BY <1>2 DEF Before, Returns
    <2>2. Synchronised(program[c], Returns(c)) => answers[c] = Before(c).answers
      BY IdleAnswered DEF AnsweredSoFar
    <2> QED BY <1>2, <2>1, <2>2 DEF AnsweredSoFar
  <1> QED BY <1>1, <1>2, AnswersKept

\* The answers of a thread that is alone are those of a machine that executes a
\* kernel before executeKernel() returns, whatever the two threads of the
\* simulator are behind with, if the program synchronises: before it transfers
\* a row, it reads the result of a reduction that follows the instructions that
\* use the row ("execute a reduction so we're sure the software's done
\* executing", tests/src/simple_io_tests.cpp:140).
THEOREM SynchronisedIsSequential ==
    ASSUME KernelsRun
    PROVE  Spec => []AnswersAreSequential
  <1> DEFINE Inv == \A c \in Client : Alone(c) =>
                        /\ Counted(c) /\ SizedSoFar(c)
                        /\ SequentialSoFar(c) /\ AnsweredSoFar(c)
  <1>1. Init => IInv /\ Inv
    <2>1. ASSUME Init, NEW c \in Client PROVE AnsweredSoFar(c)
      BY <2>1 DEF Init, HostInit, Idle, AnsweredSoFar
    <2> QED BY <2>1, InitInv, InitCounted, InitInStep
  <1>2. IInv /\ Inv /\ [Next]_systemVars => (IInv /\ Inv)'
    <2> SUFFICES ASSUME IInv, Inv, [Next]_systemVars, NEW c \in Client, Alone(c)'
                 PROVE  /\ Counted(c)' /\ SizedSoFar(c)'
                        /\ SequentialSoFar(c)' /\ AnsweredSoFar(c)'
      BY NextInv
    <2>1. Alone(c) /\ IInv'
      BY ProgramKept, NextInv DEF Alone
    <2>2. Counted(c) /\ SizedSoFar(c) /\ SequentialSoFar(c) /\ AnsweredSoFar(c)
      BY <2>1
    <2> QED BY <2>1, <2>2, NextCounted, NextInStep, NextAnswered
  <1>3. IInv /\ Inv => AnswersAreSequential
    BY IdleAnswered DEF AnswersAreSequential, AnsweredSoFar, Before, Returns
  <1> HIDE DEF Inv
  <1> QED BY <1>1, <1>2, <1>3, PTL DEF Spec

-----------------------------------------------------------------------------
(***************************************************************************)
(* Threads that share the machine.  The words that are under way and the   *)
(* results that have not been returned fit whole kernels, one after another, *)
(* because threadMutexIR is held while the words of a kernel are sent and  *)
(* while results are read.                                                 *)
(***************************************************************************)
\* The results are those of the words, wherever they are executed.
Given(words, results) ==
    /\ words \in Seq(Word) /\ results \in Seq(Value)
    /\ Len(results) = Cardinality(Reductions(words, Len(words)))
    /\ \A i \in Reductions(words, Len(words)) : \E j \in 1..i :
          /\ Loads(words, j, i)
          /\ results[Cardinality(Reductions(words, i))] = words[j].arg

\* The results of whole kernels, one kernel's after another's.
Whole(results, count) ==
    \E n \in Nat :
        /\ Len(results) = count * n
        /\ \A b \in 0..(n - 1) : \E block \in KernelResults :
              /\ block \in Seq(Value) /\ Len(block) = count
              /\ \A i \in 1..count : results[count * b + i] = block[i]

\* What is still to be executed, what has been computed and not been read, and
\* what the register holds fit these words, f of which have been executed, and
\* their results, of which r times count have been read.
Explains(words, results, f, r, out, unread, reg, count) ==
    /\ Given(words, results) /\ Whole(results, count)
    /\ f \in 0..Len(words) /\ r \in Nat
    /\ Len(words) = f + Len(out)
    /\ \A i \in 1..Len(out) : out[i] = words[f + i]
    /\ Cardinality(Reductions(words, f)) = count * r + Len(unread)
    /\ \A i \in 1..Len(unread) : unread[i] = results[count * r + i]
    /\ \A j \in 1..f : Loads(words, j, f) => reg = words[j].arg

\* They fit the words of some kernels, and the results of whole kernels.
Explained(out, unread, reg, count) ==
    \E words, results, f, r :
        Explains(words, results, f, r, out, unread, reg, count)

\* The word that was last to load the register was it before another one that
\* does not.
LEMMA LoadsBefore ==
    ASSUME NEW words, NEW n \in Nat, NEW j \in 1..(n + 1)
    PROVE  Loads(words, j, n + 1) <=>
               \/ j = n + 1 /\ words[j].op = "VLOAD"
               \/ /\ j \in 1..n /\ Loads(words, j, n)
                  /\ words[n + 1].op \notin {"VLOAD", "IREAD"}
  <1>1. CASE j = n + 1
    BY <1>1 DEF Loads
  <1>2. CASE j # n + 1
    <2>1. j \in 1..n /\ (j + 1)..(n + 1) = ((j + 1)..n) \cup {n + 1}
      BY <1>2
    <2> QED BY <1>2, <2>1 DEF Loads
  <1> QED BY <1>1, <1>2

\* Two sequences that begin alike load and reduce alike there.
LEMMA LoadsSame ==
    ASSUME NEW words, NEW others, NEW n \in Nat, \A i \in 1..n : words[i] = others[i]
    PROVE  \A i \in 1..n : \A j \in 1..i : Loads(words, j, i) <=> Loads(others, j, i)
  BY DEF Loads

\* Reductions of words that follow others.
LEMMA ReductionsAfter ==
    ASSUME NEW a \in Seq(Word), NEW b \in Seq(Word)
    PROVE  \A n \in 0..Len(b) :
               Cardinality(Reductions(a \o b, Len(a) + n))
                   = Cardinality(Reductions(a, Len(a))) + Cardinality(Reductions(b, n))
  <1> DEFINE w == a \o b
             m == Len(a)
             C(n) == Cardinality(Reductions(w, m + n))
             D(n) == Cardinality(Reductions(b, n))
             e == Cardinality(Reductions(a, m))
             T == {n \in Nat : C(n) = e + D(n)}
  <1>1. m \in Nat /\ Len(b) \in Nat
    OBVIOUS
  <1>2. /\ \A i \in 1..m : w[i] = a[i]
        /\ \A i \in 1..Len(b) : w[m + i] = b[i]
    BY BeginsWith
  <1> HIDE DEF w, m
  <1>3. e \in Nat
    BY <1>1, ReductionsNext
  <1>4. C(0) = e
    BY <1>1, <1>2, ReductionsSame
  <1>5. D(0) = 0
    BY ReductionsGrow
  <1>6. ASSUME NEW n \in 0..(Len(b) - 1), C(n) = e + D(n) PROVE C(n + 1) = e + D(n + 1)
    <2>1. n \in Nat /\ m + n \in Nat /\ n + 1 \in 1..Len(b) /\ m + (n + 1) = (m + n) + 1
      BY <1>1
    <2>2. C(n + 1) = C(n) + IF w[(m + n) + 1].op = "RED" THEN 1 ELSE 0
      BY <2>1, ReductionsNext
    <2>3. D(n + 1) = D(n) + (IF b[n + 1].op = "RED" THEN 1 ELSE 0) /\ D(n) \in Nat
      BY <2>1, ReductionsNext
    <2>4. w[(m + n) + 1] = b[n + 1]
      BY <2>1, <1>2
    <2> HIDE DEF C, D, e
    <2> QED BY <2>2, <2>3, <2>4, <1>3, <1>6
  <1> HIDE DEF C, D, e
  <1>7. 0 \in T
    BY <1>3, <1>4, <1>5
  <1>8. \A n \in 0..(Len(b) - 1) : n \in T => n + 1 \in T
    BY <1>6
  <1>9. \A n \in 0..Len(b) : n \in T
    <2> HIDE DEF T
    <2> QED BY <1>1, <1>7, <1>8, BoundedInduction
  <1>10. \A n \in 0..Len(b) : C(n) = e + D(n)
    BY <1>9
  <1> QED BY <1>10 DEF C, D, e, w, m

\* A reduction is one of those there are.
LEMMA ReductionCounted ==
    ASSUME NEW words, NEW last \in Nat, NEW i \in Reductions(words, last)
    PROVE  Cardinality(Reductions(words, i)) \in 1..Cardinality(Reductions(words, last))
  <1>1. i \in 1..last /\ i - 1 \in Nat /\ (i - 1) + 1 = i /\ words[i].op = "RED"
    BY DEF Reductions
  <1>2. PICK n : n = i - 1
    OBVIOUS
  <1>3. n \in Nat /\ n + 1 = i
    BY <1>1, <1>2
  <1>4. /\ Cardinality(Reductions(words, n)) \in Nat
        /\ Cardinality(Reductions(words, i)) = Cardinality(Reductions(words, n)) + 1
    BY <1>1, <1>3, ReductionsNext
  <1>5. Cardinality(Reductions(words, i)) <= Cardinality(Reductions(words, last))
    BY <1>1, ReductionsGrow
  <1>6. Cardinality(Reductions(words, last)) \in Nat
    BY ReductionsNext
  <1> QED BY <1>4, <1>5, <1>6

\* Words after others give their results after the others' results.
LEMMA GivenJoined ==
    ASSUME NEW a, NEW x, Given(a, x), NEW b, NEW y, Given(b, y)
    PROVE  Given(a \o b, x \o y)
  <1> DEFINE w == a \o b
             z == x \o y
             m == Len(a)
             C(i) == Cardinality(Reductions(w, i))
  <1>1. /\ a \in Seq(Word) /\ b \in Seq(Word) /\ x \in Seq(Value) /\ y \in Seq(Value)
        /\ m \in Nat /\ Len(b) \in Nat
        /\ Len(x) = Cardinality(Reductions(a, m))
        /\ Len(y) = Cardinality(Reductions(b, Len(b)))
    BY DEF Given
  <1>2. /\ w \in Seq(Word) /\ Len(w) = m + Len(b)
        /\ \A i \in 1..m : w[i] = a[i]
        /\ \A i \in 1..Len(b) : w[m + i] = b[i]
    BY <1>1, BeginsWith
  <1>3. /\ z \in Seq(Value) /\ Len(z) = Len(x) + Len(y)
        /\ \A i \in 1..Len(x) : z[i] = x[i]
        /\ \A i \in 1..Len(y) : z[Len(x) + i] = y[i]
    <2>1. x \in Seq(Value) /\ y \in Seq(Value)
      BY ONLY <1>1
    <2> QED BY ONLY <2>1, BeginsWith
  <1>4. \A n \in 0..Len(b) : C(m + n) = Len(x) + Cardinality(Reductions(b, n))
    BY <1>1, ReductionsAfter
  <1>5. \A n \in 0..m : Reductions(w, n) = Reductions(a, n)
    <2> TAKE n \in 0..m
    <2>1. n \in Nat /\ \A i \in 1..n : w[i] = a[i]
      BY <1>1, <1>2
    <2> QED BY <2>1, ReductionsSame
  <1> HIDE DEF w, z, m, C
  <1>6. Len(z) = C(Len(w))
    BY <1>1, <1>2, <1>3, <1>4
  <1>7. ASSUME NEW i \in Reductions(w, Len(w))
        PROVE  \E j \in 1..i : Loads(w, j, i) /\ z[C(i)] = w[j].arg
    <2>1. i \in 1..(m + Len(b)) /\ w[i].op = "RED"
      BY <1>2 DEF Reductions
    <2>2. CASE i \in 1..m
      <3>1. i \in Reductions(a, m) /\ Reductions(w, i) = Reductions(a, i)
        BY <1>1, <1>2, <1>5, <2>1, <2>2 DEF Reductions
      <3>2. PICK j \in 1..i : /\ Loads(a, j, i)
                              /\ x[Cardinality(Reductions(a, i))] = a[j].arg
        BY <3>1 DEF Given, m
      <3>3. Loads(w, j, i) /\ w[j] = a[j]
        <4>1. Loads(w, j, i) <=> Loads(a, j, i)
          BY ONLY <1>1, <1>2, <2>2, LoadsSame, j \in 1..i
        <4>2. j \in 1..m
          BY <1>1, <2>2, <3>2
        <4> QED BY ONLY <1>2, <3>2, <4>1, <4>2
      <3>4. Cardinality(Reductions(a, i)) \in 1..Len(x)
        BY <1>1, <3>1, ReductionCounted
      <3>5. z[C(i)] = w[j].arg
        BY <1>3, <3>1, <3>2, <3>3, <3>4 DEF C
      <3> QED BY <3>3, <3>5
    <2>3. CASE i \notin 1..m
      <3>1. PICK n : n = i - m
        OBVIOUS
      <3>2. n \in 1..Len(b) /\ i = m + n
        BY <1>1, <2>1, <2>3, <3>1
      <3>3. w[i] = b[n] /\ n \in Reductions(b, Len(b))
        BY <1>2, <2>1, <3>2 DEF Reductions
      <3>4. PICK j \in 1..n : /\ Loads(b, j, n)
                              /\ y[Cardinality(Reductions(b, n))] = b[j].arg
        BY <3>3 DEF Given
      <3>5. m + j \in 1..i /\ w[m + j] = b[j]
        BY <1>1, <1>2, <3>2, <3>4
      <3>6. Loads(w, m + j, i)
        <4>1. ASSUME NEW k \in (m + j + 1)..i PROVE w[k].op \notin {"VLOAD", "IREAD"}
          <5> DEFINE l == Len(b)
          <5>0. m \in Nat /\ l \in Nat /\ n \in 1..l /\ i = m + n /\ j \in 1..n
            BY <1>1, <3>2, <3>4
          <5> HIDE DEF l
          <5>1. k - m \in (j + 1)..n /\ k - m \in 1..l /\ m + (k - m) = k
            BY ONLY <5>0, k \in (m + j + 1)..i
          <5>2. w[k] = b[k - m]
            BY <1>2, <5>1 DEF l
          <5> QED BY <3>4, <5>1, <5>2 DEF Loads
        <4> QED BY <3>4, <3>5, <4>1 DEF Loads
      <3>7. Cardinality(Reductions(b, n)) \in 1..Len(y)
        BY <1>1, <3>3, ReductionCounted
      <3>8. z[C(i)] = y[Cardinality(Reductions(b, n))]
        <4>1. n \in 0..Len(b)
          BY <3>2
        <4>2. C(i) = Len(x) + Cardinality(Reductions(b, n))
          BY <1>4, <3>2, <4>1
        <4> QED BY <1>3, <3>7, <4>2
      <3>9. Loads(w, m + j, i) /\ z[C(i)] = w[m + j].arg
        BY <3>4, <3>5, <3>6, <3>8
      <3> QED BY <3>5, <3>9
    <2> QED BY <2>2, <2>3
  <1>8. Given(w, z)
    BY <1>2, <1>3, <1>6, <1>7 DEF Given, C
  <1> QED BY <1>8 DEF w, z

\* What has run of a kernel gives the results that its reductions stand for,
\* and holds what it has loaded.
LEMMA RunGives ==
    ASSUME NEW words, Runnable(words), Fresh \in Machine
    PROVE  LET m == RunWords(Fresh, words) IN
           \A n \in 0..Len(words) :
              /\ m[n].results \in Seq(Value)
              /\ Len(m[n].results) = Cardinality(Reductions(words, n))
              /\ \A j \in 1..n : Loads(words, j, n) => m[n].register = words[j].arg
              /\ \A i \in Reductions(words, n) : \A j \in 1..i : Loads(words, j, i) =>
                    m[n].results[Cardinality(Reductions(words, i))] = words[j].arg
  <1> DEFINE m == RunWords(Fresh, words)
             C(n) == Cardinality(Reductions(words, n))
             Holds(n) == /\ Len(m[n].results) = C(n)
                         /\ \A j \in 1..n : Loads(words, j, n) => m[n].register = words[j].arg
                         /\ \A i \in Reductions(words, n) : \A j \in 1..i :
                               Loads(words, j, i) => m[n].results[C(i)] = words[j].arg
             T == {n \in Nat : Holds(n)}
  <1>1. words \in Seq(Word) /\ Len(words) \in Nat
    BY DEF Runnable
  <1>2. m[0] = Fresh /\ \A n \in 1..Len(words) : m[n] = RunInstr(m[n - 1], words[n])
    BY <1>1, RunWordsSteps
  <1>3. \A n \in 0..Len(words) : m[n] \in Machine /\ m[n].results \in Seq(Value)
    <2>1. \A n \in 0..Len(words) : m[n] \in Machine
      BY RunTyped
    <2> HIDE DEF m
    <2> QED BY <2>1 DEF Machine
  <1> HIDE DEF m
  <1>4. Holds(0)
    <2>1. m[0].results = << >>
      BY <1>2 DEF Fresh
    <2>2. C(0) = 0 /\ Reductions(words, 0) = {}
      BY ReductionsGrow DEF Reductions
    <2> QED BY <2>1, <2>2
  <1>5. ASSUME NEW n \in 0..(Len(words) - 1), Holds(n) PROVE Holds(n + 1)
    <2>1. n \in Nat /\ n + 1 \in 1..Len(words) /\ (n + 1) - 1 = n
      BY <1>1
    <2>2. PICK x : x = m[n]
      OBVIOUS
    <2>3. PICK y : y = m[n + 1]
      OBVIOUS
    <2>4. PICK w : w = words[n + 1]
      OBVIOUS
    <2>5. y = RunInstr(x, w) /\ x \in Machine /\ w \in Word /\ w.op # "THROW"
      BY <1>1, <1>2, <1>3, <2>1, <2>2, <2>3, <2>4 DEF Runnable
    <2>6. x.results \in Seq(Value) /\ x.register \in Value
      BY <2>5 DEF Machine
    <2>7. /\ w.op = "VLOAD" => y.register = w.arg
          /\ w.op \in {"IWRITE", "RED"} => y.register = x.register
          /\ w.op # "RED" => y.results = x.results
          /\ w.op = "RED" => y.results = Append(x.results, x.register)
          /\ w.op \in {"VLOAD", "IREAD", "IWRITE", "RED"}
      BY <2>5 DEF RunInstr, Machine, Word
    <2>8. /\ Len(x.results) = C(n)
          /\ \A j \in 1..n : Loads(words, j, n) => x.register = words[j].arg
          /\ \A i \in Reductions(words, n) : \A j \in 1..i :
                Loads(words, j, i) => x.results[C(i)] = words[j].arg
      BY <1>5, <2>2
    <2>9. C(n) \in Nat /\ C(n + 1) = C(n) + IF w.op = "RED" THEN 1 ELSE 0
      BY <2>1, <2>4, ReductionsNext
    <2>10. \A i \in Reductions(words, n) : C(i) \in 1..C(n)
      BY <2>1, ReductionCounted
    <2>11. Reductions(words, n + 1) = Reductions(words, n)
                                      \cup IF w.op = "RED" THEN {n + 1} ELSE {}
      BY <2>1, <2>4 DEF Reductions
    <2>12. \A j \in 1..(n + 1) : Loads(words, j, n + 1) =>
               \/ j = n + 1 /\ w.op = "VLOAD" /\ words[j] = w
               \/ /\ j \in 1..n /\ Loads(words, j, n)
                  /\ w.op \notin {"VLOAD", "IREAD"}
      BY <2>1, <2>4, LoadsBefore
    <2> HIDE DEF C
    <2>13. /\ Len(y.results) = C(n + 1)
           /\ \A i \in 1..C(n) : y.results[i] = x.results[i]
           /\ w.op = "RED" => y.results[C(n + 1)] = x.register
      <3>1. CASE w.op = "RED"
        <4>1. C(n + 1) = Len(x.results) + 1 /\ Len(x.results) = C(n)
          BY <2>8, <2>9, <3>1
        <4>2. y.results = Append(x.results, x.register)
          BY <2>7, <3>1
        <4>3. /\ Len(y.results) = Len(x.results) + 1
              /\ \A i \in 1..Len(x.results) : y.results[i] = x.results[i]
              /\ y.results[Len(x.results) + 1] = x.register
          BY <2>6, <4>2
        <4> QED BY <4>1, <4>3
      <3>2. CASE w.op # "RED"
        <4>1. C(n + 1) = C(n) /\ y.results = x.results
          BY <2>7, <2>9, <3>2
        <4> QED BY <2>8, <3>2, <4>1
      <3> QED BY <3>1, <3>2
    <2>14. \A j \in 1..(n + 1) : Loads(words, j, n + 1) => y.register = words[j].arg
      BY <2>7, <2>8, <2>12
    <2>15. ASSUME NEW i \in Reductions(words, n + 1), NEW j \in 1..i, Loads(words, j, i)
           PROVE  y.results[C(i)] = words[j].arg
      <3>1. CASE i \in Reductions(words, n)
        BY <2>8, <2>10, <2>13, <2>15, <3>1
      <3>2. CASE i \notin Reductions(words, n)
        <4>1. i = n + 1 /\ w.op = "RED"
          BY <2>11, <3>2
        <4>2. j \in 1..n /\ Loads(words, j, n)
          BY <2>12, <2>15, <4>1
        <4> QED BY <2>8, <2>13, <4>1, <4>2
      <3> QED BY <3>1, <3>2
    <2> QED BY <2>3, <2>13, <2>14, <2>15
  <1> HIDE DEF Holds
  <1>6. 0 \in T
    BY <1>4
  <1>7. \A n \in 0..(Len(words) - 1) : n \in T => n + 1 \in T
    BY <1>5
  <1>8. \A n \in 0..Len(words) : n \in T
    <2> HIDE DEF T
    <2> QED BY <1>1, <1>6, <1>7, BoundedInduction
  <1>9. \A n \in 0..Len(words) : Holds(n)
    BY <1>8
  <1> QED BY <1>3, <1>9 DEF m, Holds

\* The machine begins as one.
LEMMA FreshTyped ==
    Fresh \in Machine
  <1>1. Zero \in Value
    BY PipesAssumption
  <1>2. << >> \in Seq(Value) /\ << >> \in Seq(Answered)
    OBVIOUS
  <1> QED BY <1>1, <1>2 DEF Fresh, Machine

\* A kernel that computes results gives its own.
LEMMA KernelGives ==
    ASSUME NEW count \in Nat \ {0}, NEW name \in DOMAIN Kernels,
           Computes(Kernels[name], count),
           Cardinality(Reductions(Kernels[name], Len(Kernels[name]))) # 0
    PROVE  \E block \in KernelResults :
              /\ block \in Seq(Value) /\ Len(block) = count
              /\ Given(Kernels[name], block)
  <1> DEFINE words == Kernels[name]
             m == RunWords(Fresh, words)
             block == m[Len(words)].results
  <1>1. /\ words \in Seq(Word) /\ Len(words) \in 0..Len(words)
    BY KernelsAssumption
  <1>2. /\ Cardinality(Reductions(words, Len(words))) = count
        /\ Ends(words)
        /\ \A i \in Reductions(words, Len(words)) : \E j \in 1..i : Loads(words, j, i)
    BY DEF Computes
  <1>3. Runnable(words)
    BY <1>1, <1>2 DEF Runnable, Ends
  <1>4. block \in KernelResults
    BY <1>2 DEF KernelResults
  <1>5. /\ block \in Seq(Value) /\ Len(block) = Cardinality(Reductions(words, Len(words)))
        /\ \A i \in Reductions(words, Len(words)) : \A j \in 1..i : Loads(words, j, i) =>
              block[Cardinality(Reductions(words, i))] = words[j].arg
    <2> HIDE DEF words
    <2> QED BY <1>1, <1>3, FreshTyped, RunGives
  <1> HIDE DEF block, words
  <1>6. Given(words, block)
    BY <1>1, <1>2, <1>5 DEF Given
  <1> QED BY <1>2, <1>4, <1>5, <1>6 DEF words

\* One block more.
LEMMA WholeJoined ==
    ASSUME NEW count \in Nat \ {0}, NEW x \in Seq(Value), Whole(x, count),
           NEW block \in KernelResults, block \in Seq(Value), Len(block) = count
    PROVE  Whole(x \o block, count)
  <1>1. PICK n \in Nat :
            /\ Len(x) = count * n
            /\ \A b \in 0..(n - 1) : \E bl \in KernelResults :
                  /\ bl \in Seq(Value) /\ Len(bl) = count
                  /\ \A i \in 1..count : x[count * b + i] = bl[i]
    BY DEF Whole
  <1>2. PICK z : z = x \o block
    OBVIOUS
  <1>3. /\ Len(z) = Len(x) + count
        /\ \A i \in 1..Len(x) : z[i] = x[i]
        /\ \A i \in 1..count : z[Len(x) + i] = block[i]
    <2>1. /\ Len(z) = Len(x) + Len(block)
          /\ \A i \in 1..Len(x) : z[i] = x[i]
          /\ \A i \in 1..Len(block) : z[Len(x) + i] = block[i]
      <3>1. x \in Seq(Value) /\ block \in Seq(Value)
        OBVIOUS
      <3> QED BY ONLY <1>2, <3>1, BeginsWith
    <2> QED BY <2>1
  <1>4. Len(z) = count * (n + 1) /\ n + 1 \in Nat
    BY <1>1, <1>3
  <1>5. ASSUME NEW b \in 0..n
        PROVE  \E bl \in KernelResults :
                  /\ bl \in Seq(Value) /\ Len(bl) = count
                  /\ \A i \in 1..count : z[count * b + i] = bl[i]
    <2>1. CASE b = n
      BY <1>1, <1>3, <2>1
    <2>2. CASE b # n
      <3>1. PICK bl \in KernelResults :
                /\ bl \in Seq(Value) /\ Len(bl) = count
                /\ \A i \in 1..count : x[count * b + i] = bl[i]
        <4>1. b \in 0..(n - 1)
          BY <2>2
        <4> QED BY <1>1, <4>1
      <3>2. \A i \in 1..count : count * b + i \in 1..Len(x)
        <4>1. PICK d \in Nat : n = b + 1 + d
          <5>1. n - b - 1 \in Nat /\ n = b + 1 + (n - b - 1)
            BY <2>2
          <5> QED BY <5>1
        <4>2. count * n = count * b + count + count * d
          BY <4>1
        <4>3. PICK p \in Nat : p = count * b
          BY <4>1
        <4>4. PICK q \in Nat : q = count * d
          BY <4>1
        <4>5. Len(x) = p + count + q
          BY <1>1, <4>2, <4>3, <4>4
        <4>6. \A i \in 1..count : p + i \in 1..(p + count + q)
          BY ONLY count \in Nat, p \in Nat, q \in Nat
        <4> QED BY <4>3, <4>5, <4>6
      <3> QED BY <1>3, <3>1, <3>2
    <2> QED BY <2>1, <2>2
  <1>6. Whole(z, count)
    <2>1. PICK k \in Nat : k = n + 1
      BY <1>4
    <2>2. Len(z) = count * k /\ 0..(k - 1) = 0..n
      BY <1>4, <2>1
    <2>3. \A b \in 0..(k - 1) : \E bl \in KernelResults :
              /\ bl \in Seq(Value) /\ Len(bl) = count
              /\ \A i \in 1..count : z[count * b + i] = bl[i]
      BY ONLY <1>5, <2>2
    <2> QED BY ONLY <2>1, <2>2, <2>3 DEF Whole
  <1> QED BY <1>2, <1>6

\* Words without a reduction give no results.
LEMMA GivenNothing ==
    ASSUME NEW words \in Seq(Word), Cardinality(Reductions(words, Len(words))) = 0
    PROVE  Given(words, << >>)
  <1>1. Len(words) \in Nat
    OBVIOUS
  <1>2. \A i \in Reductions(words, Len(words)) : FALSE
    <2> TAKE i \in Reductions(words, Len(words))
    <2>1. Cardinality(Reductions(words, i)) \in 1..Cardinality(Reductions(words, Len(words)))
      BY <1>1, ReductionCounted
    <2> QED BY <2>1
  <1>3. << >> \in Seq(Value) /\ Len(<< >>) = 0
    OBVIOUS
  <1> QED BY <1>2, <1>3 DEF Given

\* At first there is nothing to explain.
LEMMA NothingExplained ==
    ASSUME NEW count \in Nat \ {0}, NEW reg
    PROVE  Explained(<< >>, << >>, reg, count)
  <1> DEFINE e == << >>
  <1>1. e \in Seq(Word) /\ e \in Seq(Value) /\ Len(e) = 0
    OBVIOUS
  <1> HIDE DEF e
  <1>2. Cardinality(Reductions(e, 0)) = 0
    BY ReductionsGrow
  <1>3. Given(e, e)
    <2>1. Reductions(e, 0) = {}
      BY DEF Reductions
    <2> QED BY <1>1, <1>2, <2>1 DEF Given
  <1>4. Whole(e, count)
    <2>1. 0 \in Nat /\ Len(e) = count * 0 /\ 0..(0 - 1) = {}
      BY <1>1
    <2> QED BY ONLY <2>1 DEF Whole
  <1>5. Explains(e, e, 0, 0, e, e, reg, count)
    <2>1. count * 0 = 0
      OBVIOUS
    <2> QED BY <1>1, <1>2, <1>3, <1>4, <2>1 DEF Explains
  <1> QED BY <1>5 DEF Explained, e

\* executeKernel() adds a whole kernel.
LEMMA KernelExplained ==
    ASSUME NEW count \in Nat \ {0}, NEW name \in DOMAIN Kernels,
           Computes(Kernels[name], count),
           NEW out \in Seq(Word), NEW unread \in Seq(Value), NEW reg,
           Explained(out, unread, reg, count)
    PROVE  Explained(out \o Kernels[name], unread, reg, count)
  <1>1. PICK words, results, f, r :
            Explains(words, results, f, r, out, unread, reg, count)
    BY DEF Explained
  <1>2. PICK k : k = Kernels[name]
    OBVIOUS
  <1>3. k \in Seq(Word) /\ words \in Seq(Word) /\ results \in Seq(Value)
    <2>1. k \in Seq(Word)
      BY <1>2, KernelsAssumption
    <2> QED BY <1>1, <2>1 DEF Explains, Given
  <1>4. PICK more \in Seq(Value) : Given(k, more) /\ Whole(results \o more, count)
    <2>1. CASE Cardinality(Reductions(k, Len(k))) = 0
      <3>1. Given(k, << >>)
        BY <1>3, <2>1, GivenNothing
      <3>2. results \o << >> = results /\ << >> \in Seq(Value)
        BY <1>3
      <3>3. Whole(results, count)
        BY <1>1 DEF Explains
      <3>4. Whole(results \o << >>, count)
        BY <3>2, <3>3
      <3> QED BY <3>1, <3>2, <3>4
    <2>2. CASE Cardinality(Reductions(k, Len(k))) # 0
      <3>1. PICK block \in KernelResults :
                block \in Seq(Value) /\ Len(block) = count /\ Given(k, block)
        BY <1>2, <2>2, KernelGives
      <3>2. Whole(results \o block, count)
        BY <1>1, <1>3, <3>1, WholeJoined DEF Explains
      <3> QED BY <3>1, <3>2
    <2> QED BY <2>1, <2>2
  <1>5. PICK w : w = words \o k
    OBVIOUS
  <1>6. PICK z : z = results \o more
    OBVIOUS
  <1>7. PICK o : o = out \o k
    OBVIOUS
  <1>8. Given(w, z) /\ Whole(z, count)
    <2>1. Given(words, results) /\ Given(k, more)
      BY <1>1, <1>4 DEF Explains
    <2> QED BY <1>4, <1>5, <1>6, <2>1, GivenJoined
  <1>9. /\ w \in Seq(Word) /\ Len(w) = Len(words) + Len(k)
        /\ \A i \in 1..Len(words) : w[i] = words[i]
        /\ \A i \in 1..Len(k) : w[Len(words) + i] = k[i]
    BY ONLY <1>3, <1>5, BeginsWith
  <1>10. /\ z \in Seq(Value)
         /\ \A i \in 1..Len(results) : z[i] = results[i]
    <2>1. more \in Seq(Value)
      OBVIOUS
    <2> QED BY ONLY <1>3, <1>6, <2>1, BeginsWith
  <1>11. /\ Len(o) = Len(out) + Len(k)
         /\ \A i \in 1..Len(out) : o[i] = out[i]
         /\ \A i \in 1..Len(k) : o[Len(out) + i] = k[i]
    <2>1. out \in Seq(Word)
      OBVIOUS
    <2> QED BY ONLY <1>3, <1>7, <2>1, BeginsWith
  <1>12. /\ Len(words) \in Nat /\ Len(k) \in Nat /\ Len(out) \in Nat /\ Len(unread) \in Nat
         /\ f \in 0..Len(words) /\ r \in Nat /\ Len(words) = f + Len(out)
    BY <1>1, <1>3 DEF Explains
  <1>13. f \in 0..Len(w) /\ Len(w) = f + Len(o)
    BY <1>9, <1>11, <1>12
  <1>14. \A i \in 1..Len(o) : o[i] = w[f + i]
    <2> TAKE i \in 1..Len(o)
    <2>1. CASE i <= Len(out)
      <3>1. i \in 1..Len(out) /\ f + i \in 1..Len(words)
        BY <1>12, <2>1
      <3>2. out[i] = words[f + i]
        BY <1>1, <3>1 DEF Explains
      <3> QED BY <1>9, <1>11, <3>1, <3>2
    <2>2. CASE ~(i <= Len(out))
      <3>1. PICK n : n = i - Len(out)
        OBVIOUS
      <3>2. n \in 1..Len(k) /\ i = Len(out) + n /\ f + i = Len(words) + n
        BY <1>11, <1>12, <2>2, <3>1
      <3> QED BY <1>9, <1>11, <3>2
    <2> QED BY <2>1, <2>2
  <1>15. Reductions(w, f) = Reductions(words, f)
    <2>1. f \in Nat /\ \A i \in 1..f : w[i] = words[i]
      BY <1>9, <1>12
    <2> QED BY ONLY <2>1, ReductionsSame
  <1>16. /\ Cardinality(Reductions(w, f)) = count * r + Len(unread)
         /\ Cardinality(Reductions(words, f)) <= Len(results)
    <2>1. Cardinality(Reductions(words, f)) <= Cardinality(Reductions(words, Len(words)))
      BY <1>12, ReductionsGrow
    <2> QED BY <1>1, <1>15, <2>1 DEF Explains, Given
  <1>17. \A i \in 1..Len(unread) : unread[i] = z[count * r + i]
    <2> TAKE i \in 1..Len(unread)
    <2>1. PICK q \in Nat : q = count * r
      BY <1>12
    <2>2. q + Len(unread) <= Len(results) /\ Len(results) \in Nat
      BY <1>3, <1>15, <1>16, <2>1
    <2>3. q + i \in 1..Len(results)
      BY ONLY <1>12, <2>2, q \in Nat, i \in 1..Len(unread)
    <2>4. unread[i] = results[q + i]
      BY <1>1, <2>1 DEF Explains
    <2> QED BY <1>10, <2>1, <2>3, <2>4
  <1>18. \A j \in 1..f : Loads(w, j, f) => reg = w[j].arg
    <2> TAKE j \in 1..f
    <2>1. w[j] = words[j]
      BY <1>9, <1>12
    <2>2. f \in 1..f /\ f \in Nat /\ \A i \in 1..f : w[i] = words[i]
      BY <1>9, <1>12
    <2>3. Loads(w, j, f) <=> Loads(words, j, f)
      BY ONLY <2>2, LoadsSame, j \in 1..f
    <2> QED BY <1>1, <2>1, <2>3 DEF Explains
  <1>19. Explains(w, z, f, r, o, unread, reg, count)
    BY <1>8, <1>12, <1>13, <1>14, <1>16, <1>17, <1>18 DEF Explains
  <1> QED BY <1>2, <1>7, <1>19 DEF Explained

\* The core thread takes a word that is not a reduction.
LEMMA FetchExplained ==
    ASSUME NEW count \in Nat \ {0},
           NEW out \in Seq(Word), NEW unread \in Seq(Value), NEW reg, NEW new,
           Explained(out, unread, reg, count), out # << >>,
           Head(out).op # "RED",
           Head(out).op = "VLOAD" => new = Head(out).arg,
           Head(out).op \notin {"VLOAD", "IREAD"} => new = reg
    PROVE  Explained(Tail(out), unread, new, count)
  <1>1. PICK words, results, f, r :
            Explains(words, results, f, r, out, unread, reg, count)
    BY DEF Explained
  <1>2. PICK rest : rest = Tail(out)
    OBVIOUS
  <1>3. /\ Len(out) \in Nat \ {0} /\ Len(rest) = Len(out) - 1
        /\ Head(out) = out[1]
        /\ \A i \in 1..Len(rest) : rest[i] = out[i + 1]
    BY <1>2
  <1>4. /\ words \in Seq(Word) /\ Len(words) \in Nat /\ f \in 0..Len(words)
        /\ Len(words) = f + Len(out) /\ \A i \in 1..Len(out) : out[i] = words[f + i]
    BY <1>1 DEF Explains, Given
  <1>5. f + 1 \in 0..Len(words) /\ Len(words) = (f + 1) + Len(rest) /\ f \in Nat
    BY <1>3, <1>4
  <1>6. words[f + 1] = Head(out)
    BY <1>3, <1>4
  <1>7. \A i \in 1..Len(rest) : rest[i] = words[(f + 1) + i]
    <2> TAKE i \in 1..Len(rest)
    <2>1. i + 1 \in 1..Len(out) /\ f + (i + 1) = (f + 1) + i
      BY <1>3, <1>4
    <2> QED BY <1>3, <1>4, <2>1
  <1>8. Cardinality(Reductions(words, f + 1)) = Cardinality(Reductions(words, f))
    <2>1. /\ Cardinality(Reductions(words, f)) \in Nat
          /\ Cardinality(Reductions(words, f + 1)) = Cardinality(Reductions(words, f)) + 0
      BY <1>5, <1>6, ReductionsNext
    <2> QED BY <2>1
  <1>9. \A j \in 1..(f + 1) : Loads(words, j, f + 1) => new = words[j].arg
    <2> TAKE j \in 1..(f + 1)
    <2>1. Loads(words, j, f + 1) =>
              \/ j = f + 1 /\ words[j].op = "VLOAD"
              \/ /\ j \in 1..f /\ Loads(words, j, f)
                 /\ words[f + 1].op \notin {"VLOAD", "IREAD"}
      BY <1>5, LoadsBefore
    <2>2. j \in 1..f /\ Loads(words, j, f) => reg = words[j].arg
      BY <1>1 DEF Explains
    <2> QED BY <1>6, <2>1, <2>2
  <1>10. Explains(words, results, f + 1, r, rest, unread, new, count)
    BY <1>1, <1>5, <1>7, <1>8, <1>9 DEF Explains
  <1> QED BY <1>2, <1>10 DEF Explained

\* A reduction: the register holds the result that the kernel's next one is.
LEMMA RedExplained ==
    ASSUME NEW count \in Nat \ {0},
           NEW out \in Seq(Word), NEW unread \in Seq(Value), NEW reg \in Value,
           Explained(out, unread, reg, count), out # << >>, Head(out).op = "RED"
    PROVE  Explained(Tail(out), Append(unread, reg), reg, count)
  <1>1. PICK words, results, f, r :
            Explains(words, results, f, r, out, unread, reg, count)
    BY DEF Explained
  <1>2. PICK rest : rest = Tail(out)
    OBVIOUS
  <1>3. /\ Len(out) \in Nat \ {0} /\ Len(rest) = Len(out) - 1
        /\ Head(out) = out[1]
        /\ \A i \in 1..Len(rest) : rest[i] = out[i + 1]
    BY <1>2
  <1>4. /\ words \in Seq(Word) /\ Len(words) \in Nat /\ f \in 0..Len(words)
        /\ Len(words) = f + Len(out) /\ \A i \in 1..Len(out) : out[i] = words[f + i]
        /\ r \in Nat
    BY <1>1 DEF Explains, Given
  <1>5. f + 1 \in 1..Len(words) /\ Len(words) = (f + 1) + Len(rest) /\ f \in Nat
    BY <1>3, <1>4
  <1>6. words[f + 1] = Head(out)
    BY <1>3, <1>4
  <1>7. \A i \in 1..Len(rest) : rest[i] = words[(f + 1) + i]
    <2> TAKE i \in 1..Len(rest)
    <2>1. i + 1 \in 1..Len(out) /\ f + (i + 1) = (f + 1) + i
      BY <1>3, <1>4
    <2> QED BY <1>3, <1>4, <2>1
  <1>8. PICK longer : longer = Append(unread, reg)
    OBVIOUS
  <1>9. /\ Len(unread) \in Nat /\ Len(longer) = Len(unread) + 1
        /\ \A i \in 1..Len(unread) : longer[i] = unread[i]
        /\ longer[Len(longer)] = reg
    BY <1>8
  <1>10. PICK q \in Nat : q = count * r
    BY <1>4
  <1>11. /\ Cardinality(Reductions(words, f)) = q + Len(unread)
         /\ Cardinality(Reductions(words, f + 1)) = q + Len(longer)
    <2>1. /\ Cardinality(Reductions(words, f)) \in Nat
          /\ Cardinality(Reductions(words, f + 1)) = Cardinality(Reductions(words, f)) + 1
      BY <1>5, <1>6, ReductionsNext
    <2>2. Cardinality(Reductions(words, f)) = q + Len(unread)
      BY <1>1, <1>10 DEF Explains
    <2> QED BY <1>9, <2>1, <2>2
  <1>12. \A j \in 1..(f + 1) : Loads(words, j, f + 1) => reg = words[j].arg
    <2> TAKE j \in 1..(f + 1)
    <2>1. Loads(words, j, f + 1) =>
              \/ j = f + 1 /\ words[j].op = "VLOAD"
              \/ /\ j \in 1..f /\ Loads(words, j, f)
                 /\ words[f + 1].op \notin {"VLOAD", "IREAD"}
      BY <1>5, LoadsBefore
    <2>2. j \in 1..f /\ Loads(words, j, f) => reg = words[j].arg
      BY <1>1 DEF Explains
    <2> QED BY <1>6, <2>1, <2>2
  <1>13. reg = results[q + Len(longer)]
    <2>1. f + 1 \in Reductions(words, Len(words))
      BY <1>5, <1>6 DEF Reductions
    <2>2. PICK j \in 1..(f + 1) :
              /\ Loads(words, j, f + 1)
              /\ results[Cardinality(Reductions(words, f + 1))] = words[j].arg
      BY <1>1, <2>1 DEF Explains, Given
    <2> QED BY <1>11, <1>12, <2>2
  <1>14. \A i \in 1..Len(longer) : longer[i] = results[q + i]
    <2> TAKE i \in 1..Len(longer)
    <2>1. i \in 1..Len(unread) \/ i = Len(longer)
      BY <1>9
    <2>2. i \in 1..Len(unread) => unread[i] = results[q + i]
      BY <1>1, <1>10 DEF Explains
    <2> QED BY <1>9, <1>13, <2>1, <2>2
  <1>15. Explains(words, results, f + 1, r, rest, longer, reg, count)
    <2>1. f + 1 \in 0..Len(words)
      BY <1>5
    <2> QED BY <1>1, <1>5, <1>7, <1>10, <1>11, <1>12, <1>14, <2>1 DEF Explains
  <1> QED BY <1>2, <1>8, <1>15 DEF Explained

\* A read takes the results of one kernel.
LEMMA ReadExplained ==
    ASSUME NEW count \in Nat \ {0},
           NEW out \in Seq(Word), NEW got \in Seq(Value), NEW rest \in Seq(Value), NEW reg,
           Explained(out, got \o rest, reg, count), Len(got) = count
    PROVE  got \in KernelResults /\ Explained(out, rest, reg, count)
  <1>1. PICK unread : unread = got \o rest
    OBVIOUS
  <1>2. PICK words, results, f, r :
            Explains(words, results, f, r, out, unread, reg, count)
    BY <1>1 DEF Explained
  <1>3. /\ Len(unread) = count + Len(rest) /\ Len(rest) \in Nat
        /\ \A i \in 1..count : unread[i] = got[i]
        /\ \A i \in 1..Len(rest) : unread[count + i] = rest[i]
    <2>1. got \in Seq(Value) /\ rest \in Seq(Value)
      OBVIOUS
    <2>2. /\ Len(unread) = Len(got) + Len(rest)
          /\ \A i \in 1..Len(got) : unread[i] = got[i]
          /\ \A i \in 1..Len(rest) : unread[Len(got) + i] = rest[i]
      BY ONLY <1>1, <2>1, BeginsWith
    <2> QED BY <2>2
  <1>4. r \in Nat /\ f \in 0..Len(words) /\ Len(words) \in Nat /\ results \in Seq(Value)
    BY <1>2 DEF Explains, Given
  <1>5. PICK q \in Nat : q = count * r
    BY <1>4
  <1>6. /\ Cardinality(Reductions(words, f)) = q + count + Len(rest)
        /\ \A i \in 1..(count + Len(rest)) : unread[i] = results[q + i]
    BY <1>2, <1>3, <1>5 DEF Explains
  <1>7. count * (r + 1) = q + count /\ r + 1 \in Nat
    BY <1>4, <1>5
  <1>8. q + count <= Len(results)
    <2>1. Cardinality(Reductions(words, f)) <= Cardinality(Reductions(words, Len(words)))
      BY <1>4, ReductionsGrow
    <2>2. Len(results) = Cardinality(Reductions(words, Len(words)))
      BY <1>2 DEF Explains, Given
    <2>3. Len(results) \in Nat
      BY <1>4
    <2> QED BY <1>3, <1>6, <2>1, <2>2, <2>3
  <1>9. PICK n \in Nat :
            /\ Len(results) = count * n
            /\ \A b \in 0..(n - 1) : \E block \in KernelResults :
                  /\ block \in Seq(Value) /\ Len(block) = count
                  /\ \A i \in 1..count : results[count * b + i] = block[i]
    BY <1>2 DEF Explains, Whole
  <1>10. r \in 0..(n - 1)
    <2>1. SUFFICES ASSUME ~(r < n) PROVE FALSE
      BY <1>4
    <2>2. PICK d \in Nat : r = n + d
      <3>1. r - n \in Nat /\ r = n + (r - n)
        BY <1>4, <2>1
      <3> QED BY <3>1
    <2>3. q = count * n + count * d /\ count * d \in Nat /\ count * n \in Nat
      BY <1>5, <2>2
    <2> QED BY ONLY <1>8, <1>9, <2>3, count \in Nat \ {0}
  <1>11. PICK block \in KernelResults :
            /\ block \in Seq(Value) /\ Len(block) = count
            /\ \A i \in 1..count : results[q + i] = block[i]
    BY <1>5, <1>9, <1>10
  <1>12. got = block
    <2>1. \A i \in 1..count : got[i] = block[i]
      BY <1>3, <1>6, <1>11
    <2> QED BY <1>11, <2>1
  <1>13. Explains(words, results, f, r + 1, out, rest, reg, count)
    <2>1. \A i \in 1..Len(rest) : rest[i] = results[(q + count) + i]
      <3> TAKE i \in 1..Len(rest)
      <3>1. count + i \in 1..(count + Len(rest)) /\ q + (count + i) = (q + count) + i
        BY <1>3
      <3> QED BY <1>3, <1>6, <3>1
    <2> QED BY <1>2, <1>6, <1>7, <2>1 DEF Explains
  <1> QED BY <1>12, <1>13 DEF Explained

\* threadMutexIR is held from the first to the last use of the FIFOs of
\* instructions and results.
LockedIR ==
    \A c \in Client : threadMutexIR = c <=> call[c].at \in {"execute", "reduce"}

\* The words that its holder has still to send, and the results it has received.
Unsent ==
    IF threadMutexIR \in Client /\ call[threadMutexIR].at = "execute"
    THEN LET words == Kernels[Current(threadMutexIR).kernel] IN
         SubSeq(words, call[threadMutexIR].sent + 1, Len(words))
    ELSE << >>
Collected ==
    IF threadMutexIR \in Client /\ call[threadMutexIR].at = "reduce"
    THEN call[threadMutexIR].got ELSE << >>

\* The words of kernels that are still to be executed, and the results that
\* have been computed and not been returned.
Outgoing == distribution \o Unsent
Unreturned == Collected \o (reduction \o reporting)

\* Every read has returned the results of one kernel.
ReadsGiveKernels ==
    \A c \in Client : \A n \in 1..Len(answers[c]) :
        program[c][n].type = "reduce" => answers[c][n].data \in KernelResults

\* The mutex keeps them apart from what other threads send and read, they fit
\* the words and results of whole kernels, and so do all answers.
SharedInv(count) ==
    LockedIR /\ Explained(Outgoing, Unreturned, register, count) /\ ReadsGiveKernels

\* What they are, by what the holder does.
LEMMA HolderParts ==
    ASSUME LockedIR, HostOK
    PROVE  /\ threadMutexIR = NoClient => Unsent = << >> /\ Collected = << >>
           /\ \A c \in Client :
                /\ call[c].at = "execute" =>
                      /\ Collected = << >>
                      /\ Unsent = SubSeq(Kernels[Current(c).kernel], call[c].sent + 1,
                                         Len(Kernels[Current(c).kernel]))
                /\ call[c].at = "reduce" => Unsent = << >> /\ Collected = call[c].got
  <1>1. NoClient \notin Client
    BY ClientAssumption
  <1>2. ASSUME NEW c \in Client, call[c].at \in {"execute", "reduce"}
        PROVE  threadMutexIR = c
    BY <1>2 DEF LockedIR
  <1> QED BY <1>1, <1>2 DEF Unsent, Collected

\* The same for the next state.
LEMMA HolderPartsAfter ==
    ASSUME LockedIR'
    PROVE  /\ threadMutexIR' = NoClient => Unsent' = << >> /\ Collected' = << >>
           /\ \A c \in Client :
                /\ call'[c].at = "execute" =>
                      /\ Collected' = << >>
                      /\ Unsent' = SubSeq(Kernels[Current(c)'.kernel], call'[c].sent + 1,
                                          Len(Kernels[Current(c)'.kernel]))
                /\ call'[c].at = "reduce" => Unsent' = << >> /\ Collected' = call'[c].got
  <1>1. NoClient \notin Client
    BY ClientAssumption
  <1>2. ASSUME NEW c \in Client, call'[c].at \in {"execute", "reduce"}
        PROVE  threadMutexIR' = c
    BY <1>2 DEF LockedIR
  <1>3. threadMutexIR' = NoClient => Unsent' = << >> /\ Collected' = << >>
    BY <1>1 DEF Unsent, Collected
  <1>4. ASSUME NEW c \in Client, call'[c].at = "execute"
        PROVE  /\ Collected' = << >>
               /\ Unsent' = SubSeq(Kernels[Current(c)'.kernel], call'[c].sent + 1,
                                   Len(Kernels[Current(c)'.kernel]))
    BY <1>2, <1>4 DEF Unsent, Collected, Current
  <1>5. ASSUME NEW c \in Client, call'[c].at = "reduce"
        PROVE  Unsent' = << >> /\ Collected' = call'[c].got
    BY <1>2, <1>5 DEF Unsent, Collected
  <1> QED BY <1>3, <1>4, <1>5

\* They are sequences of words and of results.
LEMMA PartsTyped ==
    ASSUME IInv, LockedIR
    PROVE  /\ distribution \in Seq(Word) /\ Unsent \in Seq(Word) /\ Outgoing \in Seq(Word)
           /\ Collected \in Seq(Value) /\ reduction \in Seq(Value)
           /\ reporting \in Seq(Value) /\ (reduction \o reporting) \in Seq(Value)
           /\ Unreturned \in Seq(Value) /\ register \in Value
  <1>1. HostOK /\ PipesOK /\ ThreadsOK
    BY DEF IInv, TypeOK
  <1>2. /\ distribution \in Seq(Word) /\ reduction \in Seq(Value)
        /\ reporting \in Seq(Value) /\ register \in Value
    BY <1>1 DEF PipesOK, ThreadsOK
  <1>3. Unsent \in Seq(Word) /\ Collected \in Seq(Value)
    <2>1. CASE threadMutexIR = NoClient
      <3>1. << >> \in Seq(Word) /\ << >> \in Seq(Value)
        OBVIOUS
      <3> QED BY <1>1, <2>1, <3>1, HolderParts
    <2>2. CASE threadMutexIR # NoClient
      <3>1. PICK c \in Client : threadMutexIR = c
        BY <1>1, <2>2 DEF HostOK
      <3>2. call[c].at \in {"execute", "reduce"}
        BY <3>1 DEF LockedIR
      <3>3. CASE call[c].at = "execute"
        <4>1. Kernels[Current(c).kernel] \in Seq(Word) /\ call[c].sent \in Nat
          BY <3>3, CallFacts
        <4>2. PICK k \in Seq(Word) : k = Kernels[Current(c).kernel]
          BY <4>1
        <4>3. SubSeq(k, call[c].sent + 1, Len(k)) \in Seq(Word)
          BY <4>1
        <4>4. << >> \in Seq(Value)
          OBVIOUS
        <4>5. Collected = << >> /\ Unsent = SubSeq(k, call[c].sent + 1, Len(k))
          BY <1>1, <3>3, <4>2, HolderParts
        <4> QED BY <4>3, <4>4, <4>5
      <3>4. CASE call[c].at = "reduce"
        <4>1. call[c].got \in Seq(Value)
          BY CallFacts
        <4>2. << >> \in Seq(Word)
          OBVIOUS
        <4> QED BY <1>1, <3>4, <4>1, <4>2, HolderParts
      <3> QED BY <3>2, <3>3, <3>4
    <2> QED BY <2>1, <2>2
  <1>4. Outgoing \in Seq(Word)
    BY <1>2, <1>3, BeginsWith DEF Outgoing
  <1>5. (reduction \o reporting) \in Seq(Value)
    BY <1>2, BeginsWith
  <1>6. Unreturned \in Seq(Value)
    BY <1>3, <1>5, BeginsWith DEF Unreturned
  <1> QED BY <1>2, <1>3, <1>4, <1>5, <1>6

\* Answers but those of reads are not looked at.
LEMMA AnswersKeepKernels ==
    ASSUME HostOK, ReadsGiveKernels, UNCHANGED program, NEW c \in Client,
           \A d \in Client \ {c} : answers'[d] = answers[d],
           \/ answers'[c] = answers[c]
           \/ \E a : /\ answers'[c] = Append(answers[c], a)
                     /\ Current(c).type = "reduce" => a.data \in KernelResults
    PROVE  ReadsGiveKernels'
  <1> SUFFICES ASSUME NEW d \in Client, NEW n \in 1..Len(answers'[d]),
                      program[d][n].type = "reduce"
               PROVE  answers'[d][n].data \in KernelResults
    BY DEF ReadsGiveKernels
  <1>1. CASE answers'[d] = answers[d]
    BY <1>1 DEF ReadsGiveKernels
  <1>2. CASE d = c /\ answers'[c] # answers[c]
    <2>1. PICK a : /\ answers'[c] = Append(answers[c], a)
                   /\ Current(c).type = "reduce" => a.data \in KernelResults
      BY <1>2
    <2>2. PICK s : s = answers[c]
      OBVIOUS
    <2>3. s \in Seq(Answered) /\ answers'[d] = Append(s, a)
      BY <1>2, <2>1, <2>2 DEF HostOK
    <2>4. /\ Len(s) \in Nat /\ Len(Append(s, a)) = Len(s) + 1
          /\ Append(s, a)[Len(s) + 1] = a
          /\ \A i \in 1..Len(s) : Append(s, a)[i] = s[i]
      BY <2>3
    <2>5. CASE n = Len(s) + 1
      <3>1. Current(c) = program[d][n]
        BY <1>2, <2>2, <2>5 DEF Current
      <3> QED BY <2>1, <2>3, <2>4, <2>5, <3>1
    <2>6. CASE n # Len(s) + 1
      <3>1. n \in 1..Len(s)
        BY <2>3, <2>4, <2>6
      <3>2. answers'[d][n] = answers[d][n] /\ n \in 1..Len(answers[d])
        BY <1>2, <2>2, <2>3, <2>4, <3>1
      <3> QED BY <3>2 DEF ReadsGiveKernels
    <2> QED BY <2>5, <2>6
  <1> QED BY <1>1, <1>2

\* What does not use these FIFOs does not disturb them.
LEMMA Undisturbed ==
    ASSUME NEW count, SharedInv(count), HostOK,
           UNCHANGED <<program, threadMutexIR, distribution, reduction, reporting, register>>,
           \A d \in Client :
               \/ call'[d] = call[d] /\ answers'[d] = answers[d]
               \/ call[d].at \notin {"execute", "reduce"}
                  /\ call'[d].at \notin {"execute", "reduce"},
           ReadsGiveKernels'
    PROVE  SharedInv(count)'
  <1>1. LockedIR'
    BY DEF SharedInv, LockedIR
  <1>2. Unsent' = Unsent /\ Collected' = Collected
    <2>1. CASE threadMutexIR = NoClient
      BY <1>1, <2>1, HolderParts, HolderPartsAfter DEF SharedInv
    <2>2. CASE threadMutexIR # NoClient
      <3>1. PICK c \in Client : threadMutexIR = c
        BY <2>2 DEF HostOK
      <3>2. call[c].at \in {"execute", "reduce"}
        BY <3>1 DEF LockedIR, SharedInv
      <3>3. call'[c] = call[c] /\ Current(c)' = Current(c)
        BY <3>2 DEF Current
      <3> QED BY <3>1, <3>3 DEF Unsent, Collected, Current
    <2> QED BY <2>1, <2>2
  <1>3. Outgoing' = Outgoing /\ Unreturned' = Unreturned
    BY <1>2 DEF Outgoing, Unreturned
  <1>4. Explained(Outgoing, Unreturned, register, count)'
    BY <1>3 DEF SharedInv
  <1> QED BY <1>1, <1>4 DEF SharedInv

\* The first of two sequences is taken apart first.
LEMMA FirstTaken ==
    ASSUME NEW S, NEW s \in Seq(S), NEW t \in Seq(S), s # << >>
    PROVE  /\ s \o t # << >> /\ Head(s \o t) = Head(s)
           /\ Tail(s \o t) = Tail(s) \o t
  <1>1. /\ Len(s) \in Nat \ {0} /\ Len(t) \in Nat
        /\ Tail(s) \in Seq(S) /\ Len(Tail(s)) = Len(s) - 1
        /\ \A i \in 1..(Len(s) - 1) : Tail(s)[i] = s[i + 1]
    OBVIOUS
  <1>2. PICK u : u = s \o t
    OBVIOUS
  <1>3. /\ u \in Seq(S) /\ Len(u) = Len(s) + Len(t)
        /\ \A i \in 1..Len(s) : u[i] = s[i]
        /\ \A i \in 1..Len(t) : u[Len(s) + i] = t[i]
    BY <1>2, BeginsWith
  <1>4. u # << >> /\ Head(u) = s[1] /\ Head(s) = s[1]
    BY <1>1, <1>3
  <1>5. /\ Tail(u) \in Seq(S) /\ Len(Tail(u)) = Len(u) - 1
        /\ \A i \in 1..(Len(u) - 1) : Tail(u)[i] = u[i + 1]
    BY <1>3, <1>4
  <1>6. PICK r : r = Tail(s)
    OBVIOUS
  <1>7. PICK v : v = r \o t
    OBVIOUS
  <1>8. /\ v \in Seq(S) /\ Len(v) = Len(r) + Len(t)
        /\ \A i \in 1..Len(r) : v[i] = r[i]
        /\ \A i \in 1..Len(t) : v[Len(r) + i] = t[i]
    BY <1>1, <1>6, <1>7, BeginsWith
  <1>9. ASSUME NEW i \in 1..Len(v) PROVE Tail(u)[i] = v[i]
    <2>1. i \in 1..(Len(u) - 1) /\ Len(v) = Len(s) - 1 + Len(t)
      BY <1>1, <1>3, <1>6, <1>8
    <2>2. CASE i <= Len(s) - 1
      <3>1. i \in 1..(Len(s) - 1) /\ i + 1 \in 1..Len(s)
        BY <1>1, <2>2
      <3> QED BY <1>1, <1>3, <1>5, <1>6, <1>8, <2>1, <3>1
    <2>3. CASE ~(i <= Len(s) - 1)
      <3>1. PICK k : k = i - (Len(s) - 1)
        OBVIOUS
      <3>2. /\ k \in 1..Len(t) /\ i + 1 = Len(s) + k /\ i = Len(r) + k
        BY <1>1, <1>6, <2>1, <2>3, <3>1
      <3> QED BY <1>3, <1>5, <1>8, <2>1, <3>2
    <2> QED BY <2>2, <2>3
  <1>10. Tail(u) = v
    <2>1. Len(Tail(u)) = Len(v)
      BY <1>1, <1>3, <1>5, <1>6, <1>8
    <2>2. PICK w : w = Tail(u)
      OBVIOUS
    <2>3. /\ w \in Seq(S) /\ v \in Seq(S) /\ Len(w) = Len(v)
          /\ \A i \in 1..Len(v) : w[i] = v[i]
      BY <1>5, <1>8, <1>9, <2>1, <2>2
    <2>4. w = v
      BY ONLY <2>3
    <2> QED BY <2>2, <2>4
  <1> QED BY <1>2, <1>4, <1>6, <1>7, <1>10

\* The rest of a sequence from a place on.
LEMMA RestOf ==
    ASSUME NEW S, NEW s \in Seq(S), NEW n \in Nat
    PROVE  /\ SubSeq(s, 1, Len(s)) = s
           /\ n >= Len(s) => SubSeq(s, n + 1, Len(s)) = << >>
           /\ n < Len(s) =>
                 /\ SubSeq(s, n + 1, Len(s)) # << >>
                 /\ Head(SubSeq(s, n + 1, Len(s))) = s[n + 1]
                 /\ Tail(SubSeq(s, n + 1, Len(s))) = SubSeq(s, n + 2, Len(s))
  OBVIOUS

\* executeKernel() begins.
LEMMA ExecuteShared ==
    ASSUME IInv, NEW count \in Nat \ {0}, KernelsCompute(count), SharedInv(count),
           NEW c \in Client, Execute(c), UNCHANGED threadVars
    PROVE  SharedInv(count)'
  <1>1. /\ HostOK /\ call[c].at = "idle" /\ call[c] = Idle /\ ~Finished(c)
        /\ threadMutexIR = NoClient /\ Current(c).type = "execute"
        /\ UNCHANGED <<program, distribution, reduction, reporting, register>>
    BY DEF Execute, Calls, IInv, TypeOK, Calling, pipeVars, threadVars
  <1>2. NoClient \notin Client
    BY ClientAssumption
  <1>3. \A d \in Client : call[d].at \notin {"execute", "reduce"}
    BY <1>1, <1>2 DEF SharedInv, LockedIR
  <1>4. CASE Current(c).kernel \in DOMAIN Kernels
    <2>1. threadMutexIR' = c /\ Enter(c) /\ UNCHANGED answers
      BY <1>4 DEF Execute
    <2>2. /\ call'[c] = [at |-> "execute", sent |-> 0, got |-> << >>]
          /\ \A d \in Client \ {c} : call'[d] = call[d]
      BY <1>1, <2>1, EnterFacts
    <2>3. call'[c].at = "execute" /\ call'[c].sent = 0
      BY <2>2
    <2>4. LockedIR'
      BY <1>3, <2>1, <2>2, <2>3 DEF LockedIR
    <2>5. PICK k : k = Kernels[Current(c).kernel]
      OBVIOUS
    <2>6. k \in Seq(Word) /\ Current(c)' = Current(c)
      BY <1>1, <1>4, <2>1, <2>5, KernelsAssumption DEF Current
    <2>7. Unsent = << >> /\ Collected = << >>
      BY <1>1, HolderParts DEF SharedInv
    <2>8. Unsent' = k /\ Collected' = << >>
      <3>1. SubSeq(k, 0 + 1, Len(k)) = k
        BY <2>6
      <3> QED BY <2>3, <2>4, <2>5, <2>6, <3>1, HolderPartsAfter
    <2>9. Outgoing' = Outgoing \o k
      <3>1. distribution \in Seq(Word)
        BY PartsTyped DEF SharedInv
      <3>2. distribution \o << >> = distribution
        BY <3>1
      <3> QED BY <1>1, <2>7, <2>8, <3>2 DEF Outgoing
    <2>10. Unreturned' = Unreturned
      BY <1>1, <2>7, <2>8 DEF Unreturned
    <2>11. Explained(Outgoing \o k, Unreturned, register, count)
      <3>1. Outgoing \in Seq(Word) /\ Unreturned \in Seq(Value)
        BY PartsTyped DEF SharedInv
      <3>2. Computes(Kernels[Current(c).kernel], count)
        <4>1. /\ Len(answers[c]) + 1 \in 1..Len(program[c])
              /\ Current(c) = program[c][Len(answers[c]) + 1]
          BY <1>1, CurrentFacts DEF Current
        <4> QED BY <4>1, <1>1, <1>4 DEF KernelsCompute
      <3> QED BY <1>4, <2>5, <3>1, <3>2, KernelExplained DEF SharedInv
    <2>12. ReadsGiveKernels'
      BY <1>1, <2>1 DEF SharedInv, ReadsGiveKernels
    <2> QED BY <1>1, <2>4, <2>9, <2>10, <2>11, <2>12 DEF SharedInv
  <1>5. CASE Current(c).kernel \notin DOMAIN Kernels
    <2>1. Answer(c, Threw) /\ UNCHANGED threadMutexIR
      BY <1>5 DEF Execute
    <2>2. Threw \in Answered
      <3>1. << >> \in Seq(Value)
        OBVIOUS
      <3> QED BY <3>1 DEF Threw, Answered
    <2>3. /\ call'[c] = Idle /\ answers'[c] = Append(answers[c], Threw)
          /\ \A d \in Client \ {c} : call'[d] = call[d] /\ answers'[d] = answers[d]
      BY <1>1, <2>1, <2>2, AnswerFacts
    <2>4. call'[c].at = "idle"
      BY <2>3 DEF Idle
    <2>5. ReadsGiveKernels'
      BY <1>1, <2>3, AnswersKeepKernels DEF SharedInv
    <2>6. \A d \in Client :
              \/ call'[d] = call[d] /\ answers'[d] = answers[d]
              \/ call[d].at \notin {"execute", "reduce"}
                 /\ call'[d].at \notin {"execute", "reduce"}
      BY <1>3, <2>3, <2>4
    <2> QED BY <1>1, <2>1, <2>5, <2>6, Undisturbed
  <1> QED BY <1>4, <1>5

\* Kernel::writeTo() moves a word from those to be sent to those sent.
LEMMA SendWordShared ==
    ASSUME IInv, NEW count, SharedInv(count),
           NEW c \in Client, SendWord(c), UNCHANGED threadVars
    PROVE  SharedInv(count)'
  <1>1. /\ HostOK /\ call[c].at = "execute"
        /\ UNCHANGED <<program, answers, threadMutexIR, reduction, reporting, register>>
    BY DEF SendWord, BrokenPipe, Within, IInv, TypeOK, pipeVars, threadVars
  <1>2. ReadsGiveKernels'
    BY <1>1 DEF SharedInv, ReadsGiveKernels
  <1>3. CASE BrokenPipe
    <2>1. UNCHANGED <<call, distribution>>
      BY <1>3 DEF BrokenPipe, pipeVars
    <2> QED BY <1>1, <1>2, <2>1, Undisturbed
  <1>4. CASE ~BrokenPipe
    <2>1. PICK k : k = Kernels[Current(c).kernel]
      OBVIOUS
    <2>2. PICK n : n = call[c].sent
      OBVIOUS
    <2>3. /\ n < Len(k) /\ distribution' = Append(distribution, k[n + 1])
          /\ call' = [call EXCEPT ![c].sent = @ + 1]
      BY <1>4, <2>1, <2>2 DEF SendWord
    <2>4. k \in Seq(Word) /\ n \in Nat
      BY <1>1, <2>1, <2>2, CallFacts
    <2>5. /\ call'[c].at = "execute" /\ call'[c].sent = n + 1
          /\ \A d \in Client \ {c} : call'[d] = call[d]
      BY <1>1, <2>2, <2>3, CallStep DEF HostOK
    <2>6. LockedIR'
      BY <1>1, <2>5 DEF SharedInv, LockedIR
    <2>7. Unsent = SubSeq(k, n + 1, Len(k)) /\ Collected = << >>
      BY <1>1, <2>1, <2>2, HolderParts DEF SharedInv
    <2>8. Unsent' = SubSeq(k, n + 2, Len(k)) /\ Collected' = << >>
      <3>1. Current(c)' = Current(c) /\ (n + 1) + 1 = n + 2
        BY <1>1, <2>4 DEF Current
      <3> QED BY <2>1, <2>5, <2>6, <3>1, HolderPartsAfter
    <2>9. /\ Unsent # << >> /\ Head(Unsent) = k[n + 1] /\ Tail(Unsent) = Unsent'
      BY <2>3, <2>4, <2>7, <2>8, RestOf
    <2>10. Outgoing' = Outgoing
      <3>1. distribution \in Seq(Word) /\ Unsent \in Seq(Word)
        BY PartsTyped DEF SharedInv
      <3>2. Append(distribution, Head(Unsent)) \o Tail(Unsent) = distribution \o Unsent
        BY <2>9, <3>1, Shifted
      <3> QED BY <2>3, <2>9, <3>2 DEF Outgoing
    <2>11. Unreturned' = Unreturned
      BY <1>1, <2>7, <2>8 DEF Unreturned
    <2> QED BY <1>1, <1>2, <2>6, <2>10, <2>11 DEF SharedInv
  <1> QED BY <1>3, <1>4

\* executeKernel() returns when all is sent.
LEMMA ExecuteReturnsShared ==
    ASSUME IInv, NEW count, SharedInv(count),
           NEW c \in Client, ExecuteReturns(c), UNCHANGED threadVars
    PROVE  SharedInv(count)'
  <1>1. /\ HostOK /\ call[c].at = "execute"
        /\ call[c].sent = Len(Kernels[Current(c).kernel])
        /\ threadMutexIR' = NoClient /\ Answer(c, Returned(<< >>))
        /\ UNCHANGED <<program, distribution, reduction, reporting, register>>
    BY DEF ExecuteReturns, Within, IInv, TypeOK, pipeVars, threadVars
  <1>2. /\ ~Finished(c) /\ Current(c).type = "execute"
        /\ Kernels[Current(c).kernel] \in Seq(Word)
    BY <1>1, CallFacts
  <1>3. Returned(<< >>) \in Answered
    <2>1. << >> \in Seq(Value)
      OBVIOUS
    <2> QED BY <2>1 DEF Returned, Answered
  <1>4. /\ call'[c] = Idle /\ answers'[c] = Append(answers[c], Returned(<< >>))
        /\ \A d \in Client \ {c} : call'[d] = call[d] /\ answers'[d] = answers[d]
    BY <1>1, <1>2, <1>3, AnswerFacts
  <1>5. LockedIR'
    <2>1. NoClient \notin Client /\ call'[c].at = "idle"
      BY <1>4, ClientAssumption DEF Idle
    <2>2. \A d \in Client \ {c} : call[d].at \notin {"execute", "reduce"}
      BY <1>1 DEF SharedInv, LockedIR
    <2> QED BY <1>1, <1>4, <2>1, <2>2 DEF LockedIR
  <1>6. Unsent = << >> /\ Collected = << >>
    <2>1. PICK k \in Seq(Word) : k = Kernels[Current(c).kernel]
      BY <1>2
    <2>2. Len(k) \in Nat /\ Len(k) >= Len(k)
      OBVIOUS
    <2>3. SubSeq(k, Len(k) + 1, Len(k)) = << >>
      BY ONLY <2>2, k \in Seq(Word), RestOf
    <2> QED BY <1>1, <2>1, <2>3, HolderParts DEF SharedInv
  <1>7. Unsent' = << >> /\ Collected' = << >>
    BY <1>1, <1>5, HolderPartsAfter
  <1>8. Outgoing' = Outgoing /\ Unreturned' = Unreturned
    BY <1>1, <1>6, <1>7 DEF Outgoing, Unreturned
  <1>9. ReadsGiveKernels'
    BY <1>1, <1>2, <1>4, AnswersKeepKernels DEF SharedInv
  <1> QED BY <1>1, <1>5, <1>8, <1>9 DEF SharedInv

\* readReductionResults() begins.
LEMMA ReduceShared ==
    ASSUME IInv, NEW count, SharedInv(count),
           NEW c \in Client, Reduce(c), UNCHANGED threadVars
    PROVE  SharedInv(count)'
  <1>1. /\ HostOK /\ call[c].at = "idle" /\ call[c] = Idle /\ ~Finished(c)
        /\ threadMutexIR = NoClient /\ threadMutexIR' = c /\ Current(c).type = "reduce"
        /\ Enter(c)
        /\ UNCHANGED <<program, answers, distribution, reduction, reporting, register>>
    BY DEF Reduce, Calls, IInv, TypeOK, Calling, pipeVars, threadVars
  <1>2. \A d \in Client : call[d].at \notin {"execute", "reduce"}
    BY <1>1, ClientAssumption DEF SharedInv, LockedIR
  <1>3. /\ call'[c] = [at |-> "reduce", sent |-> 0, got |-> << >>]
        /\ \A d \in Client \ {c} : call'[d] = call[d]
    BY <1>1, EnterFacts
  <1>4. call'[c].at = "reduce" /\ call'[c].got = << >>
    BY <1>3
  <1>5. LockedIR'
    BY <1>1, <1>2, <1>3, <1>4 DEF LockedIR
  <1>6. Unsent = << >> /\ Collected = << >>
    BY <1>1, HolderParts DEF SharedInv
  <1>7. Unsent' = << >> /\ Collected' = << >>
    BY <1>4, <1>5, HolderPartsAfter
  <1>8. Outgoing' = Outgoing /\ Unreturned' = Unreturned
    BY <1>1, <1>6, <1>7 DEF Outgoing, Unreturned
  <1>9. ReadsGiveKernels'
    BY <1>1 DEF SharedInv, ReadsGiveKernels
  <1> QED BY <1>1, <1>5, <1>8, <1>9 DEF SharedInv

\* readFromPipe() takes the oldest result.
LEMMA ReceiveResultShared ==
    ASSUME IInv, NEW count, SharedInv(count),
           NEW c \in Client, ReceiveResult(c), UNCHANGED threadVars
    PROVE  SharedInv(count)'
  <1>1. /\ HostOK /\ call[c].at = "reduce" /\ reduction # << >>
        /\ call' = [call EXCEPT ![c].got = Append(@, Head(reduction))]
        /\ reduction' = Tail(reduction)
        /\ UNCHANGED <<program, answers, threadMutexIR, distribution, reporting, register>>
    BY DEF ReceiveResult, Within, IInv, TypeOK, threadVars
  <1>2. /\ call'[c].at = "reduce" /\ call'[c].got = Append(call[c].got, Head(reduction))
        /\ \A d \in Client \ {c} : call'[d] = call[d]
    BY <1>1, CallStep DEF HostOK
  <1>3. LockedIR'
    BY <1>1, <1>2 DEF SharedInv, LockedIR
  <1>4. Unsent = << >> /\ Collected = call[c].got
    BY <1>1, HolderParts DEF SharedInv
  <1>5. Unsent' = << >> /\ Collected' = Append(Collected, Head(reduction))
    BY <1>2, <1>3, <1>4, HolderPartsAfter
  <1>6. Outgoing' = Outgoing
    BY <1>1, <1>4, <1>5 DEF Outgoing
  <1>7. Unreturned' = Unreturned
    <2>1. /\ Collected \in Seq(Value) /\ reduction \in Seq(Value)
          /\ reporting \in Seq(Value) /\ (reduction \o reporting) \in Seq(Value)
      BY PartsTyped DEF SharedInv
    <2>2. PICK t : t = reduction \o reporting
      OBVIOUS
    <2>3. t # << >> /\ Head(t) = Head(reduction) /\ Tail(t) = Tail(reduction) \o reporting
      BY <1>1, <2>1, <2>2, FirstTaken
    <2>4. Append(Collected, Head(t)) \o Tail(t) = Collected \o t
      BY <2>1, <2>2, <2>3, Shifted
    <2> QED BY <1>1, <1>5, <2>2, <2>3, <2>4 DEF Unreturned
  <1>8. ReadsGiveKernels'
    BY <1>1 DEF SharedInv, ReadsGiveKernels
  <1> QED BY <1>1, <1>3, <1>6, <1>7, <1>8 DEF SharedInv

\* readReductionResults() returns the results of one kernel.
LEMMA ReduceReturnsShared ==
    ASSUME IInv, NEW count \in Nat \ {0}, ReadsAskFor(count), SharedInv(count),
           NEW c \in Client, ReduceReturns(c), UNCHANGED threadVars
    PROVE  SharedInv(count)'
  <1>1. /\ HostOK /\ call[c].at = "reduce" /\ Len(call[c].got) = Current(c).count
        /\ threadMutexIR' = NoClient /\ Answer(c, Returned(call[c].got))
        /\ UNCHANGED <<program, distribution, reduction, reporting, register>>
    BY DEF ReduceReturns, Within, IInv, TypeOK, pipeVars, threadVars
  <1>2. ~Finished(c) /\ Current(c).type = "reduce" /\ call[c].got \in Seq(Value)
    BY <1>1, CallFacts
  <1>3. Current(c).count = count
    <2>1. /\ Len(answers[c]) + 1 \in 1..Len(program[c])
          /\ Current(c) = program[c][Len(answers[c]) + 1]
      BY <1>1, <1>2, CurrentFacts DEF Current
    <2> QED BY <2>1, <1>2 DEF ReadsAskFor
  <1>4. Returned(call[c].got) \in Answered /\ Returned(call[c].got).data = call[c].got
    BY <1>2 DEF Returned, Answered
  <1>5. /\ call'[c] = Idle /\ answers'[c] = Append(answers[c], Returned(call[c].got))
        /\ \A d \in Client \ {c} : call'[d] = call[d] /\ answers'[d] = answers[d]
    BY <1>1, <1>2, <1>4, AnswerFacts
  <1>6. LockedIR'
    <2>1. NoClient \notin Client /\ call'[c].at = "idle"
      BY <1>5, ClientAssumption DEF Idle
    <2>2. \A d \in Client \ {c} : call[d].at \notin {"execute", "reduce"}
      BY <1>1 DEF SharedInv, LockedIR
    <2> QED BY <1>1, <1>5, <2>1, <2>2 DEF LockedIR
  <1>7. Unsent = << >> /\ Collected = call[c].got
    BY <1>1, HolderParts DEF SharedInv
  <1>8. Unsent' = << >> /\ Collected' = << >>
    BY <1>1, <1>6, HolderPartsAfter
  <1>9. PICK rest : rest = reduction \o reporting
    OBVIOUS
  <1>10. /\ rest \in Seq(Value) /\ Outgoing \in Seq(Word)
         /\ Unreturned = call[c].got \o rest /\ Unreturned' = << >> \o rest
    <2>1. (reduction \o reporting) \in Seq(Value) /\ Outgoing \in Seq(Word)
      BY PartsTyped DEF SharedInv
    <2> QED BY <1>1, <1>7, <1>8, <1>9, <2>1 DEF Unreturned
  <1>11. Unreturned' = rest
    BY <1>10
  <1>12. Outgoing' = Outgoing
    BY <1>1, <1>7, <1>8 DEF Outgoing
  <1>13. Explained(Outgoing, call[c].got \o rest, register, count)
    BY <1>10 DEF SharedInv
  <1>14. call[c].got \in KernelResults /\ Explained(Outgoing, rest, register, count)
    BY <1>1, <1>2, <1>3, <1>10, <1>13, ReadExplained
  <1>15. ReadsGiveKernels'
    BY <1>1, <1>4, <1>5, <1>14, AnswersKeepKernels DEF SharedInv
  <1> QED BY <1>1, <1>6, <1>11, <1>12, <1>14, <1>15 DEF SharedInv

\* The core thread takes a word that is to be executed, or puts a result where
\* it can be read.
LEMMA CoreShared ==
    ASSUME IInv, NEW count \in Nat \ {0}, SharedInv(count), CoreStep, UNCHANGED hostVars
    PROVE  SharedInv(count)'
  <1>1. UNCHANGED <<program, answers, call, threadMutexIR>>
    BY DEF hostVars
  <1>2. /\ LockedIR /\ ReadsGiveKernels
        /\ Explained(Outgoing, Unreturned, register, count)
    BY DEF SharedInv
  <1>3. LockedIR' /\ ReadsGiveKernels'
    BY <1>1, <1>2 DEF LockedIR, ReadsGiveKernels
  <1>4. Unsent' = Unsent /\ Collected' = Collected
    BY <1>1 DEF Unsent, Collected, Current
  <1>5. /\ distribution \in Seq(Word) /\ Unsent \in Seq(Word) /\ Outgoing \in Seq(Word)
        /\ Collected \in Seq(Value) /\ reduction \in Seq(Value)
        /\ reporting \in Seq(Value) /\ (reduction \o reporting) \in Seq(Value)
        /\ Unreturned \in Seq(Value) /\ register \in Value
    BY <1>2, PartsTyped
  <1>6. ASSUME NEW op, Fetch(op)
        PROVE  /\ Outgoing # << >> /\ Head(Outgoing) = Head(distribution)
               /\ Head(Outgoing).op = op /\ Outgoing' = Tail(Outgoing)
    <2>1. /\ distribution # << >> /\ Head(distribution).op = op
          /\ distribution' = Tail(distribution)
      BY <1>6 DEF Fetch
    <2>2. /\ distribution \o Unsent # << >>
          /\ Head(distribution \o Unsent) = Head(distribution)
          /\ Tail(distribution \o Unsent) = Tail(distribution) \o Unsent
      BY <1>5, <2>1, FirstTaken
    <2> QED BY <1>4, <2>1, <2>2 DEF Outgoing
  <1>7. CASE Vload \/ Iread \/ Iwrite \/ Throw
    <2>1. PICK op \in {"VLOAD", "IREAD", "IWRITE", "THROW"} :
              /\ Fetch(op)
              /\ op = "VLOAD" => register' = Head(distribution).arg
              /\ op \notin {"VLOAD", "IREAD"} => register' = register
      BY <1>7 DEF Vload, Iread, Iwrite, Throw, threadVars
    <2>2. UNCHANGED <<reduction, reporting>>
      BY <1>7 DEF Vload, Iread, Iwrite, Throw, threadVars
    <2>3. Unreturned' = Unreturned
      BY <1>4, <2>2 DEF Unreturned
    <2>4. /\ Outgoing # << >> /\ Head(Outgoing) = Head(distribution)
          /\ Head(Outgoing).op = op /\ Outgoing' = Tail(Outgoing)
      BY <1>6, <2>1
    <2>5. /\ Head(Outgoing).op # "RED"
          /\ Head(Outgoing).op = "VLOAD" => register' = Head(Outgoing).arg
          /\ Head(Outgoing).op \notin {"VLOAD", "IREAD"} => register' = register
      BY <2>1, <2>4
    <2>6. PICK new : new = register'
      OBVIOUS
    <2>7. Explained(Tail(Outgoing), Unreturned, new, count)
      BY <1>2, <1>5, <2>4, <2>5, <2>6, FetchExplained
    <2> QED BY <1>3, <2>3, <2>4, <2>6, <2>7 DEF SharedInv
  <1>8. CASE Red
    <2>1. Fetch("RED") /\ reporting' = <<register>> /\ UNCHANGED <<reduction, register>>
      BY <1>8 DEF Red
    <2>2. reporting = << >>
      BY <2>1 DEF Fetch
    <2>3. Outgoing # << >> /\ Head(Outgoing).op = "RED" /\ Outgoing' = Tail(Outgoing)
      BY <1>6, <2>1
    <2>4. Explained(Tail(Outgoing), Append(Unreturned, register), register, count)
      BY <1>2, <1>5, <2>3, RedExplained
    <2>5. Unreturned' = Append(Unreturned, register)
      <3>1. reduction \o reporting' = Append(reduction, register)
        BY <1>5, <2>1
      <3>2. reduction \o reporting = reduction
        BY <1>5, <2>2
      <3>3. Collected \o Append(reduction, register)
                = Append(Collected \o reduction, register)
        BY <1>5, AppendedLast
      <3> QED BY <1>4, <2>1, <3>1, <3>2, <3>3 DEF Unreturned
    <2> QED BY <1>3, <2>1, <2>3, <2>4, <2>5 DEF SharedInv
  <1>9. CASE Report
    <2>1. /\ reduction' = reduction \o reporting /\ reporting' = << >>
          /\ UNCHANGED <<distribution, register>>
      BY <1>9 DEF Report
    <2>2. reduction' \o reporting' = reduction \o reporting
      <3>1. PICK t \in Seq(Value) : t = reduction \o reporting
        BY <1>5
      <3>2. t \o << >> = t
        OBVIOUS
      <3> QED BY <2>1, <3>1, <3>2
    <2>3. Outgoing' = Outgoing /\ Unreturned' = Unreturned
      BY <1>4, <2>1, <2>2 DEF Outgoing, Unreturned
    <2> QED BY <1>2, <1>3, <2>1, <2>3 DEF SharedInv
  <1> QED BY <1>7, <1>8, <1>9 DEF CoreStep

\* Transfers use the other FIFOs and the other mutex.
LEMMA TransferShared ==
    ASSUME IInv, NEW count, SharedInv(count), NEW c \in Client,
           StartTransfer(c) \/ SendItem(c) \/ ReceiveItem(c) \/ TransferReturns(c),
           UNCHANGED threadVars
    PROVE  SharedInv(count)'
  <1>1. /\ HostOK /\ ReadsGiveKernels
        /\ UNCHANGED <<program, threadMutexIR, distribution, reduction, reporting, register>>
    BY DEF StartTransfer, SendItem, ReceiveItem, TransferReturns, BrokenPipe, IInv, TypeOK,
           SharedInv, pipeVars, threadVars
  <1>2. call \in [Client -> CallState]
    BY <1>1 DEF HostOK
  <1>3. CASE StartTransfer(c)
    <2>1. /\ call[c].at = "idle" /\ call[c] = Idle /\ ~Finished(c)
          /\ Current(c).type \in Transfers /\ UNCHANGED answers
          /\ Enter(c) \/ UNCHANGED call
      BY <1>3 DEF StartTransfer, Calls, IInv, Calling
    <2>2. ReadsGiveKernels'
      BY <1>1, <2>1 DEF ReadsGiveKernels
    <2>3. CASE Enter(c)
      <3>1. /\ call'[c] = [at |-> Current(c).type, sent |-> 0, got |-> << >>]
            /\ \A d \in Client \ {c} : call'[d] = call[d]
        BY <1>1, <2>1, <2>3, EnterFacts
      <3>2. call'[c].at \notin {"execute", "reduce"}
        BY <2>1, <3>1 DEF Transfers
      <3> QED BY <1>1, <2>1, <2>2, <3>1, <3>2, Undisturbed
    <2>4. CASE UNCHANGED call
      BY <1>1, <2>1, <2>2, <2>4, Undisturbed
    <2> QED BY <2>1, <2>3, <2>4
  <1>4. CASE SendItem(c) \/ ReceiveItem(c)
    <2>1. call[c].at \in Transfers /\ UNCHANGED answers
      BY <1>4 DEF SendItem, ReceiveItem, BrokenPipe, Within
    <2>2. \/ UNCHANGED call
          \/ call' = [call EXCEPT ![c].sent = @ + 1]
          \/ \E x : call' = [call EXCEPT ![c].got = Append(@, x)]
      BY <1>4 DEF SendItem, ReceiveItem, BrokenPipe
    <2>3. call'[c].at = call[c].at
      BY <1>1, <2>2, CallStep
    <2>4. \A d \in Client \ {c} : call'[d] = call[d]
      BY <1>2, <2>2
    <2>5. ReadsGiveKernels'
      BY <1>1, <2>1 DEF ReadsGiveKernels
    <2>6. call[c].at \notin {"execute", "reduce"} /\ call'[c].at \notin {"execute", "reduce"}
      BY <2>1, <2>3 DEF Transfers
    <2> QED BY <1>1, <2>1, <2>4, <2>5, <2>6, Undisturbed
  <1>5. CASE TransferReturns(c)
    <2> DEFINE data == IF Current(c).type = "read" THEN call[c].got ELSE << >>
    <2>1. call[c].at \in Transfers /\ Answer(c, Returned(data))
      BY <1>5 DEF TransferReturns, Within
    <2>2. /\ ~Finished(c) /\ Current(c).type = call[c].at /\ call[c].got \in Seq(Value)
      BY <2>1, CallFacts DEF Transfers
    <2>3. Returned(data) \in Answered
      BY <2>2 DEF Returned, Answered
    <2> HIDE DEF data
    <2>4. /\ call'[c] = Idle /\ answers'[c] = Append(answers[c], Returned(data))
          /\ \A d \in Client \ {c} : call'[d] = call[d] /\ answers'[d] = answers[d]
      BY <1>1, <2>1, <2>2, <2>3, AnswerFacts
    <2>5. Current(c).type # "reduce"
      BY <2>1, <2>2 DEF Transfers
    <2>6. ReadsGiveKernels'
      BY <1>1, <2>4, <2>5, AnswersKeepKernels
    <2>7. call[c].at \notin {"execute", "reduce"} /\ call'[c].at \notin {"execute", "reduce"}
      BY <2>1, <2>4 DEF Transfers, Idle
    <2> QED BY <1>1, <2>4, <2>6, <2>7, Undisturbed
  <1> QED BY <1>3, <1>4, <1>5

\* Every step.
LEMMA NextShared ==
    ASSUME IInv, NEW count \in Nat \ {0}, KernelsCompute(count), ReadsAskFor(count),
           SharedInv(count), [Next]_systemVars
    PROVE  SharedInv(count)'
  <1>1. HostOK /\ ReadsGiveKernels
    BY DEF IInv, TypeOK, SharedInv
  <1>2. ASSUME UNCHANGED <<program, answers, call, threadMutexIR, distribution, reduction,
                           reporting, register>>
        PROVE  SharedInv(count)'
    <2>1. ReadsGiveKernels'
      BY <1>1, <1>2 DEF ReadsGiveKernels
    <2> QED BY <1>1, <1>2, <2>1, Undisturbed
  <1>3. ASSUME NEW c \in Client, ClientStep(c), UNCHANGED threadVars
        PROVE  SharedInv(count)'
    <2>1. CASE Execute(c)
      BY <1>3, <2>1, ExecuteShared
    <2>2. CASE SendWord(c)
      BY <1>3, <2>2, SendWordShared
    <2>3. CASE ExecuteReturns(c)
      BY <1>3, <2>3, ExecuteReturnsShared
    <2>4. CASE Reduce(c)
      BY <1>3, <2>4, ReduceShared
    <2>5. CASE ReceiveResult(c)
      BY <1>3, <2>5, ReceiveResultShared
    <2>6. CASE ReduceReturns(c)
      BY <1>3, <2>6, ReduceReturnsShared
    <2>7. CASE StartTransfer(c) \/ SendItem(c) \/ ReceiveItem(c) \/ TransferReturns(c)
      BY <1>3, <2>7, TransferShared
    <2> QED BY <1>3, <2>1, <2>2, <2>3, <2>4, <2>5, <2>6, <2>7 DEF ClientStep
  <1>4. CASE CoreStep /\ UNCHANGED hostVars
    BY <1>4, CoreShared
  <1>5. CASE IoStep /\ UNCHANGED hostVars
    BY <1>2, <1>5
       DEF IoStep, Receive, Collect, Store, Acknowledge, Send, pipeVars, hostVars
  <1>6. CASE UNCHANGED systemVars
    BY <1>2, <1>6 DEF systemVars, hostVars, pipeVars, threadVars
  <1> QED BY <1>3, <1>4, <1>5, <1>6 DEF Next, Quiet

\* Nothing is under way at first.
LEMMA InitShared ==
    ASSUME Init, NEW count \in Nat \ {0}
    PROVE  SharedInv(count)
  <1>1. /\ \A c \in Client : answers[c] = << >> /\ call[c] = Idle
        /\ threadMutexIR = NoClient
        /\ distribution = << >> /\ reduction = << >> /\ reporting = << >>
    BY DEF Init, PipesInit, HostInit, ThreadsInit
  <1>2. NoClient \notin Client
    BY ClientAssumption
  <1>3. LockedIR
    BY <1>1, <1>2 DEF LockedIR, Idle
  <1>4. Unsent = << >> /\ Collected = << >>
    BY <1>1, <1>2 DEF Unsent, Collected
  <1>5. Outgoing = << >> /\ Unreturned = << >>
    BY <1>1, <1>4 DEF Outgoing, Unreturned
  <1>6. Explained(Outgoing, Unreturned, register, count)
    BY <1>5, NothingExplained
  <1>7. ReadsGiveKernels
    BY <1>1 DEF ReadsGiveKernels
  <1> QED BY <1>3, <1>6, <1>7 DEF SharedInv

\* Threads that share the machine, whatever they execute and in whatever order
\* they take turns, read the results of one kernel at a time, whole and in order
\* (threadMutexIR, ConnexMachine.cpp lines 380 and 750): as long as the kernels
\* that compute results all compute as many, of what they loaded themselves, and
\* a read asks for that many.
THEOREM ReadsAreOfOneKernel == Spec => []ReadsOneKernel
  <1> DEFINE Inv == \A count \in Nat \ {0} :
                        KernelsCompute(count) /\ ReadsAskFor(count) => SharedInv(count)
  <1>1. Init => IInv /\ Inv
    BY InitInv, InitShared
  <1>2. IInv /\ Inv /\ [Next]_systemVars => (IInv /\ Inv)'
    <2> SUFFICES ASSUME IInv, Inv, [Next]_systemVars, NEW count \in Nat \ {0},
                        KernelsCompute(count)', ReadsAskFor(count)'
                 PROVE  SharedInv(count)'
      BY NextInv
    <2>1. KernelsCompute(count) /\ ReadsAskFor(count)
      BY ProgramKept DEF KernelsCompute, ReadsAskFor
    <2> QED BY <2>1, NextShared
  <1>3. IInv /\ Inv => ReadsOneKernel
    <2> SUFFICES ASSUME IInv, Inv, NEW c \in Client, NEW n \in 1..Len(answers[c]),
                        program[c][n].type = "reduce", program[c][n].count \in Nat \ {0},
                        KernelsCompute(program[c][n].count),
                        ReadsAskFor(program[c][n].count)
                 PROVE  answers[c][n].data \in KernelResults
      BY DEF ReadsOneKernel
    <2> QED BY DEF SharedInv, ReadsGiveKernels
  <1> HIDE DEF Inv
  <1> QED BY <1>1, <1>2, <1>3, PTL DEF Spec

=============================================================================
