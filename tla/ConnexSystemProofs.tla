------------------------- MODULE ConnexSystemProofs -------------------------
(***************************************************************************)
(* Theorems about the program and the simulator together: the protocol of  *)
(* transfers keeps its types, and it implements atomic transfers, for any  *)
(* number of threads, any programs and FIFOs of any size.                  *)
(***************************************************************************)
EXTENDS ConnexSystem, TLAPS

-----------------------------------------------------------------------------
(***************************************************************************)
(* The invariant.  The client that holds threadMutex is the only one in a  *)
(* transfer, and the two FIFOs and the I/O thread are at one stage of it.  *)
(***************************************************************************)
\* The descriptor, and the rows of a write.
ItemCount(r) == IF r.type = "write" THEN CountOf(r) + 1 ELSE 1

NotReceived(r, taken, got, acks, i) ==
    taken = 0 /\ i = Waiting /\ acks = << >> /\ got = << >>

Collecting(r, taken, got, acks, i) ==
    /\ r.type = "write" /\ taken \in 1..CountOf(r)
    /\ i.at = "write" /\ i.row = r.row /\ i.count = CountOf(r)
    /\ Len(i.rows) = taken - 1
    /\ \A k \in 1..Len(i.rows) : i.rows[k] = r.data[k]
    /\ acks = << >> /\ got = << >>

Storing(r, taken, got, acks, i) ==
    /\ r.type = "write" /\ taken = ItemCount(r)
    /\ i.at = "store" /\ i.rows # << >> /\ i.row + Len(i.rows) = r.row + CountOf(r)
    /\ acks = << >> /\ got = << >>

Acknowledging(r, taken, got, acks, i) ==
    /\ r.type = "write" /\ taken = ItemCount(r)
    /\ i.at = "ack"
    /\ acks = << >> /\ got = << >>

Acknowledged(r, taken, got, acks, i) ==
    /\ r.type = "write" /\ taken = ItemCount(r)
    /\ i = Waiting
    /\ Len(acks) + Len(got) = 1

Sending(r, taken, got, rows, i) ==
    /\ r.type = "read" /\ taken = ItemCount(r)
    /\ i.at = "read" /\ i.count \in 1..CountOf(r) /\ i.row + i.count = r.row + CountOf(r)
    /\ Len(rows) + Len(got) = CountOf(r) - i.count

Sent(r, taken, got, rows, i) ==
    /\ r.type = "read" /\ taken = ItemCount(r)
    /\ i = Waiting
    /\ Len(rows) + Len(got) = CountOf(r)

Stages(r, taken, got, reads, i) ==
    \/ NotReceived(r, taken, got, reads, i)
    \/ Collecting(r, taken, got, reads, i)
    \/ Storing(r, taken, got, reads, i)
    \/ Acknowledging(r, taken, got, reads, i)
    \/ Acknowledged(r, taken, got, reads, i)
    \/ Sending(r, taken, got, reads, i)
    \/ Sent(r, taken, got, reads, i)

\* Where a transfer r is, with so much sent and got, by the FIFOs and the I/O
\* thread.  What is in ioWrite has not been taken from it.
Moving(r, sent, got, writes, reads, i) ==
    /\ r.row + CountOf(r) <= Rows
    /\ sent \in 0..ItemCount(r)
    /\ Len(writes) <= sent
    /\ \A k \in 1..Len(writes) : writes[k] = ItemsOf(r)[sent - Len(writes) + k]
    /\ Stages(r, sent - Len(writes), got, reads, i)

Locked ==
    \A c \in Client : threadMutex = c <=> call[c].at \in Transfers

Calling ==
    \A c \in Client :
        /\ call[c].at = "idle" => call[c] = Idle
        /\ call[c].at # "idle" => ~Finished(c) /\ Current(c).type = call[c].at
        /\ call[c].at = "execute" => Current(c).kernel \in DOMAIN Kernels

Transferring ==
    /\ threadMutex = NoClient => ioWrite = << >> /\ ioRead = << >> /\ io = Waiting
    /\ \A c \in Client :
          threadMutex = c =>
              Moving(Current(c), call[c].sent, call[c].got, ioWrite, ioRead, io)

\* The words on their way are those of kernels.
Distributing ==
    \A n \in 1..Len(distribution) :
        \E name \in DOMAIN Kernels : distribution[n] \in ToSet(Kernels[name])

IInv == TypeOK /\ Locked /\ Calling /\ Transferring /\ Distributing

-----------------------------------------------------------------------------
(* Requests, their items, and what calls and answers are.                  *)

\* Where a thread is in its program.
LEMMA CurrentFacts ==
    ASSUME HostOK, NEW c \in Client, ~Finished(c)
    PROVE  /\ Current(c) \in Requests
           /\ Len(answers[c]) \in Nat
           /\ Len(program[c]) \in Nat
           /\ Len(answers[c]) + 1 <= Len(program[c])
  <1>1. program[c] \in Seq(Requests) /\ answers[c] \in Seq(Answered)
    BY ClientAssumption DEF HostOK
  <1>2. Len(answers[c]) \in Nat /\ Len(program[c]) \in Nat
    BY <1>1
  <1>3. Len(answers[c]) < Len(program[c])
    BY <1>2 DEF HostOK, Finished
  <1> QED BY <1>1, <1>2, <1>3 DEF Current

\* What a transfer asks for.
LEMMA TransferFacts ==
    ASSUME NEW r \in Requests, r.type \in Transfers
    PROVE  /\ r.row \in Nat
           /\ CountOf(r) \in Nat \ {0}
           /\ r.type = "write" => r.data \in Seq(Value) /\ CountOf(r) = Len(r.data)
           /\ r.type = "read" => CountOf(r) = r.count
           /\ ItemCount(r) \in Nat \ {0}
  <1>1. CASE r.type = "write"
    <2>1. r.row \in Nat /\ r.data \in Seq(Value) /\ r.data # << >>
      BY <1>1, RequestAssumption
    <2> QED BY <1>1, <2>1 DEF CountOf, ItemCount
  <1>2. CASE r.type = "read"
    BY <1>2, RequestAssumption DEF CountOf, ItemCount
  <1> QED BY <1>1, <1>2 DEF Transfers

\* The descriptor of a transfer, whose row and count are not cut, and its rows.
LEMMA ItemFacts ==
    ASSUME NEW r \in Requests, r.type \in Transfers, r.row + CountOf(r) <= Rows
    PROVE  /\ ItemsOf(r) \in Seq(Item)
           /\ Len(ItemsOf(r)) = ItemCount(r)
           /\ ItemsOf(r)[1] = [type |-> r.type, row |-> r.row, count |-> CountOf(r) - 1,
                               val |-> Zero]
           /\ r.type = "write" =>
                  \A k \in 1..CountOf(r) : ItemsOf(r)[k + 1] = RowItem(r.data[k])
  <1> DEFINE d == Descriptor(r.type, LsAddress(r.row), VectorCount(CountOf(r)))
             n == CountOf(r)
  <1>1. /\ r.row \in Nat /\ n \in Nat \ {0}
        /\ r.type = "write" => r.data \in Seq(Value) /\ n = Len(r.data)
    BY TransferFacts
  <1>2. LsAddress(r.row) = r.row /\ VectorCount(n) = n - 1
    <2>1. r.row \in 0..(Rows - 1) /\ n - 1 \in 0..(Rows - 1)
      BY <1>1, PipesAssumption
    <2>2. \A a, m \in Nat : a < m => a % m = a
      OBVIOUS
    <2>3. r.row % Rows = r.row
      <3>1. r.row \in Nat /\ Rows \in Nat /\ r.row < Rows
        BY <2>1, PipesAssumption
      <3> QED BY ONLY <3>1, <2>2
    <2>4. (n - 1) % Rows = n - 1
      <3>1. n - 1 \in Nat /\ Rows \in Nat /\ n - 1 < Rows
        BY <2>1, PipesAssumption
      <3> QED BY ONLY <3>1, <2>2
    <2> QED BY <2>3, <2>4 DEF LsAddress, VectorCount
  <1>3. /\ d = [type |-> r.type, row |-> r.row, count |-> n - 1, val |-> Zero]
        /\ d \in Item
    <2>1. r.row \in 0..(Rows - 1) /\ n - 1 \in 0..(Rows - 1)
      BY <1>1, PipesAssumption
    <2> QED BY <2>1, <1>2, PipesAssumption DEF Descriptor, Item, Transfers
  <1> HIDE DEF d
  <1>4. CASE r.type = "write"
    <2> DEFINE rows == [i \in 1..Len(r.data) |-> RowItem(r.data[i])]
    <2>1. \A i \in 1..Len(r.data) : RowItem(r.data[i]) \in Item
      <3> TAKE i \in 1..Len(r.data)
      <3>1. r.data[i] \in Value
        BY <1>1, <1>4
      <3> QED BY <3>1, PipesAssumption DEF RowItem, Item
    <2>2. rows \in Seq(Item) /\ Len(rows) = n /\ \A i \in 1..n : rows[i] = RowItem(r.data[i])
      BY <2>1, <1>1, <1>4
    <2>3. ItemsOf(r) = <<d>> \o rows
      BY <1>4 DEF ItemsOf, d
    <2> HIDE DEF rows
    <2>4. <<d>> \in Seq(Item) /\ Len(<<d>>) = 1 /\ <<d>>[1] = d
      BY <1>3
    <2>5. /\ <<d>> \o rows \in Seq(Item)
          /\ Len(<<d>> \o rows) = n + 1
          /\ (<<d>> \o rows)[1] = d
          /\ \A k \in 1..n : (<<d>> \o rows)[k + 1] = rows[k]
      BY <2>2, <2>4, <1>1
    <2> QED BY <2>2, <2>3, <2>5, <1>3, <1>4 DEF ItemCount
  <1>5. CASE r.type = "read"
    <2>1. ItemsOf(r) = <<d>> \o << >>
      BY <1>5 DEF ItemsOf, d
    <2>2. ItemsOf(r) = <<d>>
      BY <2>1, <1>3
    <2> QED BY <2>2, <1>3, <1>5 DEF ItemCount
  <1> QED BY <1>4, <1>5 DEF Transfers

\* A call that begins.
LEMMA EnterFacts ==
    ASSUME HostOK, NEW c \in Client, ~Finished(c), call[c] = Idle, Enter(c)
    PROVE  /\ call' \in [Client -> CallState]
           /\ call'[c] = [at |-> Current(c).type, sent |-> 0, got |-> << >>]
           /\ \A d \in Client \ {c} : call'[d] = call[d]
  <1>1. Current(c).type \in {"execute", "reduce", "write", "read"}
    BY CurrentFacts, RequestAssumption
  <1>2. call \in [Client -> CallState]
    BY DEF HostOK
  <1>3. call' = [call EXCEPT ![c] = [Idle EXCEPT !.at = Current(c).type]]
    BY <1>2 DEF Enter
  <1>4. [Idle EXCEPT !.at = Current(c).type]
            = [at |-> Current(c).type, sent |-> 0, got |-> << >>]
    BY DEF Idle
  <1>5. [at |-> Current(c).type, sent |-> 0, got |-> << >>] \in CallState
    BY <1>1 DEF CallState, Transfers
  <1> QED BY <1>2, <1>3, <1>4, <1>5

\* A call that returns, or throws.
LEMMA AnswerFacts ==
    ASSUME HostOK, NEW c \in Client, ~Finished(c), NEW a \in Answered, Answer(c, a)
    PROVE  /\ call' \in [Client -> CallState]
           /\ answers' \in [Client -> Seq(Answered)]
           /\ call'[c] = Idle
           /\ answers'[c] = Append(answers[c], a)
           /\ Len(answers'[c]) = Len(answers[c]) + 1
           /\ Len(answers'[c]) <= Len(program[c])
           /\ \A d \in Client \ {c} : call'[d] = call[d] /\ answers'[d] = answers[d]
  <1>1. call \in [Client -> CallState] /\ answers \in [Client -> Seq(Answered)]
    BY DEF HostOK
  <1>2. Idle \in CallState
    BY DEF Idle, CallState
  <1>3. /\ call' \in [Client -> CallState]
        /\ call'[c] = Idle
        /\ \A d \in Client \ {c} : call'[d] = call[d]
    BY <1>1, <1>2 DEF Answer
  <1>4. answers[c] \in Seq(Answered)
    BY <1>1
  <1>5. /\ Append(answers[c], a) \in Seq(Answered)
        /\ Len(Append(answers[c], a)) = Len(answers[c]) + 1
    BY <1>4
  <1>6. /\ answers'[c] = Append(answers[c], a)
        /\ \A d \in Client \ {c} : answers'[d] = answers[d]
        /\ answers' \in [Client -> Seq(Answered)]
    BY <1>1, <1>5 DEF Answer
  <1>7. Len(answers[c]) + 1 <= Len(program[c])
    BY CurrentFacts
  <1> QED BY <1>3, <1>5, <1>6, <1>7

-----------------------------------------------------------------------------
(* Steps that have nothing to do with transfers.                           *)

\* What a step of a client that is in no transfer leaves as it is.
LEMMA ClientElsewhere ==
    ASSUME IInv, NEW c \in Client,
           call[c].at \notin Transfers, call'[c].at \notin Transfers,
           call'[c].at = "idle" => call'[c] = Idle,
           call'[c].at # "idle" => (~Finished(c) /\ Current(c).type = call[c].at)',
           (call[c].at = "execute" => Current(c).kernel \in DOMAIN Kernels)',
           \A d \in Client \ {c} : call'[d] = call[d] /\ answers'[d] = answers[d],
           UNCHANGED <<program, threadMutex, ioWrite, ioRead, io>>
    PROVE  Locked' /\ Calling' /\ Transferring'
  <1>1. Locked'
    BY DEF IInv, Locked
  <1>2. Calling'
    <2> SUFFICES ASSUME NEW d \in Client
                 PROVE  /\ call'[d].at = "idle" => call'[d] = Idle
                        /\ call'[d].at # "idle" =>
                               (~Finished(d) /\ Current(d).type = call[d].at)'
                        /\ (call[d].at = "execute" =>
                                Current(d).kernel \in DOMAIN Kernels)'
      BY DEF Calling
    <2>1. CASE d = c
      BY <2>1
    <2>2. CASE d # c
      BY <2>2 DEF IInv, Calling, Finished, Current
    <2> QED BY <2>1, <2>2
  <1>3. Transferring'
    <2>1. threadMutex # c
      BY DEF IInv, Locked
    <2> QED BY <2>1 DEF IInv, Transferring, Current
  <1> QED BY <1>1, <1>2, <1>3

\* What a step of the core thread leaves as it is.
LEMMA CoreElsewhere ==
    ASSUME IInv, UNCHANGED hostVars, UNCHANGED <<ioWrite, ioRead, io>>
    PROVE  HostOK' /\ Locked' /\ Calling' /\ Transferring'
  <1>1. HostOK'
    BY DEF hostVars, IInv, TypeOK, HostOK
  <1>2. Locked' /\ Calling'
    BY DEF hostVars, IInv, Locked, Calling, Finished, Current
  <1>3. Transferring'
    BY DEF hostVars, IInv, Transferring, Current
  <1> QED BY <1>1, <1>2, <1>3

\* executeKernel takes the lock of the distribution pipe and no other: a transfer
\* that runs at the same time keeps its stage.
LEMMA ExecuteInv ==
    ASSUME IInv, NEW c \in Client, Execute(c), UNCHANGED threadVars
    PROVE  IInv'
  <1>1. HostOK /\ PipesOK /\ ThreadsOK /\ Distributing
    BY DEF IInv, TypeOK
  <1>2. /\ ~Finished(c) /\ call[c].at = "idle" /\ Current(c).type = "execute"
        /\ call[c] = Idle
    BY DEF Execute, Calls, IInv, Calling
  <1>3. /\ PipesOK' /\ ThreadsOK' /\ Distributing'
        /\ UNCHANGED <<program, threadMutex, host, ioWrite, ioRead, io>>
    BY <1>1 DEF Execute, PipesOK, ThreadsOK, Distributing, pipeVars, threadVars
  <1>4. CASE Current(c).kernel \in DOMAIN Kernels
    <2>1. threadMutexIR' = c /\ Enter(c) /\ answers' = answers
      BY <1>4 DEF Execute
    <2>2. /\ call' \in [Client -> CallState]
          /\ call'[c].at = "execute"
          /\ \A d \in Client \ {c} : call'[d] = call[d]
      <3>1. call'[c] = [at |-> Current(c).type, sent |-> 0, got |-> << >>]
        BY <2>1, <1>1, <1>2, EnterFacts
      <3>2. call'[c].at = "execute"
        BY <3>1, <1>2
      <3> QED BY <3>2, <2>1, <1>1, <1>2, EnterFacts
    <2>3. HostOK'
      BY <2>1, <2>2, <1>1, <1>3 DEF HostOK
    <2>4. Locked' /\ Calling' /\ Transferring'
      <3>1. (~Finished(c) /\ Current(c).type = call[c].at)'
        BY <2>1, <2>2, <1>2, <1>3 DEF Finished, Current
      <3>2. Current(c)' = Current(c)
        BY <2>1, <1>3 DEF Current
      <3> QED BY <3>1, <3>2, <1>4, <2>1, <2>2, <1>2, <1>3, ClientElsewhere DEF Transfers
    <2> QED BY <2>3, <2>4, <1>3 DEF IInv, TypeOK
  <1>5. CASE Current(c).kernel \notin DOMAIN Kernels
    <2>1. threadMutexIR' = threadMutexIR /\ Answer(c, Threw)
      BY <1>5 DEF Execute
    <2>2. Threw \in Answered
      BY DEF Threw, Answered
    <2>3. /\ call' \in [Client -> CallState] /\ answers' \in [Client -> Seq(Answered)]
          /\ call'[c] = Idle /\ Len(answers'[c]) <= Len(program[c])
          /\ \A d \in Client \ {c} : call'[d] = call[d] /\ answers'[d] = answers[d]
      BY <2>1, <2>2, <1>1, <1>2, AnswerFacts
    <2>4. HostOK'
      BY <2>1, <2>3, <1>1, <1>3 DEF HostOK
    <2>5. Locked' /\ Calling' /\ Transferring'
      <3>1. call[c].at \notin Transfers /\ call'[c].at = "idle" /\ call'[c].at \notin Transfers
        BY <2>3, <1>2 DEF Transfers, Idle
      <3> QED BY <3>1, <2>3, <1>3, ClientElsewhere
    <2> QED BY <2>4, <2>5, <1>3 DEF IInv, TypeOK
  <1> QED BY <1>4, <1>5

\* A process that ends, by a signal or an assertion, holds what it held.
LEMMA HostEnds ==
    ASSUME IInv, host' \in {"killed", "aborted"}, UNCHANGED threadVars,
           UNCHANGED <<program, answers, call, threadMutex, threadMutexIR, pipeVars>>
    PROVE  IInv'
  <1>1. HostOK' /\ PipesOK' /\ ThreadsOK'
    BY DEF IInv, TypeOK, HostOK, PipesOK, ThreadsOK, pipeVars, threadVars
  <1>2. Locked' /\ Calling'
    BY DEF IInv, Locked, Calling, Finished, Current
  <1>3. Transferring' /\ Distributing'
    BY DEF IInv, Transferring, Distributing, Current, pipeVars, threadVars
  <1> QED BY <1>1, <1>2, <1>3 DEF IInv, TypeOK

\* The next word of a kernel goes to the end of the distribution pipe, and the
\* kernel whose words are in it is still that of the lock's holder.
LEMMA SendWordInv ==
    ASSUME IInv, NEW c \in Client, SendWord(c), UNCHANGED threadVars
    PROVE  IInv'
  <1> DEFINE words == Kernels[Current(c).kernel]
             word == words[call[c].sent + 1]
  <1>1. /\ HostOK /\ PipesOK /\ ThreadsOK /\ Distributing
        /\ call[c].at = "execute" /\ ~Finished(c) /\ Current(c).type = "execute"
        /\ Current(c).kernel \in DOMAIN Kernels
    BY DEF SendWord, Within, IInv, TypeOK, Calling
  <1>2. CASE BrokenPipe
    BY <1>2, HostEnds DEF BrokenPipe
  <1>3. CASE ~BrokenPipe
    <2>1. /\ call[c].sent < Len(words)
          /\ Len(distribution) < DistributionCapacity
          /\ distribution' = Append(distribution, word)
          /\ call' = [call EXCEPT ![c].sent = @ + 1]
          /\ UNCHANGED <<program, answers, threadMutex, threadMutexIR, host>>
          /\ UNCHANGED <<reduction, ioWrite, ioRead, simulator>>
      BY <1>3 DEF SendWord
    <2>2. call[c] \in CallState /\ call \in [Client -> CallState]
      BY <1>1 DEF HostOK
    <2>3. word \in Word /\ word \in ToSet(words)
      <3>1. words \in Seq(Word) /\ call[c].sent \in Nat
        BY <1>1, <2>2, KernelsAssumption DEF CallState
      <3>2. call[c].sent + 1 \in 1..Len(words)
        BY <3>1, <2>1
      <3> QED BY <3>1, <3>2 DEF ToSet
    <2> HIDE DEF word
    <2>4. /\ call' \in [Client -> CallState]
          /\ call'[c].at = "execute"
          /\ \A d \in Client \ {c} : call'[d] = call[d]
      BY <1>1, <2>1, <2>2 DEF CallState
    <2>5. HostOK'
      BY <1>1, <2>1, <2>4 DEF HostOK
    <2>6. PipesOK' /\ Distributing'
      <3>1. distribution \in Seq(Word) /\ Len(distribution) \in Nat
        BY <1>1 DEF PipesOK
      <3>2. /\ distribution' \in Seq(Word) /\ Len(distribution') = Len(distribution) + 1
            /\ \A n \in 1..Len(distribution) : distribution'[n] = distribution[n]
            /\ distribution'[Len(distribution) + 1] = word
        BY <3>1, <2>1, <2>3
      <3>3. PipesOK'
        BY <3>1, <3>2, <1>1, <2>1, PipesAssumption DEF PipesOK
      <3>4. Distributing'
        BY <3>1, <3>2, <1>1, <2>3 DEF Distributing
      <3> QED BY <3>3, <3>4
    <2>7. ThreadsOK' /\ UNCHANGED io
      BY <1>1 DEF ThreadsOK, threadVars
    <2>8. Locked' /\ Calling' /\ Transferring'
      <3>1. Current(c)' = Current(c) /\ (Finished(c) <=> Finished(c)')
        BY <2>1 DEF Current, Finished
      <3> QED BY <3>1, <1>1, <2>1, <2>4, <2>7, ClientElsewhere DEF Transfers
    <2> QED BY <2>5, <2>6, <2>7, <2>8 DEF IInv, TypeOK
  <1> QED BY <1>2, <1>3

\* A call that returns and gives threadMutexIR back.
LEMMA ReturnInv ==
    ASSUME IInv, NEW c \in Client, call[c].at \in {"execute", "reduce"},
           NEW data \in Seq(Value), Answer(c, Returned(data)), threadMutexIR' = NoClient,
           UNCHANGED <<program, threadMutex, host, pipeVars>>, UNCHANGED threadVars
    PROVE  IInv'
  <1>1. HostOK /\ ~Finished(c)
    BY DEF IInv, TypeOK, Calling
  <1>2. Returned(data) \in Answered
    BY DEF Returned, Answered
  <1>3. /\ call' \in [Client -> CallState] /\ answers' \in [Client -> Seq(Answered)]
        /\ call'[c] = Idle /\ Len(answers'[c]) <= Len(program[c])
        /\ \A d \in Client \ {c} : call'[d] = call[d] /\ answers'[d] = answers[d]
    BY <1>1, <1>2, AnswerFacts
  <1>4. HostOK'
    BY <1>1, <1>3 DEF HostOK
  <1>5. PipesOK' /\ ThreadsOK' /\ Distributing' /\ UNCHANGED <<ioWrite, ioRead, io>>
    BY DEF IInv, TypeOK, PipesOK, ThreadsOK, Distributing, pipeVars, threadVars
  <1>6. Locked' /\ Calling' /\ Transferring'
    <2>1. call[c].at \notin Transfers /\ call'[c].at = "idle" /\ call'[c].at \notin Transfers
      BY <1>3 DEF Transfers, Idle
    <2> QED BY <2>1, <1>3, <1>5, ClientElsewhere
  <1> QED BY <1>4, <1>5, <1>6 DEF IInv, TypeOK

\* readReduction starts without a lock.
LEMMA ReduceInv ==
    ASSUME IInv, NEW c \in Client, Reduce(c), UNCHANGED threadVars
    PROVE  IInv'
  <1>1. /\ HostOK /\ ~Finished(c) /\ call[c].at = "idle" /\ Current(c).type = "reduce"
        /\ call[c] = Idle
    BY DEF Reduce, Calls, IInv, TypeOK, Calling
  <1>2. /\ PipesOK' /\ ThreadsOK' /\ Distributing'
        /\ UNCHANGED <<program, answers, threadMutex, host, ioWrite, ioRead, io>>
        /\ threadMutexIR' = c /\ Enter(c)
    BY DEF Reduce, IInv, TypeOK, PipesOK, ThreadsOK, Distributing, pipeVars, threadVars
  <1>3. /\ call' \in [Client -> CallState]
        /\ call'[c] = [at |-> Current(c).type, sent |-> 0, got |-> << >>]
        /\ \A d \in Client \ {c} : call'[d] = call[d]
    BY <1>1, <1>2, EnterFacts
  <1>4. call'[c].at = "reduce"
    BY <1>1, <1>3
  <1>5. HostOK'
    BY <1>1, <1>2, <1>3 DEF HostOK
  <1>6. Locked' /\ Calling' /\ Transferring'
    <2>1. Current(c)' = Current(c) /\ (Finished(c) <=> Finished(c)')
      BY <1>2 DEF Current, Finished
    <2> QED BY <2>1, <1>1, <1>2, <1>3, <1>4, ClientElsewhere DEF Transfers
  <1> QED BY <1>2, <1>5, <1>6 DEF IInv, TypeOK

\* A result leaves the reduction pipe and is the answer of the client that reads it.
LEMMA ReceiveResultInv ==
    ASSUME IInv, NEW c \in Client, ReceiveResult(c), UNCHANGED threadVars
    PROVE  IInv'
  <1>1. /\ HostOK /\ PipesOK /\ ~Finished(c)
        /\ call[c].at = "reduce" /\ Current(c).type = "reduce"
    BY DEF ReceiveResult, Within, IInv, TypeOK, Calling
  <1>2. /\ reduction # << >> /\ reduction' = Tail(reduction)
        /\ call' = [call EXCEPT ![c].got = Append(@, Head(reduction))]
        /\ UNCHANGED <<program, answers, threadMutex, threadMutexIR, host>>
        /\ UNCHANGED <<distribution, ioWrite, ioRead, simulator, io>>
    BY DEF ReceiveResult, threadVars
  <1>3. /\ reduction' \in Seq(Value) /\ Len(reduction') <= ReductionCapacity
        /\ Head(reduction) \in Value
    <2>1. reduction \in Seq(Value) /\ Len(reduction) <= ReductionCapacity
      BY <1>1 DEF PipesOK
    <2> QED BY <2>1, <1>2, PipesAssumption
  <1>4. /\ call' \in [Client -> CallState]
        /\ call'[c].at = "reduce"
        /\ \A d \in Client \ {c} : call'[d] = call[d]
    <2>1. call \in [Client -> CallState] /\ call[c] \in CallState
      BY <1>1 DEF HostOK
    <2>2. Append(call[c].got, Head(reduction)) \in Seq(Value)
      BY <2>1, <1>3 DEF CallState
    <2> QED BY <2>1, <2>2, <1>1, <1>2 DEF CallState
  <1>5. HostOK' /\ PipesOK' /\ ThreadsOK' /\ Distributing'
    BY <1>1, <1>2, <1>3, <1>4
       DEF IInv, TypeOK, HostOK, PipesOK, ThreadsOK, Distributing, threadVars
  <1>6. Locked' /\ Calling' /\ Transferring'
    <2>1. Current(c)' = Current(c) /\ (Finished(c) <=> Finished(c)')
      BY <1>2 DEF Current, Finished
    <2> QED BY <2>1, <1>1, <1>2, <1>4, ClientElsewhere DEF Transfers
  <1> QED BY <1>5, <1>6 DEF IInv, TypeOK

\* What the core thread takes from its FIFO is a word of a kernel.
LEMMA FetchFacts ==
    ASSUME PipesOK, Distributing, NEW op, Fetch(op)
    PROVE  /\ Head(distribution) \in Word
           /\ Head(distribution).op = op
           /\ \E name \in DOMAIN Kernels : Head(distribution) \in ToSet(Kernels[name])
           /\ distribution' \in Seq(Word)
           /\ Len(distribution') <= DistributionCapacity
           /\ Distributing'
  <1>1. distribution \in Seq(Word) /\ distribution # << >> /\ distribution' = Tail(distribution)
        /\ Head(distribution).op = op /\ Len(distribution) <= DistributionCapacity
    BY DEF Fetch, PipesOK
  <1>2. /\ Len(distribution) \in Nat /\ 1 \in 1..Len(distribution)
        /\ Head(distribution) = distribution[1]
        /\ Len(distribution') = Len(distribution) - 1
        /\ distribution' \in Seq(Word)
        /\ \A n \in 1..Len(distribution') :
               n + 1 \in 1..Len(distribution) /\ distribution'[n] = distribution[n + 1]
    BY <1>1
  <1>3. Distributing'
    BY <1>2 DEF Distributing
  <1> QED BY <1>1, <1>2, <1>3, PipesAssumption DEF Distributing

\* The core thread takes a word, or reports a result: nothing of a transfer changes.
LEMMA CoreInv ==
    ASSUME IInv, CoreStep, UNCHANGED hostVars
    PROVE  IInv'
  <1>1. /\ HostOK /\ PipesOK /\ ThreadsOK /\ Distributing
        /\ localStore \in [0..(Rows - 1) -> Value] /\ register \in Value
        /\ reduction \in Seq(Value) /\ reporting \in Seq(Value)
        /\ Len(reduction) <= ReductionCapacity /\ Len(reporting) <= 1
    BY DEF IInv, TypeOK, PipesOK, ThreadsOK
  <1>2. UNCHANGED <<ioWrite, ioRead, io>>
    BY DEF CoreStep, Vload, Iread, Iwrite, Red, Report, Throw, threadVars
  <1>3. HostOK' /\ Locked' /\ Calling' /\ Transferring'
    BY <1>2, CoreElsewhere
  <1>4. CASE Vload
    <2>1. /\ Fetch("VLOAD") /\ register' = Head(distribution).arg
          /\ UNCHANGED <<localStore, reporting, reduction, simulator>>
      BY <1>4 DEF Vload
    <2>2. /\ Head(distribution) \in Word /\ Head(distribution).op = "VLOAD"
          /\ distribution' \in Seq(Word) /\ Len(distribution') <= DistributionCapacity
          /\ Distributing'
      BY <1>1, <2>1, FetchFacts
    <2>3. Head(distribution).arg \in Value
      BY <2>2 DEF Word
    <2> QED BY <1>1, <1>2, <1>3, <2>1, <2>2, <2>3 DEF IInv, TypeOK, PipesOK, ThreadsOK
  <1>5. CASE Iread
    <2>1. /\ Fetch("IREAD") /\ register' = localStore[Head(distribution).arg]
          /\ UNCHANGED <<localStore, reporting, reduction, simulator>>
      BY <1>5 DEF Iread
    <2>2. /\ Head(distribution) \in Word /\ Head(distribution).op = "IREAD"
          /\ distribution' \in Seq(Word) /\ Len(distribution') <= DistributionCapacity
          /\ Distributing'
      BY <1>1, <2>1, FetchFacts
    <2>3. Head(distribution).arg \in 0..(Rows - 1)
      BY <2>2 DEF Word
    <2>4. register' \in Value
      BY <2>1, <2>3, <1>1
    <2> QED BY <1>1, <1>2, <1>3, <2>1, <2>2, <2>4 DEF IInv, TypeOK, PipesOK, ThreadsOK
  <1>6. CASE Iwrite
    <2>1. /\ Fetch("IWRITE")
          /\ localStore' = [localStore EXCEPT ![Head(distribution).arg] = register]
          /\ UNCHANGED <<register, reporting, reduction, simulator>>
      BY <1>6 DEF Iwrite
    <2>2. /\ distribution' \in Seq(Word) /\ Len(distribution') <= DistributionCapacity
          /\ Distributing'
      BY <1>1, <2>1, FetchFacts
    <2>3. localStore' \in [0..(Rows - 1) -> Value]
      BY <2>1, <1>1
    <2> QED BY <1>1, <1>2, <1>3, <2>1, <2>2, <2>3 DEF IInv, TypeOK, PipesOK, ThreadsOK
  <1>7. CASE Red
    <2>1. /\ Fetch("RED") /\ reporting' = <<register>>
          /\ UNCHANGED <<localStore, register, reduction, simulator>>
      BY <1>7 DEF Red
    <2>2. /\ distribution' \in Seq(Word) /\ Len(distribution') <= DistributionCapacity
          /\ Distributing'
      BY <1>1, <2>1, FetchFacts
    <2>3. reporting' \in Seq(Value) /\ Len(reporting') = 1
      BY <2>1, <1>1
    <2> QED BY <1>1, <1>2, <1>3, <2>1, <2>2, <2>3 DEF IInv, TypeOK, PipesOK, ThreadsOK
  <1>8. CASE Report
    <2>1. /\ Len(reduction) < ReductionCapacity
          /\ reduction' = reduction \o reporting /\ reporting' = << >>
          /\ UNCHANGED <<localStore, register, distribution, simulator>>
      BY <1>8 DEF Report
    <2>2. reduction' \in Seq(Value) /\ Len(reduction') = Len(reduction) + Len(reporting)
      BY <2>1, <1>1
    <2>3. Len(reduction') <= ReductionCapacity
      <3>1. Len(reduction) \in Nat /\ Len(reporting) \in Nat
        BY <1>1
      <3> QED BY <3>1, <2>1, <2>2, <1>1, PipesAssumption
    <2>4. PipesOK'
      BY <1>1, <1>2, <2>1, <2>2, <2>3 DEF PipesOK
    <2>5. ThreadsOK'
      BY <1>1, <1>2, <2>1 DEF ThreadsOK
    <2>6. Distributing'
      BY <1>1, <2>1 DEF Distributing
    <2> QED BY <1>3, <2>4, <2>5, <2>6 DEF IInv, TypeOK
  <1>9. CASE Throw
    <2>1. /\ Fetch("THROW") /\ simulator' = "exited"
          /\ UNCHANGED <<localStore, register, reporting, reduction>>
      BY <1>9 DEF Throw, threadVars
    <2>2. /\ distribution' \in Seq(Word) /\ Len(distribution') <= DistributionCapacity
          /\ Distributing'
      BY <1>1, <2>1, FetchFacts
    <2> QED BY <1>1, <1>2, <1>3, <2>1, <2>2 DEF IInv, TypeOK, PipesOK, ThreadsOK
  <1> QED BY <1>4, <1>5, <1>6, <1>7, <1>8, <1>9 DEF CoreStep

-----------------------------------------------------------------------------
(* The steps of a transfer.                                                *)

\* What is known of a client in a transfer.
LEMMA HolderFacts ==
    ASSUME IInv, NEW c \in Client, call[c].at \in Transfers
    PROVE  /\ HostOK /\ PipesOK /\ ThreadsOK
           /\ threadMutex = c
           /\ ~Finished(c)
           /\ Current(c) \in Requests
           /\ Current(c).type = call[c].at
           /\ Moving(Current(c), call[c].sent, call[c].got, ioWrite, ioRead, io)
           /\ Current(c).row + CountOf(Current(c)) <= Rows
           /\ Len(ItemsOf(Current(c))) = ItemCount(Current(c))
           /\ call[c] \in CallState
           /\ call[c].sent \in Nat
           /\ call[c].got \in Seq(Value)
           /\ \A d \in Client \ {c} : call[d].at \notin Transfers
  <1>1. HostOK /\ PipesOK /\ ThreadsOK
    BY DEF IInv, TypeOK
  <1>2. threadMutex = c /\ \A d \in Client \ {c} : call[d].at \notin Transfers
    BY DEF IInv, Locked
  <1>3. ~Finished(c) /\ Current(c).type = call[c].at
    BY DEF IInv, Calling, Transfers
  <1>4. Current(c) \in Requests
    BY <1>1, <1>3, CurrentFacts
  <1>5. Moving(Current(c), call[c].sent, call[c].got, ioWrite, ioRead, io)
    BY <1>2 DEF IInv, Transferring
  <1>6. Current(c).row + CountOf(Current(c)) <= Rows
    BY <1>5 DEF Moving
  <1>7. Len(ItemsOf(Current(c))) = ItemCount(Current(c))
    BY <1>3, <1>4, <1>6, ItemFacts
  <1>8. call[c] \in CallState /\ call[c].sent \in Nat /\ call[c].got \in Seq(Value)
    BY <1>1 DEF HostOK, CallState
  <1> QED BY <1>1, <1>2, <1>3, <1>4, <1>5, <1>6, <1>7, <1>8

\* Somebody is in a transfer when the I/O thread or its FIFOs are not at rest.
LEMMA SomeHolder ==
    ASSUME IInv, io.at # "idle" \/ ioWrite # << >> \/ ioRead # << >>
    PROVE  \E c \in Client : call[c].at \in Transfers
  <1>1. threadMutex # NoClient
    BY DEF IInv, Transferring, Waiting
  <1>2. threadMutex \in Client
    BY <1>1 DEF IInv, TypeOK, HostOK
  <1> QED BY <1>2 DEF IInv, Locked

\* A step of the transfer of c, by its client or by the I/O thread.
LEMMA HolderMoves ==
    ASSUME IInv, NEW c \in Client, call[c].at \in Transfers,
           UNCHANGED <<program, answers, threadMutex, threadMutexIR, host>>,
           call' \in [Client -> CallState], call'[c].at = call[c].at,
           \A d \in Client \ {c} : call'[d] = call[d],
           Moving(Current(c), call'[c].sent, call'[c].got, ioWrite', ioRead', io')
    PROVE  HostOK' /\ Locked' /\ Calling' /\ Transferring'
  <1>1. HostOK'
    BY DEF IInv, TypeOK, HostOK
  <1>2. \A d \in Client : Current(d)' = Current(d) /\ (Finished(d) <=> Finished(d)')
    BY DEF Current, Finished
  <1>3. Locked'
    BY DEF IInv, Locked
  <1>4. Calling'
    <2> SUFFICES ASSUME NEW d \in Client
                 PROVE  /\ call'[d].at = "idle" => call'[d] = Idle
                        /\ call'[d].at # "idle" =>
                               (~Finished(d) /\ Current(d).type = call[d].at)'
                        /\ (call[d].at = "execute" =>
                                Current(d).kernel \in DOMAIN Kernels)'
      BY DEF Calling
    <2>1. CASE d = c
      <3>1. ~Finished(c) /\ Current(c).type = call[c].at
        BY HolderFacts
      <3> QED BY <2>1, <3>1, <1>2 DEF Transfers
    <2>2. CASE d # c
      BY <2>2, <1>2 DEF IInv, Calling
    <2> QED BY <2>1, <2>2
  <1>5. Transferring'
    <2>1. threadMutex = c /\ c # NoClient
      BY HolderFacts, ClientAssumption
    <2> QED BY <2>1, <1>2 DEF Transferring
  <1> QED BY <1>1, <1>3, <1>4, <1>5

\* A transfer that gets the lock finds both pipes of the I/O thread empty and the
\* thread waiting: it is in the first stage.
LEMMA StartTransferInv ==
    ASSUME IInv, NEW c \in Client, StartTransfer(c), UNCHANGED threadVars
    PROVE  IInv'
  <1>1. /\ HostOK /\ PipesOK /\ ThreadsOK
        /\ ~Finished(c) /\ call[c].at = "idle" /\ call[c] = Idle
        /\ Current(c).type \in Transfers /\ threadMutex = NoClient
    BY DEF StartTransfer, Calls, IInv, TypeOK, Calling
  <1>2. CASE Current(c).row + CountOf(Current(c)) <= Rows
    <2>1. /\ threadMutex' = c /\ Enter(c)
          /\ UNCHANGED <<program, answers, threadMutexIR, host, pipeVars>>
      BY <1>2 DEF StartTransfer
    <2>2. /\ call' \in [Client -> CallState]
          /\ call'[c] = [at |-> Current(c).type, sent |-> 0, got |-> << >>]
          /\ \A d \in Client \ {c} : call'[d] = call[d]
      BY <2>1, <1>1, EnterFacts
    <2>3. call'[c].at = Current(c).type /\ call'[c].sent = 0 /\ call'[c].got = << >>
      BY <2>2
    <2>4. HostOK' /\ PipesOK' /\ ThreadsOK' /\ Distributing'
      BY <1>1, <2>1, <2>2
         DEF HostOK, PipesOK, ThreadsOK, IInv, Distributing, pipeVars, threadVars
    <2>5. \A d \in Client : Current(d)' = Current(d) /\ (Finished(d) <=> Finished(d)')
      BY <2>1 DEF Current, Finished
    <2>6. \A d \in Client \ {c} : call[d].at \notin Transfers
      BY <1>1, ClientAssumption DEF IInv, Locked
    <2>7. Locked'
      BY <1>1, <2>1, <2>2, <2>3, <2>6 DEF Locked
    <2>8. Calling'
      <3>1. \A d \in Client \ {c} :
                /\ call'[d].at = "idle" => call'[d] = Idle
                /\ call'[d].at # "idle" =>
                       (~Finished(d) /\ Current(d).type = call[d].at)'
                /\ (call[d].at = "execute" => Current(d).kernel \in DOMAIN Kernels)'
        BY <2>2, <2>5 DEF IInv, Calling
      <3>2. /\ call'[c].at # "idle" /\ call'[c].at # "execute"
            /\ ~Finished(c)' /\ Current(c)'.type = call'[c].at
        BY <1>1, <2>3, <2>5 DEF Transfers
      <3> QED BY <3>1, <3>2 DEF Calling
    <2>9. Transferring'
      <3>1. ioWrite' = << >> /\ ioRead' = << >> /\ io' = Waiting
        BY <1>1, <2>1 DEF IInv, Transferring, pipeVars, threadVars
      <3>2. ItemCount(Current(c)) \in Nat
        BY <1>1, CurrentFacts, TransferFacts
      <3>3. Moving(Current(c), 0, << >>, << >>, << >>, Waiting)
        <4> SUFFICES ASSUME NEW w, w = << >>
                     PROVE  Moving(Current(c), 0, << >>, w, << >>, Waiting)
          OBVIOUS
        <4>0. Len(w) = 0
          OBVIOUS
        <4>1. Len(w) = 0 /\ 0 - Len(w) = 0 /\ 1..Len(w) = {}
          <5>1. \A n \in Int : n = 0 => 0 - n = 0 /\ 1..n = {}
            OBVIOUS
          <5>2. Len(w) \in Int
            BY <4>0
          <5> QED BY <4>0, <5>1, <5>2
        <4>2. Stages(Current(c), 0, << >>, << >>, Waiting)
          BY DEF Stages, NotReceived
        <4> QED BY <4>1, <4>2, <1>2, <3>2 DEF Moving
      <3> QED BY <2>1, <2>3, <2>5, <3>1, <3>3, ClientAssumption DEF Transferring
    <2> QED BY <2>4, <2>7, <2>8, <2>9 DEF IInv, TypeOK
  <1>3. CASE ~(Current(c).row + CountOf(Current(c)) <= Rows)
    <2>1. /\ host' = "aborted"
          /\ UNCHANGED <<program, answers, call, threadMutex, threadMutexIR, pipeVars>>
      BY <1>3 DEF StartTransfer
    <2> QED BY <2>1, HostEnds
  <1> QED BY <1>2, <1>3

\* The next item of the holder's transfer goes to the end of the pipe to the I/O
\* thread: what is in the pipe is still what the thread has yet to take.
LEMMA SendItemInv ==
    ASSUME IInv, NEW c \in Client, SendItem(c), UNCHANGED threadVars
    PROVE  IInv'
  <1> DEFINE r == Current(c)
             sent == call[c].sent
             item == ItemsOf(r)[sent + 1]
  <1>1. CASE BrokenPipe
    BY <1>1, HostEnds DEF BrokenPipe
  <1>2. CASE ~BrokenPipe
    <2>1. /\ call[c].at \in Transfers
          /\ sent < Len(ItemsOf(r))
          /\ Len(ioWrite) < IoWriteCapacity
          /\ ioWrite' = Append(ioWrite, item)
          /\ call' = [call EXCEPT ![c].sent = @ + 1]
          /\ UNCHANGED <<program, answers, threadMutex, threadMutexIR, host>>
          /\ UNCHANGED <<distribution, reduction, ioRead, simulator>>
          /\ UNCHANGED <<localStore, register, reporting, io>>
      BY <1>2 DEF SendItem, Within, threadVars
    <2>2. /\ HostOK /\ PipesOK /\ ThreadsOK
          /\ r \in Requests /\ r.type \in Transfers /\ r.row + CountOf(r) <= Rows
          /\ Len(ItemsOf(r)) = ItemCount(r)
          /\ Moving(r, sent, call[c].got, ioWrite, ioRead, io)
          /\ call[c] \in CallState /\ sent \in Nat
      BY <2>1, HolderFacts
    <2>3. ItemsOf(r) \in Seq(Item)
      BY <2>2, ItemFacts
    <2>4. item \in Item
      BY <2>1, <2>2, <2>3
    <2> HIDE DEF item
    <2>5. ioWrite \in Seq(Item) /\ Len(ioWrite) \in Nat
      BY <2>2 DEF PipesOK
    <2>6. /\ ioWrite' \in Seq(Item) /\ Len(ioWrite') = Len(ioWrite) + 1
          /\ \A k \in 1..Len(ioWrite) : ioWrite'[k] = ioWrite[k]
          /\ ioWrite'[Len(ioWrite) + 1] = item
      BY <2>1, <2>4, <2>5
    <2>7. /\ call' \in [Client -> CallState]
          /\ call'[c].at = call[c].at /\ call'[c].got = call[c].got
          /\ call'[c].sent = sent + 1
          /\ \A d \in Client \ {c} : call'[d] = call[d]
      <3>1. call \in [Client -> CallState]
        BY <2>2 DEF HostOK
      <3>2. /\ [call[c] EXCEPT !.sent = @ + 1] \in CallState
            /\ [call[c] EXCEPT !.sent = @ + 1].at = call[c].at
            /\ [call[c] EXCEPT !.sent = @ + 1].got = call[c].got
            /\ [call[c] EXCEPT !.sent = @ + 1].sent = sent + 1
        BY <2>2 DEF CallState
      <3>3. call' = [call EXCEPT ![c] = [call[c] EXCEPT !.sent = @ + 1]]
        BY <2>1
      <3> QED BY <3>1, <3>2, <3>3
    <2>8. Moving(r, sent + 1, call[c].got, ioWrite', ioRead', io')
      <3>0. sent \in Nat /\ Len(ioWrite) \in Nat /\ Len(ioWrite') = Len(ioWrite) + 1
        BY <2>2, <2>5, <2>6
      <3>1. (sent + 1) - Len(ioWrite') = sent - Len(ioWrite)
        BY ONLY <3>0
      <3>2. \A k \in 1..Len(ioWrite') : ioWrite'[k] = ItemsOf(r)[(sent + 1) - Len(ioWrite') + k]
        <4> TAKE k \in 1..Len(ioWrite')
        <4>1. CASE k = Len(ioWrite) + 1
          <5>1. (sent + 1) - Len(ioWrite') + k = sent + 1
            BY <4>1, <2>2, <2>5, <2>6
          <5> QED BY <5>1, <4>1, <2>6 DEF item
        <4>2. CASE k \in 1..Len(ioWrite)
          BY <4>2, <3>1, <2>2, <2>6 DEF Moving
        <4> QED BY <4>1, <4>2, <2>5, <2>6
      <3>3. Stages(r, (sent + 1) - Len(ioWrite'), call[c].got, ioRead', io')
        BY <3>1, <2>1, <2>2 DEF Moving
      <3>4. Len(ioWrite) <= sent /\ sent + 1 \in 0..ItemCount(r)
        <4>1. ItemCount(r) \in Nat
          BY <2>2, TransferFacts
        <4> QED BY <4>1, <2>1, <2>2 DEF Moving
      <3>5. Len(ioWrite') <= sent + 1
        BY <3>4, <2>2, <2>5, <2>6
      <3> QED BY <3>2, <3>3, <3>4, <3>5, <2>2 DEF Moving
    <2>9. HostOK' /\ Locked' /\ Calling' /\ Transferring'
      BY <2>1, <2>7, <2>8, HolderMoves
    <2>10. PipesOK' /\ ThreadsOK' /\ Distributing'
      BY <2>1, <2>2, <2>5, <2>6, PipesAssumption DEF PipesOK, ThreadsOK, IInv, Distributing
    <2> QED BY <2>9, <2>10 DEF IInv, TypeOK
  <1> QED BY <1>1, <1>2

\* readFromPipe() in a transfer: a row, or the acknowledgement.
LEMMA ReceiveItemInv ==
    ASSUME IInv, NEW c \in Client, ReceiveItem(c), UNCHANGED threadVars
    PROVE  IInv'
  <1> DEFINE r == Current(c)
             sent == call[c].sent
             got == call[c].got
  <1>1. /\ call[c].at \in Transfers /\ ioRead # << >>
        /\ call' = [call EXCEPT ![c].got = Append(@, Head(ioRead))]
        /\ ioRead' = Tail(ioRead)
        /\ UNCHANGED <<program, answers, threadMutex, threadMutexIR, host>>
        /\ UNCHANGED <<distribution, reduction, ioWrite, simulator>>
        /\ UNCHANGED <<localStore, register, reporting, io>>
    BY DEF ReceiveItem, Within, threadVars
  <1>2. /\ HostOK /\ PipesOK /\ ThreadsOK
        /\ Moving(r, sent, got, ioWrite, ioRead, io)
        /\ call[c] \in CallState /\ got \in Seq(Value)
    BY <1>1, HolderFacts
  <1>3. /\ ioRead \in Seq(Value) /\ Len(ioRead) \in Nat /\ Len(ioRead) <= IoReadCapacity
        /\ Head(ioRead) \in Value
        /\ ioRead' \in Seq(Value) /\ Len(ioRead') = Len(ioRead) - 1
    BY <1>1, <1>2 DEF PipesOK
  <1>4. /\ Append(got, Head(ioRead)) \in Seq(Value)
        /\ Len(Append(got, Head(ioRead))) = Len(got) + 1
        /\ Len(got) \in Nat
    BY <1>2, <1>3
  <1>5. /\ call' \in [Client -> CallState]
        /\ call'[c].at = call[c].at /\ call'[c].sent = sent
        /\ call'[c].got = Append(got, Head(ioRead))
        /\ \A d \in Client \ {c} : call'[d] = call[d]
    <2>1. call \in [Client -> CallState]
      BY <1>2 DEF HostOK
    <2> DEFINE new == [call[c] EXCEPT !.got = Append(got, Head(ioRead))]
    <2>2. /\ new \in CallState /\ new.at = call[c].at /\ new.sent = sent
          /\ new.got = Append(got, Head(ioRead))
      BY <1>2, <1>4 DEF CallState
    <2>3. call' = [call EXCEPT ![c] = new]
      BY <1>1
    <2> HIDE DEF new
    <2> QED BY <2>1, <2>2, <2>3
  <1>6. Moving(r, sent, call'[c].got, ioWrite', ioRead', io')
    <2>1. Len(ioRead') + Len(call'[c].got) = Len(ioRead) + Len(got)
      BY <1>3, <1>4, <1>5
    <2>2. Stages(r, sent - Len(ioWrite), got, ioRead, io)
      BY <1>2 DEF Moving
    <2>3. \/ Acknowledged(r, sent - Len(ioWrite), got, ioRead, io)
          \/ Sending(r, sent - Len(ioWrite), got, ioRead, io)
          \/ Sent(r, sent - Len(ioWrite), got, ioRead, io)
      BY <2>2, <1>1 DEF Stages, NotReceived, Collecting, Storing, Acknowledging
    <2>4. \/ Acknowledged(r, sent - Len(ioWrite), call'[c].got, ioRead', io)
          \/ Sending(r, sent - Len(ioWrite), call'[c].got, ioRead', io)
          \/ Sent(r, sent - Len(ioWrite), call'[c].got, ioRead', io)
      BY <2>1, <2>3 DEF Acknowledged, Sending, Sent
    <2>5. Stages(r, sent - Len(ioWrite), call'[c].got, ioRead', io)
      BY <2>4 DEF Stages
    <2> QED BY <2>5, <1>1, <1>2 DEF Moving
  <1>7. HostOK' /\ Locked' /\ Calling' /\ Transferring'
    BY <1>1, <1>5, <1>6, HolderMoves
  <1>8. PipesOK' /\ ThreadsOK' /\ Distributing'
    <2>1. Len(ioRead') <= IoReadCapacity
      BY <1>3, PipesAssumption
    <2> QED BY <1>1, <1>2, <1>3, <2>1 DEF PipesOK, ThreadsOK, IInv, Distributing
  <1> QED BY <1>7, <1>8 DEF IInv, TypeOK

\* A transfer that returns leaves the FIFOs empty and the I/O thread waiting.
LEMMA TransferEnds ==
    ASSUME IInv, NEW c \in Client, TransferReturns(c)
    PROVE  ioWrite = << >> /\ ioRead = << >> /\ io = Waiting
  <1> DEFINE r == Current(c)
             sent == call[c].sent
             got == call[c].got
             taken == sent - Len(ioWrite)
  <1>1. /\ call[c].at \in Transfers
        /\ sent = Len(ItemsOf(r)) /\ Len(got) = AwaitedOf(r)
    BY DEF TransferReturns, Within
  <1>2. /\ PipesOK /\ Moving(r, sent, got, ioWrite, ioRead, io)
        /\ r \in Requests /\ r.type \in Transfers
        /\ Len(ItemsOf(r)) = ItemCount(r) /\ got \in Seq(Value)
    BY <1>1, HolderFacts
  <1>3. /\ ioRead \in Seq(Value) /\ Len(ioRead) \in Nat
        /\ Len(ioWrite) \in Nat /\ ioWrite \in Seq(Item) /\ Len(got) \in Nat
    BY <1>2 DEF PipesOK
  <1>4. /\ CountOf(r) \in Nat \ {0} /\ ItemCount(r) \in Nat \ {0}
        /\ r.type = "read" => CountOf(r) = r.count
        /\ AwaitedOf(r) = IF r.type = "write" THEN 1 ELSE CountOf(r)
    BY <1>2, TransferFacts DEF AwaitedOf, Transfers
  <1>5. Stages(r, taken, got, ioRead, io) /\ Len(got) # 0
    BY <1>1, <1>2, <1>4 DEF Moving
  <1>6. ~NotReceived(r, taken, got, ioRead, io)
    BY <1>3, <1>5 DEF NotReceived
  <1>7. /\ ~Collecting(r, taken, got, ioRead, io) /\ ~Storing(r, taken, got, ioRead, io)
        /\ ~Acknowledging(r, taken, got, ioRead, io)
    BY <1>3, <1>5 DEF Collecting, Storing, Acknowledging
  <1>8. ~Sending(r, taken, got, ioRead, io)
    BY <1>1, <1>3, <1>4 DEF Sending, Transfers
  <1>9. /\ taken = ItemCount(r) /\ io = Waiting /\ Len(ioRead) = 0
    BY <1>1, <1>3, <1>4, <1>5, <1>6, <1>7, <1>8 DEF Stages, Acknowledged, Sent
  <1>10. Len(ioWrite) = 0
    BY <1>1, <1>2, <1>3, <1>4, <1>9
  <1> QED BY <1>3, <1>9, <1>10

\* A transfer returns when it has got its acknowledgement or its last row: nothing
\* of it is left in the pipes, and the lock is free for the next.
LEMMA TransferReturnsInv ==
    ASSUME IInv, NEW c \in Client, TransferReturns(c), UNCHANGED threadVars
    PROVE  IInv'
  <1> DEFINE data == IF Current(c).type = "read" THEN call[c].got ELSE << >>
  <1>1. /\ call[c].at \in Transfers /\ threadMutex' = NoClient /\ Answer(c, Returned(data))
        /\ UNCHANGED <<program, threadMutexIR, host, pipeVars>>
    BY DEF TransferReturns, Within
  <1>2. /\ HostOK /\ PipesOK /\ ThreadsOK /\ ~Finished(c)
        /\ call[c].got \in Seq(Value)
        /\ \A d \in Client \ {c} : call[d].at \notin Transfers
    BY <1>1, HolderFacts
  <1>3. Returned(data) \in Answered
    BY <1>2 DEF Returned, Answered
  <1> HIDE DEF data
  <1>4. /\ call' \in [Client -> CallState] /\ answers' \in [Client -> Seq(Answered)]
        /\ call'[c] = Idle /\ Len(answers'[c]) <= Len(program[c])
        /\ \A d \in Client \ {c} : call'[d] = call[d] /\ answers'[d] = answers[d]
    BY <1>1, <1>2, <1>3, AnswerFacts
  <1>5. HostOK' /\ PipesOK' /\ ThreadsOK' /\ Distributing'
    BY <1>1, <1>2, <1>4
       DEF HostOK, PipesOK, ThreadsOK, IInv, Distributing, pipeVars, threadVars
  <1>6. Locked'
    <2>1. call'[c].at \notin Transfers
      BY <1>4 DEF Idle, Transfers
    <2>2. \A d \in Client : call'[d].at \notin Transfers
      BY <2>1, <1>2, <1>4
    <2>3. \A d \in Client : threadMutex' # d
      BY <1>1, ClientAssumption
    <2> QED BY <2>2, <2>3 DEF Locked
  <1>7. Calling'
    <2>1. \A d \in Client \ {c} :
              Current(d)' = Current(d) /\ (Finished(d) <=> Finished(d)')
      BY <1>1, <1>4 DEF Current, Finished
    <2>2. call'[c].at = "idle"
      BY <1>4 DEF Idle
    <2> QED BY <1>4, <2>1, <2>2 DEF IInv, Calling
  <1>8. Transferring'
    <2>1. ioWrite' = << >> /\ ioRead' = << >> /\ io' = Waiting
      BY <1>1, TransferEnds DEF pipeVars, threadVars
    <2> QED BY <1>1, <2>1, ClientAssumption DEF Transferring
  <1> QED BY <1>5, <1>6, <1>7, <1>8 DEF IInv, TypeOK

-----------------------------------------------------------------------------
(* The steps of the I/O thread.                                            *)

\* A step of the I/O thread that is one of the transfer of c.
LEMMA IoMoves ==
    ASSUME IInv, NEW c \in Client, call[c].at \in Transfers, UNCHANGED hostVars,
           Moving(Current(c), call[c].sent, call[c].got, ioWrite', ioRead', io')
    PROVE  HostOK' /\ Locked' /\ Calling' /\ Transferring'
  <1>1. UNCHANGED <<program, answers, call, threadMutex, threadMutexIR, host>>
    BY DEF hostVars
  <1>2. call \in [Client -> CallState]
    BY DEF IInv, TypeOK, HostOK
  <1> QED BY <1>1, <1>2, HolderMoves

\* What the I/O thread takes from ioWrite is the next item of the transfer.
LEMMA TakeFacts ==
    ASSUME IInv, NEW c \in Client, call[c].at \in Transfers,
           ioWrite # << >>, ioWrite' = Tail(ioWrite)
    PROVE  /\ call[c].sent - Len(ioWrite) \in 0..(ItemCount(Current(c)) - 1)
           /\ Head(ioWrite) = ItemsOf(Current(c))[call[c].sent - Len(ioWrite) + 1]
           /\ ioWrite' \in Seq(Item) /\ Len(ioWrite') <= IoWriteCapacity
           /\ Len(ioWrite') <= call[c].sent
           /\ call[c].sent - Len(ioWrite') = call[c].sent - Len(ioWrite) + 1
           /\ \A k \in 1..Len(ioWrite') :
                  ioWrite'[k] = ItemsOf(Current(c))[call[c].sent - Len(ioWrite') + k]
  <1> DEFINE r == Current(c)
             sent == call[c].sent
             items == ItemsOf(r)
  <1>1. /\ PipesOK /\ r \in Requests /\ r.type \in Transfers
        /\ Moving(r, sent, call[c].got, ioWrite, ioRead, io)
        /\ sent \in Nat
    BY HolderFacts
  <1>2. /\ ioWrite \in Seq(Item) /\ Len(ioWrite) \in Nat /\ Len(ioWrite) <= IoWriteCapacity
        /\ 1 \in 1..Len(ioWrite) /\ Head(ioWrite) = ioWrite[1]
        /\ ioWrite' \in Seq(Item) /\ Len(ioWrite') = Len(ioWrite) - 1
        /\ \A k \in 1..Len(ioWrite') :
               k + 1 \in 1..Len(ioWrite) /\ ioWrite'[k] = ioWrite[k + 1]
    BY <1>1 DEF PipesOK
  <1>3. ItemCount(r) \in Nat
    BY <1>1, TransferFacts
  <1> HIDE DEF items
  <1>4. /\ sent \in 0..ItemCount(r) /\ Len(ioWrite) <= sent
        /\ \A k \in 1..Len(ioWrite) : ioWrite[k] = items[sent - Len(ioWrite) + k]
    BY <1>1 DEF Moving, items
  <1>5. sent - Len(ioWrite) \in 0..(ItemCount(r) - 1)
    BY <1>2, <1>3, <1>4
  <1>6. sent - Len(ioWrite') = sent - Len(ioWrite) + 1
    BY <1>1, <1>2
  <1>7. \A k \in 1..Len(ioWrite') : ioWrite'[k] = items[sent - Len(ioWrite') + k]
    <2> TAKE k \in 1..Len(ioWrite')
    <2>1. ioWrite'[k] = items[sent - Len(ioWrite) + (k + 1)]
      BY <1>2, <1>4
    <2>2. sent - Len(ioWrite) + (k + 1) = sent - Len(ioWrite') + k
      BY <1>1, <1>2
    <2> QED BY <2>1, <2>2
  <1>8. Len(ioWrite') <= sent /\ Len(ioWrite') <= IoWriteCapacity
    BY <1>1, <1>2, <1>4, PipesAssumption
  <1>9. Head(ioWrite) = items[sent - Len(ioWrite) + 1]
    BY <1>2, <1>4
  <1> QED BY <1>2, <1>5, <1>6, <1>7, <1>8, <1>9 DEF items

\* Items that have not been taken: there is no answer yet.
LEMMA OnTheirWay ==
    ASSUME IInv, NEW c \in Client, call[c].at \in Transfers, ioWrite # << >>
    PROVE  LET taken == call[c].sent - Len(ioWrite) IN
           \/ NotReceived(Current(c), taken, call[c].got, ioRead, io)
           \/ Collecting(Current(c), taken, call[c].got, ioRead, io)
  <1> DEFINE r == Current(c)
             taken == call[c].sent - Len(ioWrite)
  <1>1. /\ PipesOK /\ r \in Requests /\ r.type \in Transfers /\ call[c].sent \in Nat
        /\ Moving(r, call[c].sent, call[c].got, ioWrite, ioRead, io)
    BY HolderFacts
  <1>2. Len(ioWrite) \in Nat \ {0}
    <2>1. ioWrite \in Seq(Item)
      BY <1>1 DEF PipesOK
    <2> QED BY <2>1
  <1>3. ItemCount(r) \in Nat
    BY <1>1, TransferFacts
  <1>4. taken # ItemCount(r)
    BY <1>1, <1>2, <1>3 DEF Moving
  <1>5. Stages(r, taken, call[c].got, ioRead, io)
    BY <1>1 DEF Moving
  <1> HIDE DEF taken
  <1> QED
    BY <1>4, <1>5
       DEF Stages, Storing, Acknowledging, Acknowledged, Sending, Sent, taken

\* The I/O thread takes the descriptor of the transfer.
LEMMA ReceiveFacts ==
    ASSUME IInv, Receive, NEW c \in Client, call[c].at \in Transfers
    PROVE  LET r == Current(c)
               sent == call[c].sent
           IN /\ io' = [at |-> r.type, row |-> r.row, count |-> CountOf(r), rows |-> << >>]
              /\ simulator' = simulator
              /\ ioRead = << >> /\ ioRead' = << >> /\ call[c].got = << >>
              /\ ioWrite' \in Seq(Item) /\ Len(ioWrite') <= IoWriteCapacity
              /\ Len(ioWrite') <= sent /\ sent - Len(ioWrite') = 1
              /\ \A k \in 1..Len(ioWrite') :
                     ioWrite'[k] = ItemsOf(r)[sent - Len(ioWrite') + k]
  <1> DEFINE r == Current(c)
             sent == call[c].sent
             got == call[c].got
             n == CountOf(r)
  <1>1. /\ io.at = "idle" /\ ioWrite # << >> /\ ioWrite' = Tail(ioWrite)
        /\ io' = [Waiting EXCEPT !.at = Head(ioWrite).type, !.row = Head(ioWrite).row,
                                 !.count = Head(ioWrite).count + 1]
        /\ simulator' = IF Head(ioWrite).type \in {"write", "read"}
                        THEN simulator ELSE "exited"
        /\ UNCHANGED ioRead
    BY DEF Receive
  <1>2. r \in Requests /\ r.type \in Transfers /\ r.row + n <= Rows
    BY HolderFacts
  <1>3. NotReceived(r, sent - Len(ioWrite), got, ioRead, io)
    BY <1>1, OnTheirWay DEF Collecting
  <1>4. sent - Len(ioWrite) = 0 /\ ioRead = << >> /\ got = << >> /\ ioRead' = << >>
    BY <1>1, <1>3 DEF NotReceived
  <1>5. 0 + 1 = 1
    OBVIOUS
  <1>6. /\ Head(ioWrite) = ItemsOf(r)[1]
        /\ ioWrite' \in Seq(Item) /\ Len(ioWrite') <= IoWriteCapacity
        /\ Len(ioWrite') <= sent /\ sent - Len(ioWrite') = 1
        /\ \A k \in 1..Len(ioWrite') : ioWrite'[k] = ItemsOf(r)[sent - Len(ioWrite') + k]
    BY <1>1, <1>4, <1>5, TakeFacts
  <1>7. Head(ioWrite) = [type |-> r.type, row |-> r.row, count |-> n - 1, val |-> Zero]
    BY <1>2, <1>6, ItemFacts
  <1>8. n - 1 + 1 = n
    BY <1>2, TransferFacts
  <1>9. /\ Head(ioWrite).type = r.type /\ Head(ioWrite).row = r.row
        /\ Head(ioWrite).count + 1 = n
    BY <1>7, <1>8
  <1>10. io' = [at |-> r.type, row |-> r.row, count |-> n, rows |-> << >>]
    <2>1. io' = [Waiting EXCEPT !.at = r.type, !.row = r.row, !.count = n]
      BY <1>1, <1>9
    <2> QED BY <2>1 DEF Waiting
  <1>11. simulator' = simulator
    BY <1>1, <1>2, <1>9 DEF Transfers
  <1> QED BY <1>4, <1>6, <1>10, <1>11

\* With the descriptor taken, the rows of a write are collected, and those of a
\* read are sent.
LEMMA ReceiveInv ==
    ASSUME IInv, Receive, UNCHANGED hostVars
    PROVE  IInv'
  <1>1. /\ ioWrite # << >>
        /\ UNCHANGED <<localStore, register, reporting, distribution, reduction, ioRead>>
    BY DEF Receive
  <1>2. PICK c \in Client : call[c].at \in Transfers
    BY <1>1, SomeHolder
  <1> DEFINE r == Current(c)
             sent == call[c].sent
             got == call[c].got
             n == CountOf(r)
  <1>3. /\ PipesOK /\ ThreadsOK /\ r \in Requests /\ r.type \in Transfers
        /\ r.row + n <= Rows /\ sent \in Nat
        /\ Moving(r, sent, got, ioWrite, ioRead, io)
    BY <1>2, HolderFacts
  <1>4. /\ io' = [at |-> r.type, row |-> r.row, count |-> n, rows |-> << >>]
        /\ simulator' = simulator
        /\ ioRead' = << >> /\ got = << >>
        /\ ioWrite' \in Seq(Item) /\ Len(ioWrite') <= IoWriteCapacity
        /\ Len(ioWrite') <= sent /\ sent - Len(ioWrite') = 1
        /\ \A k \in 1..Len(ioWrite') : ioWrite'[k] = ItemsOf(r)[sent - Len(ioWrite') + k]
    BY <1>2, ReceiveFacts
  <1>5. io'.at = r.type /\ io'.row = r.row /\ io'.count = n /\ io'.rows = << >>
    BY <1>4
  <1>6. r.row \in Nat /\ n \in Nat \ {0}
    BY <1>3, TransferFacts
  <1>7. Stages(r, 1, got, ioRead', io')
    <2>1. Len(<< >>) = 0
      OBVIOUS
    <2>2. Len(io'.rows) = 0 /\ Len(ioRead') = 0 /\ Len(got) = 0
      BY <1>4, <1>5, <2>1
    <2>3. CASE r.type = "write"
      <3>1. 1 \in 1..n /\ Len(io'.rows) = 1 - 1 /\ 1..Len(io'.rows) = {}
        BY <2>2, <1>6
      <3>2. \A k \in 1..Len(io'.rows) : io'.rows[k] = r.data[k]
        BY <3>1
      <3>3. Collecting(r, 1, got, ioRead', io')
        BY <3>1, <3>2, <2>3, <1>4, <1>5 DEF Collecting
      <3> QED BY <3>3 DEF Stages
    <2>4. CASE r.type = "read"
      <3>1. Len(ioRead') + Len(got) = n - n /\ n \in 1..n
        BY <2>2, <1>6
      <3>2. Sending(r, 1, got, ioRead', io')
        BY <3>1, <2>4, <1>5 DEF Sending, ItemCount
      <3> QED BY <3>2 DEF Stages
    <2> QED BY <2>3, <2>4, <1>3 DEF Transfers
  <1>8. Moving(r, sent, got, ioWrite', ioRead', io')
    BY <1>3, <1>4, <1>7 DEF Moving
  <1>9. HostOK' /\ Locked' /\ Calling' /\ Transferring'
    BY <1>2, <1>8, IoMoves
  <1>10. io' \in IoState
    <2>1. r.row \in 0..Rows /\ n \in 0..Rows /\ r.type \in {"write", "read"}
      BY <1>3, <1>6, PipesAssumption DEF Transfers
    <2> QED BY <2>1, <1>4 DEF IoState
  <1>11. PipesOK' /\ ThreadsOK' /\ Distributing'
    BY <1>1, <1>3, <1>4, <1>10 DEF PipesOK, ThreadsOK, IInv, Distributing
  <1> QED BY <1>9, <1>11 DEF IInv, TypeOK

\* A row of a write that the I/O thread takes.
LEMMA CollectFacts ==
    ASSUME IInv, Collect, NEW c \in Client, call[c].at \in Transfers
    PROVE  LET r == Current(c)
               taken == call[c].sent - Len(ioWrite)
           IN /\ Collecting(r, taken, call[c].got, ioRead, io)
              /\ Head(ioWrite).val = r.data[taken] /\ Head(ioWrite).val \in Value
              /\ io'.row = r.row /\ io'.count = CountOf(r)
              /\ io'.at = IF taken = CountOf(r) THEN "store" ELSE "write"
              /\ io'.rows \in Seq(Value) /\ Len(io'.rows) = taken
              /\ \A k \in 1..taken : io'.rows[k] = r.data[k]
  <1> DEFINE r == Current(c)
             taken == call[c].sent - Len(ioWrite)
  <1>1. /\ io.at = "write" /\ ioWrite # << >> /\ ioWrite' = Tail(ioWrite)
        /\ io' = [io EXCEPT !.rows = Append(@, Head(ioWrite).val),
                            !.at = IF Len(io.rows) + 1 = io.count THEN "store" ELSE @]
    BY DEF Collect
  <1>2. /\ ThreadsOK /\ r \in Requests /\ r.type \in Transfers /\ r.row + CountOf(r) <= Rows
    BY HolderFacts
  <1>3. Collecting(r, taken, call[c].got, ioRead, io)
    BY <1>1, OnTheirWay DEF NotReceived, Waiting
  <1>4. /\ Head(ioWrite) = ItemsOf(r)[taken + 1]
        /\ taken \in 0..(ItemCount(r) - 1)
    BY <1>1, TakeFacts
  <1> HIDE DEF taken
  <1>5. /\ r.type = "write" /\ taken \in 1..CountOf(r) /\ CountOf(r) \in Nat
        /\ Len(io.rows) = taken - 1 /\ io.row = r.row /\ io.count = CountOf(r)
        /\ \A k \in 1..Len(io.rows) : io.rows[k] = r.data[k]
    BY <1>2, <1>3, TransferFacts DEF Collecting
  <1>6. Head(ioWrite) = RowItem(r.data[taken])
    <2>1. ItemsOf(r)[taken + 1] = RowItem(r.data[taken])
      BY <1>2, <1>5, ItemFacts
    <2> QED BY <2>1, <1>4
  <1>7. Head(ioWrite).val = r.data[taken] /\ r.data[taken] \in Value
    <2>1. r.data \in Seq(Value) /\ Len(r.data) = CountOf(r)
      BY <1>2, <1>5, TransferFacts
    <2> QED BY <2>1, <1>5, <1>6 DEF RowItem
  <1>8. io \in IoState /\ io.rows \in Seq(Value)
    BY <1>2 DEF ThreadsOK, IoState
  <1>9. /\ Append(io.rows, r.data[taken]) \in Seq(Value)
        /\ Len(Append(io.rows, r.data[taken])) = taken
        /\ \A k \in 1..taken : Append(io.rows, r.data[taken])[k] = r.data[k]
    BY <1>5, <1>7, <1>8
  <1>10. /\ io'.rows = Append(io.rows, r.data[taken])
         /\ io'.row = io.row /\ io'.count = io.count
         /\ io'.at = IF Len(io.rows) + 1 = io.count THEN "store" ELSE "write"
    BY <1>1, <1>7, <1>8 DEF IoState
  <1>11. Len(io.rows) + 1 = io.count <=> taken = CountOf(r)
    BY <1>5
  <1> QED BY <1>3, <1>5, <1>7, <1>9, <1>10, <1>11 DEF taken

\* The I/O thread takes a row of a write; the last one starts the storing.
LEMMA CollectInv ==
    ASSUME IInv, Collect, UNCHANGED hostVars
    PROVE  IInv'
  <1>1. /\ io.at = "write" /\ ioWrite # << >> /\ ioWrite' = Tail(ioWrite)
        /\ io' = [io EXCEPT !.rows = Append(@, Head(ioWrite).val),
                            !.at = IF Len(io.rows) + 1 = io.count THEN "store" ELSE @]
        /\ UNCHANGED <<localStore, register, reporting, distribution, reduction,
                       ioRead, simulator>>
    BY DEF Collect
  <1>2. PICK c \in Client : call[c].at \in Transfers
    BY <1>1, SomeHolder
  <1> DEFINE r == Current(c)
             taken == call[c].sent - Len(ioWrite)
             got == call[c].got
             n == CountOf(r)
  <1>3. /\ PipesOK /\ ThreadsOK /\ r \in Requests /\ r.type \in Transfers
        /\ r.row + n <= Rows
        /\ Moving(r, call[c].sent, got, ioWrite, ioRead, io)
    BY <1>2, HolderFacts
  <1>4. /\ Collecting(r, taken, got, ioRead, io)
        /\ Head(ioWrite).val \in Value
        /\ io'.row = r.row /\ io'.count = n
        /\ io'.at = IF taken = n THEN "store" ELSE "write"
        /\ io'.rows \in Seq(Value) /\ Len(io'.rows) = taken
        /\ \A k \in 1..taken : io'.rows[k] = r.data[k]
    BY <1>2, CollectFacts
  <1>5. /\ ioWrite' \in Seq(Item) /\ Len(ioWrite') <= IoWriteCapacity
        /\ Len(ioWrite') <= call[c].sent /\ call[c].sent - Len(ioWrite') = taken + 1
        /\ \A k \in 1..Len(ioWrite') :
               ioWrite'[k] = ItemsOf(r)[call[c].sent - Len(ioWrite') + k]
    BY <1>1, <1>2, TakeFacts
  <1> HIDE DEF taken
  <1>6. /\ r.type = "write" /\ taken \in 1..n /\ n \in Nat /\ r.row \in Nat
        /\ ioRead' = << >> /\ got = << >>
    BY <1>1, <1>3, <1>4, TransferFacts DEF Collecting
  <1>7. Stages(r, taken + 1, got, ioRead', io')
    <2>1. CASE taken = n
      <3>1. io'.at = "store" /\ io'.row + Len(io'.rows) = r.row + n
            /\ taken + 1 = ItemCount(r)
        BY <2>1, <1>4, <1>6 DEF ItemCount
      <3>2. io'.rows # << >>
        BY <1>4, <1>6
      <3>3. Storing(r, taken + 1, got, ioRead', io')
        BY <3>1, <3>2, <1>6 DEF Storing
      <3> QED BY <3>3 DEF Stages
    <2>2. CASE taken # n
      <3>1. /\ io'.at = "write" /\ taken + 1 \in 1..n
            /\ Len(io'.rows) = (taken + 1) - 1
            /\ \A k \in 1..Len(io'.rows) : io'.rows[k] = r.data[k]
        BY <2>2, <1>4, <1>6
      <3>2. Collecting(r, taken + 1, got, ioRead', io')
        BY <3>1, <1>4, <1>6 DEF Collecting
      <3> QED BY <3>2 DEF Stages
    <2> QED BY <2>1, <2>2
  <1>8. Moving(r, call[c].sent, got, ioWrite', ioRead', io')
    BY <1>3, <1>5, <1>7 DEF Moving
  <1>9. HostOK' /\ Locked' /\ Calling' /\ Transferring'
    BY <1>2, <1>8, IoMoves
  <1>10. io' \in IoState
    <2>1. io \in IoState
      BY <1>3 DEF ThreadsOK
    <2>2. io' = [at |-> io'.at, row |-> io'.row, count |-> io'.count, rows |-> io'.rows]
      BY <2>1, <1>1 DEF IoState
    <2>3. io'.row \in 0..Rows /\ io'.count \in 0..Rows
      BY <1>3, <1>4, <1>6, PipesAssumption
    <2>4. io'.at \in {"store", "write"}
      BY <1>4
    <2> QED BY <2>2, <2>3, <2>4, <1>4 DEF IoState
  <1>11. PipesOK' /\ ThreadsOK' /\ Distributing'
    BY <1>1, <1>3, <1>5, <1>10 DEF PipesOK, ThreadsOK, IInv, Distributing
  <1> QED BY <1>9, <1>11 DEF IInv, TypeOK

\* Where a transfer is when the I/O thread has all its items.
LEMMA AllTaken ==
    ASSUME IInv, NEW c \in Client, call[c].at \in Transfers,
           io.at \in {"store", "ack", "read"}
    PROVE  /\ ioWrite = << >>
           /\ call[c].sent = ItemCount(Current(c))
           /\ LET r == Current(c)
                  taken == call[c].sent
              IN \/ io.at = "store" /\ Storing(r, taken, call[c].got, ioRead, io)
                 \/ io.at = "ack" /\ Acknowledging(r, taken, call[c].got, ioRead, io)
                 \/ io.at = "read" /\ Sending(r, taken, call[c].got, ioRead, io)
  <1> DEFINE r == Current(c)
             sent == call[c].sent
             got == call[c].got
             taken == sent - Len(ioWrite)
  <1>1. /\ PipesOK /\ r \in Requests /\ r.type \in Transfers /\ sent \in Nat
        /\ Moving(r, sent, got, ioWrite, ioRead, io)
    BY HolderFacts
  <1>2. ioWrite \in Seq(Item) /\ Len(ioWrite) \in Nat /\ ItemCount(r) \in Nat
    BY <1>1, TransferFacts DEF PipesOK
  <1>3. Stages(r, taken, got, ioRead, io) /\ sent <= ItemCount(r)
    BY <1>1, <1>2 DEF Moving
  <1>4. \/ io.at = "store" /\ Storing(r, taken, got, ioRead, io)
        \/ io.at = "ack" /\ Acknowledging(r, taken, got, ioRead, io)
        \/ io.at = "read" /\ Sending(r, taken, got, ioRead, io)
    BY <1>3
       DEF Stages, NotReceived, Collecting, Storing, Acknowledging, Acknowledged, Sending,
           Sent, Waiting
  <1>5. taken = ItemCount(r)
    BY <1>4 DEF Storing, Acknowledging, Sending
  <1>6. Len(ioWrite) = 0 /\ sent = ItemCount(r)
    BY <1>1, <1>2, <1>3, <1>5
  <1>7. taken = sent
    BY <1>5, <1>6
  <1> QED BY <1>2, <1>4, <1>6, <1>7

\* With all items taken, what is left of a transfer is between the I/O thread
\* and the thread that waits for it.
LEMMA AnsweringMoves ==
    ASSUME NEW r, NEW got, NEW sent \in Nat,
           Moving(r, sent, got, ioWrite, ioRead, io),
           ioWrite = << >>, ioWrite' = ioWrite,
           Stages(r, sent, got, ioRead', io')
    PROVE  Moving(r, sent, got, ioWrite', ioRead', io')
  <1>1. Len(ioWrite) = 0
    OBVIOUS
  <1>2. sent - Len(ioWrite) = sent
    BY <1>1
  <1> QED BY <1>2 DEF Moving

\* A row, or the last one, goes into the local store.
LEMMA StoreInv ==
    ASSUME IInv, Store, UNCHANGED hostVars
    PROVE  IInv'
  <1>1. /\ io.at = "store"
        /\ localStore' = [localStore EXCEPT ![io.row] = Head(io.rows)]
        /\ io' = [io EXCEPT !.row = @ + 1, !.rows = Tail(@),
                            !.at = IF Len(io.rows) = 1 THEN "ack" ELSE @]
        /\ UNCHANGED <<register, reporting, pipeVars>>
    BY DEF Store
  <1>2. PICK c \in Client : call[c].at \in Transfers
    BY <1>1, SomeHolder
  <1> DEFINE r == Current(c)
             sent == call[c].sent
             got == call[c].got
             n == CountOf(r)
  <1>3. /\ PipesOK /\ ThreadsOK /\ r \in Requests /\ r.type \in Transfers
        /\ r.row + n <= Rows /\ sent \in Nat
        /\ Moving(r, sent, got, ioWrite, ioRead, io)
    BY <1>2, HolderFacts
  <1>4. ioWrite = << >> /\ Storing(r, sent, got, ioRead, io)
    BY <1>1, <1>2, AllTaken
  <1>5. /\ io \in IoState /\ io.rows \in Seq(Value) /\ io.row \in Nat
        /\ localStore \in [0..(Rows - 1) -> Value]
        /\ r.row \in Nat /\ n \in Nat
    BY <1>3, TransferFacts DEF ThreadsOK, IoState
  <1>6. /\ r.type = "write" /\ sent = ItemCount(r) /\ io.rows # << >>
        /\ io.row + Len(io.rows) = r.row + n /\ ioRead = << >> /\ got = << >>
    BY <1>4 DEF Storing
  <1>7. /\ Head(io.rows) \in Value /\ Tail(io.rows) \in Seq(Value)
        /\ Len(io.rows) \in Nat \ {0} /\ Len(Tail(io.rows)) = Len(io.rows) - 1
    BY <1>5, <1>6
  <1>8. /\ io'.row = io.row + 1 /\ io'.rows = Tail(io.rows) /\ io'.count = io.count
        /\ io'.at = IF Len(io.rows) = 1 THEN "ack" ELSE "store"
        /\ io' = [at |-> io'.at, row |-> io'.row, count |-> io'.count, rows |-> io'.rows]
    BY <1>1, <1>5 DEF IoState
  <1>9. ioRead' = << >> /\ ioWrite' = ioWrite
    BY <1>1, <1>6 DEF pipeVars
  <1>10. Stages(r, sent, got, ioRead', io')
    <2>1. CASE Len(io.rows) = 1
      <3>1. Acknowledging(r, sent, got, ioRead', io')
        BY <2>1, <1>6, <1>8, <1>9 DEF Acknowledging
      <3> QED BY <3>1 DEF Stages
    <2>2. CASE Len(io.rows) # 1
      <3>1. Len(io'.rows) = Len(io.rows) - 1
        BY <1>7, <1>8
      <3>2. io'.at = "store" /\ io'.row + Len(io'.rows) = r.row + n /\ Len(io'.rows) # 0
        <4>1. io'.at = "store" /\ io'.row = io.row + 1
          BY <2>2, <1>8
        <4>2. Len(io.rows) \in Nat \ {0, 1}
          BY <2>2, <1>7
        <4>3. (io.row + 1) + (Len(io.rows) - 1) = io.row + Len(io.rows)
          <5>1. \A a, b \in Nat : (a + 1) + (b - 1) = a + b
            OBVIOUS
          <5>2. io.row \in Nat /\ Len(io.rows) \in Nat
            BY <4>2, <1>5
          <5> QED BY ONLY <5>1, <5>2
        <4>4. Len(io'.rows) # 0
          BY <3>1, <4>2
        <4> QED BY <3>1, <4>1, <4>3, <4>4, <1>6
      <3>3. io'.rows # << >>
        BY <3>2
      <3>4. Storing(r, sent, got, ioRead', io')
        BY <3>2, <3>3, <1>6, <1>9 DEF Storing
      <3> QED BY <3>4 DEF Stages
    <2> QED BY <2>1, <2>2
  <1>11. Moving(r, sent, got, ioWrite', ioRead', io')
    BY <1>3, <1>4, <1>9, <1>10, AnsweringMoves
  <1>12. HostOK' /\ Locked' /\ Calling' /\ Transferring'
    BY <1>2, <1>11, IoMoves
  <1>13. io' \in IoState
    <2>1. io.row + 1 \in 0..Rows
      BY SMTT(30), <1>3, <1>5, <1>6, <1>7, PipesAssumption
    <2> QED BY <2>1, <1>5, <1>7, <1>8 DEF IoState
  <1>14. localStore' \in [0..(Rows - 1) -> Value]
    BY <1>1, <1>5, <1>7
  <1>15. PipesOK' /\ ThreadsOK' /\ Distributing'
    BY <1>1, <1>3, <1>13, <1>14 DEF PipesOK, ThreadsOK, IInv, Distributing, pipeVars
  <1> QED BY <1>12, <1>15 DEF IInv, TypeOK

\* One more row or acknowledgement in ioRead.
LEMMA AnswerPlaced ==
    ASSUME PipesOK, NEW val \in Value, Len(ioRead) < IoReadCapacity,
           ioRead' = Append(ioRead, val),
           UNCHANGED <<distribution, reduction, ioWrite, simulator>>
    PROVE  PipesOK' /\ Len(ioRead) \in Nat /\ Len(ioRead') = Len(ioRead) + 1
  <1>1. ioRead \in Seq(Value) /\ Len(ioRead) \in Nat
    BY DEF PipesOK
  <1>2. ioRead' \in Seq(Value) /\ Len(ioRead') = Len(ioRead) + 1
    BY <1>1
  <1>3. Len(ioRead') <= IoReadCapacity
    BY <1>1, <1>2, PipesAssumption
  <1> QED BY <1>1, <1>2, <1>3 DEF PipesOK

\* The I/O thread acknowledges a write, whose rows are all in the local store.
LEMMA AcknowledgeInv ==
    ASSUME IInv, Acknowledge, UNCHANGED hostVars
    PROVE  IInv'
  <1>1. /\ io.at = "ack" /\ Len(ioRead) < IoReadCapacity
        /\ ioRead' = Append(ioRead, Zero) /\ io' = Waiting
        /\ UNCHANGED <<localStore, register, reporting, distribution, reduction,
                       ioWrite, simulator>>
    BY DEF Acknowledge
  <1>2. PICK c \in Client : call[c].at \in Transfers
    BY <1>1, SomeHolder
  <1> DEFINE r == Current(c)
             sent == call[c].sent
             got == call[c].got
  <1>3. /\ PipesOK /\ ThreadsOK /\ sent \in Nat /\ got \in Seq(Value)
        /\ Moving(r, sent, got, ioWrite, ioRead, io)
    BY <1>2, HolderFacts
  <1>4. ioWrite = << >> /\ Acknowledging(r, sent, got, ioRead, io)
    BY <1>1, <1>2, AllTaken
  <1>5. PipesOK' /\ Len(ioRead') = Len(ioRead) + 1
    BY <1>1, <1>3, AnswerPlaced, PipesAssumption
  <1>6. Stages(r, sent, got, ioRead', io')
    <2>1. Len(ioRead) = 0 /\ Len(got) = 0
      BY <1>4 DEF Acknowledging
    <2>2. Acknowledged(r, sent, got, ioRead', io')
      BY <2>1, <1>1, <1>4, <1>5 DEF Acknowledging, Acknowledged
    <2> QED BY <2>2 DEF Stages
  <1>7. Moving(r, sent, got, ioWrite', ioRead', io')
    BY <1>1, <1>3, <1>4, <1>6, AnsweringMoves
  <1>8. HostOK' /\ Locked' /\ Calling' /\ Transferring'
    BY <1>2, <1>7, IoMoves
  <1>9. io' \in IoState
    BY <1>1, PipesAssumption DEF Waiting, IoState
  <1>10. ThreadsOK' /\ Distributing'
    BY <1>1, <1>3, <1>9 DEF ThreadsOK, IInv, Distributing
  <1> QED BY <1>5, <1>8, <1>10 DEF IInv, TypeOK

\* The I/O thread sends a row of a read; after the last it waits for a descriptor.
LEMMA SendInv ==
    ASSUME IInv, Send, UNCHANGED hostVars
    PROVE  IInv'
  <1>1. /\ io.at = "read" /\ Len(ioRead) < IoReadCapacity
        /\ ioRead' = Append(ioRead, localStore[io.row])
        /\ io' = IF io.count = 1 THEN Waiting
                 ELSE [io EXCEPT !.row = @ + 1, !.count = @ - 1]
        /\ UNCHANGED <<localStore, register, reporting, distribution, reduction,
                       ioWrite, simulator>>
    BY DEF Send
  <1>2. PICK c \in Client : call[c].at \in Transfers
    BY <1>1, SomeHolder
  <1> DEFINE r == Current(c)
             sent == call[c].sent
             got == call[c].got
             n == CountOf(r)
  <1>3. /\ PipesOK /\ ThreadsOK /\ sent \in Nat /\ got \in Seq(Value) /\ Len(got) \in Nat
        /\ r \in Requests /\ r.type \in Transfers /\ r.row + n <= Rows
        /\ Moving(r, sent, got, ioWrite, ioRead, io)
    BY <1>2, HolderFacts
  <1>4. ioWrite = << >> /\ Sending(r, sent, got, ioRead, io)
    BY <1>1, <1>2, AllTaken
  <1>5. /\ io \in IoState /\ io.row \in Nat /\ r.row \in Nat /\ n \in Nat
        /\ localStore \in [0..(Rows - 1) -> Value]
    BY <1>3, TransferFacts DEF ThreadsOK, IoState
  <1>6. /\ r.type = "read" /\ sent = ItemCount(r)
        /\ io.count \in 1..n /\ io.row + io.count = r.row + n
        /\ Len(ioRead) + Len(got) = n - io.count
    BY <1>4 DEF Sending
  <1>7. io.row \in 0..(Rows - 1)
    BY <1>3, <1>5, <1>6, PipesAssumption
  <1>8. PipesOK' /\ Len(ioRead) \in Nat /\ Len(ioRead') = Len(ioRead) + 1
    <2>1. localStore[io.row] \in Value
      BY <1>5, <1>7
    <2> QED BY <2>1, <1>1, <1>3, AnswerPlaced
  <1>9. /\ Len(ioRead') + Len(got) = n - (io.count - 1)
        /\ io.count = 1 => Len(ioRead') + Len(got) = n
    <2>1. \A a, g, k, m \in Nat :
              a + g = m - k =>
                  (a + 1) + g = m - (k - 1) /\ (k = 1 => (a + 1) + g = m)
      OBVIOUS
    <2>2. io.count \in Nat
      BY <1>6
    <2> DEFINE a == Len(ioRead)
               g == Len(got)
    <2>3. a \in Nat /\ g \in Nat /\ n \in Nat
      BY <1>3, <1>5, <1>8
    <2>4. a + g = n - io.count
      BY <1>6
    <2> HIDE DEF a, g, n
    <2>5. /\ (a + 1) + g = n - (io.count - 1)
          /\ io.count = 1 => (a + 1) + g = n
      BY <2>1, <2>2, <2>3, <2>4
    <2> QED BY <2>5, <1>8 DEF a, g
  <1>10. CASE io.count = 1
    <2>1. io' = Waiting
      BY <1>1, <1>10
    <2>2. Len(ioRead') + Len(got) = n
      BY <1>10, <1>9
    <2>3. Sent(r, sent, got, ioRead', io')
      BY <2>1, <2>2, <1>6 DEF Sent
    <2>4. Stages(r, sent, got, ioRead', io')
      BY <2>3 DEF Stages
    <2>5. io' \in IoState
      BY <2>1, PipesAssumption DEF Waiting, IoState
    <2> QED
      <3>1. Moving(r, sent, got, ioWrite', ioRead', io')
        BY <2>4, <1>1, <1>3, <1>4, AnsweringMoves
      <3>2. HostOK' /\ Locked' /\ Calling' /\ Transferring'
        BY <3>1, <1>2, IoMoves
      <3>3. ThreadsOK' /\ Distributing'
        BY <2>5, <1>1, <1>3 DEF ThreadsOK, IInv, Distributing
      <3> QED BY <3>2, <3>3, <1>8 DEF IInv, TypeOK
  <1>11. CASE io.count # 1
    <2>1. io' = [io EXCEPT !.row = @ + 1, !.count = @ - 1]
      BY <1>1, <1>11
    <2>2. /\ io'.at = "read" /\ io'.row = io.row + 1 /\ io'.count = io.count - 1
          /\ io'.rows = io.rows
          /\ io' = [at |-> io'.at, row |-> io'.row, count |-> io'.count, rows |-> io'.rows]
      BY <2>1, <1>1, <1>5 DEF IoState
    <2>3. /\ io'.count \in 1..n /\ io'.row + io'.count = r.row + n
          /\ Len(ioRead') + Len(got) = n - io'.count
      <3>1. io.count - 1 \in 1..n /\ (io.row + 1) + (io.count - 1) = r.row + n
        BY <1>5, <1>6, <1>11
      <3> QED BY <3>1, <2>2, <1>9
    <2>4. Sending(r, sent, got, ioRead', io')
      BY <2>2, <2>3, <1>6 DEF Sending
    <2>5. Stages(r, sent, got, ioRead', io')
      BY <2>4 DEF Stages
    <2>6. io' \in IoState
      <3>1. io.row + 1 \in 0..Rows /\ io.count - 1 \in 0..Rows
        <4>1. Rows \in Nat
          BY PipesAssumption
        <4>2. io.count <= Rows
          BY <4>1, <1>3, <1>5, <1>6
        <4> QED BY <4>1, <4>2, <1>6, <1>7
      <3> QED BY <3>1, <2>2, <1>5 DEF IoState
    <2> QED
      <3>1. Moving(r, sent, got, ioWrite', ioRead', io')
        BY <2>5, <1>1, <1>3, <1>4, AnsweringMoves
      <3>2. HostOK' /\ Locked' /\ Calling' /\ Transferring'
        BY <3>1, <1>2, IoMoves
      <3>3. ThreadsOK' /\ Distributing'
        BY <2>6, <1>1, <1>3 DEF ThreadsOK, IInv, Distributing
      <3> QED BY <3>2, <3>3, <1>8 DEF IInv, TypeOK
  <1> QED BY <1>10, <1>11

-----------------------------------------------------------------------------
(* The invariant holds.                                                    *)

\* No thread has called anything, and the FIFOs are empty.
LEMMA InitInv == Init => IInv
  <1> SUFFICES ASSUME Init PROVE IInv
    OBVIOUS
  <1> USE DEF Init, PipesInit, HostInit, ThreadsInit
  <1>1. HostOK
    <2>1. Idle \in CallState
      BY DEF Idle, CallState
    <2>2. \A c \in Client : answers[c] = << >> /\ << >> \in Seq(Answered)
      OBVIOUS
    <2>3. \A c \in Client : Len(answers[c]) <= Len(program[c])
      <3> TAKE c \in Client
      <3>1. program[c] \in Seq(Requests)
        BY ClientAssumption
      <3>2. Len(program[c]) \in Nat
        BY <3>1
      <3>3. Len(answers[c]) = 0
        BY <2>2
      <3> QED BY <3>2, <3>3
    <2> QED BY <2>1, <2>2, <2>3 DEF HostOK
  <1>2. PipesOK
    <2>1. \A S : << >> \in Seq(S)
      OBVIOUS
    <2>2. Len(<< >>) = 0
      OBVIOUS
    <2>3. /\ 0 <= DistributionCapacity /\ 0 <= ReductionCapacity
          /\ 0 <= IoWriteCapacity /\ 0 <= IoReadCapacity
      BY PipesAssumption
    <2> QED BY <2>1, <2>2, <2>3 DEF PipesOK
  <1>3. ThreadsOK
    <2>1. Waiting \in IoState
      BY PipesAssumption DEF Waiting, IoState
    <2>2. << >> \in Seq(Value) /\ Len(<< >>) <= 1
      OBVIOUS
    <2> QED BY <2>1, <2>2, PipesAssumption DEF ThreadsOK
  <1>4. \A c \in Client : call[c] = Idle /\ call[c].at = "idle"
    BY DEF Idle
  <1>5. Locked
    BY <1>4, ClientAssumption DEF Locked, Transfers
  <1>6. Calling
    BY <1>4 DEF Calling
  <1>7. Transferring
    BY ClientAssumption DEF Transferring
  <1>8. Distributing
    <2>1. Len(distribution) = 0
      OBVIOUS
    <2>2. 1..0 = {}
      OBVIOUS
    <2> QED BY <2>1, <2>2 DEF Distributing
  <1> QED BY <1>1, <1>2, <1>3, <1>5, <1>6, <1>7, <1>8 DEF IInv, TypeOK

\* A step that changes nothing.
LEMMA StutterInv == IInv /\ UNCHANGED systemVars => IInv'
  <1> SUFFICES ASSUME IInv, UNCHANGED systemVars PROVE IInv'
    OBVIOUS
  <1>1. UNCHANGED hostVars /\ UNCHANGED pipeVars /\ UNCHANGED threadVars
    BY DEF systemVars
  <1>2. HostOK' /\ Locked' /\ Calling' /\ Transferring'
    BY <1>1, CoreElsewhere DEF pipeVars, threadVars
  <1>3. PipesOK' /\ ThreadsOK' /\ Distributing'
    BY <1>1 DEF IInv, TypeOK, PipesOK, ThreadsOK, Distributing, pipeVars, threadVars
  <1> QED BY <1>2, <1>3 DEF IInv, TypeOK

\* Every step of the program and of the simulator preserves the invariant.
LEMMA NextInv == IInv /\ [Next]_systemVars => IInv'
  <1> SUFFICES ASSUME IInv, [Next]_systemVars PROVE IInv'
    OBVIOUS
  <1>1. ASSUME NEW c \in Client, ClientStep(c), UNCHANGED threadVars
        PROVE  IInv'
    <2>1. CASE Execute(c)
      BY <2>1, <1>1, ExecuteInv
    <2>2. CASE SendWord(c)
      BY <2>2, <1>1, SendWordInv
    <2>3. CASE ExecuteReturns(c)
      <3>1. << >> \in Seq(Value)
        OBVIOUS
      <3> QED BY <3>1, <2>3, <1>1, ReturnInv DEF ExecuteReturns, Within
    <2>4. CASE Reduce(c)
      BY <2>4, <1>1, ReduceInv
    <2>5. CASE ReceiveResult(c)
      BY <2>5, <1>1, ReceiveResultInv
    <2>6. CASE ReduceReturns(c)
      <3>1. call[c].got \in Seq(Value)
        BY DEF IInv, TypeOK, HostOK, CallState
      <3> QED BY <3>1, <2>6, <1>1, ReturnInv DEF ReduceReturns, Within
    <2>7. CASE StartTransfer(c)
      BY <2>7, <1>1, StartTransferInv
    <2>8. CASE SendItem(c)
      BY <2>8, <1>1, SendItemInv
    <2>9. CASE ReceiveItem(c)
      BY <2>9, <1>1, ReceiveItemInv
    <2>10. CASE TransferReturns(c)
      BY <2>10, <1>1, TransferReturnsInv
    <2> QED
      BY <1>1, <2>1, <2>2, <2>3, <2>4, <2>5, <2>6, <2>7, <2>8, <2>9, <2>10 DEF ClientStep
  <1>2. CASE CoreStep /\ UNCHANGED hostVars
    BY <1>2, CoreInv
  <1>3. CASE IoStep /\ UNCHANGED hostVars
    BY <1>3, ReceiveInv, CollectInv, StoreInv, AcknowledgeInv, SendInv DEF IoStep
  <1>4. CASE UNCHANGED systemVars
    BY <1>4, StutterInv
  <1> QED BY <1>1, <1>2, <1>3, <1>4 DEF Next, Quiet

\* The protocol of transfers: one thread at a time is in a transfer, what it
\* sends is what the I/O thread takes, and nothing is left behind it in the
\* FIFOs.
THEOREM Protocol == Spec => []IInv
  BY InitInv, NextInv, PTL DEF Spec

\* Every thread of the program and of the simulator, and every FIFO, holds what
\* it should: no FIFO holds more than fits, no client has more answers than it
\* has calls, and the I/O thread never counts a row that is not in the local
\* store.
THEOREM TypeCorrect == Spec => []TypeOK
  <1>1. IInv => TypeOK
    BY DEF IInv
  <1> QED BY <1>1, Protocol, PTL

-----------------------------------------------------------------------------
(***************************************************************************)
(* The refinement.  A transfer takes place when the I/O thread takes its   *)
(* last item; every other step changes nothing that the abstract transfers *)
(* have, or begins or ends a call.                                         *)
(***************************************************************************)

\* What goes from the front of one sequence to the end of the one before it.
LEMMA Shifted ==
    ASSUME NEW S, NEW s \in Seq(S), NEW t \in Seq(S), t # << >>
    PROVE  Append(s, Head(t)) \o Tail(t) = s \o t
  <1> DEFINE a == Append(s, Head(t))
             b == Tail(t)
             m == Len(s)
             n == Len(t)
  <1>1. /\ m \in Nat /\ n \in Nat \ {0}
        /\ a \in Seq(S) /\ Len(a) = m + 1
        /\ b \in Seq(S) /\ Len(b) = n - 1
        /\ \A k \in 1..m : a[k] = s[k]
        /\ a[m + 1] = t[1]
        /\ \A k \in 1..(n - 1) : b[k] = t[k + 1]
    OBVIOUS
  <1> HIDE DEF a, b
  <1>2. /\ a \o b \in Seq(S) /\ Len(a \o b) = m + n
        /\ \A k \in 1..(m + n) :
               (a \o b)[k] = IF k <= m + 1 THEN a[k] ELSE b[k - (m + 1)]
    <2>1. /\ a \o b \in Seq(S) /\ Len(a \o b) = Len(a) + Len(b)
          /\ \A k \in 1..(Len(a) + Len(b)) :
                 (a \o b)[k] = IF k <= Len(a) THEN a[k] ELSE b[k - Len(a)]
      <3>1. a \in Seq(S) /\ b \in Seq(S)
        BY <1>1
      <3> QED BY <3>1
    <2>2. Len(a) = m + 1 /\ Len(a) + Len(b) = m + n
      BY <1>1
    <2> QED BY <2>1, <2>2
  <1>3. /\ s \o t \in Seq(S) /\ Len(s \o t) = m + n
        /\ \A k \in 1..(m + n) : (s \o t)[k] = IF k <= m THEN s[k] ELSE t[k - m]
    BY <1>1
  <1>4. \A k \in 1..(m + n) : (a \o b)[k] = (s \o t)[k]
    <2> TAKE k \in 1..(m + n)
    <2>1. CASE k <= m
      BY <2>1, <1>1, <1>2, <1>3
    <2>2. CASE k = m + 1
      BY <2>2, <1>1, <1>2, <1>3
    <2>3. CASE k > m + 1
      <3>1. (a \o b)[k] = b[k - (m + 1)] /\ (s \o t)[k] = t[k - m]
        BY <2>3, <1>1, <1>2, <1>3
      <3>2. k - (m + 1) \in 1..(n - 1) /\ (k - (m + 1)) + 1 = k - m
        BY <2>3, <1>1
      <3> QED BY <3>1, <3>2, <1>1
    <2>4. k \in Int /\ m \in Int
      BY <1>1
    <2>5. k <= m \/ k = m + 1 \/ k > m + 1
      BY ONLY <2>4
    <2> QED BY <2>1, <2>2, <2>3, <2>5
  <1>5. a \o b = s \o t
    <2> DEFINE p == a \o b
               q == s \o t
               l == m + n
    <2>1. /\ p \in Seq(S) /\ q \in Seq(S) /\ Len(p) = l /\ Len(q) = l
          /\ \A k \in 1..l : p[k] = q[k]
      BY <1>2, <1>3, <1>4
    <2> HIDE DEF p, q, l
    <2>2. p = q
      BY ONLY <2>1
    <2> QED BY <2>2 DEF p, q
  <1> QED BY <1>5 DEF a, b

\* What is appended to the last of two sequences.
LEMMA AppendedLast ==
    ASSUME NEW S, NEW s \in Seq(S), NEW t \in Seq(S), NEW x \in S
    PROVE  s \o Append(t, x) = Append(s \o t, x)
  <1> DEFINE a == Append(t, x)
             b == s \o t
             m == Len(s)
             n == Len(t)
  <1>1. /\ m \in Nat /\ n \in Nat
        /\ a \in Seq(S) /\ Len(a) = n + 1 /\ a[n + 1] = x
        /\ \A k \in 1..n : a[k] = t[k]
    OBVIOUS
  <1>2. /\ b \in Seq(S) /\ Len(b) = m + n
        /\ \A k \in 1..(m + n) : b[k] = IF k <= m THEN s[k] ELSE t[k - m]
    OBVIOUS
  <1> HIDE DEF a, b
  <1>3. /\ s \o a \in Seq(S) /\ Len(s \o a) = m + (n + 1)
        /\ \A k \in 1..(m + (n + 1)) : (s \o a)[k] = IF k <= m THEN s[k] ELSE a[k - m]
    <2>1. /\ s \o a \in Seq(S) /\ Len(s \o a) = Len(s) + Len(a)
          /\ \A k \in 1..(Len(s) + Len(a)) :
                 (s \o a)[k] = IF k <= Len(s) THEN s[k] ELSE a[k - Len(s)]
      <3>1. a \in Seq(S)
        BY <1>1
      <3> QED BY <3>1
    <2> QED BY <2>1, <1>1
  <1>4. /\ Append(b, x) \in Seq(S) /\ Len(Append(b, x)) = (m + n) + 1
        /\ Append(b, x)[(m + n) + 1] = x
        /\ \A k \in 1..(m + n) : Append(b, x)[k] = b[k]
    <2>1. /\ Append(b, x) \in Seq(S) /\ Len(Append(b, x)) = Len(b) + 1
          /\ Append(b, x)[Len(b) + 1] = x
          /\ \A k \in 1..Len(b) : Append(b, x)[k] = b[k]
      <3>1. b \in Seq(S)
        BY <1>2
      <3> QED BY <3>1
    <2> QED BY <2>1, <1>2
  <1>5. \A k \in 1..(m + (n + 1)) : (s \o a)[k] = Append(b, x)[k]
    <2> TAKE k \in 1..(m + (n + 1))
    <2> HIDE DEF m, n
    <2>0. m \in Nat /\ n \in Nat
      BY <1>1
    <2>1. CASE k <= m
      BY <2>1, <1>1, <1>2, <1>3, <1>4
    <2>2. CASE k > m /\ k <= m + n
      <3>1. k - m \in 1..n /\ k \in 1..(m + n)
        BY <2>2, <1>1
      <3> QED BY <3>1, <2>2, <1>1, <1>2, <1>3, <1>4
    <2>3. CASE k = (m + n) + 1
      <3>1. k - m = n + 1 /\ ~(k <= m)
        BY <2>3, <1>1
      <3> QED BY <3>1, <2>3, <1>1, <1>3, <1>4
    <2>4. k <= m \/ (k > m /\ k <= m + n) \/ k = (m + n) + 1
      BY <2>0
    <2> QED BY <2>1, <2>2, <2>3, <2>4
  <1>6. Len(s \o a) = Len(Append(b, x))
    BY <1>1, <1>3, <1>4
  <1>7. s \o a = Append(b, x)
    BY <1>3, <1>4, <1>5, <1>6
  <1> QED BY <1>7 DEF a, b

\* The rows of the local store from one on.
RowsOf(f, row, n) == [i \in 1..n |-> f[row + i - 1]]

\* A sequence of rows starts with its first row and goes on with those after it.
LEMMA RowsFrom ==
    ASSUME NEW f, NEW row \in Nat, NEW n \in Nat \ {0},
           \A i \in 0..(n - 1) : f[row + i] \in Value
    PROVE  /\ RowsOf(f, row, n) \in Seq(Value)
           /\ Len(RowsOf(f, row, n)) = n
           /\ RowsOf(f, row, n) # << >>
           /\ Head(RowsOf(f, row, n)) = f[row]
           /\ Tail(RowsOf(f, row, n)) = RowsOf(f, row + 1, n - 1)
  <1> DEFINE s == RowsOf(f, row, n)
             t == RowsOf(f, row + 1, n - 1)
  <1>1. \A i \in 1..n : f[row + i - 1] \in Value
    <2> TAKE i \in 1..n
    <2>1. i - 1 \in 0..(n - 1) /\ row + (i - 1) = row + i - 1
      OBVIOUS
    <2> QED BY <2>1
  <1>2. s \in Seq(Value) /\ Len(s) = n /\ \A i \in 1..n : s[i] = f[row + i - 1]
    BY <1>1 DEF RowsOf
  <1>3. \A i \in 1..(n - 1) : i + 1 \in 1..n /\ row + (i + 1) - 1 = (row + 1) + i - 1
    OBVIOUS
  <1>4. /\ t \in Seq(Value) /\ Len(t) = n - 1
        /\ \A i \in 1..(n - 1) : t[i] = f[(row + 1) + i - 1]
    BY <1>1, <1>3 DEF RowsOf
  <1> HIDE DEF s, t
  <1>5. s # << >> /\ Head(s) = s[1] /\ 1 \in 1..n
    BY <1>2
  <1>6. s[1] = f[row]
    <2>1. row + 1 - 1 = row
      OBVIOUS
    <2> QED BY <2>1, <1>2, <1>5
  <1>7. /\ Tail(s) \in Seq(Value) /\ Len(Tail(s)) = n - 1
        /\ \A i \in 1..(n - 1) : Tail(s)[i] = s[i + 1]
    <2>1. s \in Seq(Value) /\ s # << >> /\ Len(s) = n
      BY <1>2, <1>5
    <2>2. /\ Tail(s) \in Seq(Value) /\ Len(Tail(s)) = Len(s) - 1
          /\ \A i \in 1..(Len(s) - 1) : Tail(s)[i] = s[i + 1]
      BY ONLY <2>1
    <2> QED BY <2>1, <2>2
  <1>8. \A i \in 1..(n - 1) : Tail(s)[i] = t[i]
    <2> TAKE i \in 1..(n - 1)
    <2>1. i + 1 \in 1..n /\ row + (i + 1) - 1 = (row + 1) + i - 1
      BY <1>3
    <2>2. s[i + 1] = f[row + (i + 1) - 1]
      BY <2>1, <1>2
    <2> QED BY <2>1, <2>2, <1>4, <1>7
  <1>9. Tail(s) = t
    BY <1>4, <1>7, <1>8
  <1> QED BY <1>2, <1>5, <1>6, <1>9 DEF s, t

\* The views of a client that is in no transfer, and of one that is.
LEMMA ClientViews ==
    \A c \in Client :
        /\ PhaseView[c] = IF call[c].at \notin Transfers THEN "idle"
                          ELSE IF TakenPlace(c) THEN "done" ELSE "called"
        /\ call[c].at # "read" \/ ~TakenPlace(c) => MovedView[c] = << >>
        /\ call[c].at = "read" /\ TakenPlace(c) /\ io.at = "read" =>
               MovedView[c] =
                   call[c].got \o ioRead
                   \o [i \in 1..io.count |-> localStore[io.row + i - 1]]
        /\ call[c].at = "read" /\ TakenPlace(c) /\ io.at # "read" =>
               MovedView[c] = call[c].got \o ioRead \o << >>
  BY DEF PhaseView, MovedView

\* The same of the state after a step.
LEMMA ClientViewsAfter ==
    \A c \in Client :
        /\ PhaseView'[c] = IF call'[c].at \notin Transfers THEN "idle"
                           ELSE IF TakenPlace(c)' THEN "done" ELSE "called"
        /\ call'[c].at # "read" \/ ~TakenPlace(c)' => MovedView'[c] = << >>
        /\ call'[c].at = "read" /\ TakenPlace(c)' /\ io'.at = "read" =>
               MovedView'[c] =
                   call'[c].got \o ioRead'
                   \o [i \in 1..io'.count |-> localStore'[io'.row + i - 1]]
        /\ call'[c].at = "read" /\ TakenPlace(c)' /\ io'.at # "read" =>
               MovedView'[c] = call'[c].got \o ioRead' \o << >>
  BY DEF PhaseView, MovedView

\* What it means, after a step, that a transfer has taken place.
LEMMA TakenAfter ==
    \A c \in Client :
        TakenPlace(c)' <=>
            /\ call'[c].sent = Len(ItemsOf(Current(c)'))
            /\ ioWrite' = << >>
            /\ io'.at # "write"
  BY DEF TakenPlace

\* When only one client is in a transfer, the views of the others stay as they
\* are.
LEMMA OthersViews ==
    ASSUME NEW c \in Client,
           \A d \in Client \ {c} : call[d].at \notin Transfers /\ call'[d].at \notin Transfers
    PROVE  /\ PhaseView' = [PhaseView EXCEPT ![c] = PhaseView'[c]]
           /\ MovedView' = [MovedView EXCEPT ![c] = MovedView'[c]]
           /\ PhaseView'[c] = PhaseView[c] => PhaseView' = PhaseView
           /\ MovedView'[c] = MovedView[c] => MovedView' = MovedView
  <1>1. /\ DOMAIN PhaseView = Client /\ DOMAIN PhaseView' = Client
        /\ DOMAIN MovedView = Client /\ DOMAIN MovedView' = Client
        /\ PhaseView = [d \in Client |-> PhaseView[d]]
        /\ PhaseView' = [d \in Client |-> PhaseView'[d]]
        /\ MovedView = [d \in Client |-> MovedView[d]]
        /\ MovedView' = [d \in Client |-> MovedView'[d]]
    BY DEF PhaseView, MovedView
  <1>2. \A d \in Client \ {c} : PhaseView'[d] = PhaseView[d] /\ MovedView'[d] = MovedView[d]
    <2> TAKE d \in Client \ {c}
    <2>1. d \in Client /\ call[d].at \notin Transfers /\ call'[d].at \notin Transfers
      OBVIOUS
    <2>2. call[d].at # "read" /\ call'[d].at # "read"
      BY <2>1 DEF Transfers
    <2> QED BY <2>1, <2>2, ClientViews, ClientViewsAfter
  <1> DEFINE P == PhaseView
             M == MovedView
             PP == PhaseView'
             MM == MovedView'
  <1> HIDE DEF P, M, PP, MM
  <1>3. /\ PP = [P EXCEPT ![c] = PP[c]] /\ MM = [M EXCEPT ![c] = MM[c]]
        /\ PP[c] = P[c] => PP = P
        /\ MM[c] = M[c] => MM = M
    <2>1. /\ DOMAIN P = Client /\ DOMAIN PP = Client
          /\ DOMAIN M = Client /\ DOMAIN MM = Client
          /\ P = [d \in Client |-> P[d]] /\ PP = [d \in Client |-> PP[d]]
          /\ M = [d \in Client |-> M[d]] /\ MM = [d \in Client |-> MM[d]]
          /\ \A d \in Client \ {c} : PP[d] = P[d] /\ MM[d] = M[d]
      BY <1>1, <1>2 DEF P, M, PP, MM
    <2> QED BY <2>1
  <1> QED BY <1>3 DEF P, M, PP, MM

\* The rows of a read are rows that no kernel stores to.
LEMMA RowsOfRead ==
    ASSUME IInv, ReadsTransferRows, NEW c \in Client, call[c].at \in Transfers,
           Current(c).type = "read"
    PROVE  Current(c).row..(Current(c).row + Current(c).count - 1) \subseteq TransferRows
  <1>1. /\ HostOK /\ ~Finished(c) /\ Current(c) \in Requests
        /\ Current(c).type \in Transfers /\ Current(c).row + CountOf(Current(c)) <= Rows
    BY HolderFacts
  <1>2. Len(answers[c]) + 1 \in 1..Len(program[c])
    BY <1>1, CurrentFacts
  <1>3. Current(c) = program[c][Len(answers[c]) + 1]
    BY DEF Current
  <1>4. CountOf(Current(c)) = Current(c).count
    BY <1>1, TransferFacts
  <1> QED BY <1>1, <1>2, <1>3, <1>4 DEF ReadsTransferRows

\* A row that is still to be sent is one that no kernel stores to.
LEMMA RowsToSend ==
    ASSUME IInv, ReadsTransferRows, NEW c \in Client, call[c].at \in Transfers, io.at = "read"
    PROVE  /\ io.row \in Nat /\ io.count \in Nat \ {0}
           /\ \A i \in 1..io.count : io.row + i - 1 \in TransferRows
           /\ \A i \in 0..(io.count - 1) : localStore[io.row + i] \in Value
  <1> DEFINE r == Current(c)
             n == CountOf(r)
  <1>1. /\ ThreadsOK /\ r \in Requests /\ r.type \in Transfers /\ r.row + n <= Rows
    BY HolderFacts
  <1>2. Sending(r, call[c].sent, call[c].got, ioRead, io)
    BY AllTaken
  <1>3. /\ r.type = "read" /\ io.count \in 1..n /\ io.row + io.count = r.row + n
    BY <1>2 DEF Sending
  <1>4. /\ r.row \in Nat /\ n \in Nat /\ n = r.count /\ io.row \in Nat
        /\ localStore \in [0..(Rows - 1) -> Value] /\ Rows \in Nat
    BY <1>1, <1>3, TransferFacts, PipesAssumption DEF ThreadsOK, IoState
  <1>5. r.row..(r.row + r.count - 1) \subseteq TransferRows
    BY <1>3, RowsOfRead
  <1>6. \A i \in 1..io.count : io.row + i - 1 \in TransferRows
    <2> TAKE i \in 1..io.count
    <2>1. io.row + i - 1 \in r.row..(r.row + r.count - 1)
      BY SMTT(30), <1>3, <1>4
    <2> QED BY <2>1, <1>5
  <1>7. \A i \in 0..(io.count - 1) : localStore[io.row + i] \in Value
    <2> TAKE i \in 0..(io.count - 1)
    <2>1. io.row + i \in 0..(Rows - 1)
      BY <1>1, <1>3, <1>4
    <2> QED BY <2>1, <1>4
  <1>8. io.count \in Nat \ {0}
    BY <1>3, <1>4
  <1> QED BY <1>4, <1>6, <1>7, <1>8

\* A step that is none of a transfer changes none of the views: the core thread
\* stores to no row of them.
LEMMA Kept ==
    ASSUME IInv, ReadsTransferRows, UNCHANGED <<ioRead, ioWrite, io>>,
           \A row \in TransferRows : localStore'[row] = localStore[row],
           \A d \in Client :
               \/ call[d].at \notin Transfers /\ call'[d].at \notin Transfers
               \/ call'[d] = call[d] /\ Current(d)' = Current(d)
    PROVE  StoreView' = StoreView /\ PhaseView' = PhaseView /\ MovedView' = MovedView
  <1>1. StoreView' = StoreView
    BY DEF StoreView, TransferRows
  <1>2. \A d \in Client :
            PhaseView'[d] = PhaseView[d] /\ MovedView'[d] = MovedView[d]
    <2> TAKE d \in Client
    <2>1. CASE call[d].at \notin Transfers /\ call'[d].at \notin Transfers
      <3>1. call[d].at # "read" /\ call'[d].at # "read"
        BY <2>1 DEF Transfers
      <3> QED BY <2>1, <3>1, ClientViews, ClientViewsAfter
    <2>2. CASE call[d].at \in Transfers /\ call'[d] = call[d] /\ Current(d)' = Current(d)
      <3>1. TakenPlace(d)' <=> TakenPlace(d)
        BY <2>2, TakenAfter DEF TakenPlace
      <3>2. PhaseView'[d] = PhaseView[d]
        BY <2>2, <3>1, ClientViews, ClientViewsAfter
      <3>3. CASE io.at = "read"
        <4>1. \A i \in 1..io.count : localStore'[io.row + i - 1] = localStore[io.row + i - 1]
          BY <2>2, <3>3, RowsToSend
        <4>2. [i \in 1..io.count |-> localStore'[io.row + i - 1]]
                  = [i \in 1..io.count |-> localStore[io.row + i - 1]]
          BY <4>1
        <4>3. [i \in 1..io'.count |-> localStore'[io'.row + i - 1]]
                  = [i \in 1..io.count |-> localStore[io.row + i - 1]]
          BY <4>2
        <4>4. call'[d] = call[d] /\ io' = io /\ ioRead' = ioRead
          BY <2>2
        <4>5. CASE call[d].at = "read" /\ TakenPlace(d)
          <5>1. MovedView[d] = call[d].got \o ioRead
                               \o [i \in 1..io.count |-> localStore[io.row + i - 1]]
            BY <4>5, <3>3, ClientViews
          <5>2. MovedView'[d] = call'[d].got \o ioRead'
                               \o [i \in 1..io'.count |-> localStore'[io'.row + i - 1]]
            BY <4>5, <4>4, <3>1, <3>3, ClientViewsAfter
          <5> QED BY <5>1, <5>2, <4>3, <4>4, <3>2
        <4>6. CASE ~(call[d].at = "read" /\ TakenPlace(d))
          BY <4>6, <4>4, <3>1, <3>2, ClientViews, ClientViewsAfter
        <4> QED BY <4>5, <4>6
      <3>4. CASE io.at # "read"
        BY <2>2, <3>1, <3>2, <3>4, ClientViews, ClientViewsAfter
      <3> QED BY <3>3, <3>4
    <2> QED BY <2>1, <2>2
  <1>3. /\ PhaseView = [d \in Client |-> PhaseView[d]]
        /\ PhaseView' = [d \in Client |-> PhaseView'[d]]
        /\ MovedView = [d \in Client |-> MovedView[d]]
        /\ MovedView' = [d \in Client |-> MovedView'[d]]
    BY DEF PhaseView, MovedView
  <1> QED BY <1>1, <1>2, <1>3

\* A call that is none of a transfer returns or throws.
LEMMA OtherCallRefined ==
    ASSUME IInv, NEW c \in Client, ~Finished(c),
           call[c].at \notin Transfers, Current(c).type \notin Transfers,
           NEW a \in Answered, Answer(c, a), UNCHANGED program,
           StoreView' = StoreView, PhaseView' = PhaseView, MovedView' = MovedView
    PROVE  Atomic!Step
  <1>1. HostOK /\ Len(answers[c]) \in Nat /\ Len(answers[c]) + 1 <= Len(program[c])
        /\ Len(program[c]) \in Nat
    BY CurrentFacts DEF IInv, TypeOK
  <1>2. PhaseView[c] = "idle"
    BY ClientViews
  <1>3. /\ answers \in [Client -> Seq(Answered)]
        /\ answers' = [answers EXCEPT ![c] = Append(@, a)]
    BY <1>1 DEF HostOK, Answer
  <1>4. answers'[c] = Append(answers[c], a) /\ answers[c] \in Seq(Answered)
    BY <1>3
  <1>5. Len(answers'[c]) = Len(answers[c]) + 1 /\ answers'[c][Len(answers[c]) + 1] = a
    BY <1>4
  <1>6. answers' = [answers EXCEPT ![c] = Append(@, answers'[c][Len(@) + 1])]
    BY <1>3, <1>5
  <1>7. Atomic!Next(c)
    BY <1>1, <1>2 DEF Atomic!Next
  <1>8. Atomic!Current(c).type \notin {"write", "read"}
    BY DEF Atomic!Current, Current, Transfers
  <1>9. Atomic!OtherCall(c)
    BY <1>5, <1>6, <1>7, <1>8 DEF Atomic!OtherCall
  <1> QED BY <1>9 DEF Atomic!Step

\* The calls of kernels and reductions.
LEMMA OtherStepRefined ==
    ASSUME IInv, ReadsTransferRows, NEW c \in Client, UNCHANGED threadVars,
           \/ Execute(c) \/ SendWord(c) \/ ExecuteReturns(c)
           \/ Reduce(c) \/ ReceiveResult(c) \/ ReduceReturns(c)
    PROVE  [Atomic!Step]_(Atomic!atomicVars)
  <1>1. /\ UNCHANGED <<program, ioRead, ioWrite, io, localStore>>
        /\ call[c].at \notin Transfers
    BY DEF Execute, SendWord, ExecuteReturns, Reduce, ReceiveResult, ReduceReturns,
           BrokenPipe, Calls, Within, Transfers, pipeVars, threadVars
  <1>2. HostOK /\ call \in [Client -> CallState]
    BY DEF IInv, TypeOK, HostOK
  <1>3. Idle.at \notin Transfers
    BY DEF Idle, Transfers
  <1>4. ASSUME \A d \in Client \ {c} : call'[d] = call[d] /\ answers'[d] = answers[d],
               call'[c].at \notin Transfers
        PROVE  StoreView' = StoreView /\ PhaseView' = PhaseView /\ MovedView' = MovedView
    <2>1. \A d \in Client :
              \/ call[d].at \notin Transfers /\ call'[d].at \notin Transfers
              \/ call'[d] = call[d] /\ Current(d)' = Current(d)
      BY <1>1, <1>4 DEF Current
    <2> QED BY <2>1, <1>1, Kept
  <1>5. ASSUME UNCHANGED answers, \A d \in Client \ {c} : call'[d] = call[d],
               call'[c].at \notin Transfers
        PROVE  [Atomic!Step]_(Atomic!atomicVars)
    <2>1. StoreView' = StoreView /\ PhaseView' = PhaseView /\ MovedView' = MovedView
      BY <1>4, <1>5
    <2> QED BY <2>1, <1>1, <1>5 DEF Atomic!atomicVars
  <1>6. ASSUME ~Finished(c), Current(c).type \notin Transfers,
               NEW a \in Answered, Answer(c, a)
        PROVE  [Atomic!Step]_(Atomic!atomicVars)
    <2>1. call'[c] = Idle /\ \A d \in Client \ {c} : call'[d] = call[d] /\ answers'[d] = answers[d]
      BY <1>2, <1>6, AnswerFacts
    <2>2. StoreView' = StoreView /\ PhaseView' = PhaseView /\ MovedView' = MovedView
      BY <2>1, <1>3, <1>4
    <2> QED BY <2>2, <1>1, <1>6, OtherCallRefined
  <1>7. ASSUME ~Finished(c), call[c].at = "idle", Enter(c), UNCHANGED answers,
               Current(c).type \notin Transfers
        PROVE  [Atomic!Step]_(Atomic!atomicVars)
    <2>1. call[c] = Idle
      BY <1>7 DEF IInv, Calling
    <2>2. /\ call'[c] = [at |-> Current(c).type, sent |-> 0, got |-> << >>]
          /\ \A d \in Client \ {c} : call'[d] = call[d]
      BY <2>1, <1>2, <1>7, EnterFacts
    <2>3. call'[c].at \notin Transfers
      BY <2>2, <1>7
    <2> QED BY <2>2, <2>3, <1>5, <1>7
  <1>8. CASE Execute(c)
    <2>1. /\ call[c].at = "idle" /\ ~Finished(c) /\ Current(c).type \notin Transfers
      BY <1>8 DEF Execute, Calls, Transfers
    <2>2. CASE Current(c).kernel \in DOMAIN Kernels
      <3>1. Enter(c) /\ UNCHANGED answers
        BY <2>2, <1>8 DEF Execute
      <3> QED BY <3>1, <2>1, <1>7
    <2>3. CASE Current(c).kernel \notin DOMAIN Kernels
      <3>1. Answer(c, Threw) /\ Threw \in Answered
        BY <2>3, <1>8 DEF Execute, Threw, Answered
      <3> QED BY <3>1, <2>1, <1>6
    <2> QED BY <2>2, <2>3
  <1>9. CASE SendWord(c)
    <2>1. UNCHANGED answers
      BY <1>9 DEF SendWord, BrokenPipe
    <2>2. (\A d \in Client \ {c} : call'[d] = call[d]) /\ call'[c].at = call[c].at
      <3>1. \/ UNCHANGED call
            \/ call' = [call EXCEPT ![c] = [call[c] EXCEPT !.sent = @ + 1]]
        BY <1>9 DEF SendWord, BrokenPipe
      <3>2. [call[c] EXCEPT !.sent = @ + 1].at = call[c].at
        BY <1>2 DEF CallState
      <3> QED BY <3>1, <3>2, <1>2
    <2> QED BY <2>1, <2>2, <1>1, <1>5
  <1>10. CASE ExecuteReturns(c) \/ ReduceReturns(c)
    <2>1. /\ ~Finished(c) /\ Current(c).type = call[c].at
      BY <1>10 DEF ExecuteReturns, ReduceReturns, Within, IInv, Calling
    <2>2. << >> \in Seq(Value) /\ call[c].got \in Seq(Value)
      BY <1>2 DEF CallState
    <2>3. PICK data \in Seq(Value) : Answer(c, Returned(data))
      BY <2>2, <1>10 DEF ExecuteReturns, ReduceReturns
    <2>4. Returned(data) \in Answered
      BY DEF Returned, Answered
    <2> QED BY <2>1, <2>3, <2>4, <1>1, <1>6
  <1>11. CASE Reduce(c)
    <2>1. /\ call[c].at = "idle" /\ ~Finished(c) /\ Enter(c) /\ UNCHANGED answers
          /\ Current(c).type \notin Transfers
      BY <1>11 DEF Reduce, Calls, Transfers
    <2> QED BY <2>1, <1>7
  <1>12. CASE ReceiveResult(c)
    <2>1. UNCHANGED answers
          /\ call' = [call EXCEPT ![c] = [call[c] EXCEPT !.got = Append(@, Head(reduction))]]
      BY <1>12 DEF ReceiveResult
    <2>2. [call[c] EXCEPT !.got = Append(@, Head(reduction))].at = call[c].at
      BY <1>2 DEF CallState
    <2>3. (\A d \in Client \ {c} : call'[d] = call[d]) /\ call'[c].at = call[c].at
      BY <2>1, <2>2, <1>2
    <2> QED BY <2>1, <2>3, <1>1, <1>5
  <1> QED BY <1>8, <1>9, <1>10, <1>11, <1>12

\* What the core thread stores goes into none of the rows of transfers.
LEMMA CoreRefined ==
    ASSUME IInv, ReadsTransferRows, CoreStep, UNCHANGED hostVars
    PROVE  [Atomic!Step]_(Atomic!atomicVars)
  <1>1. UNCHANGED <<ioWrite, ioRead, io>>
    BY DEF CoreStep, Vload, Iread, Iwrite, Red, Report, Throw, threadVars
  <1>2. UNCHANGED <<program, answers, call>>
    BY DEF hostVars
  <1>3. \A row \in TransferRows : localStore'[row] = localStore[row]
    <2>1. CASE Iwrite
      <3> DEFINE word == Head(distribution)
      <3>1. PipesOK /\ Distributing /\ Fetch("IWRITE")
            /\ localStore' = [localStore EXCEPT ![word.arg] = register]
            /\ localStore \in [0..(Rows - 1) -> Value]
        BY <2>1 DEF IInv, TypeOK, ThreadsOK, Iwrite
      <3>2. /\ word \in Word /\ word.op = "IWRITE"
            /\ \E name \in DOMAIN Kernels : word \in ToSet(Kernels[name])
        BY <3>1, FetchFacts
      <3> HIDE DEF word
      <3>3. word = Instr("IWRITE", word.arg)
        BY <3>2 DEF Word, Instr
      <3>4. word.arg \notin TransferRows
        BY <3>2, <3>3 DEF TransferRows
      <3>5. TransferRows \subseteq 0..(Rows - 1)
        BY DEF TransferRows
      <3> QED BY <3>1, <3>4, <3>5
    <2>2. CASE ~Iwrite
      BY <2>2 DEF CoreStep, Vload, Iread, Red, Report, Throw, threadVars
    <2> QED BY <2>1, <2>2
  <1>4. \A d \in Client : call'[d] = call[d] /\ Current(d)' = Current(d)
    BY <1>2 DEF Current
  <1>5. StoreView' = StoreView /\ PhaseView' = PhaseView /\ MovedView' = MovedView
    BY <1>1, <1>3, <1>4, Kept
  <1> QED BY <1>2, <1>5 DEF Atomic!atomicVars

\* A process that ends changes nothing that the transfers have.
LEMMA HostEndsRefined ==
    ASSUME IInv, ReadsTransferRows, UNCHANGED threadVars,
           UNCHANGED <<program, answers, call, pipeVars>>
    PROVE  [Atomic!Step]_(Atomic!atomicVars)
  <1>1. UNCHANGED <<ioWrite, ioRead, io, localStore>>
    BY DEF pipeVars, threadVars
  <1>2. \A d \in Client : call'[d] = call[d] /\ Current(d)' = Current(d)
    BY DEF Current
  <1>3. StoreView' = StoreView /\ PhaseView' = PhaseView /\ MovedView' = MovedView
    BY <1>1, <1>2, Kept
  <1> QED BY <1>3 DEF Atomic!atomicVars

\* A thread that gets threadMutex has called; nothing has been moved.
LEMMA StartTransferRefined ==
    ASSUME IInv, ReadsTransferRows, NEW c \in Client, StartTransfer(c), UNCHANGED threadVars
    PROVE  [Atomic!Step]_(Atomic!atomicVars)
  <1>1. /\ HostOK /\ ~Finished(c) /\ call[c].at = "idle" /\ call[c] = Idle
        /\ Current(c).type \in Transfers /\ threadMutex = NoClient
    BY DEF StartTransfer, Calls, IInv, TypeOK, Calling
  <1>2. CASE Current(c).row + CountOf(Current(c)) <= Rows
    <2>1. /\ Enter(c) /\ UNCHANGED <<program, answers, pipeVars>>
      BY <1>2 DEF StartTransfer
    <2>2. /\ call'[c] = [at |-> Current(c).type, sent |-> 0, got |-> << >>]
          /\ \A d \in Client \ {c} : call'[d] = call[d]
      BY <2>1, <1>1, EnterFacts
    <2>3. /\ call'[c].at \in Transfers /\ call'[c].sent = 0
      BY <2>2, <1>1
    <2>4. \A d \in Client : call[d].at \notin Transfers
      BY <1>1, ClientAssumption DEF IInv, Locked
    <2>5. \A d \in Client \ {c} : call[d].at \notin Transfers /\ call'[d].at \notin Transfers
      BY <2>2, <2>4
    <2>6. ~TakenPlace(c)'
      <3>1. Current(c)' = Current(c)
        BY <2>1 DEF Current
      <3>2. Current(c) \in Requests
        BY <1>1, CurrentFacts
      <3>3. Len(ItemsOf(Current(c))) = ItemCount(Current(c))
        BY <1>1, <1>2, <3>2, ItemFacts
      <3>4. ItemCount(Current(c)) # 0
        BY <1>1, <3>2, TransferFacts
      <3> QED BY <2>3, <3>1, <3>3, <3>4, TakenAfter
    <2>7. StoreView' = StoreView
      <3>1. UNCHANGED <<io, localStore>>
        BY DEF threadVars
      <3> QED BY <3>1 DEF StoreView, TransferRows
    <2>8. PhaseView'[c] = "called" /\ MovedView'[c] = << >>
      BY <2>3, <2>6, ClientViewsAfter
    <2>9. PhaseView[c] = "idle" /\ MovedView[c] = << >>
      <3>1. call[c].at # "read"
        BY <1>1
      <3> QED BY <3>1, <2>4, ClientViews
    <2>10. PhaseView' = [PhaseView EXCEPT ![c] = "called"] /\ MovedView' = MovedView
      BY <2>5, <2>8, <2>9, OthersViews
    <2>11. Atomic!Next(c)
      <3>1. Len(answers[c]) \in Nat /\ Len(program[c]) \in Nat
            /\ Len(answers[c]) + 1 <= Len(program[c])
        BY <1>1, CurrentFacts
      <3> QED BY <3>1, <2>9 DEF Atomic!Next
    <2>12. Atomic!Current(c).type \in {"write", "read"}
      BY <1>1 DEF Atomic!Current, Current, Transfers
    <2>13. Atomic!Start(c)
      BY <2>1, <2>7, <2>10, <2>11, <2>12 DEF Atomic!Start
    <2> QED BY <2>13 DEF Atomic!Step
  <1>3. CASE ~(Current(c).row + CountOf(Current(c)) <= Rows)
    <2>1. UNCHANGED <<program, answers, call, pipeVars>>
      BY <1>3 DEF StartTransfer
    <2> QED BY <2>1, HostEndsRefined
  <1> QED BY <1>2, <1>3

\* When a transfer has taken place.
LEMMA TakenPlaceMeans ==
    ASSUME IInv, NEW c \in Client, call[c].at \in Transfers
    PROVE  /\ TakenPlace(c) <=>
                  call[c].sent = ItemCount(Current(c)) /\ ioWrite = << >> /\ io.at # "write"
           /\ Current(c)' = Current(c) =>
                  (TakenPlace(c)' <=>
                      /\ call'[c].sent = ItemCount(Current(c))
                      /\ ioWrite' = << >>
                      /\ io'.at # "write")
  <1>1. Len(ItemsOf(Current(c))) = ItemCount(Current(c))
    BY HolderFacts
  <1> QED BY <1>1, TakenAfter DEF TakenPlace

\* An item on its way is not yet a transfer.
LEMMA SendItemRefined ==
    ASSUME IInv, ReadsTransferRows, NEW c \in Client, SendItem(c), UNCHANGED threadVars
    PROVE  [Atomic!Step]_(Atomic!atomicVars)
  <1>1. CASE BrokenPipe
    BY <1>1, HostEndsRefined DEF BrokenPipe
  <1>2. CASE ~BrokenPipe
    <2>1. /\ call[c].at \in Transfers
          /\ call[c].sent < Len(ItemsOf(Current(c)))
          /\ ioWrite' = Append(ioWrite, ItemsOf(Current(c))[call[c].sent + 1])
          /\ call' = [call EXCEPT ![c].sent = @ + 1]
          /\ UNCHANGED <<program, answers, io, localStore>>
      BY <1>2 DEF SendItem, Within, threadVars
    <2>2. /\ HostOK /\ PipesOK /\ call[c] \in CallState /\ call \in [Client -> CallState]
          /\ Len(ItemsOf(Current(c))) = ItemCount(Current(c)) /\ call[c].sent \in Nat
          /\ Current(c) \in Requests /\ Current(c).type \in Transfers
          /\ Current(c).row + CountOf(Current(c)) <= Rows
          /\ \A d \in Client \ {c} : call[d].at \notin Transfers
      BY <2>1, HolderFacts DEF HostOK
    <2>3. call'[c].at = call[c].at /\ \A d \in Client \ {c} : call'[d] = call[d]
      <3>1. call' = [call EXCEPT ![c] = [call[c] EXCEPT !.sent = @ + 1]]
        BY <2>1
      <3>2. [call[c] EXCEPT !.sent = @ + 1].at = call[c].at
        BY <2>2 DEF CallState
      <3> QED BY <3>1, <3>2, <2>2
    <2>4. \A d \in Client \ {c} : call[d].at \notin Transfers /\ call'[d].at \notin Transfers
      BY <2>2, <2>3
    <2>5. ioWrite' # << >>
      <3>1. ioWrite \in Seq(Item)
        BY <2>2 DEF PipesOK
      <3> DEFINE item == ItemsOf(Current(c))[call[c].sent + 1]
      <3>2. item \in Item
        <4>1. ItemsOf(Current(c)) \in Seq(Item)
          BY <2>2, ItemFacts
        <4>2. call[c].sent + 1 \in 1..Len(ItemsOf(Current(c)))
          BY <2>1, <2>2, TransferFacts
        <4> QED BY <4>1, <4>2
      <3> HIDE DEF item
      <3>3. Len(Append(ioWrite, item)) = Len(ioWrite) + 1 /\ Len(ioWrite) \in Nat
        BY <3>1, <3>2
      <3>4. Len(ioWrite') # 0
        BY <2>1, <3>3 DEF item
      <3> QED BY <3>4
    <2>6. ~TakenPlace(c) /\ ~TakenPlace(c)'
      <3>1. ItemCount(Current(c)) \in Nat
        BY <2>2, TransferFacts
      <3> QED BY <2>1, <2>2, <2>5, <3>1, TakenAfter DEF TakenPlace
    <2>7. StoreView' = StoreView
      BY <2>1 DEF StoreView, TransferRows
    <2>8. PhaseView'[c] = PhaseView[c] /\ MovedView'[c] = MovedView[c]
      BY <2>3, <2>6, ClientViews, ClientViewsAfter
    <2>9. PhaseView' = PhaseView /\ MovedView' = MovedView
      BY <2>4, <2>8, OthersViews
    <2> QED BY <2>1, <2>7, <2>9 DEF Atomic!atomicVars
  <1> QED BY <1>1, <1>2

\* What a read has got and what is on its way are the same rows, whoever has
\* them.
LEMMA ReceiveItemRefined ==
    ASSUME IInv, NEW c \in Client, ReceiveItem(c), UNCHANGED threadVars
    PROVE  [Atomic!Step]_(Atomic!atomicVars)
  <1> DEFINE got == call[c].got
  <1>1. /\ call[c].at \in Transfers /\ ioRead # << >>
        /\ call' = [call EXCEPT ![c].got = Append(@, Head(ioRead))]
        /\ ioRead' = Tail(ioRead)
        /\ UNCHANGED <<program, answers, ioWrite, io, localStore>>
    BY DEF ReceiveItem, Within, threadVars
  <1>2. /\ HostOK /\ PipesOK /\ call[c] \in CallState /\ call \in [Client -> CallState]
        /\ got \in Seq(Value) /\ ioRead \in Seq(Value)
        /\ \A d \in Client \ {c} : call[d].at \notin Transfers
    BY <1>1, HolderFacts DEF HostOK, PipesOK
  <1>3. /\ call'[c].at = call[c].at /\ call'[c].sent = call[c].sent
        /\ call'[c].got = Append(got, Head(ioRead))
        /\ \A d \in Client \ {c} : call'[d] = call[d]
    <2> DEFINE new == [call[c] EXCEPT !.got = Append(got, Head(ioRead))]
    <2>1. call' = [call EXCEPT ![c] = new]
      BY <1>1
    <2>2. new.at = call[c].at /\ new.sent = call[c].sent
          /\ new.got = Append(got, Head(ioRead))
      BY <1>2 DEF CallState
    <2> HIDE DEF new
    <2> QED BY <2>1, <2>2, <1>2
  <1>4. call'[c].got \o ioRead' = got \o ioRead
    <2> HIDE DEF got
    <2>1. got \in Seq(Value) /\ ioRead \in Seq(Value) /\ ioRead # << >>
      BY <1>1, <1>2
    <2>2. Append(got, Head(ioRead)) \o Tail(ioRead) = got \o ioRead
      BY <2>1, Shifted
    <2> QED BY <2>2, <1>1, <1>3
  <1>5. TakenPlace(c)' <=> TakenPlace(c)
    <2>1. Current(c)' = Current(c)
      BY <1>1 DEF Current
    <2> QED BY <2>1, <1>1, <1>3, TakenAfter DEF TakenPlace
  <1>6. PhaseView'[c] = PhaseView[c]
    BY <1>3, <1>5, ClientViews, ClientViewsAfter
  <1>7. MovedView'[c] = MovedView[c]
    <2>1. CASE ~(call[c].at = "read" /\ TakenPlace(c))
      BY <2>1, <1>3, <1>5, ClientViews, ClientViewsAfter
    <2>2. CASE call[c].at = "read" /\ TakenPlace(c) /\ io.at = "read"
      <3> DEFINE F == [i \in 1..io.count |-> localStore[io.row + i - 1]]
                 G == [i \in 1..io'.count |-> localStore'[io'.row + i - 1]]
      <3>1. F = G
        BY <1>1
      <3>2. MovedView[c] = got \o ioRead \o F
        BY <2>2, ClientViews
      <3>3. io'.at = "read"
        BY <2>2, <1>1
      <3>4. MovedView'[c] = call'[c].got \o ioRead' \o G
        BY <2>2, <3>3, <1>3, <1>5, ClientViewsAfter
      <3> HIDE DEF F, G
      <3> QED BY <3>1, <3>2, <3>4, <1>4
    <2>3. CASE call[c].at = "read" /\ TakenPlace(c) /\ io.at # "read"
      <3>1. MovedView[c] = got \o ioRead \o << >>
        BY <2>3, ClientViews
      <3>2. io'.at # "read"
        BY <2>3, <1>1
      <3>3. MovedView'[c] = call'[c].got \o ioRead' \o << >>
        BY <2>3, <3>2, <1>3, <1>5, ClientViewsAfter
      <3> QED BY <3>1, <3>3, <1>4
    <2> QED BY <2>1, <2>2, <2>3
  <1>8. StoreView' = StoreView
    BY <1>1 DEF StoreView, TransferRows
  <1>9. \A d \in Client \ {c} : call[d].at \notin Transfers /\ call'[d].at \notin Transfers
    BY <1>2, <1>3
  <1>10. PhaseView' = PhaseView /\ MovedView' = MovedView
    BY <1>6, <1>7, <1>9, OthersViews
  <1> QED BY <1>1, <1>8, <1>10 DEF Atomic!atomicVars

\* A read returns what it has moved.
LEMMA TransferReturnsRefined ==
    ASSUME IInv, NEW c \in Client, TransferReturns(c), UNCHANGED threadVars
    PROVE  [Atomic!Step]_(Atomic!atomicVars)
  <1> DEFINE data == IF Current(c).type = "read" THEN call[c].got ELSE << >>
  <1>1. /\ call[c].at \in Transfers /\ call[c].sent = Len(ItemsOf(Current(c)))
        /\ Answer(c, Returned(data))
        /\ UNCHANGED <<program, io, localStore>>
    BY DEF TransferReturns, Within, threadVars
  <1>2. /\ HostOK /\ ~Finished(c) /\ Current(c).type = call[c].at
        /\ call[c].got \in Seq(Value)
        /\ \A d \in Client \ {c} : call[d].at \notin Transfers
    BY <1>1, HolderFacts
  <1>3. ioWrite = << >> /\ ioRead = << >> /\ io = Waiting
    BY TransferEnds
  <1>4. io.at = "idle"
    BY <1>3 DEF Waiting
  <1>5. TakenPlace(c)
    BY <1>1, <1>3, <1>4 DEF TakenPlace
  <1>6. PhaseView[c] = "done"
    BY <1>1, <1>5, ClientViews
  <1>7. MovedView[c] = data
    <2>1. CASE call[c].at = "read"
      <3>1. MovedView[c] = call[c].got \o ioRead \o << >>
        BY <2>1, <1>4, <1>5, ClientViews
      <3>2. call[c].got \o << >> = call[c].got
        BY <1>2
      <3> QED BY <2>1, <3>1, <3>2, <1>2, <1>3
    <2>2. CASE call[c].at # "read"
      BY <2>2, <1>2, ClientViews
    <2> QED BY <2>1, <2>2
  <1>8. Returned(data) \in Answered
    BY <1>2 DEF Returned, Answered
  <1> HIDE DEF data
  <1>9. /\ call'[c] = Idle
        /\ \A d \in Client \ {c} : call'[d] = call[d]
        /\ answers' = [answers EXCEPT ![c] = Append(@, Returned(data))]
    BY <1>1, <1>2, <1>8, AnswerFacts DEF Answer
  <1>10. call'[c].at = "idle"
    BY <1>9 DEF Idle
  <1>11. PhaseView'[c] = "idle" /\ MovedView'[c] = << >>
    BY <1>10, ClientViewsAfter DEF Transfers
  <1>12. \A d \in Client \ {c} : call[d].at \notin Transfers /\ call'[d].at \notin Transfers
    BY <1>2, <1>9
  <1>13. /\ PhaseView' = [PhaseView EXCEPT ![c] = "idle"]
         /\ MovedView' = [MovedView EXCEPT ![c] = << >>]
    BY <1>11, <1>12, OthersViews
  <1>14. StoreView' = StoreView
    BY <1>1 DEF StoreView, TransferRows
  <1>15. answers' = [answers EXCEPT ![c] =
                        Append(@, [outcome |-> "returned", data |-> MovedView[c]])]
    BY <1>7, <1>9 DEF Returned
  <1>16. Atomic!Return(c)
    BY <1>1, <1>6, <1>13, <1>14, <1>15 DEF Atomic!Return
  <1> QED BY <1>16 DEF Atomic!Step

\* A step of the I/O thread leaves the calls as they are.
LEMMA IoViews ==
    ASSUME IInv, NEW c \in Client, call[c].at \in Transfers, UNCHANGED hostVars
    PROVE  /\ UNCHANGED <<program, answers, call>>
           /\ Current(c)' = Current(c)
           /\ Current(c).type = call[c].at
           /\ TakenPlace(c) <=>
                  call[c].sent = ItemCount(Current(c)) /\ ioWrite = << >> /\ io.at # "write"
           /\ TakenPlace(c)' <=>
                  call[c].sent = ItemCount(Current(c)) /\ ioWrite' = << >> /\ io'.at # "write"
           /\ PhaseView' = [PhaseView EXCEPT ![c] = PhaseView'[c]]
           /\ MovedView' = [MovedView EXCEPT ![c] = MovedView'[c]]
           /\ PhaseView'[c] = PhaseView[c] => PhaseView' = PhaseView
           /\ MovedView'[c] = MovedView[c] => MovedView' = MovedView
  <1>1. UNCHANGED <<program, answers, call>>
    BY DEF hostVars
  <1>2. Current(c)' = Current(c)
    BY <1>1 DEF Current
  <1>3. \A d \in Client \ {c} : call[d].at \notin Transfers /\ call'[d].at \notin Transfers
    BY <1>1, HolderFacts
  <1>4. Current(c).type = call[c].at
    BY HolderFacts
  <1> QED BY <1>1, <1>2, <1>3, <1>4, TakenPlaceMeans, OthersViews

\* The descriptor of a read: that is when the read takes place.
LEMMA ReceiveRefined ==
    ASSUME IInv, ReadsTransferRows, Receive, UNCHANGED hostVars
    PROVE  [Atomic!Step]_(Atomic!atomicVars)
  <1>1. /\ io.at = "idle" /\ ioWrite # << >> /\ ioWrite' = Tail(ioWrite)
        /\ UNCHANGED <<localStore, ioRead>>
    BY DEF Receive
  <1>2. PICK c \in Client : call[c].at \in Transfers
    BY <1>1, SomeHolder
  <1> DEFINE r == Current(c)
             n == CountOf(r)
  <1>3. /\ PipesOK /\ ThreadsOK /\ r \in Requests /\ r.type \in Transfers
        /\ r.row + n <= Rows /\ call[c].sent \in Nat
        /\ Moving(r, call[c].sent, call[c].got, ioWrite, ioRead, io)
    BY <1>2, HolderFacts
  <1>4. IInv' /\ UNCHANGED <<program, answers, call>> /\ Current(c)' = r
    BY <1>2, IoViews, ReceiveInv
  <1>5. io' = [at |-> r.type, row |-> r.row, count |-> n, rows |-> << >>]
        /\ call[c].sent - Len(ioWrite') = 1 /\ ioRead = << >> /\ call[c].got = << >>
    BY <1>2, ReceiveFacts
  <1>6. ~TakenPlace(c) /\ PhaseView[c] = "called" /\ MovedView[c] = << >>
    <2>1. ~TakenPlace(c)
      BY <1>1 DEF TakenPlace
    <2> QED BY <2>1, <1>2, ClientViews
  <1>7. StoreView = [row \in TransferRows |-> localStore[row]]
    BY <1>1 DEF StoreView
  <1>8. StoreView' = StoreView
    <2>1. io'.at # "store"
      BY <1>3, <1>5 DEF Transfers
    <2> QED BY <2>1, <1>1 DEF StoreView, TransferRows
  <1>9. CASE r.type = "write"
    <2>1. io'.at = "write"
      BY <1>5, <1>9
    <2>2. ~TakenPlace(c)'
      BY <2>1, <1>2, IoViews
    <2>3. PhaseView'[c] = PhaseView[c] /\ MovedView'[c] = MovedView[c]
      BY <2>2, <1>2, <1>4, <1>6, ClientViewsAfter
    <2>4. PhaseView' = PhaseView /\ MovedView' = MovedView
      BY <2>3, <1>2, IoViews
    <2> QED BY <2>4, <1>4, <1>8 DEF Atomic!atomicVars
  <1>10. CASE r.type = "read"
    <2>1. io'.at = "read" /\ io'.row = r.row /\ io'.count = n
      BY <1>5, <1>10
    <2>2. /\ call[c].sent = ItemCount(r) /\ ioWrite' = << >>
      <3>1. ItemCount(r) = 1
        BY <1>10 DEF ItemCount
      <3>2. call[c].sent \in 0..1
        BY <1>3, <3>1 DEF Moving
      <3>3. ioWrite' \in Seq(Item) /\ Len(ioWrite') \in Nat
        <4>1. PipesOK'
          BY <1>4 DEF IInv, TypeOK
        <4> QED BY <4>1 DEF PipesOK
      <3>4. Len(ioWrite') = 0 /\ call[c].sent = 1
        BY <1>5, <3>2, <3>3
      <3> QED BY <3>1, <3>3, <3>4
    <2>3. TakenPlace(c)'
      BY <2>1, <2>2, <1>2, IoViews
    <2>4. call'[c].at = "read"
      BY <1>2, <1>4, <1>10, IoViews
    <2>5. PhaseView'[c] = "done"
      BY <2>3, <2>4, ClientViewsAfter DEF Transfers
    <2> DEFINE F == [i \in 1..n |-> localStore[r.row + i - 1]]
    <2>6. /\ n \in Nat \ {0} /\ r.row \in Nat /\ n = r.count
          /\ localStore \in [0..(Rows - 1) -> Value] /\ Rows \in Nat
      BY <1>3, <1>10, TransferFacts, PipesAssumption DEF ThreadsOK
    <2>7. F \in Seq(Value)
      <3>1. \A i \in 0..(n - 1) : r.row + i \in 0..(Rows - 1)
        BY <2>6, <1>3
      <3>2. \A i \in 0..(n - 1) : localStore[r.row + i] \in Value
        BY <3>1, <2>6
      <3>3. RowsOf(localStore, r.row, n) \in Seq(Value)
        BY <3>2, <2>6, RowsFrom
      <3> QED BY <3>3 DEF RowsOf
    <2>8. MovedView'[c] = F
      <3> DEFINE G == [i \in 1..io'.count |-> localStore'[io'.row + i - 1]]
      <3>1. G = F
        BY <1>1, <2>1
      <3>2. MovedView'[c] = call'[c].got \o ioRead' \o G
        BY <2>1, <2>3, <2>4, ClientViewsAfter
      <3>3. call'[c].got = << >> /\ ioRead' = << >>
        BY <1>1, <1>4, <1>5
      <3> HIDE DEF F, G
      <3>4. << >> \o << >> \o F = F
        BY <2>7
      <3> QED BY <3>1, <3>2, <3>3, <3>4
    <2>9. F = [i \in 1..r.count |-> StoreView[r.row + i - 1]]
      <3>1. \A i \in 1..r.count : r.row + i - 1 \in TransferRows
        <4>1. r.row..(r.row + r.count - 1) \subseteq TransferRows
          BY <1>2, <1>10, RowsOfRead
        <4>2. \A i \in 1..r.count : r.row + i - 1 \in r.row..(r.row + r.count - 1)
          BY <2>6
        <4> QED BY <4>1, <4>2
      <3>2. \A i \in 1..r.count : StoreView[r.row + i - 1] = localStore[r.row + i - 1]
        BY <3>1, <1>7
      <3> QED BY <3>2, <2>6
    <2>10. /\ PhaseView' = [PhaseView EXCEPT ![c] = "done"]
           /\ MovedView' = [MovedView EXCEPT ![c] =
                               [i \in 1..r.count |-> StoreView[r.row + i - 1]]]
      BY <2>5, <2>8, <2>9, <1>2, IoViews
    <2>11. Atomic!Current(c) = r
      BY DEF Atomic!Current, Current
    <2>12. Atomic!Read(c)
      BY <2>10, <2>11, <1>4, <1>6, <1>8, <1>10 DEF Atomic!Read
    <2> QED BY <2>12 DEF Atomic!Step
  <1> QED BY <1>3, <1>9, <1>10 DEF Transfers

\* The last row of a write: that is when the write takes place, all its rows
\* together, although none is in the local store yet.
LEMMA CollectRefined ==
    ASSUME IInv, ReadsTransferRows, Collect, UNCHANGED hostVars
    PROVE  [Atomic!Step]_(Atomic!atomicVars)
  <1>1. /\ io.at = "write" /\ ioWrite # << >> /\ ioWrite' = Tail(ioWrite)
        /\ UNCHANGED <<localStore, ioRead>>
    BY DEF Collect
  <1>2. PICK c \in Client : call[c].at \in Transfers
    BY <1>1, SomeHolder
  <1> DEFINE r == Current(c)
             taken == call[c].sent - Len(ioWrite)
             n == CountOf(r)
  <1>3. /\ PipesOK /\ r \in Requests /\ r.type \in Transfers /\ r.type = call[c].at
        /\ call[c].sent \in Nat
        /\ Moving(r, call[c].sent, call[c].got, ioWrite, ioRead, io)
    BY <1>2, HolderFacts
  <1>4. /\ Collecting(r, taken, call[c].got, ioRead, io)
        /\ io'.row = r.row
        /\ io'.at = IF taken = n THEN "store" ELSE "write"
        /\ Len(io'.rows) = taken
        /\ \A k \in 1..taken : io'.rows[k] = r.data[k]
    BY <1>2, CollectFacts
  <1>5. /\ call[c].sent - Len(ioWrite') = taken + 1
        /\ ioWrite' \in Seq(Item) /\ Len(ioWrite') \in Nat
    <2>1. ioWrite' \in Seq(Item) /\ call[c].sent - Len(ioWrite') = taken + 1
      BY <1>1, <1>2, TakeFacts
    <2> QED BY <2>1
  <1> HIDE DEF taken
  <1>6. /\ r.type = "write" /\ taken \in 1..n /\ n \in Nat /\ r.row \in Nat
        /\ Len(r.data) = n
    BY <1>3, <1>4, TransferFacts DEF Collecting
  <1>7. UNCHANGED <<program, answers, call>>
    BY DEF hostVars
  <1>8. ~TakenPlace(c) /\ PhaseView[c] = "called" /\ MovedView[c] = << >>
    <2>1. ~TakenPlace(c)
      BY <1>1 DEF TakenPlace
    <2> QED BY <2>1, <1>2, ClientViews
  <1>9. MovedView' = MovedView
    <2>1. call'[c].at # "read"
      BY <1>3, <1>6, <1>7
    <2>2. MovedView'[c] = << >>
      BY <2>1, ClientViewsAfter
    <2> QED BY <2>2, <1>2, <1>8, IoViews
  <1>10. StoreView = [row \in TransferRows |-> localStore[row]]
    BY <1>1 DEF StoreView
  <1>11. CASE taken # n
    <2>1. io'.at = "write"
      BY <1>4, <1>11
    <2>2. StoreView' = StoreView
      BY <2>1, <1>1 DEF StoreView, TransferRows
    <2>3. ~TakenPlace(c)'
      BY <2>1, <1>2, IoViews
    <2>4. PhaseView'[c] = PhaseView[c]
      BY <2>3, <1>2, <1>7, <1>8, ClientViewsAfter
    <2>5. PhaseView' = PhaseView
      BY <2>4, <1>2, IoViews
    <2> QED BY <2>2, <2>5, <1>7, <1>9 DEF Atomic!atomicVars
  <1>12. CASE taken = n
    <2>1. io'.at = "store" /\ Len(io'.rows) = n /\ \A k \in 1..n : io'.rows[k] = r.data[k]
      BY <1>4, <1>12
    <2>2. call[c].sent = ItemCount(r) /\ ioWrite' = << >>
      <3>1. ItemCount(r) = n + 1
        BY <1>6 DEF ItemCount
      <3>2. call[c].sent <= ItemCount(r)
        BY <1>3, <1>6, <3>1 DEF Moving
      <3>3. call[c].sent = ItemCount(r) /\ Len(ioWrite') = 0
        BY <1>3, <1>5, <1>6, <1>12, <3>1, <3>2
      <3> QED BY <3>3, <1>5
    <2>3. TakenPlace(c)'
      BY <2>1, <2>2, <1>2, IoViews
    <2>4. PhaseView'[c] = "done"
      BY <2>3, <1>2, <1>7, ClientViewsAfter
    <2>5. PhaseView' = [PhaseView EXCEPT ![c] = "done"]
      BY <2>4, <1>2, IoViews
    <2>6. StoreView' = [row \in TransferRows |->
                           IF row - r.row + 1 \in 1..Len(r.data)
                           THEN r.data[row - r.row + 1] ELSE StoreView[row]]
      <3>1. StoreView' = [row \in TransferRows |->
                             IF row \in r.row..(r.row + n - 1)
                             THEN io'.rows[row - r.row + 1] ELSE localStore'[row]]
        BY <2>1, <1>4 DEF StoreView, TransferRows
      <3>2. \A row \in TransferRows :
                (IF row \in r.row..(r.row + n - 1)
                 THEN io'.rows[row - r.row + 1] ELSE localStore'[row])
                = (IF row - r.row + 1 \in 1..Len(r.data)
                   THEN r.data[row - r.row + 1] ELSE StoreView[row])
        <4> TAKE row \in TransferRows
        <4>1. row \in Int
          BY PipesAssumption DEF TransferRows
        <4>2. row \in r.row..(r.row + n - 1) <=> row - r.row + 1 \in 1..n
          BY <4>1, <1>6
        <4>3. StoreView[row] = localStore'[row]
          BY <1>1, <1>10
        <4> QED BY <4>2, <4>3, <2>1, <1>6
      <3> QED BY <3>1, <3>2
    <2>7. Atomic!Current(c) = r
      BY DEF Atomic!Current, Current
    <2>8. Atomic!Write(c)
      BY <2>5, <2>6, <2>7, <1>6, <1>7, <1>8, <1>9 DEF Atomic!Write
    <2> QED BY <2>8 DEF Atomic!Step
  <1> QED BY <1>11, <1>12

\* The rows of a write go into the local store one by one, where a transfer
\* cannot see that they were not there.
LEMMA StoreRefined ==
    ASSUME IInv, ReadsTransferRows, Store, UNCHANGED hostVars
    PROVE  [Atomic!Step]_(Atomic!atomicVars)
  <1>1. /\ io.at = "store"
        /\ localStore' = [localStore EXCEPT ![io.row] = Head(io.rows)]
        /\ io' = [io EXCEPT !.row = @ + 1, !.rows = Tail(@),
                            !.at = IF Len(io.rows) = 1 THEN "ack" ELSE @]
        /\ UNCHANGED <<ioRead, ioWrite>>
    BY DEF Store, pipeVars
  <1>2. PICK c \in Client : call[c].at \in Transfers
    BY <1>1, SomeHolder
  <1> DEFINE r == Current(c)
             m == Len(io.rows)
  <1>3. /\ ThreadsOK /\ r.type = call[c].at
        /\ Storing(r, call[c].sent, call[c].got, ioRead, io)
    BY <1>1, <1>2, HolderFacts, AllTaken
  <1>4. /\ r.type = "write" /\ io.rows # << >> /\ io \in IoState
        /\ io.rows \in Seq(Value) /\ io.row \in Nat
        /\ localStore \in [0..(Rows - 1) -> Value]
    BY <1>3 DEF Storing, ThreadsOK, IoState
  <1>5. /\ m \in Nat \ {0} /\ Head(io.rows) = io.rows[1]
        /\ Len(Tail(io.rows)) = m - 1
        /\ \A k \in 1..(m - 1) : Tail(io.rows)[k] = io.rows[k + 1]
    BY <1>4
  <1>6. /\ io'.row = io.row + 1 /\ io'.rows = Tail(io.rows)
        /\ io'.at = IF m = 1 THEN "ack" ELSE "store"
    BY <1>1, <1>4 DEF IoState
  <1>7. StoreView = [row \in TransferRows |->
                        IF row \in io.row..(io.row + m - 1)
                        THEN io.rows[row - io.row + 1] ELSE localStore[row]]
    BY <1>1 DEF StoreView
  <1> HIDE DEF m
  <1>8. \A row \in TransferRows :
            row \in 0..(Rows - 1)
            /\ localStore'[row] = IF row = io.row THEN io.rows[1] ELSE localStore[row]
    BY <1>1, <1>4, <1>5 DEF TransferRows
  <1>9. StoreView' = StoreView
    <2>1. CASE m = 1
      <3>1. io'.at # "store"
        BY <2>1, <1>6
      <3>2. StoreView' = [row \in TransferRows |-> localStore'[row]]
        BY <3>1 DEF StoreView, TransferRows
      <3>3. \A row \in TransferRows :
                localStore'[row] = IF row \in io.row..(io.row + m - 1)
                                   THEN io.rows[row - io.row + 1] ELSE localStore[row]
        <4> TAKE row \in TransferRows
        <4>1. row \in Int
          BY <1>8
        <4>2. row \in io.row..(io.row + m - 1) <=> row = io.row
          BY <4>1, <2>1, <1>4
        <4>3. row = io.row => row - io.row + 1 = 1
          BY <4>1, <1>4
        <4> QED BY <4>2, <4>3, <1>8
      <3> QED BY <3>2, <3>3, <1>7
    <2>2. CASE m # 1
      <3>1. io'.at = "store" /\ io'.row = io.row + 1 /\ Len(io'.rows) = m - 1
        BY <2>2, <1>5, <1>6
      <3>2. StoreView' = [row \in TransferRows |->
                             IF row \in (io.row + 1)..((io.row + 1) + (m - 1) - 1)
                             THEN io'.rows[row - (io.row + 1) + 1] ELSE localStore'[row]]
        BY <3>1 DEF StoreView, TransferRows
      <3>3. \A row \in TransferRows :
                (IF row \in (io.row + 1)..((io.row + 1) + (m - 1) - 1)
                 THEN io'.rows[row - (io.row + 1) + 1] ELSE localStore'[row])
                = (IF row \in io.row..(io.row + m - 1)
                   THEN io.rows[row - io.row + 1] ELSE localStore[row])
        <4> TAKE row \in TransferRows
        <4>1. row \in Int
          BY <1>8
        <4>0. io.row \in Int /\ m \in Nat \ {0}
          BY <1>4, <1>5
        <4>2. CASE row = io.row
          <5>1. /\ row \notin (io.row + 1)..((io.row + 1) + (m - 1) - 1)
                /\ row \in io.row..(io.row + m - 1) /\ row - io.row + 1 = 1
            BY ONLY <4>0, <4>1, <4>2
          <5> QED BY <5>1, <4>2, <1>8
        <4>3. CASE row \in (io.row + 1)..(io.row + m - 1)
          <5>1. /\ row \in (io.row + 1)..((io.row + 1) + (m - 1) - 1)
                /\ row \in io.row..(io.row + m - 1)
                /\ row - (io.row + 1) + 1 \in 1..(m - 1)
                /\ (row - (io.row + 1) + 1) + 1 = row - io.row + 1
            BY ONLY <4>0, <4>1, <4>3
          <5>2. io'.rows[row - (io.row + 1) + 1] = io.rows[row - io.row + 1]
            <6>1. io'.rows[row - (io.row + 1) + 1]
                      = io.rows[(row - (io.row + 1) + 1) + 1]
              BY <5>1, <1>5, <1>6
            <6> QED BY <6>1, <5>1
          <5> QED BY <5>1, <5>2
        <4>4. CASE row # io.row /\ row \notin (io.row + 1)..(io.row + m - 1)
          <5>1. /\ row \notin (io.row + 1)..((io.row + 1) + (m - 1) - 1)
                /\ row \notin io.row..(io.row + m - 1)
            <6>1. row # io.row /\ ~(io.row + 1 <= row /\ row <= io.row + m - 1)
              BY ONLY <4>0, <4>1, <4>4
            <6>2. ~(io.row + 1 <= row /\ row <= (io.row + 1) + (m - 1) - 1)
              BY ONLY <4>0, <4>1, <6>1
            <6>3. ~(io.row <= row /\ row <= io.row + m - 1)
              BY ONLY <4>0, <4>1, <6>1
            <6> QED BY <6>2, <6>3
          <5> QED BY <5>1, <4>4, <1>8
        <4> QED BY <4>2, <4>3, <4>4
      <3> QED BY <3>2, <3>3, <1>7
    <2> QED BY <2>1, <2>2
  <1>10. UNCHANGED <<program, answers, call>>
    BY DEF hostVars
  <1>11. TakenPlace(c)' <=> TakenPlace(c)
    <2>1. io.at # "write" /\ io'.at # "write"
      BY <1>1, <1>6
    <2> QED BY <2>1, <1>1, <1>2, IoViews
  <1>12. PhaseView'[c] = PhaseView[c] /\ MovedView'[c] = MovedView[c]
    <2>1. call[c].at # "read" /\ call'[c] = call[c]
      BY <1>3, <1>4, <1>10
    <2> QED BY <2>1, <1>11, ClientViews, ClientViewsAfter
  <1>13. PhaseView' = PhaseView /\ MovedView' = MovedView
    BY <1>2, <1>12, IoViews
  <1> QED BY <1>9, <1>10, <1>13 DEF Atomic!atomicVars

\* The acknowledgement tells the thread nothing that the transfer has not done.
LEMMA AcknowledgeRefined ==
    ASSUME IInv, ReadsTransferRows, Acknowledge, UNCHANGED hostVars
    PROVE  [Atomic!Step]_(Atomic!atomicVars)
  <1>1. /\ io.at = "ack" /\ io' = Waiting
        /\ UNCHANGED <<localStore, ioWrite>>
    BY DEF Acknowledge
  <1>2. PICK c \in Client : call[c].at \in Transfers
    BY <1>1, SomeHolder
  <1>3. /\ Current(c).type = call[c].at
        /\ Acknowledging(Current(c), call[c].sent, call[c].got, ioRead, io)
    BY <1>1, <1>2, HolderFacts, AllTaken
  <1>4. io'.at = "idle"
    BY <1>1 DEF Waiting
  <1>5. StoreView' = StoreView
    BY <1>1, <1>4 DEF StoreView, TransferRows
  <1>6. UNCHANGED <<program, answers, call>>
    BY DEF hostVars
  <1>7. TakenPlace(c)' <=> TakenPlace(c)
    BY <1>1, <1>2, <1>4, IoViews
  <1>8. PhaseView'[c] = PhaseView[c] /\ MovedView'[c] = MovedView[c]
    <2>1. call[c].at # "read" /\ call'[c] = call[c]
      BY <1>3, <1>6 DEF Acknowledging
    <2> QED BY <2>1, <1>7, ClientViews, ClientViewsAfter
  <1>9. PhaseView' = PhaseView /\ MovedView' = MovedView
    BY <1>2, <1>8, IoViews
  <1> QED BY <1>5, <1>6, <1>9 DEF Atomic!atomicVars

\* The rows of a read are sent as they were when it took place.
LEMMA SendRefined ==
    ASSUME IInv, ReadsTransferRows, Send, UNCHANGED hostVars
    PROVE  [Atomic!Step]_(Atomic!atomicVars)
  <1>1. /\ io.at = "read"
        /\ ioRead' = Append(ioRead, localStore[io.row])
        /\ io' = IF io.count = 1 THEN Waiting
                 ELSE [io EXCEPT !.row = @ + 1, !.count = @ - 1]
        /\ UNCHANGED <<localStore, ioWrite>>
    BY DEF Send
  <1>2. PICK c \in Client : call[c].at \in Transfers
    BY <1>1, SomeHolder
  <1> DEFINE got == call[c].got
             F == RowsOf(localStore, io.row, io.count)
  <1>3. /\ PipesOK /\ ThreadsOK /\ Current(c).type = call[c].at /\ got \in Seq(Value)
        /\ Sending(Current(c), call[c].sent, got, ioRead, io)
        /\ ioWrite = << >> /\ call[c].sent = ItemCount(Current(c))
    BY <1>1, <1>2, HolderFacts, AllTaken
  <1>4. /\ io.row \in Nat /\ io.count \in Nat \ {0}
        /\ \A i \in 0..(io.count - 1) : localStore[io.row + i] \in Value
    BY <1>1, <1>2, RowsToSend
  <1>5. /\ F \in Seq(Value) /\ F # << >> /\ Head(F) = localStore[io.row]
        /\ Len(F) = io.count
        /\ Tail(F) = RowsOf(localStore, io.row + 1, io.count - 1)
    <2>1. F \in Seq(Value)
      BY <1>4, RowsFrom
    <2>2. F # << >>
      BY <1>4, RowsFrom
    <2>3. Head(F) = localStore[io.row]
      BY <1>4, RowsFrom
    <2>4. Len(F) = io.count
      BY <1>4, RowsFrom
    <2>5. Tail(F) = RowsOf(localStore, io.row + 1, io.count - 1)
      <3> DEFINE f == localStore
                 row == io.row
                 n == io.count
      <3>1. /\ row \in Nat /\ n \in Nat \ {0}
            /\ \A i \in 0..(n - 1) : f[row + i] \in Value
        BY <1>4
      <3> HIDE DEF f, row, n
      <3>2. Tail(RowsOf(f, row, n)) = RowsOf(f, row + 1, n - 1)
        BY <3>1, RowsFrom
      <3> QED BY <3>2 DEF f, row, n
    <2> QED BY <2>1, <2>2, <2>3, <2>4, <2>5
  <1>6. /\ ioRead \in Seq(Value) /\ io \in IoState
    BY <1>3 DEF PipesOK, ThreadsOK
  <1>7. call[c].at = "read"
    BY <1>3 DEF Sending
  <1>8. UNCHANGED <<program, answers, call>>
    BY DEF hostVars
  <1>9. io'.at = IF io.count = 1 THEN "idle" ELSE "read"
    BY <1>1, <1>6 DEF Waiting, IoState
  <1>10. TakenPlace(c) /\ TakenPlace(c)'
    <2>1. io'.at # "write"
      BY <1>9
    <2> QED BY <2>1, <1>1, <1>2, <1>3, IoViews
  <1>11. PhaseView'[c] = PhaseView[c]
    BY <1>8, <1>10, ClientViews, ClientViewsAfter
  <1>12. MovedView[c] = got \o ioRead \o F
    BY <1>1, <1>7, <1>10, ClientViews DEF RowsOf
  <1> HIDE DEF F
  <1>13. got \o ioRead' \o Tail(F) = MovedView[c]
    <2> DEFINE x == localStore[io.row]
    <2>1. x \in Value
      <3>1. 0 \in 0..(io.count - 1) /\ io.row + 0 = io.row
        BY <1>4
      <3> QED BY <3>1, <1>4
    <2>2. ioRead' = Append(ioRead, x) /\ Head(F) = x
      BY <1>1, <1>5
    <2> HIDE DEF x
    <2>3. got \o Append(ioRead, x) = Append(got \o ioRead, x)
      <3>1. got \in Seq(Value) /\ ioRead \in Seq(Value) /\ x \in Value
        BY <2>1, <1>3, <1>6
      <3> HIDE DEF got
      <3> QED BY <3>1, AppendedLast
    <2>4. got \o ioRead \in Seq(Value)
      BY <1>3, <1>6
    <2>5. Append(got \o ioRead, Head(F)) \o Tail(F) = (got \o ioRead) \o F
      BY <2>4, <1>5, Shifted
    <2> QED BY <2>2, <2>3, <2>5, <1>12
  <1>14. MovedView'[c] = MovedView[c]
    <2>1. CASE io.count = 1
      <3>1. io'.at # "read"
        BY <2>1, <1>9
      <3>2. MovedView'[c] = call'[c].got \o ioRead' \o << >>
        BY <3>1, <1>7, <1>8, <1>10, ClientViewsAfter
      <3>3. Tail(F) = << >>
        <4>2. F \in Seq(Value) /\ F # << >>
          BY <1>5
        <4>3. Len(F) = 1
          BY <2>1, <1>5
        <4>4. Tail(F) \in Seq(Value) /\ Len(Tail(F)) = 0
          BY <4>2, <4>3
        <4>5. \A s \in Seq(Value) : Len(s) = 0 => s = << >>
          OBVIOUS
        <4> QED BY <4>4, <4>5
      <3> QED BY <3>2, <3>3, <1>8, <1>13
    <2>2. CASE io.count # 1
      <3>1. io'.at = "read" /\ io'.row = io.row + 1 /\ io'.count = io.count - 1
        BY <2>2, <1>1, <1>6, <1>9 DEF IoState
      <3> DEFINE G == [i \in 1..io'.count |-> localStore'[io'.row + i - 1]]
      <3>2. G = Tail(F)
        BY <3>1, <1>1, <1>5 DEF RowsOf
      <3>3. MovedView'[c] = call'[c].got \o ioRead' \o G
        BY <3>1, <1>7, <1>8, <1>10, ClientViewsAfter
      <3> HIDE DEF G
      <3> QED BY <3>2, <3>3, <1>8, <1>13
    <2> QED BY <2>1, <2>2
  <1>15. StoreView' = StoreView
    <2>1. io'.at # "store" /\ io.at # "store"
      BY <1>1, <1>9
    <2> QED BY <2>1, <1>1 DEF StoreView, TransferRows
  <1>16. PhaseView' = PhaseView /\ MovedView' = MovedView
    BY <1>2, <1>11, <1>14, IoViews
  <1> QED BY <1>8, <1>15, <1>16 DEF Atomic!atomicVars

\* No transfer has been called.
LEMMA InitRefined == Init => Atomic!Init
  <1> SUFFICES ASSUME Init PROVE Atomic!Init
    OBVIOUS
  <1> USE DEF Init, PipesInit, HostInit, ThreadsInit
  <1>1. io.at = "idle"
    BY DEF Waiting
  <1>2. StoreView = [row \in TransferRows |-> Zero]
    BY <1>1 DEF StoreView, TransferRows
  <1>3. \A c \in Client : call[c].at = "idle"
    BY DEF Idle
  <1>4. PhaseView = [c \in Client |-> "idle"] /\ MovedView = [c \in Client |-> << >>]
    BY <1>3 DEF PhaseView, MovedView, Transfers
  <1> QED BY <1>2, <1>4 DEF Atomic!Init

\* Every step of a program that does not read what kernels store is one of the
\* atomic transfers, or none that they have.
LEMMA NextRefined ==
    ASSUME IInv, ReadsTransferRows, [Next]_systemVars
    PROVE  [Atomic!Step]_(Atomic!atomicVars)
  <1>1. ASSUME NEW c \in Client, ClientStep(c), UNCHANGED threadVars
        PROVE  [Atomic!Step]_(Atomic!atomicVars)
    BY <1>1, OtherStepRefined, StartTransferRefined, SendItemRefined, ReceiveItemRefined,
       TransferReturnsRefined
       DEF ClientStep
  <1>2. CASE CoreStep /\ UNCHANGED hostVars
    BY <1>2, CoreRefined
  <1>3. CASE IoStep /\ UNCHANGED hostVars
    BY <1>3, ReceiveRefined, CollectRefined, StoreRefined, AcknowledgeRefined, SendRefined
       DEF IoStep
  <1>4. CASE UNCHANGED systemVars
    <2>1. UNCHANGED threadVars /\ UNCHANGED <<program, answers, call, pipeVars>>
      BY <1>4 DEF systemVars, hostVars
    <2> QED BY <2>1, HostEndsRefined
  <1> QED BY <1>1, <1>2, <1>3, <1>4 DEF Next, Quiet

\* Whatever the threads of a program call, transfers are atomic: the I/O thread
\* moves row after row while kernels run and other threads wait, yet what every
\* thread sees is what it would see if the rows of a transfer were moved at
\* once, as long as the program does not read rows that kernels store to.
THEOREM AtomicTransfersImplemented == Spec => TransfersAreAtomic
  <1>1. Init => Atomic!Init
    BY InitRefined
  <1>2. IInv /\ [Next]_systemVars
            => [ReadsTransferRows => Atomic!Step]_(Atomic!atomicVars)
    BY NextRefined
  <1> QED
    BY <1>1, <1>2, Protocol, PTL DEF Spec, TransfersAreAtomic

\* If no program reads such rows, the system implements the specification of
\* atomic transfers (module AtomicTransfers).
COROLLARY AtomicTransfersSuffice ==
    ASSUME \A request \in Requests :
               request.type = "read" /\ request.row + request.count <= Rows =>
                   request.row..(request.row + request.count - 1) \subseteq TransferRows
    PROVE  Spec => Atomic!Spec
  <1>1. IInv => ReadsTransferRows
    <2> SUFFICES ASSUME IInv, NEW c \in Client, NEW n \in 1..Len(program[c])
                 PROVE  program[c][n] \in Requests
      BY DEF ReadsTransferRows
    <2>1. program \in Programs
      BY DEF IInv, TypeOK, HostOK
    <2>2. program[c] \in Seq(Requests)
      BY <2>1, ClientAssumption
    <2> QED BY <2>2
  <1>2. Spec => []ReadsTransferRows
    BY <1>1, Protocol, PTL
  <1> QED
    BY <1>2, AtomicTransfersImplemented, PTL DEF TransfersAreAtomic, Atomic!Spec

=============================================================================
