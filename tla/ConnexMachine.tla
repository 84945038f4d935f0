--------------------------- MODULE ConnexMachine ---------------------------
(***************************************************************************)
(* class ConnexMachine: the calls an OPINCAA program makes on the machine, *)
(* from any number of threads (Client).  A call that talks to the machine  *)
(* holds one of two mutexes from its first to its last use of a FIFO:      *)
(* threadMutexIR for instructions and reduction results, threadMutex for   *)
(* transfers to and from the local store.                                  *)
(*                                                                         *)
(* What the program does is data: each client has a list of calls.         *)
(***************************************************************************)
EXTENDS MachinePipes

CONSTANTS
    Client,
    NoClient,
    Kernels,                   \* the kernel map: names to instructions
    Programs                   \* what the clients may call, one list each

\* What the programs ask for.
Requests == UNION {{p[c][n] : n \in DOMAIN p[c]} : p \in Programs, c \in Client}

ASSUME ClientAssumption ==
    /\ NoClient \notin Client
    /\ Programs \subseteq [Client -> Seq(Requests)]

\* A transfer is of one row at least.
ASSUME RequestAssumption ==
    \A request \in Requests :
        /\ request.type \in {"execute", "reduce", "write", "read"}
        /\ request.type = "write" =>
               request.row \in Nat /\ request.data \in Seq(Value) \ {<< >>}
        /\ request.type = "read" => request.row \in Nat /\ request.count \in Nat \ {0}

VARIABLES
    program,
    answers,                   \* what the calls of each client returned
    call,                      \* where each client is in its current call
    threadMutex,
    threadMutexIR,
    host                       \* "running", "killed" or "aborted"

hostVars == <<program, answers, call, threadMutex, threadMutexIR, host>>

Idle == [at |-> "idle", sent |-> 0, got |-> << >>]

HostInit ==
    /\ program \in Programs
    /\ answers = [c \in Client |-> << >>]
    /\ call = [c \in Client |-> Idle]
    /\ threadMutex = NoClient
    /\ threadMutexIR = NoClient
    /\ host = "running"

\* The calls, and what they give back.
ExecuteKernel(kernel) == [type |-> "execute", kernel |-> kernel]
ReadReductionResults(count) == [type |-> "reduce", count |-> count]
WriteDataToConnex(row, data) == [type |-> "write", row |-> row, data |-> data]
ReadDataFromConnex(row, count) == [type |-> "read", row |-> row, count |-> count]

Returned(data) == [outcome |-> "returned", data |-> data]
Threw == [outcome |-> "threw", data |-> << >>]

-----------------------------------------------------------------------------
Finished(c) == Len(answers[c]) = Len(program[c])
Current(c) == program[c][Len(answers[c]) + 1]

\* The next call of c is one of these types.
Calls(c, types) ==
    /\ host = "running"
    /\ call[c].at = "idle"
    /\ ~Finished(c)
    /\ Current(c).type \in types

Within(c, types) == host = "running" /\ call[c].at \in types

Enter(c) == call' = [call EXCEPT ![c].at = Current(c).type]

Answer(c, answer) ==
    /\ call' = [call EXCEPT ![c] = Idle]
    /\ answers' = [answers EXCEPT ![c] = Append(@, answer)]

\* write() to a FIFO the simulator has closed raises SIGPIPE.
BrokenPipe ==
    /\ simulator = "exited"
    /\ host' = "killed"
    /\ UNCHANGED <<program, answers, call, threadMutex, threadMutexIR, pipeVars>>

-----------------------------------------------------------------------------
\* Mutant: the mutex is kept when there is no such kernel.
ExecuteThrowingLocked(c) ==
    /\ Calls(c, {"execute"})
    /\ threadMutexIR = NoClient
    /\ threadMutexIR' = c
    /\ IF Current(c).kernel \in DOMAIN Kernels
       THEN Enter(c) /\ UNCHANGED answers
       ELSE Answer(c, Threw)
    /\ UNCHANGED <<program, threadMutex, host, pipeVars>>

\* executeKernel() takes the mutex, and gives it back at once when there is
\* no such kernel.
Execute(c) ==
    /\ Calls(c, {"execute"})
    /\ threadMutexIR = NoClient
    /\ IF Current(c).kernel \in DOMAIN Kernels
       THEN threadMutexIR' = c /\ Enter(c) /\ UNCHANGED answers
       ELSE Answer(c, Threw) /\ UNCHANGED threadMutexIR
    /\ UNCHANGED <<program, threadMutex, host, pipeVars>>

\* Kernel::writeTo(): a write() that blocks while the FIFO is full.
SendWord(c) ==
    LET words == Kernels[Current(c).kernel] IN
    /\ Within(c, {"execute"})
    /\ call[c].sent < Len(words)
    /\ \/ BrokenPipe
       \/ /\ simulator = "running"
          /\ Len(distribution) < DistributionCapacity
          /\ distribution' = Append(distribution, words[call[c].sent + 1])
          /\ call' = [call EXCEPT ![c].sent = @ + 1]
          /\ UNCHANGED <<program, answers, threadMutex, threadMutexIR, host>>
          /\ UNCHANGED <<reduction, ioWrite, ioRead, simulator>>

ExecuteReturns(c) ==
    /\ Within(c, {"execute"})
    /\ call[c].sent = Len(Kernels[Current(c).kernel])
    /\ threadMutexIR' = NoClient
    /\ Answer(c, Returned(<< >>))
    /\ UNCHANGED <<program, threadMutex, host, pipeVars>>

\* Mutant: readReductionResults() without the mutex.
ReduceUnlocked(c) ==
    /\ Calls(c, {"reduce"})
    /\ Enter(c)
    /\ UNCHANGED <<program, answers, threadMutex, threadMutexIR, host, pipeVars>>

\* readReductionResults(), and readReduction() with a count of one.
Reduce(c) ==
    /\ Calls(c, {"reduce"})
    /\ threadMutexIR = NoClient
    /\ threadMutexIR' = c
    /\ Enter(c)
    /\ UNCHANGED <<program, answers, threadMutex, host, pipeVars>>

\* readFromPipe().  Once the simulator is gone and the FIFO empty, read()
\* returns 0 and the loop goes round for ever, with nothing changed.
ReceiveResult(c) ==
    /\ Within(c, {"reduce"})
    /\ Len(call[c].got) < Current(c).count
    /\ reduction # << >>
    /\ call' = [call EXCEPT ![c].got = Append(@, Head(reduction))]
    /\ reduction' = Tail(reduction)
    /\ UNCHANGED <<program, answers, threadMutex, threadMutexIR, host>>
    /\ UNCHANGED <<distribution, ioWrite, ioRead, simulator>>

ReduceReturns(c) ==
    /\ Within(c, {"reduce"})
    /\ Len(call[c].got) = Current(c).count
    /\ threadMutexIR' = NoClient
    /\ Answer(c, Returned(call[c].got))
    /\ UNCHANGED <<program, threadMutex, host, pipeVars>>

-----------------------------------------------------------------------------
Transfers == {"write", "read"}

CountOf(request) ==
    IF request.type = "write" THEN Len(request.data) ELSE request.count

\* What goes into ioWrite: the descriptor and, for a write, the rows.
ItemsOf(request) ==
    <<Descriptor(request.type, LsAddress(request.row),
                 VectorCount(CountOf(request)))>>
    \o IF request.type = "write"
       THEN [i \in 1..Len(request.data) |-> RowItem(request.data[i])]
       ELSE << >>

\* Mutant: a write is not acknowledged.
AwaitedUnacknowledged(request) ==
    IF request.type = "write" THEN 0 ELSE request.count

\* How many items are awaited from ioRead: rows, or one acknowledgement.
AwaitedOf(request) == IF request.type = "write" THEN 1 ELSE request.count

\* Mutants: the transfers do not take the mutex; there is one mutex for all.
StartTransferUnlocked(c) ==
    /\ Calls(c, Transfers)
    /\ Enter(c)
    /\ UNCHANGED <<program, answers, threadMutex, threadMutexIR, host, pipeVars>>
StartTransferOneMutex(c) ==
    /\ Calls(c, Transfers)
    /\ threadMutex = NoClient /\ threadMutexIR = NoClient
    /\ Current(c).row + CountOf(Current(c)) <= Rows
    /\ threadMutex' = c
    /\ Enter(c)
    /\ UNCHANGED <<program, answers, threadMutexIR, host, pipeVars>>

\* writeDataToConnex() and readDataFromConnex(), up to the assertion that the
\* rows are in the local store.
StartTransfer(c) ==
    /\ Calls(c, Transfers)
    /\ threadMutex = NoClient
    /\ IF Current(c).row + CountOf(Current(c)) <= Rows
       THEN threadMutex' = c /\ Enter(c) /\ UNCHANGED host
       ELSE host' = "aborted" /\ UNCHANGED <<threadMutex, call>>
    /\ UNCHANGED <<program, answers, threadMutexIR, pipeVars>>

SendItem(c) ==
    LET items == ItemsOf(Current(c)) IN
    /\ Within(c, Transfers)
    /\ call[c].sent < Len(items)
    /\ \/ BrokenPipe
       \/ /\ simulator = "running"
          /\ Len(ioWrite) < IoWriteCapacity
          /\ ioWrite' = Append(ioWrite, items[call[c].sent + 1])
          /\ call' = [call EXCEPT ![c].sent = @ + 1]
          /\ UNCHANGED <<program, answers, threadMutex, threadMutexIR, host>>
          /\ UNCHANGED <<distribution, reduction, ioRead, simulator>>

ReceiveItem(c) ==
    /\ Within(c, Transfers)
    /\ call[c].sent = Len(ItemsOf(Current(c)))
    /\ Len(call[c].got) < AwaitedOf(Current(c))
    /\ ioRead # << >>
    /\ call' = [call EXCEPT ![c].got = Append(@, Head(ioRead))]
    /\ ioRead' = Tail(ioRead)
    /\ UNCHANGED <<program, answers, threadMutex, threadMutexIR, host>>
    /\ UNCHANGED <<distribution, reduction, ioWrite, simulator>>

\* The acknowledgement of a write is not looked at.
TransferReturns(c) ==
    /\ Within(c, Transfers)
    /\ call[c].sent = Len(ItemsOf(Current(c)))
    /\ Len(call[c].got) = AwaitedOf(Current(c))
    /\ threadMutex' = NoClient
    /\ Answer(c, Returned(IF Current(c).type = "read" THEN call[c].got
                          ELSE << >>))
    /\ UNCHANGED <<program, threadMutexIR, host, pipeVars>>

ClientStep(c) ==
    \/ Execute(c)
    \/ SendWord(c)
    \/ ExecuteReturns(c)
    \/ Reduce(c)
    \/ ReceiveResult(c)
    \/ ReduceReturns(c)
    \/ StartTransfer(c)
    \/ SendItem(c)
    \/ ReceiveItem(c)
    \/ TransferReturns(c)

=============================================================================
