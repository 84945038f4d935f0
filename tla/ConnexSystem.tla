---------------------------- MODULE ConnexSystem ----------------------------
(***************************************************************************)
(* An OPINCAA program and the simulator, two processes joined by four      *)
(* FIFOs: the program's threads (ConnexMachine), the core thread and the   *)
(* I/O thread (SimulatorThreads).                                          *)
(***************************************************************************)
EXTENDS ConnexMachine, SimulatorThreads, SequencesExt

\* Every kernel is of instructions the core thread has.
ASSUME KernelsAssumption ==
    \A name \in DOMAIN Kernels : Kernels[name] \in Seq(Word)

systemVars == <<hostVars, pipeVars, threadVars>>

Init == PipesInit /\ HostInit /\ ThreadsInit

\* All calls have returned, the threads of a process that is gone are gone
\* too, or somebody waits for ever.
Quiet == UNCHANGED systemVars

Next ==
    \/ \E c \in Client : ClientStep(c) /\ UNCHANGED threadVars
    \/ CoreStep /\ UNCHANGED hostVars
    \/ IoStep /\ UNCHANGED hostVars
    \/ Quiet

Spec == Init /\ [][Next]_systemVars

\* Every thread is scheduled by the operating system.  The calls of a client
\* are finitely many, so that a mutex is not taken from a client for ever
\* unless another one keeps it.
FairSpec ==
    /\ Spec
    /\ \A c \in Client : WF_systemVars(ClientStep(c) /\ UNCHANGED threadVars)
    /\ WF_systemVars(CoreStep /\ UNCHANGED hostVars)
    /\ WF_systemVars(IoStep /\ UNCHANGED hostVars)

-----------------------------------------------------------------------------
(***************************************************************************)
(* The atomic transfers that the system implements.                        *)
(***************************************************************************)
\* The rows no kernel stores to.
TransferRows ==
    {row \in 0..(Rows - 1) :
        \A name \in DOMAIN Kernels :
            Instr("IWRITE", row) \notin ToSet(Kernels[name])}

\* A transfer has taken place once the I/O thread has its descriptor and, for
\* a write, all its rows: what is left to do, nobody can prevent.
TakenPlace(c) ==
    /\ call[c].sent = Len(ItemsOf(Current(c)))
    /\ ioWrite = << >>
    /\ io.at # "write"

StoreView ==
    [row \in TransferRows |->
        IF io.at = "store" /\ row \in io.row..(io.row + Len(io.rows) - 1)
        THEN io.rows[row - io.row + 1]
        ELSE localStore[row]]

PhaseView ==
    [c \in Client |->
        IF call[c].at \notin Transfers THEN "idle"
        ELSE IF TakenPlace(c) THEN "done" ELSE "called"]

\* What a read has received, what is on its way and what is still to be sent.
MovedView ==
    [c \in Client |->
        IF call[c].at = "read" /\ TakenPlace(c)
        THEN call[c].got \o ioRead
             \o (IF io.at = "read"
                 THEN [i \in 1..io.count |-> localStore[io.row + i - 1]]
                 ELSE << >>)
        ELSE << >>]

Atomic == INSTANCE AtomicTransfers WITH
              store <- StoreView, phase <- PhaseView, moved <- MovedView

\* Nobody reads a row that a kernel stores to: the core thread and the I/O thread
\* would race for it.
ReadsTransferRows ==
    \A c \in Client : \A n \in 1..Len(program[c]) :
        LET request == program[c][n] IN
        request.type = "read" /\ request.row + request.count <= Rows =>
            request.row..(request.row + request.count - 1) \subseteq TransferRows

\* Transfers of several threads are atomic: writeDataToConnex() and
\* readDataFromConnex() send a descriptor and rows in several write()s and
\* the I/O thread moves row after row, yet no program that leaves alone what
\* kernels store can tell, while kernels run and other threads transfer.
TransfersAreAtomic ==
    /\ Atomic!Init
    /\ [][ReadsTransferRows => Atomic!Step]_(Atomic!atomicVars)

-----------------------------------------------------------------------------
Answered == [outcome : {"returned", "threw"}, data : Seq(Value)]
Item ==
    [type : {"write", "read", "row"}, row : 0..(Rows - 1), count : 0..(Rows - 1),
     val : Value]

CallState ==
    [at : {"idle", "execute", "reduce"} \cup Transfers, sent : Nat, got : Seq(Value)]
IoState ==
    [at : {"idle", "write", "store", "ack", "read"}, row : 0..Rows, count : 0..Rows,
     rows : Seq(Value)]

HostOK ==
    /\ program \in Programs
    /\ answers \in [Client -> Seq(Answered)]
    /\ \A c \in Client : Len(answers[c]) <= Len(program[c])
    /\ call \in [Client -> CallState]
    /\ threadMutex \in Client \cup {NoClient}
    /\ threadMutexIR \in Client \cup {NoClient}
    /\ host \in {"running", "killed", "aborted"}

PipesOK ==
    /\ distribution \in Seq(Word) /\ Len(distribution) <= DistributionCapacity
    /\ reduction \in Seq(Value) /\ Len(reduction) <= ReductionCapacity
    /\ ioWrite \in Seq(Item) /\ Len(ioWrite) <= IoWriteCapacity
    /\ ioRead \in Seq(Value) /\ Len(ioRead) <= IoReadCapacity
    /\ simulator \in {"running", "exited"}

ThreadsOK ==
    /\ localStore \in [0..(Rows - 1) -> Value]
    /\ register \in Value
    /\ reporting \in Seq(Value) /\ Len(reporting) <= 1
    /\ io \in IoState

\* Types of calls, FIFOs and threads.  No FIFO holds more than it has room for, a
\* client has no more answers than calls, and what is masked in a descriptor and
\* counted up again by performIO() stays within the local store.
TypeOK == HostOK /\ PipesOK /\ ThreadsOK

\* A transfer that a thread has come to returns, whatever the other threads
\* are waiting for: a core thread that is blocked by a full reduction FIFO, a
\* thread that holds threadMutexIR and waits for it or for results nobody
\* computes do not stop the I/O thread or keep threadMutex.  (For a process
\* that ended see UnableToReadThrows.)
TransfersReturn ==
    \A c \in Client :
        ~Finished(c) /\ Current(c).type \in Transfers
            ~> \/ Finished(c) \/ Current(c).type \notin Transfers
               \/ simulator = "exited" \/ host # "running"

\* "@throws string if unable to read" (readDataFromConnex(), ConnexMachine.cpp
\* line 604): a read of a machine that is gone ends.
UnableToReadThrows ==
    \A c \in Client :
        simulator = "exited" /\ call[c].at = "read"
            ~> call[c].at = "idle" \/ host # "running"

=============================================================================
