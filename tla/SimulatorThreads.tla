-------------------------- MODULE SimulatorThreads --------------------------
(***************************************************************************)
(* The two threads of the simulator process and the local store they       *)
(* share without a lock: the core thread, which runs the kernels, and the  *)
(* I/O thread, which serves transfers (ioThreadHandler(), performIO()).    *)
(*                                                                         *)
(* CoreThread.tla shows that loops make no difference to what an           *)
(* instruction stream means; here a kernel is the list of instructions it  *)
(* executes.  One register stands for the register file and one value for  *)
(* a row: lanes and arithmetic are left out.                               *)
(***************************************************************************)
EXTENDS MachinePipes

VARIABLES
    localStore,
    register,
    reporting,                 \* the result the core thread is writing, if any
    io                         \* what the I/O thread is doing

threadVars == <<localStore, register, reporting, io>>

Waiting == [at |-> "idle", row |-> 0, count |-> 0, rows |-> << >>]

\* ConnexVector's constructor clears the cells.
ThreadsInit ==
    /\ localStore = [row \in 0..(Rows - 1) |-> Zero]
    /\ register = Zero
    /\ reporting = << >>
    /\ io = Waiting

Instr(op, arg) == [op |-> op, arg |-> arg]

Word ==
    [op : {"VLOAD"}, arg : Value]
    \cup [op : {"IREAD", "IWRITE"}, arg : 0..(Rows - 1)]
    \cup [op : {"RED", "THROW"}, arg : {0}]

-----------------------------------------------------------------------------
\* The core thread's next instruction.  A reduction whose write() is blocked
\* has left the FIFO and keeps the thread.
Fetch(op) ==
    /\ simulator = "running"
    /\ reporting = << >>
    /\ distribution # << >>
    /\ Head(distribution).op = op
    /\ distribution' = Tail(distribution)

Vload ==
    /\ Fetch("VLOAD")
    /\ register' = Head(distribution).arg
    /\ UNCHANGED <<localStore, reporting, io, reduction, ioWrite, ioRead, simulator>>

Iread ==
    /\ Fetch("IREAD")
    /\ register' = localStore[Head(distribution).arg]
    /\ UNCHANGED <<localStore, reporting, io, reduction, ioWrite, ioRead, simulator>>

Iwrite ==
    /\ Fetch("IWRITE")
    /\ localStore' = [localStore EXCEPT ![Head(distribution).arg] = register]
    /\ UNCHANGED <<register, reporting, io, reduction, ioWrite, ioRead, simulator>>

\* handleReduction(), up to its write().
Red ==
    /\ Fetch("RED")
    /\ reporting' = <<register>>
    /\ UNCHANGED <<localStore, register, io, reduction, ioWrite, ioRead, simulator>>

\* Mutant: the write() does not block, and drops what does not fit.
ReportDropping ==
    /\ simulator = "running"
    /\ reporting # << >>
    /\ reduction' = IF Len(reduction) < ReductionCapacity
                    THEN reduction \o reporting ELSE reduction
    /\ reporting' = << >>
    /\ UNCHANGED <<localStore, register, io, distribution, ioWrite, ioRead, simulator>>

Report ==
    /\ simulator = "running"
    /\ reporting # << >>
    /\ Len(reduction) < ReductionCapacity
    /\ reduction' = reduction \o reporting
    /\ reporting' = << >>
    /\ UNCHANGED <<localStore, register, io, distribution, ioWrite, ioRead, simulator>>

\* An instruction that throws: the handler's catch calls exit().
Throw ==
    /\ Fetch("THROW")
    /\ simulator' = "exited"
    /\ UNCHANGED <<threadVars, reduction, ioWrite, ioRead>>

CoreStep == Vload \/ Iread \/ Iwrite \/ Red \/ Report \/ Throw

-----------------------------------------------------------------------------
\* Mutant: the number in the descriptor is taken as it is.
ReceiveShort ==
    /\ simulator = "running"
    /\ io.at = "idle"
    /\ ioWrite # << >>
    /\ ioWrite' = Tail(ioWrite)
    /\ LET d == Head(ioWrite) IN
       /\ io' = [Waiting EXCEPT !.at = d.type, !.row = d.row, !.count = d.count]
       /\ simulator' = IF d.type \in {"write", "read"} THEN simulator ELSE "exited"
    /\ UNCHANGED <<localStore, register, reporting, distribution, reduction, ioRead>>

\* The descriptor carries one row less than the transfer has.
Receive ==
    /\ simulator = "running"
    /\ io.at = "idle"
    /\ ioWrite # << >>
    /\ ioWrite' = Tail(ioWrite)
    /\ LET d == Head(ioWrite) IN
       /\ io' = [Waiting EXCEPT !.at = d.type, !.row = d.row, !.count = d.count + 1]
       /\ simulator' = IF d.type \in {"write", "read"} THEN simulator ELSE "exited"
    /\ UNCHANGED <<localStore, register, reporting, distribution, reduction, ioRead>>

\* force_all_io(read, ...): all rows are read before one is stored.
Collect ==
    /\ simulator = "running"
    /\ io.at = "write"
    /\ Len(io.rows) < io.count
    /\ ioWrite # << >>
    /\ ioWrite' = Tail(ioWrite)
    /\ io' = [io EXCEPT !.rows = Append(@, Head(ioWrite).val),
                        !.at = IF Len(io.rows) + 1 = io.count THEN "store" ELSE @]
    /\ UNCHANGED <<localStore, register, reporting, distribution, reduction,
                   ioRead, simulator>>

\* One row into the local store, and when the last is there on to the ACK.
\* The rows still to be stored are the last elements of io.rows.
Store ==
    /\ simulator = "running"
    /\ io.at = "store"
    /\ localStore' = [localStore EXCEPT ![io.row] = Head(io.rows)]
    /\ io' = [io EXCEPT !.row = @ + 1, !.rows = Tail(@),
                        !.at = IF Len(io.rows) = 1 THEN "ack" ELSE @]
    /\ UNCHANGED <<register, reporting, pipeVars>>

\* "Write the ACK with the correct data" is a TODO: the bytes sent are the
\* beginning of the rows received.  The host does not look at them.
Acknowledge ==
    /\ simulator = "running"
    /\ io.at = "ack"
    /\ Len(ioRead) < IoReadCapacity
    /\ ioRead' = Append(ioRead, Zero)
    /\ io' = Waiting
    /\ UNCHANGED <<localStore, register, reporting, distribution, reduction,
                   ioWrite, simulator>>

\* One row of the local store into ioRead, as it is by then.
Send ==
    /\ simulator = "running"
    /\ io.at = "read"
    /\ Len(ioRead) < IoReadCapacity
    /\ ioRead' = Append(ioRead, localStore[io.row])
    /\ io' = IF io.count = 1 THEN Waiting
             ELSE [io EXCEPT !.row = @ + 1, !.count = @ - 1]
    /\ UNCHANGED <<localStore, register, reporting, distribution, reduction,
                   ioWrite, simulator>>

IoStep == Receive \/ Collect \/ Store \/ Acknowledge \/ Send

=============================================================================
