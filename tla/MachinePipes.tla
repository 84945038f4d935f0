---------------------------- MODULE MachinePipes ----------------------------
(***************************************************************************)
(* The four named FIFOs between an OPINCAA program (class ConnexMachine)   *)
(* and the simulator process, which opens them all (ConnexSimulator's      *)
(* constructor) and closes them only by exiting.                           *)
(*                                                                         *)
(* A FIFO is counted in what one read() or write() moves without the other *)
(* side seeing less: words, reduction results, I/O descriptors, rows.      *)
(***************************************************************************)
EXTENDS Integers, Sequences

CONSTANTS
    DistributionCapacity,      \* words
    ReductionCapacity,         \* results
    IoWriteCapacity,           \* descriptors and rows
    IoReadCapacity,            \* rows and acknowledgements
    Rows,                      \* CONNEX_MEM_NUM_ROWS, which I/O can address
    Value,                     \* what a row or a result may be
    Zero                       \* a row of zeroes, as the memory starts out

ASSUME PipesAssumption ==
    /\ DistributionCapacity \in Nat \ {0}
    /\ ReductionCapacity \in Nat \ {0}
    /\ IoWriteCapacity \in Nat \ {0}
    /\ IoReadCapacity \in Nat \ {0}
    /\ Rows \in Nat \ {0}
    /\ Zero \in Value

VARIABLES
    distribution,              \* host to core thread: words
    reduction,                 \* core thread to host: results
    ioWrite,                   \* host to I/O thread: descriptors and rows
    ioRead,                    \* I/O thread to host: rows, acknowledgements
    simulator                  \* "running" or "exited"

pipeVars == <<distribution, reduction, ioWrite, ioRead, simulator>>

PipesInit ==
    /\ distribution = << >>
    /\ reduction = << >>
    /\ ioWrite = << >>
    /\ ioRead = << >>
    /\ simulator = "running"

\* What travels on ioWrite: a ConnexIoDescriptor, or a row.
Descriptor(type, row, count) ==
    [type |-> type, row |-> row, count |-> count, val |-> Zero]
RowItem(val) == [type |-> "row", row |-> 0, count |-> 0, val |-> val]

\* IO_LS_ADDRESS and IO_VECTOR_COUNT, for a power of two of rows.
LsAddress(row) == row % Rows
VectorCount(count) == (count - 1) % Rows

=============================================================================
