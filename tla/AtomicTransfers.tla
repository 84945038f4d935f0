--------------------------- MODULE AtomicTransfers ---------------------------
(***************************************************************************)
(* What writeDataToConnex() and readDataFromConnex() promise to programs   *)
(* of several threads: a transfer takes place at one moment between its    *)
(* call and its return, all its rows together.  FIFOs, descriptors,        *)
(* acknowledgements, the mutex and the I/O thread are gone.                *)
(*                                                                         *)
(* The rows that kernels store to are not part of this: the core thread    *)
(* and the I/O thread use the local store without a lock; this is for      *)
(* programs that do not read them.                                         *)
(***************************************************************************)
EXTENDS Integers, Sequences

CONSTANTS Client, Programs, TransferRows, Zero

VARIABLES
    program,
    store,                     \* the rows that only transfers change
    phase,                     \* "idle", "called" or "done"
    moved,                     \* the rows a transfer that is done has read
    answers

atomicVars == <<program, store, phase, moved, answers>>

Init ==
    /\ program \in Programs
    /\ store = [row \in TransferRows |-> Zero]
    /\ phase = [c \in Client |-> "idle"]
    /\ moved = [c \in Client |-> << >>]
    /\ answers = [c \in Client |-> << >>]

Current(c) == program[c][Len(answers[c]) + 1]

Next(c) ==
    /\ phase[c] = "idle"
    /\ Len(answers[c]) < Len(program[c])

Start(c) ==
    /\ Next(c)
    /\ Current(c).type \in {"write", "read"}
    /\ phase' = [phase EXCEPT ![c] = "called"]
    /\ UNCHANGED <<program, store, moved, answers>>

Write(c) ==
    /\ phase[c] = "called"
    /\ Current(c).type = "write"
    /\ store' = [row \in TransferRows |->
                    LET i == row - Current(c).row + 1 IN
                    IF i \in 1..Len(Current(c).data) THEN Current(c).data[i]
                    ELSE store[row]]
    /\ phase' = [phase EXCEPT ![c] = "done"]
    /\ UNCHANGED <<program, moved, answers>>

Read(c) ==
    /\ phase[c] = "called"
    /\ Current(c).type = "read"
    /\ moved' = [moved EXCEPT ![c] =
                    [i \in 1..Current(c).count |-> store[Current(c).row + i - 1]]]
    /\ phase' = [phase EXCEPT ![c] = "done"]
    /\ UNCHANGED <<program, store, answers>>

Return(c) ==
    /\ phase[c] = "done"
    /\ answers' = [answers EXCEPT ![c] =
                      Append(@, [outcome |-> "returned", data |-> moved[c]])]
    /\ moved' = [moved EXCEPT ![c] = << >>]
    /\ phase' = [phase EXCEPT ![c] = "idle"]
    /\ UNCHANGED <<program, store>>

\* Executing kernels and reading reductions is not described here.
OtherCall(c) ==
    /\ Next(c)
    /\ Current(c).type \notin {"write", "read"}
    /\ Len(answers'[c]) = Len(answers[c]) + 1
    /\ answers' = [answers EXCEPT ![c] = Append(@, answers'[c][Len(@) + 1])]
    /\ UNCHANGED <<program, store, phase, moved>>

Step ==
    \E c \in Client : Start(c) \/ Write(c) \/ Read(c) \/ Return(c) \/ OtherCall(c)

Spec == Init /\ [][Step]_atomicVars

=============================================================================
