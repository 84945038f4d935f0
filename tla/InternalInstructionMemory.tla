--------------------- MODULE InternalInstructionMemory ---------------------
(***************************************************************************)
(* The circular instruction buffer of the simulated sequencer              *)
(* (simulator/src/InternalInstructionMemory.cpp).  Every instruction read  *)
(* from the distribution pipe is pushed; a loop is replayed by moving the  *)
(* read pointer back over what was pushed.                                 *)
(***************************************************************************)
EXTENDS LoopNest

CONSTANT InstructionCount      \* maxInstructionCount: the number of slots

ASSUME InstructionCountAssumption == InstructionCount \in Nat \ {0}

VARIABLES
    queue,                     \* the slots
    readPointer,               \* the slot the next read() returns
    writePointer,              \* the slot the next push() fills
    instructionsQueued         \* how many slots were ever filled

iimVars == <<queue, readPointer, writePointer, instructionsQueued>>

Slot == 0..(InstructionCount - 1)

\* A slot no push has filled yet: its pointer is uninitialised in the code.
Unfilled == [op |-> "NONE", val |-> 0, lvl |-> 0]

\* Mutant: the pointer is not wrapped.
AfterUnwrapped(pointer) == pointer + 1

After(pointer) == (pointer + 1) % InstructionCount

IIMInit ==
    /\ queue = [slot \in Slot |-> Unfilled]
    /\ readPointer = 0
    /\ writePointer = 0
    /\ instructionsQueued = 0

isFull == instructionsQueued = InstructionCount

\* Mutant: a full buffer goes on counting.
PushCountingAll(instr) ==
    /\ queue' = [queue EXCEPT ![writePointer] = instr]
    /\ writePointer' = After(writePointer)
    /\ instructionsQueued' = instructionsQueued + 1

\* push() overwrites the oldest instruction when the buffer is full.  It
\* leaves the read pointer on the new write pointer, After(writePointer).
Push(instr) ==
    /\ queue' = [queue EXCEPT ![writePointer] = instr]
    /\ writePointer' = After(writePointer)
    /\ instructionsQueued' =
          IF isFull THEN instructionsQueued ELSE instructionsQueued + 1

\* read() leaves the contents alone and moves the read pointer to
\* After(readPointer).
ReadKeeps == UNCHANGED <<queue, writePointer, instructionsQueued>>

\* Mutants: the jump itself is not counted, or counted twice.
EnoughForBody(queued, n) == queued >= n
EnoughAndOne(queued, n) == queued >= n + 2

\* displaceReadPointer(n) throws unless n + 1 instructions were queued.
Enough(queued, n) == queued >= n + 1

\* Mutant: the code kept under ORIG_CODE (lines 105-108), which counts from the
\* write pointer.
DisplacedFromWrite(pointer, n) ==
    (writePointer' + InstructionCount - n - 1) % InstructionCount

Displaced(pointer, n) == (pointer + InstructionCount - n - 1) % InstructionCount

=============================================================================
