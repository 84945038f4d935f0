# OPINCAA and its Connex simulator in TLA+

OPINCAA is a C++ library with which a host program assembles kernels for the
Connex vector processor at run time, sends them to the machine, moves vectors
between its own memory and the processor's local store, and reads back
reduction results.  The repository also has a simulator of the processor: a
process of its own, reached through four named FIFOs in place of the device
files of the board.  This directory is a specification of both: TLA+ modules,
TLC runs on small instances, and TLAPS proofs.

Source paths are relative to the repository.

## The system

| Component | State | Operations | Talks to |
|---|---|---|---|
| Runtime assembler, `core/Kernel.cpp`, `include/Kernel.h`, `include/CheckDataHazard.h` | the words of a kernel, the depth of open loops, a jump distance per open loop | `append`, `resetLoopJumpTarget`, `appendLoopInstruction`, the macros of `Kernel.h` | hands a kernel to the registry |
| Kernel registry, `core/ConnexMachine.cpp` | a static map of names to kernels, `mapMutex` | `addKernel` | read by `executeKernel` |
| Host API, `core/ConnexMachine.cpp` | four FIFO descriptors, `threadMutex`, `threadMutexIR`, one static I/O descriptor | `executeKernel`, `readReduction(Results)`, `writeDataToConnex`, `readDataFromConnex`, their Partial variants, post-processing of results | the four FIFOs; called by any number of threads |
| Simulator, core thread, `simulator/src/ConnexSimulator.cpp` | loop depth, a counter and a replay flag per depth, the register file, flags | `coreThreadHandler`, `executeInstruction`, the energy and cycle statistics | reads the distribution FIFO, writes the reduction FIFO, shares the local store |
| Internal instruction memory, `simulator/src/InternalInstructionMemory.cpp` | a ring of the last instructions, read and write pointers, a count | `push`, `read`, `displaceReadPointer` | used by the core thread alone |
| Simulator, I/O thread | the descriptor being served | `ioThreadHandler`, `performIO`, `force_all_io` | the two I/O FIFOs, the local store (no lock) |
| Vector lanes, `simulator/src/ConnexVector.cpp` | cells, an active flag and a gated flag per lane, static carry/equal/less flags | arithmetic, predication, shifts, reductions | core thread |
| Instruction codec, `arch/connex16-hm-generic` | none | assemble, decode, getters | assembler and simulator |
| Operand DSL, `core/Operand.cpp` | none | overloaded operators that append instructions | assembler |
| Loop pass, `validateAndOptimizeRepeatLoops` of `core/Kernel.cpp` | tables of the loops of a finished kernel | writes out loops the machine has no counter or no memory for | public; nothing in the repository calls it |
| LLVM generator, `genLLVMISelManualCode` of `core/Kernel.cpp` | a variable name per register, flags for WHERE, REPEAT and gating | prints the selection code of a region of a kernel | called by the programs of `examples/Emulate_*` |
| Selected functions, `Select_*`, `DumpISel_*` of `examples/Emulate_f16`, `Emulate_f32` | none | the generator's output for sums and products of f16 and f32, kept in the repository | included by the back end's instruction selection |
| Kernels of the examples, `examples/` | rows of the local store | integer and half-float arithmetic the lanes do not have, reductions, scan, sort | written with the operand DSL, executed by the lanes, fed to the generator |

What is hard to get right in it:

* **Replaying loops from a ring.**  A loop body arrives once, through a pipe
  that cannot be rewound, and is replayed from a ring that overwrites its
  oldest slot.  The decision "pipe or ring" is taken from per-depth flags, the
  start of a body is found by a distance the *assembler* computed, and nested
  loops are entered for the first time while an outer loop is being fetched and
  again while it is being replayed.
* **Jump distances.**  The assembler counts instructions per open loop while
  it adds NOPs for data hazards nobody wrote in the program.
* **Two processes, four bounded FIFOs, two mutexes.**  A host thread holds a
  mutex while it is blocked on a FIFO; the simulator's core thread blocks on
  the reduction FIFO in the middle of a kernel.  Kernels are *asynchronous*,
  transfers are not, and the I/O thread changes the local store under the core
  thread.
* **One process gone.**  The simulator calls `exit()` on any exception.

`PROJECT.json` lists the hazards line by line with the properties that would
catch them going wrong.

What makes each component correct:

* core thread and ring: a stream of words executes as it would on an unlimited
  memory with an instruction pointer, and REPEAT(x) means x executions of its
  body; the one permitted exception is a throw for a body that does not fit;
* assembler: what END_KERNEL hands over is well nested with right jumps, and
  no two instructions executed one after the other have a data hazard;
* host API and threads: transfers are atomic between threads and return;
  results of concurrent reads do not mix; a program that synchronises by
  reductions sees a sequential machine; a program ends if and only if the
  FIFOs are sized for it;
* lanes: what a kernel's statements say in the arithmetic of each lane is what
  is in registers, local store and reduction FIFO at its end: predication and
  gating decide which cells change, carries chain, reductions are sums over the
  lanes that take part; the simulator stops only in kernels that mean nothing;
* codec and operand DSL: the simulator sees of each word the instruction that
  was constructed, with its operands in their places;
* loop pass: a rewritten kernel means what the built one means;
* generator: the back end keeps the order of the kernel, and each node finds in
  its operands the values the instruction finds in its registers, in lanes that
  were left out of an assignment too;
* example kernels: the numbers they compute are those of integer arithmetic;
* selected functions: the nodes do what the kernel did that they were made from,
  and their results are the floating-point numbers next to the exact ones, as
  far as the kernels promise it.

## The modules

| Module | Models | Source |
|---|---|---|
| `LoopNest` | the shape of streams that the assembler's macros produce (`WellNested`), and when a loop fits the ring | `Kernel.h`, `Kernel.cpp`, ring |
| `InternalInstructionMemory` | the ring | `InternalInstructionMemory.cpp` |
| `CoreThread` | `coreThreadHandler` and the loop opcodes, over the ring and the distribution pipe | `ConnexSimulator.cpp` |
| `InstructionPointer` | abstract specification: an unlimited memory with an instruction pointer | comment above `coreThreadHandler`'s loop |
| `CoreThreadProofs` | the theorems about `CoreThread` | |
| `Kernel` | the assembler, one action per macro; `CheckDataHazard` and the operands instructions seem to have | `Kernel.cpp`, `Kernel.h`, `CheckDataHazard.h`, getters of `Instruction.cpp` |
| `KernelProofs` | the theorems about `Kernel` | |
| `MachinePipes` | the four FIFOs and the format of the I/O descriptor | both sides |
| `ConnexMachine` | the host API, called by several threads | `ConnexMachine.cpp` |
| `SimulatorThreads` | core and I/O thread around the local store | `ConnexSimulator.cpp` |
| `AtomicTransfers` | abstract specification: a transfer takes place at one moment | |
| `ConnexSystem` | host and simulator composed, the refinement mapping, fairness | |
| `ConnexSystemProofs` | the theorems about `ConnexSystem` | |
| `SynchronousMachine` | the sequential machine a synchronised program may expect; which programs are synchronised, and for which the FIFOs are big enough; whose results threads read that share the machine | |
| `SynchronousMachineProofs` | the theorems about the calls of a thread that is alone, and of threads that share the machine | |
| `Induction` | lemmas on induction that the other proofs cite | |
| `Instruction` | opcodes, formats, constructors, `assemble`, getters | `Instruction.h`, `Instruction.cpp` |
| `Operand` | what each operator and macro of a kernel appends, with short forms of the statements | `Operand.cpp`, `Kernel.h` |
| `ConnexVector` | the lanes' arithmetic, flags, shifts and sums | `ConnexVector.cpp` |
| `ConnexLanes` | `executeInstruction` over registers, flags and local store, one action per kind of instruction | `ConnexSimulator.cpp`, `ConnexVector.cpp` |
| `KernelMeaning` | reference: what statements mean, lane by lane, in integers | |
| `KernelExecution` | a kernel from its statements to what the host reads | `ConnexMachine.cpp`, the modules above |
| `ConnexVectorProofs` | lemmas on cells, bits, shifts and sums | |
| `KernelExecutionProofs` | the theorems about what kernels do | |
| `RepeatUnrolling` | the loop pass, one loop per step, on kernels that `Kernel` builds | `Kernel.cpp` |
| `InstructionSelection` | the generator, one action per case of its switch | `Kernel.cpp` |
| `SelectedCode` | a region and its nodes executed side by side, as the back end allocates registers | external |
| `SelectedCodeProofs` | the theorems about the order of nodes and their values | |
| `EmulatedIntegers` | kernels of numbers of two and four cells | `examples/Emulate_i32`, `Emulate_i64` |
| `EmulatedCells` | product and quotient of cells | `examples/Emulate_i16` |
| `LanePatterns` | maximum, prefix sums, bubble sort | `examples/RED-Max_i16`, `Scan_SUM_i16`, `Sort` |
| `EmulatedKernels` | these kernels on the lanes, with their hosts, and the arithmetic they are to do | |
| `SelectedNodes` | the shape of a node in the files of nodes, and the four files, row by row | `Kernel.cpp`'s output: `Select_ADDf16_OpincaaCodeGen.h`, `Select_MULTf16_OpincaaCodeGen.h`, `DumpISel_OpincaaCodeGen.cpp` of `ADDf32_manual` and `MULTf32_manual` |
| `SelectedFunctions` | these nodes, and the statements they stand for, executed side by side | the files above, `ConnexSimulator.cpp`, `ConnexVector.cpp` |
| `FloatNumbers` | reference: sums and products of binary floating-point numbers | |
| `MC*` | instances for TLC | |

Operators named as mutants in a comment are wrong variants of the definition
below them; nothing uses them but the mutation tests of the properties.

### CoreThread and InternalInstructionMemory

One step of `Step` is one turn of the thread's loop: take an instruction (from
the ring if `Replaying`, else from the pipe, which pushes it into the ring),
execute it, look its energy up.  `codeIn2nd` is
`codeIn2ndLoopIterationForNestDepth`, `repeatCounter` is
`repeatCounterForLoopOfNestDepth`, `countSetlc` the static counter that tells
the two `_SETLC` of a REPEAT apart.  `stream` is everything the host will send,
`written` and `fetched` are positions in it: the pipe is what lies between.
Instructions that do not sequence loops are one class, `OTHER`, with a tag.
`_ENABLE_ALL_CELLS` and `_DISABLE_CELL` are a class of their own, `GATE`,
because of the assertion they run into.

Left out: `startReadPointerForLoopOfNestDepth` (it is reset to -1 by each
outermost SETLC and never set, so the branch that reads it is dead),
`REPEAT_REDUCE` (its word cannot be decoded), cycle and energy sums.  A jump
that throws ends the process (`failure = "throw"`), as the handler's `catch`
does.

### Kernel

`instructions`, `loopNestDepth` and `jumpTarget` are the members of the class.
`opened` remembers which macro opened each loop, so that the program that uses
the macros is any well-bracketed one.  `%  JumpRange` is the 16-bit immediate.

### ConnexMachine, SimulatorThreads, ConnexSystem

`call[c].at` says in which call a thread of the program is, `sent` and `got` how
far it got; a `write()` or `read()` on a FIFO is one step per word, result,
descriptor or row, and blocks on a full or empty FIFO.  A result being written
by a blocked core thread sits in `reporting`.  The I/O thread goes through
`write` (collecting rows), `store` (one row per step, visible to the core
thread), `ack`; or `read` (one row per step).

Abstractions: a kernel is the list of instructions it executes (loops make no
difference to that: `ImplementsUnlimitedMemory`); a row is one value and the
register file one register, so an instruction is VLOAD, IREAD, IWRITE, RED or
one that throws; a FIFO holds whole words, results, descriptors or rows (the
library's loops make partial reads and writes invisible, and the FIFO's
capacity in bytes is a parameter of the run in any case); the registry of
kernels is complete.

### Instruction, Operand, ConnexVector, ConnexLanes, KernelExecution

A kernel is a sequence of statements (`Operand!Statement`); `Emitted` gives the
instructions each appends, `Assembled` their words, and `ConnexLanes` takes one
word per step, decodes it and executes it.  A word is a record of the bit
fields at whose boundaries either format is cut, so a field read with the wrong
format gives the wrong number here too.  A cell is the unsigned number of its
bits.  `flags`, `mult` and `shiftReg` are the static vectors of `ConnexState`;
they are what it starts with, zeros, and the run's kernels find registers and
selections of their choice, since the simulator outlives a kernel.

Undefined behaviour: a shift by a register whose value is negative or above 31
shifts by *some* number of positions, in each lane.  A failed assertion and the
endless loop of a rotation by a negative number are a `failure`.

`KernelMeaning` knows no opcodes and no flags: a WHERE asks, in each lane, how
the last comparison, sum or difference of that lane came out.  What the code
does not promise has no meaning (`defined` is FALSE): a carry asked for after
anything but a sum or difference, a carry out of ADDC or SUBC (executed as two
sums, the first of whose carries is lost: all ones plus the carry; zero minus
the borrow), a comparison of lanes that took no part in the last one, a row
that does not exist, a negative number of positions or cells, and enabling lanes
that a WHERE left out: a WHERE takes the selection of a lane that is gated off from
flags the lane has kept from earlier, and ENABLE_ALL_CELLS brings the lane back
with it, so gated lanes come back only while all of them are selected.

NOPs for data hazards are left out here (module `Kernel`), and so are loops
(module `CoreThread`).  SCAN cannot be constructed: `type_for_opcode` has no entry
for its opcode.

### RepeatUnrolling

The pass takes one table of the loops of a built kernel and then, one step per
loop from the last to the first, keeps a loop or writes it out.  Positions are
those of the word sequence, the tables (`startInstrIndexLoop` and the others)
are records.  Taken from the code, and visible in `LoopsKeepTheirMeaning`, which
excepts exactly these cases:

* the table is not renewed when a loop inside is written out.  The comment at
  `core/Kernel.cpp:562-565` says no index used later changes; the end of a loop
  that holds a written-out loop does, so of nested written-out loops the outer
  copies the wrong words;
* the jump of a loop that stays, around one that is written out, is corrected
  only if it is `_IJMPNZ`; REPEAT_SIMPLE's keeps its old distance.

Copies are not checked for data hazards again.  A loop that is not outermost
and for which no repeat is left ends in the assertion at line 570.  `MemorySize`
is the memory a loop has to fit; `UnrollingAssumption` keeps it above the size
at which the final resize would leave old words at the end.

### InstructionSelection and SelectedCode

`Generate` handles one instruction per step.  A node has its operands, the
number of its results, the edge that orders it after the node before, and, for
an instruction whose destination keeps its value in some lanes, the definition
it is *tied* to.  What a back end makes of nodes is not in the repository; the
comments of the generator say what it relies on (ties name the register, edges
the order), and `SelectedCode` executes nodes in that way and no other: one lane,
with any outcome of each WHERE, any number of turns of each REPEAT, and values
known by the step that computed them.  The back end's place for a node (`PlaceOf`) is
the node itself or, if it is tied, the place of what it is tied to.  Regions with a store (`ST_H` has no operand with
its data) are among those whose generation ends in an assertion.

### EmulatedIntegers, EmulatedCells, LanePatterns, EmulatedKernels

Kernels are sequences of statements, executed word by word as in
`KernelExecution`.  They are written for lanes of 16 bits, 128 of them: 16 has
become `RegisterBits` and 128 `VectorLength`, wherever the source means the size
of a cell or the number of lanes.  C loops and REPEATs are written out, one NOP
stands for a number of NOPs that is computed, and the tables that hosts write
are rows of the local store.  `ScanKernel` is given any vector where the source
has lane numbers.  Rows are as many as a run's operands need.

### SelectedNodes, the tables of nodes, SelectedFunctions

A file of nodes is C++ text that the generator wrote, and the back end includes:
one `getMachineNode()` per instruction, under a comment with the statement.  A
table has a row per node: the opcode, the registers of the *statement*, the
operands and the tie of the *node* (numbers of nodes in the file), the
immediate.  What is the same for every node is left out: its types, and its
glue, which is always the node before.  So a table is a tenth of its file.

`SelectedFunctions` executes a table once on places (a node has its own, or that
of the node it is tied to) and once on registers, with the lanes' arithmetic of
`ConnexVector`, including 64 registers and the two halves of products.  `around`
is what places and registers hold before, and the number of positions of an
undefined shift: the functions shift by differences of exponents that are
negative or large in lanes where the result is not used.

What the runs fix about the results:

* f16 products are the nearest numbers, ties to even, with the right infinities,
  zeros and NaNs.  Results below the normal numbers are not compared: they are
  one unit off in places;
* f16 sums are one unit off at most, differences two, because mantissas are
  aligned in cells of 16 bits.  x + (-x) is *not* 0 but a power of two (run
  `f16_opposites`), eleven
  exponents below x, unless that exponent is below 2 (0x3c00 + 0xbc00 = 0x1000): the mantissa 0 is normalised like any other.  The
  test with the comment 'Checking that x + (-x) is equal 0'
  (`examples/Emulate_f16/ADD_SUB_f16_manual/output.cpp:1457`) takes 0x0880, for
  which it is;
* f32 results are exact if no rounding is needed, operands and result are normal
  and fewer than 16 leading bits cancel.  Elsewhere they are not: a carry out
  of the low half is lost when a result is rounded (0x3f000001 + 0x407fffff is
  0x408f0000), infinities and NaNs come out in the wrong halves, a sum that
  overflows is a NaN (0x7f7fffff twice is 0x7fffffff: the exponent is compared
  with 255, `examples/Emulate_f32/ADDf32_manual/output.cpp:1692-1693`, the
  greatest it can be, where 254 is meant), and a product that overflows takes
  its high half from a register nothing has set.

`MULTf32` has three nodes tied to no name (`SDValue(, 0)`,
`examples/Emulate_f32/MULTf32_manual/DumpISel_OpincaaCodeGen.cpp:1099`, 1825 and
1858), as the generator's own comment says (`core/Kernel.cpp:2346`): that text
does not compile.  Here such a node has a place that holds what the register
held.

## The runs

| Run | Question | Bounds |
|---|---|---|
| `core` | is what is executed what the programmer wrote, does the ring implement an unlimited memory, do streams end, does the invariant of the proofs hold? | all programs of up to 4 units nested up to 3 deep with trip counts 0 and 2, all nests of 4 loops with trip counts 1 and 2; REPEAT_SIMPLE around up to 2 units with trip counts 1 to 3, and around 3 with a trip count of 2; kernels that start with ENABLE_ALL_CELLS; ring of 12, counters mod 4, pipe of 2 |
| `core_nest5` | finding | a nest of 5 |
| `kernel_built` | is a built kernel well nested and free of hazards, and what does the loop pass make of it? | all kernels of about a dozen words, depth 3, a NOP, a READ and a WRITE that wait for each other in one order only; a memory of 9 for the pass, 0 or 1 nested hardware loops |
| `machine` | does a synchronised program of one thread see a sequential machine, and does it end iff the FIFOs are sized? Are transfers of three threads atomic, do they return, do reductions mix? | one thread: all programs of up to 3 calls out of 10, and 8-call rounds; three: five programs, kernels of several words, a kernel that kills the simulator; FIFOs of 1 or 2 |
| `machine_gone` | finding | 2 threads, one killing kernel |
| `lanes_kernels` | does `executeInstruction` do what a kernel's statements say, and what does the host read? | 4 lanes of 3 bits, 3 rows; each statement, and longer kernels for predication, addresses, products, rotations, gating and two-cell arithmetic, each on every pair of operands |
| `lanes_board` | finding | kernels with two sums, results of 5 bits |
| `emulated` | do the example kernels compute what integers say? | 8 lanes of 4 bits; boundary values for numbers of 2 and 4 cells, all pairs of cells, all vectors of two values for the sort |
| `emulated_division` | finding | all pairs of cells of 4 bits |
| `isel` | does selection code keep order and values? | the bodies of the i32 and i64 kernels, regions for REPEAT, gating and each instruction; 2 jumps back |
| `selected_functions` | do the nodes do what their kernels do, and are the results right? | 16 lanes of 16 bits; every pair out of 48 f16 and out of 24 f32 (the ends of each kind of number, exponents 0 to 30 apart, ties, cancellation); registers of zeros, and of a pattern no constant has |
| `f16_opposites` | finding | 48 f16 and their opposites |

Why the bounds are enough to be interesting: the ring is *smaller* than some
of the loops (so overwriting, the throw, and a body exactly as long as the ring
occur), three levels suffice for a loop to be first entered while fetching and
again while replaying, a loop entered again between the two; REPEAT(0) and its
wrap-around are in.  For the FIFOs, capacities of 1 and 2 against kernels of 3
words and 3 results let every FIFO be full and empty with any party blocked.
The assembler's limit on depth is reached and exceeded by one, and with two
levels written out by the loop pass, its tables go stale.  Cells of three
bits are the smallest in which sign, carry and order differ in all their
combinations, and every one is enumerated: each lane meets all pairs of
operands, and all quadruples for numbers of two cells.  Immediates keep their
16 bits and register numbers reach both ends of their field.  Four bits are the
smallest cell in which a kernel's constants (2, 3, a shift by half a cell) do
not meet its limits.  For floating-point numbers, whose formats need cells of 16
bits, pairs are chosen: each selection of the four kernels takes some lane of
some call, but for three of `ADDf32` that none can (an exponent above 255,
twice, and a sum of 32 bits that is to lose more than 15).

The five runs with a violation show disagreements between code and its own
comments, assertions or tests; `PROJECT.json` quotes each:

* the thread's condition sees four replay flags, its comment asks for all: with
  five nested loops it reads the pipe in the middle of a replay
  (`simulator/src/ConnexSimulator.cpp:492`);
* `readDataFromConnex` says it throws when it cannot read; it goes round a loop
  for ever (`core/ConnexMachine.cpp:169`);
* `readCorrectReductionResults` is to sign extend the results of the board, of
  23 bits; it does so if the *status* of the read is big, which is 0
  (`core/ConnexMachine.cpp:822`);
* a lane of the quotient's kernel whose rest becomes zero before the loop ends
  does not get its signs: -6 / 2 is 3, where the program's test compares with C's
  `/` and `%` (`examples/Emulate_i16/DIV_i16_manual/output.cpp:785`);
* x + (-x) in f16 is a power of two, where the test says that it is equal to 0
  (`examples/Emulate_f16/ADD_SUB_f16_manual/Select_ADDf16_OpincaaCodeGen.h:2826`).

The passing properties beside the last three leave the cases out and ask
nothing of them: `ResultsAreSums` has ints of the simulator and results cut to a
cell from either FIFO, `DivisionWithRest` the operands that leave a rest or have
no sign, `SumsAreClose` x + (-x) for small x only.

More were met and have no run of their own:

* the ties of `MULTf32`, described above;
* the length of a loop, whose check the assembler leaves to the simulator, which
  sees it modulo 2^16 (`core/Kernel.cpp:2723`; the streams of `CoreThreadProofs`
  exclude it);
* the energy table ends in assert(0) for every opcode it does not list
  (`simulator/src/ConnexSimulator.cpp:430`), and does not list
  `_ENABLE_ALL_CELLS`, `_DISABLE_CELL` and `_BIT_REVERSE`, which
  `executeInstruction` implements.  BEGIN_KERNEL (`include/Kernel.h:101`) emits the
  first in every kernel while `useLaneGatingOnConnex` is true, its default: such a
  kernel stops the simulator after its first instruction.  Action `Gate` of
  `CoreThread` does just that, in `core` too, whose properties hold up to there
  (`ExecutesMeaning` leaves these kernels out: nothing is executed).

`AccessesFailOnlyOnMisuse` and `DoesWhatIsWritten` of `lanes_kernels` are about
`executeInstruction` and the functions it calls.  After each instruction the core
thread looks its energy up, and the table's assertion stops the simulator on
ENABLE_ALL_CELLS, DISABLE_CELL and BIT_REVERSE, kernels of which this run executes
and gives a meaning.  So what is shown of gated lanes and of reversed bits is what
`executeInstruction` does with them, not that such a kernel reaches its end on the
simulator: there it does not, as the last item above says.

`CHECK_DEADLOCK FALSE` is in the runs of `Kernel` (a kernel that is built, or an
assertion that failed, is the end) and of `ConnexSystem` (its `Quiet` lets a
finished or blocked system stutter, and blocking for ever is a legitimate end
there: `FinishedMeansSized` says exactly when).  The others stutter only when
finished (`Rest`), so that a stop anywhere else is found.

## Fairness

* `CoreThread`: weak fairness of the host's `write` and of the thread's step,
  two preemptively scheduled processes.  Strong fairness of `LeaveSimple` stands
  for the data: a REPEAT_SIMPLE loop ends when a sum over the lanes becomes
  zero, and only programs whose sums do are expected to finish.
* `ConnexSystem`: weak fairness of each client thread, of the core thread and
  of the I/O thread, again the operating system's scheduling.  `std::mutex` is
  not fair, and no fairness of its acquisition is assumed: a program's calls
  are finitely many, so other threads cannot overtake for ever.

`Finishes`, `SizedFinishes` and `TransfersReturn` depend on these.

## What is proved

Nothing is assumed but the named assumptions of the modules, which TLC evaluates,
and what a theorem states as its hypothesis.  Eight modules hold proofs:
`CoreThreadProofs`, `KernelProofs`, `SelectedCodeProofs`, `ConnexSystemProofs`,
`SynchronousMachineProofs`, `KernelExecutionProofs`, and the lemmas of `Induction` and
`ConnexVectorProofs`.

`CoreThreadProofs` proves, for every size of the ring, every nesting limit above
3, every counter width and every set of streams, that

* `Invariance`: `Spec => []CountedInv`: whenever the stream is one of counted loops,
  `IInv` holds;

and, of the behaviours in which the stream is one of these (`CountedSpec`: `Spec`, and
the stream is `WellNested` at most four loops deep and has no `_IJMPNZ_RED`), that

* `TypeCorrect`: `CountedSpec => []TypeOK`;
* `ThrowsOnlyOversized`: `CountedSpec => []ThrowMeansOversized`;
* `ReplayHeld`: `CountedSpec => []ReplayIsHeld`;
* `OpenFlags`: `CountedSpec => []FlagsAreOpen`: no replay flag outlives its loop, at
  whatever instruction the thread stops;
* `ReplaySeen`: `CountedSpec => []EveryReplaySeen`: the four flags of the thread's
  condition are all that are ever set;
* `DepthAccepted`: `CountedSpec => []DepthAssertHolds`, where the arrays allow five
  levels or more: the two SETLC of a loop stay paired, over all replays;
* `Refinement`: `CountedSpec => ImplementsUnlimitedMemory`, the step simulation of
  `InstructionPointer`.

Assumptions: `InstructionCountAssumption` and `CoreAssumption` (the constants are
of the right kind).  Four loops is where the thread's condition stops looking
(`core_nest5` is the counterexample at five).  The streams of `core` with a
REPEAT_SIMPLE are beyond the theorems; TLC checks the same properties of them.

The argument.  None of the properties is inductive, since they say nothing
about what lies in the ring.  `IInv` adds three facts: `Recorded`, the slots
behind the write pointer hold the last words fetched, in order; `AtDepth`, the
simulated depth is the depth at which the word at the instruction pointer was
assembled, with the second `_SETLC` of a pair as the exception; and `Placed`,
either nothing is replayed and the read pointer is at the write pointer, or the
word fetched last is the jump of the outermost flagged loop, the read pointer
is inside that loop's body, and the body is in the ring.  A jump of an inner
loop then stays inside the outer body because the stream is well nested; a jump
from the pipe fits because `displaceReadPointer` has compared the distance with
what is queued; a push can only happen when nothing is replayed.  TLC checks
`CountedInv` in `core`.  `IInv` speaks of a thread that has not failed;
`Nested` carries the part about depth and flags over the step at which it does.

`SelectedCodeProofs` proves, for every set of regions,

* `Reordering`: `Spec => []NothingIsReordered`: each node follows the node before
  it by the edge of the order or by an operand that is its result.

Its assumption is `RegionsAssumption` (destinations are registers or none).  The
strengthening, `OrderInv`, says that the last definition of the register the
instruction before wrote is the last node, which is why ADDC and SUBC, whose
edge is missing, are ordered by the operand that stands for the carry.

It proves also, of a region that is `Regular` and the code the generator makes of it,

* `SelectedValues`: `Spec => [](Regular(region) => ReadsTheSameValues)`: in a lane that
  takes part, a node finds in its operands what the instruction finds in its
  registers, whatever each WHERE selected and however often each REPEAT went round.

`Regular` names what the generator relies on in its kernels and does not check:
operands are registers and their nodes have them (those of IWRITE and BIT_REVERSE
do not); a jump goes back over a body with no REPEAT in it; the body begins under the
selection it ends with, so that turns after the first select no more lanes; and no
register gets its first value in the body under a WHERE or a lane gating, since
such a node is tied to nothing and the next turn finds another place.  TLC finds a
region that loses a value for each condition that is dropped.  The regions of
`isel` are `Regular` but for those that the generator refuses, and TLC evaluates that
(`RegularRegions`); the theorem holds for every set of regions.

The argument has two halves.  `ValueInv` is about the generator: after each
instruction the last definition of a register is a node for the last instruction that
wrote it (`NamesTell`); a node is tied exactly if its instruction may leave lanes
alone and its destination had a value, and then to the definition before it (`TieOf`),
for which the generator's flags have to say under which selection it is
(`FlagsTell`); and a node's operands are the definitions that were last when it was
made (`InputsOf`).  So all definitions of a register from one that no selection
limits to the next have one place (`PlaceRule`, `HomeOfRegister`) and those of two
registers have two (`HomesDiffer`).  `ExecInv` is about the execution: the place that
holds a register's last definition has the register's value, in a lane that is
left out as well (`HeldBy`); and in the body of a loop, where an operand may be a
definition from before the loop while the register was written again in the turn
before, that definition and the last one of the body have one place
(`BodyKeepsPlaces`, `FromRoundBefore`).  A step of a node keeps both (`ComputeExec`), and
a jump goes from the end of the body to its beginning with them (`JumpExec`).

`KernelProofs` proves, for every set of instructions and trip counts, every limit
on depth and kernels of any length the jump field has room for, with or without
the check for data hazards, that

* `TypeCorrect`: `Spec => []TypeOK`;
* `Nesting`: `Spec => []BuiltIsNested`: what END_KERNEL hands over is well nested,
  each jump going back to its loop;
* `Hazards`: `Spec => []NoHazardLeft`.

Assumptions: `KernelAssumption` (the constants are of the right kind; word 0 is the
NOP), `JumpAssumption` (kernels are no longer than the range of the jump field, so
that no distance is cut), and for `Hazards` also `OperationAssumption` (READ, WRITE
and IWRITE name registers, which their constructors see to).

The argument.  `BuiltIsNested` speaks of kernels that are built; the strengthening,
`NestInv`, says of a kernel in the making that it is nested but for its open loops,
and where the body of each open loop begins: at `Len(instructions) + 1 -
jumpTarget[d]`.  Appending a word moves the end and, by `Counted`, every target
with it, so the beginnings stay (`SameBegins`), whether the word is the program's
or a NOP for a hazard; this is what counting in the innermost loop only would
break.  Opening a loop adds a beginning, closing one makes it the target of a jump.
A pair of `_SETLC` is never taken for the second half of an earlier one, because
that one's depth is smaller.  For hazards the invariant is that neighbours are
harmless; back edges add nothing, because the only thing a jump seems to write is
register 0.

With `Nesting`, what `CoreThreadProofs` assumes of its streams is shown for kernels
that use REPEAT alone, at most four deep.

`ConnexSystemProofs` proves, for any number of threads, any programs, any kernels
of the modelled instructions and FIFOs of any size, that

* `TypeCorrect`: `Spec => []TypeOK`;
* `Protocol`: `Spec => []IInv`;
* `AtomicTransfersImplemented`: `Spec => TransfersAreAtomic`, the step simulation of
  `AtomicTransfers`: as long as the program does not read rows that kernels store to
  (`ReadsTransferRows`: there the core thread and the I/O thread race, and nothing
  is atomic), every step is one of an atomic transfer or none of its business;
* `AtomicTransfersSuffice`: `Spec => Atomic!Spec`, the specification of
  `AtomicTransfers` itself, if no program at all reads such rows.

Assumptions: `PipesAssumption` (sizes are positive; the zeros of a fresh local store
are values), `ClientAssumption` and `RequestAssumption` (programs are sequences of calls; a
transfer is of one row at least), and `KernelsAssumption` (kernels are of the
instructions of `Word`).  Rows a request names need not exist: that the masks of the
descriptor cut nothing follows from the check with which both calls begin, and
is part of the invariant.

The argument.  `IInv` says that a client is in a transfer exactly while it holds
`threadMutex` (`Locked`); that the FIFOs to and from the I/O thread are empty and the
thread waits while nobody holds it; and that while somebody does, his transfer
is `Moving`: what is in `ioWrite` are the items last sent, in order, and what the
thread has taken, what is in `ioRead` and what the client has received belong
together, in one of seven stages from `NotReceived` to `Acknowledged` or `Sent`.  Every
step of the protocol goes from a stage to itself or the next one (`SendItemInv` to
`SendInv`), every other step leaves the four alone.  For the refinement, a
write takes place when the I/O thread takes its last row and a read when it
takes the descriptor: until a row is stored, `StoreView` shows it already, and
what a read has received, what is on its way and what is still to be sent are
always the same rows together (`MovedView`).  A step of a kernel leaves these rows
alone, which is where `ReadsTransferRows` is needed.

`SynchronousMachineProofs` proves, for a thread that is alone (`Alone`: the others have
nothing to call), whatever its program, its kernels and the sizes of the FIFOs, that

* `OnlySizedProgramsEnd`: `Spec => []FinishedMeansSized`: a program that has ended
  read no more results than its kernels compute, and whenever it sent a kernel, the
  words after the reduction that finds its FIFO full fit the distribution FIFO;
* `SynchronisedIsSequential`: `Spec => []AnswersAreSequential`, if no kernel makes the
  simulator throw: the answers of a synchronised program are those of a machine that
  executes a kernel before `executeKernel` returns.

and for any number of threads that share the machine, whatever else they call, that

* `ReadsAreOfOneKernel`: `Spec => []ReadsOneKernel`: a read returns the results of one
  kernel, whole and in order, if the kernels that compute results all compute equally
  many (`KernelsCompute(count)`: they run to their end and reduce constants they
  have loaded themselves, so that their results do not depend on the local store) and
  every read asks for that many (`ReadsAskFor(count)`).  Kernels that compute no
  results may be executed in between, and may make the simulator exit.

The assumptions are those of `ConnexSystemProofs`.  That a thread is alone, and what
kernels compute and reads ask for, is part of the properties, so that they can be
asked of the programs of one thread and of three in the same run; only that no kernel
throws is a hypothesis of the second theorem.  (The kernels of `machine` include one
that does; no program of a single thread executes it.)

The argument.  On top of `IInv`, `Counted` relates the words that were sent, those
that wait in the FIFO and the reductions among those fetched to the results that
are received, in the FIFO or about to be written; that a call sends while the
core thread is blocked is then a bound on both FIFOs (`SizedSoFar`).
`SequentialSoFar` says that the actual machine, if it executed the words that wait
at once, would be the sequential machine after the calls that have returned and
what the call under way has sent: a step of the core thread moves a word from one side
of that equation to the other.  A transfer may be answered in the middle of it
because a synchronised program has read a result that comes after the last
instruction that uses its rows, so that what still waits leaves them alone.

For threads that share the machine, `SharedInv` puts together what goes through the
two FIFOs that `threadMutexIR` guards.  `Outgoing` are the words in the distribution FIFO and those
its holder has still to send, `Unreturned` the results its holder has received,
those in the reduction FIFO and the one being written.  `Explained` says that there are a
sequence of whole kernels' words and the sequence of their results, such that
`Outgoing` is a suffix of the first, `Unreturned` lies in the second, after a
multiple of `count` results, up to the reductions executed so far, and the register holds
what the last word to load it loaded.  `executeKernel` appends a kernel at once
(`KernelExplained`, `LockedIR`: nobody else is between two words), the core thread moves
the border (`FetchExplained`, `RedExplained`), and a read that returns takes
`count` results from the front, which are therefore a kernel's (`ReadExplained`).
Without the mutex `Collected` would be of several readers and the block be torn, which is
the mutant of `ReadsOneKernel`.

`KernelExecutionProofs` proves, for any set of kernels of written statements, whatever
they find in registers, local store and selection, for any number of lanes and any
width of the cells up to 16 bits, that

* `LanesAreTyped`: `Spec => []TypeOK`: every address, shift and conversion stays in
  its cell, its row and its lane;
* `KernelStaysWritten`: the words in the memory are the assembled statements;
* `WordsAreDecodedAsConstructed`: `Spec => []DecodedAsConstructed`: the simulator sees
  of each word the instruction that was constructed;
* `KernelsDoWhatIsWritten`: `Spec => []DoesWhatIsWritten`: at the end of a kernel that
  has a meaning, every cell of the registers and of the local store, and every result
  sent, is what the statements mean in the arithmetic of integers;
* `KernelsFailOnlyOnMisuse`: `Spec => []AccessesFailOnlyOnMisuse`: assertions of
  `loadFrom` and `storeTo` fail, and `shift` does not end, only in kernels that have no
  meaning (other assertions, as the energy table's, are not considered);
* `WideKernelsCompute`: `Spec => []WideArithmetic`: the kernels of `KernelExecution` that
  compute with numbers of two cells leave their sums, differences, products and
  absolute values, and what REDUCE and REDUCE_U send of these adds up to their sum;
* `HostGetsSums`: `Spec => []ResultsAreSums`: results cut to a cell are the sums
  whichever FIFO they come from, because the board's bits are a cell's and more
  (`ResultBitsHoldACell`), and ints are if the simulator sends them.

Assumptions: `VectorAssumption` (a register has a bit at least; the number of lanes is a
power of two from 2 to 1024, as the hardware's), `LanesAssumption` (registers have
numbers of five bits; rows are 0 to a last one that an immediate can name),
`KernelsAssumption` (kernels are of statements as `Operand` constructs them),
`WidthAssumption` (a register is no wider than an immediate).  Loops and NOPs are not
part of these kernels.

The argument is a simulation in steps of one statement.  `KernelMeaning` gives the
state of the lanes before the kernel and after each statement (`CourseOf`), in
integers and with no opcode, flag or mask.  `Agrees(m)` says that the simulator's
state is what `m` says: cells hold the numbers, cut to their bits; the selection
is the two masks together; the flags of a lane are those of the operator that `m`
remembers for it, where a WHERE may still ask; product, shift register and sums
agree.  For each form of statement a lemma shows that executing its word leads from
`Agrees(m)` to `Agrees(Meaning(st, m))` if that is defined (`StatementAgrees`); a product is
two words, with `Multiplied` between them.  `Followed` says where on its course a
run is, and since no statement gives a meaning back to a kernel that has lost it
(`MeaningContinues`), a kernel that has one at its end has one all the way.  What
the words are is `KernelStaysWritten` with the round trip of `Instruction`'s fields.
Below it lie the lemmas of `ConnexVectorProofs`: a cell is the number of its bits,
what is stored in a cell and read back is the same modulo the number of its values, AND,
OR, XOR, NOT and the shifts are what they are in arithmetic, a rotation by rounds is
one by its count, sums are independent of the order of lanes.

`WideKernelsCompute` needs no simulation of its own.  `DoesWhatIsWritten` says that the lanes
hold what the statements mean, so that the kernels are evaluated in their meanings
(`Steps`): a lemma for each form of statement says what it leaves in which lanes
(`Assigned`), in numbers with a sign of which a register keeps the lowest bits
(`Wrapped`).  Each such number may be computed further without cutting it in between
(`ValueOfWrapped`), and the carry that ADDC takes is that of the ADD before it
(`CarryOfCells`).  What is left is arithmetic: halves with a carry, and products of
halves, are the pair modulo the square of `Values` (`SumOfPairs`, `ProductOfPairs`), zero less
a pair is its absolute value if its upper half is negative (`PairNegated`), and sums
of halves over the lanes make the sum of pairs (`SumOfHalves`).

The attempt at the proof found an error in the meaning, which TLC had not: a kernel
that enables lanes a WHERE did not select had been given a meaning the simulator
does not follow, and no kernel of the run did so.  `KernelMeaning` now says where
enabling is defined, and `lanes_kernels` has kernels for both cases.

Induction over data: the library's induction theorems take a predicate, which the
provers cannot instantiate.  `Induction` derives the same for *sets* of numbers from
the existence of a least element (`SetInduction`, `BoundedInduction`), and sums over
sets of lanes and bits go by `FS_Subset` and sets of sets in the same way.  The
recursive functions of the models (bits of a cell, rounds of a rotation, folded sums,
the words of a kernel, the course of its meaning) are reasoned about with these;
RECURSIVE operators are not.

Only model-checked: `Finishes`, `SizedFinishes`, `TransfersReturn` (liveness, out of
the prover's reach), streams with `_IJMPNZ_RED`, `ExecutesMeaning` and
`LoopsKeepTheirMeaning` (what they compare are executions of nested loops, the first by
RECURSIVE operators),
`ReadsTheSameValues` for regions that are not `Regular`, what the example kernels compute, and the
results of f16 and f32, which are compared number by number.

## What is not modelled

See the components of `PROJECT.json` for each.

* Printing: `disassemble`, `dump`, `DetermineDataToSaveForFission` (it prints what
  it finds), the wording of the generator's output.  Timing, command line, statistics, and
  the instruction queue nothing uses.
* The board: `writeCommand`, `checkAcceleratorArchitecture`.
* The registry of kernels and a second `ConnexMachine` (its static descriptor
  under a mutex of the first is listed among the hazards); the Partial transfers, which follow
  the protocol of the modelled ones.
* The third mode of `readCorrectReductionResults`, which increments an index
  twice in one expression, and the host's accumulation of half floats.
* `makeRepeatLoopsValidForIntermediateKernelCreation`, an older pass nothing
  calls.
* The C++ text of the kernels of f16 and f32 (sums and products are modelled
  from the statements in their files of nodes; quotients, square roots,
  comparisons and sums of vectors are not), and the hosts of the examples, which
  compare with the machine's own arithmetic.
* Earlier versions that were kept (`*_old*`), among them files of nodes.

## State of the plan

Done: the core thread with its proofs; the assembler with its proofs, and its loop pass; the
host and the simulator's two threads with their abstract specifications and the
proof that transfers are atomic;
the codec, operand DSL and lanes with their reference meaning and the proofs that
they have it and that numbers of two cells are computed with; the example kernels; the generator with the proofs that it keeps the
order and, for regular regions, the values; the sums and products
of f16 and f32; the proofs that a synchronised program is sequential, that
only sized programs end and that threads read the results of one kernel.

Left, in the order in which they would be worth doing: the
registry and a second machine in `ConnexSystem`; quotients of f16.
