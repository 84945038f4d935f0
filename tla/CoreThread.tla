----------------------------- MODULE CoreThread -----------------------------
(***************************************************************************)
(* ConnexSimulator::coreThreadHandler(): the thread that takes             *)
(* instructions from the distribution pipe or, inside the second and later *)
(* iterations of a loop, from the internal instruction memory, and the     *)
(* part of executeInstruction() that sequences loops.                      *)
(*                                                                         *)
(* One step is one turn of the thread's loop: take an instruction, execute *)
(* it, account for its energy.  Only the thread touches this state; the    *)
(* host is seen through the pipe alone.                                    *)
(***************************************************************************)
EXTENDS InternalInstructionMemory

CONSTANTS
    Streams,                   \* the instruction streams a host may send
    MaxDepthLoopNesting,       \* MAX_DEPTH_LOOP_NESTING
    CounterModulus,            \* 2^16: the counters are unsigned short
    DistributionCapacity       \* instructions the distribution pipe holds

ASSUME CoreAssumption ==
    /\ Streams \subseteq Seq(Instruction)
    /\ MaxDepthLoopNesting \in Nat \ 0..3
    /\ CounterModulus \in Nat \ {0}
    /\ DistributionCapacity \in Nat \ {0}

VARIABLES
    stream,                    \* everything the host sends
    written,                   \* how much of it the host has written
    fetched,                   \* how much of it the thread has read
    loopNestDepth,
    countSetlc,                \* which SETLC of a pair comes next
    repeatCounter,             \* repeatCounterForLoopOfNestDepth
    codeIn2nd,                 \* codeIn2ndLoopIterationForNestDepth
    failure                    \* what ended the process: a throw, an assert

pipeVars == <<stream, written>>
loopVars == <<loopNestDepth, countSetlc, repeatCounter, codeIn2nd>>
coreVars == <<iimVars, pipeVars, fetched, loopVars, failure>>

Depth == 0..MaxDepthLoopNesting

Init ==
    /\ IIMInit
    /\ stream \in Streams
    /\ written = 0
    /\ fetched = 0
    /\ loopNestDepth = 0
    /\ countSetlc = 0
    /\ repeatCounter = [d \in Depth |-> IF d = 0 THEN CounterModulus - 1 ELSE 0]
    /\ codeIn2nd = [d \in Depth |-> FALSE]
    /\ failure = "none"

-----------------------------------------------------------------------------
\* Kernel::writeTo(): one write(2) to the pipe, which may be partial and
\* blocks while the pipe is full.
HostWrite ==
    /\ failure = "none"
    /\ \E n \in (written + 1)..Len(stream) :
          /\ n - fetched <= DistributionCapacity
          /\ written' = n
    /\ UNCHANGED <<iimVars, stream, fetched, loopVars, failure>>

-----------------------------------------------------------------------------
\* Mutant: one depth fewer is tested.
FewerTestedDepths == {1, 2}

\* The depths whose flag the thread's condition tests besides the current.
TestedDepths == {1, 2, 3}

Replaying ==
    \/ codeIn2nd[loopNestDepth]
    \/ \E d \in TestedDepths : codeIn2nd[d]

Current == IF Replaying THEN queue[readPointer] ELSE stream[fetched + 1]

\* The read pointer once the instruction is taken.
Advanced == IF Replaying THEN After(readPointer) ELSE After(writePointer)

\* How many instructions the memory holds once the instruction is taken.
Held ==
    IF Replaying \/ isFull THEN instructionsQueued ELSE instructionsQueued + 1

\* Take an instruction of class op, from the memory or from the pipe.  The
\* action that uses it says where the read pointer ends.
Take(op) ==
    /\ failure = "none"
    /\ IF Replaying
       THEN /\ ReadKeeps
            /\ UNCHANGED fetched
       ELSE /\ fetched < written
            /\ Push(stream[fetched + 1])
            /\ fetched' = fetched + 1
    /\ Current.op = op
    /\ UNCHANGED pipeVars

Pass == readPointer' = Advanced

\* displaceReadPointer(), or the exception that ends the process.
Jump ==
    IF Enough(Held, Current.val)
    THEN /\ readPointer' = Displaced(Advanced, Current.val)
         /\ failure' = failure
    ELSE /\ readPointer' = Advanced
         /\ failure' = "throw"

\* Mutant: the second _SETLC of a pair opens a loop too.
SetlcUnpaired ==
    /\ Take("SETLC")
    /\ Pass
    /\ loopNestDepth' = loopNestDepth + 1
    /\ IF loopNestDepth' < MaxDepthLoopNesting
       THEN /\ repeatCounter' = [repeatCounter EXCEPT
                  ![loopNestDepth'] = Current.val % CounterModulus]
            /\ failure' = failure
       ELSE /\ failure' = "assertDepth"
            /\ UNCHANGED repeatCounter
    /\ UNCHANGED <<countSetlc, codeIn2nd>>

Setlc ==
    /\ Take("SETLC")
    /\ Pass
    /\ loopNestDepth' = loopNestDepth + (IF countSetlc = 0 THEN 1 ELSE 0)
    /\ IF loopNestDepth' < MaxDepthLoopNesting
       THEN /\ countSetlc' = (countSetlc + 1) % 2
            /\ repeatCounter' = [repeatCounter EXCEPT
                  ![loopNestDepth'] = Current.val % CounterModulus]
            /\ failure' = failure
       ELSE /\ failure' = "assertDepth"
            /\ UNCHANGED <<countSetlc, repeatCounter>>
    /\ UNCHANGED codeIn2nd

\* Mutant: the flag of a loop that ended stays.
LeaveLoopFlagged ==
    /\ Take("IJMPNZ")
    /\ repeatCounter[loopNestDepth] = 0
    /\ Pass
    /\ loopNestDepth' = loopNestDepth - 1
    /\ UNCHANGED <<countSetlc, repeatCounter, codeIn2nd, failure>>

LeaveLoop ==
    /\ Take("IJMPNZ")
    /\ repeatCounter[loopNestDepth] = 0
    /\ Pass
    /\ codeIn2nd' = [codeIn2nd EXCEPT ![loopNestDepth] = FALSE]
    /\ loopNestDepth' = loopNestDepth - 1
    /\ UNCHANGED <<countSetlc, repeatCounter, failure>>

\* Mutant: the counter is not decremented.
RepeatUncounted ==
    /\ Take("IJMPNZ")
    /\ repeatCounter[loopNestDepth] # 0
    /\ codeIn2nd' = [codeIn2nd EXCEPT ![loopNestDepth] = TRUE]
    /\ Jump
    /\ UNCHANGED <<loopNestDepth, countSetlc, repeatCounter>>

RepeatLoop ==
    /\ Take("IJMPNZ")
    /\ repeatCounter[loopNestDepth] # 0
    /\ repeatCounter' = [repeatCounter EXCEPT ![loopNestDepth] = @ - 1]
    /\ codeIn2nd' = [codeIn2nd EXCEPT ![loopNestDepth] = TRUE]
    /\ Jump
    /\ UNCHANGED <<loopNestDepth, countSetlc>>

\* _IJMPNZ_RED takes itself to close a loop of depth 1, whatever the depth;
\* the sum over the lanes decides.
LeaveSimple ==
    /\ Take("IJMPNZ_RED")
    /\ Pass
    /\ codeIn2nd' = [codeIn2nd EXCEPT ![1] = FALSE]
    /\ loopNestDepth' = 0
    /\ UNCHANGED <<countSetlc, repeatCounter, failure>>

RepeatSimple ==
    /\ Take("IJMPNZ_RED")
    /\ codeIn2nd' = [codeIn2nd EXCEPT ![1] = TRUE]
    /\ loopNestDepth' = 1
    /\ Jump
    /\ UNCHANGED <<countSetlc, repeatCounter>>

\* Executed, and then not found in the energy table: assert(0).
Gate ==
    /\ Take("GATE")
    /\ Pass
    /\ failure' = "assertEnergy"
    /\ UNCHANGED loopVars

Other ==
    /\ Take("OTHER")
    /\ Pass
    /\ UNCHANGED <<loopVars, failure>>

\* The thread blocks in read() for ever, or the process is gone.
Quiet ==
    /\ \/ failure # "none"
       \/ fetched = Len(stream) /\ ~Replaying
    /\ UNCHANGED coreVars

Step ==
    \/ Setlc
    \/ LeaveLoop
    \/ RepeatLoop
    \/ LeaveSimple
    \/ RepeatSimple
    \/ Gate
    \/ Other

Next == HostWrite \/ Step \/ Quiet

Spec == Init /\ [][Next]_coreVars

\* The two threads are preemptively scheduled.  Leaving a REPEAT_SIMPLE loop
\* is up to the data: a kernel whose loop ends makes LeaveSimple happen.
Fairness ==
    /\ WF_coreVars(HostWrite)
    /\ WF_coreVars(Step)
    /\ SF_coreVars(LeaveSimple)

-----------------------------------------------------------------------------
(***************************************************************************)
(* The instruction pointer the buffer stands for.                          *)
(***************************************************************************)
\* How far a slot lies behind the write pointer, once around at most.
Behind(slot) ==
    IF slot < writePointer
    THEN writePointer - slot
    ELSE writePointer - slot + InstructionCount

IP ==
    IF Replaying /\ failure # "throw"
    THEN fetched - Behind(readPointer)
    ELSE fetched

Unlimited == INSTANCE InstructionPointer WITH ip <- IP

\* The core thread runs the stream as an unlimited instruction memory with
\* an instruction pointer would (the comment above its loop, lines 469-474):
\* the ring buffer, its overwriting of old instructions, the flags that
\* choose between pipe and buffer and the partial writes of the host are
\* invisible.
ImplementsUnlimitedMemory == Unlimited!Spec

-----------------------------------------------------------------------------
TypeOK ==
    /\ queue \in [Slot -> Instruction \cup {Unfilled}]
    /\ readPointer \in Slot
    /\ writePointer \in Slot
    /\ instructionsQueued \in 0..InstructionCount
    /\ stream \in Streams
    /\ written \in 0..Len(stream)
    /\ fetched \in 0..written
    /\ loopNestDepth \in Depth
    /\ countSetlc \in {0, 1}
    /\ repeatCounter \in [Depth -> 0..(CounterModulus - 1)]
    /\ codeIn2nd \in [Depth -> BOOLEAN]
    /\ failure \in {"none", "throw", "assertDepth", "assertEnergy"}

\* A loop flagged as being in a later iteration is still open: a flag left
\* behind by a loop that ended would make the thread read stale slots of the
\* buffer instead of the pipe.
FlagsAreOpen == \A d \in Depth : codeIn2nd[d] => 1 <= d /\ d <= loopNestDepth

\* Once a loop is being replayed, its whole body and its jump are held in
\* the buffer, the last instruction fetched is that jump, and the read
\* pointer is inside the body: neither the replay nor a jump of an inner
\* loop can reach a slot that was overwritten or never filled.
ReplayIsHeld ==
    Replaying /\ failure = "none" =>
        LET start == BodyStart(stream, fetched) IN
        /\ stream[fetched].op \in {"IJMPNZ", "IJMPNZ_RED"}
        /\ start <= IP + 1 /\ IP + 1 <= fetched
        /\ fetched - start < instructionsQueued

\* The condition of lines 492-496 sees every loop that is being replayed, not
\* only the current one and the three outermost: "We need to check that the
\* current codeIn2ndLoopIterationForNestDepth[loopNestDepth] == true OR any
\* codeIn2ndLoopIterationForNestDepth[i] == true" (lines 490-491).
EveryReplaySeen ==
    (\E d \in Depth : 1 <= d /\ d <= loopNestDepth /\ codeIn2nd[d]) => Replaying

\* displaceReadPointer() throws for a loop that does not fit the memory, and
\* for nothing else.
ThrowMeansOversized ==
    failure = "throw" =>
        /\ stream[fetched].op \in {"IJMPNZ", "IJMPNZ_RED"}
        /\ ~Fits(stream[fetched], InstructionCount)

\* The assertion of _SETLC on the nesting depth (line 1116) holds for what
\* the macros write, whose loops are not as deep as the arrays: the second _SETLC
\* of each pair and loops that are entered again and again, from the pipe or from
\* the buffer, leave the depth that of the open loops.
DepthAssertHolds == failure # "assertDepth"

\* The core thread gets to the end of whatever stream it is sent, every loop
\* ending, or stops with a failure.
Finishes ==
    <>(failure # "none" \/ (fetched = Len(stream) /\ ~Replaying))

=============================================================================
