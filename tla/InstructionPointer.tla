------------------------- MODULE InstructionPointer -------------------------
(***************************************************************************)
(* What the core thread is meant to do, in the terms of the comment in     *)
(* ConnexSimulator::coreThreadHandler(): an unlimited instruction memory   *)
(* and an instruction pointer.  Instructions arrive from the host and stay *)
(* where they are; a jump moves the pointer back.  All that is left of the *)
(* finite buffer is that a jump over more instructions than it holds stops *)
(* the simulator.                                                          *)
(***************************************************************************)
EXTENDS LoopNest

CONSTANTS
    Streams,                   \* the instruction streams a host may send
    InstructionCount,          \* slots of the internal instruction memory
    MaxDepthLoopNesting,       \* MAX_DEPTH_LOOP_NESTING
    CounterModulus             \* 2^16: the counters are unsigned short

VARIABLES
    stream,                    \* everything the host sends
    written,                   \* how much of it has been sent
    ip,                        \* how much of it is behind the pointer
    loopNestDepth,
    countSetlc,                \* which SETLC of a pair comes next
    repeatCounter,             \* iterations left, per depth
    failure                    \* what stopped the simulator

ipVars == <<stream, written, ip, loopNestDepth, countSetlc, repeatCounter,
            failure>>

Init ==
    /\ stream \in Streams
    /\ written = 0
    /\ ip = 0
    /\ loopNestDepth = 0
    /\ countSetlc = 0
    /\ repeatCounter = [d \in 0..MaxDepthLoopNesting |->
                           IF d = 0 THEN CounterModulus - 1 ELSE 0]
    /\ failure = "none"

HostWrite ==
    /\ failure = "none"
    /\ written' \in (written + 1)..Len(stream)
    /\ UNCHANGED <<stream, ip, loopNestDepth, countSetlc, repeatCounter,
                   failure>>

Present(op) ==
    /\ failure = "none"
    /\ ip < written
    /\ stream[ip + 1].op = op
    /\ UNCHANGED <<stream, written>>

Pass == ip' = ip + 1

Jump ==
    IF Fits(stream[ip + 1], InstructionCount)
    THEN /\ ip' = ip - stream[ip + 1].val
         /\ failure' = failure
    ELSE /\ ip' = ip + 1
         /\ failure' = "throw"

Setlc ==
    /\ Present("SETLC")
    /\ Pass
    /\ loopNestDepth' = loopNestDepth + (1 - countSetlc)
    /\ IF loopNestDepth' < MaxDepthLoopNesting
       THEN /\ countSetlc' = 1 - countSetlc
            /\ repeatCounter' = [repeatCounter EXCEPT
                  ![loopNestDepth'] = stream[ip + 1].val % CounterModulus]
            /\ failure' = failure
       ELSE /\ failure' = "assertDepth"
            /\ UNCHANGED <<countSetlc, repeatCounter>>

LeaveLoop ==
    /\ Present("IJMPNZ")
    /\ repeatCounter[loopNestDepth] = 0
    /\ Pass
    /\ loopNestDepth' = loopNestDepth - 1
    /\ UNCHANGED <<countSetlc, repeatCounter, failure>>

RepeatLoop ==
    /\ Present("IJMPNZ")
    /\ repeatCounter[loopNestDepth] # 0
    /\ repeatCounter' = [repeatCounter EXCEPT ![loopNestDepth] = @ - 1]
    /\ Jump
    /\ UNCHANGED <<loopNestDepth, countSetlc>>

\* A REPEAT_SIMPLE loop is left when the sum of a register over the lanes is
\* zero, which the sequencer cannot foresee.
LeaveSimple ==
    /\ Present("IJMPNZ_RED")
    /\ Pass
    /\ loopNestDepth' = 0
    /\ UNCHANGED <<countSetlc, repeatCounter, failure>>

RepeatSimple ==
    /\ Present("IJMPNZ_RED")
    /\ loopNestDepth' = 1
    /\ Jump
    /\ UNCHANGED <<countSetlc, repeatCounter>>

Gate ==
    /\ Present("GATE")
    /\ Pass
    /\ failure' = "assertEnergy"
    /\ UNCHANGED <<loopNestDepth, countSetlc, repeatCounter>>

Other ==
    /\ Present("OTHER")
    /\ Pass
    /\ UNCHANGED <<loopNestDepth, countSetlc, repeatCounter, failure>>

Next ==
    \/ HostWrite
    \/ Setlc
    \/ LeaveLoop
    \/ RepeatLoop
    \/ LeaveSimple
    \/ RepeatSimple
    \/ Gate
    \/ Other

Spec == Init /\ [][Next]_ipVars

=============================================================================
