------------------------------- MODULE Kernel -------------------------------
(***************************************************************************)
(* class Kernel, the run-time assembler: how a program of REPEAT macros    *)
(* and plain instructions becomes the words that are sent to the machine,  *)
(* with the NOPs that data hazards call for and the jumps of the loops.    *)
(*                                                                         *)
(* One action per macro of include/Kernel.h.  The program that uses them   *)
(* is any well-bracketed one.                                              *)
(***************************************************************************)
EXTENDS LoopNest

CONSTANTS
    Operation,                 \* what the value of an OTHER stands for
    Tags,                      \* the plain instructions of the program
    Trips,                     \* the x of its REPEAT(x)
    CheckForDataHazards,       \* checkForDataHazards
    MaxDepthLoopNesting,       \* MAX_DEPTH_LOOP_NESTING
    JumpRange,                 \* 2^16: the immediate field of a word
    MaxInstructions            \* bound on the length of a kernel

\* NO_REG_INDEX: the operand is not a register.
NoReg == -1

\* A decoded instruction, as the getters of class Instruction present it.
Decoding(opcode, dest, left, right) ==
    [opcode |-> opcode, dest |-> dest, left |-> left, right |-> right]

\* getDest() lists the opcodes without a destination; _IJMPNZ_RED is not in
\* the list, and its field holds 0.
Decoded(instr) ==
    CASE instr.op = "OTHER"      -> Operation[instr.val]
      [] instr.op = "IJMPNZ_RED" -> Decoding("IJMPNZ_RED", 0, NoReg, NoReg)
      [] OTHER                   -> Decoding(instr.op, NoReg, NoReg, NoReg)

\* include/CheckDataHazard.h: whether an instruction needs what the one just
\* before it has not delivered yet.  The assembler asks, to insert a NOP.
CheckDataHazard(crt, prev) ==
    \/ crt.opcode = "READ" /\ prev.dest = crt.right
    \/ crt.opcode = "WRITE" /\ prev.dest \in {crt.left, crt.right}
    \/ crt.opcode = "IWRITE" /\ prev.dest = crt.left
    \/ crt.opcode = "WHERE_EQ" /\ prev.opcode = "EQ"
    \/ crt.opcode = "WHERE_LT" /\ prev.opcode \in {"LT", "ULT"}
    \/ crt.opcode = "WHERE_CRY" /\ prev.opcode \in {"ADDC", "SUBC"}

\* Tag 0 is the NOP of the macros.
ASSUME KernelAssumption ==
    /\ Tags \subseteq Int
    /\ DOMAIN Operation = Tags \cup {0}
    /\ Operation[0] = Decoding("NOP", NoReg, NoReg, NoReg)
    /\ Trips \subseteq Int
    /\ CheckForDataHazards \in BOOLEAN
    /\ MaxDepthLoopNesting \in Nat \ {0}
    /\ JumpRange \in Nat \ {0}
    /\ MaxInstructions \in Nat

\* What reads or writes the local store names registers.
ASSUME OperationAssumption ==
    \A tag \in Tags :
        /\ Operation[tag].opcode = "READ" => Operation[tag].right # NoReg
        /\ Operation[tag].opcode = "WRITE" =>
               NoReg \notin {Operation[tag].left, Operation[tag].right}
        /\ Operation[tag].opcode = "IWRITE" => Operation[tag].left # NoReg

\* Longer kernels have jumps that the field of a word has no room for.
ASSUME JumpAssumption == MaxInstructions <= JumpRange

VARIABLES
    instructions,
    loopNestDepth,
    jumpTarget,                \* jumpTargetForLoopOfNestDepth
    opened,                    \* the program's open loops, REPEAT_SIMPLE or not
    status                     \* "building", "built", "assert", or of the loop pass

kernelVars == <<instructions, loopNestDepth, jumpTarget, opened, status>>

LoopDepth == 1..MaxDepthLoopNesting

\* The array of jump targets is not initialised; resetLoopJumpTarget() sets
\* an element before it is read.
Init ==
    /\ instructions = << >>
    /\ loopNestDepth = 0
    /\ jumpTarget = [d \in LoopDepth |-> 0]
    /\ opened = << >>
    /\ status = "building"

-----------------------------------------------------------------------------
Word(op, val, lvl) == [op |-> op, val |-> val, lvl |-> lvl]

Nop(lvl) == Word("OTHER", 0, lvl)

\* Mutant: the instructions are compared in the wrong order.
NeedsNopSwapped(s, instr) ==
    /\ CheckForDataHazards
    /\ s # << >>
    /\ CheckDataHazard(Decoded(s[Len(s)]), Decoded(instr))

NeedsNop(s, instr) ==
    /\ CheckForDataHazards
    /\ s # << >>
    /\ CheckDataHazard(Decoded(instr), Decoded(s[Len(s)]))

\* append(): the instruction, after a NOP if there is a hazard.
Appended(s, instr) ==
    IF NeedsNop(s, instr) THEN Append(Append(s, Nop(instr.lvl)), instr)
    ELSE Append(s, instr)

\* Mutant: only the innermost loop counts, as the commented-out line 135 did.
CountedInnermost(target, depth, before, after) ==
    [d \in LoopDepth |-> IF d = depth THEN target[d] + Len(after) - Len(before)
                         ELSE target[d]]

\* What append() adds to the targets of all open loops.
Counted(target, depth, before, after) ==
    [d \in LoopDepth |-> IF d <= depth THEN target[d] + Len(after) - Len(before)
                         ELSE target[d]]

Building ==
    /\ status = "building"
    /\ Len(instructions) < MaxInstructions

Plain(tag) ==
    LET s == Appended(instructions, Word("OTHER", tag, loopNestDepth)) IN
    /\ Building
    /\ instructions' = s
    /\ jumpTarget' = Counted(jumpTarget, loopNestDepth, instructions, s)
    /\ UNCHANGED <<loopNestDepth, opened, status>>

\* resetLoopJumpTarget() with the targets as append() left them.
ResetLoopJumpTarget(target, kind) ==
    /\ loopNestDepth' = loopNestDepth + 1
    /\ opened' = Append(opened, kind)
    /\ IF loopNestDepth' \in LoopDepth
       THEN jumpTarget' = [target EXCEPT ![loopNestDepth'] = 0] /\ status' = status
       ELSE jumpTarget' = target /\ status' = "assert"

\* REPEAT(x)
Repeat(x) ==
    LET setlc == Word("SETLC", x - 1, loopNestDepth)
        s == Appended(Appended(instructions, setlc), setlc)
    IN
    /\ Building
    /\ instructions' = s
    /\ ResetLoopJumpTarget(
          Counted(jumpTarget, loopNestDepth, instructions, s), "REPEAT")

\* REPEAT_SIMPLE, which only the outermost loop can be: _IJMPNZ_RED takes
\* the depth it closes to be 1 (ConnexSimulator.cpp:1233).
RepeatSimple ==
    /\ Building
    /\ loopNestDepth = 0
    /\ UNCHANGED instructions
    /\ ResetLoopJumpTarget(jumpTarget, "REPEAT_SIMPLE")

\* Mutant: the depth stays.
CloseDeep(op) ==
    LET jump == Word(op, jumpTarget[loopNestDepth] % JumpRange, loopNestDepth)
        s == Appended(Appended(instructions, jump), Nop(loopNestDepth))
    IN
    /\ instructions' = s
    /\ jumpTarget' = Counted(jumpTarget, loopNestDepth, instructions, s)
    /\ opened' = SubSeq(opened, 1, Len(opened) - 1)
    /\ UNCHANGED <<loopNestDepth, status>>

\* appendLoopInstruction() and the NOP of both closing macros.
Close(op) ==
    LET jump == Word(op, jumpTarget[loopNestDepth] % JumpRange, loopNestDepth)
        looped == Appended(instructions, jump)
        s == Appended(looped, Nop(loopNestDepth - 1))
    IN
    /\ instructions' = s
    /\ loopNestDepth' = loopNestDepth - 1
    /\ jumpTarget' = Counted(Counted(jumpTarget, loopNestDepth, instructions,
                                     looped),
                             loopNestDepth - 1, looped, s)
    /\ opened' = SubSeq(opened, 1, Len(opened) - 1)
    /\ UNCHANGED status

EndRepeat ==
    /\ Building
    /\ opened # << >> /\ opened[Len(opened)] = "REPEAT"
    /\ Close("IJMPNZ")

EndRepeatRedNotZero ==
    /\ Building
    /\ opened # << >> /\ opened[Len(opened)] = "REPEAT_SIMPLE"
    /\ Close("IJMPNZ_RED")

\* END_KERNEL, at the end of a well-bracketed program.
EndKernel ==
    /\ status = "building"
    /\ opened = << >>
    /\ status' = "built"
    /\ UNCHANGED <<instructions, loopNestDepth, jumpTarget, opened>>

Next ==
    \/ \E tag \in Tags : Plain(tag)
    \/ \E x \in Trips : Repeat(x)
    \/ RepeatSimple
    \/ EndRepeat
    \/ EndRepeatRedNotZero
    \/ EndKernel

Spec == Init /\ [][Next]_kernelVars

-----------------------------------------------------------------------------
TypeOK ==
    /\ instructions \in Seq(Instruction)
    /\ loopNestDepth \in Nat
    /\ jumpTarget \in [LoopDepth -> Nat]
    /\ opened \in Seq({"REPEAT", "REPEAT_SIMPLE"})
    /\ Len(opened) = loopNestDepth
    /\ status \in {"building", "built", "validating", "validated", "assert"}

\* A kernel that is built is one the core thread can run: depths, pairs of
\* _SETLC and jumps are as the thread's proofs assume them, whatever NOPs the
\* hazards added and in however many open loops they had to be counted.
BuiltIsNested ==
    status = "built" => WellNested(instructions, MaxDepthLoopNesting)

\* The instruction after instruction i, in some iteration, is instruction k.
Follows(s, i, k) ==
    \/ k = i + 1
    \/ s[i].op \in {"IJMPNZ", "IJMPNZ_RED"} /\ k = BodyStart(s, i)

\* No two instructions that are executed one after the other, over the back
\* edges of loops too, have a hazard: what append() did with the instruction
\* before is enough.  The one exception is a REPEAT_SIMPLE body that starts
\* by using register 0, the destination _IJMPNZ_RED seems to have.
NoHazardLeft ==
    CheckForDataHazards /\ status \in {"building", "built"} =>
        \A i, k \in 1..Len(instructions) :
            Follows(instructions, i, k) =>
                \/ ~CheckDataHazard(Decoded(instructions[k]),
                                    Decoded(instructions[i]))
                \/ /\ instructions[i].op = "IJMPNZ_RED"
                   /\ 0 \in {Decoded(instructions[k]).left,
                             Decoded(instructions[k]).right}

=============================================================================
