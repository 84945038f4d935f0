------------------------------ MODULE LoopNest ------------------------------
(***************************************************************************)
(* The shape of the instruction streams that the REPEAT macros of          *)
(* include/Kernel.h produce, seen by the part of the machine that          *)
(* sequences them.                                                         *)
(*                                                                         *)
(* An instruction keeps its opcode class, its immediate value, and the     *)
(* value of Kernel::loopNestDepth when Kernel::append() stored it.  The    *)
(* last field is not in the 32-bit word: no action of the machine reads    *)
(* it, only the predicates below and the invariants do.                    *)
(***************************************************************************)
EXTENDS Integers, Sequences

\* SETLC, IJMPNZ and IJMPNZ_RED drive the sequencer.  GATE stands for the
\* opcodes that executeInstruction() implements and the energy table of the
\* simulator does not list (_DISABLE_CELL, _ENABLE_ALL_CELLS, _BIT_REVERSE);
\* OTHER for all the rest, its value telling one instruction from another.
Opcode == {"SETLC", "IJMPNZ", "IJMPNZ_RED", "GATE", "OTHER"}

Instruction == [op : Opcode, val : Int, lvl : Nat]

\* REPEAT(x) emits _SETLC twice at the same depth; the second one opens the
\* body.
OpensBody(s, i) ==
    /\ i > 1
    /\ s[i].op = "SETLC"
    /\ s[i-1].op = "SETLC"
    /\ s[i-1].lvl = s[i].lvl

\* The first instruction of the body a jump at position j goes back to.
BodyStart(s, j) == j - s[j].val

\* REPEAT_SIMPLE emits nothing: its body starts where its jump goes back to.
StartsSimple(s, i) ==
    \E j \in i..Len(s) : s[j].op = "IJMPNZ_RED" /\ BodyStart(s, j) = i

\* Kernel::loopNestDepth after instruction i and before the next one.
LevelAfter(s, i) ==
    CASE OpensBody(s, i)                        -> s[i].lvl + 1
      [] s[i].op \in {"IJMPNZ", "IJMPNZ_RED"}   -> s[i].lvl - 1
      [] OTHER                                  -> s[i].lvl

Opened(s, i) == IF StartsSimple(s, i) THEN 1 ELSE 0

(***************************************************************************)
(* What a sequence of well-nested REPEAT/END_REPEAT pairs compiles to.     *)
(***************************************************************************)
\* Depths start at zero, change only where a loop opens or closes, and are
\* zero again at the end.
Levelled(s) ==
    s # << >> =>
        /\ s[1].lvl = Opened(s, 1)
        /\ \A i \in 1..(Len(s) - 1) :
              s[i+1].lvl = LevelAfter(s, i) + Opened(s, i + 1)
        /\ LevelAfter(s, Len(s)) = 0

\* Every _SETLC belongs to a pair with one value and one depth.
Paired(s) ==
    \A i \in 1..Len(s) :
        s[i].op = "SETLC" =>
            \/ OpensBody(s, i) /\ s[i-1].val = s[i].val
            \/ i < Len(s) /\ OpensBody(s, i + 1)

\* Every _IJMPNZ goes back to the instruction after the pair that opened its
\* loop, and everything between is at least as deep.
CountedLoops(s) ==
    \A j \in 1..Len(s) :
        s[j].op = "IJMPNZ" =>
            /\ s[j].lvl >= 1
            /\ s[j].val >= 0
            /\ BodyStart(s, j) > 2
            /\ OpensBody(s, BodyStart(s, j) - 1)
            /\ s[BodyStart(s, j) - 1].lvl = s[j].lvl - 1
            /\ \A k \in BodyStart(s, j)..j : s[k].lvl >= s[j].lvl

\* Every _IJMPNZ_RED goes back to the body of an outermost REPEAT_SIMPLE.
SimpleLoops(s) ==
    \A j \in 1..Len(s) :
        s[j].op = "IJMPNZ_RED" =>
            /\ s[j].lvl = 1
            /\ s[j].val >= 0
            /\ BodyStart(s, j) >= 1
            /\ \A k \in BodyStart(s, j)..j : s[k].lvl >= 1

WellNested(s, maxNest) ==
    /\ s \in Seq(Instruction)
    /\ \A i \in 1..Len(s) : s[i].lvl <= maxNest
    /\ Levelled(s)
    /\ Paired(s)
    /\ CountedLoops(s)
    /\ SimpleLoops(s)

\* The instruction count a jump hands to displaceReadPointer() fits the
\* internal instruction memory together with the jump itself.
Fits(instr, size) == instr.val + 1 <= size

=============================================================================
