-------------------------- MODULE RepeatUnrolling --------------------------
(***************************************************************************)
(* Kernel::validateAndOptimizeRepeatLoops() (core/Kernel.cpp): loops of a  *)
(* built kernel that the machine has no counters or no memory for are      *)
(* written out, the ones further down first.                               *)
(*                                                                         *)
(* Positions are those of a sequence, one more than the indices.           *)
(***************************************************************************)
EXTENDS Kernel, SequencesExt

CONSTANTS
    NestedLoops,               \* values of numMaxNestedHwLoops
    MemorySize                 \* INTERNAL_INSTRUCTION_MEMORY_SIZE

\* With a smaller memory the pass would write out bodies so short that the size
\* it gives the kernel leaves words of its old end there.
ASSUME UnrollingAssumption == NestedLoops \subseteq Nat /\ MemorySize >= 8

VARIABLES
    numMaxNestedHwLoops,
    loops,                     \* startInstrIndexLoop and the other tables
    number,                    \* i, of the loop that comes next
    repeatsLeft,               \* repeatsLeftToUseInCurrentLoopNest
    original,                  \* history: the kernel as it was built
    unrolled                   \* history: the numbers of the loops written out

passVars == <<numMaxNestedHwLoops, loops, number, repeatsLeft, original, unrolled>>
vars == <<kernelVars, passVars>>

PassInit ==
    /\ Init
    /\ numMaxNestedHwLoops = 0
    /\ loops = << >>
    /\ number = 0
    /\ repeatsLeft = 0
    /\ original = << >>
    /\ unrolled = {}

-----------------------------------------------------------------------------
At(s, op, range) == {k \in range : s[k].op = op}

\* Every second _SETLC starts a loop.
Starts(s) ==
    {k \in At(s, "SETLC", 1..Len(s)) : Cardinality(At(s, "SETLC", 1..k)) % 2 = 0}

OpenAt(s, k) ==
    Cardinality(Starts(s) \cap 1..k) - Cardinality(At(s, "IJMPNZ", 1..k))

\* The first pass: an _IJMPNZ ends the loop on top of the stack.
FindLoops(s) ==
    LET starts == SetToSortSeq(Starts(s), <) IN
    [n \in DOMAIN starts |->
        LET start == starts[n]
            ends == {k \in At(s, "IJMPNZ", start..Len(s)) : OpenAt(s, k) < OpenAt(s, start)}
        IN  [start |-> start, end |-> CHOOSE k \in ends : \A m \in ends : k <= m,
             depth |-> OpenAt(s, start), trips |-> s[start].val + 1]]

Begin ==
    LET found == FindLoops(instructions) IN
    /\ status = "built"
    /\ numMaxNestedHwLoops' \in NestedLoops      \* what the host has set
    /\ status' = "validating"
    /\ loops' = found
    /\ number' = Len(found)
    /\ repeatsLeft' = numMaxNestedHwLoops' + 1
    /\ original' = instructions
    /\ UNCHANGED <<instructions, loopNestDepth, jumpTarget, opened, unrolled>>

Loop == loops[number]
BodySize(loop) == loop.end - loop.start - 1

NeedsUnrolling(loop) ==
    /\ loop.trips > 1
    /\ repeatsLeft = 0 \/ BodySize(loop) > MemorySize - (4 + 1)

\* Mutant: the copies are written behind the first _SETLC.
WrittenOutLate(s, loop) ==
    LET body  == SubSeq(s, loop.start + 1, loop.end - 1)
        total == Len(body) * loop.trips
        tail  == SubSeq(s, loop.end + 2, Len(s))
    IN  [k \in 1..(Len(s) + total - 4) |->
            IF k < loop.start THEN s[k]
            ELSE IF k < loop.start + total THEN body[((k - loop.start) % Len(body)) + 1]
            ELSE IF k < loop.start + total + Len(tail) THEN tail[k - loop.start - total + 1]
            ELSE Nop(0)]

\* The copies of the body from the first _SETLC on, and behind them what came
\* after the NOP of the loop.  resize() has put NOPs at the end, and as many as
\* the body has are left there.
WrittenOut(s, loop) ==
    LET body  == SubSeq(s, loop.start + 1, loop.end - 1)
        total == Len(body) * loop.trips
        tail  == SubSeq(s, loop.end + 2, Len(s))
        first == loop.start - 1
    IN  [k \in 1..(Len(s) + total - 4) |->
            IF k < first THEN s[k]
            ELSE IF k < first + total THEN body[((k - first) % Len(body)) + 1]
            ELSE IF k < first + total + Len(tail) THEN tail[k - first - total + 1]
            ELSE IF k <= Len(s) THEN s[k]
            ELSE Nop(0)]

\* The next loop has one repeat less, unless this one is outermost.
CountRepeat ==
    /\ repeatsLeft >= 0
    /\ number' = number - 1
    /\ repeatsLeft' = IF Loop.depth = 1 THEN numMaxNestedHwLoops + 1 ELSE repeatsLeft - 1
    /\ UNCHANGED <<status, loopNestDepth, jumpTarget, opened, numMaxNestedHwLoops, loops,
                   original>>

Validating == status = "validating" /\ number > 0

KeepLoop ==
    /\ Validating
    /\ ~NeedsUnrolling(Loop)
    /\ CountRepeat
    /\ UNCHANGED <<instructions, unrolled>>

UnrollLoop ==
    /\ Validating
    /\ NeedsUnrolling(Loop)
    /\ CountRepeat
    /\ instructions' = WrittenOut(instructions, Loop)
    /\ unrolled' = unrolled \cup {number}

\* "I'm using more repeats in a loop nest than allowed".
TooManyRepeats ==
    /\ Validating
    /\ repeatsLeft < 0
    /\ status' = "assert"
    /\ UNCHANGED <<instructions, loopNestDepth, jumpTarget, opened, passVars>>

End ==
    /\ status = "validating"
    /\ number = 0
    /\ status' = "validated"
    /\ UNCHANGED <<instructions, loopNestDepth, jumpTarget, opened, passVars>>

PassNext ==
    \/ Next /\ UNCHANGED passVars
    \/ Begin
    \/ KeepLoop
    \/ UnrollLoop
    \/ TooManyRepeats
    \/ End

PassSpec == PassInit /\ [][PassNext]_vars

-----------------------------------------------------------------------------
(* What the words do, with a counter for each open loop.  A REPEAT_SIMPLE  *)
(* goes round twice, as for some data it would.                            *)

MaxSteps == 60                 \* bound: more than any kernel here takes

\* One instruction; a jump of an _IJMPNZ over more than size words stops.
Step(s, size, m) ==
    LET w == s[m.at] IN
    CASE m.at > Len(s) \/ m.refused -> m
      [] w.op = "SETLC" /\ m.paired = FALSE -> [m EXCEPT !.at = @ + 1, !.paired = TRUE]
      [] w.op = "SETLC" /\ m.paired ->
            [m EXCEPT !.at = @ + 1, !.paired = FALSE, !.left = <<w.val>> \o @]
      [] w.op = "IJMPNZ" /\ m.left = << >> -> [m EXCEPT !.refused = TRUE]
      [] w.op = "IJMPNZ" /\ m.left # << >> /\ Head(m.left) = 0 ->
            [m EXCEPT !.at = @ + 1, !.left = Tail(@)]
      [] w.op = "IJMPNZ" /\ m.left # << >> /\ Head(m.left) > 0 ->
            IF Fits(w, size)
            THEN [m EXCEPT !.at = @ - w.val, !.left = <<Head(@) - 1>> \o Tail(@)]
            ELSE [m EXCEPT !.refused = TRUE]
      [] w.op = "IJMPNZ_RED" ->
            [m EXCEPT !.at = IF m.again THEN @ - w.val ELSE @ + 1, !.again = ~@]
      [] OTHER -> [m EXCEPT !.at = @ + 1,
                            !.done = IF w.val = 0 THEN @ ELSE Append(@, w.val)]

\* The instructions executed, but for NOPs.
Executed(s, size) ==
    LET run[n \in 0..MaxSteps] ==
            IF n = 0 THEN [at |-> 1, paired |-> FALSE, left |-> << >>, again |-> TRUE,
                           refused |-> FALSE, done |-> << >>]
            ELSE Step(s, size, run[n - 1])
        last == run[MaxSteps]
    IN  IF last.at = Len(s) + 1 /\ ~last.paired /\ last.left = << >>
        THEN last.done ELSE <<"stopped">>

\* Loop n, or a REPEAT_SIMPLE, goes round a loop that was written out.
Encloses(outer, inner) == outer.start < inner.start /\ inner.end < outer.end

InSimple(loop) ==
    \E j \in loop.end..Len(original) :
        original[j].op = "IJMPNZ_RED" /\ BodyStart(original, j) < loop.start

\* Kernels are what they were, and their loops fit the memory, when the pass is
\* over: unless it has written out a loop in a loop it writes out as well, whose
\* place in the tables it does not correct, whatever the comment says that
\* reverse order preserves (lines 562-565); or in a REPEAT_SIMPLE, whose jump it
\* leaves as it is.  A loop written out in one
\* that is kept is no exception: the latter goes round once, or the pass has
\* ended in its assertion (validateAndOptimizeRepeatLoops(),
\* core/Kernel.cpp:566-700).
LoopsKeepTheirMeaning ==
    /\ status = "validated" /\ loops # << >>
    /\ \A n \in unrolled :
          /\ ~InSimple(loops[n])
          /\ \A m \in unrolled : ~Encloses(loops[m], loops[n])
    => Executed(instructions, MemorySize) = Executed(original, Len(original) + 1)

=============================================================================
