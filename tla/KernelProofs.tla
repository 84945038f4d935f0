---------------------------- MODULE KernelProofs ----------------------------
(***************************************************************************)
(* Theorems about the assembler: a kernel it has built is one that the     *)
(* core thread's proofs take, and no hazard is left in it.                 *)
(***************************************************************************)
EXTENDS Kernel, TLAPS

-----------------------------------------------------------------------------
(* Sequences of instructions.                                              *)

\* What appending one word to the kernel's vector gives.
LEMMA AppendFacts ==
    ASSUME NEW s \in Seq(Instruction), NEW w \in Instruction
    PROVE  /\ Append(s, w) \in Seq(Instruction)
           /\ Len(Append(s, w)) = Len(s) + 1
           /\ \A i \in 1..Len(s) : Append(s, w)[i] = s[i]
           /\ Append(s, w)[Len(s) + 1] = w
  OBVIOUS

\* append() stores an instruction as it is given.
LEMMA WordType ==
    ASSUME NEW op \in Opcode, NEW val \in Int, NEW lvl \in Nat
    PROVE  /\ Word(op, val, lvl) \in Instruction
           /\ Word(op, val, lvl).op = op
           /\ Word(op, val, lvl).val = val
           /\ Word(op, val, lvl).lvl = lvl
  BY DEF Word, Instruction

\* The NOP of the macros is one.
LEMMA NopType ==
    ASSUME NEW lvl \in Nat
    PROVE  /\ Nop(lvl) \in Instruction
           /\ Nop(lvl).op = "OTHER"
           /\ Nop(lvl).val = 0
           /\ Nop(lvl).lvl = lvl
  BY WordType DEF Nop, Opcode

\* append() adds a NOP only before a word that is neither a jump nor a _SETLC.
LEMMA OnlyOthersWait ==
    ASSUME NEW s, NEW w \in Instruction, NeedsNop(s, w)
    PROVE  w.op = "OTHER" /\ w.val # 0
  <1>1. CheckDataHazard(Decoded(w), Decoded(s[Len(s)]))
    BY DEF NeedsNop
  <1>2. Decoded(w).opcode \in {"READ", "WRITE", "IWRITE", "WHERE_EQ", "WHERE_LT", "WHERE_CRY"}
    BY <1>1 DEF CheckDataHazard
  <1>3. w.op = "OTHER"
    <2>1. w.op \in Opcode
      BY DEF Instruction
    <2>2. CASE w.op # "OTHER"
      <3>1. Decoded(w).opcode \in {"SETLC", "IJMPNZ", "IJMPNZ_RED", "GATE"}
        BY <2>1, <2>2 DEF Decoded, Decoding, Opcode
      <3> QED BY <3>1, <1>2
    <2> QED BY <2>2
  <1>4. w.val # 0
    BY <1>2, <1>3, KernelAssumption DEF Decoded, Decoding
  <1> QED BY <1>3, <1>4

\* append() makes the kernel longer, by the word alone if nothing has to wait.
LEMMA AppendedFacts ==
    ASSUME NEW s \in Seq(Instruction), NEW w \in Instruction
    PROVE  /\ Appended(s, w) \in Seq(Instruction)
           /\ Len(Appended(s, w)) >= Len(s)
           /\ w.op # "OTHER" \/ w.val = 0 => Appended(s, w) = Append(s, w)
  <1>1. Nop(w.lvl) \in Instruction
    BY NopType DEF Instruction
  <1>2. Append(s, Nop(w.lvl)) \in Seq(Instruction) /\ Len(Append(s, Nop(w.lvl))) = Len(s) + 1
    BY <1>1, AppendFacts
  <1>3. /\ Append(Append(s, Nop(w.lvl)), w) \in Seq(Instruction)
        /\ Len(Append(Append(s, Nop(w.lvl)), w)) = Len(s) + 2
    BY <1>2, AppendFacts
  <1>4. Append(s, w) \in Seq(Instruction) /\ Len(Append(s, w)) = Len(s) + 1
    BY AppendFacts
  <1>5. w.op # "OTHER" \/ w.val = 0 => ~NeedsNop(s, w)
    BY OnlyOthersWait
  <1> QED BY <1>3, <1>4, <1>5 DEF Appended

-----------------------------------------------------------------------------
(***************************************************************************)
(* The invariant.  A kernel in the making is nested but for its open       *)
(* loops: the body of the loop at depth d begins at b[d], and k[d] is the  *)
(* macro that opened it.                                                   *)
(***************************************************************************)
Kinds == {"REPEAT", "REPEAT_SIMPLE"}

IsOpenSimple(b, k, i) == k # << >> /\ k[1] = "REPEAT_SIMPLE" /\ b[1] = i

StartsBody(s, b, k, i) == StartsSimple(s, i) \/ IsOpenSimple(b, k, i)

LevelBefore(s, i) == IF i = 1 THEN 0 ELSE LevelAfter(s, i - 1)

HasLevel(s, b, k, i, level) ==
    level = LevelBefore(s, i) + (IF StartsBody(s, b, k, i) THEN 1 ELSE 0)

LevelsSoFar(s, depth, b, k) ==
    /\ \A i \in 1..Len(s) : HasLevel(s, b, k, i, s[i].lvl)
    /\ HasLevel(s, b, k, Len(s) + 1, depth)

OpenBody(s, b, k, d) ==
    /\ b[d] \in 1..(Len(s) + 1)
    /\ \A j \in b[d]..Len(s) : s[j].lvl >= d
    /\ k[d] = "REPEAT" =>
           b[d] > 2 /\ OpensBody(s, b[d] - 1) /\ s[b[d] - 1].lvl = d - 1
    /\ k[d] = "REPEAT_SIMPLE" => d = 1

NestedSoFar(s, depth, b, k) ==
    /\ s \in Seq(Instruction)
    /\ depth \in 0..MaxDepthLoopNesting
    /\ k \in Seq(Kinds)
    /\ Len(k) = depth
    /\ \A i \in 1..Len(s) : s[i].lvl <= MaxDepthLoopNesting
    /\ LevelsSoFar(s, depth, b, k)
    /\ Paired(s)
    /\ CountedLoops(s)
    /\ SimpleLoops(s)
    /\ \A d \in 1..depth : OpenBody(s, b, k, d)

\* Depths are numbers.
LEMMA LevelBeforeType ==
    ASSUME NEW s \in Seq(Instruction), NEW i \in 1..(Len(s) + 1)
    PROVE  LevelBefore(s, i) \in Int
  <1>1. CASE i = 1
    BY <1>1 DEF LevelBefore
  <1>2. CASE i > 1
    <2>1. s[i - 1] \in Instruction
      BY <1>2
    <2>2. s[i - 1].lvl \in Int
      BY <2>1 DEF Instruction
    <2> QED BY <1>2, <2>2 DEF LevelBefore, LevelAfter
  <1> QED BY <1>1, <1>2

\* Where the bodies of the open loops begin, by the targets.
Begins == [d \in LoopDepth |-> Len(instructions) + 1 - jumpTarget[d]]

NestInv ==
    /\ status \in {"building", "built"} =>
           NestedSoFar(instructions, loopNestDepth, Begins, opened)
    /\ status = "built" => opened = << >>

\* t is s with a word w appended.  That changes nothing before it; only a
\* _IJMPNZ_RED says that something begins a body.
Extends(s, w, t) ==
    /\ s \in Seq(Instruction)
    /\ t \in Seq(Instruction)
    /\ w \in Instruction
    /\ Len(t) = Len(s) + 1
    /\ \A i \in 1..Len(s) : t[i] = s[i]
    /\ t[Len(s) + 1] = w
    /\ \A i \in 1..Len(s) : OpensBody(t, i) <=> OpensBody(s, i)
    /\ \A i \in 1..(Len(s) + 1) : LevelBefore(t, i) = LevelBefore(s, i)
    /\ \A i \in 1..Len(s) : BodyStart(t, i) = BodyStart(s, i)
    /\ \A i \in 1..(Len(s) + 1) :
           StartsSimple(t, i) <=>
               StartsSimple(s, i) \/ (w.op = "IJMPNZ_RED" /\ Len(s) + 1 - w.val = i)

\* Appending extends.
LEMMA AppendExtends ==
    ASSUME NEW s \in Seq(Instruction), NEW w \in Instruction
    PROVE  Extends(s, w, Append(s, w))
  <1> DEFINE t == Append(s, w)
  <1>1. /\ t \in Seq(Instruction)
        /\ Len(t) = Len(s) + 1
        /\ \A i \in 1..Len(s) : t[i] = s[i]
        /\ t[Len(s) + 1] = w
    BY AppendFacts
  <1> HIDE DEF t
  <1>2. \A i \in 1..Len(s) : OpensBody(t, i) <=> OpensBody(s, i)
    BY <1>1 DEF OpensBody
  <1>3. \A i \in 1..Len(s) : LevelAfter(t, i) = LevelAfter(s, i)
    BY <1>1, <1>2 DEF LevelAfter
  <1>4. \A i \in 1..(Len(s) + 1) : LevelBefore(t, i) = LevelBefore(s, i)
    BY <1>1, <1>3 DEF LevelBefore
  <1>5. \A i \in 1..Len(s) : BodyStart(t, i) = BodyStart(s, i)
    BY <1>1 DEF BodyStart
  <1>w. w.val \in Int
    BY DEF Instruction
  <1>6. ASSUME NEW i \in 1..(Len(s) + 1)
        PROVE  StartsSimple(t, i) <=>
                   StartsSimple(s, i) \/ (w.op = "IJMPNZ_RED" /\ Len(s) + 1 - w.val = i)
    <2>1. ASSUME StartsSimple(s, i) PROVE StartsSimple(t, i)
      BY <2>1, <1>1, <1>5 DEF StartsSimple
    <2>2. ASSUME w.op = "IJMPNZ_RED", Len(s) + 1 - w.val = i PROVE StartsSimple(t, i)
      BY <2>2, <1>1, <1>w DEF StartsSimple, BodyStart
    <2>3. ASSUME StartsSimple(t, i)
          PROVE  StartsSimple(s, i) \/ (w.op = "IJMPNZ_RED" /\ Len(s) + 1 - w.val = i)
      <3>1. PICK j \in i..Len(t) : t[j].op = "IJMPNZ_RED" /\ BodyStart(t, j) = i
        BY <2>3 DEF StartsSimple
      <3>2. CASE j = Len(s) + 1
        BY <3>1, <3>2, <1>1, <1>w DEF BodyStart
      <3>3. CASE j \in i..Len(s)
        BY <3>1, <3>3, <1>1, <1>5 DEF StartsSimple
      <3> QED BY <3>2, <3>3, <1>1
    <2> QED BY <2>1, <2>2, <2>3
  <1> QED BY <1>1, <1>2, <1>4, <1>5, <1>6 DEF Extends, t

\* What CountedLoops and SimpleLoops say of one jump.
CountedAt(s, j) ==
    s[j].op = "IJMPNZ" =>
        /\ s[j].lvl >= 1
        /\ s[j].val >= 0
        /\ BodyStart(s, j) > 2
        /\ OpensBody(s, BodyStart(s, j) - 1)
        /\ s[BodyStart(s, j) - 1].lvl = s[j].lvl - 1
        /\ \A k \in BodyStart(s, j)..j : s[k].lvl >= s[j].lvl

SimpleAt(s, j) ==
    s[j].op = "IJMPNZ_RED" =>
        /\ s[j].lvl = 1
        /\ s[j].val >= 0
        /\ BodyStart(s, j) >= 1
        /\ \A k \in BodyStart(s, j)..j : s[k].lvl >= 1

\* Closed loops stay as they are when a word is appended.
LEMMA AppendKeepsLoops ==
    ASSUME NEW s, NEW w, NEW t, Extends(s, w, t), CountedLoops(s), SimpleLoops(s)
    PROVE  \A j \in 1..Len(s) : CountedAt(t, j) /\ SimpleAt(t, j)
  <1>1. /\ Len(t) = Len(s) + 1
        /\ \A i \in 1..Len(s) : t[i] = s[i]
        /\ \A i \in 1..Len(s) : OpensBody(t, i) <=> OpensBody(s, i)
        /\ \A i \in 1..Len(s) : BodyStart(t, i) = BodyStart(s, i)
    BY DEF Extends
  <1>2. \A i \in 1..Len(s) : s[i].val \in Int
    <2> TAKE i \in 1..Len(s)
    <2>1. s[i] \in Instruction
      BY DEF Extends
    <2> QED BY <2>1 DEF Instruction
  <1>3. ASSUME NEW j \in 1..Len(s) PROVE CountedAt(t, j)
    <2> SUFFICES ASSUME s[j].op = "IJMPNZ"
                 PROVE  /\ t[j].lvl >= 1
                        /\ t[j].val >= 0
                        /\ BodyStart(t, j) > 2
                        /\ OpensBody(t, BodyStart(t, j) - 1)
                        /\ t[BodyStart(t, j) - 1].lvl = t[j].lvl - 1
                        /\ \A k \in BodyStart(t, j)..j : t[k].lvl >= t[j].lvl
      BY <1>1 DEF CountedAt
    <2>1. t[j] = s[j] /\ BodyStart(t, j) = BodyStart(s, j)
      BY <1>1
    <2>2. /\ s[j].lvl >= 1
          /\ s[j].val >= 0
          /\ BodyStart(s, j) > 2
          /\ OpensBody(s, BodyStart(s, j) - 1)
          /\ s[BodyStart(s, j) - 1].lvl = s[j].lvl - 1
          /\ \A k \in BodyStart(s, j)..j : s[k].lvl >= s[j].lvl
      BY DEF CountedLoops
    <2>3. BodyStart(s, j) \in 3..j
      BY <2>2, <1>2 DEF BodyStart
    <2>4. BodyStart(s, j) - 1 \in 1..Len(s)
      BY <2>3
    <2>5. \A k \in BodyStart(s, j)..j : t[k] = s[k]
      BY <2>3, <1>1
    <2> QED BY <2>1, <2>2, <2>4, <2>5, <1>1
  <1>4. ASSUME NEW j \in 1..Len(s) PROVE SimpleAt(t, j)
    <2> SUFFICES ASSUME s[j].op = "IJMPNZ_RED"
                 PROVE  /\ t[j].lvl = 1
                        /\ t[j].val >= 0
                        /\ BodyStart(t, j) >= 1
                        /\ \A k \in BodyStart(t, j)..j : t[k].lvl >= 1
      BY <1>1 DEF SimpleAt
    <2>1. t[j] = s[j] /\ BodyStart(t, j) = BodyStart(s, j)
      BY <1>1
    <2>2. /\ s[j].lvl = 1
          /\ s[j].val >= 0
          /\ BodyStart(s, j) >= 1
          /\ \A k \in BodyStart(s, j)..j : s[k].lvl >= 1
      BY DEF SimpleLoops
    <2>3. BodyStart(s, j) \in 1..j
      BY <2>2, <1>2 DEF BodyStart
    <2>4. \A k \in BodyStart(s, j)..j : t[k] = s[k]
      BY <2>3, <1>1
    <2> QED BY <2>1, <2>2, <2>4
  <1> QED BY <1>3, <1>4

\* Loops are closed rightly when each jump is right.
LEMMA LoopsFromJumps ==
    ASSUME NEW s, \A j \in 1..Len(s) : CountedAt(s, j) /\ SimpleAt(s, j)
    PROVE  CountedLoops(s) /\ SimpleLoops(s)
  BY DEF CountedLoops, SimpleLoops, CountedAt, SimpleAt

\* A word at the depth of the kernel, or deeper, leaves open bodies open.
LEMMA AppendKeepsBodies ==
    ASSUME NEW s, NEW w, NEW t, Extends(s, w, t), NEW b, NEW k,
           NEW d \in Nat \ {0}, OpenBody(s, b, k, d), w.lvl >= d
    PROVE  OpenBody(t, b, k, d)
  <1>1. /\ Len(t) = Len(s) + 1
        /\ \A i \in 1..Len(s) : t[i] = s[i]
        /\ t[Len(s) + 1] = w
        /\ \A i \in 1..Len(s) : OpensBody(t, i) <=> OpensBody(s, i)
    BY DEF Extends
  <1>2. /\ b[d] \in 1..(Len(s) + 1)
        /\ \A j \in b[d]..Len(s) : s[j].lvl >= d
        /\ k[d] = "REPEAT" =>
               b[d] > 2 /\ OpensBody(s, b[d] - 1) /\ s[b[d] - 1].lvl = d - 1
        /\ k[d] = "REPEAT_SIMPLE" => d = 1
    BY DEF OpenBody
  <1>3. \A j \in b[d]..Len(t) : t[j].lvl >= d
    <2> TAKE j \in b[d]..Len(t)
    <2>1. CASE j = Len(s) + 1
      BY <2>1, <1>1
    <2>2. CASE j \in b[d]..Len(s)
      BY <2>2, <1>1, <1>2
    <2> QED BY <2>1, <2>2, <1>1, <1>2
  <1>4. k[d] = "REPEAT" =>
            b[d] > 2 /\ OpensBody(t, b[d] - 1) /\ t[b[d] - 1].lvl = d - 1
    BY <1>1, <1>2
  <1> QED BY <1>1, <1>2, <1>3, <1>4 DEF OpenBody

\* Nor does it part a pair of _SETLC.
LEMMA AppendKeepsPairs ==
    ASSUME NEW s, NEW w, NEW t, Extends(s, w, t), Paired(s),
           NEW i \in 1..Len(s), t[i].op = "SETLC"
    PROVE  \/ OpensBody(t, i) /\ t[i-1].val = t[i].val
           \/ i < Len(t) /\ OpensBody(t, i + 1)
  <1>1. /\ Len(t) = Len(s) + 1
        /\ Len(s) \in Nat
        /\ \A m \in 1..Len(s) : t[m] = s[m]
        /\ \A m \in 1..Len(s) : OpensBody(t, m) <=> OpensBody(s, m)
    BY DEF Extends
  <1>2. \/ OpensBody(s, i) /\ s[i-1].val = s[i].val
        \/ i < Len(s) /\ OpensBody(s, i + 1)
    BY <1>1 DEF Paired
  <1>3. CASE OpensBody(s, i) /\ s[i-1].val = s[i].val
    <2>1. i > 1
      BY <1>3 DEF OpensBody
    <2> QED BY <1>1, <1>3, <2>1
  <1>4. CASE i < Len(s) /\ OpensBody(s, i + 1)
    BY <1>1, <1>4
  <1> QED BY <1>2, <1>3, <1>4

\* What does not close a loop, or open one.
LEMMA AppendOther ==
    ASSUME NEW s, NEW depth, NEW b, NEW k, NestedSoFar(s, depth, b, k),
           NEW w \in Instruction, w.op = "OTHER", w.lvl = depth
    PROVE  NestedSoFar(Append(s, w), depth, b, k)
  <1> DEFINE t == Append(s, w)
  <1>s. s \in Seq(Instruction) /\ depth \in 0..MaxDepthLoopNesting /\ Len(k) = depth
    BY DEF NestedSoFar
  <1>x. Extends(s, w, t)
    BY <1>s, AppendExtends
  <1> HIDE DEF t
  <1>1. /\ t \in Seq(Instruction)
        /\ Len(t) = Len(s) + 1
        /\ \A i \in 1..Len(s) : t[i] = s[i]
        /\ t[Len(s) + 1] = w
        /\ Len(s) \in Nat
    BY <1>s, <1>x DEF Extends
  <1>2. \A i \in 1..Len(t) : t[i].lvl <= MaxDepthLoopNesting
    BY <1>1, <1>s DEF NestedSoFar
  <1>3. \A d \in 1..depth : OpenBody(t, b, k, d)
    BY <1>x, <1>s, AppendKeepsBodies DEF NestedSoFar
  <1>4. CountedLoops(t) /\ SimpleLoops(t)
    <2>1. \A j \in 1..Len(s) : CountedAt(t, j) /\ SimpleAt(t, j)
      BY <1>x, AppendKeepsLoops DEF NestedSoFar
    <2>2. CountedAt(t, Len(s) + 1) /\ SimpleAt(t, Len(s) + 1)
      BY <1>1 DEF CountedAt, SimpleAt
    <2>3. \A j \in 1..Len(t) : CountedAt(t, j) /\ SimpleAt(t, j)
      BY <2>1, <2>2, <1>1
    <2> QED BY <2>3, LoopsFromJumps
  <1>5. Paired(t)
    BY <1>1, <1>x, AppendKeepsPairs DEF NestedSoFar, Paired
  <1>6. LevelsSoFar(t, depth, b, k)
    <2>1. \A i \in 1..(Len(s) + 1) : StartsBody(t, b, k, i) <=> StartsBody(s, b, k, i)
      BY <1>x DEF Extends, StartsBody
    <2>2. \A i \in 1..(Len(s) + 1) : LevelBefore(t, i) = LevelBefore(s, i)
      BY <1>x DEF Extends
    <2>3. \A i \in 1..Len(s) : HasLevel(t, b, k, i, t[i].lvl)
      BY <2>1, <2>2, <1>1 DEF NestedSoFar, LevelsSoFar, HasLevel
    <2>4. HasLevel(t, b, k, Len(s) + 1, t[Len(s) + 1].lvl)
      BY <2>1, <2>2, <1>1 DEF NestedSoFar, LevelsSoFar, HasLevel
    <2>5. LevelBefore(t, Len(t) + 1) = depth
      BY <1>1 DEF LevelBefore, LevelAfter, OpensBody
    <2>6. ~StartsBody(t, b, k, Len(t) + 1)
      <3>1. ~StartsSimple(t, Len(t) + 1)
        BY <1>1 DEF StartsSimple
      <3>2. k # << >> => b[1] \in 1..(Len(s) + 1)
        BY <1>s DEF NestedSoFar, OpenBody
      <3> QED BY <3>1, <3>2, <1>1 DEF StartsBody, IsOpenSimple
    <2>7. HasLevel(t, b, k, Len(t) + 1, depth)
      BY <2>5, <2>6, <1>s DEF HasLevel
    <2> QED BY <2>3, <2>4, <2>7, <1>1 DEF LevelsSoFar
  <1> QED BY <1>s, <1>1, <1>2, <1>3, <1>4, <1>5, <1>6 DEF NestedSoFar, t

\* Only the beginnings of open bodies are looked at.
LEMMA SameBegins ==
    ASSUME NEW s, NEW depth, NEW b, NEW k, NestedSoFar(s, depth, b, k),
           NEW c, \A d \in 1..depth : c[d] = b[d]
    PROVE  NestedSoFar(s, depth, c, k)
  <1>1. depth \in Nat /\ Len(k) = depth /\ k \in Seq(Kinds)
    BY KernelAssumption DEF NestedSoFar
  <1>2. k # << >> => c[1] = b[1]
    BY <1>1
  <1>3. LevelsSoFar(s, depth, c, k)
    BY <1>2 DEF NestedSoFar, LevelsSoFar, HasLevel, StartsBody, IsOpenSimple
  <1>4. \A d \in 1..depth : OpenBody(s, c, k, d)
    BY DEF NestedSoFar, OpenBody
  <1> QED BY <1>3, <1>4 DEF NestedSoFar

\* REPEAT(x), its pair of _SETLC appended.
LEMMA OpenRepeat ==
    ASSUME NEW s, NEW depth, NEW b, NEW k, NestedSoFar(s, depth, b, k),
           depth + 1 <= MaxDepthLoopNesting,
           NEW w \in Instruction, w.op = "SETLC", w.lvl = depth,
           NEW c, \A d \in 1..depth : c[d] = b[d], c[depth + 1] = Len(s) + 3
    PROVE  NestedSoFar(Append(Append(s, w), w), depth + 1, c, Append(k, "REPEAT"))
  <1> DEFINE first == Append(s, w)
             t == Append(first, w)
             kk == Append(k, "REPEAT")
  <1>s. /\ s \in Seq(Instruction) /\ depth \in Nat /\ depth <= MaxDepthLoopNesting
        /\ k \in Seq(Kinds) /\ Len(k) = depth /\ Len(s) \in Nat
    BY KernelAssumption DEF NestedSoFar
  <1>x. Extends(s, w, first) /\ first \in Seq(Instruction)
    BY <1>s, AppendExtends DEF Extends
  <1>y. Extends(first, w, t)
    BY <1>x, AppendExtends
  <1>k. /\ kk \in Seq(Kinds) /\ Len(kk) = depth + 1 /\ kk[depth + 1] = "REPEAT"
        /\ \A d \in 1..depth : kk[d] = k[d]
    BY <1>s DEF Kinds
  <1> HIDE DEF first, t, kk
  <1>1. /\ t \in Seq(Instruction)
        /\ Len(first) = Len(s) + 1
        /\ Len(t) = Len(s) + 2
        /\ \A i \in 1..Len(s) : t[i] = s[i] /\ first[i] = s[i]
        /\ first[Len(s) + 1] = w
        /\ t[Len(s) + 1] = w
        /\ t[Len(s) + 2] = w
    BY <1>s, <1>x, <1>y DEF Extends
  <1>c. c[depth + 1] = Len(t) + 1
    BY <1>s, <1>1
  <1>2. \A i \in 1..Len(t) : t[i].lvl <= MaxDepthLoopNesting
    BY SMTT(30), <1>1, <1>s DEF NestedSoFar
  <1>3. ~OpensBody(t, Len(s) + 1)
    <2> SUFFICES ASSUME OpensBody(t, Len(s) + 1) PROVE FALSE
      OBVIOUS
    <2>1. Len(s) \in 1..Len(s) /\ s[Len(s)].op = "SETLC" /\ s[Len(s)].lvl = depth
      BY <1>1, <1>s DEF OpensBody
    <2>2. OpensBody(s, Len(s))
      BY <2>1 DEF NestedSoFar, Paired
    <2>3. LevelBefore(s, Len(s) + 1) = depth + 1
      BY <2>1, <2>2, <1>s DEF LevelBefore, LevelAfter
    <2> QED BY <2>3, <1>s DEF NestedSoFar, LevelsSoFar, HasLevel
  <1>4. OpensBody(t, Len(s) + 2)
    BY <1>1, <1>s DEF OpensBody
  <1>5. CountedLoops(t) /\ SimpleLoops(t)
    <2>1. CountedLoops(s) /\ SimpleLoops(s)
      BY DEF NestedSoFar
    <2>2. \A j \in 1..Len(s) : CountedAt(first, j) /\ SimpleAt(first, j)
      BY <2>1, <1>x, AppendKeepsLoops
    <2>3. CountedAt(first, Len(s) + 1) /\ SimpleAt(first, Len(s) + 1)
      BY <1>1 DEF CountedAt, SimpleAt
    <2>4. \A j \in 1..Len(first) : CountedAt(first, j) /\ SimpleAt(first, j)
      BY <2>2, <2>3, <1>1, <1>s
    <2>5. CountedLoops(first) /\ SimpleLoops(first)
      BY <2>4, LoopsFromJumps
    <2>6. \A j \in 1..Len(first) : CountedAt(t, j) /\ SimpleAt(t, j)
      BY <2>5, <1>y, AppendKeepsLoops
    <2>7. CountedAt(t, Len(s) + 2) /\ SimpleAt(t, Len(s) + 2)
      BY <1>1 DEF CountedAt, SimpleAt
    <2>8. \A j \in 1..Len(t) : CountedAt(t, j) /\ SimpleAt(t, j)
      BY <2>6, <2>7, <1>1, <1>s
    <2> QED BY <2>8, LoopsFromJumps
  <1>6. Paired(t)
    <2> SUFFICES ASSUME NEW i \in 1..Len(t), t[i].op = "SETLC"
                 PROVE  \/ OpensBody(t, i) /\ t[i-1].val = t[i].val
                        \/ i < Len(t) /\ OpensBody(t, i + 1)
      BY DEF Paired
    <2>1. CASE i = Len(s) + 2
      BY <2>1, <1>1, <1>4, <1>s
    <2>2. CASE i = Len(s) + 1
      BY <2>2, <1>1, <1>4, <1>s
    <2>3. CASE i \in 1..Len(s)
      <3>1. first[i].op = "SETLC"
        BY <2>3, <1>1
      <3>2. \/ OpensBody(first, i) /\ first[i-1].val = first[i].val
            \/ i < Len(first) /\ OpensBody(first, i + 1)
        BY <2>3, <3>1, <1>x, AppendKeepsPairs DEF NestedSoFar
      <3>3. i = Len(s) => ~OpensBody(first, i + 1)
        BY <1>3, <1>y, <1>1, <1>s DEF Extends
      <3>4. CASE OpensBody(first, i) /\ first[i-1].val = first[i].val
        <4>1. i > 1
          BY <3>4 DEF OpensBody
        <4>2. i - 1 \in 1..Len(s) /\ i \in 1..Len(first)
          BY <4>1, <2>3, <1>1, <1>s
        <4>3. OpensBody(t, i)
          BY <4>2, <3>4, <1>y DEF Extends
        <4> QED BY <4>2, <4>3, <3>4, <2>3, <1>1
      <3>5. CASE i < Len(first) /\ OpensBody(first, i + 1)
        BY <3>5, <3>3, <2>3, <1>y, <1>1, <1>s DEF Extends
      <3> QED BY <3>2, <3>4, <3>5
    <2> QED BY <2>1, <2>2, <2>3, <1>1, <1>s
  <1>7. k # << >> => b[1] \in 1..(Len(s) + 1) /\ c[1] = b[1] /\ kk[1] = k[1]
    BY <1>s, <1>k DEF NestedSoFar, OpenBody
  <1>8. k = << >> => kk[1] = "REPEAT"
    BY <1>k, <1>s
  <1>9. LevelsSoFar(t, depth + 1, c, kk)
    <2>1. ASSUME NEW i \in 1..(Len(s) + 1)
          PROVE  /\ StartsBody(t, c, kk, i) <=> StartsBody(s, b, k, i)
                 /\ LevelBefore(t, i) = LevelBefore(s, i)
      <3>1. i \in 1..(Len(first) + 1)
        BY <1>1, <1>s
      <3>2. StartsSimple(t, i) <=> StartsSimple(s, i)
        BY <3>1, <1>x, <1>y DEF Extends
      <3>3. LevelBefore(t, i) = LevelBefore(s, i)
        BY <3>1, <1>x, <1>y DEF Extends
      <3>4. IsOpenSimple(c, kk, i) <=> IsOpenSimple(b, k, i)
        <4>1. kk # << >>
          BY <1>k, <1>s
        <4> QED BY <4>1, <1>7, <1>8 DEF IsOpenSimple
      <3> QED BY <3>2, <3>3, <3>4 DEF StartsBody
    <2>2. \A i \in 1..Len(s) : HasLevel(t, c, kk, i, t[i].lvl)
      BY SMTT(30), <2>1, <1>1, <1>s DEF NestedSoFar, LevelsSoFar, HasLevel
    <2>3. HasLevel(t, c, kk, Len(s) + 1, t[Len(s) + 1].lvl)
      BY SMTT(30), <2>1, <1>1, <1>s DEF NestedSoFar, LevelsSoFar, HasLevel
    <2>4. ASSUME NEW i \in {Len(s) + 2, Len(s) + 3} PROVE ~StartsBody(t, c, kk, i)
      <3>1. ~StartsSimple(t, i)
        BY <1>1, <1>s DEF StartsSimple
      <3>2. ~IsOpenSimple(c, kk, i)
        BY <1>7, <1>8, <1>s DEF IsOpenSimple
      <3> QED BY <3>1, <3>2 DEF StartsBody
    <2>5. LevelBefore(t, Len(s) + 2) = depth
      BY <1>1, <1>3, <1>s DEF LevelBefore, LevelAfter
    <2>6. LevelBefore(t, Len(s) + 3) = depth + 1
      BY <1>1, <1>4, <1>s DEF LevelBefore, LevelAfter
    <2>7. HasLevel(t, c, kk, Len(s) + 2, t[Len(s) + 2].lvl)
      BY <2>4, <2>5, <1>1, <1>s DEF HasLevel
    <2>8. HasLevel(t, c, kk, Len(t) + 1, depth + 1)
      BY <2>4, <2>6, <1>1, <1>s DEF HasLevel
    <2>9. \A i \in 1..Len(t) : HasLevel(t, c, kk, i, t[i].lvl)
      BY <2>2, <2>3, <2>7, <1>1, <1>s
    <2> QED BY <2>8, <2>9 DEF LevelsSoFar
  <1>10. ASSUME NEW d \in 1..(depth + 1) PROVE OpenBody(t, c, kk, d)
    <2>1. CASE d \in 1..depth
      <3>1. OpenBody(s, b, k, d)
        BY <2>1 DEF NestedSoFar
      <3>2. OpenBody(first, b, k, d)
        BY <2>1, <3>1, <1>x, <1>s, AppendKeepsBodies
      <3>3. OpenBody(t, b, k, d)
        BY <2>1, <3>2, <1>y, <1>s, AppendKeepsBodies
      <3> QED BY <2>1, <3>3, <1>k DEF OpenBody
    <2>2. CASE d = depth + 1
      <3>1. c[d] = Len(s) + 3
        BY <2>2
      <3>2. OpensBody(t, c[d] - 1) /\ t[c[d] - 1].lvl = d - 1 /\ c[d] > 2
        BY <3>1, <2>2, <1>1, <1>4, <1>s
      <3> QED BY <3>1, <3>2, <2>2, <1>1, <1>k, <1>s DEF OpenBody
    <2> QED BY <2>1, <2>2, <1>s
  <1>11. depth + 1 \in 0..MaxDepthLoopNesting
    BY <1>s, KernelAssumption
  <1> QED BY <1>1, <1>2, <1>5, <1>6, <1>9, <1>10, <1>11, <1>k DEF NestedSoFar, t, first, kk

\* REPEAT_SIMPLE, which emits nothing.
LEMMA OpenSimple ==
    ASSUME NEW s, NEW b, NestedSoFar(s, 0, b, << >>),
           NEW c, c[1] = Len(s) + 1
    PROVE  NestedSoFar(s, 1, c, Append(<< >>, "REPEAT_SIMPLE"))
  <1> DEFINE kk == Append(<< >>, "REPEAT_SIMPLE")
  <1>s. s \in Seq(Instruction) /\ Len(s) \in Nat
    BY DEF NestedSoFar
  <1>k. kk \in Seq(Kinds) /\ Len(kk) = 1 /\ kk[1] = "REPEAT_SIMPLE" /\ kk # << >>
    BY DEF Kinds
  <1> HIDE DEF kk
  <1>1. \A i \in 1..Len(s) : StartsBody(s, c, kk, i) <=> StartsBody(s, b, << >>, i)
    BY <1>s, <1>k DEF StartsBody, IsOpenSimple
  <1>2. ~StartsBody(s, b, << >>, Len(s) + 1)
    BY <1>s DEF StartsBody, StartsSimple, IsOpenSimple
  <1>3. StartsBody(s, c, kk, Len(s) + 1)
    BY <1>k DEF StartsBody, IsOpenSimple
  <1>4. LevelsSoFar(s, 1, c, kk)
    <2>1. LevelBefore(s, Len(s) + 1) \in Int
      BY <1>s, LevelBeforeType
    <2>2. HasLevel(s, b, << >>, Len(s) + 1, 0)
      BY DEF NestedSoFar, LevelsSoFar
    <2>3. HasLevel(s, c, kk, Len(s) + 1, 1)
      BY <2>1, <2>2, <1>2, <1>3 DEF HasLevel
    <2>4. \A i \in 1..Len(s) : HasLevel(s, c, kk, i, s[i].lvl)
      BY <1>1 DEF NestedSoFar, LevelsSoFar, HasLevel
    <2> QED BY <2>3, <2>4 DEF LevelsSoFar
  <1>5. \A d \in 1..1 : OpenBody(s, c, kk, d)
    BY <1>k, <1>s DEF OpenBody
  <1>6. 1 \in 0..MaxDepthLoopNesting
    BY KernelAssumption
  <1> QED BY <1>4, <1>5, <1>6, <1>k DEF NestedSoFar, kk

\* END_REPEAT and END_REPEAT_RED_NOT_ZERO, the jump appended that goes back to
\* the beginning of the innermost body.
LEMMA CloseLoop ==
    ASSUME NEW s, NEW depth, NEW b, NEW k, NestedSoFar(s, depth, b, k), depth >= 1,
           NEW w \in Instruction, w.lvl = depth, w.val = Len(s) + 1 - b[depth],
           \/ w.op = "IJMPNZ" /\ k[depth] = "REPEAT"
           \/ w.op = "IJMPNZ_RED" /\ k[depth] = "REPEAT_SIMPLE"
    PROVE  NestedSoFar(Append(s, w), depth - 1, b, SubSeq(k, 1, Len(k) - 1))
  <1> DEFINE t == Append(s, w)
             kk == SubSeq(k, 1, Len(k) - 1)
  <1>s. /\ s \in Seq(Instruction) /\ depth \in Nat /\ depth <= MaxDepthLoopNesting
        /\ k \in Seq(Kinds) /\ Len(k) = depth /\ Len(s) \in Nat
    BY KernelAssumption DEF NestedSoFar
  <1>x. Extends(s, w, t)
    BY <1>s, AppendExtends
  <1>k. /\ kk \in Seq(Kinds) /\ Len(kk) = depth - 1
        /\ \A d \in 1..(depth - 1) : kk[d] = k[d]
    BY <1>s
  <1> HIDE DEF t, kk
  <1>1. /\ t \in Seq(Instruction)
        /\ Len(t) = Len(s) + 1
        /\ \A i \in 1..Len(s) : t[i] = s[i]
        /\ t[Len(s) + 1] = w
        /\ \A i \in 1..Len(s) : OpensBody(t, i) <=> OpensBody(s, i)
    BY <1>x DEF Extends
  <1>2. \A i \in 1..Len(t) : t[i].lvl <= MaxDepthLoopNesting
    BY <1>1, <1>s DEF NestedSoFar
  <1>b. /\ depth \in 1..depth
        /\ b[depth] \in 1..(Len(s) + 1)
        /\ \A j \in b[depth]..Len(s) : s[j].lvl >= depth
        /\ k[depth] = "REPEAT" =>
               /\ b[depth] > 2
               /\ OpensBody(s, b[depth] - 1)
               /\ s[b[depth] - 1].lvl = depth - 1
        /\ k[depth] = "REPEAT_SIMPLE" => depth = 1
    BY <1>s DEF NestedSoFar, OpenBody
  <1>3. BodyStart(t, Len(s) + 1) = b[depth]
    BY <1>1, <1>b, <1>s DEF BodyStart
  <1>4. \A j \in b[depth]..(Len(s) + 1) : t[j].lvl >= depth
    BY SMTT(30), <1>1, <1>b, <1>s
  <1>5. CountedLoops(t) /\ SimpleLoops(t)
    <2>1. \A j \in 1..Len(s) : CountedAt(t, j) /\ SimpleAt(t, j)
      BY <1>x, AppendKeepsLoops DEF NestedSoFar
    <2>2. w.val >= 0
      BY <1>b, <1>s
    <2>3. CountedAt(t, Len(s) + 1)
      <3>1. w.op = "IJMPNZ" =>
               /\ b[depth] > 2
               /\ OpensBody(t, b[depth] - 1)
               /\ t[b[depth] - 1].lvl = depth - 1
        BY <1>b, <1>1, <1>s
      <3> QED BY <3>1, <2>2, <1>1, <1>3, <1>4, <1>s DEF CountedAt
    <2>4. SimpleAt(t, Len(s) + 1)
      <3>1. w.op = "IJMPNZ_RED" => depth = 1
        BY <1>b
      <3> QED BY <3>1, <2>2, <1>1, <1>3, <1>4, <1>b, <1>s DEF SimpleAt
    <2>5. \A j \in 1..Len(t) : CountedAt(t, j) /\ SimpleAt(t, j)
      BY <2>1, <2>3, <2>4, <1>1, <1>s
    <2> QED BY <2>5, LoopsFromJumps
  <1>6. Paired(t)
    BY <1>1, <1>x, <1>s, AppendKeepsPairs DEF NestedSoFar, Paired
  <1>7. b[1] \in 1..(Len(s) + 1)
    BY <1>s DEF NestedSoFar, OpenBody
  <1>8. LevelsSoFar(t, depth - 1, b, kk)
    <2>1. ASSUME NEW i \in 1..(Len(s) + 1)
          PROVE  StartsBody(t, b, kk, i) <=> StartsBody(s, b, k, i)
      <3>1. StartsSimple(t, i) <=>
                StartsSimple(s, i) \/ (w.op = "IJMPNZ_RED" /\ b[depth] = i)
        <4>1. Len(s) + 1 - w.val = b[depth]
          BY <1>b, <1>s
        <4> QED BY <4>1, <1>x DEF Extends
      <3>2. k # << >>
        BY <1>s
      <3>3. CASE depth = 1
        <4>1. kk = << >>
          BY <3>3, <1>k
        <4> QED BY <4>1, <3>1, <3>2, <3>3 DEF StartsBody, IsOpenSimple
      <3>4. CASE depth > 1
        <4>1. kk # << >> /\ kk[1] = k[1]
          BY <3>4, <1>k, <1>s
        <4>2. w.op # "IJMPNZ_RED"
          BY <3>4, <1>b
        <4> QED BY <4>1, <4>2, <3>1, <3>2 DEF StartsBody, IsOpenSimple
      <3> QED BY <3>3, <3>4, <1>s
    <2>2. \A i \in 1..(Len(s) + 1) : LevelBefore(t, i) = LevelBefore(s, i)
      BY <1>x DEF Extends
    <2>3. \A i \in 1..Len(s) : HasLevel(t, b, kk, i, t[i].lvl)
      BY <2>1, <2>2, <1>1, <1>s DEF NestedSoFar, LevelsSoFar, HasLevel
    <2>4. HasLevel(t, b, kk, Len(s) + 1, t[Len(s) + 1].lvl)
      BY <2>1, <2>2, <1>1, <1>s DEF NestedSoFar, LevelsSoFar, HasLevel
    <2>5. LevelBefore(t, Len(t) + 1) = depth - 1
      BY <1>1, <1>s DEF LevelBefore, LevelAfter, OpensBody
    <2>6. ~StartsBody(t, b, kk, Len(t) + 1)
      <3>1. ~StartsSimple(t, Len(t) + 1)
        BY <1>1, <1>s DEF StartsSimple
      <3> QED BY <3>1, <1>1, <1>7, <1>s DEF StartsBody, IsOpenSimple
    <2>7. HasLevel(t, b, kk, Len(t) + 1, depth - 1)
      BY <2>5, <2>6, <1>s DEF HasLevel
    <2>8. \A i \in 1..Len(t) : HasLevel(t, b, kk, i, t[i].lvl)
      BY <2>3, <2>4, <1>1, <1>s
    <2> QED BY <2>7, <2>8 DEF LevelsSoFar
  <1>9. ASSUME NEW d \in 1..(depth - 1) PROVE OpenBody(t, b, kk, d)
    <2>1. OpenBody(s, b, k, d) /\ d \in Nat \ {0} /\ w.lvl >= d
      BY <1>s DEF NestedSoFar
    <2>2. OpenBody(t, b, k, d)
      BY <2>1, <1>x, AppendKeepsBodies
    <2> QED BY <2>2, <1>k DEF OpenBody
  <1>10. depth - 1 \in 0..MaxDepthLoopNesting
    BY <1>s, KernelAssumption
  <1> QED BY <1>1, <1>2, <1>5, <1>6, <1>8, <1>9, <1>10, <1>k DEF NestedSoFar, t, kk

-----------------------------------------------------------------------------
(***************************************************************************)
(* The steps of the assembler.                                             *)
(***************************************************************************)
IInv == TypeOK /\ NestInv

\* The targets of the open loops grow by what append() appends.
LEMMA CountedFacts ==
    ASSUME NEW target \in [LoopDepth -> Nat], NEW depth \in Nat,
           NEW before \in Seq(Instruction), NEW after \in Seq(Instruction),
           Len(after) >= Len(before)
    PROVE  /\ Counted(target, depth, before, after) \in [LoopDepth -> Nat]
           /\ \A d \in 1..depth : d \in LoopDepth =>
                  Counted(target, depth, before, after)[d]
                      = target[d] + Len(after) - Len(before)
  <1>1. Len(before) \in Nat /\ Len(after) \in Nat
    OBVIOUS
  <1>2. \A d \in LoopDepth : target[d] \in Nat /\ d \in Nat
    BY KernelAssumption DEF LoopDepth
  <1> QED BY <1>1, <1>2 DEF Counted

\* Before a macro: what IInv says of a kernel in the making.
LEMMA WhileBuilding ==
    ASSUME IInv, Building
    PROVE  /\ NestedSoFar(instructions, loopNestDepth, Begins, opened)
           /\ instructions \in Seq(Instruction)
           /\ Len(instructions) \in Nat
           /\ Len(instructions) < JumpRange
           /\ loopNestDepth \in Nat
           /\ loopNestDepth <= MaxDepthLoopNesting
           /\ 1..loopNestDepth \subseteq LoopDepth
           /\ Begins = [d \in LoopDepth |-> Len(instructions) + 1 - jumpTarget[d]]
           /\ jumpTarget \in [LoopDepth -> Nat]
           /\ opened \in Seq(Kinds)
           /\ Len(opened) = loopNestDepth
           /\ status = "building"
  <1>1. NestedSoFar(instructions, loopNestDepth, Begins, opened) /\ status = "building"
    BY DEF IInv, NestInv, Building
  <1>2. /\ instructions \in Seq(Instruction)
        /\ loopNestDepth \in Nat
        /\ jumpTarget \in [LoopDepth -> Nat]
        /\ opened \in Seq(Kinds)
        /\ Len(opened) = loopNestDepth
    BY DEF IInv, TypeOK, Kinds
  <1>3. loopNestDepth <= MaxDepthLoopNesting
    BY <1>1, KernelAssumption DEF NestedSoFar
  <1>4. Len(instructions) \in Nat /\ Len(instructions) < JumpRange
    BY <1>2, KernelAssumption, JumpAssumption DEF Building
  <1>5. 1..loopNestDepth \subseteq LoopDepth
    BY <1>2, <1>3, KernelAssumption DEF LoopDepth
  <1> QED BY <1>1, <1>2, <1>3, <1>4, <1>5 DEF Begins

\* A kernel begins with nothing.
LEMMA InitNest == Init => IInv
  <1> SUFFICES ASSUME Init PROVE IInv
    OBVIOUS
  <1>1. /\ instructions = << >> /\ loopNestDepth = 0 /\ opened = << >>
        /\ jumpTarget \in [LoopDepth -> Nat] /\ status = "building"
    BY DEF Init
  <1>2. TypeOK
    BY <1>1 DEF TypeOK
  <1>3. LevelsSoFar(<< >>, 0, Begins, << >>)
    BY DEF LevelsSoFar, HasLevel, LevelBefore, StartsBody, StartsSimple, IsOpenSimple
  <1>4. Paired(<< >>) /\ CountedLoops(<< >>) /\ SimpleLoops(<< >>)
    BY DEF Paired, CountedLoops, SimpleLoops
  <1>5. NestedSoFar(<< >>, 0, Begins, << >>)
    BY <1>3, <1>4, KernelAssumption DEF NestedSoFar
  <1> QED BY <1>1, <1>2, <1>5 DEF IInv, NestInv

\* append(), the NOP that a hazard calls for included.
LEMMA PlainNest ==
    ASSUME IInv, NEW tag \in Tags, Plain(tag)
    PROVE  IInv'
  <1> DEFINE w == Word("OTHER", tag, loopNestDepth)
             s == Appended(instructions, w)
  <1>1. /\ NestedSoFar(instructions, loopNestDepth, Begins, opened)
        /\ instructions \in Seq(Instruction)
        /\ Len(instructions) \in Nat
        /\ loopNestDepth \in Nat
        /\ 1..loopNestDepth \subseteq LoopDepth
        /\ Begins = [d \in LoopDepth |-> Len(instructions) + 1 - jumpTarget[d]]
        /\ jumpTarget \in [LoopDepth -> Nat]
        /\ status = "building"
    BY WhileBuilding DEF Plain
  <1>2. w \in Instruction /\ w.op = "OTHER" /\ w.lvl = loopNestDepth
    BY <1>1, WordType, KernelAssumption DEF Opcode
  <1>3. Nop(w.lvl) \in Instruction /\ Nop(w.lvl).op = "OTHER" /\ Nop(w.lvl).lvl = loopNestDepth
    BY <1>1, <1>2, NopType
  <1> HIDE DEF w
  <1>4. s \in Seq(Instruction) /\ Len(s) >= Len(instructions)
    BY <1>1, <1>2, AppendedFacts
  <1>5. NestedSoFar(s, loopNestDepth, Begins, opened)
    <2>1. NestedSoFar(Append(instructions, w), loopNestDepth, Begins, opened)
      BY <1>1, <1>2, AppendOther
    <2>2. NestedSoFar(Append(instructions, Nop(w.lvl)), loopNestDepth, Begins, opened)
      BY <1>1, <1>3, AppendOther
    <2>3. NestedSoFar(Append(Append(instructions, Nop(w.lvl)), w), loopNestDepth, Begins, opened)
      BY <2>2, <1>2, AppendOther
    <2> QED BY <2>1, <2>3 DEF Appended
  <1>6. /\ instructions' = s
        /\ jumpTarget' = Counted(jumpTarget, loopNestDepth, instructions, s)
        /\ loopNestDepth' = loopNestDepth /\ opened' = opened /\ status' = status
    BY DEF Plain, w
  <1> HIDE DEF s
  <1>7. /\ jumpTarget' \in [LoopDepth -> Nat]
        /\ \A d \in 1..loopNestDepth : d \in LoopDepth =>
               jumpTarget'[d] = jumpTarget[d] + Len(s) - Len(instructions)
    BY ZenonT(60), <1>1, <1>4, <1>6, CountedFacts
  <1>8. TypeOK'
    BY <1>4, <1>6, <1>7 DEF IInv, TypeOK
  <1>9. \A d \in 1..loopNestDepth : Begins'[d] = Begins[d]
    <2> TAKE d \in 1..loopNestDepth
    <2>1. d \in LoopDepth /\ jumpTarget[d] \in Nat
      BY <1>1
    <2>2. Begins[d] = Len(instructions) + 1 - jumpTarget[d]
      BY <2>1, <1>1
    <2>3. Begins'[d] = Len(s) + 1 - jumpTarget'[d]
      BY <2>1, <1>6 DEF Begins
    <2>4. Len(s) \in Nat
      BY <1>4
    <2> QED BY <2>1, <2>2, <2>3, <2>4, <1>1, <1>7
  <1>10. NestedSoFar(s, loopNestDepth, Begins', opened)
    BY <1>5, <1>9, SameBegins
  <1> QED BY <1>1, <1>6, <1>8, <1>10 DEF IInv, NestInv

\* REPEAT(x).  Too deep a loop is one that the assertion stops.
LEMMA RepeatNest ==
    ASSUME IInv, NEW x \in Trips, Repeat(x)
    PROVE  IInv'
  <1> DEFINE w == Word("SETLC", x - 1, loopNestDepth)
             s == Appended(Appended(instructions, w), w)
             target == Counted(jumpTarget, loopNestDepth, instructions, s)
  <1>1. /\ NestedSoFar(instructions, loopNestDepth, Begins, opened)
        /\ instructions \in Seq(Instruction)
        /\ Len(instructions) \in Nat
        /\ loopNestDepth \in Nat
        /\ 1..loopNestDepth \subseteq LoopDepth
        /\ Begins = [d \in LoopDepth |-> Len(instructions) + 1 - jumpTarget[d]]
        /\ jumpTarget \in [LoopDepth -> Nat]
        /\ opened \in Seq(Kinds)
        /\ Len(opened) = loopNestDepth
        /\ status = "building"
    BY WhileBuilding DEF Repeat
  <1>2. w \in Instruction /\ w.op = "SETLC" /\ w.lvl = loopNestDepth
    <2>1. x - 1 \in Int
      BY KernelAssumption
    <2> QED BY <2>1, <1>1, WordType DEF Opcode
  <1> HIDE DEF w
  <1>3. /\ s = Append(Append(instructions, w), w)
        /\ s \in Seq(Instruction)
        /\ Len(s) = Len(instructions) + 2
    <2>1. /\ Appended(instructions, w) = Append(instructions, w)
          /\ Append(instructions, w) \in Seq(Instruction)
          /\ Len(Append(instructions, w)) = Len(instructions) + 1
      BY <1>1, <1>2, AppendedFacts, AppendFacts
    <2>2. Appended(Append(instructions, w), w) = Append(Append(instructions, w), w)
      BY <2>1, <1>2, AppendedFacts
    <2> QED BY <2>1, <2>2, <1>1, <1>2, AppendFacts
  <1>4. /\ instructions' = s
        /\ loopNestDepth' = loopNestDepth + 1
        /\ opened' = Append(opened, "REPEAT")
        /\ IF loopNestDepth' \in LoopDepth
           THEN jumpTarget' = [target EXCEPT ![loopNestDepth'] = 0] /\ status' = status
           ELSE jumpTarget' = target /\ status' = "assert"
    BY DEF Repeat, ResetLoopJumpTarget, w
  <1> HIDE DEF s
  <1>5. /\ target \in [LoopDepth -> Nat]
        /\ \A d \in 1..loopNestDepth : d \in LoopDepth => target[d] = jumpTarget[d] + 2
    <2>1. Len(s) >= Len(instructions)
      BY <1>1, <1>3
    <2>2. /\ target \in [LoopDepth -> Nat]
          /\ \A d \in 1..loopNestDepth : d \in LoopDepth =>
                 target[d] = jumpTarget[d] + Len(s) - Len(instructions)
      BY ZenonT(60), <2>1, <1>1, <1>3, CountedFacts
    <2>3. \A d \in LoopDepth : jumpTarget[d] \in Nat
      BY <1>1
    <2> QED BY <2>2, <2>3, <1>1, <1>3
  <1> HIDE DEF target
  <1>6. TypeOK'
    <2>1. opened' \in Seq({"REPEAT", "REPEAT_SIMPLE"}) /\ Len(opened') = loopNestDepth'
      BY <1>1, <1>4 DEF Kinds
    <2>2. jumpTarget' \in [LoopDepth -> Nat] /\ status' \in {"building", "assert"}
      <3>1. [target EXCEPT ![loopNestDepth'] = 0] \in [LoopDepth -> Nat]
        BY <1>5
      <3> QED BY <3>1, <1>1, <1>4, <1>5
    <2> QED BY <2>1, <2>2, <1>1, <1>3, <1>4 DEF TypeOK
  <1>7. CASE loopNestDepth + 1 \in LoopDepth
    <2>1. loopNestDepth + 1 <= MaxDepthLoopNesting
      BY <1>7, KernelAssumption DEF LoopDepth
    <2>2. jumpTarget' = [target EXCEPT ![loopNestDepth + 1] = 0] /\ status' = "building"
      BY <1>1, <1>4, <1>7
    <2>3. \A d \in 1..loopNestDepth : Begins'[d] = Begins[d]
      <3> TAKE d \in 1..loopNestDepth
      <3>1. d \in LoopDepth /\ jumpTarget[d] \in Nat /\ d # loopNestDepth + 1
        BY <1>1
      <3>2. Begins[d] = Len(instructions) + 1 - jumpTarget[d]
        BY <3>1, <1>1
      <3>3. jumpTarget'[d] = jumpTarget[d] + 2
        BY <3>1, <2>2, <1>5
      <3>4. Begins'[d] = Len(s) + 1 - jumpTarget'[d]
        BY <3>1, <1>4 DEF Begins
      <3> QED BY SMTT(30), <3>1, <3>2, <3>3, <3>4, <1>1, <1>3
    <2>4. Begins'[loopNestDepth + 1] = Len(instructions) + 3
      <3>1. jumpTarget'[loopNestDepth + 1] = 0
        BY <2>2, <1>5, <1>7
      <3>2. Begins'[loopNestDepth + 1] = Len(s) + 1 - jumpTarget'[loopNestDepth + 1]
        BY <1>4, <1>7 DEF Begins
      <3> QED BY <3>1, <3>2, <1>1, <1>3
    <2>5. NestedSoFar(s, loopNestDepth + 1, Begins', Append(opened, "REPEAT"))
      BY ZenonT(60), <2>1, <2>3, <2>4, <1>1, <1>2, <1>3, OpenRepeat
    <2> QED BY <2>2, <2>5, <1>4, <1>6 DEF IInv, NestInv
  <1>8. CASE loopNestDepth + 1 \notin LoopDepth
    BY <1>4, <1>6, <1>8 DEF IInv, NestInv
  <1> QED BY <1>7, <1>8

\* REPEAT_SIMPLE.
LEMMA RepeatSimpleNest ==
    ASSUME IInv, RepeatSimple
    PROVE  IInv'
  <1>1. /\ NestedSoFar(instructions, loopNestDepth, Begins, opened)
        /\ instructions \in Seq(Instruction)
        /\ Len(instructions) \in Nat
        /\ jumpTarget \in [LoopDepth -> Nat]
        /\ opened \in Seq(Kinds)
        /\ Len(opened) = loopNestDepth
        /\ status = "building"
    BY WhileBuilding DEF RepeatSimple
  <1>2. loopNestDepth = 0 /\ opened = << >>
    BY <1>1 DEF RepeatSimple
  <1>3. 1 \in LoopDepth
    BY KernelAssumption DEF LoopDepth
  <1>4. /\ instructions' = instructions
        /\ loopNestDepth' = 1
        /\ opened' = Append(<< >>, "REPEAT_SIMPLE")
        /\ jumpTarget' = [jumpTarget EXCEPT ![1] = 0]
        /\ status' = "building"
    BY <1>1, <1>2, <1>3 DEF RepeatSimple, ResetLoopJumpTarget
  <1>5. TypeOK'
    BY <1>1, <1>3, <1>4 DEF TypeOK
  <1>6. Begins'[1] = Len(instructions) + 1
    <2>1. jumpTarget'[1] = 0
      BY <1>1, <1>3, <1>4
    <2> QED BY <2>1, <1>1, <1>3, <1>4 DEF Begins
  <1>7. NestedSoFar(instructions, 1, Begins', Append(<< >>, "REPEAT_SIMPLE"))
    BY <1>1, <1>2, <1>6, OpenSimple
  <1> QED BY <1>4, <1>5, <1>7 DEF IInv, NestInv

\* A number that fits the field is not cut.
LEMMA FitsField ==
    ASSUME NEW n \in Nat, NEW m \in Nat, n < m
    PROVE  n % m = n
  OBVIOUS

\* END_REPEAT and END_REPEAT_RED_NOT_ZERO: the jump fits its field, and is that
\* of the innermost loop.
LEMMA CloseNest ==
    ASSUME IInv, NEW op, Building, opened # << >>, Close(op),
           \/ op = "IJMPNZ" /\ opened[Len(opened)] = "REPEAT"
           \/ op = "IJMPNZ_RED" /\ opened[Len(opened)] = "REPEAT_SIMPLE"
    PROVE  IInv'
  <1> DEFINE w == Word(op, jumpTarget[loopNestDepth] % JumpRange, loopNestDepth)
             looped == Appended(instructions, w)
             s == Appended(looped, Nop(loopNestDepth - 1))
             rest == SubSeq(opened, 1, Len(opened) - 1)
             target == Counted(jumpTarget, loopNestDepth, instructions, looped)
  <1>1. /\ NestedSoFar(instructions, loopNestDepth, Begins, opened)
        /\ instructions \in Seq(Instruction)
        /\ Len(instructions) \in Nat
        /\ Len(instructions) < JumpRange
        /\ loopNestDepth \in Nat
        /\ 1..loopNestDepth \subseteq LoopDepth
        /\ Begins = [d \in LoopDepth |-> Len(instructions) + 1 - jumpTarget[d]]
        /\ jumpTarget \in [LoopDepth -> Nat]
        /\ opened \in Seq(Kinds)
        /\ Len(opened) = loopNestDepth
        /\ status = "building"
    BY WhileBuilding
  <1>2. loopNestDepth >= 1 /\ loopNestDepth \in 1..loopNestDepth
    BY <1>1
  <1>3. /\ jumpTarget[loopNestDepth] \in Nat
        /\ jumpTarget[loopNestDepth] = Len(instructions) + 1 - Begins[loopNestDepth]
        /\ jumpTarget[loopNestDepth] <= Len(instructions)
    <2>1. loopNestDepth \in LoopDepth
      BY <1>1, <1>2
    <2>2. /\ Begins[loopNestDepth] = Len(instructions) + 1 - jumpTarget[loopNestDepth]
          /\ jumpTarget[loopNestDepth] \in Nat
      BY <2>1, <1>1
    <2>3. Begins[loopNestDepth] \in 1..(Len(instructions) + 1)
      BY <1>1, <1>2 DEF NestedSoFar, OpenBody
    <2> QED BY <2>2, <2>3, <1>1
  <1>4. jumpTarget[loopNestDepth] % JumpRange = jumpTarget[loopNestDepth]
    <2>1. JumpRange \in Nat /\ jumpTarget[loopNestDepth] < JumpRange
      BY <1>1, <1>3, KernelAssumption
    <2> QED BY <2>1, <1>3, FitsField
  <1>5. /\ w \in Instruction
        /\ w.op = op /\ w.lvl = loopNestDepth
        /\ w.val = Len(instructions) + 1 - Begins[loopNestDepth]
    BY SMTT(30), <1>1, <1>3, <1>4, WordType DEF Opcode
  <1> HIDE DEF w
  <1>6. /\ looped = Append(instructions, w)
        /\ looped \in Seq(Instruction)
        /\ Len(looped) = Len(instructions) + 1
    <2>1. instructions \in Seq(Instruction) /\ w.op # "OTHER"
      BY <1>1, <1>5
    <2>2. Appended(instructions, w) = Append(instructions, w)
      BY <2>1, <1>5, AppendedFacts
    <2>3. /\ Append(instructions, w) \in Seq(Instruction)
          /\ Len(Append(instructions, w)) = Len(instructions) + 1
      BY <2>1, <1>5, AppendFacts
    <2> QED BY <2>2, <2>3
  <1> HIDE DEF looped
  <1>7. NestedSoFar(looped, loopNestDepth - 1, Begins, rest)
    BY <1>1, <1>2, <1>5, <1>6, CloseLoop
  <1>8. /\ Nop(loopNestDepth - 1) \in Instruction
        /\ Nop(loopNestDepth - 1).op = "OTHER"
        /\ Nop(loopNestDepth - 1).val = 0
        /\ Nop(loopNestDepth - 1).lvl = loopNestDepth - 1
    BY <1>1, <1>2, NopType
  <1>9. /\ s = Append(looped, Nop(loopNestDepth - 1))
        /\ s \in Seq(Instruction)
        /\ Len(s) = Len(looped) + 1
    <2> DEFINE n == Nop(loopNestDepth - 1)
    <2>1. n \in Instruction /\ n.val = 0
      BY <1>8
    <2> HIDE DEF n
    <2>2. Appended(looped, n) = Append(looped, n)
      BY <2>1, <1>6, AppendedFacts
    <2>3. Append(looped, n) \in Seq(Instruction) /\ Len(Append(looped, n)) = Len(looped) + 1
      BY <2>1, <1>6, AppendFacts
    <2> QED BY <2>2, <2>3 DEF n
  <1>10. NestedSoFar(s, loopNestDepth - 1, Begins, rest)
    BY <1>7, <1>8, <1>9, AppendOther
  <1>11. /\ instructions' = s
         /\ loopNestDepth' = loopNestDepth - 1
         /\ jumpTarget' = Counted(target, loopNestDepth - 1, looped, s)
         /\ opened' = rest
         /\ status' = status
    BY DEF Close, w, looped
  <1> HIDE DEF s
  <1>12. /\ target \in [LoopDepth -> Nat]
         /\ \A d \in 1..loopNestDepth : d \in LoopDepth =>
                target[d] = jumpTarget[d] + Len(looped) - Len(instructions)
    <2>1. Len(looped) >= Len(instructions)
      BY <1>1, <1>6
    <2> QED BY ZenonT(60), <2>1, <1>1, <1>6, CountedFacts
  <1> HIDE DEF target
  <1>13. /\ jumpTarget' \in [LoopDepth -> Nat]
         /\ \A d \in 1..(loopNestDepth - 1) : d \in LoopDepth =>
                jumpTarget'[d] = target[d] + Len(s) - Len(looped)
    <2>1. Len(s) >= Len(looped) /\ loopNestDepth - 1 \in Nat
      BY <1>1, <1>2, <1>6, <1>9
    <2> DEFINE outer == loopNestDepth - 1
    <2>2. outer \in Nat /\ Len(s) >= Len(looped)
      BY <2>1
    <2>3. s \in Seq(Instruction) /\ looped \in Seq(Instruction)
      BY <1>6, <1>9
    <2>4. target \in [LoopDepth -> Nat]
      BY <1>12
    <2>5. jumpTarget' = Counted(target, outer, looped, s)
      BY <1>11
    <2> HIDE DEF outer
    <2>6. /\ Counted(target, outer, looped, s) \in [LoopDepth -> Nat]
          /\ \A d \in 1..outer : d \in LoopDepth =>
                 Counted(target, outer, looped, s)[d] = target[d] + Len(s) - Len(looped)
      BY <2>2, <2>3, <2>4, CountedFacts
    <2> QED BY <2>5, <2>6 DEF outer
  <1>14. TypeOK'
    <2>1. rest \in Seq({"REPEAT", "REPEAT_SIMPLE"}) /\ Len(rest) = loopNestDepth - 1
      BY <1>1, <1>2 DEF Kinds
    <2>2. loopNestDepth - 1 \in Nat
      BY <1>1, <1>2
    <2> QED BY <2>1, <2>2, <1>1, <1>9, <1>11, <1>13 DEF TypeOK
  <1>15. \A d \in 1..(loopNestDepth - 1) : Begins'[d] = Begins[d]
    <2> TAKE d \in 1..(loopNestDepth - 1)
    <2>1. d \in LoopDepth /\ jumpTarget[d] \in Nat /\ d \in 1..loopNestDepth
      BY <1>1, <1>2
    <2>2. Begins[d] = Len(instructions) + 1 - jumpTarget[d]
      BY <2>1, <1>1
    <2>3. Begins'[d] = Len(s) + 1 - jumpTarget'[d]
      BY <2>1, <1>11 DEF Begins
    <2>4. jumpTarget'[d] = jumpTarget[d] + 2
      BY <2>1, <1>1, <1>6, <1>9, <1>12, <1>13
    <2> QED BY <2>1, <2>2, <2>3, <2>4, <1>1, <1>6, <1>9
  <1>16. NestedSoFar(s, loopNestDepth - 1, Begins', rest)
    BY <1>10, <1>15, SameBegins
  <1> QED BY <1>1, <1>11, <1>14, <1>16 DEF IInv, NestInv

\* END_KERNEL closes nothing: all loops are closed.
LEMMA EndKernelNest ==
    ASSUME IInv, EndKernel
    PROVE  IInv'
  <1>1. Begins' = Begins
    BY DEF EndKernel, Begins
  <1> QED BY <1>1 DEF EndKernel, IInv, NestInv, TypeOK

\* The invariant is inductive.
THEOREM NestInduction == Spec => []IInv
  <1>1. IInv /\ [Next]_kernelVars => IInv'
    <2> SUFFICES ASSUME IInv, [Next]_kernelVars PROVE IInv'
      OBVIOUS
    <2>1. CASE \E tag \in Tags : Plain(tag)
      BY <2>1, PlainNest
    <2>2. CASE \E x \in Trips : Repeat(x)
      BY <2>2, RepeatNest
    <2>3. CASE RepeatSimple
      BY <2>3, RepeatSimpleNest
    <2>4. CASE EndRepeat
      BY <2>4, CloseNest DEF EndRepeat
    <2>5. CASE EndRepeatRedNotZero
      BY <2>5, CloseNest DEF EndRepeatRedNotZero
    <2>6. CASE EndKernel
      BY <2>6, EndKernelNest
    <2>7. CASE UNCHANGED kernelVars
      <3>1. Begins' = Begins
        BY <2>7 DEF kernelVars, Begins
      <3> QED BY <2>7, <3>1 DEF kernelVars, IInv, NestInv, TypeOK
    <2> QED BY <2>1, <2>2, <2>3, <2>4, <2>5, <2>6, <2>7 DEF Next
  <1> QED BY <1>1, InitNest, PTL DEF Spec

\* The words, the depth and the targets have their types, whatever the program.
THEOREM TypeCorrect == Spec => []TypeOK
  <1>1. IInv => TypeOK
    BY DEF IInv
  <1> QED BY <1>1, NestInduction, PTL

\* A nest without open loops is what the machine takes.
LEMMA ClosedIsNested ==
    ASSUME NEW s, NEW b, NestedSoFar(s, 0, b, << >>)
    PROVE  WellNested(s, MaxDepthLoopNesting)
  <1>1. s \in Seq(Instruction) /\ Len(s) \in Nat
    BY DEF NestedSoFar
  <1>2. \A i \in 1..(Len(s) + 1) : StartsBody(s, b, << >>, i) <=> StartsSimple(s, i)
    BY DEF StartsBody, IsOpenSimple
  <1>3. \A i \in 1..Len(s) : s[i].lvl = LevelBefore(s, i) + Opened(s, i)
    BY <1>2 DEF NestedSoFar, LevelsSoFar, HasLevel, Opened
  <1>4. LevelBefore(s, Len(s) + 1) = 0
    <2>1. ~StartsSimple(s, Len(s) + 1)
      BY <1>1 DEF StartsSimple
    <2>2. 0 = LevelBefore(s, Len(s) + 1) + 0
      BY <2>1, <1>1, <1>2 DEF NestedSoFar, LevelsSoFar, HasLevel
    <2>3. LevelBefore(s, Len(s) + 1) \in Int
      BY <1>1, LevelBeforeType
    <2> QED BY <2>2, <2>3
  <1>5. Levelled(s)
    <2> SUFFICES ASSUME s # << >>
                 PROVE  /\ s[1].lvl = Opened(s, 1)
                        /\ \A i \in 1..(Len(s) - 1) :
                              s[i+1].lvl = LevelAfter(s, i) + Opened(s, i + 1)
                        /\ LevelAfter(s, Len(s)) = 0
      BY DEF Levelled
    <2>1. Len(s) >= 1
      BY <1>1
    <2>2. s[1].lvl = Opened(s, 1)
      <3>1. Opened(s, 1) \in Int
        BY DEF Opened
      <3>2. s[1].lvl = 0 + Opened(s, 1)
        BY <2>1, <1>1, <1>3 DEF LevelBefore
      <3> QED BY <3>1, <3>2
    <2>3. \A i \in 1..(Len(s) - 1) : s[i+1].lvl = LevelAfter(s, i) + Opened(s, i + 1)
      <3> TAKE i \in 1..(Len(s) - 1)
      <3>1. LevelBefore(s, i + 1) = LevelAfter(s, i)
        BY <1>1 DEF LevelBefore
      <3> QED BY <3>1, <1>1, <1>3
    <2>4. LevelAfter(s, Len(s)) = 0
      BY <2>1, <1>1, <1>4 DEF LevelBefore
    <2> QED BY <2>2, <2>3, <2>4
  <1> QED BY <1>5 DEF NestedSoFar, WellNested

\* A kernel that is built is well nested: every program, of any number of
\* instructions that JumpRange allows, and whatever NOPs append() puts in.
THEOREM Nesting == Spec => []BuiltIsNested
  <1>1. IInv => BuiltIsNested
    <2> SUFFICES ASSUME IInv, status = "built"
                 PROVE  WellNested(instructions, MaxDepthLoopNesting)
      BY DEF BuiltIsNested
    <2>1. NestedSoFar(instructions, loopNestDepth, Begins, opened) /\ opened = << >>
      BY DEF IInv, NestInv
    <2>2. loopNestDepth = 0
      BY <2>1 DEF IInv, TypeOK
    <2> QED BY <2>1, <2>2, ClosedIsNested
  <1> QED BY <1>1, NestInduction, PTL

-----------------------------------------------------------------------------
(***************************************************************************)
(* Hazards.  append() looks at the instruction before; that is enough for  *)
(* the back edges too, because no instruction waits for a jump, but for    *)
(* what _IJMPNZ_RED seems to write.                                        *)
(***************************************************************************)
Harmless(before, after) ==
    \/ ~CheckDataHazard(Decoded(after), Decoded(before))
    \/ /\ before.op = "IJMPNZ_RED"
       /\ 0 \in {Decoded(after).left, Decoded(after).right}

\* An instruction of the program, or a word of the macros.
IsKnown(w) == w.op = "OTHER" => w.val \in Tags \cup {0}

HazardFree(s) == \A i \in 1..(Len(s) - 1) : Harmless(s[i], s[i + 1])

HazardInv ==
    /\ \A i \in 1..Len(instructions) : IsKnown(instructions[i])
    /\ CheckForDataHazards => HazardFree(instructions)

\* No instruction waits for the NOP of the macros.
LEMMA NopHarmless ==
    ASSUME NEW lvl, NEW w \in Instruction, IsKnown(w)
    PROVE  Harmless(Nop(lvl), w)
  <1>1. Decoded(Nop(lvl)) = Decoding("NOP", NoReg, NoReg, NoReg)
    BY KernelAssumption DEF Nop, Word, Decoded
  <1>2. CASE w.op = "OTHER" /\ w.val \in Tags
    <2>1. Decoded(w) = Operation[w.val]
      BY <1>2 DEF Decoded
    <2> QED BY <1>1, <1>2, <2>1, OperationAssumption DEF Harmless, CheckDataHazard, Decoding
  <1>3. CASE w.op # "OTHER" \/ w.val = 0
    <2>1. Decoded(w).opcode \in {"NOP", "SETLC", "IJMPNZ", "IJMPNZ_RED", "GATE"}
      BY <1>3, KernelAssumption DEF Decoded, Decoding, Instruction, Opcode
    <2> QED BY <2>1 DEF Harmless, CheckDataHazard
  <1> QED BY <1>2, <1>3 DEF IsKnown

\* The body of a loop may begin with anything that does not use register 0, and
\* that of a REPEAT with anything.
LEMMA JumpHarmless ==
    ASSUME NEW jump \in Instruction, jump.op \in {"IJMPNZ", "IJMPNZ_RED"},
           NEW w \in Instruction, IsKnown(w)
    PROVE  Harmless(jump, w)
  <1>1. CASE w.op = "OTHER" /\ w.val \in Tags
    <2>1. Decoded(w) = Operation[w.val]
      BY <1>1 DEF Decoded
    <2>2. CASE jump.op = "IJMPNZ"
      <3>1. Decoded(jump) = Decoding("IJMPNZ", NoReg, NoReg, NoReg)
        BY <2>2 DEF Decoded
      <3> QED BY <1>1, <2>1, <3>1, OperationAssumption DEF Harmless, CheckDataHazard, Decoding
    <2>3. CASE jump.op = "IJMPNZ_RED"
      <3>1. Decoded(jump) = Decoding("IJMPNZ_RED", 0, NoReg, NoReg)
        BY <2>3 DEF Decoded
      <3> QED BY <2>3, <3>1 DEF Harmless, CheckDataHazard, Decoding
    <2> QED BY <2>2, <2>3
  <1>2. CASE w.op # "OTHER" \/ w.val = 0
    <2>1. Decoded(w).opcode \in {"NOP", "SETLC", "IJMPNZ", "IJMPNZ_RED", "GATE"}
      BY <1>2, KernelAssumption DEF Decoded, Decoding, Instruction, Opcode
    <2> QED BY <2>1 DEF Harmless, CheckDataHazard
  <1> QED BY <1>1, <1>2 DEF IsKnown

\* What a word appended leaves free of hazards.
LEMMA AppendHarmless ==
    ASSUME NEW s \in Seq(Instruction), NEW w \in Instruction, HazardFree(s),
           s # << >> => Harmless(s[Len(s)], w)
    PROVE  HazardFree(Append(s, w))
  <1>1. /\ Len(Append(s, w)) = Len(s) + 1
        /\ \A i \in 1..Len(s) : Append(s, w)[i] = s[i]
        /\ Append(s, w)[Len(s) + 1] = w
        /\ Len(s) \in Nat
    BY AppendFacts
  <1> DEFINE t == Append(s, w)
  <1> HIDE DEF t
  <1>2. ASSUME NEW i \in 1..(Len(t) - 1) PROVE Harmless(t[i], t[i + 1])
    <2>1. CASE i = Len(s)
      BY <2>1, <1>1 DEF t
    <2>2. CASE i < Len(s)
      <3>1. i \in 1..(Len(s) - 1) /\ t[i] = s[i] /\ t[i + 1] = s[i + 1]
        BY <2>2, <1>1 DEF t
      <3> QED BY <3>1 DEF HazardFree
    <2> QED BY <2>1, <2>2, <1>1 DEF t
  <1> QED BY <1>2 DEF HazardFree, t

\* append() leaves no hazard and adds nothing unknown.
LEMMA AppendedHarmless ==
    ASSUME NEW s \in Seq(Instruction), NEW w \in Instruction, IsKnown(w),
           \A i \in 1..Len(s) : IsKnown(s[i]),
           CheckForDataHazards => HazardFree(s)
    PROVE  /\ \A i \in 1..Len(Appended(s, w)) : IsKnown(Appended(s, w)[i])
           /\ CheckForDataHazards => HazardFree(Appended(s, w))
  <1> DEFINE n == Nop(w.lvl)
             t == Append(s, n)
  <1>1. n \in Instruction /\ IsKnown(n) /\ n.op = "OTHER" /\ n.val = 0
    BY NopType DEF Instruction, IsKnown
  <1>2. Harmless(n, w)
    BY NopHarmless
  <1> HIDE DEF n
  <1>3. /\ t \in Seq(Instruction)
        /\ Len(t) = Len(s) + 1
        /\ \A i \in 1..Len(s) : t[i] = s[i]
        /\ t[Len(s) + 1] = n
        /\ Len(s) \in Nat
    BY <1>1, AppendFacts
  <1>4. CASE NeedsNop(s, w)
    <2>1. s # << >> => Harmless(s[Len(s)], n)
      <3>1. Decoded(n).opcode = "NOP"
        BY <1>1, KernelAssumption DEF Decoded, Decoding
      <3> QED BY <3>1 DEF Harmless, CheckDataHazard
    <2>2. CheckForDataHazards => HazardFree(t)
      BY <2>1, <1>1, AppendHarmless
    <2> HIDE DEF t
    <2>3. CheckForDataHazards => HazardFree(Append(t, w))
      BY <2>2, <1>2, <1>3, AppendHarmless
    <2>4. \A i \in 1..Len(Append(t, w)) : IsKnown(Append(t, w)[i])
      <3>1. /\ Len(Append(t, w)) = Len(t) + 1
            /\ \A i \in 1..Len(t) : Append(t, w)[i] = t[i]
            /\ Append(t, w)[Len(t) + 1] = w
        BY <1>3, AppendFacts
      <3>2. \A i \in 1..Len(t) : IsKnown(t[i])
        BY <1>1, <1>3
      <3> QED BY <3>1, <3>2, <1>3
    <2>5. Appended(s, w) = Append(t, w)
      BY <1>4 DEF Appended, t, n
    <2> QED BY <2>3, <2>4, <2>5
  <1>5. CASE ~NeedsNop(s, w)
    <2>1. CheckForDataHazards /\ s # << >> => Harmless(s[Len(s)], w)
      BY <1>5 DEF NeedsNop, Harmless
    <2>2. CheckForDataHazards => HazardFree(Append(s, w))
      BY <2>1, AppendHarmless
    <2>3. \A i \in 1..Len(Append(s, w)) : IsKnown(Append(s, w)[i])
      <3>1. /\ Len(Append(s, w)) = Len(s) + 1
            /\ \A i \in 1..Len(s) : Append(s, w)[i] = s[i]
            /\ Append(s, w)[Len(s) + 1] = w
        BY AppendFacts
      <3> QED BY <3>1, <1>3
    <2>4. Appended(s, w) = Append(s, w)
      BY <1>5 DEF Appended
    <2> QED BY <2>2, <2>3, <2>4
  <1> QED BY <1>4, <1>5

\* Two words, as every macro appends.
LEMMA TwiceAppendedHarmless ==
    ASSUME NEW s \in Seq(Instruction),
           NEW v \in Instruction, IsKnown(v), NEW w \in Instruction, IsKnown(w),
           \A i \in 1..Len(s) : IsKnown(s[i]),
           CheckForDataHazards => HazardFree(s)
    PROVE  LET t == Appended(Appended(s, v), w) IN
           /\ \A i \in 1..Len(t) : IsKnown(t[i])
           /\ CheckForDataHazards => HazardFree(t)
  <1> DEFINE first == Appended(s, v)
  <1>1. /\ first \in Seq(Instruction)
        /\ \A i \in 1..Len(first) : IsKnown(first[i])
        /\ CheckForDataHazards => HazardFree(first)
    BY AppendedFacts, AppendedHarmless
  <1> HIDE DEF first
  <1>2. /\ \A i \in 1..Len(Appended(first, w)) : IsKnown(Appended(first, w)[i])
        /\ CheckForDataHazards => HazardFree(Appended(first, w))
    BY <1>1, AppendedHarmless
  <1> QED BY <1>2 DEF first

\* The invariant of hazards is inductive.
LEMMA HazardStep ==
    ASSUME IInv, HazardInv, [Next]_kernelVars
    PROVE  HazardInv'
  <1>1. /\ \A i \in 1..Len(instructions) : IsKnown(instructions[i])
        /\ CheckForDataHazards => HazardFree(instructions)
        /\ instructions \in Seq(Instruction)
        /\ loopNestDepth \in Nat
    BY DEF HazardInv, IInv, TypeOK
  <1>2. ASSUME NEW tag \in Tags, Plain(tag) PROVE HazardInv'
    <2> DEFINE w == Word("OTHER", tag, loopNestDepth)
    <2>1. w \in Instruction /\ IsKnown(w)
      BY <1>1, WordType, KernelAssumption DEF Opcode, IsKnown
    <2>2. instructions' = Appended(instructions, w)
      BY <1>2 DEF Plain
    <2> HIDE DEF w
    <2> QED BY <1>1, <2>1, <2>2, AppendedHarmless DEF HazardInv
  <1>3. ASSUME NEW x \in Trips, Repeat(x) PROVE HazardInv'
    <2> DEFINE w == Word("SETLC", x - 1, loopNestDepth)
    <2>1. w \in Instruction /\ IsKnown(w)
      <3>1. x - 1 \in Int
        BY KernelAssumption
      <3> QED BY <3>1, <1>1, WordType DEF Opcode, IsKnown
    <2>2. instructions' = Appended(Appended(instructions, w), w)
      BY <1>3 DEF Repeat
    <2> HIDE DEF w
    <2> QED BY <1>1, <2>1, <2>2, TwiceAppendedHarmless DEF HazardInv
  <1>4. ASSUME NEW op \in {"IJMPNZ", "IJMPNZ_RED"}, Building, opened # << >>, Close(op)
        PROVE  HazardInv'
    <2> DEFINE w == Word(op, jumpTarget[loopNestDepth] % JumpRange, loopNestDepth)
               n == Nop(loopNestDepth - 1)
    <2>1. loopNestDepth \in 1..loopNestDepth /\ loopNestDepth - 1 \in Nat
      BY <1>1, <1>4 DEF IInv, TypeOK
    <2>2. jumpTarget[loopNestDepth] % JumpRange \in Int
      <3>1. loopNestDepth \in LoopDepth
        BY <2>1, <1>4, WhileBuilding
      <3>2. jumpTarget[loopNestDepth] \in Nat
        BY <3>1 DEF IInv, TypeOK
      <3> QED BY <3>2, KernelAssumption
    <2>3. w \in Instruction /\ IsKnown(w)
      BY <1>1, <2>2, WordType DEF Opcode, IsKnown
    <2>4. n \in Instruction /\ IsKnown(n)
      BY <2>1, NopType DEF IsKnown
    <2>5. instructions' = Appended(Appended(instructions, w), n)
      BY <1>4 DEF Close
    <2> HIDE DEF w, n
    <2> QED BY <1>1, <2>3, <2>4, <2>5, TwiceAppendedHarmless DEF HazardInv
  <1>5. CASE instructions' = instructions
    BY <1>1, <1>5 DEF HazardInv
  <1>6. CASE EndRepeat
    BY <1>4, <1>6 DEF EndRepeat
  <1>7. CASE EndRepeatRedNotZero
    BY <1>4, <1>7 DEF EndRepeatRedNotZero
  <1>8. CASE RepeatSimple
    BY <1>5, <1>8 DEF RepeatSimple
  <1>9. CASE EndKernel
    BY <1>5, <1>9 DEF EndKernel
  <1>10. CASE UNCHANGED kernelVars
    BY <1>5, <1>10 DEF kernelVars
  <1> QED BY <1>2, <1>3, <1>6, <1>7, <1>8, <1>9, <1>10 DEF Next

\* No hazard is left in a kernel, over the back edges of its loops too, for
\* every table of operations whose local-store instructions name registers.
THEOREM Hazards == Spec => []NoHazardLeft
  <1>1. Init => HazardInv
    BY DEF Init, HazardInv, HazardFree
  <1>2. IInv /\ HazardInv => NoHazardLeft
    <2> SUFFICES ASSUME IInv, HazardInv, CheckForDataHazards,
                        NEW i \in 1..Len(instructions), NEW k \in 1..Len(instructions),
                        Follows(instructions, i, k)
                 PROVE  Harmless(instructions[i], instructions[k])
      BY DEF NoHazardLeft, Harmless
    <2>1. /\ instructions[i] \in Instruction
          /\ instructions[k] \in Instruction
          /\ IsKnown(instructions[k])
          /\ HazardFree(instructions)
          /\ Len(instructions) \in Nat
      BY DEF IInv, TypeOK, HazardInv
    <2>2. CASE k = i + 1
      BY <2>1, <2>2 DEF HazardFree
    <2>3. CASE instructions[i].op \in {"IJMPNZ", "IJMPNZ_RED"}
      BY <2>1, <2>3, JumpHarmless
    <2> QED BY <2>2, <2>3 DEF Follows
  <1>3. IInv /\ HazardInv /\ [Next]_kernelVars => HazardInv'
    BY HazardStep
  <1> QED BY <1>1, <1>2, <1>3, NestInduction, PTL DEF Spec

=============================================================================
