-------------------------- MODULE CoreThreadProofs --------------------------
(***************************************************************************)
(* The core thread, for every size of the instruction memory and every     *)
(* stream of counted loops nested at most four deep.                       *)
(***************************************************************************)
EXTENDS CoreThread, TLAPS

\* The streams of kernels whose loops are all REPEAT..END_REPEAT, nested no
\* deeper than the thread's condition looks.
CountedStreams ==
    {s \in Streams :
        /\ WellNested(s, 4)
        /\ \A i \in 1..Len(s) : s[i].op # "IJMPNZ_RED"}

\* The thread is sent one of these.
CountedSpec == Spec /\ stream \in CountedStreams

-----------------------------------------------------------------------------
(***************************************************************************)
(* Arithmetic of the ring.                                                 *)
(***************************************************************************)
\* One step of a pointer, and one step back over n + 1 slots.
LEMMA AfterSlot ==
    ASSUME NEW x \in Slot
    PROVE  After(x) = IF x + 1 = InstructionCount THEN 0 ELSE x + 1
BY InstructionCountAssumption DEF After, Slot

\* Going back n + 1 slots wraps around at most once.
LEMMA DisplacedSlot ==
    ASSUME NEW x \in Slot, NEW n \in Slot
    PROVE  Displaced(x, n) = IF x - n - 1 >= 0 THEN x - n - 1
                             ELSE x - n - 1 + InstructionCount
BY InstructionCountAssumption DEF Displaced, Slot

\* The counter a SETLC loads is a counter value.
LEMMA CounterValue ==
    ASSUME NEW x \in Int
    PROVE  x % CounterModulus \in 0..(CounterModulus - 1)
BY CoreAssumption

-----------------------------------------------------------------------------
(***************************************************************************)
(* The invariant.                                                          *)
(***************************************************************************)
\* The buffer holds the last instructions fetched.
Recorded ==
    /\ instructionsQueued =
          IF fetched < InstructionCount THEN fetched ELSE InstructionCount
    /\ \A slot \in Slot :
          Behind(slot) <= instructionsQueued =>
              queue[slot] = stream[fetched + 1 - Behind(slot)]

\* The simulated depth is the depth the instruction was assembled at.
AtDepth ==
    \/ /\ countSetlc = 0
       /\ loopNestDepth = IF IP < Len(stream) THEN stream[IP + 1].lvl ELSE 0
       /\ IP < Len(stream) => ~OpensBody(stream, IP + 1)
    \/ /\ countSetlc = 1
       /\ IP < Len(stream)
       /\ OpensBody(stream, IP + 1)
       /\ loopNestDepth = stream[IP + 1].lvl + 1

\* Either nothing is replayed and the pointers meet, or the outermost loop
\* replayed is the one whose jump was fetched last.
Placed ==
    IF Replaying
    THEN LET depth == stream[fetched].lvl
             start == BodyStart(stream, fetched) IN
         /\ fetched >= 1
         /\ stream[fetched].op = "IJMPNZ"
         /\ codeIn2nd[depth]
         /\ \A d \in Depth : d < depth => ~codeIn2nd[d]
         /\ start <= IP + 1
         /\ fetched - start < instructionsQueued
    ELSE readPointer = writePointer

Running ==
    /\ loopNestDepth < MaxDepthLoopNesting
    /\ FlagsAreOpen
    /\ Recorded
    /\ AtDepth
    /\ Placed

IInv ==
    /\ stream \in CountedStreams
    /\ TypeOK
    /\ ThrowMeansOversized
    /\ failure = "none" => Running

\* A thread that is sent counted loops has the invariant.
CountedInv == stream \in CountedStreams => IInv

-----------------------------------------------------------------------------
(***************************************************************************)
(* Facts about the streams.                                                *)
(***************************************************************************)
\* What CountedStreams says of one position of a stream.
LEMMA Position ==
    ASSUME NEW s \in CountedStreams, NEW i \in 1..Len(s)
    PROVE  /\ s \in Seq(Instruction)
           /\ Len(s) \in Nat
           /\ s[i] \in Instruction
           /\ s[i].op \in {"SETLC", "IJMPNZ", "GATE", "OTHER"}
           /\ s[i].val \in Int
           /\ s[i].lvl \in 0..4
           /\ s[1].lvl = 0
           /\ i < Len(s) => s[i + 1].lvl = LevelAfter(s, i)
           /\ i = Len(s) => LevelAfter(s, i) = 0
<1>1. s \in Seq(Instruction) /\ Len(s) \in Nat /\ s[i] \in Instruction
  BY DEF CountedStreams, WellNested
<1>2. s[i].op \in Opcode /\ s[i].val \in Int /\ s[i].lvl \in Nat
  BY <1>1 DEF Instruction
<1>3. s[i].op # "IJMPNZ_RED" /\ s[i].lvl <= 4
  BY DEF CountedStreams, WellNested
<1>4. \A k \in 1..Len(s) : Opened(s, k) = 0
  BY <1>1 DEF CountedStreams, Opened, StartsSimple
<1>5. /\ s[1].lvl = Opened(s, 1)
      /\ \A k \in 1..(Len(s) - 1) :
            s[k+1].lvl = LevelAfter(s, k) + Opened(s, k + 1)
      /\ LevelAfter(s, Len(s)) = 0
  <2>1. s # << >>
    BY <1>1
  <2>2. QED
    BY <2>1 DEF CountedStreams, WellNested, Levelled
<1>6. s[1].lvl = 0
  BY <1>1, <1>4, <1>5
<1>7. ASSUME i < Len(s) PROVE s[i + 1].lvl = LevelAfter(s, i)
  <2>1. s[i + 1].lvl = LevelAfter(s, i) + 0
    BY <1>1, <1>4, <1>5, <1>7
  <2>2. LevelAfter(s, i) \in Int
    BY <1>2 DEF LevelAfter
  <2>3. QED
    BY <2>1, <2>2
<1>8. QED
  BY <1>1, <1>2, <1>3, <1>5, <1>6, <1>7 DEF Opcode

\* A _SETLC is the first of a pair, or it opens a body one level deeper.
LEMMA Pairs ==
    ASSUME NEW s \in CountedStreams, NEW i \in 1..Len(s)
    PROVE  /\ OpensBody(s, i) =>
                 /\ i < Len(s)
                 /\ s[i + 1].lvl = s[i].lvl + 1
                 /\ ~OpensBody(s, i + 1)
           /\ s[i].op = "SETLC" /\ ~OpensBody(s, i) =>
                 /\ i < Len(s)
                 /\ OpensBody(s, i + 1)
                 /\ s[i + 1].lvl = s[i].lvl
           /\ s[i].op # "SETLC" =>
                 /\ ~OpensBody(s, i)
                 /\ ~OpensBody(s, i + 1)
<1>1. Paired(s)
  BY DEF CountedStreams, WellNested
<1>2. ASSUME OpensBody(s, i)
      PROVE  i < Len(s) /\ s[i + 1].lvl = s[i].lvl + 1 /\ ~OpensBody(s, i + 1)
  BY <1>2, Position DEF OpensBody, LevelAfter
<1>3. ASSUME s[i].op = "SETLC", ~OpensBody(s, i)
      PROVE  i < Len(s) /\ OpensBody(s, i + 1) /\ s[i + 1].lvl = s[i].lvl
  BY <1>1, <1>3, Position DEF Paired, OpensBody
<1>4. ASSUME s[i].op # "SETLC"
      PROVE  ~OpensBody(s, i) /\ ~OpensBody(s, i + 1)
  BY <1>4, Position DEF OpensBody
<1>5. QED
  BY <1>2, <1>3, <1>4

\* The loop an _IJMPNZ closes: where its body starts, and how deep it is.
LEMMA LoopOf ==
    ASSUME NEW s \in CountedStreams, NEW j \in 1..Len(s), s[j].op = "IJMPNZ"
    PROVE  /\ s[j].lvl \in 1..4
           /\ s[j].val \in Nat
           /\ BodyStart(s, j) \in 3..j
           /\ OpensBody(s, BodyStart(s, j) - 1)
           /\ ~OpensBody(s, BodyStart(s, j))
           /\ s[BodyStart(s, j) - 1].lvl = s[j].lvl - 1
           /\ s[BodyStart(s, j)].lvl = s[j].lvl
           /\ \A k \in BodyStart(s, j)..j : s[k].lvl >= s[j].lvl
<1>1. CountedLoops(s)
  BY DEF CountedStreams, WellNested
<1>2. s[j].lvl \in 1..4 /\ s[j].val \in Nat
  BY <1>1, Position DEF CountedLoops
<1>3. BodyStart(s, j) \in 3..j
  BY <1>1, <1>2 DEF CountedLoops, BodyStart
<1>4. /\ OpensBody(s, BodyStart(s, j) - 1)
      /\ s[BodyStart(s, j) - 1].lvl = s[j].lvl - 1
      /\ \A k \in BodyStart(s, j)..j : s[k].lvl >= s[j].lvl
  BY <1>1 DEF CountedLoops
<1>5. PICK b \in 3..j : b = BodyStart(s, j)
  BY <1>3
<1>6. b - 1 \in 1..Len(s) /\ (b - 1) + 1 = b
  BY Position
<1>7. s[b].lvl = s[b - 1].lvl + 1 /\ ~OpensBody(s, b)
  BY <1>4, <1>5, <1>6, Pairs
<1>8. QED
  BY <1>2, <1>3, <1>4, <1>5, <1>7

\* A loop that ends inside another starts inside it, and is deeper.
LEMMA Inside ==
    ASSUME NEW s \in CountedStreams, NEW j \in 1..Len(s), s[j].op = "IJMPNZ",
           NEW i \in BodyStart(s, j)..(j - 1), s[i].op = "IJMPNZ"
    PROVE  s[i].lvl > s[j].lvl /\ BodyStart(s, i) >= BodyStart(s, j)
<1>1. i \in 1..Len(s) /\ i < Len(s) /\ i + 1 \in BodyStart(s, j)..j
  BY LoopOf, Position
<1>2. s[i + 1].lvl = s[i].lvl - 1
  BY <1>1, Pairs, Position DEF LevelAfter
<1>3. s[i + 1].lvl >= s[j].lvl
  BY <1>1, LoopOf
<1>4. s[i].lvl > s[j].lvl
  <2>1. s[i].lvl \in Int
    BY SMTT(30), <1>1, Position
  <2>2. s[j].lvl \in Int
    BY Position
  <2>3. QED
    BY <1>2, <1>3, <2>1, <2>2
<1>5. BodyStart(s, j) \in 3..j /\ BodyStart(s, i) \in 3..i
  BY <1>1, LoopOf
<1>6. ASSUME BodyStart(s, i) < BodyStart(s, j) PROVE FALSE
  <2>1. BodyStart(s, j) - 1 \in BodyStart(s, i)..i
    BY <1>5, <1>6
  <2>2. s[BodyStart(s, j) - 1].lvl >= s[i].lvl
    BY <1>1, <2>1, LoopOf
  <2>3. s[BodyStart(s, j) - 1].lvl = s[j].lvl - 1
    BY LoopOf
  <2>4. s[j].lvl \in Int /\ s[i].lvl \in Int
    BY <1>1, Position
  <2>5. QED
    BY <1>4, <2>2, <2>3, <2>4
<1>7. QED
  BY <1>4, <1>5, <1>6

-----------------------------------------------------------------------------
(***************************************************************************)
(* Facts about one state.                                                  *)
(***************************************************************************)
\* While no loop open is deeper than four, the condition of the thread finds
\* a flag exactly when there is one.
LEMMA FlagsFound ==
    ASSUME NEW flags \in [Depth -> BOOLEAN], NEW n \in Depth, n <= 4,
           \A d \in Depth : flags[d] => 1 <= d /\ d <= n
    PROVE  (flags[n] \/ \E d \in TestedDepths : flags[d])
               <=> \E d \in Depth : flags[d]
<1>1. TestedDepths \subseteq Depth
  BY CoreAssumption DEF TestedDepths, Depth
<1>2. ASSUME NEW d \in Depth, flags[d] PROVE d = n \/ d \in TestedDepths
  BY <1>2 DEF TestedDepths, Depth
<1>3. QED
  BY <1>1, <1>2

\* Pointer r is g slots behind pointer w.
Gap(r, w, g) == r = w - g \/ r = w - g + InstructionCount

\* The gap between two pointers is the distance that Behind() computes, once
\* it is known whether they coincide.
LEMMA GapBehind ==
    ASSUME NEW r \in Slot, NEW w \in Slot, NEW g \in 0..InstructionCount,
           Gap(r, w, g)
    PROVE  /\ g = 0 => r = w
           /\ g > 0 => g = IF r < w THEN w - r ELSE w - r + InstructionCount
BY InstructionCountAssumption DEF Gap, Slot

\* The same, of the instruction after the one at p when f were fetched.
LEMMA GapPassed ==
    ASSUME NEW r \in Slot, NEW w \in Slot, NEW f \in Nat, NEW p \in Nat,
           f - (p + 1) \in 0..(InstructionCount - 1), Gap(r, w, f - (p + 1))
    PROVE  /\ p + 1 < f =>
                 f - (IF r < w THEN w - r ELSE w - r + InstructionCount) = p + 1
           /\ p + 1 = f => r = w
<1>1. PICK g \in 0..InstructionCount : g = f - (p + 1)
  BY InstructionCountAssumption
<1>2. Gap(r, w, g)
  BY <1>1
<1>3. /\ g = 0 => r = w
      /\ g > 0 => g = IF r < w THEN w - r ELSE w - r + InstructionCount
  BY <1>2, GapBehind
<1>4. QED
  BY <1>1, <1>3, InstructionCountAssumption DEF Slot

\* A jump over n instructions that the buffer holds widens the gap by n + 1.
LEMMA GapDisplaced ==
    ASSUME NEW r \in Slot, NEW w \in Slot, NEW g \in 0..InstructionCount,
           NEW n \in Nat, g + n + 1 <= InstructionCount, Gap(r, w, g)
    PROVE  Displaced(r, n) \in Slot /\ Gap(Displaced(r, n), w, g + n + 1)
<1>1. n \in Slot
  BY InstructionCountAssumption DEF Slot
<1>2. Displaced(r, n) = IF r - n - 1 >= 0 THEN r - n - 1
                        ELSE r - n - 1 + InstructionCount
  BY <1>1, DisplacedSlot
<1>3. /\ r \in Int /\ 0 <= r /\ r < InstructionCount
      /\ w \in Int /\ 0 <= w /\ w < InstructionCount
      /\ InstructionCount \in Nat
  BY InstructionCountAssumption DEF Slot
<1>4. QED
  BY <1>1, <1>2, <1>3 DEF Gap, Slot

\* Where the instruction pointer is, and how deep it can be.
LEMMA Where ==
    ASSUME IInv, failure = "none"
    PROVE  /\ IP \in Nat /\ IP <= fetched /\ fetched <= written
           /\ written <= Len(stream) /\ Len(stream) \in Nat
           /\ fetched \in Nat /\ written \in Nat
           /\ loopNestDepth \in 0..4
           /\ Replaying => /\ IP < fetched
                           /\ fetched \in 1..Len(stream)
                           /\ BodyStart(stream, fetched) <= IP + 1
                           /\ IP = fetched - Behind(readPointer)
                           /\ Behind(readPointer) \in 1..InstructionCount
                           /\ Behind(readPointer) <= instructionsQueued
           /\ ~Replaying => IP = fetched /\ readPointer = writePointer
<1> USE DEF IInv, Running
<1>1. /\ stream \in CountedStreams /\ Len(stream) \in Nat
      /\ fetched \in Nat /\ written \in Nat
      /\ fetched <= written /\ written <= Len(stream)
      /\ readPointer \in Slot /\ writePointer \in Slot
      /\ instructionsQueued \in 0..InstructionCount
  <2>1. stream \in CountedStreams /\ stream \in Seq(Instruction)
    BY CoreAssumption DEF TypeOK
  <2>2. QED
    BY <2>1, InstructionCountAssumption DEF TypeOK
<1>2. ASSUME ~Replaying
      PROVE  IP = fetched /\ readPointer = writePointer
  BY <1>2 DEF IP, Placed
<1>3. ASSUME Replaying
      PROVE  /\ IP \in Nat /\ IP < fetched
             /\ fetched \in 1..Len(stream)
             /\ BodyStart(stream, fetched) <= IP + 1
             /\ IP = fetched - Behind(readPointer)
             /\ Behind(readPointer) \in 1..InstructionCount
             /\ Behind(readPointer) <= instructionsQueued
  <2>1. IP = fetched - Behind(readPointer)
    BY <1>3 DEF IP
  <2>2. Behind(readPointer) \in 1..InstructionCount
    BY <1>1, InstructionCountAssumption DEF Behind, Slot
  <2>3. /\ fetched \in 1..Len(stream)
        /\ stream[fetched].op = "IJMPNZ"
        /\ BodyStart(stream, fetched) <= IP + 1
        /\ fetched - BodyStart(stream, fetched) < instructionsQueued
    BY <1>1, <1>3 DEF Placed
  <2>4. BodyStart(stream, fetched) \in 3..fetched
    BY <1>1, <2>3, LoopOf
  <2>5. QED
    BY SMTT(30), <1>1, <2>1, <2>2, <2>3, <2>4
<1>4. IP \in Nat /\ IP <= fetched
  BY <1>1, <1>2, <1>3
<1>5. loopNestDepth \in 0..4
  <2>1. CASE IP >= Len(stream)
    BY <1>1, <1>4, <2>1 DEF AtDepth
  <2>2. CASE IP < Len(stream)
    <3>1. IP + 1 \in 1..Len(stream)
      BY <1>1, <1>4, <2>2
    <3>2. stream[IP + 1].lvl \in 0..4
      BY <1>1, <3>1, Position
    <3>3. ASSUME OpensBody(stream, IP + 1)
          PROVE  stream[IP + 1].lvl + 1 \in 0..4
      <4>1. (IP + 1) + 1 \in 1..Len(stream)
        BY <1>1, <3>1, <3>3, Pairs
      <4>2. stream[(IP + 1) + 1].lvl \in 0..4
        BY <1>1, <4>1, Position
      <4>3. stream[(IP + 1) + 1].lvl = stream[IP + 1].lvl + 1
        BY <1>1, <3>1, <3>3, Pairs
      <4>4. QED
        BY <4>2, <4>3
    <3>4. QED
      BY <2>2, <3>2, <3>3 DEF AtDepth
  <2>3. QED
    BY <1>1, <1>4, <2>1, <2>2
<1>6. QED
  BY <1>1, <1>2, <1>3, <1>4, <1>5

-----------------------------------------------------------------------------
(***************************************************************************)
(* Taking an instruction.                                                  *)
(***************************************************************************)
\* What a taken instruction is, and where the pointers are then: the read
\* pointer to be is as far behind the write pointer as the instructions
\* fetched and not yet passed, and the buffer still holds the last ones.
LEMMA Taken ==
    ASSUME IInv, NEW op, Take(op)
    PROVE  /\ IP + 1 \in 1..Len(stream)
           /\ Current = stream[IP + 1]
           /\ stream[IP + 1].op = op
           /\ UNCHANGED <<stream, written>>
           /\ fetched' \in 0..written
           /\ instructionsQueued' = Held
           /\ queue' \in [Slot -> Instruction \cup {Unfilled}]
           /\ writePointer' \in Slot
           /\ Advanced \in Slot
           /\ Recorded'
           /\ fetched' - (IP + 1) \in 0..(InstructionCount - 1)
           /\ Gap(Advanced, writePointer', fetched' - (IP + 1))
           /\ Replaying => /\ fetched' = fetched
                           /\ instructionsQueued' = instructionsQueued
           /\ ~Replaying => fetched' = IP + 1
<1>1. failure = "none" /\ UNCHANGED <<stream, written>> /\ Current.op = op
  BY DEF Take, pipeVars
<1>2. /\ stream \in CountedStreams /\ stream \in Seq(Instruction)
      /\ queue \in [Slot -> Instruction \cup {Unfilled}]
      /\ readPointer \in Slot /\ writePointer \in Slot
      /\ instructionsQueued \in 0..InstructionCount
  BY CoreAssumption DEF IInv, TypeOK
<1>3. /\ instructionsQueued =
             IF fetched < InstructionCount THEN fetched ELSE InstructionCount
      /\ \A slot \in Slot :
             Behind(slot) <= instructionsQueued =>
                 queue[slot] = stream[fetched + 1 - Behind(slot)]
  BY <1>1 DEF IInv, Running, Recorded
<1>4. CASE Replaying
  <2>1. /\ UNCHANGED <<queue, writePointer, instructionsQueued, fetched>>
        /\ Held = instructionsQueued
        /\ Current = queue[readPointer]
        /\ Advanced = After(readPointer)
    BY <1>4 DEF Take, ReadKeeps, Held, Current, Advanced
  <2>2. /\ IP \in Nat /\ IP < fetched /\ fetched \in 1..Len(stream)
        /\ fetched <= written
        /\ IP = fetched - Behind(readPointer)
        /\ Behind(readPointer) \in 1..InstructionCount
        /\ Behind(readPointer) <= instructionsQueued
    BY <1>1, <1>4, Where
  <2>3. IP + 1 \in 1..Len(stream)
    BY <2>2
  <2>4. Current = stream[IP + 1]
    <3>1. queue[readPointer] = stream[fetched + 1 - Behind(readPointer)]
      BY <1>2, <1>3, <2>2
    <3>2. fetched + 1 - Behind(readPointer) = IP + 1
      BY <2>2
    <3>3. QED
      BY <2>1, <3>1, <3>2
  <2>5. Recorded'
    BY <1>1, <1>3, <2>1 DEF Recorded, Behind
  <2>6. /\ Advanced \in Slot
        /\ fetched' - (IP + 1) \in 0..(InstructionCount - 1)
        /\ Gap(Advanced, writePointer', fetched' - (IP + 1))
    <3>1. /\ Advanced = IF readPointer + 1 = InstructionCount THEN 0
                        ELSE readPointer + 1
          /\ writePointer' = writePointer /\ fetched' = fetched
      BY <1>2, <2>1, AfterSlot
    <3>2. /\ readPointer \in 0..(InstructionCount - 1)
          /\ writePointer \in 0..(InstructionCount - 1)
          /\ InstructionCount \in Nat
      BY <1>2, InstructionCountAssumption DEF Slot
    <3>3. fetched - (IP + 1) = Behind(readPointer) - 1
      BY <2>2
    <3>4. fetched' - (IP + 1) \in 0..(InstructionCount - 1)
      BY <2>2, <3>1, <3>2, <3>3
    <3>5. QED
      BY <2>2, <3>1, <3>2, <3>3, <3>4 DEF Gap, Slot, Behind
  <2>7. QED
    BY <1>1, <1>2, <1>4, <2>1, <2>2, <2>3, <2>4, <2>5, <2>6
<1>5. CASE ~Replaying
  <2>1. /\ fetched < written
        /\ fetched' = fetched + 1
        /\ queue' = [queue EXCEPT ![writePointer] = stream[fetched + 1]]
        /\ writePointer' = After(writePointer)
        /\ instructionsQueued' = Held
        /\ Held = IF isFull THEN instructionsQueued ELSE instructionsQueued + 1
        /\ Current = stream[fetched + 1]
        /\ Advanced = After(writePointer)
    BY <1>5 DEF Take, Push, Held, Current, Advanced
  <2>2. /\ IP = fetched /\ fetched \in Nat /\ written \in Nat
        /\ written <= Len(stream) /\ Len(stream) \in Nat
    BY <1>1, <1>5, Where
  <2>3. IP + 1 \in 1..Len(stream) /\ fetched' \in 0..written
    BY <2>1, <2>2
  <2>4. stream[fetched + 1] \in Instruction
    BY <1>2, <2>2, <2>3
  <2>5. /\ writePointer' = IF writePointer + 1 = InstructionCount THEN 0
                           ELSE writePointer + 1
        /\ writePointer \in 0..(InstructionCount - 1)
        /\ InstructionCount \in Nat
    BY <1>2, <2>1, AfterSlot, InstructionCountAssumption DEF Slot
  <2>6. writePointer' \in Slot /\ Advanced = writePointer'
    BY <2>1, <2>5 DEF Slot
  <2>7. queue' \in [Slot -> Instruction \cup {Unfilled}]
    BY <1>2, <2>1, <2>4
  <2>8. instructionsQueued' =
          IF fetched' < InstructionCount THEN fetched' ELSE InstructionCount
    BY <1>3, <2>1, <2>2, <2>5 DEF isFull
  <2>9. ASSUME NEW slot \in Slot, Behind(slot)' <= instructionsQueued'
        PROVE  queue'[slot] = stream[fetched' + 1 - Behind(slot)']
    <3>1. CASE slot = writePointer
      <4>1. Behind(slot)' = 1
        BY <2>5, <3>1 DEF Behind
      <4>2. queue'[slot] = stream[fetched + 1]
        BY <1>2, <2>1, <3>1
      <4>3. fetched' + 1 - 1 = fetched + 1
        BY <2>1, <2>2
      <4>4. QED
        BY <4>1, <4>2, <4>3
    <3>2. CASE slot # writePointer
      <4>1. /\ Behind(slot)' = Behind(slot) + 1
            /\ Behind(slot) \in 1..(InstructionCount - 1)
        BY <2>5, <3>2 DEF Behind, Slot
      <4>2. Behind(slot) <= instructionsQueued
        BY <1>3, <2>1, <2>2, <2>5, <2>8, <2>9, <4>1
      <4>3. queue'[slot] = stream[fetched + 1 - Behind(slot)]
        BY <1>2, <1>3, <2>1, <3>2, <4>2
      <4>4. fetched' + 1 - Behind(slot)' = fetched + 1 - Behind(slot)
        BY <2>1, <2>2, <4>1
      <4>5. QED
        BY <4>3, <4>4
    <3>3. QED
      BY <3>1, <3>2
  <2>10. Recorded'
    BY <1>1, <2>8, <2>9 DEF Recorded
  <2>11. /\ fetched' - (IP + 1) = 0
         /\ Gap(Advanced, writePointer', 0)
         /\ InstructionCount - 1 \in Nat
    <3>1. ASSUME NEW w \in Slot PROVE Gap(w, w, 0)
      BY InstructionCountAssumption DEF Gap, Slot
    <3>2. Gap(Advanced, writePointer', 0)
      BY <2>6, <3>1
    <3>3. fetched' - (IP + 1) = 0
      BY <2>1, <2>2
    <3>4. QED
      BY <3>2, <3>3, InstructionCountAssumption
  <2>12. fetched' = IP + 1
    BY <2>1, <2>2
  <2>13. QED
    BY <1>1, <1>5, <2>1, <2>2, <2>3, <2>6, <2>7, <2>10, <2>11, <2>12
<1>6. QED
  BY <1>4, <1>5

\* After an instruction is passed, the instruction pointer is one further,
\* provided the thread replays exactly while it is behind what was fetched.
LEMMA Passed ==
    ASSUME IInv, NEW op, Take(op), Pass
    PROVE  /\ readPointer' \in Slot
           /\ Replaying' /\ failure' # "throw" /\ IP + 1 < fetched'
                 => IP' = IP + 1
           /\ ~Replaying' /\ IP + 1 = fetched'
                 => IP' = IP + 1 /\ readPointer' = writePointer'
<1>1. /\ readPointer' = Advanced /\ Advanced \in Slot
      /\ writePointer' \in Slot
      /\ fetched' - (IP + 1) \in 0..(InstructionCount - 1)
      /\ Gap(readPointer', writePointer', fetched' - (IP + 1))
  BY Taken DEF Pass
<1>2. IP \in Nat /\ fetched' \in Nat
  <2>1. IP \in Nat
    BY Where DEF Take
  <2>2. fetched' \in 0..written /\ written \in Nat
    BY Taken, Where DEF Take
  <2>3. QED
    BY <2>1, <2>2
<1>3. ASSUME Replaying', failure' # "throw", IP + 1 < fetched'
      PROVE  IP' = IP + 1
  <2>1. IP' = fetched' - Behind(readPointer)'
    BY <1>3 DEF IP
  <2>2. fetched' - Behind(readPointer)' = IP + 1
    BY <1>1, <1>2, <1>3, GapPassed DEF Behind
  <2>3. QED
    BY <2>1, <2>2
<1>4. ASSUME ~Replaying', IP + 1 = fetched'
      PROVE  IP' = IP + 1 /\ readPointer' = writePointer'
  <2>1. IP' = fetched'
    BY <1>4 DEF IP
  <2>2. readPointer' = writePointer'
    BY <1>1, <1>2, <1>4, GapPassed
  <2>3. QED
    BY <1>4, <2>1, <2>2
<1>5. QED
  BY <1>1, <1>3, <1>4

\* The loop a jump closes is within the loop being replayed, if one is.
LEMMA JumpWithin ==
    ASSUME IInv, Take("IJMPNZ")
    PROVE  /\ BodyStart(stream, IP + 1) \in 3..(IP + 1)
           /\ Current.val = IP + 1 - BodyStart(stream, IP + 1)
           /\ Current.val \in Nat
           /\ Replaying =>
                 /\ fetched \in 1..Len(stream)
                 /\ stream[fetched].op = "IJMPNZ"
                 /\ stream[fetched].lvl \in 1..4
                 /\ BodyStart(stream, fetched) \in 3..fetched
                 /\ BodyStart(stream, fetched) <= BodyStart(stream, IP + 1)
                 /\ fetched - BodyStart(stream, fetched) < instructionsQueued
                 /\ stream[fetched].lvl <= stream[IP + 1].lvl
                 /\ IP + 1 < fetched => stream[fetched].lvl < stream[IP + 1].lvl
                 /\ IP + 1 <= fetched
<1>1. /\ stream \in CountedStreams /\ IP + 1 \in 1..Len(stream)
      /\ stream[IP + 1].op = "IJMPNZ"
      /\ Current = stream[IP + 1]
      /\ IP \in Nat
  BY Taken, Where DEF Take, IInv, TypeOK
<1>2. /\ BodyStart(stream, IP + 1) \in 3..(IP + 1)
      /\ stream[IP + 1].val \in Nat
      /\ stream[IP + 1].lvl \in 1..4
  BY <1>1, LoopOf
<1>3. Current.val = IP + 1 - BodyStart(stream, IP + 1)
  BY <1>1, <1>2 DEF BodyStart
<1>4. ASSUME Replaying
      PROVE  /\ fetched \in 1..Len(stream)
             /\ stream[fetched].op = "IJMPNZ"
             /\ stream[fetched].lvl \in 1..4
             /\ BodyStart(stream, fetched) \in 3..fetched
             /\ BodyStart(stream, fetched) <= BodyStart(stream, IP + 1)
             /\ fetched - BodyStart(stream, fetched) < instructionsQueued
             /\ stream[fetched].lvl <= stream[IP + 1].lvl
             /\ IP + 1 < fetched => stream[fetched].lvl < stream[IP + 1].lvl
             /\ IP + 1 <= fetched
  <2>1. /\ fetched \in 1..Len(stream) /\ IP < fetched
        /\ BodyStart(stream, fetched) <= IP + 1
    BY <1>4, Where DEF Take
  <2>2. /\ stream[fetched].op = "IJMPNZ"
        /\ fetched - BodyStart(stream, fetched) < instructionsQueued
    BY <1>4 DEF Take, IInv, Running, Placed
  <2>3. /\ BodyStart(stream, fetched) \in 3..fetched
        /\ stream[fetched].lvl \in 1..4
    BY <1>1, <2>1, <2>2, LoopOf
  <2>4. CASE IP + 1 = fetched
    BY <1>2, <2>1, <2>2, <2>3, <2>4
  <2>5. CASE IP + 1 < fetched
    <3>1. IP + 1 \in BodyStart(stream, fetched)..(fetched - 1)
      BY <1>1, <2>1, <2>3, <2>5
    <3>2. /\ stream[IP + 1].lvl > stream[fetched].lvl
          /\ BodyStart(stream, IP + 1) >= BodyStart(stream, fetched)
      BY <1>1, <2>1, <2>2, <3>1, Inside
    <3>3. QED
      BY <1>1, <1>2, <2>1, <2>2, <2>3, <3>2
  <2>6. QED
    BY <1>1, <2>1, <2>4, <2>5
<1>5. QED
  BY <1>1, <1>2, <1>3, <1>4

\* A jump that does not throw puts the instruction pointer in front of the
\* first instruction of the body, and leaves what was fetched replayable.
LEMMA Jumped ==
    ASSUME IInv, Take("IJMPNZ"), Jump, Replaying',
           Enough(Held, Current.val)
    PROVE  /\ IP' = BodyStart(stream, IP + 1) - 1
           /\ readPointer' \in Slot
           /\ failure' = "none"
<1>1. /\ readPointer' = Displaced(Advanced, Current.val)
      /\ failure' = "none"
  BY DEF Jump, Take
<1>2. /\ Advanced \in Slot /\ writePointer' \in Slot
      /\ fetched' - (IP + 1) \in 0..(InstructionCount - 1)
      /\ Gap(Advanced, writePointer', fetched' - (IP + 1))
      /\ instructionsQueued' = Held
      /\ Replaying => /\ fetched' = fetched
                      /\ instructionsQueued' = instructionsQueued
      /\ ~Replaying => fetched' = IP + 1
  BY Taken
<1>3. /\ IP \in Nat /\ fetched \in Nat /\ fetched' \in Nat
      /\ instructionsQueued \in 0..InstructionCount
  <2>1. fetched' \in 0..written /\ written \in Nat
    BY Taken, Where DEF Take
  <2>2. QED
    BY <2>1, Where DEF Take, IInv, TypeOK
<1>4. /\ BodyStart(stream, IP + 1) \in 3..(IP + 1)
      /\ Current.val = IP + 1 - BodyStart(stream, IP + 1)
      /\ Current.val \in Nat
      /\ Replaying =>
            /\ BodyStart(stream, fetched) \in 3..fetched
            /\ BodyStart(stream, fetched) <= BodyStart(stream, IP + 1)
            /\ fetched - BodyStart(stream, fetched) < instructionsQueued
  BY JumpWithin
<1>5. Held \in 0..InstructionCount
  BY <1>3, InstructionCountAssumption DEF Held, isFull
<1>6. fetched' - (IP + 1) + Current.val + 1 \in 1..InstructionCount
  <2>1. CASE Replaying
    BY <1>2, <1>3, <1>4, <2>1, InstructionCountAssumption
  <2>2. CASE ~Replaying
    BY <1>2, <1>3, <1>4, <1>5, <2>2, InstructionCountAssumption DEF Enough
  <2>3. QED
    BY <2>1, <2>2
<1>7. /\ readPointer' \in Slot
      /\ Gap(readPointer', writePointer', fetched' - (IP + 1) + Current.val + 1)
  <2>1. fetched' - (IP + 1) \in 0..InstructionCount
    BY <1>2, InstructionCountAssumption
  <2>2. fetched' - (IP + 1) + Current.val + 1 <= InstructionCount
    BY <1>6, InstructionCountAssumption
  <2>3. QED
    BY <1>1, <1>2, <1>4, <2>1, <2>2, GapDisplaced
<1>8. fetched' - (IP + 1) + Current.val + 1 = Behind(readPointer)'
  <2>1. /\ fetched' - (IP + 1) + Current.val + 1 \in 0..InstructionCount
        /\ fetched' - (IP + 1) + Current.val + 1 > 0
    BY <1>6, InstructionCountAssumption
  <2>2. QED
    BY <1>2, <1>7, <2>1, GapBehind DEF Behind
<1>9. IP' = fetched' - Behind(readPointer)'
  BY <1>1 DEF IP
<1>10. QED
  BY <1>1, <1>3, <1>4, <1>7, <1>8, <1>9

-----------------------------------------------------------------------------
(***************************************************************************)
(* The loops, when an instruction is taken.                                *)
(***************************************************************************)
\* The flags, and what the thread's condition makes of them.
LEMMA Flags ==
    ASSUME IInv, failure = "none"
    PROVE  /\ codeIn2nd \in [Depth -> BOOLEAN]
           /\ loopNestDepth \in Depth
           /\ loopNestDepth < MaxDepthLoopNesting
           /\ \A d \in Depth : codeIn2nd[d] => 1 <= d /\ d <= loopNestDepth
           /\ Replaying <=> \E d \in Depth : codeIn2nd[d]
<1>1. /\ codeIn2nd \in [Depth -> BOOLEAN] /\ loopNestDepth \in Depth
      /\ loopNestDepth < MaxDepthLoopNesting
      /\ \A d \in Depth : codeIn2nd[d] => 1 <= d /\ d <= loopNestDepth
  BY DEF IInv, TypeOK, Running, FlagsAreOpen
<1>2. loopNestDepth <= 4
  BY Where
<1>3. Replaying <=> \E d \in Depth : codeIn2nd[d]
  BY <1>1, <1>2, FlagsFound DEF Replaying
<1>4. QED
  BY <1>1, <1>3

\* The depth when an instruction other than a _SETLC is taken, and the depth
\* of what follows it.
LEMMA DepthTaken ==
    ASSUME IInv, NEW op, Take(op), op # "SETLC"
    PROVE  /\ countSetlc = 0
           /\ loopNestDepth = stream[IP + 1].lvl
           /\ loopNestDepth \in 0..4
           /\ op = "IJMPNZ" => loopNestDepth >= 1
           /\ LevelAfter(stream, IP + 1) = IF op = "IJMPNZ"
                                           THEN loopNestDepth - 1
                                           ELSE loopNestDepth
           /\ IF IP + 1 < Len(stream)
              THEN /\ stream[(IP + 1) + 1].lvl = LevelAfter(stream, IP + 1)
                   /\ ~OpensBody(stream, (IP + 1) + 1)
              ELSE LevelAfter(stream, IP + 1) = 0
<1>1. /\ stream \in CountedStreams /\ IP + 1 \in 1..Len(stream)
      /\ stream[IP + 1].op = op /\ IP \in Nat /\ Len(stream) \in Nat
  BY Taken, Where DEF Take, IInv, TypeOK
<1>2. op # "IJMPNZ_RED"
  BY <1>1, Position
<1>3. ~OpensBody(stream, IP + 1) /\ ~OpensBody(stream, (IP + 1) + 1)
  BY <1>1, Pairs
<1>4. IP < Len(stream)
  BY <1>1
<1>5. countSetlc = 0 /\ loopNestDepth = stream[IP + 1].lvl
  BY <1>3, <1>4 DEF Take, IInv, Running, AtDepth
<1>6. loopNestDepth \in 0..4
  BY Where DEF Take
<1>7. op = "IJMPNZ" => loopNestDepth >= 1
  BY <1>1, <1>5, LoopOf
<1>8. LevelAfter(stream, IP + 1) = IF op = "IJMPNZ" THEN loopNestDepth - 1
                                   ELSE loopNestDepth
  BY <1>1, <1>2, <1>3, <1>5 DEF LevelAfter
<1>9. CASE IP + 1 < Len(stream)
  BY <1>1, <1>3, <1>5, <1>6, <1>7, <1>8, <1>9, Position
<1>10. CASE ~(IP + 1 < Len(stream))
  <2>1. IP + 1 = Len(stream)
    BY <1>1, <1>10
  <2>2. LevelAfter(stream, IP + 1) = 0
    BY <1>1, <2>1, Position
  <2>3. QED
    BY <1>5, <1>6, <1>7, <1>8, <1>10, <2>2
<1>11. QED
  BY <1>9, <1>10

\* The depth a _SETLC leaves, and what follows it.
LEMMA DepthSetlc ==
    ASSUME IInv, Setlc
    PROVE  /\ countSetlc \in {0, 1}
           /\ loopNestDepth' = loopNestDepth + (1 - countSetlc)
           /\ loopNestDepth' \in Depth
           /\ loopNestDepth' \in 1..4
           /\ IP + 1 < Len(stream)
           /\ IF countSetlc = 0
              THEN /\ OpensBody(stream, (IP + 1) + 1)
                   /\ loopNestDepth' = stream[(IP + 1) + 1].lvl + 1
              ELSE /\ ~OpensBody(stream, (IP + 1) + 1)
                   /\ loopNestDepth' = stream[(IP + 1) + 1].lvl
<1>1. /\ stream \in CountedStreams /\ IP + 1 \in 1..Len(stream)
      /\ stream[IP + 1].op = "SETLC" /\ IP \in Nat /\ Len(stream) \in Nat
      /\ countSetlc \in {0, 1}
      /\ loopNestDepth \in Depth /\ loopNestDepth < MaxDepthLoopNesting
      /\ loopNestDepth' = loopNestDepth + (IF countSetlc = 0 THEN 1 ELSE 0)
  BY Taken, Where, Flags DEF Setlc, Take, IInv, TypeOK
<1>2. loopNestDepth \in Nat /\ MaxDepthLoopNesting \in Nat
  BY <1>1, CoreAssumption DEF Depth
<1>3. /\ loopNestDepth' = loopNestDepth + (1 - countSetlc)
      /\ loopNestDepth' \in Depth
  BY <1>1, <1>2 DEF Depth
<1>4. IP < Len(stream) /\ stream[IP + 1].lvl \in 0..4
  BY <1>1, Position
<1>5. CASE countSetlc = 0
  <2>1. ~OpensBody(stream, IP + 1) /\ loopNestDepth = stream[IP + 1].lvl
    BY <1>4, <1>5 DEF Setlc, Take, IInv, Running, AtDepth
  <2>2. /\ IP + 1 < Len(stream)
        /\ OpensBody(stream, (IP + 1) + 1)
        /\ stream[(IP + 1) + 1].lvl = stream[IP + 1].lvl
    BY <1>1, <2>1, Pairs
  <2>3. (IP + 1) + 1 \in 1..Len(stream)
    BY <1>1, <2>2
  <2>4. /\ ((IP + 1) + 1) + 1 \in 1..Len(stream)
        /\ stream[((IP + 1) + 1) + 1].lvl = stream[(IP + 1) + 1].lvl + 1
    BY <1>1, <2>2, <2>3, Pairs
  <2>5. stream[((IP + 1) + 1) + 1].lvl \in 0..4
    BY <1>1, <2>4, Position
  <2>6. QED
    BY <1>1, <1>3, <1>4, <1>5, <2>1, <2>2, <2>4, <2>5
<1>6. CASE countSetlc = 1
  <2>1. OpensBody(stream, IP + 1) /\ loopNestDepth = stream[IP + 1].lvl + 1
    BY <1>4, <1>6 DEF Setlc, Take, IInv, Running, AtDepth
  <2>2. /\ IP + 1 < Len(stream)
        /\ ~OpensBody(stream, (IP + 1) + 1)
        /\ stream[(IP + 1) + 1].lvl = stream[IP + 1].lvl + 1
    BY <1>1, <2>1, Pairs
  <2>3. loopNestDepth \in 0..4
    BY Where DEF Setlc, Take
  <2>4. QED
    BY <1>1, <1>3, <1>4, <1>6, <2>1, <2>2, <2>3
<1>7. QED
  BY <1>1, <1>5, <1>6

\* Passing an instruction that leaves the flags alone: the thread goes on
\* replaying, or goes on reading the pipe.
LEMMA PassedOver ==
    ASSUME IInv, NEW op, Take(op), op # "IJMPNZ", Pass,
           UNCHANGED codeIn2nd,
           loopNestDepth' \in Depth, loopNestDepth' <= 4,
           loopNestDepth' >= loopNestDepth,
           failure' # "throw"
    PROVE  /\ IP' = IP + 1
           /\ readPointer' \in Slot
           /\ FlagsAreOpen'
           /\ Placed'
<1>1. /\ codeIn2nd \in [Depth -> BOOLEAN] /\ loopNestDepth \in Depth
      /\ \A d \in Depth : codeIn2nd[d] => 1 <= d /\ d <= loopNestDepth
      /\ Replaying <=> \E d \in Depth : codeIn2nd[d]
  BY Flags DEF Take
<1>2. \A d \in Depth : codeIn2nd[d] => 1 <= d /\ d <= loopNestDepth'
  BY <1>1, CoreAssumption DEF Depth
<1>3. FlagsAreOpen'
  BY <1>2 DEF FlagsAreOpen, Depth
<1>4. Replaying' <=> \E d \in Depth : codeIn2nd[d]
  BY <1>1, <1>2, FlagsFound DEF Replaying
<1>5. CASE Replaying
  <2>1. Replaying'
    BY <1>1, <1>4, <1>5
  <2>2. /\ fetched' = fetched /\ stream' = stream
        /\ instructionsQueued' = instructionsQueued
        /\ stream[IP + 1].op = op
    BY <1>5, Taken
  <2>3. /\ IP < fetched /\ IP \in Nat /\ fetched \in Nat
        /\ fetched \in 1..Len(stream)
        /\ BodyStart(stream, fetched) <= IP + 1
    BY <1>5, Where DEF Take
  <2>4. LET depth == stream[fetched].lvl IN
        /\ fetched >= 1
        /\ stream[fetched].op = "IJMPNZ"
        /\ codeIn2nd[depth]
        /\ \A d \in Depth : d < depth => ~codeIn2nd[d]
        /\ fetched - BodyStart(stream, fetched) < instructionsQueued
    BY <1>5 DEF IInv, Running, Placed, Take
  <2>5. IP + 1 < fetched
    BY <2>2, <2>3, <2>4
  <2>6. IP' = IP + 1 /\ readPointer' \in Slot
    BY <2>1, <2>2, <2>5, Passed
  <2>7. stream \in CountedStreams
    BY DEF IInv, TypeOK
  <2>8. BodyStart(stream, fetched) \in 3..fetched
    BY <2>3, <2>4, <2>7, LoopOf
  <2>9. BodyStart(stream, fetched) <= IP' + 1
    BY <2>3, <2>6, <2>8
  <2>10. Placed'
    BY <2>1, <2>2, <2>4, <2>9 DEF Placed, BodyStart, Depth
  <2>11. QED
    BY <1>3, <2>6, <2>10
<1>6. CASE ~Replaying
  <2>1. ~Replaying'
    BY <1>1, <1>4, <1>6
  <2>2. fetched' = IP + 1
    BY <1>6, Taken
  <2>3. IP' = IP + 1 /\ readPointer' = writePointer' /\ readPointer' \in Slot
    BY <2>1, <2>2, Passed
  <2>4. Placed'
    BY <2>1, <2>3 DEF Placed
  <2>5. QED
    BY <1>3, <2>3, <2>4
<1>7. QED
  BY <1>5, <1>6

-----------------------------------------------------------------------------
(***************************************************************************)
(* Each action keeps the invariant and is a step of the abstract machine.  *)
(***************************************************************************)
\* The part of the type invariant that taking an instruction settles.
LEMMA TypesTaken ==
    ASSUME IInv, NEW op, Take(op),
           readPointer' \in Slot,
           loopNestDepth' \in Depth,
           countSetlc' \in {0, 1},
           repeatCounter' \in [Depth -> 0..(CounterModulus - 1)],
           codeIn2nd' \in [Depth -> BOOLEAN],
           failure' \in {"none", "throw", "assertDepth", "assertEnergy"}
    PROVE  TypeOK'
<1>1. instructionsQueued' \in 0..InstructionCount
  <2>1. instructionsQueued' = Held /\ instructionsQueued \in 0..InstructionCount
    BY Taken DEF IInv, TypeOK
  <2>2. QED
    BY <2>1, InstructionCountAssumption DEF Held, isFull
<1>2. /\ stream' = stream /\ written' = written
      /\ stream \in Streams /\ written \in 0..Len(stream)
      /\ fetched' \in 0..written
      /\ queue' \in [Slot -> Instruction \cup {Unfilled}]
      /\ writePointer' \in Slot
  BY Taken DEF IInv, TypeOK
<1>3. QED
  BY <1>1, <1>2 DEF TypeOK

\* The abstract machine has the instruction in front of it.
LEMMA PresentTaken ==
    ASSUME IInv, NEW op, Take(op)
    PROVE  Unlimited!Present(op) /\ Current = stream[IP + 1]
<1>1. /\ stream[IP + 1].op = op /\ UNCHANGED <<stream, written>>
      /\ Current = stream[IP + 1] /\ failure = "none"
  BY Taken DEF Take
<1>2. IP < written
  <2>1. CASE Replaying
    BY <2>1, Where DEF Take
  <2>2. CASE ~Replaying
    BY <2>2, Where DEF Take
  <2>3. QED
    BY <2>1, <2>2
<1>3. QED
  BY <1>1, <1>2 DEF Unlimited!Present

\* The first _SETLC of a pair announces the depth the second one opens; both
\* write the counter, and the flags stay.
LEMMA SetlcStep ==
    ASSUME IInv, Setlc
    PROVE  IInv' /\ Unlimited!Setlc
<1>1. /\ Take("SETLC") /\ Pass /\ UNCHANGED codeIn2nd /\ failure = "none"
      /\ failure' \in {"none", "assertDepth"}
      /\ failure' = "none" => loopNestDepth' < MaxDepthLoopNesting
  BY DEF Setlc, Take
<1>2. /\ countSetlc \in {0, 1}
      /\ loopNestDepth' = loopNestDepth + (1 - countSetlc)
      /\ loopNestDepth' \in Depth
      /\ loopNestDepth' \in 1..4
      /\ IP + 1 < Len(stream)
      /\ IF countSetlc = 0
         THEN /\ OpensBody(stream, (IP + 1) + 1)
              /\ loopNestDepth' = stream[(IP + 1) + 1].lvl + 1
         ELSE /\ ~OpensBody(stream, (IP + 1) + 1)
              /\ loopNestDepth' = stream[(IP + 1) + 1].lvl
  BY DepthSetlc
<1>3. loopNestDepth \in Depth
  BY <1>1, Flags
<1>4. loopNestDepth' >= loopNestDepth /\ loopNestDepth' <= 4
  BY <1>2, <1>3, CoreAssumption DEF Depth
<1>5. failure' # "throw"
  BY <1>1
<1>6. /\ IP' = IP + 1 /\ readPointer' \in Slot /\ FlagsAreOpen' /\ Placed'
  BY <1>1, <1>2, <1>4, <1>5, PassedOver
<1>7. Current = stream[IP + 1] /\ Current.val \in Int /\ stream' = stream
  <2>1. IP + 1 \in 1..Len(stream) /\ stream \in CountedStreams /\ stream' = stream
        /\ Current = stream[IP + 1]
    BY <1>1, Taken DEF IInv, TypeOK
  <2>2. QED
    BY <2>1, Position
<1>8. countSetlc' \in {0, 1}
      /\ (failure' = "none" => countSetlc' = 1 - countSetlc)
  BY <1>1, <1>2 DEF Setlc
<1>9. repeatCounter' \in [Depth -> 0..(CounterModulus - 1)]
  <2>1. Current.val % CounterModulus \in 0..(CounterModulus - 1)
    BY <1>7, CounterValue
  <2>2. repeatCounter \in [Depth -> 0..(CounterModulus - 1)]
    BY DEF IInv, TypeOK
  <2>3. \/ repeatCounter' = repeatCounter
        \/ repeatCounter' = [repeatCounter EXCEPT
              ![loopNestDepth'] = Current.val % CounterModulus]
    BY DEF Setlc
  <2>4. QED
    BY <2>1, <2>2, <2>3
<1>10. codeIn2nd' \in [Depth -> BOOLEAN]
  BY <1>1, Flags
<1>11. TypeOK'
  BY <1>1, <1>2, <1>6, <1>8, <1>9, <1>10, TypesTaken
<1>12. ThrowMeansOversized'
  BY <1>5 DEF ThrowMeansOversized
<1>13. ASSUME failure' = "none" PROVE Running'
  <2>1. AtDepth'
    BY <1>2, <1>6, <1>7, <1>8, <1>13 DEF AtDepth, OpensBody
  <2>2. Recorded'
    BY <1>1, Taken
  <2>3. QED
    BY <1>1, <1>6, <1>13, <2>1, <2>2 DEF Running
<1>14. Unlimited!Setlc
  <2>1. Unlimited!Present("SETLC")
    BY <1>1, PresentTaken
  <2>2. Unlimited!Pass
    BY <1>6 DEF Unlimited!Pass
  <2>3. CASE loopNestDepth' < MaxDepthLoopNesting
    <3>1. /\ countSetlc' = 1 - countSetlc
          /\ repeatCounter' = [repeatCounter EXCEPT
                ![loopNestDepth'] = stream[IP + 1].val % CounterModulus]
          /\ failure' = failure
      BY <1>2, <1>7, <2>3 DEF Setlc
    <3>2. QED
      BY <1>2, <2>1, <2>2, <2>3, <3>1 DEF Unlimited!Setlc
  <2>4. CASE ~(loopNestDepth' < MaxDepthLoopNesting)
    <3>1. failure' = "assertDepth" /\ UNCHANGED <<countSetlc, repeatCounter>>
      BY <2>4 DEF Setlc
    <3>2. QED
      BY <1>2, <2>1, <2>2, <2>4, <3>1 DEF Unlimited!Setlc
  <2>5. QED
    BY <2>3, <2>4
<1>15. stream' \in CountedStreams
  BY <1>1, Taken DEF IInv
<1>16. QED
  BY <1>11, <1>12, <1>13, <1>14, <1>15 DEF IInv

\* Instructions that do not sequence move the pointer and nothing else.
LEMMA PlainStep ==
    ASSUME IInv, Gate \/ Other
    PROVE  IInv' /\ (Unlimited!Gate \/ Unlimited!Other)
<1>1. PICK op \in {"GATE", "OTHER"} :
         /\ Take(op) /\ Pass /\ UNCHANGED loopVars /\ failure = "none"
         /\ failure' = IF op = "GATE" THEN "assertEnergy" ELSE "none"
  BY DEF Gate, Other, Take
<1>2. /\ countSetlc = 0 /\ loopNestDepth \in 0..4
      /\ LevelAfter(stream, IP + 1) = loopNestDepth
      /\ IF IP + 1 < Len(stream)
         THEN /\ stream[(IP + 1) + 1].lvl = LevelAfter(stream, IP + 1)
              /\ ~OpensBody(stream, (IP + 1) + 1)
         ELSE LevelAfter(stream, IP + 1) = 0
  BY <1>1, DepthTaken
<1>3. /\ codeIn2nd \in [Depth -> BOOLEAN] /\ loopNestDepth \in Depth
      /\ loopNestDepth < MaxDepthLoopNesting
  BY <1>1, Flags
<1>4. /\ loopNestDepth' = loopNestDepth /\ countSetlc' = countSetlc
      /\ codeIn2nd' = codeIn2nd /\ repeatCounter' = repeatCounter
      /\ failure' # "throw"
  BY <1>1 DEF loopVars
<1>5. loopNestDepth' \in Depth /\ loopNestDepth' <= 4
      /\ loopNestDepth' >= loopNestDepth
  BY <1>2, <1>3, <1>4
<1>6. /\ IP' = IP + 1 /\ readPointer' \in Slot /\ FlagsAreOpen' /\ Placed'
  BY <1>1, <1>4, <1>5, PassedOver
<1>7. TypeOK'
  <2>1. repeatCounter \in [Depth -> 0..(CounterModulus - 1)]
    BY DEF IInv, TypeOK
  <2>2. failure' \in {"none", "throw", "assertDepth", "assertEnergy"}
    BY <1>1
  <2>3. QED
    BY <1>1, <1>2, <1>3, <1>4, <1>6, <2>1, <2>2, TypesTaken
<1>8. ThrowMeansOversized'
  BY <1>4 DEF ThrowMeansOversized
<1>9. Running'
  <2>1. stream' = stream /\ Recorded'
    BY <1>1, Taken
  <2>2. AtDepth'
    BY <1>2, <1>4, <1>6, <2>1 DEF AtDepth, OpensBody
  <2>3. QED
    BY <1>3, <1>4, <1>6, <2>1, <2>2 DEF Running
<1>10. Unlimited!Gate \/ Unlimited!Other
  <2>1. Unlimited!Present(op)
    BY <1>1, PresentTaken
  <2>2. Unlimited!Pass
    BY <1>6 DEF Unlimited!Pass
  <2>3. QED
    BY <1>1, <1>4, <2>1, <2>2 DEF Unlimited!Gate, Unlimited!Other
<1>11. stream' \in CountedStreams
  BY <1>1, Taken DEF IInv
<1>12. QED
  BY <1>7, <1>8, <1>9, <1>10, <1>11 DEF IInv

\* Leaving a loop clears its flag.  If the loop is the one whose jump was
\* fetched last no flag is left, and the pipe is next; if it is an inner
\* one, the flag of the loop around it keeps the thread replaying.
LEMMA LeaveLoopStep ==
    ASSUME IInv, LeaveLoop
    PROVE  IInv' /\ Unlimited!LeaveLoop
<1>1. /\ Take("IJMPNZ") /\ Pass /\ failure = "none" /\ failure' = "none"
      /\ repeatCounter[loopNestDepth] = 0
      /\ codeIn2nd' = [codeIn2nd EXCEPT ![loopNestDepth] = FALSE]
      /\ loopNestDepth' = loopNestDepth - 1
      /\ UNCHANGED <<countSetlc, repeatCounter>>
  BY DEF LeaveLoop, Take
<1>2. /\ countSetlc = 0 /\ loopNestDepth \in 1..4
      /\ loopNestDepth = stream[IP + 1].lvl
      /\ LevelAfter(stream, IP + 1) = loopNestDepth - 1
      /\ IF IP + 1 < Len(stream)
         THEN /\ stream[(IP + 1) + 1].lvl = LevelAfter(stream, IP + 1)
              /\ ~OpensBody(stream, (IP + 1) + 1)
         ELSE LevelAfter(stream, IP + 1) = 0
  BY <1>1, DepthTaken
<1>3. /\ codeIn2nd \in [Depth -> BOOLEAN] /\ loopNestDepth \in Depth
      /\ loopNestDepth < MaxDepthLoopNesting
      /\ \A d \in Depth : codeIn2nd[d] => 1 <= d /\ d <= loopNestDepth
      /\ Replaying <=> \E d \in Depth : codeIn2nd[d]
  BY <1>1, Flags
<1>4. /\ codeIn2nd' \in [Depth -> BOOLEAN] /\ loopNestDepth' \in Depth
      /\ loopNestDepth' <= 4 /\ loopNestDepth' < MaxDepthLoopNesting
      /\ \A d \in Depth : codeIn2nd'[d] <=> codeIn2nd[d] /\ d # loopNestDepth
  BY SMTT(30), <1>1, <1>2, <1>3, CoreAssumption DEF Depth
<1>5. \A d \in Depth : codeIn2nd'[d] => 1 <= d /\ d <= loopNestDepth'
  BY <1>1, <1>2, <1>3, <1>4 DEF Depth
<1>6. FlagsAreOpen'
  BY <1>5 DEF FlagsAreOpen, Depth
<1>7. Replaying' <=> \E d \in Depth : codeIn2nd'[d]
  BY <1>4, <1>5, FlagsFound DEF Replaying
<1>8. stream' = stream /\ Recorded'
  BY <1>1, Taken
<1>9. IP' = IP + 1 /\ readPointer' \in Slot /\ Placed'
  <2>1. CASE ~Replaying
    <3>1. ~Replaying'
      BY <1>3, <1>4, <1>7, <2>1
    <3>2. IP + 1 = fetched'
      BY <1>1, <2>1, Taken
    <3>3. IP' = IP + 1 /\ readPointer' = writePointer' /\ readPointer' \in Slot
      BY <1>1, <3>1, <3>2, Passed
    <3>4. QED
      BY <3>1, <3>3 DEF Placed
  <2>2. CASE Replaying
    <3>1. /\ fetched' = fetched
          /\ instructionsQueued' = instructionsQueued
          /\ IP \in Nat
      BY <1>1, <2>2, Taken, Where
    <3>2. /\ fetched \in 1..Len(stream)
          /\ stream[fetched].lvl \in 1..4
          /\ IP + 1 < fetched => stream[fetched].lvl < stream[IP + 1].lvl
          /\ IP + 1 <= fetched
          /\ BodyStart(stream, fetched) \in 3..fetched
          /\ BodyStart(stream, fetched) <= IP + 1
      <4>1. BodyStart(stream, fetched) <= IP + 1
        BY <1>1, <2>2, Where
      <4>2. QED
        BY <1>1, <2>2, <4>1, JumpWithin
    <3>3. LET depth == stream[fetched].lvl IN
          /\ fetched >= 1
          /\ stream[fetched].op = "IJMPNZ"
          /\ codeIn2nd[depth]
          /\ \A d \in Depth : d < depth => ~codeIn2nd[d]
          /\ fetched - BodyStart(stream, fetched) < instructionsQueued
      BY <1>1, <2>2 DEF IInv, Running, Placed
    <3>4. CASE IP + 1 = fetched
      <4>1. \A d \in Depth : codeIn2nd[d] => d = loopNestDepth
        BY <1>2, <1>3, <3>3, <3>4 DEF Depth
      <4>2. ~Replaying'
        BY <1>4, <1>7, <4>1
      <4>3. IP + 1 = fetched'
        BY <3>1, <3>4
      <4>4. IP' = IP + 1 /\ readPointer' = writePointer' /\ readPointer' \in Slot
        BY <1>1, <4>2, <4>3, Passed
      <4>5. QED
        BY <4>2, <4>4 DEF Placed
    <3>5. CASE IP + 1 < fetched
      <4>1. /\ stream[fetched].lvl < loopNestDepth
            /\ stream[fetched].lvl \in Depth
        BY <1>2, <3>2, <3>5, CoreAssumption DEF Depth
      <4>2. codeIn2nd'[stream[fetched].lvl]
        BY <1>2, <1>4, <3>2, <3>3, <4>1
      <4>3. Replaying'
        BY <1>7, <4>1, <4>2
      <4>4. IP + 1 < fetched'
        BY <3>1, <3>5
      <4>5. failure' # "throw"
        BY <1>1
      <4>6. IP' = IP + 1 /\ readPointer' \in Slot
        BY <1>1, <4>3, <4>4, <4>5, Passed
      <4>7. \A d \in Depth : d < stream[fetched].lvl => ~codeIn2nd'[d]
        BY <1>4, <3>3
      <4>8. BodyStart(stream, fetched) <= IP' + 1
        BY <3>1, <3>2, <4>6
      <4>9. Placed'
        BY <1>8, <3>1, <3>3, <4>2, <4>3, <4>7, <4>8
           DEF Placed, BodyStart, Depth
      <4>10. QED
        BY <4>6, <4>9
    <3>6. QED
      BY <3>1, <3>2, <3>4, <3>5
  <2>3. QED
    BY <2>1, <2>2
<1>10. TypeOK'
  <2>1. repeatCounter' \in [Depth -> 0..(CounterModulus - 1)]
    BY <1>1 DEF IInv, TypeOK
  <2>2. countSetlc' \in {0, 1}
    BY <1>1, <1>2
  <2>3. failure' \in {"none", "throw", "assertDepth", "assertEnergy"}
    BY <1>1
  <2>4. QED
    BY <1>1, <1>4, <1>9, <2>1, <2>2, <2>3, TypesTaken
<1>11. ThrowMeansOversized'
  BY <1>1 DEF ThrowMeansOversized
<1>12. Running'
  <2>1. AtDepth'
    BY <1>1, <1>2, <1>8, <1>9 DEF AtDepth, OpensBody
  <2>2. QED
    BY <1>4, <1>6, <1>8, <1>9, <2>1 DEF Running
<1>13. Unlimited!LeaveLoop
  <2>1. Unlimited!Present("IJMPNZ")
    BY <1>1, PresentTaken
  <2>2. Unlimited!Pass
    BY <1>9 DEF Unlimited!Pass
  <2>3. QED
    BY <1>1, <2>1, <2>2 DEF Unlimited!LeaveLoop
<1>14. stream' \in CountedStreams
  BY <1>1, Taken DEF IInv
<1>15. QED
  BY <1>10, <1>11, <1>12, <1>13, <1>14 DEF IInv

\* Repeating a loop sets its flag.  A loop met for the first time becomes
\* the one being replayed, and throws if the buffer does not hold its body;
\* an inner loop is replayed from what the loop around it holds.
LEMMA RepeatLoopStep ==
    ASSUME IInv, RepeatLoop
    PROVE  IInv' /\ Unlimited!RepeatLoop
<1>1. /\ Take("IJMPNZ") /\ Jump /\ failure = "none"
      /\ repeatCounter[loopNestDepth] # 0
      /\ repeatCounter' = [repeatCounter EXCEPT ![loopNestDepth] = @ - 1]
      /\ codeIn2nd' = [codeIn2nd EXCEPT ![loopNestDepth] = TRUE]
      /\ UNCHANGED <<loopNestDepth, countSetlc>>
  BY DEF RepeatLoop, Take
<1>2. /\ countSetlc = 0 /\ loopNestDepth \in 1..4
      /\ loopNestDepth = stream[IP + 1].lvl
  BY <1>1, DepthTaken
<1>3. /\ codeIn2nd \in [Depth -> BOOLEAN] /\ loopNestDepth \in Depth
      /\ loopNestDepth < MaxDepthLoopNesting
      /\ \A d \in Depth : codeIn2nd[d] => 1 <= d /\ d <= loopNestDepth
      /\ Replaying <=> \E d \in Depth : codeIn2nd[d]
  BY <1>1, Flags
<1>4. /\ codeIn2nd' \in [Depth -> BOOLEAN] /\ loopNestDepth' \in Depth
      /\ loopNestDepth' = loopNestDepth
      /\ loopNestDepth' <= 4 /\ loopNestDepth' < MaxDepthLoopNesting
      /\ codeIn2nd'[loopNestDepth]
      /\ \A d \in Depth : codeIn2nd'[d] <=> codeIn2nd[d] \/ d = loopNestDepth
  BY <1>1, <1>2, <1>3
<1>5. \A d \in Depth : codeIn2nd'[d] => 1 <= d /\ d <= loopNestDepth'
  BY <1>2, <1>3, <1>4 DEF Depth
<1>6. FlagsAreOpen'
  BY <1>5 DEF FlagsAreOpen, Depth
<1>7. Replaying'
  BY <1>1, <1>3, <1>4 DEF Replaying
<1>8. /\ stream' = stream /\ written' = written /\ Recorded'
      /\ stream \in CountedStreams
      /\ IP + 1 \in 1..Len(stream) /\ IP \in Nat /\ fetched \in Nat
      /\ stream[IP + 1].op = "IJMPNZ"
      /\ instructionsQueued' = Held
      /\ Current = stream[IP + 1]
      /\ Advanced \in Slot
      /\ Replaying => /\ fetched' = fetched
                      /\ instructionsQueued' = instructionsQueued
      /\ ~Replaying => fetched' = IP + 1
  BY <1>1, Taken, Where DEF IInv, TypeOK
<1>9. /\ BodyStart(stream, IP + 1) \in 3..(IP + 1)
      /\ Current.val = IP + 1 - BodyStart(stream, IP + 1)
      /\ Current.val \in Nat
      /\ Replaying =>
            /\ fetched \in 1..Len(stream)
            /\ stream[fetched].op = "IJMPNZ"
            /\ stream[fetched].lvl \in 1..4
            /\ BodyStart(stream, fetched) \in 3..fetched
            /\ BodyStart(stream, fetched) <= BodyStart(stream, IP + 1)
            /\ fetched - BodyStart(stream, fetched) < instructionsQueued
            /\ stream[fetched].lvl <= stream[IP + 1].lvl
            /\ IP + 1 <= fetched
  BY <1>1, JumpWithin
<1>10. instructionsQueued \in 0..InstructionCount
       /\ Held \in 0..InstructionCount
  BY InstructionCountAssumption DEF IInv, TypeOK, Held, isFull
<1>11. repeatCounter' \in [Depth -> 0..(CounterModulus - 1)]
  <2>1. /\ repeatCounter \in [Depth -> 0..(CounterModulus - 1)]
        /\ CounterModulus \in Nat
    BY CoreAssumption DEF IInv, TypeOK
  <2>2. repeatCounter[loopNestDepth] - 1 \in 0..(CounterModulus - 1)
    BY <1>1, <1>3, <2>1
  <2>3. QED
    BY <1>1, <1>3, <2>1, <2>2
<1>12. CASE Enough(Held, Current.val)
  <2>1. /\ IP' = BodyStart(stream, IP + 1) - 1
        /\ readPointer' \in Slot /\ failure' = "none"
    BY <1>1, <1>7, <1>12, Jumped
  <2>2. TypeOK'
    BY <1>1, <1>2, <1>4, <1>11, <2>1, TypesTaken
  <2>3. ThrowMeansOversized'
    BY <2>1 DEF ThrowMeansOversized
  <2>4. AtDepth'
    <3>1. /\ ~OpensBody(stream, BodyStart(stream, IP + 1))
          /\ stream[BodyStart(stream, IP + 1)].lvl = stream[IP + 1].lvl
      BY <1>8, LoopOf
    <3>2. IP' + 1 = BodyStart(stream, IP + 1) /\ IP' < Len(stream)
      BY <1>8, <1>9, <2>1
    <3>3. QED
      BY <1>1, <1>2, <1>8, <3>1, <3>2 DEF AtDepth, OpensBody
  <2>5. Placed'
    <3>1. CASE Replaying
      <4>1. LET depth == stream[fetched].lvl IN
            /\ fetched >= 1
            /\ codeIn2nd[depth]
            /\ \A d \in Depth : d < depth => ~codeIn2nd[d]
        BY <1>1, <3>1 DEF IInv, Running, Placed
      <4>2. /\ stream[fetched].lvl \in Depth
            /\ stream[fetched].lvl <= loopNestDepth
            /\ stream[fetched].op = "IJMPNZ"
            /\ fetched - BodyStart(stream, fetched) < instructionsQueued
        <5>1. /\ stream[fetched].lvl \in 1..4
              /\ stream[fetched].lvl <= stream[IP + 1].lvl
              /\ stream[fetched].op = "IJMPNZ"
              /\ fetched - BodyStart(stream, fetched) < instructionsQueued
          BY <1>9, <3>1
        <5>2. 1..4 \subseteq Depth
          BY CoreAssumption DEF Depth
        <5>3. QED
          BY <1>2, <5>1, <5>2
      <4>3. codeIn2nd'[stream[fetched].lvl]
        BY <1>4, <4>1, <4>2
      <4>4. \A d \in Depth : d < stream[fetched].lvl => ~codeIn2nd'[d]
        <5>1. \A d \in Depth : d < stream[fetched].lvl => d # loopNestDepth
          BY <1>2, <1>9, <3>1, <4>2 DEF Depth
        <5>2. QED
          BY <1>4, <4>1, <5>1
      <4>5. BodyStart(stream, fetched) <= IP' + 1
        BY <1>8, <1>9, <2>1, <3>1
      <4>6. /\ fetched' = fetched
            /\ instructionsQueued' = instructionsQueued
        BY <1>8, <3>1
      <4>7. QED
        BY <1>7, <1>8, <4>1, <4>2, <4>3, <4>4, <4>5, <4>6
           DEF Placed, BodyStart, Depth
    <3>2. CASE ~Replaying
      <4>1. \A d \in Depth : ~codeIn2nd[d]
        BY <1>3, <3>2
      <4>2. \A d \in Depth : d < loopNestDepth => ~codeIn2nd'[d]
        BY <1>2, <1>4, <4>1 DEF Depth
      <4>3. fetched' = IP + 1
        BY <1>8, <3>2
      <4>4. stream[fetched'].lvl = loopNestDepth
            /\ stream[fetched'].op = "IJMPNZ" /\ fetched' >= 1
        BY <1>2, <1>8, <4>3
      <4>5. BodyStart(stream, fetched') <= IP' + 1
        BY <1>8, <1>9, <2>1, <4>3
      <4>6. fetched' - BodyStart(stream, fetched') < instructionsQueued'
        BY <1>8, <1>9, <1>10, <1>12, <4>3 DEF Enough
      <4>7. QED
        BY <1>4, <1>7, <1>8, <4>2, <4>4, <4>5, <4>6
           DEF Placed, BodyStart, Depth
    <3>3. QED
      BY <3>1, <3>2
  <2>6. Running'
    BY <1>4, <1>6, <1>8, <2>4, <2>5 DEF Running
  <2>7. Unlimited!RepeatLoop
    <3>1. Unlimited!Present("IJMPNZ")
      BY <1>1, PresentTaken
    <3>2. Fits(stream[IP + 1], InstructionCount)
      BY <1>8, <1>9, <1>10, <1>12, InstructionCountAssumption DEF Enough, Fits
    <3>3. IP' = IP - stream[IP + 1].val
      BY <1>8, <1>9, <2>1
    <3>4. Unlimited!Jump
      BY <1>1, <2>1, <3>2, <3>3 DEF Unlimited!Jump, Unlimited!Fits, Fits
    <3>5. QED
      BY <1>1, <3>1, <3>4 DEF Unlimited!RepeatLoop
  <2>8. QED
    BY <1>8, <2>1, <2>2, <2>3, <2>6, <2>7 DEF IInv
<1>13. CASE ~Enough(Held, Current.val)
  <2>1. readPointer' = Advanced /\ failure' = "throw"
    BY <1>1, <1>13 DEF Jump
  <2>2. ~Replaying
    <3>1. ASSUME Replaying PROVE FALSE
      <4>1. Held = instructionsQueued
        BY <3>1 DEF Held
      <4>2. QED
        BY <1>8, <1>9, <1>10, <1>13, <3>1, <4>1 DEF Enough
    <3>2. QED
      BY <3>1
  <2>3. fetched' = IP + 1
    BY <1>8, <2>2
  <2>4. ~Fits(stream[IP + 1], InstructionCount)
    <3>1. Held = IF fetched' < InstructionCount THEN fetched'
                 ELSE InstructionCount
      BY <1>8 DEF Recorded
    <3>2. QED
      BY <1>8, <1>9, <1>13, <2>3, <3>1, InstructionCountAssumption
         DEF Enough, Fits
  <2>5. ThrowMeansOversized'
    BY <1>8, <2>3, <2>4 DEF ThrowMeansOversized, Fits
  <2>6. TypeOK'
    BY <1>1, <1>2, <1>4, <1>8, <1>11, <2>1, TypesTaken
  <2>7. Unlimited!RepeatLoop
    <3>1. Unlimited!Present("IJMPNZ")
      BY <1>1, PresentTaken
    <3>2. IP' = fetched'
      BY <2>1 DEF IP
    <3>3. Unlimited!Jump
      BY <2>1, <2>3, <2>4, <3>2 DEF Unlimited!Jump, Unlimited!Fits, Fits
    <3>4. QED
      BY <1>1, <3>1, <3>3 DEF Unlimited!RepeatLoop
  <2>8. QED
    BY <1>8, <2>1, <2>5, <2>6, <2>7 DEF IInv
<1>14. QED
  BY <1>12, <1>13

\* The host's writes, and the steps that do nothing.
LEMMA HostWriteStep ==
    ASSUME IInv, HostWrite
    PROVE  IInv' /\ Unlimited!HostWrite
<1>1. /\ failure = "none"
      /\ written' \in (written + 1)..Len(stream)
      /\ UNCHANGED <<queue, readPointer, writePointer, instructionsQueued,
                     stream, fetched, loopNestDepth, countSetlc,
                     repeatCounter, codeIn2nd, failure>>
  BY DEF HostWrite, iimVars, loopVars
<1>2. /\ fetched \in Nat /\ written \in Nat /\ Len(stream) \in Nat
      /\ fetched <= written
  BY <1>1, Where
<1>3. TypeOK'
  <2>1. written' \in 0..Len(stream) /\ fetched \in 0..written'
    BY <1>1, <1>2
  <2>2. QED
    BY <1>1, <2>1 DEF IInv, TypeOK
<1>4. IP' = IP
  BY <1>1 DEF IP, Replaying, Behind
<1>5. Running'
  BY <1>1, <1>4 DEF IInv, Running, FlagsAreOpen, Recorded, Behind, AtDepth,
                    Placed, Replaying
<1>6. ThrowMeansOversized'
  BY <1>1 DEF ThrowMeansOversized
<1>7. Unlimited!HostWrite
  BY <1>1, <1>4 DEF Unlimited!HostWrite
<1>8. stream' \in CountedStreams
  BY <1>1 DEF IInv
<1>9. QED
  BY <1>3, <1>5, <1>6, <1>7, <1>8 DEF IInv

\* Where nothing changes, nothing is lost.
LEMMA StutterStep ==
    ASSUME IInv, UNCHANGED coreVars
    PROVE  IInv' /\ UNCHANGED Unlimited!ipVars
<1>1. UNCHANGED <<queue, readPointer, writePointer, instructionsQueued,
                  stream, written, fetched, loopNestDepth, countSetlc,
                  repeatCounter, codeIn2nd, failure>>
  BY DEF coreVars, iimVars, pipeVars, loopVars
<1>2. IP' = IP
  BY <1>1 DEF IP, Replaying, Behind
<1>3. TypeOK'
  BY <1>1 DEF IInv, TypeOK
<1>4. ASSUME failure = "none" PROVE Running'
  BY <1>1, <1>2, <1>4 DEF IInv, Running, FlagsAreOpen, Recorded, Behind,
                          AtDepth, Placed, Replaying
<1>5. ThrowMeansOversized'
  BY <1>1 DEF IInv, ThrowMeansOversized
<1>6. QED
  BY <1>1, <1>2, <1>3, <1>4, <1>5 DEF IInv, Unlimited!ipVars

\* No stream of counted loops has a jump the data decide.
LEMMA NoSimpleLoop ==
    ASSUME IInv, Take("IJMPNZ_RED")
    PROVE  FALSE
<1>1. /\ stream \in CountedStreams /\ IP + 1 \in 1..Len(stream)
      /\ stream[IP + 1].op = "IJMPNZ_RED"
  BY Taken DEF IInv, TypeOK
<1>2. QED
  BY <1>1, Position

\* An empty buffer, no flag, no loop.
LEMMA InitialState ==
    ASSUME Init, stream \in CountedStreams
    PROVE  IInv /\ Unlimited!Init
<1>1. /\ queue = [slot \in Slot |-> Unfilled]
      /\ readPointer = 0 /\ writePointer = 0 /\ instructionsQueued = 0
      /\ stream \in Streams /\ written = 0 /\ fetched = 0
      /\ loopNestDepth = 0 /\ countSetlc = 0
      /\ repeatCounter = [d \in Depth |-> IF d = 0 THEN CounterModulus - 1 ELSE 0]
      /\ codeIn2nd = [d \in Depth |-> FALSE]
      /\ failure = "none"
  BY DEF Init, IIMInit
<1>2. stream \in Seq(Instruction) /\ Len(stream) \in Nat
  BY <1>1, CoreAssumption
<1>3. TypeOK
  <2>1. 0 \in Slot /\ 0 \in Depth /\ 0 \in 0..InstructionCount
    BY InstructionCountAssumption, CoreAssumption DEF Slot, Depth
  <2>2. repeatCounter \in [Depth -> 0..(CounterModulus - 1)]
    BY <1>1, CoreAssumption
  <2>3. queue \in [Slot -> Instruction \cup {Unfilled}]
    BY <1>1
  <2>4. QED
    BY <1>1, <1>2, <2>1, <2>2, <2>3 DEF TypeOK
<1>4. \A d \in Depth : ~codeIn2nd[d]
  BY <1>1
<1>5. ~Replaying /\ FlagsAreOpen
  <2>1. 0 \in Depth /\ TestedDepths \subseteq Depth
    BY CoreAssumption DEF Depth, TestedDepths
  <2>2. QED
    BY <1>1, <1>4, <2>1 DEF Replaying, FlagsAreOpen
<1>6. IP = 0
  BY <1>1, <1>5 DEF IP
<1>7. Recorded
  <2>1. ASSUME NEW slot \in Slot PROVE ~(Behind(slot) <= 0)
    BY <1>1, InstructionCountAssumption DEF Behind, Slot
  <2>2. QED
    BY <1>1, <2>1, InstructionCountAssumption DEF Recorded
<1>8. AtDepth
  <2>1. ASSUME IP < Len(stream)
        PROVE  stream[IP + 1].lvl = 0 /\ ~OpensBody(stream, IP + 1)
    <3>1. IP + 1 = 1 /\ 1 \in 1..Len(stream)
      BY <1>2, <1>6, <2>1
    <3>2. stream[1].lvl = 0
      BY <1>1, <3>1, Position
    <3>3. QED
      BY <3>1, <3>2 DEF OpensBody
  <2>2. QED
    BY <1>1, <2>1 DEF AtDepth
<1>9. Running
  BY <1>1, <1>5, <1>7, <1>8, CoreAssumption DEF Running, Placed
<1>10. IInv
  BY <1>1, <1>3, <1>9 DEF IInv, ThrowMeansOversized
<1>11. Unlimited!Init
  BY <1>1, <1>6 DEF Unlimited!Init, Depth
<1>12. QED
  BY <1>10, <1>11

-----------------------------------------------------------------------------
(***************************************************************************)
(* The theorems.                                                           *)
(***************************************************************************)
\* A step of the core thread keeps the invariant, and is a step of the
\* machine with unlimited memory, or one that machine does not see.
LEMMA NextStep ==
    ASSUME IInv, [Next]_coreVars
    PROVE  IInv' /\ [Unlimited!Next]_Unlimited!ipVars
<1>1. CASE HostWrite
  BY <1>1, HostWriteStep DEF Unlimited!Next
<1>2. CASE Setlc
  BY <1>2, SetlcStep DEF Unlimited!Next
<1>3. CASE LeaveLoop
  BY <1>3, LeaveLoopStep DEF Unlimited!Next
<1>4. CASE RepeatLoop
  BY <1>4, RepeatLoopStep DEF Unlimited!Next
<1>5. CASE LeaveSimple \/ RepeatSimple
  BY <1>5, NoSimpleLoop DEF LeaveSimple, RepeatSimple
<1>6. CASE Gate \/ Other
  BY <1>6, PlainStep DEF Unlimited!Next
<1>7. CASE Quiet \/ UNCHANGED coreVars
  <2>1. UNCHANGED coreVars
    BY <1>7 DEF Quiet
  <2>2. QED
    BY <2>1, StutterStep
<1>8. QED
  BY <1>1, <1>2, <1>3, <1>4, <1>5, <1>6, <1>7 DEF Next, Step

\* Whatever else a host may send, a stream of counted loops keeps the buffer
\* filled with the last instructions fetched, the simulated nesting depth is the
\* one the code was assembled at, and the loop being replayed is the one whose
\* jump was fetched last.
THEOREM Invariance == Spec => []CountedInv
<1>1. Init => CountedInv
  BY InitialState DEF CountedInv
<1>2. CountedInv /\ [Next]_coreVars => CountedInv'
  <2>1. SUFFICES ASSUME CountedInv, [Next]_coreVars, stream' \in CountedStreams
                 PROVE  IInv'
    BY DEF CountedInv
  <2>2. stream' = stream
    BY <2>1 DEF Next, Step, HostWrite, Quiet, Setlc, LeaveLoop, RepeatLoop,
                LeaveSimple, RepeatSimple, Gate, Other, Take, pipeVars, coreVars
  <2>3. QED
    BY <2>1, <2>2, NextStep DEF CountedInv
<1>3. QED
  BY <1>1, <1>2, PTL DEF Spec

\* ... so that it is one throughout.
LEMMA CountedInvariance == CountedSpec => []IInv
<1>1. Init /\ stream \in CountedStreams => IInv
  BY InitialState
<1>2. IInv /\ [Next]_coreVars => IInv'
  BY NextStep
<1>3. QED
  BY <1>1, <1>2, PTL DEF CountedSpec, Spec

\* Type correctness.
THEOREM TypeCorrect == CountedSpec => []TypeOK
<1>1. IInv => TypeOK
  BY DEF IInv
<1>2. QED
  BY <1>1, CountedInvariance, PTL

\* The exception of displaceReadPointer() is thrown only by a loop that does
\* not fit the memory.
THEOREM ThrowsOnlyOversized == CountedSpec => []ThrowMeansOversized
<1>1. IInv => ThrowMeansOversized
  BY DEF IInv
<1>2. QED
  BY <1>1, CountedInvariance, PTL

\* For streams of counted loops nested at most four deep the core thread
\* implements the machine with unlimited memory, whatever the size of the
\* buffer and of the pipe.
THEOREM Refinement == CountedSpec => ImplementsUnlimitedMemory
<1>1. Init /\ stream \in CountedStreams => Unlimited!Init
  BY InitialState
<1>2. IInv /\ [Next]_coreVars => [Unlimited!Next]_Unlimited!ipVars
  BY NextStep
<1>3. QED
  BY <1>1, <1>2, CountedInvariance, PTL
     DEF CountedSpec, Spec, ImplementsUnlimitedMemory, Unlimited!Spec

\* While a loop is replayed, all of it is held and the pointer is inside it:
\* no replay and no inner jump reaches an overwritten or unfilled slot.
THEOREM ReplayHeld == CountedSpec => []ReplayIsHeld
<1>1. IInv => ReplayIsHeld
  <2>1. SUFFICES ASSUME IInv, Replaying, failure = "none"
                 PROVE  /\ stream[fetched].op = "IJMPNZ"
                        /\ BodyStart(stream, fetched) <= IP + 1
                        /\ IP + 1 <= fetched
                        /\ fetched - BodyStart(stream, fetched)
                              < instructionsQueued
    BY DEF ReplayIsHeld
  <2>2. /\ stream[fetched].op = "IJMPNZ"
        /\ fetched - BodyStart(stream, fetched) < instructionsQueued
    BY <2>1 DEF IInv, Running, Placed
  <2>3. IP \in Nat /\ fetched \in Nat /\ IP < fetched
        /\ BodyStart(stream, fetched) <= IP + 1
    BY <2>1, Where
  <2>4. IP + 1 <= fetched
    BY <2>3
  <2>5. QED
    BY <2>2, <2>3, <2>4
<1>2. QED
  BY <1>1, CountedInvariance, PTL

-----------------------------------------------------------------------------
(***************************************************************************)
(* What also holds after a failure.                                        *)
(***************************************************************************)
\* IInv says nothing of the flags of a thread that failed: a throw and an
\* assertion leave loopVars as the failing instruction left it.
Nested ==
    /\ FlagsAreOpen
    /\ loopNestDepth <= 4

\* While the thread runs, IInv has it.
LEMMA RunningNested == IInv /\ failure = "none" => Nested
<1>1. ASSUME IInv, failure = "none" PROVE Nested
  <2>1. FlagsAreOpen
    BY <1>1 DEF IInv, Running
  <2>2. loopNestDepth \in 0..4
    BY <1>1, Where
  <2>3. QED
    BY <2>1, <2>2 DEF Nested
<1>2. QED
  BY <1>1

\* A step that fails keeps it too.
LEMMA FailingStep ==
    ASSUME IInv, Nested, [Next]_coreVars, failure' # "none"
    PROVE  Nested'
<1>1. CASE HostWrite
  BY <1>1 DEF HostWrite
<1>2. CASE Setlc
  <2>1. failure = "none" /\ codeIn2nd' = codeIn2nd
    BY <1>2 DEF Setlc, Take
  <2>2. loopNestDepth' \in 1..4 /\ loopNestDepth \in 0..4
        /\ countSetlc \in {0, 1}
        /\ loopNestDepth' = loopNestDepth + (1 - countSetlc)
    BY <1>2, <2>1, DepthSetlc, Where
  <2>3. \A d \in Depth : codeIn2nd[d] => 1 <= d /\ d <= loopNestDepth
    BY DEF Nested, FlagsAreOpen
  <2>4. \A d \in Depth : codeIn2nd[d] => 1 <= d /\ d <= loopNestDepth'
    BY <2>2, <2>3 DEF Depth
  <2>5. FlagsAreOpen'
    BY <2>1, <2>4 DEF FlagsAreOpen, Depth
  <2>6. QED
    BY <2>2, <2>5 DEF Nested
<1>3. CASE LeaveLoop
  BY <1>3 DEF LeaveLoop, Take
<1>4. CASE RepeatLoop
  <2>1. /\ Take("IJMPNZ") /\ failure = "none"
        /\ codeIn2nd' = [codeIn2nd EXCEPT ![loopNestDepth] = TRUE]
        /\ loopNestDepth' = loopNestDepth
    BY <1>4 DEF RepeatLoop, Take
  <2>2. loopNestDepth \in 1..4
    BY <2>1, DepthTaken
  <2>3. /\ codeIn2nd \in [Depth -> BOOLEAN]
        /\ \A d \in Depth : codeIn2nd[d] => 1 <= d /\ d <= loopNestDepth
    BY <2>1, Flags
  <2>4. \A d \in Depth : codeIn2nd'[d] => codeIn2nd[d] \/ d = loopNestDepth
    BY <2>1, <2>3
  <2>5. \A d \in Depth : codeIn2nd'[d] => 1 <= d /\ d <= loopNestDepth'
    BY <2>1, <2>2, <2>3, <2>4 DEF Depth
  <2>6. FlagsAreOpen'
    BY <2>5 DEF FlagsAreOpen, Depth
  <2>7. QED
    BY <2>1, <2>2, <2>6 DEF Nested
<1>5. CASE LeaveSimple \/ RepeatSimple
  BY <1>5, NoSimpleLoop DEF LeaveSimple, RepeatSimple
<1>6. CASE Gate \/ Other \/ Quiet \/ UNCHANGED coreVars
  <2>1. UNCHANGED loopVars
    BY <1>6 DEF Gate, Other, Quiet, coreVars
  <2>2. QED
    BY <2>1 DEF loopVars, Nested, FlagsAreOpen, Depth
<1>7. QED
  BY <1>1, <1>2, <1>3, <1>4, <1>5, <1>6 DEF Next, Step

\* Nested holds in every state, the last one of a thread that failed
\* included.
THEOREM NestedAlways == CountedSpec => []Nested
<1>1. Init /\ stream \in CountedStreams => Nested
  <2>1. Init => failure = "none"
    BY DEF Init
  <2>2. QED
    BY <2>1, InitialState, RunningNested
<1>2. Nested /\ IInv /\ IInv' /\ (IInv /\ failure = "none" => Nested)'
         /\ [Next]_coreVars => Nested'
  <2>1. SUFFICES ASSUME Nested, IInv, IInv', [Next]_coreVars,
                        IInv' /\ failure' = "none" => Nested'
                 PROVE  Nested'
    OBVIOUS
  <2>2. CASE failure' = "none"
    BY <2>1, <2>2
  <2>3. CASE failure' # "none"
    BY <2>1, <2>3, FailingStep
  <2>4. QED
    BY <2>2, <2>3
<1>3. QED
  BY <1>1, <1>2, RunningNested, CountedInvariance, PTL DEF CountedSpec, Spec

\* A flag is only ever set for a loop that is still open, whatever instruction
\* the thread stops at: no flag outlives its loop.
THEOREM OpenFlags == CountedSpec => []FlagsAreOpen
<1>1. Nested => FlagsAreOpen
  BY DEF Nested
<1>2. QED
  BY <1>1, NestedAlways, PTL

\* The condition of lines 492-496 finds every loop that is being replayed:
\* with nests of at most four, the depth it does not test is the current one.
THEOREM ReplaySeen == CountedSpec => []EveryReplaySeen
<1>1. IInv /\ Nested => EveryReplaySeen
  <2>1. SUFFICES ASSUME IInv, Nested, NEW d \in Depth,
                        1 <= d, d <= loopNestDepth, codeIn2nd[d]
                 PROVE  Replaying
    BY DEF EveryReplaySeen
  <2>2. loopNestDepth \in Depth /\ loopNestDepth <= 4
    BY <2>1 DEF IInv, TypeOK, Nested
  <2>3. d = loopNestDepth \/ d \in TestedDepths
    BY <2>1, <2>2, CoreAssumption DEF Depth, TestedDepths
  <2>4. QED
    BY <2>1, <2>3 DEF Replaying
<1>2. QED
  BY <1>1, CountedInvariance, NestedAlways, PTL

\* A step of the core thread fails no assertion on the depth, if the arrays have
\* room for one depth more than the loops use.
LEMMA DepthStep ==
    ASSUME MaxDepthLoopNesting > 4, IInv, DepthAssertHolds, [Next]_coreVars
    PROVE  DepthAssertHolds'
<1>1. CASE HostWrite \/ LeaveLoop \/ LeaveSimple \/ Other
           \/ Quiet \/ UNCHANGED coreVars
  <2>1. failure' = failure
    BY <1>1 DEF HostWrite, LeaveLoop, LeaveSimple, Other, Quiet, coreVars
  <2>2. QED
    BY <2>1 DEF DepthAssertHolds
<1>2. CASE RepeatLoop \/ RepeatSimple \/ Gate
  <2>1. failure' \in {failure, "throw", "assertEnergy"}
    BY <1>2 DEF RepeatLoop, RepeatSimple, Gate, Jump
  <2>2. QED
    BY <2>1 DEF DepthAssertHolds
<1>3. CASE Setlc
  <2>1. loopNestDepth' \in 1..4
    BY <1>3, DepthSetlc
  <2>2. loopNestDepth' < MaxDepthLoopNesting
    BY <2>1, CoreAssumption
  <2>3. failure' = failure
    BY <1>3, <2>2 DEF Setlc
  <2>4. QED
    BY <2>3 DEF DepthAssertHolds
<1>4. QED
  BY <1>1, <1>2, <1>3 DEF Next, Step

\* The assertion on the nesting depth holds for streams of counted loops nested
\* at most four deep on a machine that allows five: neither the second SETLC of
\* a pair nor a loop that is entered again counts as one more.
THEOREM DepthAccepted ==
    MaxDepthLoopNesting > 4 => (CountedSpec => []DepthAssertHolds)
<1>1. SUFFICES ASSUME MaxDepthLoopNesting > 4
               PROVE  CountedSpec => []DepthAssertHolds
  OBVIOUS
<1>2. Init => DepthAssertHolds
  BY DEF Init, DepthAssertHolds
<1>3. IInv /\ DepthAssertHolds /\ [Next]_coreVars => DepthAssertHolds'
  BY <1>1, DepthStep
<1>4. QED
  BY <1>2, <1>3, CountedInvariance, PTL DEF CountedSpec, Spec

=============================================================================
