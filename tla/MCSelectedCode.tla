--------------------------- MODULE MCSelectedCode ---------------------------
(***************************************************************************)
(* Regions: the bodies of the emulations of i32 and i64, and small ones    *)
(* for REPEAT, for lane gating and for each instruction.                   *)
(***************************************************************************)
EXTENDS SelectedCode, Sequences

CONSTANTS RegisterBits, VectorLength

E32 == INSTANCE EmulatedIntegers
O   == INSTANCE Operand

\* A region of a kernel whose first instruction selects all lanes.
Region(statements, inputs) ==
    LET body == O!Appended(statements) IN
    [instructions |-> O!Appended(<<O!InAll>>) \o body, offset |-> 1, count |-> Len(body),
     inputs |-> inputs, gating |-> FALSE]

TwoOperands == {E32!SRC1, E32!SRC2}

Emulations ==
    {Region(body, TwoOperands) :
        body \in {E32!ADDi32, E32!ADDi32SettingCarry, E32!SUBi32, E32!MULTi32,
                  E32!SHLi32, E32!SHRi32, E32!SHRAi32, E32!ISHRAi32(3)}}


-----------------------------------------------------------------------------
\* REPEAT of a body: two SETLC, and the jump back over the body.
Loop(body) ==
    LET setlc == Constructed(Opcode.SETLC, 1, 0, 0)
    IN  <<setlc, setlc>> \o body \o
        <<Constructed(Opcode.IJMPNZ, Len(body), 0, 0), Constructed(Opcode.NOP, 0, 0, 0)>>

Code(statements) == O!Appended(statements)

CodeRegion(code, inputs, gating) ==
    LET prefix == Code(IF gating THEN <<O!InAll, O!Plain("enable", 0, 0, 0)>> ELSE <<O!InAll>>)
    IN  [instructions |-> prefix \o code, offset |-> 1, count |-> Len(code),
         inputs |-> inputs, gating |-> gating]

\* R5 is an accumulator, and R6 is computed in each round from what the one
\* before has left there.
Accumulate ==
    <<O!Bin("plus", 5, 5, 1), O!Bin("xor", 6, 6, 2)>>
    \o O!ExecuteWhere(O!Bin("lt", 7, 5, 2), "WHERE_LT", <<O!Bin("minus", 6, 6, 1)>>)

Looping ==
    {CodeRegion(Code(<<O!Const(5, 0), O!Const(6, 1)>>) \o Loop(Code(Accumulate))
                \o Code(<<O!Bin("or", 5, 5, 6)>>), {1, 2}, FALSE),
     CodeRegion(Loop(Code(<<O!Bin("minus", 3, 3, 1)>>)) \o
                Loop(Code(<<O!Bin("shl", 3, 3, 2), O!ShiftBits("shr", 4, 3, 1)>>)),
                {1, 2, 3}, FALSE)}

\* The lanes that a comparison has found are turned off, and on again.
Gating ==
    {CodeRegion(Code(
        <<O!Const(5, 3), O!Bin("eq", 6, 1, 2), O!NoOperation, O!Only("WHERE_EQ"),
          O!Plain("disable", 0, 0, 0), O!InAll,
          O!Bin("plus", 5, 5, 1), O!Plain("read", 6, 0, 5), O!Bin("ult", 7, 6, 2),
          O!Plain("enable", 0, 0, 0), O!Bin("and", 5, 5, 6)>>), {1, 2}, TRUE)}

Others ==
    {Region(body, {1, 2}) : body \in
        {<<O!Plain("mult", 0, 1, 2), O!Plain("multlo", 3, 0, 0), O!Plain("multhi", 4, 0, 0),
           O!Plain("mult_u", 0, 3, 4), O!Plain("multhi", 3, 0, 0), O!Reduce(3), O!ReduceU(4)>>,
         <<O!Plain("iread", 3, 0, 4), O!Bin("plus", 3, 3, 1)>>
             \o O!Moved("cellshl", 4, 3, 1) \o O!Moved("cellshr", 4, 4, 1),
         O!ExecuteWhere(O!Bin("ult", 3, 1, 2), "WHERE_CRY",
             <<O!Statement("unary", "popcnt", 1, 2, 0), O!Statement("unary", "not", 1, 1, 0),
               O!Bin("subc", 4, 1, 2)>>)}}

\* Calls that end in an assertion: a result that WRITE does not have, an
\* instruction that the switch does not know before a register that nothing has
\* set, as there is one after the IWRITE, whose node does not have its data; a
\* carry and a comparison from before the region, a WHERE left open.
Refused ==
    {Region(body, {1, 2}) : body \in
        {<<O!Plain("write", 0, 1, 2)>>,
         <<O!Statement("unary", "reverse", 3, 1, 0), O!Bin("plus", 4, 3, 5)>>,
         <<O!Plain("iwrite", 0, 1, 4), O!Bin("plus", 4, 3, 1)>>,
         <<O!Bin("addc", 3, 1, 2)>>,
         <<O!Only("WHERE_EQ"), O!Bin("plus", 3, 1, 2), O!InAll>>,
         <<O!Bin("eq", 3, 1, 2), O!NoOperation, O!Only("WHERE_EQ"), O!Bin("plus", 3, 1, 2)>>}}
    \cup {Region(E32!AddI64, TwoOperands)}

\* What the theorem about the values of nodes asks of regions.
ASSUME RegularRegions == \A r \in Emulations \cup Looping \cup Gating \cup Others : Regular(r)

AllRegions == Emulations \cup Looping \cup Gating \cup Others \cup Refused
=============================================================================
