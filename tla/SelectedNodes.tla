---------------------------- MODULE SelectedNodes ----------------------------
(***************************************************************************)
(* The files of nodes that the instruction selection of the back end       *)
(* includes.  A node is a call of getMachineNode() under a comment with    *)
(* the statement of the kernel that it stands for (core/Kernel.cpp writes  *)
(* both).                                                                  *)
(*                                                                         *)
(* A node has the opcode of the Connex, an immediate or its operands, and  *)
(* if its opcode ends in _SPECIAL the node that it is tied to.  Operands   *)
(* are nodes, by their number in the file, or values from outside.  The    *)
(* registers are those of the statement.  Every node of the files takes    *)
(* glue from the one before it, which is left out, as is the second use of *)
(* the compared value in a WHERE, and that of the sum before it in an ADDC *)
(* or SUBC: what they use is in the flags.                                 *)
(***************************************************************************)
EXTENDS Integers, Sequences

OpSrcCast1 == -1               \* nodeOpSrcCast1, the first operand
OpSrcCast2 == -2
Unnamed    == -3               \* the file names no node: SDValue(, 0)
Untied     == -4

NoRegister == -1

NodeOf(opcode, register, read, inputs, value, tied) ==
    [opcode |-> opcode, register |-> register, read |-> read, inputs |-> inputs,
     value |-> value, tied |-> tied]

Value(opcode, d, read, inputs)      == NodeOf(opcode, d, read, inputs, 0, Untied)
Tied(opcode, d, read, inputs, node) == NodeOf(opcode, d, read, inputs, 0, node)

Load(d, n)           == NodeOf("VLOAD", d, << >>, << >>, n, Untied)
TiedLoad(d, n, node) == NodeOf("VLOAD", d, << >>, << >>, n, node)

Shifted(opcode, d, a, input, n)           == NodeOf(opcode, d, <<a>>, <<input>>, n, Untied)
TiedShifted(opcode, d, a, input, n, node) == NodeOf(opcode, d, <<a>>, <<input>>, n, node)

\* Products and cells moved to other lanes.
Effect(opcode, read, inputs) == NodeOf(opcode, NoRegister, read, inputs, 0, Untied)

Plain(opcode) == NodeOf(opcode, NoRegister, << >>, << >>, 0, Untied)
Where(flag)   == Plain("WHERE_" \o flag)
EndWhere      == Plain("END_WHERE")
Nop           == Plain("NOP")

-----------------------------------------------------------------------------
(* Two f16, lane by lane: Select_ADDf16_OpincaaCodeGen.h and              *)
(* Select_MULTf16_OpincaaCodeGen.h.                                        *)

(* The sum.                                                                *)

\* Constants and the registers that only WHERE blocks set.
ADDf16From0 ==
  <<Load(14, 1), Load(30, 1), Load(31, 0), Load(29, 16), Load(28, 31),
    Load(13, 1023), Load(12, 31744), Load(11, -32768), Load(10, 1024),
    Load(62, 0), Load(19, 0)>>

ADDf16From11 ==
  <<Load(62, 0), Load(61, 0), Load(7, 0), Load(4, 0), Load(3, 0), Load(2, 0),
    Load(1, 0), Load(0, 0),
    \* The first operand: sign, exponent, mantissa with its hidden bit.
    Value("AND", 24, <<27, 11>>, <<7, OpSrcCast1>>),
    Value("AND", 25, <<27, 12>>, <<6, OpSrcCast1>>),
    Shifted("ISHR", 25, 25, 20, 10)>>

ADDf16From22 ==
  <<Value("AND", 26, <<27, 13>>, <<5, OpSrcCast1>>),
    Value("LT", 18, <<31, 26>>, <<2, 22>>),
    Value("EQ", 17, <<25, 31>>, <<21, 2>>),
    Value("AND", 9, <<17, 18>>, <<23, 24>>),
    Value("EQ", 9, <<9, 30>>, <<25, 1>>), Nop, Where("EQ"),
    TiedLoad(25, 1, 21), EndWhere, Value("EQ", 18, <<25, 28>>, <<29, 4>>),
    Value("OR", 18, <<18, 17>>, <<24, 31>>)>>

ADDf16From33 ==
  <<Value("EQ", 18, <<18, 31>>, <<32, 2>>), Nop, Where("EQ"),
    Tied("OR", 26, <<26, 10>>, <<8, 22>>, 22), EndWhere,
    \* The second operand.
    Value("AND", 20, <<23, 11>>, <<7, OpSrcCast2>>),
    Value("AND", 21, <<23, 12>>, <<6, OpSrcCast2>>),
    Shifted("ISHR", 21, 21, 39, 10),
    Value("AND", 22, <<23, 13>>, <<5, OpSrcCast2>>),
    Value("LT", 16, <<31, 22>>, <<2, 41>>),
    Value("EQ", 15, <<21, 31>>, <<40, 2>>)>>

ADDf16From44 ==
  <<Value("AND", 9, <<15, 16>>, <<42, 43>>),
    Value("EQ", 9, <<9, 30>>, <<44, 1>>), Nop, Where("EQ"),
    TiedLoad(21, 1, 40), EndWhere, Value("EQ", 16, <<21, 28>>, <<48, 4>>),
    Value("OR", 16, <<16, 15>>, <<43, 50>>),
    Value("EQ", 16, <<16, 31>>, <<51, 2>>), Nop, Where("EQ"),
    Tied("OR", 22, <<22, 10>>, <<8, 41>>, 41)>>

ADDf16From56 ==
  <<EndWhere,
    \* Results that are not numbers, and infinities.
    Value("EQ", 50, <<24, 11>>, <<19, 7>>),
    Value("EQ", 49, <<25, 28>>, <<29, 4>>),
    Value("EQ", 48, <<26, 31>>, <<36, 2>>),
    Value("EQ", 47, <<20, 11>>, <<38, 7>>),
    Value("EQ", 46, <<21, 28>>, <<48, 4>>),
    Value("EQ", 45, <<22, 31>>, <<55, 2>>),
    Value("AND", 7, <<49, 46>>, <<61, 58>>),
    Value("AND", 8, <<7, 50>>, <<57, 63>>), Value("NOT", 44, <<47>>, <<60>>),
    Value("AND", 8, <<8, 44>>, <<65, 64>>), Value("NOT", 44, <<50>>, <<57>>)>>

ADDf16From68 ==
  <<Value("AND", 44, <<44, 7>>, <<63, 67>>),
    Value("AND", 44, <<44, 47>>, <<60, 68>>),
    Value("OR", 8, <<8, 44>>, <<69, 66>>), Value("NOT", 7, <<45>>, <<62>>),
    Value("AND", 7, <<7, 46>>, <<61, 71>>),
    Value("OR", 8, <<8, 7>>, <<72, 70>>), Value("NOT", 7, <<48>>, <<59>>),
    Value("AND", 7, <<7, 49>>, <<58, 74>>),
    Value("OR", 8, <<8, 7>>, <<75, 73>>),
    Value("EQ", 9, <<8, 30>>, <<76, 1>>), Nop>>

ADDf16From79 ==
  <<Where("EQ"), TiedLoad(19, 31745, 10), TiedLoad(14, 0, 0), EndWhere,
    Value("OR", 8, <<49, 46>>, <<61, 58>>),
    Value("AND", 9, <<8, 14>>, <<81, 83>>),
    Value("EQ", 9, <<9, 30>>, <<84, 1>>), Nop, Where("EQ"),
    TiedLoad(19, 31744, 80), Tied("AND", 8, <<50, 49>>, <<58, 57>>, 83)>>

ADDf16From90 ==
  <<Tied("AND", 7, <<47, 46>>, <<61, 60>>, 75),
    Tied("OR", 8, <<8, 7>>, <<90, 89>>, 89),
    TiedShifted("ISHL", 8, 8, 91, 15, 91),
    Tied("XOR", 19, <<19, 8>>, <<92, 88>>, 88), TiedLoad(14, 0, 81),
    EndWhere,
    \* The mantissas brought to one exponent, by the difference of the two.
    Value("SUB", 15, <<25, 21>>, <<29, 48>>), Load(8, -15),
    Value("LT", 9, <<15, 8>>, <<96, 97>>),
    Value("AND", 9, <<9, 14>>, <<94, 98>>),
    Value("EQ", 9, <<9, 30>>, <<99, 1>>)>>

ADDf16From101 ==
  <<Nop, Where("EQ"), Tied("SUB", 15, <<31, 15>>, <<2, 96>>, 96),
    TiedLoad(26, 0, 36), TiedShifted("ISHL", 25, 21, 48, 0, 29),
    TiedLoad(15, 32000, 103), EndWhere, Load(8, -3),
    Value("LT", 9, <<15, 8>>, <<106, 108>>),
    Value("AND", 9, <<9, 14>>, <<94, 109>>),
    Value("EQ", 9, <<9, 30>>, <<110, 1>>)>>

ADDf16From112 ==
  <<Nop, Where("EQ"), Tied("SUB", 15, <<31, 15>>, <<2, 106>>, 106),
    Tied("SHR", 26, <<26, 15>>, <<104, 114>>, 104),
    TiedShifted("ISHL", 25, 21, 48, 0, 105), TiedLoad(15, 32000, 114),
    EndWhere, Value("LT", 9, <<15, 31>>, <<117, 2>>),
    Value("AND", 9, <<9, 14>>, <<94, 119>>),
    Value("EQ", 9, <<9, 30>>, <<120, 1>>), Nop>>

ADDf16From123 ==
  <<Where("EQ"), Tied("SUB", 15, <<31, 15>>, <<2, 117>>, 117),
    Tied("SHL", 22, <<22, 15>>, <<55, 124>>, 55),
    TiedShifted("ISHL", 21, 25, 116, 0, 48), TiedLoad(15, 32000, 124),
    EndWhere, Load(8, 4), Value("LT", 9, <<15, 8>>, <<127, 129>>),
    Value("AND", 9, <<9, 14>>, <<94, 130>>),
    Value("EQ", 9, <<9, 30>>, <<131, 1>>), Nop>>

ADDf16From134 ==
  <<Where("EQ"), Tied("SHL", 26, <<26, 15>>, <<115, 127>>, 115),
    TiedShifted("ISHL", 25, 21, 126, 0, 116), TiedLoad(15, 32000, 127),
    EndWhere, Value("LT", 9, <<15, 29>>, <<137, 3>>),
    Value("AND", 9, <<9, 14>>, <<94, 139>>),
    Value("EQ", 9, <<9, 30>>, <<140, 1>>), Nop, Where("EQ"),
    Tied("SHR", 22, <<22, 15>>, <<125, 137>>, 125)>>

ADDf16From145 ==
  <<TiedShifted("ISHL", 21, 25, 136, 0, 126), TiedLoad(15, 32000, 137),
    EndWhere, Load(8, 32), Value("LT", 9, <<15, 8>>, <<146, 148>>),
    Value("AND", 9, <<9, 14>>, <<94, 149>>),
    Value("EQ", 9, <<9, 30>>, <<150, 1>>), Nop, Where("EQ"),
    TiedLoad(22, 0, 144), TiedShifted("ISHL", 21, 25, 136, 0, 145)>>

ADDf16From156 ==
  <<EndWhere,
    \* The mantissas with their signs, and the sum.
    Value("EQ", 9, <<24, 11>>, <<19, 7>>),
    Value("AND", 9, <<9, 14>>, <<94, 157>>),
    Value("EQ", 9, <<9, 30>>, <<158, 1>>), Nop, Where("EQ"),
    Tied("SUB", 26, <<31, 26>>, <<2, 135>>, 135), EndWhere,
    Value("EQ", 9, <<20, 11>>, <<38, 7>>),
    Value("AND", 9, <<9, 14>>, <<94, 164>>),
    Value("EQ", 9, <<9, 30>>, <<165, 1>>), Nop>>

ADDf16From168 ==
  <<Where("EQ"), Tied("SUB", 22, <<31, 22>>, <<2, 154>>, 154), EndWhere,
    Value("EQ", 9, <<14, 30>>, <<94, 1>>), Nop, Where("EQ"),
    Tied("ADD", 26, <<22, 26>>, <<162, 169>>, 162), EndWhere,
    \* The sign of the sum, and its leading zeros.
    Value("AND", 24, <<26, 11>>, <<7, 174>>),
    Value("EQ", 9, <<24, 11>>, <<176, 7>>),
    Value("AND", 9, <<9, 14>>, <<94, 177>>),
    Value("EQ", 9, <<9, 30>>, <<178, 1>>)>>

ADDf16From180 ==
  <<Nop, Where("EQ"), Tied("SUB", 26, <<31, 26>>, <<2, 174>>, 174), EndWhere,
    Shifted("ISHL", 5, 26, 182, 0), Shifted("ISHR", 8, 5, 184, 1),
    Value("OR", 5, <<5, 8>>, <<185, 184>>), Shifted("ISHR", 8, 5, 186, 2),
    Value("OR", 5, <<5, 8>>, <<187, 186>>), Shifted("ISHR", 8, 5, 188, 4),
    Value("OR", 5, <<5, 8>>, <<189, 188>>)>>

ADDf16From191 ==
  <<Shifted("ISHR", 8, 5, 190, 8), Value("OR", 5, <<5, 8>>, <<191, 190>>),
    Value("NOT", 5, <<5>>, <<192>>), Value("POPCNT", 6, <<5>>, <<193>>),
    Value("SUB", 6, <<29, 6>>, <<3, 194>>),
    \* The mantissa brought to eleven bits, and what is cut off it.
    Load(8, 11), Value("SUB", 8, <<6, 8>>, <<195, 196>>),
    Value("LT", 9, <<31, 8>>, <<2, 197>>),
    Value("AND", 9, <<9, 14>>, <<94, 198>>),
    Value("EQ", 9, <<9, 30>>, <<199, 1>>), Nop>>

ADDf16From202 ==
  <<Where("EQ"), TiedShifted("ISHL", 62, 26, 182, 0, 11),
    Tied("SUB", 9, <<29, 8>>, <<3, 197>>, 200),
    Tied("SHL", 62, <<62, 9>>, <<203, 204>>, 203),
    Tied("SHR", 62, <<62, 9>>, <<205, 204>>, 205),
    TiedShifted("ISHL", 61, 8, 197, 0, 12),
    Tied("SHR", 26, <<26, 8>>, <<182, 197>>, 182),
    Tied("ADD", 25, <<8, 25>>, <<136, 197>>, 136), EndWhere,
    Value("LT", 9, <<8, 31>>, <<197, 2>>),
    Value("AND", 9, <<9, 14>>, <<94, 211>>)>>

ADDf16From213 ==
  <<Value("EQ", 9, <<9, 30>>, <<212, 1>>), Nop, Where("EQ"),
    Tied("SUB", 8, <<31, 8>>, <<2, 197>>, 197),
    Tied("SHL", 26, <<26, 8>>, <<208, 216>>, 208),
    Tied("SUB", 25, <<25, 8>>, <<209, 216>>, 209), EndWhere,
    \* An exponent below 1, and one above 30.
    Value("LT", 9, <<25, 30>>, <<218, 1>>),
    Value("AND", 9, <<9, 14>>, <<94, 220>>),
    Value("EQ", 9, <<9, 30>>, <<221, 1>>), Nop>>

ADDf16From224 ==
  <<Where("EQ"), Tied("SUB", 61, <<30, 25>>, <<1, 218>>, 207),
    TiedLoad(25, 1, 218), TiedShifted("ISHL", 62, 26, 217, 0, 206),
    Tied("SUB", 9, <<29, 61>>, <<3, 225>>, 222),
    Tied("SHL", 62, <<62, 9>>, <<227, 228>>, 227),
    Tied("SHR", 62, <<62, 9>>, <<229, 228>>, 229),
    Tied("SHR", 26, <<26, 61>>, <<217, 225>>, 217), EndWhere, Load(8, 1024),
    Value("LT", 8, <<26, 8>>, <<231, 233>>)>>

ADDf16From235 ==
  <<Value("EQ", 9, <<25, 30>>, <<226, 1>>),
    Value("AND", 9, <<9, 14>>, <<94, 235>>),
    Value("AND", 9, <<9, 8>>, <<234, 236>>),
    Value("EQ", 9, <<9, 30>>, <<237, 1>>), Nop, Where("EQ"),
    TiedLoad(25, 0, 226), EndWhere, Value("AND", 26, <<26, 13>>, <<5, 231>>),
    Load(9, 30), Value("LT", 9, <<9, 25>>, <<244, 241>>)>>

ADDf16From246 ==
  <<Value("AND", 9, <<9, 14>>, <<94, 245>>),
    Value("EQ", 9, <<9, 30>>, <<246, 1>>), Nop, Where("EQ"),
    TiedLoad(14, 0, 94), TiedLoad(19, 31744, 93),
    Tied("OR", 19, <<19, 24>>, <<176, 251>>, 251), EndWhere,
    \* The result put together and rounded.
    Value("EQ", 8, <<14, 30>>, <<250, 1>>), Nop, Where("EQ")>>

ADDf16From257 ==
  <<TiedShifted("ISHL", 19, 25, 241, 10, 252),
    Tied("OR", 19, <<19, 26>>, <<243, 257>>, 257),
    Tied("AND", 4, <<26, 30>>, <<1, 243>>, 14),
    Tied("SUB", 7, <<61, 30>>, <<225, 1>>, 90),
    Tied("SHL", 8, <<30, 8>>, <<1, 254>>, 254),
    Tied("AND", 3, <<62, 8>>, <<261, 230>>, 15),
    Tied("XOR", 62, <<62, 3>>, <<262, 230>>, 230),
    Tied("EQ", 3, <<3, 31>>, <<262, 2>>, 262),
    Tied("SUB", 3, <<30, 3>>, <<1, 264>>, 264),
    TiedShifted("ISHR", 8, 8, 261, 1, 261)>>

ADDf16From267 ==
  <<Tied("AND", 2, <<62, 8>>, <<266, 263>>, 16),
    Tied("XOR", 62, <<62, 2>>, <<267, 263>>, 263),
    Tied("EQ", 2, <<2, 31>>, <<267, 2>>, 267),
    Tied("SUB", 2, <<30, 2>>, <<1, 269>>, 269),
    Tied("EQ", 1, <<62, 31>>, <<268, 2>>, 17),
    Tied("SUB", 1, <<30, 1>>, <<1, 271>>, 271),
    Tied("OR", 0, <<4, 2>>, <<270, 259>>, 18),
    Tied("OR", 0, <<0, 1>>, <<272, 273>>, 273),
    Tied("AND", 0, <<0, 3>>, <<265, 274>>, 274),
    Tied("ADD", 19, <<0, 19>>, <<258, 275>>, 258)>>

ADDf16From277 ==
  <<Tied("OR", 19, <<19, 24>>, <<176, 276>>, 276), EndWhere>>

\* Mutant: a mantissa is shifted left by the difference of the exponents if that
\* is 4, too, which the sign bit of a cell has no room for.
ADDf16ShiftedFurther ==
    ADDf16From0 \o ADDf16From11 \o ADDf16From22 \o ADDf16From33
    \o ADDf16From44 \o ADDf16From56 \o ADDf16From68 \o ADDf16From79
    \o ADDf16From90 \o ADDf16From101 \o ADDf16From112
    \o [ADDf16From123 EXCEPT ![7].value = 5]
    \o ADDf16From134 \o ADDf16From145 \o ADDf16From156 \o ADDf16From168
    \o ADDf16From180 \o ADDf16From191 \o ADDf16From202 \o ADDf16From213
    \o ADDf16From224 \o ADDf16From235 \o ADDf16From246 \o ADDf16From257
    \o ADDf16From267 \o ADDf16From277

\* The nodes in the order of the file, which is that of their glue.
ADDf16 ==
    ADDf16From0 \o ADDf16From11 \o ADDf16From22 \o ADDf16From33
    \o ADDf16From44 \o ADDf16From56 \o ADDf16From68 \o ADDf16From79
    \o ADDf16From90 \o ADDf16From101 \o ADDf16From112 \o ADDf16From123
    \o ADDf16From134 \o ADDf16From145 \o ADDf16From156 \o ADDf16From168
    \o ADDf16From180 \o ADDf16From191 \o ADDf16From202 \o ADDf16From213
    \o ADDf16From224 \o ADDf16From235 \o ADDf16From246 \o ADDf16From257
    \o ADDf16From267 \o ADDf16From277

-----------------------------------------------------------------------------
(* The product.                                                            *)

\* Constants.
MULTf16From0 ==
  <<Load(31, 0), Load(30, 1), Load(29, 16), Load(28, 31), Load(10, 1023),
    Load(9, 31744), Load(8, -32768), Load(7, 1024), Load(55, 0), Load(0, 1),
    \* The first operand: sign, exponent, mantissa with its hidden bit.
    Value("AND", 24, <<27, 8>>, <<6, OpSrcCast1>>)>>

MULTf16From11 ==
  <<Value("AND", 25, <<27, 9>>, <<5, OpSrcCast1>>),
    Shifted("ISHR", 25, 25, 11, 10),
    Value("AND", 26, <<27, 10>>, <<4, OpSrcCast1>>),
    Value("LT", 14, <<31, 26>>, <<0, 13>>),
    Value("EQ", 13, <<25, 31>>, <<12, 0>>),
    Value("AND", 12, <<13, 14>>, <<14, 15>>),
    Value("EQ", 12, <<12, 30>>, <<16, 1>>), Nop, Where("EQ"),
    TiedLoad(25, 1, 12), EndWhere>>

MULTf16From22 ==
  <<Value("EQ", 14, <<25, 28>>, <<20, 3>>),
    Value("OR", 14, <<14, 13>>, <<15, 22>>),
    Value("EQ", 14, <<14, 31>>, <<23, 0>>), Nop, Where("EQ"),
    Tied("OR", 26, <<26, 7>>, <<7, 13>>, 13), EndWhere,
    \* The second operand.
    Value("AND", 20, <<23, 8>>, <<6, OpSrcCast2>>),
    Value("AND", 21, <<23, 9>>, <<5, OpSrcCast2>>),
    Shifted("ISHR", 21, 21, 30, 10),
    Value("AND", 22, <<23, 10>>, <<4, OpSrcCast2>>)>>

MULTf16From33 ==
  <<Value("LT", 14, <<31, 22>>, <<0, 32>>),
    Value("EQ", 13, <<21, 31>>, <<31, 0>>),
    Value("AND", 12, <<13, 14>>, <<33, 34>>),
    Value("EQ", 12, <<12, 30>>, <<35, 1>>), Nop, Where("EQ"),
    TiedLoad(21, 1, 31), EndWhere, Value("EQ", 14, <<21, 28>>, <<39, 3>>),
    Value("OR", 14, <<14, 13>>, <<34, 41>>),
    Value("EQ", 14, <<14, 31>>, <<42, 0>>), Nop>>

MULTf16From45 ==
  <<Where("EQ"), Tied("OR", 22, <<22, 7>>, <<7, 32>>, 32), EndWhere,
    \* Registers that only WHERE blocks set.
    Load(19, 31744), Value("XOR", 15, <<24, 20>>, <<29, 10>>), Load(16, 0),
    Load(18, 0), Load(17, 0), Load(54, 0), Load(60, 0), Load(59, 0)>>

MULTf16From56 ==
  <<Load(58, 0), Load(57, 0),
    \* Results that are not numbers, and infinities.
    Value("EQ", 2, <<27, 24>>, <<OpSrcCast1, 10>>),
    Value("EQ", 1, <<23, 20>>, <<OpSrcCast2, 29>>),
    Value("EQ", 36, <<25, 28>>, <<20, 3>>),
    Value("LT", 38, <<31, 26>>, <<0, 27>>),
    Value("EQ", 35, <<21, 28>>, <<39, 3>>),
    Value("LT", 37, <<31, 22>>, <<0, 46>>),
    Value("AND", 62, <<36, 38>>, <<61, 60>>),
    Value("AND", 63, <<35, 37>>, <<63, 62>>),
    Value("OR", 61, <<62, 63>>, <<65, 64>>)>>

MULTf16From67 ==
  <<Value("AND", 62, <<36, 1>>, <<59, 60>>),
    Value("AND", 63, <<35, 2>>, <<58, 62>>),
    Value("OR", 61, <<61, 62>>, <<67, 66>>),
    Value("OR", 61, <<61, 63>>, <<68, 69>>),
    Value("EQ", 3, <<61, 30>>, <<70, 1>>), Nop, Where("EQ"),
    TiedLoad(19, 31745, 48), TiedLoad(0, 0, 9), EndWhere,
    Value("OR", 39, <<36, 35>>, <<62, 60>>)>>

MULTf16From78 ==
  <<Value("EQ", 4, <<61, 31>>, <<70, 0>>),
    Value("EQ", 3, <<39, 30>>, <<77, 1>>),
    Value("AND", 3, <<3, 4>>, <<78, 79>>),
    Value("EQ", 3, <<3, 30>>, <<80, 1>>), Nop, Where("EQ"),
    Tied("OR", 19, <<19, 15>>, <<49, 74>>, 74), TiedLoad(0, 0, 75), EndWhere,
    \* The exponents added, the mantissas multiplied.
    Value("EQ", 52, <<0, 30>>, <<85, 1>>), Nop, Where("EQ")>>

MULTf16From90 ==
  <<Tied("ADD", 16, <<21, 25>>, <<20, 39>>, 50), TiedLoad(4, 15, 78),
    Tied("SUB", 16, <<16, 4>>, <<90, 91>>, 90),
    Effect("MULT", <<26, 22>>, <<27, 46>>),
    Tied("MULT_LO", 18, << >>, << >>, 51),
    Tied("MULT_HI", 17, << >>, << >>, 52), EndWhere,
    \* Leading zeros.
    Load(3, 16), Shifted("ISHL", 6, 18, 94, 0),
    Value("LT", 4, <<31, 17>>, <<0, 95>>),
    Value("AND", 52, <<4, 0>>, <<85, 99>>)>>

MULTf16From101 ==
  <<Value("EQ", 52, <<52, 30>>, <<100, 1>>), Nop, Where("EQ"),
    TiedShifted("ISHL", 6, 17, 95, 0, 98), TiedLoad(3, 32, 97), EndWhere,
    Shifted("ISHR", 4, 6, 104, 1), Value("OR", 6, <<6, 4>>, <<107, 104>>),
    Shifted("ISHR", 4, 6, 108, 2), Value("OR", 6, <<6, 4>>, <<109, 108>>),
    Shifted("ISHR", 4, 6, 110, 4)>>

MULTf16From112 ==
  <<Value("OR", 6, <<6, 4>>, <<111, 110>>), Shifted("ISHR", 4, 6, 112, 8),
    Value("OR", 6, <<6, 4>>, <<113, 112>>), Value("NOT", 6, <<6>>, <<114>>),
    Value("POPCNT", 5, <<6>>, <<115>>),
    Value("SUB", 5, <<3, 5>>, <<105, 116>>),
    \* The product brought to eleven bits, and what is cut off it.
    Load(4, 11), Value("SUB", 4, <<5, 4>>, <<117, 118>>),
    Value("LT", 12, <<4, 31>>, <<119, 0>>),
    Value("AND", 52, <<12, 0>>, <<85, 120>>),
    Value("EQ", 52, <<52, 30>>, <<121, 1>>)>>

MULTf16From123 ==
  <<Nop, Where("EQ"), Tied("SUB", 3, <<31, 4>>, <<0, 119>>, 105),
    Tied("SHL", 18, <<18, 3>>, <<94, 125>>, 94), EndWhere,
    Value("LT", 12, <<31, 4>>, <<0, 119>>),
    Value("AND", 52, <<12, 0>>, <<85, 128>>),
    Value("EQ", 52, <<52, 30>>, <<129, 1>>), Nop, Where("EQ"),
    TiedShifted("ISHL", 3, 17, 95, 0, 125)>>

MULTf16From134 ==
  <<Tied("SHR", 17, <<17, 4>>, <<95, 119>>, 95),
    TiedShifted("ISHL", 12, 4, 119, 0, 128),
    Tied("SUB", 4, <<29, 4>>, <<2, 119>>, 119),
    TiedShifted("ISHL", 55, 18, 126, 0, 8),
    Tied("SHL", 55, <<55, 4>>, <<137, 136>>, 137),
    Tied("SHR", 55, <<55, 4>>, <<138, 136>>, 138),
    TiedShifted("ISHL", 54, 12, 135, 0, 53),
    Tied("SHR", 18, <<18, 12>>, <<126, 135>>, 126),
    Tied("SHL", 3, <<3, 4>>, <<133, 136>>, 133),
    Tied("OR", 18, <<18, 3>>, <<142, 141>>, 141)>>

MULTf16From144 ==
  <<EndWhere, Value("EQ", 52, <<0, 30>>, <<85, 1>>), Nop, Where("EQ"),
    TiedLoad(4, 21, 136), Tied("SUB", 4, <<4, 5>>, <<148, 117>>, 148),
    Tied("SUB", 16, <<16, 4>>, <<92, 149>>, 92), EndWhere,
    \* An exponent below 1.
    Load(3, 15), Value("SUB", 4, <<30, 16>>, <<1, 150>>),
    Value("LT", 12, <<3, 4>>, <<152, 153>>),
    Value("AND", 52, <<12, 0>>, <<85, 154>>)>>

MULTf16From156 ==
  <<Value("EQ", 52, <<52, 30>>, <<155, 1>>), Nop, Where("EQ"),
    Tied("EQ", 54, <<55, 31>>, <<139, 0>>, 140),
    Tied("SUB", 54, <<30, 54>>, <<1, 159>>, 159),
    TiedShifted("ISHL", 55, 18, 143, 0, 139),
    Tied("OR", 55, <<55, 54>>, <<160, 161>>, 161), TiedLoad(54, 16, 160),
    TiedShifted("ISHL", 18, 17, 134, 0, 143), TiedLoad(17, 0, 134),
    Tied("SUB", 4, <<4, 29>>, <<153, 2>>, 153)>>

MULTf16From167 ==
  <<Tied("ADD", 16, <<29, 16>>, <<150, 2>>, 150), EndWhere,
    Value("LT", 12, <<3, 4>>, <<152, 166>>),
    Value("AND", 52, <<12, 0>>, <<85, 169>>),
    Value("EQ", 52, <<52, 30>>, <<170, 1>>), Nop, Where("EQ"),
    Tied("EQ", 54, <<55, 31>>, <<162, 0>>, 163),
    Tied("SUB", 54, <<30, 54>>, <<1, 174>>, 174),
    TiedShifted("ISHL", 55, 18, 164, 0, 162),
    Tied("OR", 55, <<55, 54>>, <<175, 176>>, 176)>>

MULTf16From178 ==
  <<TiedLoad(54, 16, 175), TiedLoad(18, 0, 164),
    Tied("SUB", 4, <<4, 29>>, <<166, 2>>, 166),
    Tied("ADD", 16, <<29, 16>>, <<167, 2>>, 167), EndWhere,
    Value("LT", 12, <<16, 30>>, <<181, 1>>),
    Value("AND", 52, <<12, 0>>, <<85, 183>>),
    Value("EQ", 52, <<52, 30>>, <<184, 1>>), Nop, Where("EQ"),
    Tied("SUB", 4, <<30, 16>>, <<1, 181>>, 180)>>

MULTf16From189 ==
  <<Tied("EQ", 54, <<55, 31>>, <<177, 0>>, 178),
    Tied("SUB", 54, <<30, 54>>, <<1, 189>>, 189),
    TiedShifted("ISHL", 55, 18, 179, 0, 177),
    Tied("OR", 55, <<55, 54>>, <<190, 191>>, 191),
    Tied("SUB", 3, <<29, 4>>, <<2, 188>>, 152),
    Tied("SHL", 55, <<55, 3>>, <<192, 193>>, 192),
    Tied("SHR", 55, <<55, 3>>, <<194, 193>>, 194),
    TiedShifted("ISHL", 54, 4, 188, 0, 190),
    Tied("SHR", 18, <<18, 4>>, <<179, 188>>, 179),
    TiedShifted("ISHL", 3, 17, 165, 0, 193)>>

MULTf16From199 ==
  <<Tied("SHR", 17, <<17, 4>>, <<165, 188>>, 165),
    Tied("SUB", 4, <<29, 4>>, <<2, 188>>, 188),
    Tied("SHL", 3, <<3, 4>>, <<198, 200>>, 198),
    Tied("OR", 18, <<18, 3>>, <<201, 197>>, 197), TiedLoad(16, 1, 181),
    EndWhere,
    \* An exponent above 30, and one of 0.
    Load(12, 30), Value("LT", 12, <<12, 16>>, <<205, 203>>),
    Value("AND", 52, <<12, 0>>, <<85, 206>>),
    Value("EQ", 52, <<52, 30>>, <<207, 1>>), Nop>>

MULTf16From210 ==
  <<Where("EQ"), Tied("OR", 19, <<19, 15>>, <<49, 84>>, 84),
    TiedLoad(0, 0, 85), EndWhere, Load(4, 1024),
    Value("LT", 4, <<18, 4>>, <<202, 214>>),
    Value("EQ", 12, <<16, 30>>, <<203, 1>>),
    Value("AND", 12, <<12, 4>>, <<215, 216>>),
    Value("EQ", 12, <<12, 30>>, <<217, 1>>),
    Value("AND", 52, <<12, 0>>, <<212, 218>>),
    Value("EQ", 52, <<52, 30>>, <<219, 1>>)>>

MULTf16From221 ==
  <<Nop, Where("EQ"), TiedLoad(16, 0, 203), EndWhere,
    \* Rounding.
    Value("EQ", 52, <<0, 30>>, <<212, 1>>), Nop, Where("EQ"),
    Tied("AND", 60, <<18, 30>>, <<1, 202>>, 54),
    Tied("SUB", 54, <<54, 30>>, <<196, 1>>, 196),
    Tied("SHL", 54, <<30, 54>>, <<1, 229>>, 229),
    Tied("AND", 59, <<55, 54>>, <<230, 195>>, 55)>>

MULTf16From232 ==
  <<Tied("XOR", 55, <<55, 59>>, <<231, 195>>, 195),
    Tied("EQ", 59, <<59, 31>>, <<231, 0>>, 231),
    Tied("SUB", 59, <<30, 59>>, <<1, 233>>, 233),
    Tied("EQ", 58, <<55, 31>>, <<232, 0>>, 56),
    Tied("SUB", 58, <<30, 58>>, <<1, 235>>, 235),
    Tied("OR", 57, <<58, 60>>, <<228, 236>>, 57),
    Tied("AND", 57, <<57, 59>>, <<234, 237>>, 237), EndWhere,
    \* The result put together.
    Value("EQ", 52, <<0, 30>>, <<212, 1>>), Nop, Where("EQ")>>

MULTf16From243 ==
  <<TiedShifted("ISHL", 19, 16, 223, 10, 211),
    Tied("AND", 18, <<18, 10>>, <<4, 202>>, 202),
    Tied("OR", 19, <<19, 18>>, <<244, 243>>, 243),
    Tied("ADD", 19, <<57, 19>>, <<245, 238>>, 245),
    Tied("OR", 19, <<19, 15>>, <<49, 246>>, 246), EndWhere>>

\* Mutant: half a unit is rounded down, not to an even number.
MULTf16TiesDown ==
    MULTf16From0 \o MULTf16From11 \o MULTf16From22 \o MULTf16From33
    \o MULTf16From45 \o MULTf16From56 \o MULTf16From67 \o MULTf16From78
    \o MULTf16From90 \o MULTf16From101 \o MULTf16From112 \o MULTf16From123
    \o MULTf16From134 \o MULTf16From144 \o MULTf16From156
    \o MULTf16From167 \o MULTf16From178 \o MULTf16From189
    \o MULTf16From199 \o MULTf16From210 \o MULTf16From221
    \o [MULTf16From232 EXCEPT ![6].read = <<58, 58>>, ![6].inputs = <<236, 236>>]
    \o MULTf16From243

\* The nodes in the order of the file, which is that of their glue.
MULTf16 ==
    MULTf16From0 \o MULTf16From11 \o MULTf16From22 \o MULTf16From33
    \o MULTf16From45 \o MULTf16From56 \o MULTf16From67 \o MULTf16From78
    \o MULTf16From90 \o MULTf16From101 \o MULTf16From112 \o MULTf16From123
    \o MULTf16From134 \o MULTf16From144 \o MULTf16From156
    \o MULTf16From167 \o MULTf16From178 \o MULTf16From189
    \o MULTf16From199 \o MULTf16From210 \o MULTf16From221
    \o MULTf16From232 \o MULTf16From243

-----------------------------------------------------------------------------
(* Two f32, each in two lanes, the low half first:                         *)
(* DumpISel_OpincaaCodeGen.cpp of ADDf32_manual and of MULTf32_manual.     *)

(* The sum.                                                                *)

\* Constants and the registers that only WHERE blocks set.
ADDf32From0 ==
  <<Load(14, 1), Load(30, 1), Load(31, 0), Load(29, 16), Load(28, 255),
    Load(13, 127), Load(12, 32640), Load(11, -32768), Load(10, 128),
    Load(19, 0), Load(2, 0), Load(0, 0)>>

ADDf32From12 ==
  <<Load(7, 0), Load(5, 0), Load(4, 0), Load(3, 0), Load(2, 0), Load(1, 0),
    \* The first operand: its halves, sign, exponent, mantissa with its hidden bit.
    Value("OR", 3, <<27, 27>>, <<OpSrcCast1, OpSrcCast1>>),
    Effect("CELL_SHL", <<27, 30>>, <<OpSrcCast1, 1>>), Nop,
    Value("LDSH", 27, << >>, << >>), Value("AND", 24, <<27, 11>>, <<7, 21>>),
    Value("AND", 25, <<27, 12>>, <<6, 21>>)>>

ADDf32From24 ==
  <<Shifted("ISHR", 25, 25, 23, 7), Shifted("ISHL", 26, 27, 21, 0),
    Value("LDIX", 9, << >>, << >>), Value("AND", 9, <<9, 30>>, <<1, 26>>),
    Value("EQ", 16, <<9, 31>>, <<27, 2>>), Nop, Where("EQ"),
    Tied("AND", 26, <<27, 13>>, <<5, 21>>, 25), EndWhere,
    Value("OR", 9, <<3, 26>>, <<31, 18>>),
    Value("EQ", 16, <<31, 9>>, <<2, 33>>),
    Value("SUB", 16, <<30, 16>>, <<1, 34>>)>>

ADDf32From36 ==
  <<Value("EQ", 15, <<25, 31>>, <<24, 2>>),
    Value("AND", 9, <<15, 16>>, <<35, 36>>),
    Value("EQ", 9, <<9, 30>>, <<37, 1>>), Nop, Where("EQ"),
    TiedLoad(25, 1, 24), EndWhere, Value("EQ", 16, <<25, 28>>, <<41, 4>>),
    Value("OR", 16, <<16, 15>>, <<36, 43>>),
    Value("EQ", 16, <<16, 31>>, <<44, 2>>), Nop, Where("EQ"),
    Tied("OR", 26, <<26, 10>>, <<8, 31>>, 31)>>

ADDf32From49 ==
  <<EndWhere,
    \* The second operand.
    Value("OR", 1, <<23, 23>>, <<OpSrcCast2, OpSrcCast2>>),
    Effect("CELL_SHL", <<23, 30>>, <<OpSrcCast2, 1>>), Nop,
    Value("LDSH", 23, << >>, << >>), Value("AND", 20, <<23, 11>>, <<7, 53>>),
    Value("AND", 21, <<23, 12>>, <<6, 53>>), Shifted("ISHR", 21, 21, 55, 7),
    Shifted("ISHL", 22, 23, 53, 0), Value("LDIX", 9, << >>, << >>),
    Value("AND", 9, <<9, 30>>, <<1, 58>>),
    Value("EQ", 16, <<9, 31>>, <<59, 2>>), Nop>>

ADDf32From62 ==
  <<Where("EQ"), Tied("AND", 22, <<23, 13>>, <<5, 53>>, 57), EndWhere,
    Value("OR", 9, <<1, 22>>, <<63, 50>>),
    Value("EQ", 16, <<31, 9>>, <<2, 65>>),
    Value("SUB", 16, <<30, 16>>, <<1, 66>>),
    Value("EQ", 15, <<21, 31>>, <<56, 2>>),
    Value("AND", 9, <<15, 16>>, <<67, 68>>),
    Value("EQ", 9, <<9, 30>>, <<69, 1>>), Nop, Where("EQ"),
    TiedLoad(21, 1, 56), EndWhere>>

ADDf32From75 ==
  <<Value("EQ", 16, <<21, 28>>, <<73, 4>>),
    Value("OR", 16, <<16, 15>>, <<68, 75>>),
    Value("EQ", 16, <<16, 31>>, <<76, 2>>), Nop, Where("EQ"),
    Tied("OR", 22, <<22, 10>>, <<8, 63>>, 63), EndWhere,
    \* Results that are not numbers, and infinities.
    Value("EQ", 6, <<24, 11>>, <<22, 7>>),
    Value("EQ", 18, <<25, 28>>, <<41, 4>>),
    Value("EQ", 17, <<26, 31>>, <<48, 2>>),
    Value("EQ", 8, <<31, 3>>, <<2, 18>>),
    Value("AND", 17, <<17, 8>>, <<85, 84>>)>>

ADDf32From87 ==
  <<Value("EQ", 5, <<20, 11>>, <<54, 7>>),
    Value("EQ", 16, <<21, 28>>, <<73, 4>>),
    Value("EQ", 15, <<22, 31>>, <<80, 2>>),
    Value("EQ", 8, <<31, 1>>, <<2, 50>>),
    Value("AND", 15, <<15, 8>>, <<90, 89>>),
    Value("AND", 7, <<18, 16>>, <<88, 83>>),
    Value("AND", 8, <<7, 6>>, <<82, 92>>), Value("NOT", 10, <<5>>, <<87>>),
    Value("AND", 8, <<8, 10>>, <<94, 93>>), Value("NOT", 10, <<6>>, <<82>>),
    Value("AND", 10, <<10, 7>>, <<92, 96>>),
    Value("AND", 10, <<10, 5>>, <<87, 97>>)>>

ADDf32From99 ==
  <<Value("OR", 8, <<8, 10>>, <<98, 95>>), Value("NOT", 7, <<15>>, <<91>>),
    Value("AND", 7, <<7, 16>>, <<88, 100>>),
    Value("OR", 8, <<8, 7>>, <<101, 99>>), Value("NOT", 7, <<17>>, <<86>>),
    Value("AND", 7, <<7, 18>>, <<83, 103>>),
    Value("OR", 8, <<8, 7>>, <<104, 102>>),
    Value("EQ", 9, <<8, 30>>, <<105, 1>>), Nop, Where("EQ"),
    TiedLoad(19, 32640, 9), TiedLoad(14, 0, 0), EndWhere>>

ADDf32From112 ==
  <<Value("OR", 8, <<18, 16>>, <<88, 83>>),
    Value("AND", 9, <<8, 14>>, <<110, 112>>),
    Value("EQ", 9, <<9, 30>>, <<113, 1>>), Nop, Where("EQ"),
    TiedLoad(19, 32640, 109), Tied("AND", 8, <<6, 18>>, <<83, 82>>, 112),
    Tied("AND", 7, <<5, 16>>, <<88, 87>>, 104),
    Tied("OR", 8, <<8, 7>>, <<119, 118>>, 118),
    TiedShifted("ISHL", 8, 8, 120, 15, 120)>>

ADDf32From122 ==
  <<Tied("XOR", 19, <<19, 8>>, <<121, 117>>, 117), TiedLoad(14, 0, 110),
    EndWhere,
    \* The mantissas brought to one exponent, by the difference of the two.
    Value("SUB", 15, <<25, 21>>, <<41, 73>>), Load(8, -6),
    Value("LT", 16, <<15, 8>>, <<125, 126>>), Load(8, 6),
    Value("LT", 9, <<8, 15>>, <<128, 125>>),
    Value("OR", 9, <<9, 16>>, <<127, 129>>),
    Value("AND", 9, <<9, 14>>, <<123, 130>>),
    Value("EQ", 9, <<9, 30>>, <<131, 1>>), Nop>>

ADDf32From134 ==
  <<Where("EQ"), TiedShifted("ISHR", 8, 3, 18, 10, 128),
    TiedShifted("ISHL", 3, 3, 18, 6, 18),
    TiedShifted("ISHL", 26, 26, 48, 6, 48),
    Tied("OR", 26, <<26, 8>>, <<135, 137>>, 137), TiedLoad(8, 6, 135),
    Tied("SUB", 25, <<25, 8>>, <<41, 139>>, 41),
    Tied("SUB", 21, <<21, 8>>, <<73, 139>>, 73),
    TiedShifted("ISHR", 8, 1, 50, 10, 139)>>

ADDf32From143 ==
  <<TiedShifted("ISHL", 1, 1, 50, 6, 50),
    TiedShifted("ISHL", 22, 22, 80, 6, 80),
    Tied("OR", 22, <<22, 8>>, <<142, 144>>, 144), EndWhere, Load(8, -31),
    Value("LT", 9, <<15, 8>>, <<125, 147>>),
    Value("AND", 9, <<9, 14>>, <<123, 148>>),
    Value("EQ", 9, <<9, 30>>, <<149, 1>>), Nop, Where("EQ"),
    Tied("SUB", 15, <<31, 15>>, <<2, 125>>, 125)>>

ADDf32From154 ==
  <<TiedLoad(3, 0, 136), TiedLoad(26, 0, 138),
    TiedShifted("ISHL", 25, 21, 141, 0, 140), TiedLoad(15, 32000, 153),
    EndWhere, Load(8, -15), Value("LT", 9, <<15, 8>>, <<157, 159>>),
    Value("AND", 9, <<9, 14>>, <<123, 160>>),
    Value("EQ", 9, <<9, 30>>, <<161, 1>>), Nop, Where("EQ"),
    Tied("SUB", 15, <<31, 15>>, <<2, 157>>, 157)>>

ADDf32From166 ==
  <<Tied("SUB", 15, <<15, 29>>, <<165, 3>>, 165),
    TiedShifted("ISHL", 2, 3, 154, 0, 16), TiedLoad(0, 16, 11),
    TiedShifted("ISHL", 3, 26, 155, 0, 154), TiedLoad(26, 0, 155),
    Tied("SHR", 3, <<3, 15>>, <<169, 166>>, 169),
    TiedShifted("ISHL", 25, 21, 141, 0, 156), TiedLoad(15, 32000, 166),
    EndWhere, Load(8, -6)>>

ADDf32From176 ==
  <<Value("LT", 9, <<15, 8>>, <<173, 175>>),
    Value("AND", 9, <<9, 14>>, <<123, 176>>),
    Value("EQ", 9, <<9, 30>>, <<177, 1>>), Nop, Where("EQ"),
    Tied("SUB", 15, <<31, 15>>, <<2, 173>>, 173),
    Tied("SUB", 8, <<29, 15>>, <<3, 181>>, 175),
    TiedShifted("ISHL", 2, 3, 171, 0, 167),
    Tied("SHL", 2, <<2, 8>>, <<183, 182>>, 183),
    Tied("SHR", 2, <<2, 8>>, <<184, 182>>, 184)>>

ADDf32From186 ==
  <<TiedShifted("ISHL", 0, 15, 181, 0, 168),
    Tied("SHR", 3, <<3, 15>>, <<171, 181>>, 171),
    Tied("SHL", 8, <<26, 8>>, <<170, 182>>, 182),
    Tied("OR", 3, <<3, 8>>, <<188, 187>>, 187),
    Tied("SHR", 26, <<26, 15>>, <<170, 181>>, 170),
    TiedShifted("ISHL", 25, 21, 141, 0, 172), TiedLoad(15, 32000, 181),
    EndWhere, Value("EQ", 9, <<24, 11>>, <<22, 7>>), Nop>>

ADDf32From196 ==
  <<Where("EQ"), Tied("SUB", 2, <<31, 2>>, <<2, 185>>, 185), EndWhere,
    Value("LT", 9, <<15, 31>>, <<192, 2>>),
    Value("AND", 9, <<9, 14>>, <<123, 199>>),
    Value("EQ", 9, <<9, 30>>, <<200, 1>>), Nop, Where("EQ"),
    Tied("SUB", 15, <<31, 15>>, <<2, 192>>, 192),
    Tied("SUB", 8, <<29, 15>>, <<3, 204>>, 188),
    Tied("SHR", 8, <<1, 8>>, <<143, 205>>, 205)>>

ADDf32From207 ==
  <<Tied("SHL", 1, <<1, 15>>, <<143, 204>>, 143),
    Tied("SHL", 22, <<22, 15>>, <<145, 204>>, 145),
    Tied("OR", 22, <<22, 8>>, <<206, 208>>, 208),
    TiedShifted("ISHL", 21, 25, 191, 0, 141), TiedLoad(15, 32000, 204),
    EndWhere, Load(8, 7), Value("LT", 9, <<15, 8>>, <<211, 213>>),
    Value("AND", 9, <<9, 14>>, <<123, 214>>),
    Value("EQ", 9, <<9, 30>>, <<215, 1>>), Nop>>

ADDf32From218 ==
  <<Where("EQ"), Tied("SUB", 8, <<29, 15>>, <<3, 211>>, 213),
    Tied("SHR", 8, <<3, 8>>, <<189, 219>>, 219),
    Tied("SHL", 3, <<3, 15>>, <<189, 211>>, 189),
    Tied("SHL", 26, <<26, 15>>, <<190, 211>>, 190),
    Tied("OR", 26, <<26, 8>>, <<220, 222>>, 222),
    TiedShifted("ISHL", 25, 21, 210, 0, 191), TiedLoad(15, 32000, 211),
    EndWhere, Value("LT", 9, <<15, 29>>, <<225, 3>>)>>

ADDf32From228 ==
  <<Value("AND", 9, <<9, 14>>, <<123, 227>>),
    Value("EQ", 9, <<9, 30>>, <<228, 1>>), Nop, Where("EQ"),
    Tied("SUB", 8, <<29, 15>>, <<3, 225>>, 220),
    TiedShifted("ISHL", 2, 1, 207, 0, 197),
    Tied("SHL", 2, <<2, 8>>, <<233, 232>>, 233),
    Tied("SHR", 2, <<2, 8>>, <<234, 232>>, 234),
    TiedShifted("ISHL", 0, 15, 225, 0, 186),
    Tied("SHR", 1, <<1, 15>>, <<207, 225>>, 207)>>

ADDf32From238 ==
  <<Tied("SHL", 8, <<22, 8>>, <<209, 232>>, 232),
    Tied("OR", 1, <<1, 8>>, <<238, 237>>, 237),
    Tied("SHR", 22, <<22, 15>>, <<209, 225>>, 209),
    TiedShifted("ISHL", 21, 25, 224, 0, 210), TiedLoad(15, 32001, 225),
    EndWhere, Load(16, 32001), Value("EQ", 16, <<15, 16>>, <<242, 244>>),
    Value("EQ", 9, <<20, 11>>, <<54, 7>>),
    Value("AND", 9, <<9, 16>>, <<245, 246>>),
    Value("EQ", 9, <<9, 30>>, <<247, 1>>)>>

ADDf32From249 ==
  <<Nop, Where("EQ"), Tied("SUB", 2, <<31, 2>>, <<2, 235>>, 235), EndWhere,
    Load(8, 32), Value("LT", 9, <<15, 8>>, <<242, 253>>),
    Value("AND", 9, <<9, 14>>, <<123, 254>>),
    Value("EQ", 9, <<9, 30>>, <<255, 1>>), Nop, Where("EQ"),
    Tied("SUB", 15, <<15, 29>>, <<242, 3>>, 242),
    TiedShifted("ISHL", 1, 22, 240, 0, 239)>>

ADDf32From261 ==
  <<TiedLoad(22, 0, 240), Tied("SHR", 1, <<1, 15>>, <<260, 259>>, 260),
    TiedShifted("ISHL", 21, 25, 224, 0, 241), TiedLoad(15, 32000, 259),
    EndWhere, Load(8, 256), Value("LT", 9, <<15, 8>>, <<264, 266>>),
    Value("AND", 9, <<9, 14>>, <<123, 267>>),
    Value("EQ", 9, <<9, 30>>, <<268, 1>>), Nop, Where("EQ"),
    TiedLoad(1, 0, 262)>>

ADDf32From273 ==
  <<TiedLoad(22, 0, 261), TiedShifted("ISHL", 21, 25, 224, 0, 263), EndWhere,
    \* The mantissas with their signs, and the sum.
    Value("EQ", 9, <<24, 11>>, <<22, 7>>),
    Value("AND", 9, <<9, 14>>, <<123, 276>>),
    Value("EQ", 9, <<9, 30>>, <<277, 1>>), Nop, Where("EQ"),
    Tied("SUB", 3, <<31, 3>>, <<2, 221>>, 221),
    Tied("SUBC", 26, <<31, 26>>, <<2, 223>>, 223), EndWhere,
    Value("EQ", 9, <<20, 11>>, <<54, 7>>)>>

ADDf32From285 ==
  <<Value("AND", 9, <<9, 14>>, <<123, 284>>),
    Value("EQ", 9, <<9, 30>>, <<285, 1>>), Nop, Where("EQ"),
    Tied("SUB", 1, <<31, 1>>, <<2, 272>>, 272),
    Tied("SUBC", 22, <<31, 22>>, <<2, 273>>, 273), EndWhere,
    Value("EQ", 9, <<14, 30>>, <<123, 1>>), Nop, Where("EQ"),
    Tied("ADD", 3, <<1, 3>>, <<281, 289>>, 281)>>

ADDf32From296 ==
  <<Tied("ADDC", 26, <<22, 26>>, <<290, 282>>, 282), EndWhere,
    \* The sign of the sum, and its leading zeros.
    Value("AND", 24, <<26, 11>>, <<7, 296>>),
    Value("EQ", 9, <<24, 11>>, <<298, 7>>),
    Value("AND", 9, <<9, 14>>, <<123, 299>>),
    Value("EQ", 9, <<9, 30>>, <<300, 1>>), Nop, Where("EQ"),
    Tied("SUB", 3, <<31, 3>>, <<2, 295>>, 295),
    Tied("SUBC", 26, <<31, 26>>, <<2, 296>>, 296), EndWhere,
    Value("EQ", 9, <<26, 31>>, <<305, 2>>)>>

ADDf32From308 ==
  <<Shifted("ISHL", 9, 9, 307, 3), Shifted("ISHL", 5, 3, 304, 0),
    Value("EQ", 16, <<9, 31>>, <<308, 2>>), Nop, Where("EQ"),
    TiedShifted("ISHL", 5, 26, 305, 0, 309), TiedLoad(9, -8, 308), EndWhere,
    Shifted("ISHR", 8, 5, 313, 1), Value("OR", 5, <<5, 8>>, <<316, 313>>),
    Shifted("ISHR", 8, 5, 317, 2), Value("OR", 5, <<5, 8>>, <<318, 317>>)>>

ADDf32From320 ==
  <<Shifted("ISHR", 8, 5, 319, 4), Value("OR", 5, <<5, 8>>, <<320, 319>>),
    Shifted("ISHR", 8, 5, 321, 8), Value("OR", 5, <<5, 8>>, <<322, 321>>),
    Value("NOT", 5, <<5>>, <<323>>), Value("POPCNT", 6, <<5>>, <<324>>),
    Value("ADD", 6, <<9, 6>>, <<325, 314>>),
    \* The mantissa brought to 24 bits, and what is cut off it.
    Value("SUB", 8, <<31, 6>>, <<2, 326>>), Load(9, 15),
    Value("LT", 9, <<9, 8>>, <<328, 327>>),
    Value("AND", 9, <<9, 14>>, <<123, 329>>),
    Value("EQ", 9, <<9, 30>>, <<330, 1>>)>>

ADDf32From332 ==
  <<Nop, Where("EQ"), Tied("EQ", 7, <<2, 31>>, <<251, 2>>, 119),
    Tied("SUB", 7, <<30, 7>>, <<1, 334>>, 334),
    TiedShifted("ISHL", 2, 3, 304, 0, 251),
    Tied("OR", 2, <<2, 7>>, <<335, 336>>, 336),
    Tied("EQ", 7, <<2, 31>>, <<337, 2>>, 335),
    Tied("SUB", 7, <<30, 7>>, <<1, 338>>, 338),
    TiedShifted("ISHL", 2, 26, 305, 0, 337)>>

ADDf32From341 ==
  <<Tied("OR", 2, <<2, 7>>, <<339, 340>>, 340),
    Tied("SUB", 16, <<29, 8>>, <<3, 327>>, 310),
    Tied("SHL", 2, <<2, 16>>, <<341, 342>>, 341),
    Tied("SHR", 2, <<2, 16>>, <<343, 342>>, 343),
    TiedShifted("ISHL", 0, 8, 327, 0, 236),
    Tied("SHR", 26, <<26, 8>>, <<305, 327>>, 305), TiedLoad(26, 0, 346),
    Tied("SUB", 7, <<8, 29>>, <<327, 3>>, 339),
    Tied("SHR", 3, <<3, 8>>, <<304, 327>>, 304)>>

ADDf32From350 ==
  <<Tied("ADD", 25, <<8, 25>>, <<224, 327>>, 224), EndWhere,
    Value("SUB", 9, <<30, 9>>, <<1, 331>>),
    Value("LT", 16, <<31, 8>>, <<2, 327>>),
    Value("AND", 9, <<9, 16>>, <<353, 352>>),
    Value("AND", 9, <<9, 14>>, <<123, 354>>),
    Value("EQ", 9, <<9, 30>>, <<355, 1>>), Nop, Where("EQ"),
    Tied("EQ", 7, <<2, 31>>, <<344, 2>>, 348),
    Tied("SUB", 7, <<30, 7>>, <<1, 359>>, 359)>>

ADDf32From361 ==
  <<TiedShifted("ISHL", 2, 3, 349, 0, 344),
    Tied("OR", 2, <<2, 7>>, <<360, 361>>, 361),
    Tied("SUB", 16, <<29, 8>>, <<3, 327>>, 353),
    Tied("SHL", 2, <<2, 16>>, <<362, 363>>, 362),
    Tied("SHR", 2, <<2, 16>>, <<364, 363>>, 364),
    TiedShifted("ISHL", 0, 8, 327, 0, 345),
    Tied("SHR", 3, <<3, 8>>, <<349, 327>>, 349),
    Tied("SUB", 7, <<29, 8>>, <<3, 327>>, 360)>>

ADDf32From369 ==
  <<Tied("SHL", 7, <<26, 7>>, <<347, 368>>, 368),
    Tied("OR", 3, <<3, 7>>, <<369, 367>>, 367),
    Tied("SHR", 26, <<26, 8>>, <<347, 327>>, 347),
    Tied("ADD", 25, <<8, 25>>, <<350, 327>>, 350), EndWhere, Load(7, -15),
    Value("LT", 9, <<8, 7>>, <<327, 374>>),
    Value("AND", 9, <<9, 14>>, <<123, 375>>),
    Value("EQ", 9, <<9, 30>>, <<376, 1>>), Nop, Where("EQ")>>

ADDf32From380 ==
  <<Tied("SUB", 8, <<31, 8>>, <<2, 327>>, 327),
    Tied("SUB", 7, <<8, 29>>, <<380, 3>>, 374),
    TiedShifted("ISHL", 26, 3, 370, 0, 371),
    Tied("SHL", 3, <<3, 7>>, <<370, 381>>, 370),
    Tied("SUB", 25, <<25, 8>>, <<372, 380>>, 372), EndWhere, Load(7, -16),
    Value("LT", 7, <<7, 8>>, <<386, 380>>),
    Value("LT", 9, <<8, 31>>, <<380, 2>>),
    Value("AND", 9, <<9, 14>>, <<123, 388>>)>>

ADDf32From390 ==
  <<Value("EQ", 9, <<9, 30>>, <<389, 1>>), Nop, Where("EQ"),
    Tied("SUB", 8, <<31, 8>>, <<2, 380>>, 380),
    Tied("SUB", 7, <<29, 8>>, <<3, 393>>, 387),
    Tied("SHR", 7, <<3, 7>>, <<383, 394>>, 394),
    Tied("SHL", 3, <<3, 8>>, <<383, 393>>, 383),
    Tied("SHL", 26, <<26, 8>>, <<382, 393>>, 382),
    Tied("OR", 26, <<26, 7>>, <<395, 397>>, 397),
    Tied("SUB", 25, <<25, 8>>, <<384, 393>>, 384)>>

ADDf32From400 ==
  <<EndWhere,
    \* An exponent below 1.
    Value("LT", 9, <<25, 30>>, <<399, 1>>),
    Value("AND", 9, <<9, 14>>, <<123, 401>>),
    Value("EQ", 9, <<9, 30>>, <<402, 1>>), Nop, Where("EQ"),
    Tied("SUB", 0, <<30, 25>>, <<1, 399>>, 366), TiedLoad(25, 1, 399),
    TiedShifted("ISHL", 2, 3, 396, 0, 365),
    Tied("SUB", 9, <<29, 0>>, <<3, 406>>, 403),
    Tied("SHL", 2, <<2, 9>>, <<408, 409>>, 408)>>

ADDf32From411 ==
  <<Tied("SHR", 2, <<2, 9>>, <<410, 409>>, 410),
    Tied("SHR", 3, <<3, 0>>, <<396, 406>>, 396),
    Tied("SUB", 8, <<29, 0>>, <<3, 406>>, 393),
    Tied("SHL", 8, <<26, 8>>, <<398, 413>>, 413),
    Tied("OR", 3, <<3, 8>>, <<414, 412>>, 412),
    Tied("SHR", 26, <<26, 0>>, <<398, 406>>, 398),
    Tied("EQ", 8, <<8, 31>>, <<414, 2>>, 414),
    Tied("SUB", 8, <<30, 8>>, <<1, 417>>, 417)>>

ADDf32From419 ==
  <<Tied("OR", 2, <<2, 8>>, <<418, 411>>, 411), EndWhere, Load(8, 128),
    Value("LT", 8, <<26, 8>>, <<416, 421>>),
    Value("EQ", 9, <<25, 30>>, <<407, 1>>),
    Value("AND", 9, <<9, 14>>, <<123, 423>>),
    Value("AND", 9, <<9, 8>>, <<422, 424>>),
    Value("EQ", 9, <<9, 30>>, <<425, 1>>), Nop, Where("EQ"),
    TiedLoad(25, 0, 407), EndWhere>>

ADDf32From431 ==
  <<Value("AND", 26, <<26, 13>>, <<5, 416>>),
    \* Sign, exponent and high half moved to the odd lanes.
    Effect("CELL_SHR", <<24, 30>>, <<298, 1>>), Nop,
    Value("LDSH", 24, << >>, << >>),
    Effect("CELL_SHR", <<25, 30>>, <<429, 1>>), Nop,
    Value("LDSH", 25, << >>, << >>),
    Effect("CELL_SHR", <<26, 30>>, <<431, 1>>), Nop,
    Value("LDSH", 26, << >>, << >>),
    Effect("CELL_SHR", <<14, 30>>, <<123, 1>>), Nop,
    Value("LDSH", 16, << >>, << >>),
    \* The high halves of the results.
    Value("LDIX", 17, << >>, << >>)>>

ADDf32From445 ==
  <<Value("AND", 17, <<17, 30>>, <<1, 444>>),
    Value("EQ", 17, <<17, 30>>, <<445, 1>>), Load(9, 255),
    Value("LT", 9, <<9, 25>>, <<447, 437>>),
    Value("AND", 9, <<9, 16>>, <<443, 448>>),
    Value("AND", 9, <<9, 17>>, <<446, 449>>),
    Value("EQ", 9, <<9, 30>>, <<450, 1>>), Nop, Where("EQ"),
    TiedLoad(16, -1, 443), TiedLoad(19, 32640, 122),
    Tied("OR", 19, <<19, 24>>, <<434, 455>>, 455)>>

ADDf32From457 ==
  <<EndWhere, Effect("CELL_SHL", <<16, 30>>, <<454, 1>>), Nop,
    Value("LDSH", 15, << >>, << >>), Load(8, -1),
    Value("EQ", 8, <<15, 8>>, <<460, 461>>), Nop, Where("EQ"),
    TiedLoad(19, 0, 456), TiedLoad(14, 0, 123), EndWhere,
    Value("EQ", 8, <<16, 30>>, <<454, 1>>),
    Value("AND", 8, <<8, 17>>, <<446, 468>>)>>

ADDf32From470 ==
  <<Value("EQ", 8, <<8, 30>>, <<469, 1>>), Nop, Where("EQ"),
    TiedShifted("ISHL", 19, 25, 437, 7, 465),
    Tied("OR", 19, <<19, 26>>, <<440, 473>>, 473), TiedLoad(16, -2, 454),
    Tied("OR", 19, <<19, 24>>, <<434, 474>>, 474), EndWhere,
    \* The low halves, rounded.
    Effect("CELL_SHL", <<16, 30>>, <<475, 1>>), Nop,
    Value("LDSH", 15, << >>, << >>), Load(8, -2)>>

ADDf32From482 ==
  <<Value("EQ", 8, <<15, 8>>, <<480, 481>>), Nop, Where("EQ"),
    TiedShifted("ISHL", 19, 3, 415, 0, 476),
    Tied("AND", 5, <<3, 30>>, <<1, 415>>, 324),
    Tied("SUB", 7, <<0, 30>>, <<406, 1>>, 395),
    Tied("SHL", 8, <<30, 7>>, <<1, 487>>, 482),
    Tied("AND", 4, <<2, 8>>, <<488, 419>>, 14),
    Tied("XOR", 2, <<2, 4>>, <<489, 419>>, 419)>>

ADDf32From491 ==
  <<Tied("EQ", 4, <<4, 31>>, <<489, 2>>, 489),
    Tied("SUB", 4, <<30, 4>>, <<1, 491>>, 491),
    TiedShifted("ISHR", 8, 8, 488, 1, 488),
    Tied("AND", 3, <<2, 8>>, <<493, 490>>, 415),
    Tied("XOR", 2, <<2, 3>>, <<494, 490>>, 490),
    Tied("EQ", 3, <<3, 31>>, <<494, 2>>, 494),
    Tied("SUB", 3, <<30, 3>>, <<1, 496>>, 496),
    Tied("EQ", 2, <<2, 31>>, <<495, 2>>, 495)>>

ADDf32From499 ==
  <<Tied("SUB", 2, <<30, 2>>, <<1, 498>>, 498),
    Tied("OR", 1, <<5, 3>>, <<497, 486>>, 289),
    Tied("OR", 1, <<1, 2>>, <<499, 500>>, 500),
    Tied("AND", 1, <<1, 4>>, <<492, 501>>, 501),
    Tied("ADD", 19, <<1, 19>>, <<485, 502>>, 485), EndWhere>>

\* The nodes in the order of the file, which is that of their glue.
ADDf32 ==
    ADDf32From0 \o ADDf32From12 \o ADDf32From24 \o ADDf32From36
    \o ADDf32From49 \o ADDf32From62 \o ADDf32From75 \o ADDf32From87
    \o ADDf32From99 \o ADDf32From112 \o ADDf32From122 \o ADDf32From134
    \o ADDf32From143 \o ADDf32From154 \o ADDf32From166 \o ADDf32From176
    \o ADDf32From186 \o ADDf32From196 \o ADDf32From207 \o ADDf32From218
    \o ADDf32From228 \o ADDf32From238 \o ADDf32From249 \o ADDf32From261
    \o ADDf32From273 \o ADDf32From285 \o ADDf32From296 \o ADDf32From308
    \o ADDf32From320 \o ADDf32From332 \o ADDf32From341 \o ADDf32From350
    \o ADDf32From361 \o ADDf32From369 \o ADDf32From380 \o ADDf32From390
    \o ADDf32From400 \o ADDf32From411 \o ADDf32From419 \o ADDf32From431
    \o ADDf32From445 \o ADDf32From457 \o ADDf32From470 \o ADDf32From482
    \o ADDf32From491 \o ADDf32From499

-----------------------------------------------------------------------------
(* The product.                                                            *)

\* Constants; only the even lanes go on.
MULTf32From0 ==
  <<Load(31, 0), Load(30, 1), Load(29, 16), Load(28, 255), Load(10, 127),
    Load(9, 32640), Load(8, -32768), Load(7, 128), Load(55, 0), Load(0, 1),
    Value("LDIX", 41, << >>, << >>), Value("AND", 38, <<41, 30>>, <<1, 10>>)>>

MULTf32From12 ==
  <<Value("EQ", 34, <<38, 30>>, <<11, 1>>), Nop, Where("EQ"),
    TiedLoad(0, 0, 9), EndWhere,
    \* The first operand: its halves, sign, exponent, mantissa with its hidden bit.
    Value("OR", 43, <<27, 27>>, <<OpSrcCast1, OpSrcCast1>>),
    Effect("CELL_SHL", <<27, 30>>, <<OpSrcCast1, 1>>), Nop,
    Value("LDSH", 27, << >>, << >>), Value("AND", 24, <<27, 8>>, <<6, 20>>),
    Value("AND", 25, <<27, 9>>, <<5, 20>>), Shifted("ISHR", 25, 25, 22, 7),
    Shifted("ISHL", 26, 27, 20, 0)>>

MULTf32From25 ==
  <<Value("LDIX", 12, << >>, << >>), Value("AND", 12, <<12, 30>>, <<1, 25>>),
    Value("EQ", 14, <<12, 31>>, <<26, 0>>), Nop, Where("EQ"),
    Tied("AND", 26, <<27, 10>>, <<4, 20>>, 24), EndWhere,
    Value("OR", 12, <<43, 26>>, <<30, 17>>),
    Value("EQ", 14, <<31, 12>>, <<0, 32>>),
    Value("SUB", 14, <<30, 14>>, <<1, 33>>),
    Value("EQ", 13, <<25, 31>>, <<23, 0>>),
    Value("AND", 12, <<13, 14>>, <<34, 35>>)>>

MULTf32From37 ==
  <<Value("EQ", 12, <<12, 30>>, <<36, 1>>), Nop, Where("EQ"),
    TiedLoad(25, 1, 23), EndWhere, Value("EQ", 14, <<25, 28>>, <<40, 3>>),
    Value("OR", 14, <<14, 13>>, <<35, 42>>),
    Value("EQ", 14, <<14, 31>>, <<43, 0>>), Nop, Where("EQ"),
    Tied("OR", 26, <<26, 7>>, <<7, 30>>, 30), EndWhere,
    \* The second operand.
    Value("OR", 42, <<23, 23>>, <<OpSrcCast2, OpSrcCast2>>)>>

MULTf32From50 ==
  <<Effect("CELL_SHL", <<23, 30>>, <<OpSrcCast2, 1>>), Nop,
    Value("LDSH", 23, << >>, << >>), Value("AND", 20, <<23, 8>>, <<6, 52>>),
    Value("AND", 21, <<23, 9>>, <<5, 52>>), Shifted("ISHR", 21, 21, 54, 7),
    Shifted("ISHL", 22, 23, 52, 0), Value("LDIX", 12, << >>, << >>),
    Value("AND", 12, <<12, 30>>, <<1, 57>>),
    Value("EQ", 14, <<12, 31>>, <<58, 0>>), Nop, Where("EQ")>>

MULTf32From62 ==
  <<Tied("AND", 22, <<23, 10>>, <<4, 52>>, 56), EndWhere,
    Value("OR", 12, <<42, 22>>, <<62, 49>>),
    Value("EQ", 14, <<31, 12>>, <<0, 64>>),
    Value("SUB", 14, <<30, 14>>, <<1, 65>>),
    Value("EQ", 13, <<21, 31>>, <<55, 0>>),
    Value("AND", 12, <<13, 14>>, <<66, 67>>),
    Value("EQ", 12, <<12, 30>>, <<68, 1>>), Nop, Where("EQ"),
    TiedLoad(21, 1, 55), EndWhere>>

MULTf32From74 ==
  <<Value("EQ", 14, <<21, 28>>, <<72, 3>>),
    Value("OR", 14, <<14, 13>>, <<67, 74>>),
    Value("EQ", 14, <<14, 31>>, <<75, 0>>), Nop, Where("EQ"),
    Tied("OR", 22, <<22, 7>>, <<7, 62>>, 62), EndWhere,
    \* The result and registers that only WHERE blocks set.
    Load(19, 0), Value("LDIX", 41, << >>, << >>),
    Value("AND", 38, <<41, 30>>, <<1, 82>>),
    Value("EQ", 34, <<38, 30>>, <<83, 1>>), Nop, Where("EQ")>>

MULTf32From87 ==
  <<TiedLoad(19, 32640, 81), EndWhere, Value("LDIX", 41, << >>, << >>),
    Value("AND", 38, <<41, 30>>, <<1, 89>>),
    Value("EQ", 34, <<38, 31>>, <<90, 0>>), Nop, Where("EQ"),
    Tied("XOR", 15, <<24, 20>>, <<53, 21>>, Unnamed), EndWhere, Load(16, 0),
    Load(18, 0), Load(17, 0), Load(54, 0)>>

MULTf32From100 ==
  <<Load(60, 0), Load(59, 0), Load(58, 0), Load(57, 0),
    \* Results that are not numbers, and infinities.
    Value("EQ", 2, <<27, 24>>, <<20, 21>>),
    Value("EQ", 1, <<23, 20>>, <<52, 53>>),
    Value("EQ", 36, <<25, 28>>, <<40, 3>>),
    Value("LT", 38, <<31, 26>>, <<0, 47>>),
    Value("EQ", 35, <<21, 28>>, <<72, 3>>),
    Value("LT", 37, <<31, 22>>, <<0, 79>>),
    Value("AND", 62, <<36, 38>>, <<107, 106>>),
    Value("AND", 63, <<35, 37>>, <<109, 108>>)>>

MULTf32From112 ==
  <<Value("OR", 61, <<62, 63>>, <<111, 110>>),
    Value("AND", 62, <<36, 1>>, <<105, 106>>),
    Value("AND", 63, <<35, 2>>, <<104, 108>>),
    Value("OR", 61, <<61, 62>>, <<113, 112>>),
    Value("OR", 61, <<61, 63>>, <<114, 115>>),
    Value("EQ", 3, <<61, 30>>, <<116, 1>>), Nop, Where("EQ"),
    TiedLoad(19, 1, 87), TiedLoad(0, 0, 15), EndWhere,
    Value("EQ", 3, <<61, 30>>, <<116, 1>>),
    Effect("CELL_SHR", <<3, 30>>, <<123, 1>>)>>

MULTf32From125 ==
  <<Nop, Value("LDSH", 4, << >>, << >>), Value("LDIX", 41, << >>, << >>),
    Value("AND", 38, <<41, 30>>, <<1, 127>>),
    Value("EQ", 34, <<38, 30>>, <<128, 1>>),
    Value("AND", 4, <<4, 34>>, <<129, 126>>),
    Value("EQ", 4, <<4, 30>>, <<130, 1>>), Nop, Where("EQ"),
    TiedLoad(19, 32640, 120), EndWhere,
    Value("OR", 39, <<36, 35>>, <<108, 106>>),
    Value("EQ", 4, <<61, 31>>, <<116, 0>>)>>

MULTf32From138 ==
  <<Value("EQ", 3, <<39, 30>>, <<136, 1>>),
    Value("AND", 3, <<3, 4>>, <<137, 138>>),
    Value("EQ", 3, <<3, 30>>, <<139, 1>>), Nop, Where("EQ"),
    Tied("OR", 19, <<19, 15>>, <<94, 134>>, 134), TiedLoad(0, 0, 121),
    EndWhere,
    \* The exponents added, the halves of the mantissas multiplied.
    Value("EQ", 52, <<0, 30>>, <<144, 1>>), Nop, Where("EQ"),
    Tied("ADD", 16, <<21, 25>>, <<40, 72>>, 96)>>

MULTf32From150 ==
  <<TiedLoad(4, 127, 137), Tied("SUB", 16, <<16, 4>>, <<149, 150>>, 149),
    Effect("MULT_U", <<42, 43>>, <<49, 17>>),
    Tied("MULT_LO", 18, << >>, << >>, 97),
    Tied("MULT_HI", 17, << >>, << >>, 98),
    Effect("MULT_U", <<22, 43>>, <<79, 17>>),
    Tied("MULT_LO", 33, << >>, << >>, Unnamed),
    Tied("MULT_HI", 13, << >>, << >>, 67),
    Effect("MULT_U", <<42, 26>>, <<49, 47>>),
    Tied("MULT_LO", 32, << >>, << >>, Unnamed),
    Tied("MULT_HI", 14, << >>, << >>, 76),
    Effect("MULT_U", <<22, 26>>, <<79, 47>>),
    Tied("MULT_LO", 12, << >>, << >>, 69)>>

MULTf32From163 ==
  <<Tied("ADD", 17, <<33, 17>>, <<154, 156>>, 154),
    Tied("ADDC", 4, <<31, 31>>, <<0, 0>>, 150),
    Tied("ADD", 17, <<32, 17>>, <<163, 159>>, 163),
    Tied("ADDC", 33, <<31, 31>>, <<0, 0>>, 156),
    Tied("ADD", 33, <<4, 33>>, <<166, 164>>, 166),
    Tied("ADD", 33, <<13, 33>>, <<167, 157>>, 167),
    Tied("ADD", 33, <<14, 33>>, <<168, 160>>, 168),
    Tied("ADD", 33, <<12, 33>>, <<169, 162>>, 169), EndWhere>>

\* Leading zeros.
MULTf32From172 ==
  <<Load(3, 16), Shifted("ISHL", 6, 17, 165, 0),
    Value("ULT", 4, <<31, 33>>, <<0, 170>>),
    Value("AND", 52, <<4, 0>>, <<144, 174>>),
    Value("EQ", 52, <<52, 30>>, <<175, 1>>), Nop, Where("EQ"),
    TiedShifted("ISHL", 6, 33, 170, 0, 173), TiedLoad(3, 48, 172), EndWhere,
    Shifted("ISHR", 4, 6, 179, 1), Value("OR", 6, <<6, 4>>, <<182, 179>>)>>

MULTf32From184 ==
  <<Shifted("ISHR", 4, 6, 183, 2), Value("OR", 6, <<6, 4>>, <<184, 183>>),
    Shifted("ISHR", 4, 6, 185, 4), Value("OR", 6, <<6, 4>>, <<186, 185>>),
    Shifted("ISHR", 4, 6, 187, 8), Value("OR", 6, <<6, 4>>, <<188, 187>>),
    Value("NOT", 6, <<6>>, <<189>>), Value("POPCNT", 5, <<6>>, <<190>>),
    Value("SUB", 5, <<3, 5>>, <<180, 191>>),
    \* The product brought to 24 bits, and what is cut off it.
    Load(4, 24), Value("SUB", 4, <<5, 4>>, <<192, 193>>),
    Value("LT", 12, <<4, 31>>, <<194, 0>>)>>

MULTf32From196 ==
  <<Value("AND", 52, <<12, 0>>, <<144, 195>>),
    Value("EQ", 52, <<52, 30>>, <<196, 1>>), Nop, Where("EQ"),
    Tied("SUB", 3, <<31, 4>>, <<0, 194>>, 180),
    Tied("SHL", 18, <<18, 3>>, <<153, 200>>, 153), EndWhere,
    Value("LT", 12, <<31, 4>>, <<0, 194>>),
    Value("AND", 52, <<12, 0>>, <<144, 203>>),
    Value("EQ", 52, <<52, 30>>, <<204, 1>>), Nop, Where("EQ")>>

MULTf32From208 ==
  <<TiedLoad(3, 15, 200), Tied("LT", 12, <<3, 4>>, <<208, 194>>, 203),
    Tied("LT", 14, <<16, 31>>, <<151, 0>>, 160),
    Tied("AND", 14, <<14, 12>>, <<209, 210>>, 210),
    Tied("EQ", 14, <<14, 30>>, <<211, 1>>, 211), Nop, Where("EQ"),
    TiedShifted("ISHL", 18, 17, 165, 0, 201),
    TiedShifted("ISHL", 17, 33, 170, 0, 165), TiedLoad(33, 0, 170)>>

MULTf32From218 ==
  <<EndWhere, Value("AND", 4, <<4, 3>>, <<208, 194>>),
    Shifted("ISHL", 3, 33, 217, 0),
    Value("SHR", 33, <<33, 4>>, <<217, 219>>),
    Shifted("ISHL", 53, 4, 219, 0), Value("SUB", 4, <<29, 4>>, <<2, 219>>),
    Shifted("ISHL", 55, 18, 215, 0),
    Value("SHL", 55, <<55, 4>>, <<224, 223>>),
    Value("SHR", 55, <<55, 4>>, <<225, 223>>),
    Shifted("ISHL", 54, 53, 222, 0),
    Value("SHL", 12, <<17, 4>>, <<216, 223>>),
    Value("SHR", 17, <<17, 53>>, <<216, 222>>)>>

MULTf32From230 ==
  <<Value("SHL", 3, <<3, 4>>, <<220, 223>>),
    Value("OR", 17, <<17, 3>>, <<230, 229>>),
    Value("SHR", 18, <<18, 53>>, <<215, 222>>),
    Value("OR", 18, <<18, 12>>, <<228, 232>>), EndWhere,
    Value("EQ", 52, <<0, 30>>, <<144, 1>>), Nop, Where("EQ"),
    TiedLoad(4, 47, 223), Tied("SUB", 4, <<4, 5>>, <<238, 192>>, 238),
    Tied("SUB", 16, <<16, 4>>, <<151, 239>>, 151), EndWhere>>

\* An exponent below 1.
MULTf32From242 ==
  <<Load(3, 15), Value("SUB", 4, <<30, 16>>, <<1, 240>>),
    Value("LT", 12, <<3, 4>>, <<242, 243>>),
    Value("AND", 52, <<12, 0>>, <<144, 244>>),
    Value("EQ", 52, <<52, 30>>, <<245, 1>>), Nop, Where("EQ"),
    Tied("EQ", 54, <<55, 31>>, <<226, 0>>, 227),
    Tied("SUB", 54, <<30, 54>>, <<1, 249>>, 249),
    TiedShifted("ISHL", 55, 18, 233, 0, 226),
    Tied("OR", 55, <<55, 54>>, <<250, 251>>, 251)>>

MULTf32From253 ==
  <<TiedLoad(54, 16, 250), TiedShifted("ISHL", 18, 17, 231, 0, 233),
    TiedShifted("ISHL", 17, 33, 221, 0, 231),
    Tied("SUB", 4, <<4, 29>>, <<243, 2>>, 243),
    Tied("ADD", 16, <<29, 16>>, <<240, 2>>, 240), EndWhere,
    Value("LT", 12, <<3, 4>>, <<242, 256>>),
    Value("AND", 52, <<12, 0>>, <<144, 259>>),
    Value("EQ", 52, <<52, 30>>, <<260, 1>>), Nop, Where("EQ")>>

MULTf32From264 ==
  <<Tied("EQ", 54, <<55, 31>>, <<252, 0>>, 253),
    Tied("SUB", 54, <<30, 54>>, <<1, 264>>, 264),
    TiedShifted("ISHL", 55, 18, 254, 0, 252),
    Tied("OR", 55, <<55, 54>>, <<265, 266>>, 266), TiedLoad(54, 16, 265),
    TiedLoad(18, 0, 254), Tied("SUB", 4, <<4, 29>>, <<256, 2>>, 256),
    Tied("ADD", 16, <<29, 16>>, <<257, 2>>, 257), EndWhere,
    Value("LT", 12, <<16, 30>>, <<271, 1>>)>>

MULTf32From274 ==
  <<Value("AND", 52, <<12, 0>>, <<144, 273>>),
    Value("EQ", 52, <<52, 30>>, <<274, 1>>), Nop, Where("EQ"),
    Tied("SUB", 4, <<30, 16>>, <<1, 271>>, 270),
    Tied("EQ", 54, <<55, 31>>, <<267, 0>>, 268),
    Tied("SUB", 54, <<30, 54>>, <<1, 279>>, 279),
    TiedShifted("ISHL", 55, 18, 269, 0, 267),
    TiedShifted("ISHL", 58, 54, 280, 0, 102),
    Tied("SUB", 3, <<29, 4>>, <<2, 278>>, 242)>>

MULTf32From284 ==
  <<Tied("SHL", 55, <<55, 3>>, <<281, 283>>, 281),
    Tied("SHR", 55, <<55, 3>>, <<284, 283>>, 284),
    TiedShifted("ISHL", 54, 4, 278, 0, 280),
    Tied("SHR", 18, <<18, 4>>, <<269, 278>>, 269),
    TiedShifted("ISHL", 3, 17, 255, 0, 283),
    Tied("SHR", 17, <<17, 4>>, <<255, 278>>, 255),
    Tied("SUB", 4, <<29, 4>>, <<2, 278>>, 278),
    Tied("SHL", 3, <<3, 4>>, <<288, 290>>, 288)>>

MULTf32From292 ==
  <<Tied("OR", 18, <<18, 3>>, <<291, 287>>, 287), TiedLoad(16, 1, 271),
    EndWhere,
    \* An exponent above 254, and one of 0.
    Load(12, 254), Value("LT", 12, <<12, 16>>, <<295, 293>>),
    Value("AND", 52, <<12, 0>>, <<144, 296>>),
    Value("EQ", 52, <<52, 30>>, <<297, 1>>), Nop, Where("EQ"),
    Tied("OR", 19, <<19, 15>>, <<94, 143>>, 143), TiedLoad(0, 0, 144),
    EndWhere>>

MULTf32From304 ==
  <<Load(4, 128), Value("LT", 4, <<17, 4>>, <<289, 304>>),
    Value("EQ", 12, <<16, 30>>, <<293, 1>>),
    Value("AND", 12, <<12, 4>>, <<305, 306>>),
    Value("EQ", 4, <<33, 31>>, <<221, 0>>),
    Value("AND", 12, <<12, 4>>, <<308, 307>>),
    Value("EQ", 12, <<12, 30>>, <<309, 1>>),
    Value("AND", 52, <<12, 0>>, <<302, 310>>),
    Value("EQ", 52, <<52, 30>>, <<311, 1>>), Nop, Where("EQ"),
    TiedLoad(16, 0, 293)>>

MULTf32From316 ==
  <<Tied("OR", 33, <<17, 17>>, <<289, 289>>, 221),
    Tied("OR", 17, <<18, 18>>, <<292, 292>>, 289), EndWhere,
    \* Rounding.
    Value("LT", 12, <<30, 16>>, <<1, 315>>), Nop, Where("LT"),
    TiedShifted("ISHL", 55, 18, 292, 0, 285), TiedLoad(54, 16, 286),
    TiedShifted("ISHL", 18, 17, 317, 0, 292), EndWhere,
    Value("EQ", 52, <<0, 30>>, <<302, 1>>)>>

MULTf32From327 ==
  <<Nop, Where("EQ"), Tied("AND", 60, <<18, 30>>, <<1, 324>>, 100),
    Tied("SUB", 54, <<54, 30>>, <<323, 1>>, 323),
    Tied("SHL", 54, <<30, 54>>, <<1, 330>>, 330),
    Tied("AND", 59, <<55, 54>>, <<331, 322>>, 101),
    Tied("XOR", 55, <<55, 59>>, <<332, 322>>, 322),
    Tied("EQ", 59, <<59, 31>>, <<332, 0>>, 332),
    Tied("SUB", 59, <<30, 59>>, <<1, 334>>, 334)>>

MULTf32From336 ==
  <<Tied("EQ", 55, <<55, 31>>, <<333, 0>>, 333),
    Tied("SUB", 55, <<30, 55>>, <<1, 336>>, 336),
    Tied("OR", 58, <<58, 55>>, <<337, 282>>, 282),
    Tied("OR", 57, <<58, 60>>, <<329, 338>>, 103),
    Tied("AND", 57, <<57, 59>>, <<335, 339>>, 339), EndWhere,
    \* The halves put together in their lanes.
    Shifted("ISHL", 4, 16, 315, 7),
    Effect("CELL_SHR", <<4, 30>>, <<342, 1>>), Nop,
    Value("LDSH", 4, << >>, << >>), Value("EQ", 52, <<0, 30>>, <<302, 1>>)>>

MULTf32From347 ==
  <<Nop, Where("EQ"), Tied("OR", 19, <<17, 17>>, <<317, 317>>, 301),
    EndWhere, Effect("CELL_SHR", <<33, 30>>, <<316, 1>>), Nop,
    Value("LDSH", 33, << >>, << >>),
    Effect("CELL_SHR", <<0, 30>>, <<302, 1>>), Nop,
    Value("LDSH", 52, << >>, << >>),
    Effect("CELL_SHR", <<15, 30>>, <<94, 1>>), Nop,
    Value("LDSH", 15, << >>, << >>)>>

MULTf32From360 ==
  <<Value("LDIX", 41, << >>, << >>),
    Value("AND", 38, <<41, 30>>, <<1, 360>>),
    Value("EQ", 34, <<38, 30>>, <<361, 1>>),
    Value("AND", 52, <<52, 34>>, <<362, 356>>),
    Value("EQ", 52, <<52, 30>>, <<363, 1>>), Nop, Where("EQ"),
    Tied("OR", 19, <<33, 33>>, <<353, 353>>, 349),
    Tied("AND", 19, <<19, 10>>, <<4, 367>>, 367),
    Tied("OR", 19, <<19, 4>>, <<345, 368>>, 368),
    Tied("OR", 19, <<19, 15>>, <<359, 369>>, 369)>>

MULTf32From371 ==
  <<EndWhere, Value("ADD", 19, <<57, 19>>, <<370, 340>>)>>

\* The nodes in the order of the file, which is that of their glue.
MULTf32 ==
    MULTf32From0 \o MULTf32From12 \o MULTf32From25 \o MULTf32From37
    \o MULTf32From50 \o MULTf32From62 \o MULTf32From74 \o MULTf32From87
    \o MULTf32From100 \o MULTf32From112 \o MULTf32From125
    \o MULTf32From138 \o MULTf32From150 \o MULTf32From163
    \o MULTf32From172 \o MULTf32From184 \o MULTf32From196
    \o MULTf32From208 \o MULTf32From218 \o MULTf32From230
    \o MULTf32From242 \o MULTf32From253 \o MULTf32From264
    \o MULTf32From274 \o MULTf32From284 \o MULTf32From292
    \o MULTf32From304 \o MULTf32From316 \o MULTf32From327
    \o MULTf32From336 \o MULTf32From347 \o MULTf32From360
    \o MULTf32From371

=============================================================================
