------------------------ MODULE KernelExecutionProofs ------------------------
(***************************************************************************)
(* Theorems about kernels of any statements, for vectors of any length     *)
(* with cells of any number of bits: the words are the instructions that   *)
(* were constructed, the lanes keep their types, a kernel leaves in the    *)
(* lanes what its statements mean, it stops early only where it has no     *)
(* meaning, and the answers it sends are the sums that it means.           *)
(***************************************************************************)
EXTENDS KernelExecution, ConnexVectorProofs, SequenceTheorems

-----------------------------------------------------------------------------
(***************************************************************************)
(* Opcodes by their names.                                                 *)
(***************************************************************************)
\* No two instructions share an opcode.
LEMMA OpcodesDiffer ==
    \A a, b \in DOMAIN Opcode : Opcode[a] = Opcode[b] => a = b
BY DEF Opcode

\* An opcode is among the named ones exactly if its name is.
LEMMA OpcodeAmong ==
    ASSUME NEW names, names \subseteq DOMAIN Opcode, NEW a \in DOMAIN Opcode
    PROVE  Opcode[a] \in Opcodes(names) <=> a \in names
BY OpcodesDiffer DEF Opcodes

\* What statements emit, by format.
ImmediateCodes == {"VLOAD", "IREAD", "IWRITE", "DISABLE_CELL", "ENABLE_ALL_CELLS"}

\* The instructions without an immediate that the Operand and Kernel methods construct.
RegisterCodes ==
    {"ADD", "ADDC", "SUB", "SUBC", "POPCNT", "NOT", "BIT_REVERSE", "OR", "AND", "XOR",
     "EQ", "LT", "ULT", "SHL", "SHR", "SHRA", "ISHL", "ISHR", "ISHRA", "LDIX", "LDSH",
     "CELL_SHL", "CELL_SHR", "READ", "WRITE", "MULT", "MULT_U", "MULT_LO", "MULT_HI",
     "WHERE_CRY", "WHERE_EQ", "WHERE_LT", "END_WHERE", "REDUCE", "REDUCE_U", "NOP"}

\* All of them.
Codes == ImmediateCodes \cup RegisterCodes

\* Each has a code of nine bits.
LEMMA CodesAreNames ==
    /\ Codes \subseteq DOMAIN Opcode
    /\ \A code \in Codes : Opcode[code] \in 0..511
BY DEF Opcode, Codes, ImmediateCodes, RegisterCodes

\* The instruction format that Instruction::getTypeForOpcode takes from each code.
LEMMA FormatOfCode ==
    /\ \A code \in ImmediateCodes :
           TypeForOpcode(Opcode[code]) = "with_immediate" /\ Opcode[code] \in 48..53
    /\ \A code \in RegisterCodes :
           /\ TypeForOpcode(Opcode[code]) = "no_immediate"
           /\ Opcode[code] \in 0..511 /\ (Opcode[code] \div 128) % 2 = 0
BY DEF Opcode, ImmediateCodes, RegisterCodes, TypeForOpcode, NoImmediate, WithImmediate

-----------------------------------------------------------------------------
(***************************************************************************)
(* The operands that the simulator takes from an instruction, by the name  *)
(* of its opcode.                                                          *)
(***************************************************************************)
TwoOperands ==
    {"ADD", "ADDC", "SUB", "SUBC", "OR", "AND", "XOR", "EQ", "LT", "ULT", "SHL", "SHR",
     "SHRA", "MULT", "MULT_U", "CELL_SHL", "CELL_SHR", "WRITE"}

\* The fields of the constructed instruction that its execution reads.
UsesLeft ==
    TwoOperands \cup {"POPCNT", "NOT", "BIT_REVERSE", "ISHL", "ISHR", "ISHRA", "REDUCE",
                      "REDUCE_U", "IWRITE"}

\* Those that read the right register.
UsesRight == TwoOperands \cup {"READ"}

\* Those that name the destination register.
UsesDest ==
    (TwoOperands \ {"MULT", "MULT_U", "CELL_SHL", "CELL_SHR", "WRITE"})
    \cup {"POPCNT", "NOT", "BIT_REVERSE", "ISHL", "ISHR", "ISHRA", "VLOAD", "LDIX",
          "LDSH", "MULT_LO", "MULT_HI", "READ", "IREAD"}

\* The shifts whose count is in the place of the right register.
ShiftCodes == {"ISHL", "ISHR", "ISHRA"}

\* The getters of class Instruction (getLeft(), getRight(), getDest() and
\* getValue()) return the field for each opcode that uses it, and no register
\* for an instruction with an immediate.
LEMMA GettersByCode ==
    ASSUME NEW i, NEW code \in Codes, i.opcode = Opcode[code]
    PROVE  /\ code \in UsesLeft => GetLeft(i) = i.left
           /\ code \in UsesRight => GetRight(i) = i.right
           /\ code \in UsesDest => GetDest(i) = i.dest
           /\ code \in ShiftCodes => GetValue(i) = i.right
           /\ code \notin ShiftCodes => GetValue(i) = i.value
           /\ code \in ImmediateCodes => GetRight(i) = NoRegIndex
  <1> DEFINE None == {"NOP", "WHERE_CRY", "WHERE_EQ", "WHERE_LT", "END_WHERE",
                      "DISABLE_CELL", "ENABLE_ALL_CELLS", "SETLC", "IJMPNZ", "PRINT_CHARS"}
             Only1 == {"IREAD", "VLOAD", "LDIX", "MULT_LO", "MULT_HI", "LDSH"}
             NoRight == {"REDUCE", "REDUCE_U", "SCAN", "IWRITE", "POPCNT", "NOT", "PRINT_REG"}
             NoDest == {"REDUCE", "REDUCE_U", "SCAN", "IWRITE", "WRITE", "MULT", "MULT_U",
                        "CELL_SHL", "CELL_SHR", "PRINT_REG"}
  <1>1. /\ None \subseteq DOMAIN Opcode /\ Only1 \subseteq DOMAIN Opcode
        /\ NoRight \subseteq DOMAIN Opcode /\ NoDest \subseteq DOMAIN Opcode
        /\ ShiftCodes \subseteq DOMAIN Opcode /\ {"READ"} \subseteq DOMAIN Opcode
        /\ code \in DOMAIN Opcode
    BY CodesAreNames DEF Opcode, ShiftCodes
  <1>2. /\ WithoutRegisters = Opcodes(None) /\ OnlyDest = Opcodes(Only1)
        /\ ImmediateShifts = Opcodes(ShiftCodes)
    BY DEF WithoutRegisters, OnlyDest, ImmediateShifts, ShiftCodes
  <1>3. /\ i.opcode \in Opcodes(None) <=> code \in None
        /\ i.opcode \in Opcodes(Only1) <=> code \in Only1
        /\ i.opcode \in Opcodes(NoRight) <=> code \in NoRight
        /\ i.opcode \in Opcodes(NoDest) <=> code \in NoDest
        /\ i.opcode \in Opcodes(ShiftCodes) <=> code \in ShiftCodes
        /\ i.opcode \in Opcodes({"READ"}) <=> code = "READ"
    <2> HIDE DEF None, Only1, NoRight, NoDest
    <2>1. \A names : names \subseteq DOMAIN Opcode =>
              (i.opcode \in Opcodes(names) <=> code \in names)
      BY <1>1, OpcodeAmong
    <2> QED BY <1>1, <2>1
  <1>4. GetLeft(i) = IF code \in None \/ code \in Only1 \/ code = "READ"
                     THEN NoRegIndex ELSE i.left
    <2> HIDE DEF None, Only1
    <2> QED BY <1>2, <1>3 DEF GetLeft
  <1>5. GetRight(i) = IF \/ code \in None \/ code \in Only1 \/ code \in ShiftCodes
                         \/ code \in NoRight
                      THEN NoRegIndex ELSE i.right
    <2>1. GetRight(i) = IF i.opcode \in WithoutRegisters \cup OnlyDest \cup ImmediateShifts
                                       \cup Opcodes(NoRight)
                        THEN NoRegIndex ELSE i.right
      BY DEF GetRight
    <2> HIDE DEF None, Only1, NoRight
    <2> QED BY <1>2, <1>3, <2>1
  <1>6. GetDest(i) = IF code \in None \/ code \in NoDest THEN NoRegIndex ELSE i.dest
    <2>1. GetDest(i) = IF i.opcode \in WithoutRegisters \cup Opcodes(NoDest)
                       THEN NoRegIndex ELSE i.dest
      BY DEF GetDest
    <2> HIDE DEF None, NoDest
    <2> QED BY <1>2, <1>3, <2>1
  <1>7. GetValue(i) = IF code \in ShiftCodes THEN i.right ELSE i.value
    BY <1>2, <1>3 DEF GetValue
  <1>8. code \in UsesLeft => code \notin None /\ code \notin Only1 /\ code # "READ"
    BY DEF UsesLeft, TwoOperands
  <1>9. code \in UsesRight => /\ code \notin None /\ code \notin Only1
                              /\ code \notin ShiftCodes /\ code \notin NoRight
    BY DEF UsesRight, TwoOperands, ShiftCodes
  <1>10. code \in UsesDest => code \notin None /\ code \notin NoDest
    BY DEF UsesDest, TwoOperands
  <1>11. code \in ImmediateCodes => code \in None \/ code \in Only1 \/ code \in NoRight
    BY DEF ImmediateCodes
  <1> HIDE DEF None, Only1, NoRight, NoDest
  <1> QED BY <1>4, <1>5, <1>6, <1>7, <1>8, <1>9, <1>10, <1>11

-----------------------------------------------------------------------------
(***************************************************************************)
(* Words.                                                                  *)
(***************************************************************************)
\* assemble() and Instruction(word) on an instruction with registers.
LEMMA WordOfRegisters ==
    ASSUME NEW code \in RegisterCodes, NEW right, NEW left, NEW dest
    PROVE  LET i == New(code, right, left, dest) IN
           /\ i = [type |-> "no_immediate", opcode |-> Opcode[code], value |-> Unset,
                   right |-> right, left |-> left, dest |-> dest]
           /\ Disassembled(Assembled(i)) = i
           /\ Decodable(Assembled(i))
  <1> DEFINE i == New(code, right, left, dest)
  <1>1. TypeForOpcode(Opcode[code]) = "no_immediate" /\ (Opcode[code] \div 128) % 2 = 0
    BY FormatOfCode
  <1>2. i = [type |-> "no_immediate", opcode |-> Opcode[code], value |-> Unset,
             right |-> right, left |-> left, dest |-> dest]
    BY <1>1 DEF New, Constructed
  <1> HIDE DEF i
  <1>3. Assembled(i) = [top |-> Opcode[code], middle |-> 0, low |-> right,
                        left |-> left, dest |-> dest]
    BY <1>2 DEF Assembled
  <1>4. TypeBit(Assembled(i)) = 0
    BY <1>1, <1>3 DEF TypeBit
  <1>5. Disassembled(Assembled(i)) = i
    BY <1>2, <1>3, <1>4 DEF Disassembled
  <1>6. Decodable(Assembled(i))
    BY <1>1, <1>2, <1>5 DEF Decodable
  <1> QED BY <1>2, <1>5, <1>6 DEF i

\* The immediate of an instruction: the signed number of 16 bits that an
\* int leaves, and itself if it is the number of a row.
Immediate(n) == SignExtended(n % 65536)

\* The immediate of an instruction word: sixteen bits, read back with a sign.
LEMMA SixteenBits ==
    ASSUME NEW n \in Int
    PROVE  /\ n % 65536 \in Int /\ 0 <= n % 65536 /\ n % 65536 < 65536
           /\ Immediate(n) \in Int
           /\ Immediate(n) % 65536 = n % 65536
           /\ \E k \in Int : Immediate(n) = n + 65536 * k
           /\ 0 <= n /\ n < 32768 => Immediate(n) = n
  <1>1. n % 65536 \in Int /\ 0 <= n % 65536 /\ n % 65536 < 65536
    OBVIOUS
  <1>2. 0 <= n /\ n < 32768 => n % 65536 = n
    OBVIOUS
  <1>3. n = 65536 * (n \div 65536) + (n % 65536) /\ n \div 65536 \in Int
    OBVIOUS
  <1> DEFINE b == n % 65536
             q == n \div 65536
  <1>4. \/ Immediate(n) = b /\ b < 32768
        \/ Immediate(n) = b - 65536 /\ b >= 32768
    BY <1>1 DEF Immediate, SignExtended
  <1>5. \A c \in Int : 0 <= c /\ c < 65536 => c % 65536 = c /\ (c - 65536) % 65536 = c
    OBVIOUS
  <1>6. b \in Int /\ 0 <= b /\ b < 65536 /\ n = 65536 * q + b /\ q \in Int
    BY <1>1, <1>3
  <1>7. 0 <= n /\ n < 32768 => b = n
    BY <1>2
  <1> HIDE DEF b, q
  <1>8. Immediate(n) = n + 65536 * (-q) \/ Immediate(n) = n + 65536 * (-q - 1)
    BY <1>4, <1>6
  <1>9. \E k \in Int : Immediate(n) = n + 65536 * k
    <2>1. -q \in Int /\ -q - 1 \in Int
      BY <1>6
    <2> QED BY <1>8, <2>1
  <1>10. Immediate(n) % 65536 = b /\ Immediate(n) \in Int
    BY <1>4, <1>5, <1>6
  <1>11. 0 <= n /\ n < 32768 => Immediate(n) = n
    BY <1>4, <1>6, <1>7
  <1> QED BY <1>6, <1>9, <1>10, <1>11 DEF b

\* The same for an instruction with an immediate, of which 16 bits travel, in
\* three pieces.
LEMMA WordOfImmediate ==
    ASSUME NEW code \in ImmediateCodes, NEW right \in Int, NEW left, NEW dest
    PROVE  LET i == New(code, right, left, dest) IN
           /\ i = [type |-> "with_immediate", opcode |-> Opcode[code],
                   value |-> Immediate(right), right |-> NoRegIndex,
                   left |-> left, dest |-> dest]
           /\ Disassembled(Assembled(i)) = [i EXCEPT !.right = Unset]
           /\ Decodable(Assembled(i))
  <1> DEFINE i == New(code, right, left, dest)
             bits == right % 65536
             value == Immediate(right)
  <1>1. TypeForOpcode(Opcode[code]) = "with_immediate" /\ Opcode[code] \in 48..53
    BY FormatOfCode
  <1>2. i = [type |-> "with_immediate", opcode |-> Opcode[code], value |-> value,
             right |-> NoRegIndex, left |-> left, dest |-> dest]
    BY <1>1 DEF New, Constructed, Immediate
  <1>3. value = SignExtended(bits)
    BY DEF Immediate
  <1>4. bits \in Int /\ 0 <= bits /\ bits < 65536 /\ value \in Int /\ value % 65536 = bits
    BY SixteenBits
  <1> HIDE DEF i, bits
  <1> HIDE DEF value
  <1>5. Assembled(i) = [top |-> 8 * Opcode[code] + bits \div 8192,
                        middle |-> (bits \div 32) % 256,
                        low |-> bits % 32, left |-> left, dest |-> dest]
    BY <1>2, <1>4 DEF Assembled
  <1> DEFINE top == 8 * Opcode[code] + bits \div 8192
  <1>6. (top \div 128) % 2 = 1 /\ top \div 8 = Opcode[code] /\ top % 8 = bits \div 8192
    <2>1. bits \div 8192 \in 0..7
      BY <1>4
    <2> HIDE DEF bits
    <2>2. \A o \in 48..53, b \in 0..7 :
              /\ ((8 * o + b) \div 128) % 2 = 1
              /\ (8 * o + b) \div 8 = o /\ (8 * o + b) % 8 = b
      OBVIOUS
    <2> QED BY <1>1, <2>1, <2>2
  <1> HIDE DEF top
  <1>7. TypeBit(Assembled(i)) = 1
    BY <1>5, <1>6 DEF TypeBit, top
  <1>8. (bits \div 8192) * 8192 + ((bits \div 32) % 256) * 32 + (bits % 32) = bits
    <2>1. \A b \in Int : 0 <= b /\ b < 65536 =>
              (b \div 8192) * 8192 + ((b \div 32) % 256) * 32 + (b % 32) = b
      OBVIOUS
    <2> QED BY <1>4, <2>1
  <1>9. Disassembled(Assembled(i)) =
            [type |-> "with_immediate", opcode |-> Opcode[code], value |-> value,
             right |-> Unset, left |-> left, dest |-> dest]
    <2> DEFINE w == Assembled(i)
    <2>1. /\ w.top = top /\ w.middle = (bits \div 32) % 256 /\ w.low = bits % 32
          /\ w.left = left /\ w.dest = dest
      BY <1>5 DEF top
    <2>2. TypeBit(w) # 0
      BY <1>7
    <2> HIDE DEF w
    <2>3. (w.top % 8) * 8192 + w.middle * 32 + w.low = bits
      BY <1>6, <1>8, <2>1
    <2>4. Disassembled(w) =
              [type |-> "with_immediate", opcode |-> w.top \div 8,
               value |-> SignExtended((w.top % 8) * 8192 + w.middle * 32 + w.low),
               right |-> Unset, left |-> w.left, dest |-> w.dest]
      BY <2>2 DEF Disassembled
    <2> QED BY <1>3, <1>6, <2>1, <2>3, <2>4 DEF w
  <1>10. Disassembled(Assembled(i)) = [i EXCEPT !.right = Unset]
    BY <1>2, <1>9
  <1>11. Decodable(Assembled(i))
    BY <1>1, <1>9 DEF Decodable
  <1> QED BY <1>2, <1>10, <1>11 DEF i, value

-----------------------------------------------------------------------------
(***************************************************************************)
(* An instruction whose operands exist: what Operand makes of a statement  *)
(* and the assembler has not thrown at.                                    *)
(***************************************************************************)
Fits(code, right, left, dest) ==
    /\ code \in Codes
    /\ right \in Int /\ left \in 0..31 /\ dest \in 0..31
    /\ code \in RegisterCodes => right \in 0..31
    /\ code \in UsesLeft => left \in Registers
    /\ code \in UsesRight => right \in Registers
    /\ code \in UsesDest => dest \in Registers
    /\ code \in {"IREAD", "IWRITE"} => right \in Rows

\* A row has a number that fits the immediate.
LEMMA RowNumbers ==
    \A row \in Rows : row \in Int /\ 0 <= row /\ row < 32768
BY LanesAssumption

\* The constructors accept it.
LEMMA FitsIsConstructible ==
    ASSUME NEW code, NEW right, NEW left, NEW dest, Fits(code, right, left, dest)
    PROVE  Constructible(New(code, right, left, dest))
  <1>1. CASE code \in RegisterCodes
    BY <1>1, WordOfRegisters DEF Constructible, Fits
  <1>2. CASE code \in ImmediateCodes
    BY <1>2, WordOfImmediate DEF Constructible, Fits
  <1> QED BY <1>1, <1>2 DEF Fits, Codes

\* What executeInstruction() sees of its word: the opcode and the operands that
\* it uses.
LEMMA SeenInWord ==
    ASSUME NEW code, NEW right, NEW left, NEW dest, Fits(code, right, left, dest),
           NEW i, i = Disassembled(Assembled(New(code, right, left, dest)))
    PROVE  /\ Decodable(Assembled(New(code, right, left, dest)))
           /\ Presented(i) = Presented(New(code, right, left, dest))
           /\ i.opcode = Opcode[code]
           /\ code \in UsesLeft => GetLeft(i) = left
           /\ code \in UsesRight => GetRight(i) = right
           /\ code \in UsesDest => GetDest(i) = dest
           /\ code \in ShiftCodes \cup {"IREAD", "IWRITE"} => GetValue(i) = right
           /\ code = "VLOAD" => GetValue(i) = Immediate(right)
  <1> DEFINE n == New(code, right, left, dest)
  <1>1. code \in Codes /\ right \in Int
    BY DEF Fits
  <1>2. CASE code \in RegisterCodes
    <2>1. i = n /\ Decodable(Assembled(n))
      BY <1>2, WordOfRegisters
    <2>2. i.opcode = Opcode[code] /\ i.left = left /\ i.right = right /\ i.dest = dest
      BY <1>2, WordOfRegisters
    <2>3. code \notin {"IREAD", "IWRITE", "VLOAD"}
      BY <1>2 DEF RegisterCodes
    <2> HIDE DEF n
    <2>4. /\ code \in UsesLeft => GetLeft(i) = i.left
          /\ code \in UsesRight => GetRight(i) = i.right
          /\ code \in UsesDest => GetDest(i) = i.dest
          /\ code \in ShiftCodes => GetValue(i) = i.right
      BY <1>1, <2>2, GettersByCode
    <2> QED BY <2>1, <2>2, <2>3, <2>4 DEF n
  <1>3. CASE code \in ImmediateCodes
    <2>1. i = [n EXCEPT !.right = Unset] /\ Decodable(Assembled(n))
      BY <1>1, <1>3, WordOfImmediate
    <2>2. n = [type |-> "with_immediate", opcode |-> Opcode[code],
               value |-> Immediate(right), right |-> NoRegIndex,
               left |-> left, dest |-> dest]
      BY <1>1, <1>3, WordOfImmediate
    <2> HIDE DEF n
    <2>3. /\ i.opcode = Opcode[code] /\ i.left = left /\ i.dest = dest
          /\ i.value = Immediate(right)
      BY <2>1, <2>2
    <2>4. /\ n.opcode = Opcode[code] /\ n.left = left /\ n.dest = dest
          /\ n.value = Immediate(right)
      BY <2>2
    <2>5. code \notin ShiftCodes /\ code \notin UsesRight
      BY <1>3 DEF ImmediateCodes, ShiftCodes, UsesRight, TwoOperands
    <2>6. \A j \in {i, n} :
              /\ code \in UsesLeft => GetLeft(j) = left
              /\ code \in UsesDest => GetDest(j) = dest
              /\ GetValue(j) = Immediate(right)
              /\ GetRight(j) = NoRegIndex
      BY <1>1, <1>3, <2>3, <2>4, <2>5, GettersByCode
    <2>7. GetLeft(i) = GetLeft(n) /\ GetDest(i) = GetDest(n)
      BY <2>3, <2>4 DEF GetLeft, GetDest
    <2>8. Presented(i) = Presented(n)
      BY <2>3, <2>4, <2>6, <2>7 DEF Presented
    <2>9. code \in {"IREAD", "IWRITE"} => Immediate(right) = right
      BY RowNumbers, SixteenBits, <1>1 DEF Fits
    <2> QED BY <2>1, <2>3, <2>5, <2>6, <2>8, <2>9 DEF n
  <1> QED BY <1>1, <1>2, <1>3 DEF Codes

-----------------------------------------------------------------------------
(***************************************************************************)
(* What a statement appends.                                               *)
(***************************************************************************)
\* operator= gives an instruction its destination, unless it is a product.
LEMMA AssignedInstruction ==
    ASSUME NEW code \in Codes, code # "MULT", NEW right, NEW left, NEW dest, NEW d
    PROVE  AssignInstruction(d, New(code, right, left, dest)) = <<New(code, right, left, d)>>
  <1>1. code \in DOMAIN Opcode /\ "MULT" \in DOMAIN Opcode
    BY CodesAreNames DEF Opcode
  <1>2. Opcode[code] # Opcode.MULT
    BY <1>1, OpcodesDiffer
  <1>3. New(code, right, left, dest).opcode = Opcode[code]
    BY DEF New, Constructed
  <1>4. [New(code, right, left, dest) EXCEPT !.dest = d] = New(code, right, left, d)
    BY DEF New, Constructed
  <1> QED BY <1>2, <1>3, <1>4 DEF AssignInstruction

\* operator*, which has appended the product, leaves its low half to be assigned.
LEMMA AssignedProduct ==
    ASSUME NEW d, NEW a, NEW b
    PROVE  AssignInstruction(d, Multiply(a, b)) = <<New("MULT_LO", 0, 0, d)>>
BY DEF AssignInstruction, Multiply, New, Constructed

\* The first operand of an operator, which `update' assigns to.
FirstOf(st) == IF st.form = "update" THEN st.d ELSE st.a

\* The instruction that each operator and macro of Operand.cpp and Kernel.h
\* appends for its statement.
LEMMA EmittedByForm ==
    ASSUME NEW st, Written(st)
    PROVE
    /\ st.form \in {"binary", "update"} =>
           Emitted(st) = <<IF st.op \in {"plus", "addc"}
                           THEN New(CodeOf[st.op], FirstOf(st), st.b, st.d)
                           ELSE New(CodeOf[st.op], st.b, FirstOf(st), st.d)>>
    /\ st.form = "unary" => Emitted(st) = <<New(CodeOfUnary[st.op], 0, st.a, st.d)>>
    /\ st.form = "shift" => Emitted(st) = <<New(CodeOfShift[st.op], st.b, st.a, st.d)>>
    /\ st.form = "product" =>
           Emitted(st) = <<New("MULT", st.b, st.a, 0), New("MULT_LO", 0, 0, st.d)>>
    /\ st.form = "copy" => Emitted(st) = <<New("ISHL", 0, st.a, st.d)>>
    /\ st.form = "const" => Emitted(st) = <<New("VLOAD", st.b, 0, st.d)>>
    /\ st.form = "index" => Emitted(st) = <<New("LDIX", 0, 0, st.d)>>
    /\ st.form = "shiftreg" => Emitted(st) = <<New("LDSH", 0, 0, st.d)>>
    /\ st.form = "read" => Emitted(st) = <<New("READ", st.b, 0, st.d)>>
    /\ st.form = "iread" => Emitted(st) = <<New("IREAD", st.b, 0, st.d)>>
    /\ st.form = "write" => Emitted(st) = <<New("WRITE", st.b, st.a, 0)>>
    /\ st.form = "iwrite" => Emitted(st) = <<New("IWRITE", st.b, st.a, 0)>>
    /\ st.form = "mult" => Emitted(st) = <<New("MULT", st.b, st.a, 0)>>
    /\ st.form = "mult_u" => Emitted(st) = <<New("MULT_U", st.b, st.a, 0)>>
    /\ st.form = "multlo" => Emitted(st) = <<New("MULT_LO", 0, 0, st.d)>>
    /\ st.form = "multhi" => Emitted(st) = <<New("MULT_HI", 0, 0, st.d)>>
    /\ st.form = "cellshl" => Emitted(st) = <<New("CELL_SHL", st.b, st.a, 0)>>
    /\ st.form = "cellshr" => Emitted(st) = <<New("CELL_SHR", st.b, st.a, 0)>>
    /\ st.form = "reduce" => Emitted(st) = <<New("REDUCE", 0, st.a, 0)>>
    /\ st.form = "reduce_u" => Emitted(st) = <<New("REDUCE_U", 0, st.a, 0)>>
    /\ st.form = "in_all" => Emitted(st) = <<New("END_WHERE", 0, 0, 0)>>
    /\ st.form = "where" => Emitted(st) = <<New(st.op, 0, 0, 0)>>
    /\ st.form = "disable" => Emitted(st) = <<New("DISABLE_CELL", 0, 0, 0)>>
    /\ st.form = "enable" => Emitted(st) = <<New("ENABLE_ALL_CELLS", 0, 0, 0)>>
    /\ st.form = "nop" => Emitted(st) = <<New("NOP", 0, 0, 0)>>
  <1>1. st.form \in {"binary", "update"} =>
           Emitted(st) = <<IF st.op \in {"plus", "addc"}
                           THEN New(CodeOf[st.op], FirstOf(st), st.b, st.d)
                           ELSE New(CodeOf[st.op], st.b, FirstOf(st), st.d)>>
    <2>1. ASSUME st.form \in {"binary", "update"} PROVE st.op \in DOMAIN CodeOf
      BY <2>1 DEF Written
    <2>2. ASSUME st.op \in DOMAIN CodeOf PROVE CodeOf[st.op] \in Codes /\ CodeOf[st.op] # "MULT"
      BY <2>2 DEF CodeOf, Codes, RegisterCodes
    <2>3. CASE st.form = "binary"
      <3>1. Emitted(st) = AssignInstruction(st.d, Binary(st.op, st.a, st.b, 0))
        BY <2>3 DEF Emitted
      <3>2. FirstOf(st) = st.a
        BY <2>3 DEF FirstOf
      <3>3. CASE st.op \in {"plus", "addc"}
        <4>1. Binary(st.op, st.a, st.b, 0) = New(CodeOf[st.op], st.a, st.b, 0)
          BY <3>3 DEF Binary
        <4> QED BY <2>1, <2>2, <2>3, <3>1, <3>2, <3>3, <4>1, AssignedInstruction
      <3>4. CASE st.op \notin {"plus", "addc"}
        <4>1. Binary(st.op, st.a, st.b, 0) = New(CodeOf[st.op], st.b, st.a, 0)
          BY <3>4 DEF Binary
        <4> QED BY <2>1, <2>2, <2>3, <3>1, <3>2, <3>4, <4>1, AssignedInstruction
      <3> QED BY <3>3, <3>4
    <2>4. CASE st.form = "update"
      <3>1. Emitted(st) = <<Binary(st.op, st.d, st.b, st.d)>>
        BY <2>4 DEF Emitted
      <3>2. FirstOf(st) = st.d
        BY <2>4 DEF FirstOf
      <3> QED BY <3>1, <3>2 DEF Binary
    <2> QED BY <2>3, <2>4
  <1>2. st.form = "unary" => Emitted(st) = <<New(CodeOfUnary[st.op], 0, st.a, st.d)>>
    <2> HAVE st.form = "unary"
    <2>1. CodeOfUnary[st.op] \in Codes /\ CodeOfUnary[st.op] # "MULT"
      BY DEF Written, CodeOfUnary, Codes, RegisterCodes
    <2>2. Emitted(st) = AssignInstruction(st.d, New(CodeOfUnary[st.op], 0, st.a, 0))
      BY DEF Emitted
    <2> QED BY <2>1, <2>2, AssignedInstruction
  <1>3. st.form = "shift" => Emitted(st) = <<New(CodeOfShift[st.op], st.b, st.a, st.d)>>
    <2> HAVE st.form = "shift"
    <2>1. CodeOfShift[st.op] \in Codes /\ CodeOfShift[st.op] # "MULT"
      BY DEF Written, CodeOfShift, Codes, RegisterCodes
    <2>2. Emitted(st) = AssignInstruction(st.d, New(CodeOfShift[st.op], st.b, st.a, 0))
      BY DEF Emitted
    <2> QED BY <2>1, <2>2, AssignedInstruction
  <1>4. st.form = "product" =>
           Emitted(st) = <<New("MULT", st.b, st.a, 0), New("MULT_LO", 0, 0, st.d)>>
    <2> HAVE st.form = "product"
    <2>1. Emitted(st) = <<Multiply(st.a, st.b)>>
                        \o AssignInstruction(st.d, Multiply(st.a, st.b))
      BY DEF Emitted
    <2>2. Emitted(st) = <<Multiply(st.a, st.b)>> \o <<New("MULT_LO", 0, 0, st.d)>>
      BY <2>1, AssignedProduct
    <2>3. ASSUME NEW x, NEW y PROVE <<x>> \o <<y>> = <<x, y>>
      <3> DEFINE S == {x, y}
      <3>1. <<x>> \in Seq(S) /\ <<y>> \in Seq(S) /\ <<x, y>> \in Seq(S)
        OBVIOUS
      <3>2. /\ Len(<<x>>) = 1 /\ Len(<<y>>) = 1 /\ Len(<<x, y>>) = 2
            /\ <<x>>[1] = x /\ <<y>>[1] = y /\ <<x, y>>[1] = x /\ <<x, y>>[2] = y
        OBVIOUS
      <3> DEFINE s == <<x>>  t == <<y>>  u == <<x, y>>
      <3> HIDE DEF S, s, t, u
      <3>3. /\ s \o t \in Seq(S) /\ Len(s \o t) = 2
            /\ \A i \in 1..2 : (s \o t)[i] = u[i]
        BY <3>1, <3>2, ConcatProperties DEF s, t, u
      <3> QED BY <3>1, <3>2, <3>3, SeqEqual DEF s, t, u
    <2> QED BY <2>2, <2>3 DEF Multiply
  <1>5. st.form = "copy" => Emitted(st) = <<New("ISHL", 0, st.a, st.d)>>
    BY DEF Emitted
  <1>6. st.form = "const" => Emitted(st) = <<New("VLOAD", st.b, 0, st.d)>>
    BY DEF Emitted
  <1>7. st.form = "index" => Emitted(st) = <<New("LDIX", 0, 0, st.d)>>
    BY DEF Emitted
  <1>8. st.form = "shiftreg" => Emitted(st) = <<New("LDSH", 0, 0, st.d)>>
    BY DEF Emitted
  <1>9. st.form = "read" => Emitted(st) = <<New("READ", st.b, 0, st.d)>>
    BY DEF Emitted
  <1>10. st.form = "iread" => Emitted(st) = <<New("IREAD", st.b, 0, st.d)>>
    BY DEF Emitted
  <1>11. st.form = "write" => Emitted(st) = <<New("WRITE", st.b, st.a, 0)>>
    BY DEF Emitted
  <1>12. st.form = "iwrite" => Emitted(st) = <<New("IWRITE", st.b, st.a, 0)>>
    BY DEF Emitted
  <1>13. st.form = "mult" => Emitted(st) = <<New("MULT", st.b, st.a, 0)>>
    BY DEF Emitted, Multiply
  <1>14. st.form = "mult_u" => Emitted(st) = <<New("MULT_U", st.b, st.a, 0)>>
    BY DEF Emitted
  <1>15. st.form = "multlo" => Emitted(st) = <<New("MULT_LO", 0, 0, st.d)>>
    <2> HAVE st.form = "multlo"
    <2>1. Emitted(st) = AssignInstruction(st.d, New("MULT_LO", 0, 0, 0))
      BY DEF Emitted
    <2>2. "MULT_LO" \in Codes
      BY DEF Codes, RegisterCodes
    <2> QED BY <2>1, <2>2, AssignedInstruction
  <1>16. st.form = "multhi" => Emitted(st) = <<New("MULT_HI", 0, 0, st.d)>>
    <2> HAVE st.form = "multhi"
    <2>1. Emitted(st) = AssignInstruction(st.d, New("MULT_HI", 0, 0, 0))
      BY DEF Emitted
    <2>2. "MULT_HI" \in Codes
      BY DEF Codes, RegisterCodes
    <2> QED BY <2>1, <2>2, AssignedInstruction
  <1>17. st.form = "cellshl" => Emitted(st) = <<New("CELL_SHL", st.b, st.a, 0)>>
    BY DEF Emitted
  <1>18. st.form = "cellshr" => Emitted(st) = <<New("CELL_SHR", st.b, st.a, 0)>>
    BY DEF Emitted
  <1>19. st.form = "reduce" => Emitted(st) = <<New("REDUCE", 0, st.a, 0)>>
    BY DEF Emitted
  <1>20. st.form = "reduce_u" => Emitted(st) = <<New("REDUCE_U", 0, st.a, 0)>>
    BY DEF Emitted
  <1>21. st.form = "in_all" => Emitted(st) = <<New("END_WHERE", 0, 0, 0)>>
    BY DEF Emitted
  <1>22. st.form = "where" => Emitted(st) = <<New(st.op, 0, 0, 0)>>
    BY DEF Emitted
  <1>23. st.form = "disable" => Emitted(st) = <<New("DISABLE_CELL", 0, 0, 0)>>
    BY DEF Emitted
  <1>24. st.form = "enable" => Emitted(st) = <<New("ENABLE_ALL_CELLS", 0, 0, 0)>>
    BY DEF Emitted
  <1>25. st.form = "nop" => Emitted(st) = <<New("NOP", 0, 0, 0)>>
    BY DEF Emitted
  <1> QED BY <1>1, <1>2, <1>3, <1>4, <1>5, <1>6, <1>7, <1>8, <1>9, <1>10, <1>11, <1>12, <1>13, <1>14, <1>15, <1>16, <1>17, <1>18, <1>19, <1>20, <1>21, <1>22, <1>23, <1>24, <1>25

\* What the constructor has to find for the instruction to fit.
LEMMA FitsWhen ==
    ASSUME NEW code \in Codes, NEW right \in Int, NEW left \in 0..31, NEW dest \in 0..31,
           code \in UsesLeft => left \in Registers,
           code \in UsesRight => right \in Registers,
           code \in UsesDest => dest \in Registers,
           code \in {"IREAD", "IWRITE"} => right \in Rows,
           Constructible(New(code, right, left, dest)) \/ right \in 0..31
    PROVE  Fits(code, right, left, dest)
  <1>1. ASSUME code \in RegisterCodes, Constructible(New(code, right, left, dest))
        PROVE  right \in 0..31
    BY <1>1, WordOfRegisters DEF Constructible
  <1> QED BY <1>1 DEF Fits

\* The operands of each statement fit its instruction, if the constructor has
\* not thrown: a shift by an immediate has to be by less than 32.
LEMMA FitsByForm ==
    ASSUME NEW st, Written(st)
    PROVE
    /\ st.form \in {"binary", "update"} /\ st.op \in {"plus", "addc"} =>
           Fits(CodeOf[st.op], FirstOf(st), st.b, st.d)
    /\ st.form \in {"binary", "update"} /\ st.op \notin {"plus", "addc"} =>
           Fits(CodeOf[st.op], st.b, FirstOf(st), st.d)
    /\ st.form = "unary" => Fits(CodeOfUnary[st.op], 0, st.a, st.d)
    /\ st.form = "shift" /\ Constructible(New(CodeOfShift[st.op], st.b, st.a, st.d)) =>
           Fits(CodeOfShift[st.op], st.b, st.a, st.d)
    /\ st.form \in {"product", "multlo"} => Fits("MULT_LO", 0, 0, st.d)
    /\ st.form = "copy" => Fits("ISHL", 0, st.a, st.d)
    /\ st.form = "const" => Fits("VLOAD", st.b, 0, st.d)
    /\ st.form = "index" => Fits("LDIX", 0, 0, st.d)
    /\ st.form = "shiftreg" => Fits("LDSH", 0, 0, st.d)
    /\ st.form = "read" => Fits("READ", st.b, 0, st.d)
    /\ st.form = "iread" => Fits("IREAD", st.b, 0, st.d)
    /\ st.form = "write" => Fits("WRITE", st.b, st.a, 0)
    /\ st.form = "iwrite" => Fits("IWRITE", st.b, st.a, 0)
    /\ st.form = "mult" => Fits("MULT", st.b, st.a, 0)
    /\ st.form = "product" => Fits("MULT", st.b, st.a, 0)
    /\ st.form = "mult_u" => Fits("MULT_U", st.b, st.a, 0)
    /\ st.form = "multhi" => Fits("MULT_HI", 0, 0, st.d)
    /\ st.form = "cellshl" => Fits("CELL_SHL", st.b, st.a, 0)
    /\ st.form = "cellshr" => Fits("CELL_SHR", st.b, st.a, 0)
    /\ st.form = "reduce" => Fits("REDUCE", 0, st.a, 0)
    /\ st.form = "reduce_u" => Fits("REDUCE_U", 0, st.a, 0)
    /\ st.form = "in_all" => Fits("END_WHERE", 0, 0, 0)
    /\ st.form = "where" => Fits(st.op, 0, 0, 0)
    /\ st.form = "disable" => Fits("DISABLE_CELL", 0, 0, 0)
    /\ st.form = "enable" => Fits("ENABLE_ALL_CELLS", 0, 0, 0)
    /\ st.form = "nop" => Fits("NOP", 0, 0, 0)
  <1>1. st.d \in Registers /\ st.a \in Registers /\ st.b \in Int
    BY DEF Written
  <1>2. FirstOf(st) \in Registers
    BY <1>1 DEF FirstOf
  <1>3. \A r \in Registers : r \in 0..31 /\ r \in Int
    BY LanesAssumption
  <1>4. \A row \in Rows : row \in Int
    BY RowNumbers
  <1>5. 0 \in 0..31 /\ 0 \in Int
    OBVIOUS
  <1>6. \A op \in DOMAIN CodeOf :
            /\ CodeOf[op] \in Codes /\ CodeOf[op] \in UsesLeft /\ CodeOf[op] \in UsesRight
            /\ CodeOf[op] \in UsesDest /\ CodeOf[op] \notin {"IREAD", "IWRITE"}
    BY DEF CodeOf, Codes, RegisterCodes, UsesLeft, UsesRight, UsesDest, TwoOperands
  <1>7. st.form \in {"binary", "update"} => st.op \in DOMAIN CodeOf /\ st.b \in Registers
    BY DEF Written
  <1>8. st.form \in {"binary", "update"} /\ st.op \in {"plus", "addc"} =>
           Fits(CodeOf[st.op], FirstOf(st), st.b, st.d)
    BY <1>1, <1>2, <1>3, <1>6, <1>7, FitsWhen
  <1>9. st.form \in {"binary", "update"} /\ st.op \notin {"plus", "addc"} =>
           Fits(CodeOf[st.op], st.b, FirstOf(st), st.d)
    BY <1>1, <1>2, <1>3, <1>6, <1>7, FitsWhen
  <1>10. st.form = "unary" => Fits(CodeOfUnary[st.op], 0, st.a, st.d)
    <2> HAVE st.form = "unary"
    <2>1. /\ CodeOfUnary[st.op] \in Codes /\ CodeOfUnary[st.op] \notin UsesRight
          /\ CodeOfUnary[st.op] \notin {"IREAD", "IWRITE"}
      BY DEF Written, CodeOfUnary, Codes, RegisterCodes, UsesRight, TwoOperands
    <2> QED BY <1>1, <1>3, <1>5, <2>1, FitsWhen
  <1>11. st.form = "shift" /\ Constructible(New(CodeOfShift[st.op], st.b, st.a, st.d)) =>
           Fits(CodeOfShift[st.op], st.b, st.a, st.d)
    <2> HAVE st.form = "shift" /\ Constructible(New(CodeOfShift[st.op], st.b, st.a, st.d))
    <2>1. /\ CodeOfShift[st.op] \in Codes /\ CodeOfShift[st.op] \notin UsesRight
          /\ CodeOfShift[st.op] \notin {"IREAD", "IWRITE"}
      BY DEF Written, CodeOfShift, Codes, RegisterCodes, UsesRight, TwoOperands
    <2> QED BY <1>1, <1>3, <2>1, FitsWhen
  <1>12. st.form \in {"product", "multlo"} => Fits("MULT_LO", 0, 0, st.d)
    <2>1. /\ "MULT_LO" \in Codes
          /\ "MULT_LO" \notin UsesLeft /\ "MULT_LO" \notin UsesRight
      BY DEF Codes, RegisterCodes, UsesLeft, UsesRight, TwoOperands
    <2> QED BY <1>1, <1>3, <1>5, <2>1, FitsWhen
  <1>13. st.form = "copy" => Fits("ISHL", 0, st.a, st.d)
    <2> HAVE st.form = "copy"
    <2>1. /\ "ISHL" \in Codes
          /\ "ISHL" \notin UsesRight
          /\ "ISHL" \notin {"IREAD", "IWRITE"}
      BY DEF Written, Codes, RegisterCodes, ImmediateCodes, UsesLeft, UsesRight, UsesDest,
             TwoOperands
    <2> QED BY <1>1, <1>3, <1>5, <2>1, FitsWhen
  <1>14. st.form = "const" => Fits("VLOAD", st.b, 0, st.d)
    <2> HAVE st.form = "const"
    <2>1. /\ "VLOAD" \in Codes
          /\ "VLOAD" \notin UsesLeft
          /\ "VLOAD" \notin {"IREAD", "IWRITE"}
          /\ "VLOAD" \notin UsesRight
      BY DEF Written, Codes, RegisterCodes, ImmediateCodes, UsesLeft, UsesRight, UsesDest,
             TwoOperands
    <2>2. Constructible(New("VLOAD", st.b, 0, st.d))
      BY <1>1, <1>3, <1>5, WordOfImmediate DEF Constructible, ImmediateCodes
    <2> QED BY <1>1, <1>3, <1>5, <2>1, <2>2, FitsWhen
  <1>15. st.form = "index" => Fits("LDIX", 0, 0, st.d)
    <2> HAVE st.form = "index"
    <2>1. /\ "LDIX" \in Codes
          /\ "LDIX" \notin UsesLeft
          /\ "LDIX" \notin UsesRight
          /\ "LDIX" \notin {"IREAD", "IWRITE"}
      BY DEF Written, Codes, RegisterCodes, ImmediateCodes, UsesLeft, UsesRight, UsesDest,
             TwoOperands
    <2> QED BY <1>1, <1>3, <1>5, <2>1, FitsWhen
  <1>16. st.form = "shiftreg" => Fits("LDSH", 0, 0, st.d)
    <2> HAVE st.form = "shiftreg"
    <2>1. /\ "LDSH" \in Codes
          /\ "LDSH" \notin UsesLeft
          /\ "LDSH" \notin UsesRight
          /\ "LDSH" \notin {"IREAD", "IWRITE"}
      BY DEF Written, Codes, RegisterCodes, ImmediateCodes, UsesLeft, UsesRight, UsesDest,
             TwoOperands
    <2> QED BY <1>1, <1>3, <1>5, <2>1, FitsWhen
  <1>17. st.form = "read" => Fits("READ", st.b, 0, st.d)
    <2> HAVE st.form = "read"
    <2>1. /\ "READ" \in Codes
          /\ "READ" \notin UsesLeft
          /\ "READ" \notin {"IREAD", "IWRITE"}
          /\ st.b \in Registers
      BY DEF Written, Codes, RegisterCodes, ImmediateCodes, UsesLeft, UsesRight, UsesDest,
             TwoOperands
    <2> QED BY <1>1, <1>3, <1>5, <2>1, FitsWhen
  <1>18. st.form = "iread" => Fits("IREAD", st.b, 0, st.d)
    <2> HAVE st.form = "iread"
    <2>1. /\ "IREAD" \in Codes
          /\ "IREAD" \notin UsesLeft
          /\ st.b \in Rows
          /\ "IREAD" \notin UsesRight
      BY DEF Written, Codes, RegisterCodes, ImmediateCodes, UsesLeft, UsesRight, UsesDest,
             TwoOperands
    <2>2. Constructible(New("IREAD", st.b, 0, st.d))
      BY <1>1, <1>3, <1>5, WordOfImmediate DEF Constructible, ImmediateCodes
    <2> QED BY <1>1, <1>3, <1>5, <2>1, <2>2, FitsWhen
  <1>19. st.form = "write" => Fits("WRITE", st.b, st.a, 0)
    <2> HAVE st.form = "write"
    <2>1. /\ "WRITE" \in Codes
          /\ "WRITE" \notin UsesDest
          /\ "WRITE" \notin {"IREAD", "IWRITE"}
          /\ st.b \in Registers
      BY DEF Written, Codes, RegisterCodes, ImmediateCodes, UsesLeft, UsesRight, UsesDest,
             TwoOperands
    <2> QED BY <1>1, <1>3, <1>5, <2>1, FitsWhen
  <1>20. st.form = "iwrite" => Fits("IWRITE", st.b, st.a, 0)
    <2> HAVE st.form = "iwrite"
    <2>1. /\ "IWRITE" \in Codes
          /\ "IWRITE" \notin UsesDest
          /\ st.b \in Rows
          /\ "IWRITE" \notin UsesRight
      BY DEF Written, Codes, RegisterCodes, ImmediateCodes, UsesLeft, UsesRight, UsesDest,
             TwoOperands
    <2>2. Constructible(New("IWRITE", st.b, st.a, 0))
      BY <1>1, <1>3, <1>5, WordOfImmediate DEF Constructible, ImmediateCodes
    <2> QED BY <1>1, <1>3, <1>5, <2>1, <2>2, FitsWhen
  <1>21. st.form = "mult" => Fits("MULT", st.b, st.a, 0)
    <2> HAVE st.form = "mult"
    <2>1. /\ "MULT" \in Codes
          /\ "MULT" \notin UsesDest
          /\ "MULT" \notin {"IREAD", "IWRITE"}
          /\ st.b \in Registers
      BY DEF Written, Codes, RegisterCodes, ImmediateCodes, UsesLeft, UsesRight, UsesDest,
             TwoOperands
    <2> QED BY <1>1, <1>3, <1>5, <2>1, FitsWhen
  <1>22. st.form = "product" => Fits("MULT", st.b, st.a, 0)
    <2> HAVE st.form = "product"
    <2>1. /\ "MULT" \in Codes
          /\ "MULT" \notin UsesDest
          /\ "MULT" \notin {"IREAD", "IWRITE"}
          /\ st.b \in Registers
      BY DEF Written, Codes, RegisterCodes, ImmediateCodes, UsesLeft, UsesRight, UsesDest,
             TwoOperands
    <2> QED BY <1>1, <1>3, <1>5, <2>1, FitsWhen
  <1>23. st.form = "mult_u" => Fits("MULT_U", st.b, st.a, 0)
    <2> HAVE st.form = "mult_u"
    <2>1. /\ "MULT_U" \in Codes
          /\ "MULT_U" \notin UsesDest
          /\ "MULT_U" \notin {"IREAD", "IWRITE"}
          /\ st.b \in Registers
      BY DEF Written, Codes, RegisterCodes, ImmediateCodes, UsesLeft, UsesRight, UsesDest,
             TwoOperands
    <2> QED BY <1>1, <1>3, <1>5, <2>1, FitsWhen
  <1>24. st.form = "multhi" => Fits("MULT_HI", 0, 0, st.d)
    <2> HAVE st.form = "multhi"
    <2>1. /\ "MULT_HI" \in Codes
          /\ "MULT_HI" \notin UsesLeft
          /\ "MULT_HI" \notin UsesRight
          /\ "MULT_HI" \notin {"IREAD", "IWRITE"}
      BY DEF Written, Codes, RegisterCodes, ImmediateCodes, UsesLeft, UsesRight, UsesDest,
             TwoOperands
    <2> QED BY <1>1, <1>3, <1>5, <2>1, FitsWhen
  <1>25. st.form = "cellshl" => Fits("CELL_SHL", st.b, st.a, 0)
    <2> HAVE st.form = "cellshl"
    <2>1. /\ "CELL_SHL" \in Codes
          /\ "CELL_SHL" \notin UsesDest
          /\ "CELL_SHL" \notin {"IREAD", "IWRITE"}
          /\ st.b \in Registers
      BY DEF Written, Codes, RegisterCodes, ImmediateCodes, UsesLeft, UsesRight, UsesDest,
             TwoOperands
    <2> QED BY <1>1, <1>3, <1>5, <2>1, FitsWhen
  <1>26. st.form = "cellshr" => Fits("CELL_SHR", st.b, st.a, 0)
    <2> HAVE st.form = "cellshr"
    <2>1. /\ "CELL_SHR" \in Codes
          /\ "CELL_SHR" \notin UsesDest
          /\ "CELL_SHR" \notin {"IREAD", "IWRITE"}
          /\ st.b \in Registers
      BY DEF Written, Codes, RegisterCodes, ImmediateCodes, UsesLeft, UsesRight, UsesDest,
             TwoOperands
    <2> QED BY <1>1, <1>3, <1>5, <2>1, FitsWhen
  <1>27. st.form = "reduce" => Fits("REDUCE", 0, st.a, 0)
    <2> HAVE st.form = "reduce"
    <2>1. /\ "REDUCE" \in Codes
          /\ "REDUCE" \notin UsesRight
          /\ "REDUCE" \notin UsesDest
          /\ "REDUCE" \notin {"IREAD", "IWRITE"}
      BY DEF Written, Codes, RegisterCodes, ImmediateCodes, UsesLeft, UsesRight, UsesDest,
             TwoOperands
    <2> QED BY <1>1, <1>3, <1>5, <2>1, FitsWhen
  <1>28. st.form = "reduce_u" => Fits("REDUCE_U", 0, st.a, 0)
    <2> HAVE st.form = "reduce_u"
    <2>1. /\ "REDUCE_U" \in Codes
          /\ "REDUCE_U" \notin UsesRight
          /\ "REDUCE_U" \notin UsesDest
          /\ "REDUCE_U" \notin {"IREAD", "IWRITE"}
      BY DEF Written, Codes, RegisterCodes, ImmediateCodes, UsesLeft, UsesRight, UsesDest,
             TwoOperands
    <2> QED BY <1>1, <1>3, <1>5, <2>1, FitsWhen
  <1>29. st.form = "in_all" => Fits("END_WHERE", 0, 0, 0)
    <2> HAVE st.form = "in_all"
    <2>1. /\ "END_WHERE" \in Codes
          /\ "END_WHERE" \notin UsesLeft
          /\ "END_WHERE" \notin UsesRight
          /\ "END_WHERE" \notin UsesDest
          /\ "END_WHERE" \notin {"IREAD", "IWRITE"}
      BY DEF Written, Codes, RegisterCodes, ImmediateCodes, UsesLeft, UsesRight, UsesDest,
             TwoOperands
    <2> QED BY <1>1, <1>3, <1>5, <2>1, FitsWhen
  <1>30. st.form = "where" => Fits(st.op, 0, 0, 0)
    <2> HAVE st.form = "where"
    <2>1. /\ st.op \in Codes
          /\ st.op \notin UsesLeft
          /\ st.op \notin UsesRight
          /\ st.op \notin UsesDest
          /\ st.op \notin {"IREAD", "IWRITE"}
      BY DEF Written, Codes, RegisterCodes, ImmediateCodes, UsesLeft, UsesRight, UsesDest,
             TwoOperands
    <2> QED BY <1>1, <1>3, <1>5, <2>1, FitsWhen
  <1>31. st.form = "disable" => Fits("DISABLE_CELL", 0, 0, 0)
    <2> HAVE st.form = "disable"
    <2>1. /\ "DISABLE_CELL" \in Codes
          /\ "DISABLE_CELL" \notin UsesLeft
          /\ "DISABLE_CELL" \notin UsesRight
          /\ "DISABLE_CELL" \notin UsesDest
          /\ "DISABLE_CELL" \notin {"IREAD", "IWRITE"}
      BY DEF Written, Codes, RegisterCodes, ImmediateCodes, UsesLeft, UsesRight, UsesDest,
             TwoOperands
    <2> QED BY <1>1, <1>3, <1>5, <2>1, FitsWhen
  <1>32. st.form = "enable" => Fits("ENABLE_ALL_CELLS", 0, 0, 0)
    <2> HAVE st.form = "enable"
    <2>1. /\ "ENABLE_ALL_CELLS" \in Codes
          /\ "ENABLE_ALL_CELLS" \notin UsesLeft
          /\ "ENABLE_ALL_CELLS" \notin UsesRight
          /\ "ENABLE_ALL_CELLS" \notin UsesDest
          /\ "ENABLE_ALL_CELLS" \notin {"IREAD", "IWRITE"}
      BY DEF Written, Codes, RegisterCodes, ImmediateCodes, UsesLeft, UsesRight, UsesDest,
             TwoOperands
    <2> QED BY <1>1, <1>3, <1>5, <2>1, FitsWhen
  <1>33. st.form = "nop" => Fits("NOP", 0, 0, 0)
    <2> HAVE st.form = "nop"
    <2>1. /\ "NOP" \in Codes
          /\ "NOP" \notin UsesLeft
          /\ "NOP" \notin UsesRight
          /\ "NOP" \notin UsesDest
          /\ "NOP" \notin {"IREAD", "IWRITE"}
      BY DEF Written, Codes, RegisterCodes, ImmediateCodes, UsesLeft, UsesRight, UsesDest,
             TwoOperands
    <2> QED BY <1>1, <1>3, <1>5, <2>1, FitsWhen
  <1> QED BY <1>8, <1>9, <1>10, <1>11, <1>12, <1>13, <1>14, <1>15, <1>16,
             <1>17, <1>18, <1>19, <1>20, <1>21, <1>22, <1>23, <1>24, <1>25,
             <1>26, <1>27, <1>28, <1>29, <1>30, <1>31, <1>32, <1>33

-----------------------------------------------------------------------------
(***************************************************************************)
(* What a kernel appends, one statement after the other.                   *)
(***************************************************************************)
\* Kernels as written: see KernelsAssumption.
WrittenAll(statements) ==
    Len(statements) \in Nat /\ \A n \in 1..Len(statements) : Written(statements[n])

\* The instructions that the first statements append, after each of them.
UpTo(f, statements, last) ==
    f = [k \in 0..last |-> IF k = 0 THEN << >> ELSE f[k - 1] \o Emitted(statements[k])]

\* There is such a function (Appended() chooses it).
LEMMA UpToExists ==
    ASSUME NEW statements
    PROVE  \A last \in Nat : \E f : UpTo(f, statements, last)
  <1> DEFINE T == {last \in Nat : \E f : UpTo(f, statements, last)}
  <1>1. 0 \in T
    <2>1. UpTo([n \in 0..0 |-> << >>], statements, 0)
      BY DEF UpTo
    <2> QED BY <2>1
  <1>2. ASSUME NEW last \in Nat, last \in T PROVE last + 1 \in T
    <2>1. PICK f : UpTo(f, statements, last)
      BY <1>2
    <2>2. \A n \in 0..last :
              f[n] = IF n = 0 THEN << >> ELSE f[n - 1] \o Emitted(statements[n])
      BY <2>1 DEF UpTo
    <2> DEFINE g == [n \in 0..(last + 1) |->
                        IF n <= last THEN f[n] ELSE f[last] \o Emitted(statements[n])]
    <2>3. \A n \in 0..(last + 1) :
              g[n] = IF n = 0 THEN << >> ELSE g[n - 1] \o Emitted(statements[n])
      BY <2>2
    <2>4. UpTo(g, statements, last + 1)
      BY <2>3 DEF UpTo
    <2> QED BY <2>4
  <1>3. \A last \in Nat : last \in T
    <2> HIDE DEF T
    <2> QED BY <1>1, <1>2, SetInduction
  <1> QED BY <1>3

\* A statement appends one instruction, and a product two.
LEMMA EmittedShape ==
    ASSUME NEW st, Written(st)
    PROVE  IF st.form = "product" THEN \E x, y : Emitted(st) = <<x, y>>
           ELSE \E x : Emitted(st) = <<x>>
  <1>1. CASE st.form = "product"
    BY <1>1, EmittedByForm
  <1>2. CASE st.form # "product"
    BY <1>2, EmittedByForm DEF Written
  <1> QED BY <1>1, <1>2

\* A statement appends one instruction, and a product two.
LEMMA EmittedLength ==
    ASSUME NEW st, Written(st)
    PROVE  /\ Len(Emitted(st)) = IF st.form = "product" THEN 2 ELSE 1
           /\ Emitted(st) \in Seq({Emitted(st)[1], Emitted(st)[2]})
  <1>1. CASE st.form = "product"
    <2>1. PICK x, y : Emitted(st) = <<x, y>>
      BY <1>1, EmittedShape
    <2> QED BY <1>1, <2>1
  <1>2. CASE st.form # "product"
    <2>1. PICK x : Emitted(st) = <<x>>
      BY <1>2, EmittedShape
    <2> QED BY <1>2, <2>1
  <1> QED BY <1>1, <1>2

\* A sequence with another one after it.
LEMMA Joined ==
    ASSUME NEW E, NEW s \in Seq(E), NEW e \in Seq(E), NEW t, t = s \o e
    PROVE  /\ t \in Seq(E)
           /\ Len(s) \in Nat /\ Len(e) \in Nat
           /\ Len(t) = Len(s) + Len(e)
           /\ \A i \in 1..Len(s) : t[i] = s[i]
           /\ \A j \in 1..Len(e) : t[Len(s) + j] = e[j]
  <1>1. Len(s) \in Nat /\ Len(e) \in Nat
    OBVIOUS
  <1>2. /\ t \in Seq(E) /\ Len(t) = Len(s) + Len(e)
        /\ \A i \in 1..(Len(s) + Len(e)) :
              t[i] = IF i <= Len(s) THEN s[i] ELSE e[i - Len(s)]
    BY ConcatProperties
  <1>3. ASSUME NEW i \in 1..Len(s) PROVE t[i] = s[i]
    <2>1. i \in 1..(Len(s) + Len(e)) /\ i <= Len(s)
      BY <1>1
    <2> QED BY <1>2, <2>1
  <1>4. ASSUME NEW j \in 1..Len(e) PROVE t[Len(s) + j] = e[j]
    <2> DEFINE i == Len(s) + j
    <2>1. i \in 1..(Len(s) + Len(e)) /\ ~(i <= Len(s)) /\ i - Len(s) = j
      <3> DEFINE a == Len(s)  b == Len(e)
      <3> HIDE DEF a, b
      <3> QED BY <1>1 DEF a, b
    <2> HIDE DEF i
    <2>2. t[i] = e[i - Len(s)]
      BY <1>2, <2>1
    <2> QED BY <2>1, <2>2 DEF i
  <1> QED BY <1>1, <1>2, <1>3, <1>4

\* at[k] instructions have been appended by the first k statements.
Places(at, statements) ==
    /\ at \in [0..Len(statements) -> Nat]
    /\ at[0] = 0
    /\ at[Len(statements)] = Len(Appended(statements))
    /\ \A k \in 1..Len(statements) :
          /\ at[k] = at[k - 1] + Len(Emitted(statements[k]))
          /\ \A j \in 1..Len(Emitted(statements[k])) :
                Appended(statements)[at[k - 1] + j] = Emitted(statements[k])[j]

\* Every statement has a place among the instructions of the kernel.
LEMMA PlacesExist ==
    ASSUME NEW statements, WrittenAll(statements)
    PROVE  /\ \E at : Places(at, statements)
           /\ \E S : Appended(statements) \in Seq(S)
  <1> DEFINE N == Len(statements)
             E == {Emitted(statements[k])[1] : k \in 1..N}
                  \cup {Emitted(statements[k])[2] : k \in 1..N}
             f == CHOOSE f : UpTo(f, statements, N)
  <1>1. N \in Nat
    BY DEF WrittenAll
  <1>2. UpTo(f, statements, N)
    BY <1>1, UpToExists
  <1>3. Appended(statements) = f[N]
    BY DEF Appended, UpTo
  <1> HIDE DEF f
  <1>4. \A k \in 1..N : Emitted(statements[k]) \in Seq(E) /\ Len(Emitted(statements[k])) \in Nat
    <2> TAKE k \in 1..N
    <2>1. Emitted(statements[k])[1] \in E /\ Emitted(statements[k])[2] \in E
      OBVIOUS
    <2>2. /\ Emitted(statements[k]) \in Seq({Emitted(statements[k])[1], Emitted(statements[k])[2]})
          /\ Len(Emitted(statements[k])) \in Nat
      BY EmittedLength DEF WrittenAll
    <2> HIDE DEF E
    <2>3. {Emitted(statements[k])[1], Emitted(statements[k])[2]} \subseteq E
      BY <2>1
    <2> QED BY <2>2, <2>3, SeqMonotonic
  <1> HIDE DEF E
  <1>5. /\ f[0] = << >>
        /\ \A k \in 1..N : f[k] = f[k - 1] \o Emitted(statements[k])
    BY <1>1, <1>2 DEF UpTo
  <1>6. \A k \in 0..N : f[k] \in Seq(E)
    <2> DEFINE T == {k \in 0..N : f[k] \in Seq(E)}
    <2>1. 0 \in T
      <3>1. << >> \in Seq(E)
        OBVIOUS
      <3>2. f[0] = << >>
        BY <1>5
      <3>3. f[0] \in Seq(E)
        BY ONLY <3>1, <3>2
      <3> QED BY <1>1, <3>3
    <2>2. ASSUME NEW k \in 0..(N - 1), k \in T PROVE k + 1 \in T
      <3> DEFINE m == k + 1
      <3>1. m \in 1..N /\ m \in 0..N /\ m - 1 = k
        BY <1>1
      <3>2. f[k] \in Seq(E)
        BY <2>2
      <3> HIDE DEF m, N
      <3>3. f[m] = f[k] \o Emitted(statements[m]) /\ Emitted(statements[m]) \in Seq(E)
        BY <1>4, <1>5, <3>1
      <3>4. f[m] \in Seq(E)
        BY <3>2, <3>3, Joined
      <3> QED BY <3>1, <3>4 DEF m, N
    <2>3. \A k \in 0..N : k \in T
      <3> HIDE DEF T, N
      <3> QED BY <1>1, <2>1, <2>2, BoundedInduction
    <2> QED BY <2>3
  <1> DEFINE at == [k \in 0..N |-> Len(f[k])]
             size(k) == Len(Emitted(statements[k]))
  <1>7. \A k \in 1..N :
            /\ Len(f[k - 1]) \in Nat /\ size(k) \in Nat
            /\ Len(f[k]) = Len(f[k - 1]) + size(k)
            /\ \A i \in 1..Len(f[k - 1]) : f[k][i] = f[k - 1][i]
            /\ \A j \in 1..size(k) : f[k][Len(f[k - 1]) + j] = Emitted(statements[k])[j]
    <2> TAKE k \in 1..N
    <2> DEFINE n == k - 1
    <2>1. n \in 0..N
      BY <1>1
    <2>2. f[k] = f[n] \o Emitted(statements[k])
      BY <1>5
    <2> HIDE DEF n
    <2>3. f[n] \in Seq(E) /\ Emitted(statements[k]) \in Seq(E)
      BY <1>4, <1>6, <2>1
    <2>4. /\ Len(f[n]) \in Nat /\ size(k) \in Nat
          /\ Len(f[k]) = Len(f[n]) + size(k)
          /\ \A i \in 1..Len(f[n]) : f[k][i] = f[n][i]
          /\ \A j \in 1..size(k) : f[k][Len(f[n]) + j] = Emitted(statements[k])[j]
      <3> DEFINE s == f[n]  e == Emitted(statements[k])  all == f[k]
      <3>1. s \in Seq(E) /\ e \in Seq(E) /\ all = s \o e
        BY <2>2, <2>3
      <3> HIDE DEF s, e, all
      <3>2. /\ Len(s) \in Nat /\ Len(e) \in Nat
            /\ Len(all) = Len(s) + Len(e)
            /\ \A i \in 1..Len(s) : all[i] = s[i]
            /\ \A j \in 1..Len(e) : all[Len(s) + j] = e[j]
        BY <3>1, Joined
      <3> QED BY <3>2 DEF s, e, all
    <2> QED BY <2>4 DEF n
  <1>8. \A k \in 0..N : Len(f[k]) \in Nat
    BY <1>6
  <1>9. \A n \in 0..N : \A k \in 1..n : \A j \in 1..Len(Emitted(statements[k])) :
            /\ Len(f[k]) <= Len(f[n])
            /\ f[n][Len(f[k - 1]) + j] = Emitted(statements[k])[j]
    <2> DEFINE T == {n \in 0..N : \A k \in 1..n : \A j \in 1..Len(Emitted(statements[k])) :
                        /\ Len(f[k]) <= Len(f[n])
                        /\ f[n][Len(f[k - 1]) + j] = Emitted(statements[k])[j]}
    <2>1. 0 \in T
      BY <1>1
    <2>2. ASSUME NEW n \in 0..(N - 1), n \in T PROVE n + 1 \in T
      <3> DEFINE m == n + 1
      <3>1. m \in 1..N /\ m - 1 = n /\ n \in 0..N
        BY <1>1
      <3> HIDE DEF m, N
      <3>2. ASSUME NEW k \in 1..m, NEW j \in 1..Len(Emitted(statements[k]))
            PROVE  /\ Len(f[k]) <= Len(f[m])
                   /\ f[m][Len(f[k - 1]) + j] = Emitted(statements[k])[j]
        <4> DEFINE before == Len(f[k - 1])
        <4>1. k \in 1..N /\ k \in 0..N /\ j \in 1..size(k)
          BY <1>1, <3>1
        <4>2. /\ before \in Nat /\ size(k) \in Nat /\ Len(f[k]) = before + size(k)
              /\ Len(f[n]) \in Nat /\ size(m) \in Nat /\ Len(f[m]) = Len(f[n]) + size(m)
              /\ \A i \in 1..Len(f[n]) : f[m][i] = f[n][i]
          BY <1>7, <3>1, <4>1
        <4>3. CASE k = m
          <5>1. f[k][before + j] = Emitted(statements[k])[j]
            BY <1>7, <4>1
          <5> HIDE DEF before, size
          <5> QED BY <4>2, <4>3, <5>1 DEF before
        <4>4. CASE k # m
          <5>1. k \in 1..n
            BY <3>1, <4>1, <4>4
          <5>2. Len(f[k]) <= Len(f[n]) /\ f[n][before + j] = Emitted(statements[k])[j]
            BY <2>2, <5>1
          <5> DEFINE i == before + j
          <5>3. i \in 1..Len(f[n]) /\ Len(f[k]) <= Len(f[m])
            <6> HIDE DEF before, size
            <6>1. /\ before \in Nat /\ size(k) \in Nat /\ size(m) \in Nat /\ Len(f[n]) \in Nat
                  /\ Len(f[k]) = before + size(k) /\ Len(f[m]) = Len(f[n]) + size(m)
              BY ONLY <4>2
            <6> DEFINE x == Len(f[k])  y == Len(f[m])  z == Len(f[n])  s == size(k)  t == size(m)
            <6>2. before \in Nat /\ s \in Nat /\ t \in Nat /\ z \in Nat /\ x = before + s /\ y = z + t
              BY ONLY <6>1
            <6>3. x <= z /\ j \in 1..s
              BY ONLY <4>1, <5>2
            <6> HIDE DEF x, y, z, s, t
            <6>4. before + j \in 1..z /\ x <= y
              BY ONLY <6>2, <6>3
            <6> QED BY ONLY <6>4 DEF x, y, z, i
          <5> HIDE DEF i
          <5>4. f[m][i] = f[n][i]
            BY <4>2, <5>3
          <5> QED BY <5>2, <5>3, <5>4 DEF i
                <4> QED BY <4>3, <4>4
      <3>3. m \in T
        BY <3>1, <3>2 DEF N
      <3> QED BY <3>3 DEF m
    <2>3. \A n \in 0..N : n \in T
      <3> HIDE DEF T, N
      <3> QED BY <1>1, <2>1, <2>2, BoundedInduction
    <2> QED BY <2>3
  <1>10. Places(at, statements)
    <2>1. at \in [0..N -> Nat] /\ at[0] = 0 /\ at[N] = Len(Appended(statements))
      BY <1>1, <1>3, <1>5, <1>8
    <2>2. ASSUME NEW k \in 1..N
          PROVE  /\ at[k] = at[k - 1] + Len(Emitted(statements[k]))
                 /\ \A j \in 1..Len(Emitted(statements[k])) :
                       Appended(statements)[at[k - 1] + j] = Emitted(statements[k])[j]
      <3>1. k \in 0..N /\ k - 1 \in 0..N /\ N \in 0..N
        BY <1>1
      <3>2. at[k] = Len(f[k]) /\ at[k - 1] = Len(f[k - 1])
        BY <3>1
      <3>3. k \in 1..N /\ \A j \in 1..size(k) :
                f[N][Len(f[k - 1]) + j] = Emitted(statements[k])[j]
        BY <1>9, <3>1
      <3>4. Len(f[k]) = Len(f[k - 1]) + Len(Emitted(statements[k]))
        BY <1>7
      <3> HIDE DEF at, N
      <3> QED BY <1>3, <3>2, <3>3, <3>4
    <2> HIDE DEF at
    <2> QED BY <2>1, <2>2 DEF Places
  <1>11. Appended(statements) \in Seq(E)
    BY <1>1, <1>3, <1>6
  <1> QED BY <1>10, <1>11

\* Those places.
Starts(statements) == CHOOSE at : Places(at, statements)

\* The places grow with each statement, and each instruction is one of some
\* statement's.
LEMMA PlacesGrow ==
    ASSUME NEW statements, WrittenAll(statements), NEW at, Places(at, statements)
    PROVE  /\ \A k \in 1..Len(statements) : at[k - 1] < at[k]
           /\ \A n \in 0..Len(statements) : \A k \in 0..n : at[k] <= at[n]
           /\ \A p \in 1..Len(Appended(statements)) :
                 \E k \in 1..Len(statements) : \E j \in 1..Len(Emitted(statements[k])) :
                     p = at[k - 1] + j
  <1> DEFINE N == Len(statements)
             size(k) == Len(Emitted(statements[k]))
  <1>1. N \in Nat
    BY DEF WrittenAll
  <1>2. \A k \in 1..N : size(k) \in {1, 2}
    BY EmittedLength DEF WrittenAll
  <1>3. /\ at \in [0..N -> Nat] /\ at[0] = 0 /\ at[N] = Len(Appended(statements))
        /\ \A k \in 1..N : at[k] = at[k - 1] + size(k)
    BY DEF Places
  <1> HIDE DEF size, N
  <1>4. \A k \in 1..N : at[k - 1] \in Nat /\ at[k] \in Nat /\ at[k - 1] < at[k]
    <2> TAKE k \in 1..N
    <2>1. k \in 0..N /\ k - 1 \in 0..N
      BY <1>1
    <2>2. at[k] \in Nat /\ at[k - 1] \in Nat
      BY <1>3, <2>1
    <2>3. size(k) = 1 \/ size(k) = 2
      BY <1>2
    <2> QED BY <1>3, <2>2, <2>3
  <1> DEFINE Found(p, n) == \E k \in 1..n : \E j \in 1..size(k) : p = at[k - 1] + j
             T == {n \in 0..N : /\ \A k \in 0..n : at[k] <= at[n]
                                /\ \A p \in 1..at[n] : Found(p, n)}
  <1>5. 0 \in T
    BY <1>1, <1>3
  <1>6. ASSUME NEW n \in 0..(N - 1), n \in T PROVE n + 1 \in T
    <2> DEFINE m == n + 1
    <2>1. m \in 1..N /\ m - 1 = n /\ m \in 0..N /\ n \in 0..N
      BY <1>1
    <2>2. \A k \in 0..m : k \in 0..n \/ k = m
      BY <2>1
    <2>3. \A k \in 1..n : k \in 1..m
      BY <2>1
    <2> HIDE DEF m
    <2>4. at[n] < at[m] /\ at[n] \in Nat /\ at[m] \in Nat /\ at[m] = at[n] + size(m)
      BY <1>3, <1>4, <2>1
    <2>5. ASSUME NEW k \in 0..m PROVE at[k] <= at[m]
      <3>1. CASE k = m
        BY <2>4, <3>1
      <3>2. CASE k \in 0..n
        <4>1. at[k] <= at[n]
          BY <1>6, <3>2
        <4>2. k \in 0..N
          BY <1>1, <2>1, <3>2
        <4>3. at[k] \in Nat
          BY <1>3, <4>2
        <4> QED BY <2>4, <4>1, <4>3
      <3> QED BY <2>2, <3>1, <3>2
    <2>6. ASSUME NEW p \in 1..at[m] PROVE Found(p, m)
      <3>1. CASE p <= at[n]
        <4>1. p \in 1..at[n]
          BY <2>4, <3>1
        <4>2. Found(p, n)
          BY <1>6, <4>1
        <4> QED BY <2>3, <4>2
      <3>2. CASE ~(p <= at[n])
        <4> DEFINE j == p - at[n]
        <4>1. j \in 1..size(m) /\ p = at[n] + j
          <5>1. size(m) \in Nat
            BY <1>2, <2>1
          <5> QED BY <2>4, <3>2, <5>1
        <4> HIDE DEF j
        <4>2. m \in 1..m
          BY <2>1
        <4> QED BY <2>1, <4>1, <4>2
      <3> QED BY <3>1, <3>2
    <2>7. m \in T
      BY <2>1, <2>5, <2>6
    <2> QED BY <2>7 DEF m
  <1>7. \A n \in 0..N : n \in T
    <2> HIDE DEF T
    <2> QED BY <1>1, <1>5, <1>6, BoundedInduction
  <1>8. N \in 0..N
    BY <1>1
  <1>9. \A p \in 1..at[N] : Found(p, N)
    BY <1>7, <1>8
  <1>10. \A n \in 0..N : \A k \in 0..n : at[k] <= at[n]
    BY <1>7
  <1> HIDE DEF T
  <1> QED BY <1>3, <1>4, <1>9, <1>10 DEF size, N

\* An instruction that fits.
Proper(i) == \E code, right, left, dest :
                 Fits(code, right, left, dest) /\ i = New(code, right, left, dest)

\* An instruction that could be constructed has the fields its encoding keeps.
LEMMA EmittedIsProper ==
    ASSUME NEW st, Written(st), NEW j \in 1..Len(Emitted(st)), Constructible(Emitted(st)[j])
    PROVE  Proper(Emitted(st)[j])
  <1>1. CASE st.form = "product"
    <2>1. Emitted(st) = <<New("MULT", st.b, st.a, 0), New("MULT_LO", 0, 0, st.d)>>
      BY <1>1, EmittedByForm
    <2>2. j = 1 \/ j = 2
      <3>1. Len(Emitted(st)) = 2
        BY <1>1, EmittedLength
      <3> QED BY <3>1
    <2>3. Fits("MULT", st.b, st.a, 0) /\ Fits("MULT_LO", 0, 0, st.d)
      BY <1>1, FitsByForm
    <2> QED BY <2>1, <2>2, <2>3 DEF Proper
  <1>2. CASE st.form # "product"
    <2>1. j = 1
      <3>1. Len(Emitted(st)) = 1
        BY <1>2, EmittedLength
      <3> QED BY <3>1
    <2> DEFINE i == Emitted(st)[1]
    <2>2. CASE st.form \in {"binary", "update"}
      <3>1. CASE st.op \in {"plus", "addc"}
        <4>1. i = New(CodeOf[st.op], FirstOf(st), st.b, st.d)
          BY <2>2, <3>1, EmittedByForm
        <4> QED BY <2>1, <2>2, <3>1, <4>1, FitsByForm DEF Proper
      <3>2. CASE st.op \notin {"plus", "addc"}
        <4>1. i = New(CodeOf[st.op], st.b, FirstOf(st), st.d)
          BY <2>2, <3>2, EmittedByForm
        <4> QED BY <2>1, <2>2, <3>2, <4>1, FitsByForm DEF Proper
      <3> QED BY <3>1, <3>2
    <2>3. CASE st.form = "unary"
      <3>1. i = New(CodeOfUnary[st.op], 0, st.a, st.d)
        BY <2>3, EmittedByForm
      <3> QED BY <2>1, <2>3, <3>1, FitsByForm DEF Proper
    <2>4. CASE st.form = "shift"
      <3>1. i = New(CodeOfShift[st.op], st.b, st.a, st.d)
        BY <2>4, EmittedByForm
      <3> QED BY <2>1, <2>4, <3>1, FitsByForm DEF Proper
    <2>5. CASE st.form \in {"copy", "const", "index", "shiftreg", "read", "iread", "write",
                            "iwrite"}
      <3>1. /\ st.form = "copy" => i = New("ISHL", 0, st.a, st.d)
            /\ st.form = "const" => i = New("VLOAD", st.b, 0, st.d)
            /\ st.form = "index" => i = New("LDIX", 0, 0, st.d)
            /\ st.form = "shiftreg" => i = New("LDSH", 0, 0, st.d)
            /\ st.form = "read" => i = New("READ", st.b, 0, st.d)
            /\ st.form = "iread" => i = New("IREAD", st.b, 0, st.d)
            /\ st.form = "write" => i = New("WRITE", st.b, st.a, 0)
            /\ st.form = "iwrite" => i = New("IWRITE", st.b, st.a, 0)
        BY EmittedByForm
      <3> HIDE DEF i
      <3>2. Proper(i)
        BY <2>5, <3>1, FitsByForm DEF Proper
      <3> QED BY <2>1, <3>2 DEF i
    <2>6. CASE st.form \in {"mult", "mult_u", "multlo", "multhi", "cellshl", "cellshr"}
      <3>1. /\ st.form = "mult" => i = New("MULT", st.b, st.a, 0)
            /\ st.form = "mult_u" => i = New("MULT_U", st.b, st.a, 0)
            /\ st.form = "multlo" => i = New("MULT_LO", 0, 0, st.d)
            /\ st.form = "multhi" => i = New("MULT_HI", 0, 0, st.d)
            /\ st.form = "cellshl" => i = New("CELL_SHL", st.b, st.a, 0)
            /\ st.form = "cellshr" => i = New("CELL_SHR", st.b, st.a, 0)
        BY EmittedByForm
      <3> HIDE DEF i
      <3>2. Proper(i)
        BY <2>6, <3>1, FitsByForm DEF Proper
      <3> QED BY <2>1, <3>2 DEF i
    <2>7. CASE st.form \in {"reduce", "reduce_u", "in_all", "where", "disable", "enable", "nop"}
      <3>1. /\ st.form = "reduce" => i = New("REDUCE", 0, st.a, 0)
            /\ st.form = "reduce_u" => i = New("REDUCE_U", 0, st.a, 0)
            /\ st.form = "in_all" => i = New("END_WHERE", 0, 0, 0)
            /\ st.form = "where" => i = New(st.op, 0, 0, 0)
            /\ st.form = "disable" => i = New("DISABLE_CELL", 0, 0, 0)
            /\ st.form = "enable" => i = New("ENABLE_ALL_CELLS", 0, 0, 0)
            /\ st.form = "nop" => i = New("NOP", 0, 0, 0)
        BY EmittedByForm
      <3> HIDE DEF i
      <3>2. Proper(i)
        BY <2>7, <3>1, FitsByForm DEF Proper
      <3> QED BY <2>1, <3>2 DEF i
    <2> QED BY <1>2, <2>2, <2>3, <2>4, <2>5, <2>6, <2>7 DEF Written
  <1> QED BY <1>1, <1>2

\* Every instruction that a kernel's statements append fits, if none of the
\* constructors has thrown.
LEMMA AppendedIsProper ==
    ASSUME NEW statements, WrittenAll(statements),
           NEW p \in 1..Len(Appended(statements)), Constructible(Appended(statements)[p])
    PROVE  Proper(Appended(statements)[p])
  <1>1. PICK at : Places(at, statements)
    BY PlacesExist
  <1>2. PICK k \in 1..Len(statements) : \E j \in 1..Len(Emitted(statements[k])) : p = at[k - 1] + j
    BY <1>1, PlacesGrow
  <1>3. PICK j \in 1..Len(Emitted(statements[k])) : p = at[k - 1] + j
    BY <1>2
  <1>4. Appended(statements)[p] = Emitted(statements[k])[j] /\ Written(statements[k])
    BY <1>1, <1>3 DEF Places, WrittenAll
  <1> QED BY <1>4, EmittedIsProper

-----------------------------------------------------------------------------
(***************************************************************************)
(* Which action an instruction is executed by.                             *)
(***************************************************************************)
\* Every action is the execution of an instruction with one of its opcodes.
LEMMA ActionsExecute ==
    /\ \A name : Arithmetic(name) => Execute({name})
    /\ \A names, vector : Unflagged(names, vector) => Execute(names)
    /\ \A name, op : Shift(name, op) => Execute({name})
    /\ \A name, op : ShiftImmediate(name, op) => Execute({name})
    /\ \A name, flag : Where(name, flag) => Execute({name})
    /\ \A name, direction : CellShift(name, direction) => Execute({name})
    /\ AddWithCarry => Execute({"ADDC"})
    /\ SubWithCarry => Execute({"SUBC"})
    /\ CompareUnsigned => Execute({"ULT"})
    /\ LoadImmediate => Execute({"VLOAD"})
    /\ LoadIndex => Execute({"LDIX"})
    /\ LoadShiftReg => Execute({"LDSH"})
    /\ MultiplySigned => Execute({"MULT"})
    /\ MultiplyUnsigned => Execute({"MULT_U"})
    /\ DisableCell => Execute({"DISABLE_CELL"})
    /\ EnableAllCells => Execute({"ENABLE_ALL_CELLS"})
    /\ SumSigned => Execute({"REDUCE"})
    /\ SumUnsigned => Execute({"REDUCE_U"})
    /\ Read => Execute({"READ"})
    /\ Write => Execute({"WRITE"})
    /\ OutOfBounds => Execute({"READ", "WRITE"})
    /\ ReadAt => Execute({"IREAD"})
    /\ WriteAt => Execute({"IWRITE"})
    /\ Nop => Execute({"NOP", "PRINT_REG", "PRINT_CHARS"})
BY DEF Arithmetic, Unflagged, Shift, ShiftImmediate, Where, CellShift, AddWithCarry,
   SubWithCarry, CompareUnsigned, LoadImmediate, LoadIndex, LoadShiftReg, MultiplySigned,
   MultiplyUnsigned, Multiplying, DisableCell, EnableAllCells, SumSigned, SumUnsigned,
   Reducing, Read, Write, OutOfBounds, ReadAt, WriteAt, Nop

\* An opcode is executed by its case of executeInstruction(), and by no other.
LEMMA ActionOfCode ==
    ASSUME ExecuteInstruction, NEW code \in DOMAIN Opcode, Now.opcode = Opcode[code]
    PROVE  /\ failure = "none" /\ ~Ended /\ Decodable(words[pc])
           /\ pc' = pc + 1 /\ words' = words
           /\ code \in DOMAIN OperatorOf => Arithmetic(code)
           /\ code = "ADDC" => AddWithCarry
           /\ code = "SUBC" => SubWithCarry
           /\ code = "NOT" => Unflagged({"NOT"}, [l \in Lanes |-> Complement(Left[l])])
           /\ code = "POPCNT" => Unflagged({"POPCNT"}, [l \in Lanes |-> PopCount(Left[l])])
           /\ code = "BIT_REVERSE" => Unflagged({"BIT_REVERSE"}, [l \in Lanes |-> Reversed(Left[l])])
           /\ code = "ULT" => CompareUnsigned
           /\ code = "SHL" => Shift("SHL", "shl")
           /\ code = "SHR" => Shift("SHR", "shr")
           /\ code = "SHRA" => Shift("SHRA", "shra")
           /\ code = "ISHL" => ShiftImmediate("ISHL", "shl")
           /\ code = "ISHR" => ShiftImmediate("ISHR", "shr")
           /\ code = "ISHRA" => ShiftImmediate("ISHRA", "shra")
           /\ code = "VLOAD" => LoadImmediate
           /\ code = "LDIX" => LoadIndex
           /\ code = "LDSH" => LoadShiftReg
           /\ code = "MULT_LO" => Unflagged({"MULT_LO"}, mult.low)
           /\ code = "MULT_HI" => Unflagged({"MULT_HI"}, mult.high)
           /\ code = "MULT" => MultiplySigned
           /\ code = "MULT_U" => MultiplyUnsigned
           /\ code = "WHERE_CRY" => Where("WHERE_CRY", flags.carry)
           /\ code = "WHERE_EQ" => Where("WHERE_EQ", flags.eq)
           /\ code = "WHERE_LT" => Where("WHERE_LT", flags.lt)
           /\ code = "END_WHERE" => Where("END_WHERE", Everywhere(1))
           /\ code = "DISABLE_CELL" => DisableCell
           /\ code = "ENABLE_ALL_CELLS" => EnableAllCells
           /\ code = "CELL_SHL" => CellShift("CELL_SHL", 1)
           /\ code = "CELL_SHR" => CellShift("CELL_SHR", -1)
           /\ code = "REDUCE" => SumSigned
           /\ code = "REDUCE_U" => SumUnsigned
           /\ code = "READ" => Read \/ OutOfBounds
           /\ code = "WRITE" => Write \/ OutOfBounds
           /\ code = "IREAD" => ReadAt
           /\ code = "IWRITE" => WriteAt
           /\ code = "NOP" => Nop
  <1>1. \A names : Execute(names) /\ names \subseteq DOMAIN Opcode => code \in names
    BY OpcodeAmong DEF Execute
  <1>2. ASSUME NEW name \in DOMAIN OperatorOf, Arithmetic(name) PROVE code = name
    <2>1. {name} \subseteq DOMAIN Opcode
      BY DEF OperatorOf, Opcode
    <2>2. Execute({name})
      BY <1>2, ActionsExecute
    <2>3. code \in {name}
      BY <1>1, <2>1, <2>2
    <2> QED BY <2>3
  <1>3. AddWithCarry => code \in {"ADDC"}
    <2>1. {"ADDC"} \subseteq DOMAIN Opcode
      BY DEF Opcode
    <2> QED BY <1>1, <2>1, ActionsExecute
  <1>4. SubWithCarry => code \in {"SUBC"}
    <2>1. {"SUBC"} \subseteq DOMAIN Opcode
      BY DEF Opcode
    <2> QED BY <1>1, <2>1, ActionsExecute
  <1>5. Unflagged({"NOT"}, [l \in Lanes |-> Complement(Left[l])]) => code \in {"NOT"}
    <2>1. {"NOT"} \subseteq DOMAIN Opcode
      BY DEF Opcode
    <2> QED BY <1>1, <2>1, ActionsExecute
  <1>6. Unflagged({"POPCNT"}, [l \in Lanes |-> PopCount(Left[l])]) => code \in {"POPCNT"}
    <2>1. {"POPCNT"} \subseteq DOMAIN Opcode
      BY DEF Opcode
    <2> QED BY <1>1, <2>1, ActionsExecute
  <1>7. Unflagged({"BIT_REVERSE"}, [l \in Lanes |-> Reversed(Left[l])]) => code \in {"BIT_REVERSE"}
    <2>1. {"BIT_REVERSE"} \subseteq DOMAIN Opcode
      BY DEF Opcode
    <2> QED BY <1>1, <2>1, ActionsExecute
  <1>8. CompareUnsigned => code \in {"ULT"}
    <2>1. {"ULT"} \subseteq DOMAIN Opcode
      BY DEF Opcode
    <2> QED BY <1>1, <2>1, ActionsExecute
  <1>9. Shift("SHL", "shl") => code \in {"SHL"}
    <2>1. {"SHL"} \subseteq DOMAIN Opcode
      BY DEF Opcode
    <2> QED BY <1>1, <2>1, ActionsExecute
  <1>10. Shift("SHR", "shr") => code \in {"SHR"}
    <2>1. {"SHR"} \subseteq DOMAIN Opcode
      BY DEF Opcode
    <2> QED BY <1>1, <2>1, ActionsExecute
  <1>11. Shift("SHRA", "shra") => code \in {"SHRA"}
    <2>1. {"SHRA"} \subseteq DOMAIN Opcode
      BY DEF Opcode
    <2> QED BY <1>1, <2>1, ActionsExecute
  <1>12. ShiftImmediate("ISHL", "shl") => code \in {"ISHL"}
    <2>1. {"ISHL"} \subseteq DOMAIN Opcode
      BY DEF Opcode
    <2> QED BY <1>1, <2>1, ActionsExecute
  <1>13. ShiftImmediate("ISHR", "shr") => code \in {"ISHR"}
    <2>1. {"ISHR"} \subseteq DOMAIN Opcode
      BY DEF Opcode
    <2> QED BY <1>1, <2>1, ActionsExecute
  <1>14. ShiftImmediate("ISHRA", "shra") => code \in {"ISHRA"}
    <2>1. {"ISHRA"} \subseteq DOMAIN Opcode
      BY DEF Opcode
    <2> QED BY <1>1, <2>1, ActionsExecute
  <1>15. LoadImmediate => code \in {"VLOAD"}
    <2>1. {"VLOAD"} \subseteq DOMAIN Opcode
      BY DEF Opcode
    <2> QED BY <1>1, <2>1, ActionsExecute
  <1>16. LoadIndex => code \in {"LDIX"}
    <2>1. {"LDIX"} \subseteq DOMAIN Opcode
      BY DEF Opcode
    <2> QED BY <1>1, <2>1, ActionsExecute
  <1>17. LoadShiftReg => code \in {"LDSH"}
    <2>1. {"LDSH"} \subseteq DOMAIN Opcode
      BY DEF Opcode
    <2> QED BY <1>1, <2>1, ActionsExecute
  <1>18. Unflagged({"MULT_LO"}, mult.low) => code \in {"MULT_LO"}
    <2>1. {"MULT_LO"} \subseteq DOMAIN Opcode
      BY DEF Opcode
    <2> QED BY <1>1, <2>1, ActionsExecute
  <1>19. Unflagged({"MULT_HI"}, mult.high) => code \in {"MULT_HI"}
    <2>1. {"MULT_HI"} \subseteq DOMAIN Opcode
      BY DEF Opcode
    <2> QED BY <1>1, <2>1, ActionsExecute
  <1>20. MultiplySigned => code \in {"MULT"}
    <2>1. {"MULT"} \subseteq DOMAIN Opcode
      BY DEF Opcode
    <2> QED BY <1>1, <2>1, ActionsExecute
  <1>21. MultiplyUnsigned => code \in {"MULT_U"}
    <2>1. {"MULT_U"} \subseteq DOMAIN Opcode
      BY DEF Opcode
    <2> QED BY <1>1, <2>1, ActionsExecute
  <1>22. Where("WHERE_CRY", flags.carry) => code \in {"WHERE_CRY"}
    <2>1. {"WHERE_CRY"} \subseteq DOMAIN Opcode
      BY DEF Opcode
    <2> QED BY <1>1, <2>1, ActionsExecute
  <1>23. Where("WHERE_EQ", flags.eq) => code \in {"WHERE_EQ"}
    <2>1. {"WHERE_EQ"} \subseteq DOMAIN Opcode
      BY DEF Opcode
    <2> QED BY <1>1, <2>1, ActionsExecute
  <1>24. Where("WHERE_LT", flags.lt) => code \in {"WHERE_LT"}
    <2>1. {"WHERE_LT"} \subseteq DOMAIN Opcode
      BY DEF Opcode
    <2> QED BY <1>1, <2>1, ActionsExecute
  <1>25. Where("END_WHERE", Everywhere(1)) => code \in {"END_WHERE"}
    <2>1. {"END_WHERE"} \subseteq DOMAIN Opcode
      BY DEF Opcode
    <2> QED BY <1>1, <2>1, ActionsExecute
  <1>26. DisableCell => code \in {"DISABLE_CELL"}
    <2>1. {"DISABLE_CELL"} \subseteq DOMAIN Opcode
      BY DEF Opcode
    <2> QED BY <1>1, <2>1, ActionsExecute
  <1>27. EnableAllCells => code \in {"ENABLE_ALL_CELLS"}
    <2>1. {"ENABLE_ALL_CELLS"} \subseteq DOMAIN Opcode
      BY DEF Opcode
    <2> QED BY <1>1, <2>1, ActionsExecute
  <1>28. CellShift("CELL_SHL", 1) => code \in {"CELL_SHL"}
    <2>1. {"CELL_SHL"} \subseteq DOMAIN Opcode
      BY DEF Opcode
    <2> QED BY <1>1, <2>1, ActionsExecute
  <1>29. CellShift("CELL_SHR", -1) => code \in {"CELL_SHR"}
    <2>1. {"CELL_SHR"} \subseteq DOMAIN Opcode
      BY DEF Opcode
    <2> QED BY <1>1, <2>1, ActionsExecute
  <1>30. SumSigned => code \in {"REDUCE"}
    <2>1. {"REDUCE"} \subseteq DOMAIN Opcode
      BY DEF Opcode
    <2> QED BY <1>1, <2>1, ActionsExecute
  <1>31. SumUnsigned => code \in {"REDUCE_U"}
    <2>1. {"REDUCE_U"} \subseteq DOMAIN Opcode
      BY DEF Opcode
    <2> QED BY <1>1, <2>1, ActionsExecute
  <1>32. Read => code \in {"READ"}
    <2>1. {"READ"} \subseteq DOMAIN Opcode
      BY DEF Opcode
    <2> QED BY <1>1, <2>1, ActionsExecute
  <1>33. Write => code \in {"WRITE"}
    <2>1. {"WRITE"} \subseteq DOMAIN Opcode
      BY DEF Opcode
    <2> QED BY <1>1, <2>1, ActionsExecute
  <1>34. OutOfBounds => code \in {"READ", "WRITE"}
    <2>1. {"READ", "WRITE"} \subseteq DOMAIN Opcode
      BY DEF Opcode
    <2> QED BY <1>1, <2>1, ActionsExecute
  <1>35. ReadAt => code \in {"IREAD"}
    <2>1. {"IREAD"} \subseteq DOMAIN Opcode
      BY DEF Opcode
    <2> QED BY <1>1, <2>1, ActionsExecute
  <1>36. WriteAt => code \in {"IWRITE"}
    <2>1. {"IWRITE"} \subseteq DOMAIN Opcode
      BY DEF Opcode
    <2> QED BY <1>1, <2>1, ActionsExecute
  <1>37. Nop => code \in {"NOP", "PRINT_REG", "PRINT_CHARS"}
    <2>1. {"NOP", "PRINT_REG", "PRINT_CHARS"} \subseteq DOMAIN Opcode
      BY DEF Opcode
    <2> QED BY <1>1, <2>1, ActionsExecute
  <1>38. \A names : Execute(names) =>
            /\ failure = "none" /\ ~Ended /\ Decodable(words[pc])
            /\ pc' = pc + 1 /\ words' = words
    BY DEF Execute
  <1>39. \E names : Execute(names)
    BY ActionsExecute DEF ExecuteInstruction, Unary, Shifting, LoadProduct, Selecting
  <1>40. DOMAIN OperatorOf = {"ADD", "SUB", "OR", "AND", "XOR", "EQ", "LT"}
    BY DEF OperatorOf
  <1> QED BY <1>2, <1>3, <1>4, <1>5, <1>6, <1>7, <1>8, <1>9, <1>10, <1>11, <1>12,
             <1>13, <1>14, <1>15, <1>16, <1>17, <1>18, <1>19, <1>20, <1>21, <1>22,
             <1>23, <1>24, <1>25, <1>26, <1>27, <1>28, <1>29, <1>30, <1>31, <1>32,
             <1>33, <1>34, <1>35, <1>36, <1>37, <1>38, <1>39, <1>40
      DEF ExecuteInstruction, Unary, Shifting, LoadProduct, Selecting

-----------------------------------------------------------------------------
(***************************************************************************)
(* The kernel that is executed stays the one that was written.             *)
(***************************************************************************)
KernelWritten ==
    /\ kernel \in Kernels
    /\ words = KernelWords(kernel.statements)
    /\ \A n \in DOMAIN Appended(kernel.statements) :
          Constructible(Appended(kernel.statements)[n])

\* No step changes the program or the kernel it was written as.
LEMMA StepsKeepTheKernel ==
    ASSUME [Next]_vars
    PROVE  words' = words /\ kernel' = kernel
  <1>1. CASE ExecuteInstruction /\ UNCHANGED <<kernel, answer>>
    <2>1. \E names : Execute(names)
      BY <1>1, ActionsExecute DEF ExecuteInstruction, Unary, Shifting, LoadProduct, Selecting
    <2> QED BY <1>1, <2>1 DEF Execute
  <1>2. ASSUME NEW from \in Sources, NEW mode \in {"short", "sign_extend"},
               ReadResults(from, mode)
        PROVE  words' = words /\ kernel' = kernel
    BY <1>2 DEF ReadResults, lanesVars
  <1>3. CASE Rest
    BY <1>3 DEF Rest, vars, lanesVars
  <1>4. CASE UNCHANGED vars
    BY <1>4 DEF vars, lanesVars
  <1> QED BY <1>1, <1>2, <1>3, <1>4 DEF Next

\* At every moment the program is the assembly of a kernel of written statements
\* (Kernel::append on what the Operand methods construct).
THEOREM KernelStaysWritten == Spec => []KernelWritten
  <1>1. Init => KernelWritten
    BY DEF Init, KernelWritten, Start
  <1>2. KernelWritten /\ [Next]_vars => KernelWritten'
    BY StepsKeepTheKernel DEF KernelWritten
  <1> QED BY <1>1, <1>2, PTL DEF Spec

\* The statements of the kernel, its instructions and its words.
LEMMA KernelShape ==
    ASSUME KernelWritten
    PROVE  /\ WrittenAll(kernel.statements)
           /\ Places(Starts(kernel.statements), kernel.statements)
           /\ Len(Appended(kernel.statements)) \in Nat
           /\ Len(words) = Len(Appended(kernel.statements))
           /\ DOMAIN words = 1..Len(words)
           /\ \A p \in 1..Len(words) :
                 /\ words[p] = Assembled(Appended(kernel.statements)[p])
                 /\ Constructible(Appended(kernel.statements)[p])
                 /\ Proper(Appended(kernel.statements)[p])
  <1> DEFINE built == Appended(kernel.statements)
  <1>1. WrittenAll(kernel.statements)
    BY KernelsAssumption DEF KernelWritten, WrittenAll
  <1>2. Places(Starts(kernel.statements), kernel.statements)
    BY <1>1, PlacesExist DEF Starts
  <1>3. Len(built) \in Nat /\ DOMAIN built = 1..Len(built)
    <2>1. PICK S : built \in Seq(S)
      BY <1>1, PlacesExist
    <2> HIDE DEF built
    <2> QED BY <2>1
  <1>4. words = [p \in 1..Len(built) |-> Assembled(built[p])]
    BY <1>3 DEF KernelWritten, KernelWords
  <1>5. Len(words) = Len(built) /\ DOMAIN words = 1..Len(built)
    <2> HIDE DEF built
    <2> QED BY <1>3, <1>4
  <1>6. \A p \in 1..Len(built) : Constructible(built[p])
    BY <1>3 DEF KernelWritten
  <1>7. \A p \in 1..Len(built) : Proper(built[p])
    BY <1>1, <1>6, AppendedIsProper
  <1>8. \A p \in 1..Len(built) : words[p] = Assembled(built[p])
    BY <1>4
  <1> HIDE DEF built
  <1> QED BY <1>1, <1>2, <1>3, <1>5, <1>6, <1>7, <1>8 DEF built

-----------------------------------------------------------------------------
(***************************************************************************)
(* The words show the simulator what was constructed.                      *)
(***************************************************************************)
\* Each word that the simulator makes an instruction of has the opcode and the
\* operands that the program constructed, and is one it accepts: what
\* Instruction::assemble() and the constructor from a word do for the
\* instructions of Operand.cpp, for every kernel.
THEOREM WordsAreDecodedAsConstructed == Spec => []DecodedAsConstructed
  <1>1. KernelWritten => DecodedAsConstructed
    <2> SUFFICES ASSUME KernelWritten PROVE DecodedAsConstructed
      OBVIOUS
    <2> DEFINE built == Appended(kernel.statements)
    <2>1. /\ Len(words) = Len(built) /\ DOMAIN words = 1..Len(words)
          /\ \A p \in 1..Len(words) : words[p] = Assembled(built[p]) /\ Proper(built[p])
      BY KernelShape
    <2>2. ASSUME NEW p \in 1..Len(words)
          PROVE  Decodable(words[p]) /\ Presented(Disassembled(words[p])) = Presented(built[p])
      <3>1. PICK code, right, left, dest :
                Fits(code, right, left, dest) /\ built[p] = New(code, right, left, dest)
        BY <2>1 DEF Proper
      <3>2. words[p] = Assembled(New(code, right, left, dest))
        BY <2>1, <3>1
      <3> QED BY <3>1, <3>2, SeenInWord
    <2> QED BY <2>1, <2>2 DEF DecodedAsConstructed
  <1> QED BY <1>1, KernelStaysWritten, PTL

-----------------------------------------------------------------------------
(***************************************************************************)
(* Types.                                                                  *)
(***************************************************************************)
NowIs(code, right, left, dest) ==
    /\ Fits(code, right, left, dest)
    /\ words[pc] = Assembled(New(code, right, left, dest))

\* The next word is that of an instruction that fits.
LEMMA NowFits ==
    ASSUME KernelWritten, LanesTypeOK, ~Ended
    PROVE  \E code, right, left, dest : NowIs(code, right, left, dest)
  <1>1. pc \in 1..Len(words)
    <2>1. Len(words) \in Nat
      BY KernelShape
    <2> QED BY <2>1 DEF LanesTypeOK, Ended
  <1>2. words[pc] = Assembled(Appended(kernel.statements)[pc])
        /\ Proper(Appended(kernel.statements)[pc])
    BY <1>1, KernelShape
  <1> QED BY <1>2 DEF Proper, NowIs

\* The operands that it addresses.
LEMMA NowSeen ==
    ASSUME LanesTypeOK, NEW code, NEW right, NEW left, NEW dest,
           NowIs(code, right, left, dest)
    PROVE  /\ code \in Codes /\ code \in DOMAIN Opcode
           /\ Now.opcode = Opcode[code]
           /\ Decodable(words[pc])
           /\ code \in UsesLeft => Left = registerFile[left] /\ Left \in Vectors
           /\ code \in UsesRight => Right = registerFile[right] /\ Right \in Vectors
           /\ code \in UsesDest => GetDest(Now) = dest /\ dest \in Registers
           /\ code \in ShiftCodes \cup {"IREAD", "IWRITE"} => GetValue(Now) = right
           /\ code = "VLOAD" => GetValue(Now) = Immediate(right)
  <1>1. Fits(code, right, left, dest) /\ Now = Disassembled(Assembled(New(code, right, left, dest)))
    BY DEF NowIs, Now
  <1>2. code \in Codes /\ code \in DOMAIN Opcode
    BY <1>1, CodesAreNames DEF Fits
  <1>3. /\ Decodable(words[pc])
        /\ Now.opcode = Opcode[code]
        /\ code \in UsesLeft => GetLeft(Now) = left
        /\ code \in UsesRight => GetRight(Now) = right
        /\ code \in UsesDest => GetDest(Now) = dest
        /\ code \in ShiftCodes \cup {"IREAD", "IWRITE"} => GetValue(Now) = right
        /\ code = "VLOAD" => GetValue(Now) = Immediate(right)
    BY <1>1, SeenInWord DEF NowIs
  <1>4. /\ code \in UsesLeft => left \in Registers
        /\ code \in UsesRight => right \in Registers
        /\ code \in UsesDest => dest \in Registers
    BY <1>1 DEF Fits
  <1>5. registerFile \in [Registers -> Vectors]
    BY DEF LanesTypeOK
  <1> QED BY <1>2, <1>3, <1>4, <1>5 DEF Left, Right

\* An assignment keeps the register file one of vectors.
LEMMA AssignedTyped ==
    ASSUME LanesTypeOK, NEW vector, vector \in Vectors, AssignDest(vector)
    PROVE  registerFile' \in [Registers -> Vectors]
  <1>1. registerFile \in [Registers -> Vectors]
    BY DEF LanesTypeOK
  <1>2. \A old \in Vectors : AssignedWhere(old, vector) \in Vectors
    BY DEF AssignedWhere, Vectors
  <1>3. registerFile' = [registerFile EXCEPT
            ![GetDest(Now)] = AssignedWhere(registerFile[GetDest(Now)], vector)]
    BY DEF AssignDest
  <1> QED BY <1>1, <1>2, <1>3

\* What the operators with flags leave in the lanes.
LEMMA FlagsTyped ==
    ASSUME NEW op, NEW left, NEW right, NEW carry, NEW f \in {"carry", "eq", "lt"}
    PROVE  Flags(op, left, right, carry)[f] \in [Lanes -> {0, 1}]
  <1>1. \A b : AsFlag(b) \in {0, 1}
    BY DEF AsFlag
  <1> QED BY <1>1 DEF Flags

\* What an operator of ConnexVector yields is a vector of cells.
LEMMA ResultTyped ==
    ASSUME NEW left \in Vectors, NEW right \in Vectors,
           NEW op \in {"+", "-", "==", "<", "|", "&", "^"}
    PROVE  ResultVector(op, left, right) \in Vectors
BY ResultIsCell DEF ResultVector, Vectors

\* A flag is a cell.
LEMMA FlagsAreCells ==
    /\ {0, 1} \subseteq Cells
    /\ [Lanes -> {0, 1}] \subseteq Vectors
  <1>1. 0 \in Cells /\ 1 \in Cells
    BY ValuesEven DEF Cells
  <1> QED BY <1>1 DEF Vectors

\* What reduce() and reduce_u() return is a number.
LEMMA SignedSumIsInt ==
    ASSUME NEW cells \in Vectors, NEW B \in SUBSET Lanes
    PROVE  SumOf(LAMBDA l : Signed(cells[l]), B) \in Int
  <1> DEFINE f == [l \in Lanes |-> Signed(cells[l])]
  <1>1. SumOf(LAMBDA l : Signed(cells[l]), B) = SumOver(f, B)
    BY SumOfSigned
  <1>2. \A l \in Lanes : f[l] \in Int
    BY SignedRange DEF Vectors
  <1>3. IsFiniteSet(Lanes)
    BY LaneNumbers
  <1> HIDE DEF f
  <1>4. SumOver(f, B) \in Int
    BY <1>2, <1>3, SumIsInt
  <1> QED BY <1>1, <1>4

\* The unsigned sum of a vector is an integer.
LEMMA UnsignedSumIsInt ==
    ASSUME NEW cells \in Vectors, NEW B \in SUBSET Lanes
    PROVE  SumOf(LAMBDA l : cells[l], B) \in Int
  <1>1. SumOf(LAMBDA l : cells[l], B) = SumOver(cells, B)
    BY DEF SumOf, SumOver
  <1>2. \A l \in Lanes : cells[l] \in Int
    BY CellOfCell DEF Vectors
  <1>3. IsFiniteSet(Lanes)
    BY LaneNumbers
  <1>4. SumOver(cells, B) \in Int
    BY <1>2, <1>3, SumIsInt
  <1> QED BY <1>1, <1>4

\* An instruction keeps the types of the lanes.
LEMMA ExecutionTyped ==
    ASSUME KernelWritten, LanesTypeOK, ExecuteInstruction
    PROVE  LanesTypeOK'
  <1>1. ~Ended
    <2>1. \E names : Execute(names)
      BY ActionsExecute DEF ExecuteInstruction, Unary, Shifting, LoadProduct, Selecting
    <2> QED BY <2>1 DEF Execute
  <1>2. PICK code, right, left, dest : NowIs(code, right, left, dest)
    BY <1>1, NowFits
  <1>3. /\ code \in Codes /\ code \in DOMAIN Opcode /\ Now.opcode = Opcode[code]
        /\ code \in UsesLeft => Left \in Vectors
        /\ code \in UsesRight => Right \in Vectors
        /\ code \in ShiftCodes \cup {"IREAD", "IWRITE"} => GetValue(Now) = right
        /\ code = "VLOAD" => GetValue(Now) = Immediate(right)
    BY <1>2, NowSeen
  <1>4. /\ right \in Int
        /\ code \in RegisterCodes => right \in 0..31
        /\ code \in {"IREAD", "IWRITE"} => right \in Rows
    BY <1>2 DEF NowIs, Fits
  <1>5. pc' \in 1..(Len(words') + 1)
    <2>1. pc' = pc + 1 /\ words' = words
      BY <1>3, ActionOfCode
    <2>2. Len(words) \in Nat
      BY KernelShape
    <2> QED BY <1>1, <2>1, <2>2 DEF LanesTypeOK, Ended
  <1>6. ASSUME NEW vector, vector \in Vectors, NEW names, Unflagged(names, vector)
        PROVE  LanesTypeOK'
    <2>1. registerFile' \in [Registers -> Vectors]
      BY <1>6, AssignedTyped DEF Unflagged
    <2> QED BY <1>5, <1>6, <2>1 DEF Unflagged, LanesTypeOK
  <1>7. CASE code \in DOMAIN OperatorOf
    <2>1. Arithmetic(code)
      BY <1>3, <1>7, ActionOfCode
    <2>2. code \in UsesLeft /\ code \in UsesRight
      BY <1>7 DEF OperatorOf, UsesLeft, UsesRight, TwoOperands
    <2>3. OperatorOf[code] \in {"+", "-", "==", "<", "|", "&", "^"}
      BY <1>7 DEF OperatorOf
    <2>4. registerFile' \in [Registers -> Vectors]
      BY <1>3, <2>1, <2>2, <2>3, ResultTyped, AssignedTyped DEF Arithmetic
    <2>5. \A f \in {"carry", "eq", "lt"} : flags'[f] \in [Lanes -> {0, 1}]
      BY <2>1, FlagsTyped DEF Arithmetic
    <2> QED BY <1>5, <2>1, <2>4, <2>5 DEF Arithmetic, LanesTypeOK
  <1>8. CASE code = "ADDC"
    <2>1. AddWithCarry
      BY <1>3, <1>8, ActionOfCode
    <2>2. Left \in Vectors /\ Right \in Vectors /\ flags.carry \in Vectors
      BY <1>3, <1>8, FlagsAreCells DEF UsesLeft, UsesRight, TwoOperands, LanesTypeOK
    <2>3. ResultVector("+", flags.carry, Left) \in Vectors
      BY <2>2, ResultTyped
    <2>4. ResultVector("+", ResultVector("+", flags.carry, Left), Right) \in Vectors
      BY <2>2, <2>3, ResultTyped
    <2>5. registerFile' \in [Registers -> Vectors]
      BY <2>1, <2>4, AssignedTyped DEF AddWithCarry
    <2>6. \A f \in {"carry", "eq", "lt"} : flags'[f] \in [Lanes -> {0, 1}]
      BY <2>1, FlagsTyped DEF AddWithCarry
    <2> QED BY <1>5, <2>1, <2>5, <2>6 DEF AddWithCarry, LanesTypeOK
  <1>9. CASE code = "SUBC"
    <2>1. SubWithCarry
      BY <1>3, <1>9, ActionOfCode
    <2>2. Left \in Vectors /\ Right \in Vectors /\ flags.carry \in Vectors
      BY <1>3, <1>9, FlagsAreCells DEF UsesLeft, UsesRight, TwoOperands, LanesTypeOK
    <2>3. ResultVector("-", Left, flags.carry) \in Vectors
      BY <2>2, ResultTyped
    <2>4. ResultVector("-", ResultVector("-", Left, flags.carry), Right) \in Vectors
      BY <2>2, <2>3, ResultTyped
    <2>5. registerFile' \in [Registers -> Vectors]
      BY <2>1, <2>4, AssignedTyped DEF SubWithCarry
    <2>6. \A f \in {"carry", "eq", "lt"} : flags'[f] \in [Lanes -> {0, 1}]
      BY <2>1, FlagsTyped DEF SubWithCarry
    <2> QED BY <1>5, <2>1, <2>5, <2>6 DEF SubWithCarry, LanesTypeOK
  <1>10. CASE code \in {"NOT", "POPCNT", "BIT_REVERSE"}
    <2>1. Left \in Vectors
      BY <1>3, <1>10 DEF UsesLeft
    <2>2. \A l \in Lanes : Left[l] \in Cells
      BY <2>1 DEF Vectors
    <2>3. /\ [l \in Lanes |-> Complement(Left[l])] \in Vectors
          /\ [l \in Lanes |-> PopCount(Left[l])] \in Vectors
          /\ [l \in Lanes |-> Reversed(Left[l])] \in Vectors
      BY <2>2, ComplementOfCell, PopCountOfCell, ReversedCell DEF Vectors
    <2>4. \E names, vector : vector \in Vectors /\ Unflagged(names, vector)
      BY <1>3, <1>10, <2>3, ActionOfCode
    <2> QED BY <1>6, <2>4
  <1>11. CASE code = "ULT"
    <2>1. [l \in Lanes |-> UnsignedLess(Left[l], Right[l])] \in Vectors
      BY FlagsAreCells DEF Vectors, UnsignedLess, AsFlag
    <2>2. CompareUnsigned
      BY <1>3, <1>11, ActionOfCode
    <2> QED BY <1>6, <2>1, <2>2 DEF CompareUnsigned
  <1>12. CASE code \in {"SHL", "SHR", "SHRA"}
    <2>1. PICK name, op : op \in {"shl", "shr", "shra"} /\ Shift(name, op)
      BY <1>3, <1>12, ActionOfCode
    <2>2. Left \in Vectors
      BY <1>3, <1>12 DEF UsesLeft, TwoOperands
    <2>3. PICK number \in ShiftNumbers([l \in Selected |-> Signed(Right[l])]) :
              AssignDest([l \in Lanes |->
                  IF IsCellActive(l) THEN ShiftBy(op, Left[l], number[l]) ELSE Left[l]])
      BY <2>1 DEF Shift
    <2>4. \A l \in Lanes : IsCellActive(l) => number[l] \in Nat
      BY <2>3, ShiftNumbersAreNumbers DEF Selected
    <2>5. [l \in Lanes |-> IF IsCellActive(l) THEN ShiftBy(op, Left[l], number[l])
                           ELSE Left[l]] \in Vectors
      BY <2>1, <2>2, <2>4, ShiftIsCell DEF Vectors
    <2>6. registerFile' \in [Registers -> Vectors]
      BY <2>3, <2>5, AssignedTyped
    <2> QED BY <1>5, <2>1, <2>6 DEF Shift, LanesTypeOK
  <1>13. CASE code \in ShiftCodes
    <2>1. PICK name, op : op \in {"shl", "shr", "shra"} /\ ShiftImmediate(name, op)
      BY <1>3, <1>13, ActionOfCode DEF ShiftCodes
    <2>2. Left \in Vectors /\ right \in Nat
      BY <1>3, <1>4, <1>13 DEF UsesLeft, ShiftCodes, RegisterCodes
    <2>3. GetValue(Now) = right
      BY <1>3, <1>13
    <2>4. [l \in Lanes |-> ShiftBy(op, Left[l], GetValue(Now))] \in Vectors
      BY <2>1, <2>2, <2>3, ShiftIsCell DEF Vectors
    <2> QED BY <1>6, <2>1, <2>4 DEF ShiftImmediate
  <1>14. CASE code \in {"VLOAD", "LDIX", "LDSH"}
    <2>1. code = "VLOAD" => Cell(GetValue(Now)) \in Cells
      BY <1>3, <1>4, SixteenBits, CellIsCell
    <2>2. code = "VLOAD" => Everywhere(Cell(GetValue(Now))) \in Vectors
      BY <2>1 DEF Everywhere, Vectors
    <2>3. [l \in Lanes |-> Cell(l)] \in Vectors
      BY LaneNumbers, CellIsCell DEF Vectors
    <2>4. shiftReg \in Vectors
      BY DEF LanesTypeOK
    <2>5. \/ code = "VLOAD" /\ LoadImmediate
          \/ LoadIndex
          \/ LoadShiftReg
      BY <1>3, <1>14, ActionOfCode
    <2> QED BY <1>6, <2>2, <2>3, <2>4, <2>5 DEF LoadImmediate, LoadIndex, LoadShiftReg
  <1>15. CASE code \in {"MULT_LO", "MULT_HI"}
    <2>1. mult.low \in Vectors /\ mult.high \in Vectors
      BY DEF LanesTypeOK
    <2>2. \E names : Unflagged(names, mult.low) \/ Unflagged(names, mult.high)
      BY <1>3, <1>15, ActionOfCode
    <2> QED BY <1>6, <2>1, <2>2
  <1>16. CASE code \in {"MULT", "MULT_U"}
    <2>1. Left \in Vectors /\ Right \in Vectors
      BY <1>3, <1>16 DEF UsesLeft, UsesRight, TwoOperands
    <2>2. \A l \in Lanes : Left[l] \in Cells /\ Right[l] \in Cells
      BY <2>1 DEF Vectors
    <2>3. \A c \in Cells : c \in Int /\ Signed(c) \in Int
      BY CellOfCell, SignedRange
    <2>4. \A old \in Vectors : \A new \in Vectors : AssignedWhere(old, new) \in Vectors
      BY DEF AssignedWhere, Vectors
    <2>5. mult.low \in Vectors /\ mult.high \in Vectors
      BY DEF LanesTypeOK
    <2> DEFINE Halves(product) ==
                 [low  |-> AssignedWhere(mult.low, [l \in Lanes |-> LowHalf(product[l])]),
                  high |-> AssignedWhere(mult.high, [l \in Lanes |-> HighHalf(product[l])])]
    <2>6. ASSUME NEW product, \A l \in Lanes : product[l] \in Int
          PROVE  Halves(product) \in [low : Vectors, high : Vectors]
      <3>1. [l \in Lanes |-> LowHalf(product[l])] \in Vectors
            /\ [l \in Lanes |-> HighHalf(product[l])] \in Vectors
        BY <2>6, HalvesAreCells DEF Vectors
      <3> QED BY <2>4, <2>5, <3>1
    <2> HIDE DEF Halves
    <2>7. CASE MultiplySigned
      <3>1. mult' = Halves([l \in Lanes |-> Signed(Left[l]) * Signed(Right[l])])
        BY <2>7 DEF MultiplySigned, Multiplying, Halves
      <3>2. \A l \in Lanes :
                [k \in Lanes |-> Signed(Left[k]) * Signed(Right[k])][l] \in Int
        BY <2>2, <2>3
      <3>3. mult' \in [low : Vectors, high : Vectors]
        BY <2>6, <3>1, <3>2
      <3> QED BY <1>5, <2>7, <3>3 DEF MultiplySigned, Multiplying, LanesTypeOK
    <2>8. CASE MultiplyUnsigned
      <3>1. mult' = Halves([l \in Lanes |-> Left[l] * Right[l]])
        BY <2>8 DEF MultiplyUnsigned, Multiplying, Halves
      <3>2. \A l \in Lanes : [k \in Lanes |-> Left[k] * Right[k]][l] \in Int
        BY <2>2, <2>3
      <3>3. mult' \in [low : Vectors, high : Vectors]
        BY <2>6, <3>1, <3>2
      <3> QED BY <1>5, <2>8, <3>3 DEF MultiplyUnsigned, Multiplying, LanesTypeOK
    <2> QED BY <1>3, <1>16, <2>7, <2>8, ActionOfCode
  <1>17. CASE code \in {"WHERE_CRY", "WHERE_EQ", "WHERE_LT", "END_WHERE"}
    <2>1. PICK name, flag :
              /\ flag \in {flags.carry, flags.eq, flags.lt, Everywhere(1)}
              /\ Where(name, flag)
      BY <1>3, <1>17, ActionOfCode
    <2>2. flag \in [Lanes -> {0, 1}]
      BY <2>1 DEF LanesTypeOK, Everywhere
    <2> QED BY <1>5, <2>1, <2>2 DEF Where, LanesTypeOK
  <1>18. CASE code \in {"DISABLE_CELL", "ENABLE_ALL_CELLS"}
    <2>1. DisableCell \/ EnableAllCells
      BY <1>3, <1>18, ActionOfCode
    <2>2. cellDisabled' \in [Lanes -> {0, 1}]
      BY <2>1 DEF DisableCell, EnableAllCells, AssignedWhere, Everywhere, LanesTypeOK
    <2> QED BY <1>5, <2>1, <2>2 DEF DisableCell, EnableAllCells, LanesTypeOK
  <1>19. CASE code \in {"CELL_SHL", "CELL_SHR"}
    <2>0. CellShift("CELL_SHL", 1) \/ CellShift("CELL_SHR", -1)
      BY <1>3, <1>19, ActionOfCode
    <2>1. PICK name, direction : direction \in {-1, 1} /\ CellShift(name, direction)
      BY <2>0
    <2>2. Left \in Vectors /\ Right \in Vectors
      BY <1>3, <1>19 DEF UsesLeft, UsesRight, TwoOperands
    <2> DEFINE counts == [l \in Lanes |-> Signed(Right[l])]
    <2>3. \A l \in Lanes : counts[l] \in Int /\ counts[l] <= Half
      BY <2>2, SignedRange, ValuesEven DEF Vectors
    <2>4. \/ failure' = "hang" /\ shiftReg' = shiftReg
          \/ /\ \A l \in Lanes : ~(counts[l] < 0)
             /\ shiftReg' = ShiftedCells(Left, counts, direction) /\ failure' = failure
      BY <2>1 DEF CellShift
    <2> HIDE DEF counts
    <2>5. shiftReg' \in Vectors /\ failure' \in {"none", "assert", "hang"}
      <3>1. CASE failure' = "hang" /\ shiftReg' = shiftReg
        BY <3>1 DEF LanesTypeOK
      <3>2. CASE /\ \A l \in Lanes : ~(counts[l] < 0)
                 /\ shiftReg' = ShiftedCells(Left, counts, direction) /\ failure' = failure
        <4>1. \A l \in Lanes : counts[l] \in Nat
          BY <2>3, <3>2
        <4>2. Half \in Nat
          BY ValuesEven
        <4>3. ShiftedCells(Left, counts, direction) \in Vectors
          BY <2>1, <2>2, <2>3, <4>1, <4>2, ShiftedCellsTyped
        <4> QED BY <3>2, <4>3 DEF LanesTypeOK
      <3> QED BY <2>4, <3>1, <3>2
    <2> QED BY <1>5, <2>1, <2>5 DEF CellShift, LanesTypeOK
  <1>20. CASE code \in {"REDUCE", "REDUCE_U"}
    <2>1. Left \in Vectors
      BY <1>3, <1>20 DEF UsesLeft
    <2>2. Selected \in SUBSET Lanes
      BY DEF Selected
    <2>3. PICK sum \in Int : reductions' = Append(reductions, sum)
      <3>1. CASE SumSigned
        BY <2>1, <2>2, <3>1, SignedSumIsInt DEF SumSigned, Reducing
      <3>2. CASE SumUnsigned
        BY <2>1, <2>2, <3>2, UnsignedSumIsInt DEF SumUnsigned, Reducing
      <3> QED BY <1>3, <1>20, <3>1, <3>2, ActionOfCode
    <2>4. reductions' \in Seq(Int)
      BY <2>3 DEF LanesTypeOK
    <2>5. UNCHANGED <<registerFile, localStore, flags, active, cellDisabled, mult, shiftReg,
                      failure>>
      BY <1>3, <1>20, ActionOfCode DEF SumSigned, SumUnsigned, Reducing
    <2> QED BY <1>5, <2>4, <2>5 DEF LanesTypeOK
  <1>21. CASE code \in {"READ", "WRITE"}
    <2>1. Right \in Vectors
      BY <1>3, <1>21 DEF UsesRight, TwoOperands
    <2>2. CASE OutOfBounds
      BY <1>5, <2>2 DEF OutOfBounds, LanesTypeOK
    <2>3. CASE Read
      <3>1. \A l \in Lanes : IsCellActive(l) => localStore[Address(l)][l] \in Cells
        BY <2>3 DEF Read, Selected, LanesTypeOK, Vectors
      <3>2. [l \in Lanes |-> IF IsCellActive(l) THEN localStore[Address(l)][l] ELSE 0] \in Vectors
        BY <3>1, FlagsAreCells DEF Vectors
      <3>3. registerFile' \in [Registers -> Vectors]
        BY <2>3, <3>2, AssignedTyped DEF Read
      <3> QED BY <1>5, <2>3, <3>3 DEF Read, LanesTypeOK
    <2>4. CASE code = "WRITE" /\ Write
      <3>1. Left \in Vectors
        BY <1>3, <2>4 DEF UsesLeft, TwoOperands
      <3>2. localStore' \in [Rows -> Vectors]
        BY <2>4, <3>1 DEF Write, LanesTypeOK, Vectors
      <3> QED BY <1>5, <2>4, <3>2 DEF Write, LanesTypeOK
    <2> QED BY <1>3, <1>21, <2>2, <2>3, <2>4, ActionOfCode
  <1>22. CASE code = "IREAD"
    <2>1. ReadAt /\ GetValue(Now) \in Rows
      BY <1>3, <1>4, <1>22, ActionOfCode
    <2>2. localStore[GetValue(Now)] \in Vectors
      BY <2>1 DEF LanesTypeOK
    <2> QED BY <1>6, <2>1, <2>2 DEF ReadAt
  <1>23. CASE code = "IWRITE"
    <2>1. WriteAt /\ Left \in Vectors
      BY <1>3, <1>23, ActionOfCode DEF UsesLeft
    <2>2. \A old \in Vectors : AssignedWhere(old, Left) \in Vectors
      BY <2>1 DEF AssignedWhere, Vectors
    <2>3. localStore' \in [Rows -> Vectors]
      BY <2>1, <2>2 DEF WriteAt, LanesTypeOK
    <2> QED BY <1>5, <2>1, <2>3 DEF WriteAt, LanesTypeOK
  <1>24. CASE code = "NOP"
    BY <1>3, <1>5, <1>24, ActionOfCode DEF Nop, LanesTypeOK
  <1>25. DOMAIN OperatorOf = {"ADD", "SUB", "OR", "AND", "XOR", "EQ", "LT"}
    BY DEF OperatorOf
  <1> QED
    BY <1>3, <1>7, <1>8, <1>9, <1>10, <1>11, <1>12, <1>13, <1>14, <1>15, <1>16, <1>17, <1>18,
       <1>19, <1>20, <1>21, <1>22, <1>23, <1>24, <1>25
    DEF Codes, ImmediateCodes, RegisterCodes, ShiftCodes

\* The bits of a number that the processor delivers.
LEMMA ResultBitsAreBits ==
    ResultBits \in Nat /\ 2^ResultBits \in Nat \ {0} /\ 2^(ResultBits - 1) \in Nat \ {0}
  <1> DEFINE k == CHOOSE k \in 1..10 : 2^k = VectorLength
  <1>1. k \in 1..10
    <2>1. \E n \in 1..10 : 2^n = VectorLength
      BY VectorAssumption
    <2> QED BY <2>1
  <1>2. ResultBits = RegisterBits + k /\ RegisterBits \in Nat
    BY VectorAssumption DEF ResultBits
  <1> HIDE DEF k
  <1>3. ResultBits \in Nat /\ ResultBits - 1 \in Nat
    BY <1>1, <1>2
  <1> QED BY <1>3, PowerPositive

\* The bits that the processor delivers are those of a cell and more: a result
\* that is cut to a cell is the same from both FIFOs.
LEMMA ResultBitsHoldACell ==
    ASSUME NEW a \in Int
    PROVE  Cell(a % 2^ResultBits) = Cell(a)
  <1> DEFINE k == CHOOSE i \in 1..10 : 2^i = VectorLength
  <1>1. k \in 1..10
    <2>1. \E n \in 1..10 : 2^n = VectorLength
      BY VectorAssumption
    <2> QED BY <2>1
  <1>2. ResultBits = RegisterBits + k /\ RegisterBits \in Nat
    BY VectorAssumption DEF ResultBits
  <1> HIDE DEF k
  <1>3. 2^ResultBits = Values * 2^k
    BY <1>1, <1>2, PowersMultiply DEF Values
  <1>4. PICK lanes \in Nat : lanes = 2^k
    BY <1>1, PowerPositive
  <1>5. PICK all : all = 2^ResultBits
    OBVIOUS
  <1>6. all \in Nat \ {0} /\ all = Values * lanes /\ Values \in Nat
    BY <1>3, <1>4, <1>5, ResultBitsAreBits, ValuesEven
  <1>7. a % all \in Int /\ a \div all \in Int /\ a = all * (a \div all) + (a % all)
    <2>1. all \in Nat \ {0}
      BY <1>6
    <2> QED BY ONLY <2>1, a \in Int, Division
  <1>8. PICK quotient \in Int, rest \in Int : quotient = a \div all /\ rest = a % all
    BY <1>7
  <1>9. lanes * quotient \in Int /\ a = rest + Values * (lanes * quotient)
    BY ONLY <1>4, <1>6, <1>7, <1>8
  <1>10. Cell(a) = Cell(rest)
    BY <1>8, <1>9, CellOfSum
  <1> QED BY <1>5, <1>8, <1>10

\* What readCorrectReductionResults() makes of numbers is numbers.
LEMMA ResultsAreNumbers ==
    ASSUME LanesTypeOK, NEW from
    PROVE  /\ ShortResults(Delivered(from)) \in Seq(Int)
           /\ SignExtendedResults(Delivered(from), 0) \in Seq(Int)
  <1> DEFINE n == Len(reductions)
  <1>1. reductions \in Seq(Int)
    BY DEF LanesTypeOK
  <1>2. n \in Nat /\ DOMAIN reductions = 1..n /\ \A k \in 1..n : reductions[k] \in Int
    BY <1>1
  <1> HIDE DEF n
  <1>3. DOMAIN Delivered(from) = 1..n /\ \A k \in 1..n : Delivered(from)[k] \in Int
    <2>1. \A a \in Int : a % 2^ResultBits \in Int
      BY ResultBitsAreBits, Division
    <2> QED BY <1>2, <2>1 DEF Delivered
  <1>4. \A a \in Int : Signed(Cell(a)) \in Int
    BY CellIsCell, SignedRange
  <1>5. \A f : DOMAIN f = 1..n /\ f = [k \in 1..n |-> f[k]] /\ (\A k \in 1..n : f[k] \in Int)
               => f \in Seq(Int)
    BY <1>2
  <1>6. ShortResults(Delivered(from)) \in Seq(Int)
    BY <1>3, <1>4, <1>5 DEF ShortResults
  <1>7. \A a \in Int : a - 2^ResultBits \in Int
    BY ResultBitsAreBits
  <1>8. SignExtendedResults(Delivered(from), 0) \in Seq(Int)
    BY <1>3, <1>5, <1>7 DEF SignExtendedResults
  <1> QED BY <1>6, <1>8

\* Registers, local store, flags, selections, products and the shift register
\* hold cells of the number of bits they have, whatever a kernel does with them.
THEOREM LanesAreTyped == Spec => []TypeOK
  <1>1. Init => TypeOK
    <2> SUFFICES ASSUME Init PROVE TypeOK
      OBVIOUS
    <2>1. PICK k \in Kernels :
              /\ kernel = k /\ answer = NoAnswer
              /\ Start(KernelWords(k.statements), k.registers, k.store, k.selection)
              /\ \A n \in DOMAIN Appended(k.statements) :
                     Constructible(Appended(k.statements)[n])
      BY DEF Init
    <2>2. Len(words) \in Nat
      <3>1. KernelWritten
        BY <2>1 DEF KernelWritten, Start
      <3> QED BY <3>1, KernelShape
    <2>3. pc \in 1..(Len(words) + 1)
      BY <2>1, <2>2 DEF Start
    <2>4. /\ registerFile \in [Registers -> Vectors] /\ localStore \in [Rows -> Vectors]
          /\ active \in [Lanes -> {0, 1}]
      BY <2>1, KernelsAssumption DEF Start
    <2>5. Everywhere(0) \in [Lanes -> {0, 1}] /\ Everywhere(0) \in Vectors
      BY FlagsAreCells DEF Everywhere
    <2>6. LanesTypeOK
      BY <2>1, <2>3, <2>4, <2>5 DEF Start, LanesTypeOK
    <2> QED BY <2>1, <2>6 DEF TypeOK, NoAnswer
  <1>2. TypeOK /\ KernelWritten /\ [Next]_vars => TypeOK'
    <2> SUFFICES ASSUME TypeOK, KernelWritten, [Next]_vars PROVE TypeOK'
      OBVIOUS
    <2>1. CASE ExecuteInstruction /\ UNCHANGED <<kernel, answer>>
      BY <2>1, ExecutionTyped DEF TypeOK
    <2>2. ASSUME NEW from \in Sources, NEW mode \in {"short", "sign_extend"},
                 ReadResults(from, mode)
          PROVE  TypeOK'
      BY <2>2, ResultsAreNumbers DEF TypeOK, ReadResults, LanesTypeOK, lanesVars, Ended
    <2>3. CASE UNCHANGED vars
      BY <2>3 DEF TypeOK, LanesTypeOK, vars, lanesVars
    <2> QED BY <2>1, <2>2, <2>3 DEF Next, Rest
  <1> QED BY <1>1, <1>2, KernelStaysWritten, PTL DEF Spec

-----------------------------------------------------------------------------
(***************************************************************************)
(* What the operators of the simulator compute with cells is what the      *)
(* statements say of numbers.                                              *)
(***************************************************************************)
LEMMA UnsignedOfSigned ==
    ASSUME NEW c \in Cells
    PROVE  Unsigned(Signed(c)) = c
BY CellOfSigned DEF Unsigned, Cell

\* The number that is left of an integer in a cell.
LEMMA WrappedIsCell ==
    ASSUME NEW n
    PROVE  Wrapped(n) = Signed(Cell(n))
BY DEF Wrapped, Cell

\* A wrapped number is an integer.
LEMMA WrappedIsInt ==
    ASSUME NEW n \in Int
    PROVE  Wrapped(n) \in Int
BY CellIsCell, SignedRange, WrappedIsCell

\* What a cell reads as is already wrapped.
LEMMA WrappedCell ==
    ASSUME NEW c \in Cells
    PROVE  Wrapped(c) = Signed(c) /\ Wrapped(Signed(c)) = Signed(c)
BY CellOfCell, CellOfSigned, WrappedIsCell

\* Numbers that differ by whole cells wrap to the same value.
LEMMA WrappedSigned ==
    ASSUME NEW n \in Int, NEW k \in Int
    PROVE  Wrapped(n + Values * k) = Wrapped(n)
BY CellOfSum, WrappedIsCell

\* operator+, operator-, the comparisons and the bitwise operators.
LEMMA FlaggedValue ==
    ASSUME NEW x \in Cells, NEW y \in Cells, NEW c
    PROVE  /\ Signed(Result("+", x, y)) = Value("plus", Signed(x), Signed(y), c)
           /\ Signed(Result("-", x, y)) = Value("minus", Signed(x), Signed(y), c)
           /\ Signed(Result("==", x, y)) = Value("eq", Signed(x), Signed(y), c)
           /\ Signed(Result("<", x, y)) = Value("lt", Signed(x), Signed(y), c)
           /\ Signed(Result("&", x, y)) = Value("and", Signed(x), Signed(y), c)
           /\ Signed(Result("|", x, y)) = Value("or", Signed(x), Signed(y), c)
           /\ Signed(Result("^", x, y)) = Value("xor", Signed(x), Signed(y), c)
  <1> DEFINE sx == Signed(x)  sy == Signed(y)
  <1>1. Cell(sx + sy) = Cell(x + y) /\ Cell(sx - sy) = Cell(x - y)
    BY SumOfCells
  <1>2. sx = sy <=> x = y
    BY SignedOne
  <1>3. 0 \in Cells /\ 1 \in Cells
    BY FlagsAreCells
  <1>4. Wrapped(0) = Signed(0) /\ Wrapped(1) = Signed(1)
    BY <1>3, WrappedCell
  <1>5. Unsigned(sx) = x /\ Unsigned(sy) = y
    BY UnsignedOfSigned
  <1> DEFINE b == FromBits(Bits(x) \cap Bits(y))
  <1>6. CommonBits(sx, sy) = b
    BY <1>5 DEF CommonBits
  <1>7. /\ b \in Cells
        /\ FromBits(Bits(x) \cup Bits(y)) \in Cells
        /\ FromBits((Bits(x) \cup Bits(y)) \ (Bits(x) \cap Bits(y))) \in Cells
        /\ FromBits(Bits(x) \cup Bits(y)) = x + y - b
        /\ FromBits((Bits(x) \cup Bits(y)) \ (Bits(x) \cap Bits(y))) = x + y - 2 * b
    BY BitsOfTwo
  <1>8. /\ Wrapped(sx + sy - b) = Wrapped(x + y - b)
        /\ Wrapped(sx + sy - 2 * b) = Wrapped(x + y - 2 * b)
    <2>1. PICK k \in {-1, 0} : sx = x + Values * k
      BY SignedRange
    <2>2. PICK n \in {-1, 0} : sy = y + Values * n
      BY SignedRange
    <2>3. x \in Int /\ y \in Int /\ b \in Int /\ Values \in Int
      BY <1>7, CellOfCell, ValuesEven
    <2> HIDE DEF b, sx, sy
    <2>4. sx + sy - b = (x + y - b) + Values * (k + n)
      <3>1. Values * (k + n) = Values * k + Values * n
        BY <2>3
      <3> QED BY <2>1, <2>2, <2>3, <3>1
    <2>5. sx + sy - 2 * b = (x + y - 2 * b) + Values * (k + n)
      <3>1. Values * (k + n) = Values * k + Values * n
        BY <2>3
      <3> QED BY <2>1, <2>2, <2>3, <3>1
    <2>6. x + y - b \in Int /\ x + y - 2 * b \in Int /\ k + n \in Int
      BY <2>3
    <2> QED BY <2>4, <2>5, <2>6, WrappedSigned
  <1>9. Signed(Result("+", x, y)) = Value("plus", sx, sy, c)
    BY <1>1, WrappedIsCell DEF Result, Value
  <1>10. Signed(Result("-", x, y)) = Value("minus", sx, sy, c)
    BY <1>1, WrappedIsCell DEF Result, Value
  <1>11. Signed(Result("==", x, y)) = Value("eq", sx, sy, c)
    <2>1. Value("eq", sx, sy, c) = Wrapped(IF sx = sy THEN 1 ELSE 0)
      BY DEF Value
    <2>2. Result("==", x, y) = IF x = y THEN 1 ELSE 0
      BY DEF Result
    <2> HIDE DEF sx, sy
    <2> QED BY <1>2, <1>4, <2>1, <2>2
  <1>12. Signed(Result("<", x, y)) = Value("lt", sx, sy, c)
    <2>1. Value("lt", sx, sy, c) = Wrapped(IF sx < sy THEN 1 ELSE 0)
      BY DEF Value
    <2>2. Result("<", x, y) = IF sx < sy THEN 1 ELSE 0
      BY DEF Result
    <2> HIDE DEF sx, sy
    <2> QED BY <1>4, <2>1, <2>2
  <1>13. Signed(Result("&", x, y)) = Value("and", sx, sy, c)
    <2>1. Value("and", sx, sy, c) = Wrapped(b)
      BY <1>6 DEF Value
    <2>2. Result("&", x, y) = b
      BY DEF Result
    <2> HIDE DEF b, sx, sy
    <2> QED BY <1>7, <2>1, <2>2, WrappedCell
  <1>14. Signed(Result("|", x, y)) = Value("or", sx, sy, c)
    <2>1. Value("or", sx, sy, c) = Wrapped(sx + sy - b)
      BY <1>6 DEF Value
    <2>2. Result("|", x, y) = x + y - b /\ x + y - b \in Cells
      BY <1>7 DEF Result
    <2> HIDE DEF b, sx, sy
    <2>3. Wrapped(x + y - b) = Signed(x + y - b)
      BY <2>2, WrappedCell
    <2> QED BY <1>8, <2>1, <2>2, <2>3
  <1>15. Signed(Result("^", x, y)) = Value("xor", sx, sy, c)
    <2>1. Value("xor", sx, sy, c) = Wrapped(sx + sy - 2 * b)
      BY <1>6 DEF Value
    <2>2. Result("^", x, y) = x + y - 2 * b /\ x + y - 2 * b \in Cells
      BY <1>7 DEF Result
    <2> HIDE DEF b, sx, sy
    <2>3. Wrapped(x + y - 2 * b) = Signed(x + y - 2 * b)
      BY <2>2, WrappedCell
    <2> QED BY <1>8, <2>1, <2>2, <2>3
  <1> QED BY <1>9, <1>10, <1>11, <1>12, <1>13, <1>14, <1>15

\* _ADDC and _SUBC: two sums, the first with the carry.
LEMMA CarriedValue ==
    ASSUME NEW x \in Cells, NEW y \in Cells, NEW c \in {0, 1}
    PROVE  /\ Signed(Result("+", Result("+", c, x), y)) = Value("addc", Signed(x), Signed(y), c)
           /\ Signed(Result("-", Result("-", x, c), y)) = Value("subc", Signed(x), Signed(y), c)
  <1> DEFINE sx == Signed(x)  sy == Signed(y)
  <1>1. PICK k \in {-1, 0} : sx = x + Values * k
    BY SignedRange
  <1>2. PICK n \in {-1, 0} : sy = y + Values * n
    BY SignedRange
  <1>3. x \in Int /\ y \in Int /\ Values \in Int /\ c \in Int
    BY CellOfCell, ValuesEven
  <1>4. Value("addc", sx, sy, c) = Wrapped(sx + sy + c)
    BY DEF Value
  <1>5. Value("subc", sx, sy, c) = Wrapped(sx - sy - c)
    BY DEF Value
  <1>6. Result("+", Result("+", c, x), y) = Cell(Cell(c + x) + y)
    BY DEF Result
  <1>7. Result("-", Result("-", x, c), y) = Cell(Cell(x - c) - y)
    BY DEF Result
  <1> HIDE DEF sx, sy
  <1>8. Cell(Cell(c + x) + y) = Cell((c + x) + y) /\ Cell(Cell(x - c) - y) = Cell((x - c) - y)
    <2>1. c + x \in Int /\ x - c \in Int
      BY <1>3
    <2> QED BY <1>3, <2>1, CellWithin
  <1>9. sx + sy + c = ((c + x) + y) + Values * (k + n)
    <2>1. Values * (k + n) = Values * k + Values * n
      BY <1>3
    <2> QED BY <1>1, <1>2, <1>3, <2>1
  <1>10. sx - sy - c = ((x - c) - y) + Values * (k - n)
    <2>1. Values * (k - n) = Values * k - Values * n
      BY <1>3
    <2> QED BY <1>1, <1>2, <1>3, <2>1
  <1>11. (c + x) + y \in Int /\ (x - c) - y \in Int /\ k + n \in Int /\ k - n \in Int
    BY <1>3
  <1>12. Wrapped(sx + sy + c) = Wrapped((c + x) + y) /\ Wrapped(sx - sy - c) = Wrapped((x - c) - y)
    BY <1>9, <1>10, <1>11, WrappedSigned
  <1> QED BY <1>4, <1>5, <1>6, <1>7, <1>8, <1>12, WrappedIsCell DEF sx, sy

\* The unsigned comparison and the shifts.
LEMMA UnflaggedValue ==
    ASSUME NEW x \in Cells, NEW y \in Cells, NEW n \in Nat, NEW c
    PROVE  /\ Signed(UnsignedLess(x, y)) = Value("ult", Signed(x), Signed(y), c)
           /\ Signed(ShiftBy("shl", x, n)) = Value("shl", Signed(x), n, c)
           /\ Signed(ShiftBy("shr", x, n)) = Value("shr", Signed(x), n, c)
           /\ Signed(ShiftBy("shra", x, n)) = Value("shra", Signed(x), n, c)
  <1>1. Signed(UnsignedLess(x, y)) = Value("ult", Signed(x), Signed(y), c)
    <2>1. Value("ult", Signed(x), Signed(y), c)
              = Wrapped(IF Unsigned(Signed(x)) < Unsigned(Signed(y)) THEN 1 ELSE 0)
      BY DEF Value
    <2>2. Unsigned(Signed(x)) = x /\ Unsigned(Signed(y)) = y
      BY UnsignedOfSigned
    <2>3. UnsignedLess(x, y) = IF x < y THEN 1 ELSE 0
      BY DEF UnsignedLess, AsFlag
    <2>4. Wrapped(0) = Signed(0) /\ Wrapped(1) = Signed(1)
      BY FlagsAreCells, WrappedCell
    <2> QED BY <2>1, <2>2, <2>3, <2>4
  <1>2. Signed(ShiftBy("shl", x, n)) = Value("shl", Signed(x), n, c)
    <2>1. Value("shl", Signed(x), n, c) = Wrapped(Signed(x) * 2^Positions(n))
      BY DEF Value
    <2>2. ShiftBy("shl", x, n) = Cell(Signed(x) * 2^Positions(n))
      BY LeftShift DEF ShiftBy
    <2> QED BY <2>1, <2>2, WrappedIsCell
  <1>3. Signed(ShiftBy("shr", x, n)) = Value("shr", Signed(x), n, c)
    <2>1. Value("shr", Signed(x), n, c) = Wrapped(Unsigned(Signed(x)) \div 2^Positions(n))
      BY DEF Value
    <2>2. ShiftBy("shr", x, n) = x \div 2^Positions(n)
      BY DEF ShiftBy, ShiftedRight
    <2>3. ShiftBy("shr", x, n) \in Cells
      BY ShiftIsCell
    <2>4. Unsigned(Signed(x)) = x
      BY UnsignedOfSigned
    <2> QED BY <2>1, <2>2, <2>3, <2>4, WrappedCell
  <1>4. Signed(ShiftBy("shra", x, n)) = Value("shra", Signed(x), n, c)
    BY ArithmeticShift DEF ShiftBy, Value
  <1> QED BY <1>1, <1>2, <1>3, <1>4

\* The operators with one operand.
LEMMA UnaryValueOfCell ==
    ASSUME NEW x \in Cells
    PROVE  /\ Signed(Complement(x)) = UnaryValue("not", Signed(x))
           /\ Signed(PopCount(x)) = UnaryValue("popcnt", Signed(x))
           /\ Signed(Reversed(x)) = UnaryValue("reverse", Signed(x))
  <1>1. Unsigned(Signed(x)) = x
    BY UnsignedOfSigned
  <1>2. Signed(Complement(x)) = UnaryValue("not", Signed(x))
    <2>1. UnaryValue("not", Signed(x)) = -1 - Signed(x)
      BY DEF UnaryValue
    <2>2. Complement(x) \in Cells /\ Complement(x) = Values - 1 - x
      BY ComplementOfCell
    <2>3. /\ x \in Int /\ Values \in Int /\ Half \in Int /\ Values = 2 * Half
          /\ 0 <= x /\ x < Values
      BY CellOfCell, ValuesEven
    <2> QED BY <2>1, <2>2, <2>3 DEF Signed
  <1>3. Signed(PopCount(x)) = UnaryValue("popcnt", Signed(x))
    <2>1. UnaryValue("popcnt", Signed(x)) = Wrapped(PopCount(x))
      BY <1>1 DEF UnaryValue, PopCount
    <2> QED BY <2>1, PopCountOfCell, WrappedCell
  <1>4. Signed(Reversed(x)) = UnaryValue("reverse", Signed(x))
    <2>1. UnaryValue("reverse", Signed(x)) = Wrapped(Reversed(x))
      BY <1>1 DEF UnaryValue, Reversed
    <2> QED BY <2>1, ReversedCell, WrappedCell
  <1> QED BY <1>2, <1>3, <1>4


-----------------------------------------------------------------------------
(***************************************************************************)
(* A state of the lanes and what the statements executed so far mean.      *)
(***************************************************************************)
\* A meaning is a record of these.
Grouped(val, store, selected, gated, last, product, shifted, sums, defined) ==
    [val |-> val, store |-> store, selected |-> selected, gated |-> gated, last |-> last,
     product |-> product, shifted |-> shifted, sums |-> sums, defined |-> defined]

\* m has the fields of a meaning and no other.
Shaped(m) ==
    m = Grouped(m.val, m.store, m.selected, m.gated, m.last, m.product, m.shifted,
                m.sums, m.defined)

\* The record with one of them changed.
LEMMA Regrouped ==
    ASSUME NEW m, Shaped(m), NEW v
    PROVE  /\ [m EXCEPT !.val = v] = Grouped(v, m.store, m.selected, m.gated,
                  m.last, m.product, m.shifted, m.sums, m.defined)
           /\ [m EXCEPT !.store = v] = Grouped(m.val, v, m.selected, m.gated,
                  m.last, m.product, m.shifted, m.sums, m.defined)
           /\ [m EXCEPT !.selected = v] = Grouped(m.val, m.store, v, m.gated,
                  m.last, m.product, m.shifted, m.sums, m.defined)
           /\ [m EXCEPT !.gated = v] = Grouped(m.val, m.store, m.selected, v,
                  m.last, m.product, m.shifted, m.sums, m.defined)
           /\ [m EXCEPT !.last = v] = Grouped(m.val, m.store, m.selected,
                  m.gated, v, m.product, m.shifted, m.sums, m.defined)
           /\ [m EXCEPT !.product = v] = Grouped(m.val, m.store, m.selected,
                  m.gated, m.last, v, m.shifted, m.sums, m.defined)
           /\ [m EXCEPT !.shifted = v] = Grouped(m.val, m.store, m.selected,
                  m.gated, m.last, m.product, v, m.sums, m.defined)
           /\ [m EXCEPT !.sums = v] = Grouped(m.val, m.store, m.selected,
                  m.gated, m.last, m.product, m.shifted, v, m.defined)
           /\ [m EXCEPT !.defined = v] = Grouped(m.val, m.store, m.selected,
                  m.gated, m.last, m.product, m.shifted, m.sums, v)
BY DEF Shaped, Grouped

\* Its fields.
LEMMA GroupedFields ==
    ASSUME NEW val, NEW store, NEW selected, NEW gated, NEW last, NEW product, NEW shifted,
           NEW sums, NEW defined, NEW m,
           m = Grouped(val, store, selected, gated, last, product, shifted, sums, defined)
    PROVE  /\ Shaped(m)
           /\ m.val = val /\ m.store = store /\ m.selected = selected /\ m.gated = gated
           /\ m.last = last /\ m.product = product /\ m.shifted = shifted
           /\ m.sums = sums /\ m.defined = defined
BY DEF Shaped, Grouped

\* k is m but for one of them.
Alike(k, m, changed) ==
    /\ Shaped(k)
    /\ changed # "val" => k.val = m.val
    /\ changed # "store" => k.store = m.store
    /\ changed # "selected" => k.selected = m.selected
    /\ changed # "gated" => k.gated = m.gated
    /\ changed # "last" => k.last = m.last
    /\ changed # "product" => k.product = m.product
    /\ changed # "shifted" => k.shifted = m.shifted
    /\ changed # "sums" => k.sums = m.sums
    /\ changed # "defined" => k.defined = m.defined

\* A meaning with one field replaced keeps all the others.
LEMMA ChangedField ==
    ASSUME NEW m, Shaped(m), NEW v
    PROVE  /\ [m EXCEPT !.val = v].val = v /\ Alike([m EXCEPT !.val = v], m, "val")
           /\ [m EXCEPT !.store = v].store = v /\ Alike([m EXCEPT !.store = v], m, "store")
           /\ [m EXCEPT !.selected = v].selected = v /\ Alike([m EXCEPT !.selected = v], m, "selected")
           /\ [m EXCEPT !.gated = v].gated = v /\ Alike([m EXCEPT !.gated = v], m, "gated")
           /\ [m EXCEPT !.last = v].last = v /\ Alike([m EXCEPT !.last = v], m, "last")
           /\ [m EXCEPT !.product = v].product = v /\ Alike([m EXCEPT !.product = v], m, "product")
           /\ [m EXCEPT !.shifted = v].shifted = v /\ Alike([m EXCEPT !.shifted = v], m, "shifted")
           /\ [m EXCEPT !.sums = v].sums = v /\ Alike([m EXCEPT !.sums = v], m, "sums")
           /\ [m EXCEPT !.defined = v].defined = v /\ Alike([m EXCEPT !.defined = v], m, "defined")
  <1>1. [m EXCEPT !.val = v].val = v /\ Alike([m EXCEPT !.val = v], m, "val")
    <2> DEFINE k == [m EXCEPT !.val = v]
    <2>1. k = Grouped(v, m.store, m.selected, m.gated, m.last, m.product,
                      m.shifted, m.sums, m.defined)
      BY Regrouped
    <2> HIDE DEF k
    <2>2. k.val = v /\ Alike(k, m, "val")
      BY <2>1, GroupedFields DEF Alike
    <2> QED BY <2>2 DEF k
  <1>2. [m EXCEPT !.store = v].store = v /\ Alike([m EXCEPT !.store = v], m, "store")
    <2> DEFINE k == [m EXCEPT !.store = v]
    <2>1. k = Grouped(m.val, v, m.selected, m.gated, m.last, m.product,
                      m.shifted, m.sums, m.defined)
      BY Regrouped
    <2> HIDE DEF k
    <2>2. k.store = v /\ Alike(k, m, "store")
      BY <2>1, GroupedFields DEF Alike
    <2> QED BY <2>2 DEF k
  <1>3. [m EXCEPT !.selected = v].selected = v /\ Alike([m EXCEPT !.selected = v], m, "selected")
    <2> DEFINE k == [m EXCEPT !.selected = v]
    <2>1. k = Grouped(m.val, m.store, v, m.gated, m.last, m.product,
                      m.shifted, m.sums, m.defined)
      BY Regrouped
    <2> HIDE DEF k
    <2>2. k.selected = v /\ Alike(k, m, "selected")
      BY <2>1, GroupedFields DEF Alike
    <2> QED BY <2>2 DEF k
  <1>4. [m EXCEPT !.gated = v].gated = v /\ Alike([m EXCEPT !.gated = v], m, "gated")
    <2> DEFINE k == [m EXCEPT !.gated = v]
    <2>1. k = Grouped(m.val, m.store, m.selected, v, m.last, m.product,
                      m.shifted, m.sums, m.defined)
      BY Regrouped
    <2> HIDE DEF k
    <2>2. k.gated = v /\ Alike(k, m, "gated")
      BY <2>1, GroupedFields DEF Alike
    <2> QED BY <2>2 DEF k
  <1>5. [m EXCEPT !.last = v].last = v /\ Alike([m EXCEPT !.last = v], m, "last")
    <2> DEFINE k == [m EXCEPT !.last = v]
    <2>1. k = Grouped(m.val, m.store, m.selected, m.gated, v, m.product,
                      m.shifted, m.sums, m.defined)
      BY Regrouped
    <2> HIDE DEF k
    <2>2. k.last = v /\ Alike(k, m, "last")
      BY <2>1, GroupedFields DEF Alike
    <2> QED BY <2>2 DEF k
  <1>6. [m EXCEPT !.product = v].product = v /\ Alike([m EXCEPT !.product = v], m, "product")
    <2> DEFINE k == [m EXCEPT !.product = v]
    <2>1. k = Grouped(m.val, m.store, m.selected, m.gated, m.last, v,
                      m.shifted, m.sums, m.defined)
      BY Regrouped
    <2> HIDE DEF k
    <2>2. k.product = v /\ Alike(k, m, "product")
      BY <2>1, GroupedFields DEF Alike
    <2> QED BY <2>2 DEF k
  <1>7. [m EXCEPT !.shifted = v].shifted = v /\ Alike([m EXCEPT !.shifted = v], m, "shifted")
    <2> DEFINE k == [m EXCEPT !.shifted = v]
    <2>1. k = Grouped(m.val, m.store, m.selected, m.gated, m.last,
                      m.product, v, m.sums, m.defined)
      BY Regrouped
    <2> HIDE DEF k
    <2>2. k.shifted = v /\ Alike(k, m, "shifted")
      BY <2>1, GroupedFields DEF Alike
    <2> QED BY <2>2 DEF k
  <1>8. [m EXCEPT !.sums = v].sums = v /\ Alike([m EXCEPT !.sums = v], m, "sums")
    <2> DEFINE k == [m EXCEPT !.sums = v]
    <2>1. k = Grouped(m.val, m.store, m.selected, m.gated, m.last,
                      m.product, m.shifted, v, m.defined)
      BY Regrouped
    <2> HIDE DEF k
    <2>2. k.sums = v /\ Alike(k, m, "sums")
      BY <2>1, GroupedFields DEF Alike
    <2> QED BY <2>2 DEF k
  <1>9. [m EXCEPT !.defined = v].defined = v /\ Alike([m EXCEPT !.defined = v], m, "defined")
    <2> DEFINE k == [m EXCEPT !.defined = v]
    <2>1. k = Grouped(m.val, m.store, m.selected, m.gated, m.last,
                      m.product, m.shifted, m.sums, v)
      BY DEF Shaped, Grouped
    <2> HIDE DEF k
    <2>2. k.defined = v /\ Alike(k, m, "defined")
      BY <2>1, GroupedFields DEF Alike
    <2> QED BY <2>2 DEF k
  <1> QED BY <1>1, <1>2, <1>3, <1>4, <1>5, <1>6, <1>7, <1>8, <1>9

\* The vectors as the signed numbers that they hold.
ValuesOf(vectors) == [r \in DOMAIN vectors |-> [l \in Lanes |-> Signed(vectors[r][l])]]

\* A lane that is gated may count as left out of the selection.
SelectionAgrees(selected, gated) ==
    /\ gated = {l \in Lanes : cellDisabled[l] = 1}
    /\ selected \subseteq {l \in Lanes : active[l] = 1}
    /\ {l \in Lanes : active[l] = 1} \ gated \subseteq selected

\* The flags hold what there is to ask of the last comparison.
FlagsAgree(last) ==
    \A l \in Lanes :
        /\ last[l].op \in {"plus", "minus"} => flags.carry[l] = CarryAfter(last[l])
        /\ last[l].op \in {"minus", "eq", "lt"} =>
              /\ (flags.eq[l] = 1) <=> (last[l].x = last[l].y)
              /\ (flags.lt[l] = 1) <=> (last[l].x < last[l].y)

\* The two registers of MULT hold the halves of the product that is meant.
ProductAgrees(product) ==
    /\ product = [l \in Lanes |-> product[l]]
    /\ \A l \in Lanes :
          /\ product[l] \in Int
          /\ mult.low[l] = Cell(product[l])
          /\ mult.high[l] = Cell(product[l] \div Values)

\* The lanes of the simulator hold what m says.
Agrees(m) ==
    /\ Shaped(m)
    /\ m.defined = TRUE
    /\ failure = "none"
    /\ m.val = ValuesOf(registerFile)
    /\ m.store = ValuesOf(localStore)
    /\ SelectionAgrees(m.selected, m.gated)
    /\ FlagsAgree(m.last)
    /\ ProductAgrees(m.product)
    /\ m.shifted = [l \in Lanes |-> Signed(shiftReg[l])]
    /\ m.sums = reductions

\* The lanes that take part are those that the simulator selects.
LEMMA TakingAreSelected ==
    ASSUME LanesTypeOK, NEW m, Agrees(m)
    PROVE  Taking(m) = Selected /\ Selected \subseteq Lanes
  <1>1. \A l \in Lanes : cellDisabled[l] \in {0, 1} /\ active[l] \in {0, 1}
    BY DEF LanesTypeOK
  <1>2. SelectionAgrees(m.selected, m.gated)
    BY DEF Agrees
  <1> QED BY <1>1, <1>2 DEF SelectionAgrees, Taking, Selected, IsCellActive

\* Register d set to v in the lanes that take part.
SetTo(m, d, v) ==
    [m EXCEPT !.val[d] = [l \in Lanes |-> IF l \in Taking(m) THEN v[l] ELSE @[l]]]

\* What an assignment with predication leaves in the registers.
LEMMA AssignedAgrees ==
    ASSUME LanesTypeOK, NEW m, Agrees(m), NEW d \in Registers, GetDest(Now) = d,
           NEW vector, AssignDest(vector), NEW v,
           \A l \in Taking(m) : v[l] = Signed(vector[l])
    PROVE  [m.val EXCEPT ![d] = [l \in Lanes |-> IF l \in Taking(m) THEN v[l] ELSE m.val[d][l]]]
               = ValuesOf(registerFile)'
  <1>1. registerFile \in [Registers -> Vectors]
    BY DEF LanesTypeOK
  <1>2. m.val = [r \in Registers |-> [l \in Lanes |-> Signed(registerFile[r][l])]]
    BY <1>1 DEF Agrees, ValuesOf
  <1>3. registerFile' = [registerFile EXCEPT ![d] = AssignedWhere(registerFile[d], vector)]
    BY DEF AssignDest
  <1>4. registerFile' = [r \in Registers |->
            IF r = d THEN [l \in Lanes |-> IF IsCellActive(l) THEN vector[l]
                                           ELSE registerFile[d][l]]
            ELSE registerFile[r]]
    BY <1>1, <1>3 DEF AssignedWhere
  <1>5. \A l \in Lanes : l \in Taking(m) <=> IsCellActive(l)
    BY TakingAreSelected DEF Selected
  <1>6. ValuesOf(registerFile)' =
            [r \in Registers |-> [l \in Lanes |-> Signed(registerFile'[r][l])]]
    BY <1>4 DEF ValuesOf
  <1>7. [l \in Lanes |-> Signed(registerFile'[d][l])]
            = [l \in Lanes |-> IF l \in Taking(m) THEN v[l] ELSE m.val[d][l]]
    <2>1. ASSUME NEW l \in Lanes
          PROVE  Signed(registerFile'[d][l]) = IF l \in Taking(m) THEN v[l] ELSE m.val[d][l]
      BY <1>2, <1>4, <1>5
    <2> QED BY <2>1
  <1>8. \A r \in Registers : r # d =>
            [l \in Lanes |-> Signed(registerFile'[r][l])] = m.val[r]
    BY <1>2, <1>4
  <1> DEFINE value == [l \in Lanes |-> IF l \in Taking(m) THEN v[l] ELSE m.val[d][l]]
             after(r) == [l \in Lanes |-> Signed(registerFile'[r][l])]
  <1>9. \A r \in Registers : after(r) = IF r = d THEN value ELSE m.val[r]
    BY <1>7, <1>8
  <1>10. DOMAIN m.val = Registers /\ m.val = [r \in Registers |-> m.val[r]]
    BY <1>2
  <1>11. ValuesOf(registerFile)' = [r \in Registers |-> after(r)]
    BY <1>6
  <1> HIDE DEF value, after
  <1>12. [m.val EXCEPT ![d] = value] = [r \in Registers |-> after(r)]
    BY <1>9, <1>10
  <1> QED BY <1>11, <1>12 DEF value


\* A step that assigns to a register, and may set the flags.
LEMMA RegisterStepAgrees ==
    ASSUME LanesTypeOK, NEW m, Agrees(m), NEW d \in Registers, GetDest(Now) = d,
           NEW vector, AssignDest(vector), NEW v,
           \A l \in Taking(m) : v[l] = Signed(vector[l]),
           NEW last, FlagsAgree(last)',
           UNCHANGED <<localStore, active, cellDisabled, mult, shiftReg, reductions, failure>>
    PROVE  Agrees([SetTo(m, d, v) EXCEPT !.last = last])'
  <1> DEFINE k == SetTo(m, d, v)
             n == [k EXCEPT !.last = last]
             val == [m.val EXCEPT ![d] = [l \in Lanes |-> IF l \in Taking(m) THEN v[l]
                                                          ELSE m.val[d][l]]]
  <1>1. val = ValuesOf(registerFile)'
    BY AssignedAgrees
  <1>2. Shaped(m) /\ m.defined = TRUE
    BY DEF Agrees
  <1>3. k = [m EXCEPT !.val = val]
    BY DEF SetTo
  <1> HIDE DEF val, k
  <1>4. k.val = val /\ Alike(k, m, "val")
    BY <1>2, <1>3, ChangedField
  <1>5. n.last = last /\ Alike(n, k, "last")
    <2>1. Shaped(k)
      BY <1>4 DEF Alike
    <2> QED BY <2>1, ChangedField
  <1> HIDE DEF n
  <1>6. n.store = ValuesOf(localStore)' /\ n.sums = reductions' /\ failure' = "none"
    BY <1>4, <1>5 DEF Alike, Agrees, ValuesOf
  <1>7. SelectionAgrees(n.selected, n.gated)'
    BY <1>4, <1>5 DEF Alike, Agrees, SelectionAgrees
  <1>8. ProductAgrees(n.product)'
    BY <1>4, <1>5 DEF Alike, Agrees, ProductAgrees
  <1>9. n.shifted = [l \in Lanes |-> Signed(shiftReg'[l])]
    BY <1>4, <1>5 DEF Alike, Agrees
  <1>10. Agrees(n)'
    BY <1>1, <1>2, <1>4, <1>5, <1>6, <1>7, <1>8, <1>9 DEF Alike, Agrees
  <1> QED BY <1>10 DEF n, k

\* An instruction that leaves the flags alone leaves their agreement.
LEMMA FlagsKept ==
    ASSUME NEW m, Agrees(m), UNCHANGED flags
    PROVE  FlagsAgree(m.last)'
BY DEF Agrees, FlagsAgree

\* An instruction with a result and no flags.
LEMMA UnflaggedAgrees ==
    ASSUME LanesTypeOK, NEW m, Agrees(m), NEW d \in Registers, GetDest(Now) = d,
           NEW vector, AssignDest(vector), NEW v,
           \A l \in Taking(m) : v[l] = Signed(vector[l]),
           UNCHANGED <<localStore, flags, active, cellDisabled, mult, shiftReg, reductions,
                       failure>>
    PROVE  Agrees(SetTo(m, d, v))'
  <1>1. FlagsAgree(m.last)'
    BY FlagsKept
  <1>2. Agrees([SetTo(m, d, v) EXCEPT !.last = m.last])'
    BY <1>1, RegisterStepAgrees
  <1>3. [SetTo(m, d, v) EXCEPT !.last = m.last] = SetTo(m, d, v)
    BY DEF Agrees, Shaped, SetTo
  <1> QED BY <1>2, <1>3

\* What remains defined.
LEMMA StillDefined ==
    ASSUME NEW m, Shaped(m), m.defined \in BOOLEAN, NEW c \in BOOLEAN,
           Undefined(m, c).defined = TRUE
    PROVE  m.defined = TRUE /\ c /\ Undefined(m, c) = m
  <1> DEFINE b == m.defined /\ c
  <1>1. Undefined(m, c) = [m EXCEPT !.defined = b]
    BY DEF Undefined
  <1> HIDE DEF b
  <1>2. Undefined(m, c).defined = b
    BY <1>1, ChangedField
  <1>3. b = TRUE
    BY <1>2
  <1>4. m.defined = TRUE /\ c
    BY <1>3 DEF b
  <1>5. [m EXCEPT !.defined = m.defined] = m
    BY Regrouped DEF Shaped
  <1> QED BY <1>1, <1>3, <1>4, <1>5


-----------------------------------------------------------------------------
(***************************************************************************)
(* A statement, and the word of its instruction.                           *)
(***************************************************************************)
\* The next word is that of the first instruction of a statement.
StatementNow(st) ==
    /\ Written(st)
    /\ Constructible(Emitted(st)[1])
    /\ words[pc] = Assembled(Emitted(st)[1])

\* What the operands of an instruction hold.
LEMMA OperandsAgree ==
    ASSUME LanesTypeOK, NEW m, Agrees(m), NEW code, NEW right, NEW left, NEW dest,
           NowIs(code, right, left, dest)
    PROVE  /\ code \in UsesLeft => \A l \in Lanes :
                  Left[l] \in Cells /\ m.val[left][l] = Signed(Left[l])
           /\ code \in UsesRight => \A l \in Lanes :
                  Right[l] \in Cells /\ m.val[right][l] = Signed(Right[l])
           /\ code \in UsesDest => GetDest(Now) = dest /\ dest \in Registers
  <1>1. registerFile \in [Registers -> Vectors]
    BY DEF LanesTypeOK
  <1>2. m.val = [r \in Registers |-> [l \in Lanes |-> Signed(registerFile[r][l])]]
    BY <1>1 DEF Agrees, ValuesOf
  <1>3. /\ code \in UsesLeft => Left = registerFile[left] /\ left \in Registers
        /\ code \in UsesRight => Right = registerFile[right] /\ right \in Registers
        /\ code \in UsesDest => GetDest(Now) = dest /\ dest \in Registers
    BY NowSeen DEF NowIs, Fits
  <1>4. \A r \in Registers : \A l \in Lanes :
            registerFile[r][l] \in Cells /\ m.val[r][l] = Signed(registerFile[r][l])
    BY <1>1, <1>2 DEF Vectors
  <1> QED BY <1>3, <1>4

\* An instruction without flags, executed.
LEMMA UnflaggedStep ==
    ASSUME LanesTypeOK, NEW m, Agrees(m), NEW code \in UsesDest, NEW right, NEW left, NEW dest,
           NowIs(code, right, left, dest), NEW names, NEW vector, Unflagged(names, vector),
           NEW v, \A l \in Lanes : v[l] = Signed(vector[l])
    PROVE  Agrees(SetTo(m, dest, v))'
  <1>1. GetDest(Now) = dest /\ dest \in Registers
    BY OperandsAgree
  <1>2. /\ AssignDest(vector)
        /\ UNCHANGED <<localStore, flags, active, cellDisabled, mult, shiftReg, reductions,
                       failure>>
    BY DEF Unflagged
  <1>3. \A l \in Taking(m) : v[l] = Signed(vector[l])
    BY TakingAreSelected
  <1> QED BY <1>1, <1>2, <1>3, UnflaggedAgrees

\* ~, popcnt() and bitreverse().
LEMMA UnaryAgrees ==
    ASSUME LanesTypeOK, ExecuteInstruction, NEW m, Agrees(m), NEW st, StatementNow(st),
           st.form = "unary"
    PROVE  Agrees(Meaning(st, m))'
  <1> DEFINE code == CodeOfUnary[st.op]
             v == [l \in Lanes |-> UnaryValue(st.op, m.val[st.a][l])]
  <1>1. NowIs(code, 0, st.a, st.d)
    BY EmittedByForm, FitsByForm DEF StatementNow, NowIs
  <1>2. /\ code \in UsesLeft /\ code \in UsesDest /\ code \in DOMAIN Opcode
        /\ st.op \in {"not", "popcnt", "reverse"}
        /\ st.op = "not" => code = "NOT"
        /\ st.op = "popcnt" => code = "POPCNT"
        /\ st.op = "reverse" => code = "BIT_REVERSE"
    BY <1>1, NowSeen DEF StatementNow, Written, CodeOfUnary, UsesLeft, UsesDest
  <1> HIDE DEF code
  <1>3. \A l \in Lanes : Left[l] \in Cells /\ m.val[st.a][l] = Signed(Left[l])
    BY <1>1, <1>2, OperandsAgree
  <1>4. Meaning(st, m) = SetTo(m, st.d, v)
    BY DEF Meaning, SetReg, SetTo
  <1>5. Now.opcode = Opcode[code]
    BY <1>1, NowSeen
  <1>6. \E names, vector : Unflagged(names, vector) /\ \A l \in Lanes : v[l] = Signed(vector[l])
    <2>1. CASE st.op = "not"
      <3>1. Unflagged({"NOT"}, [l \in Lanes |-> Complement(Left[l])])
        BY <1>2, <1>5, <2>1, ActionOfCode
      <3>2. \A l \in Lanes : v[l] = Signed([k \in Lanes |-> Complement(Left[k])][l])
        BY <1>3, <2>1, UnaryValueOfCell
      <3> QED BY <3>1, <3>2
    <2>2. CASE st.op = "popcnt"
      <3>1. Unflagged({"POPCNT"}, [l \in Lanes |-> PopCount(Left[l])])
        BY <1>2, <1>5, <2>2, ActionOfCode
      <3>2. \A l \in Lanes : v[l] = Signed([k \in Lanes |-> PopCount(Left[k])][l])
        BY <1>3, <2>2, UnaryValueOfCell
      <3> QED BY <3>1, <3>2
    <2>3. CASE st.op = "reverse"
      <3>1. Unflagged({"BIT_REVERSE"}, [l \in Lanes |-> Reversed(Left[l])])
        BY <1>2, <1>5, <2>3, ActionOfCode
      <3>2. \A l \in Lanes : v[l] = Signed([k \in Lanes |-> Reversed(Left[k])][l])
        BY <1>3, <2>3, UnaryValueOfCell
      <3> QED BY <3>1, <3>2
    <2> QED BY <1>2, <2>1, <2>2, <2>3
  <1> HIDE DEF v
  <1>7. Agrees(SetTo(m, st.d, v))'
    BY <1>1, <1>2, <1>6, UnflaggedStep
  <1> QED BY <1>4, <1>7


\* <<, >> and ishra() with a number: the number fits the field of the word.
LEMMA ShiftAgrees ==
    ASSUME LanesTypeOK, ExecuteInstruction, NEW m, Agrees(m), NEW st, StatementNow(st),
           st.form = "shift"
    PROVE  Agrees(Meaning(st, m))'
  <1> DEFINE code == CodeOfShift[st.op]
             v == [l \in Lanes |-> Value(st.op, m.val[st.a][l], st.b, 0)]
             vector == [l \in Lanes |-> ShiftBy(st.op, Left[l], GetValue(Now))]
  <1>1. NowIs(code, st.b, st.a, st.d)
    BY EmittedByForm, FitsByForm DEF StatementNow, NowIs
  <1>2. /\ code \in UsesLeft /\ code \in UsesDest /\ code \in DOMAIN Opcode
        /\ code \in ShiftCodes /\ st.op \in {"shl", "shr", "shra"}
        /\ st.op = "shl" => code = "ISHL"
        /\ st.op = "shr" => code = "ISHR"
        /\ st.op = "shra" => code = "ISHRA"
    BY <1>1, NowSeen DEF StatementNow, Written, CodeOfShift, UsesLeft, UsesDest, ShiftCodes
  <1>3. code \in RegisterCodes
    BY <1>2 DEF ShiftCodes, RegisterCodes
  <1> HIDE DEF code
  <1>4. \A l \in Lanes : Left[l] \in Cells /\ m.val[st.a][l] = Signed(Left[l])
    BY <1>1, <1>2, OperandsAgree
  <1>5. GetValue(Now) = st.b /\ st.b \in Nat /\ Now.opcode = Opcode[code]
    BY <1>1, <1>2, <1>3, NowSeen DEF NowIs, Fits
  <1>6. Meaning(st, m) = SetTo(m, st.d, v)
    BY DEF Meaning, SetReg, SetTo
  <1>7. \E names : Unflagged(names, vector)
    BY <1>2, <1>5, ActionOfCode DEF ShiftImmediate
  <1>8. \A l \in Lanes : v[l] = Signed(vector[l])
    BY <1>2, <1>4, <1>5, UnflaggedValue
  <1> HIDE DEF v, vector
  <1>9. Agrees(SetTo(m, st.d, v))'
    BY <1>1, <1>2, <1>7, <1>8, UnflaggedStep
  <1> QED BY <1>6, <1>9

\* A copy is a shift by zero.
LEMMA CopyAgrees ==
    ASSUME LanesTypeOK, ExecuteInstruction, NEW m, Agrees(m), NEW st, StatementNow(st),
           st.form = "copy"
    PROVE  Agrees(Meaning(st, m))'
  <1> DEFINE v == [l \in Lanes |-> m.val[st.a][l]]
             vector == [l \in Lanes |-> ShiftBy("shl", Left[l], GetValue(Now))]
  <1>1. NowIs("ISHL", 0, st.a, st.d)
    BY EmittedByForm, FitsByForm DEF StatementNow, NowIs
  <1>2. "ISHL" \in UsesLeft /\ "ISHL" \in UsesDest /\ "ISHL" \in ShiftCodes
    BY DEF UsesLeft, UsesDest, ShiftCodes
  <1>3. \A l \in Lanes : Left[l] \in Cells /\ m.val[st.a][l] = Signed(Left[l])
    BY <1>1, <1>2, OperandsAgree
  <1>4. GetValue(Now) = 0 /\ Now.opcode = Opcode["ISHL"] /\ "ISHL" \in DOMAIN Opcode
    BY <1>1, <1>2, NowSeen
  <1>5. Meaning(st, m) = SetTo(m, st.d, v)
    BY DEF Meaning, SetReg, SetTo
  <1>6. Unflagged({"ISHL"}, vector)
    BY <1>4, ActionOfCode DEF ShiftImmediate
  <1>7. \A l \in Lanes : v[l] = Signed(vector[l])
    BY <1>3, <1>4, NoShift
  <1> HIDE DEF v, vector
  <1>8. Agrees(SetTo(m, st.d, v))'
    BY <1>1, <1>2, <1>6, <1>7, UnflaggedStep
  <1> QED BY <1>5, <1>8

\* How many numbers there are of sixteen bits.
LEMMA SixteenBitNumbers ==
    Powers[16] = 65536
  <1>1. Powers[0] = 1
    BY DEF Powers
  <1>2. \A n \in Nat : Powers[n + 1] = 2 * Powers[n]
    BY PowerDoubles DEF Powers
  <1>3. \A n \in Nat : n # 0 => Powers[n] = 2 * Powers[n - 1]
    <2> TAKE n \in Nat
    <2> HAVE n # 0
    <2> DEFINE k == n - 1
    <2>1. k \in Nat /\ k + 1 = n
      OBVIOUS
    <2> HIDE DEF k
    <2>2. Powers[k + 1] = 2 * Powers[k]
      BY <1>2, <2>1
    <2> QED BY <2>1, <2>2 DEF k
  <1>4. Powers[1] = 2 /\ Powers[2] = 4 /\ Powers[3] = 8 /\ Powers[4] = 16
    BY <1>1, <1>3
  <1>5. Powers[5] = 32 /\ Powers[6] = 64 /\ Powers[7] = 128 /\ Powers[8] = 256
    BY <1>3, <1>4
  <1>6. Powers[9] = 512 /\ Powers[10] = 1024 /\ Powers[11] = 2048 /\ Powers[12] = 4096
    BY <1>3, <1>5
  <1>7. Powers[13] = 8192 /\ Powers[14] = 16384 /\ Powers[15] = 32768
    BY <1>3, <1>6
  <1> QED BY <1>3, <1>7

\* The immediate of a word, cut to a cell, is the number that was written.
LEMMA ImmediateIsWritten ==
    ASSUME NEW n \in Int
    PROVE  Cell(Immediate(n)) = Cell(n)
  <1>1. PICK k \in Int : Immediate(n) = n + 65536 * k
    BY SixteenBits
  <1>2. PICK d \in Nat : 65536 = Values * d
    <2> DEFINE rest == 16 - RegisterBits
    <2>1. RegisterBits \in Nat /\ rest \in Nat /\ RegisterBits + rest = 16
      BY WidthAssumption, VectorAssumption
    <2> HIDE DEF rest
    <2>2. 2^(RegisterBits + rest) = 2^RegisterBits * 2^rest
      BY <2>1, PowersMultiply
    <2>3. Powers[RegisterBits + rest] = 2^(RegisterBits + rest)
      BY <2>1 DEF Powers
    <2>4. Powers[RegisterBits + rest] = 65536
      BY <2>1, SixteenBitNumbers
    <2>5. 2^rest \in Nat
      BY <2>1, PowerPositive
    <2>6. 65536 = 2^RegisterBits * 2^rest
      BY ONLY <2>2, <2>3, <2>4
    <2> QED BY <2>5, <2>6 DEF Values
  <1>3. Values \in Nat
    BY ValuesEven
  <1> DEFINE e == d * k
  <1>4. e \in Int /\ Immediate(n) = n + Values * e
    <2>1. \A a, b, c \in Int : (a * b) * c = a * (b * c)
      OBVIOUS
    <2>2. 65536 * k = Values * e
      BY <1>2, <1>3, <2>1
    <2> QED BY <1>1, <2>2
  <1> HIDE DEF e
  <1> QED BY <1>4, CellOfSum

\* A constant.
LEMMA ConstAgrees ==
    ASSUME LanesTypeOK, ExecuteInstruction, NEW m, Agrees(m), NEW st, StatementNow(st),
           st.form = "const"
    PROVE  Agrees(Meaning(st, m))'
  <1> DEFINE v == [l \in Lanes |-> Wrapped(st.b)]
             vector == Everywhere(Cell(GetValue(Now)))
  <1>1. NowIs("VLOAD", st.b, 0, st.d)
    BY EmittedByForm, FitsByForm DEF StatementNow, NowIs
  <1>2. "VLOAD" \in UsesDest
    BY DEF UsesDest
  <1>3. GetValue(Now) = Immediate(st.b) /\ Now.opcode = Opcode["VLOAD"]
        /\ "VLOAD" \in DOMAIN Opcode
    BY <1>1, NowSeen
  <1>4. Meaning(st, m) = SetTo(m, st.d, v)
    BY DEF Meaning, SetReg, SetTo
  <1>5. Unflagged({"VLOAD"}, vector)
    BY <1>3, ActionOfCode DEF LoadImmediate
  <1>6. \A l \in Lanes : v[l] = Signed(vector[l])
    <2>1. st.b \in Int
      BY DEF StatementNow, Written
    <2>2. Cell(GetValue(Now)) = Cell(st.b)
      BY <1>3, <2>1, ImmediateIsWritten
    <2> QED BY <2>2, WrappedIsCell DEF Everywhere
  <1> HIDE DEF v, vector
  <1>7. Agrees(SetTo(m, st.d, v))'
    BY <1>1, <1>2, <1>5, <1>6, UnflaggedStep
  <1> QED BY <1>4, <1>7

\* The number of the lane, what has been shifted, and the halves of a product.
LEMMA SpecialAgrees ==
    ASSUME LanesTypeOK, ExecuteInstruction, NEW m, Agrees(m), NEW st, StatementNow(st),
           st.form \in {"index", "shiftreg", "multlo", "multhi"}
    PROVE  Agrees(Meaning(st, m))'
  <1>1. CASE st.form = "index"
    <2> DEFINE v == [l \in Lanes |-> Wrapped(l)]
               vector == [l \in Lanes |-> Cell(l)]
    <2>1. NowIs("LDIX", 0, 0, st.d) /\ "LDIX" \in UsesDest
      BY <1>1, EmittedByForm, FitsByForm DEF StatementNow, NowIs, UsesDest
    <2>2. Unflagged({"LDIX"}, vector)
      BY <2>1, NowSeen, ActionOfCode DEF LoadIndex
    <2>3. Meaning(st, m) = SetTo(m, st.d, v)
      BY <1>1 DEF Meaning, SetReg, SetTo
    <2>4. \A l \in Lanes : v[l] = Signed(vector[l])
      BY WrappedIsCell
    <2> HIDE DEF v, vector
    <2>5. Agrees(SetTo(m, st.d, v))'
      BY <2>1, <2>2, <2>4, UnflaggedStep
    <2> QED BY <2>3, <2>5
  <1>2. CASE st.form = "shiftreg"
    <2> DEFINE v == [l \in Lanes |-> m.shifted[l]]
    <2>1. NowIs("LDSH", 0, 0, st.d) /\ "LDSH" \in UsesDest
      BY <1>2, EmittedByForm, FitsByForm DEF StatementNow, NowIs, UsesDest
    <2>2. Unflagged({"LDSH"}, shiftReg)
      BY <2>1, NowSeen, ActionOfCode DEF LoadShiftReg
    <2>3. Meaning(st, m) = SetTo(m, st.d, v)
      BY <1>2 DEF Meaning, SetReg, SetTo
    <2>4. \A l \in Lanes : v[l] = Signed(shiftReg[l])
      BY DEF Agrees
    <2> HIDE DEF v
    <2>5. Agrees(SetTo(m, st.d, v))'
      BY <2>1, <2>2, <2>4, UnflaggedStep
    <2> QED BY <2>3, <2>5
  <1>3. CASE st.form = "multlo"
    <2> DEFINE v == [l \in Lanes |-> Wrapped(m.product[l])]
    <2>1. NowIs("MULT_LO", 0, 0, st.d) /\ "MULT_LO" \in UsesDest
      BY <1>3, EmittedByForm, FitsByForm DEF StatementNow, NowIs, UsesDest
    <2>2. Unflagged({"MULT_LO"}, mult.low)
      BY <2>1, NowSeen, ActionOfCode
    <2>3. Meaning(st, m) = SetTo(m, st.d, v)
      BY <1>3 DEF Meaning, SetReg, SetTo
    <2>4. \A l \in Lanes : v[l] = Signed(mult.low[l])
      BY WrappedIsCell DEF Agrees, ProductAgrees
    <2> HIDE DEF v
    <2>5. Agrees(SetTo(m, st.d, v))'
      BY <2>1, <2>2, <2>4, UnflaggedStep
    <2> QED BY <2>3, <2>5
  <1>4. CASE st.form = "multhi"
    <2> DEFINE v == [l \in Lanes |-> Wrapped(m.product[l] \div Values)]
    <2>1. NowIs("MULT_HI", 0, 0, st.d) /\ "MULT_HI" \in UsesDest
      BY <1>4, EmittedByForm, FitsByForm DEF StatementNow, NowIs, UsesDest
    <2>2. Unflagged({"MULT_HI"}, mult.high)
      BY <2>1, NowSeen, ActionOfCode
    <2>3. Meaning(st, m) = SetTo(m, st.d, v)
      BY <1>4 DEF Meaning, SetReg, SetTo
    <2>4. \A l \in Lanes : v[l] = Signed(mult.high[l])
      BY WrappedIsCell DEF Agrees, ProductAgrees
    <2> HIDE DEF v
    <2>5. Agrees(SetTo(m, st.d, v))'
      BY <2>1, <2>2, <2>4, UnflaggedStep
    <2> QED BY <2>3, <2>5
  <1> QED BY <1>1, <1>2, <1>3, <1>4

\* A row of the local store by its number.
LEMMA ReadAtAgrees ==
    ASSUME LanesTypeOK, ExecuteInstruction, NEW m, Agrees(m), NEW st, StatementNow(st),
           st.form = "iread"
    PROVE  Agrees(Meaning(st, m))'
  <1> DEFINE v == [l \in Lanes |-> m.store[st.b][l]]
  <1>1. NowIs("IREAD", st.b, 0, st.d) /\ "IREAD" \in UsesDest
    BY EmittedByForm, FitsByForm DEF StatementNow, NowIs, UsesDest
  <1>2. st.b \in Rows /\ GetValue(Now) = st.b
    BY <1>1, NowSeen DEF NowIs, Fits
  <1>3. Unflagged({"IREAD"}, localStore[st.b])
    BY <1>1, <1>2, NowSeen, ActionOfCode DEF ReadAt
  <1>4. Meaning(st, m) = SetTo(m, st.d, v)
    BY DEF Meaning, SetReg, SetTo
  <1>5. \A l \in Lanes : v[l] = Signed(localStore[st.b][l])
    BY <1>2 DEF Agrees, ValuesOf, LanesTypeOK
  <1> HIDE DEF v
  <1>6. Agrees(SetTo(m, st.d, v))'
    BY <1>1, <1>3, <1>5, UnflaggedStep
  <1> QED BY <1>4, <1>6


-----------------------------------------------------------------------------
(***************************************************************************)
(* Operators of two registers.                                             *)
(***************************************************************************)
BinaryValues(m, op, a, b) ==
    [l \in Lanes |-> IF IsShift(op) /\ m.val[b][l] \notin 0..31 THEN 0
                     ELSE Value(op, m.val[a][l], m.val[b][l], CarryAfter(m.last[l]))]

\* What the flags of each lane compare after an operator: lost where the lane took no part.
Comparisons(m, op, a, b) ==
    [l \in Lanes |-> IF l \in Taking(m) THEN Compared(op, m.val[a][l], m.val[b][l])
                     ELSE Compared("lost", 0, 0)]

\* What BinaryMeaning sets, where it is defined.
LEMMA BinaryUnfolded ==
    ASSUME NEW m, Shaped(m), m.defined = TRUE, NEW op, NEW d, NEW a, NEW b,
           BinaryMeaning(m, op, d, a, b).defined = TRUE
    PROVE  /\ IsUnflagged(op) =>
                  /\ BinaryMeaning(m, op, d, a, b) = SetTo(m, d, BinaryValues(m, op, a, b))
                  /\ IsShift(op) => \A l \in Taking(m) : m.val[b][l] \in 0..31
           /\ ~IsUnflagged(op) =>
                  /\ BinaryMeaning(m, op, d, a, b)
                         = [SetTo(m, d, BinaryValues(m, op, a, b))
                               EXCEPT !.last = Comparisons(m, op, a, b)]
                  /\ op \in {"addc", "subc"} =>
                         \A l \in Taking(m) : m.last[l].op \in {"plus", "minus"}
  <1> DEFINE v == BinaryValues(m, op, a, b)
             set == SetTo(m, d, v)
             n == [set EXCEPT !.last = Comparisons(m, op, a, b)]
  <1>1. SetReg(m, d, LAMBDA l :
                   IF IsShift(op) /\ m.val[b][l] \notin 0..31 THEN 0
                   ELSE Value(op, m.val[a][l], m.val[b][l], CarryAfter(m.last[l]))) = set
    BY DEF SetReg, SetTo, BinaryValues
  <1>2. /\ Shaped(set) /\ set.defined = TRUE
        /\ Shaped(n) /\ n.defined = TRUE
    <2> DEFINE val == [m.val EXCEPT ![d] = [l \in Lanes |-> IF l \in Taking(m) THEN v[l]
                                                           ELSE m.val[d][l]]]
    <2>1. set = [m EXCEPT !.val = val]
      BY DEF SetTo
    <2> HIDE DEF val, set, v
    <2>2. Alike(set, m, "val")
      BY <2>1, ChangedField
    <2>3. Shaped(set) /\ set.defined = TRUE
      BY <2>2 DEF Alike
    <2>4. Alike(n, set, "last")
      BY <2>3, ChangedField
    <2> HIDE DEF n
    <2> QED BY <2>3, <2>4 DEF Alike
  <1>3. CASE IsUnflagged(op)
    <2> DEFINE c == IsShift(op) => \A l \in Taking(m) : m.val[b][l] \in 0..31
    <2>1. BinaryMeaning(m, op, d, a, b) = Undefined(set, c)
      BY <1>1, <1>3 DEF BinaryMeaning
    <2>2. c \in BOOLEAN
      OBVIOUS
    <2> HIDE DEF c, set
    <2>3. Undefined(set, c).defined = TRUE
      BY <2>1
    <2>4. c /\ Undefined(set, c) = set
      BY ONLY <1>2, <2>2, <2>3, StillDefined
    <2> QED BY <1>3, <2>1, <2>4 DEF c, set
  <1>4. CASE ~IsUnflagged(op)
    <2> DEFINE c == op \in {"addc", "subc"} =>
                        \A l \in Taking(m) : m.last[l].op \in {"plus", "minus"}
    <2>1. BinaryMeaning(m, op, d, a, b) = Undefined(n, c)
      <3> HIDE DEF v
      <3> QED BY <1>1, <1>4 DEF BinaryMeaning, Comparisons, v
    <2>2. c \in BOOLEAN
      OBVIOUS
    <2> HIDE DEF c, n
    <2>3. Undefined(n, c).defined = TRUE
      BY <2>1
    <2>4. c /\ Undefined(n, c) = n
      BY ONLY <1>2, <2>2, <2>3, StillDefined
    <2> QED BY <1>4, <2>1, <2>4 DEF c, n, set, v
  <1> QED BY <1>3, <1>4

\* m after an operator that sets flags.
Operated(m, op, d, a, b) ==
    [SetTo(m, d, BinaryValues(m, op, a, b)) EXCEPT !.last = Comparisons(m, op, a, b)]

\* The same for the operators without flags and for those with flags.
LEMMA UnflaggedUnfolded ==
    ASSUME NEW m, Shaped(m), m.defined = TRUE, NEW op, IsUnflagged(op), NEW d, NEW a, NEW b,
           BinaryMeaning(m, op, d, a, b).defined = TRUE
    PROVE  /\ BinaryMeaning(m, op, d, a, b) = SetTo(m, d, BinaryValues(m, op, a, b))
           /\ IsShift(op) => \A l \in Taking(m) : m.val[b][l] \in 0..31
  BY BinaryUnfolded

\* What an operator that sets flags means, where it is defined.
LEMMA FlaggedUnfolded ==
    ASSUME NEW m, Shaped(m), m.defined = TRUE, NEW op, ~IsUnflagged(op), NEW d, NEW a, NEW b,
           BinaryMeaning(m, op, d, a, b).defined = TRUE
    PROVE  /\ BinaryMeaning(m, op, d, a, b) = Operated(m, op, d, a, b)
           /\ op \in {"addc", "subc"} =>
                  \A l \in Taking(m) : m.last[l].op \in {"plus", "minus"}
  BY BinaryUnfolded DEF Operated

\* The flags of a sum, a difference and a comparison are what there is to ask of
\* them, in the lanes that take part; the others ask for nothing.
LEMMA FlagsOfOperator ==
    ASSUME NEW m, NEW op, NEW a, NEW b, NEW symbol, NEW left, NEW right, NEW carry,
           \A l \in Lanes : left[l] \in Cells /\ right[l] \in Cells,
           \A l \in Lanes : /\ m.val[a][l] = Signed(left[l])
                            /\ m.val[b][l] = Signed(right[l]),
           op = "plus" => symbol = "+", op = "minus" => symbol = "-",
           flags' = Flags(symbol, left, right, carry)
    PROVE  FlagsAgree(Comparisons(m, op, a, b))'
  <1> DEFINE last == Comparisons(m, op, a, b)
  <1> SUFFICES ASSUME NEW l \in Lanes
               PROVE  /\ last[l].op \in {"plus", "minus"} =>
                             flags'.carry[l] = CarryAfter(last[l])
                      /\ last[l].op \in {"minus", "eq", "lt"} =>
                             /\ (flags'.eq[l] = 1) <=> (last[l].x = last[l].y)
                             /\ (flags'.lt[l] = 1) <=> (last[l].x < last[l].y)
    <2> HIDE DEF last
    <2> QED BY DEF FlagsAgree, last
  <1>1. CASE l \notin Taking(m)
    <2>1. last[l] = Compared("lost", 0, 0)
      BY <1>1 DEF Comparisons
    <2>2. last[l].op = "lost"
      BY <2>1 DEF Compared
    <2> QED BY <2>2
  <1>2. CASE l \in Taking(m)
    <2> DEFINE x == left[l]  y == right[l]
    <2>1. last[l] = Compared(op, Signed(x), Signed(y))
      BY <1>2 DEF Comparisons
    <2>2. last[l].op = op /\ last[l].x = Signed(x) /\ last[l].y = Signed(y)
      BY <2>1 DEF Compared
    <2>3. x \in Cells /\ y \in Cells
      OBVIOUS
    <2>4. /\ flags'.carry[l] = AsFlag(CarryOf(symbol, x, y, carry[l]))
          /\ flags'.eq[l] = AsFlag(x = y)
          /\ flags'.lt[l] = AsFlag(Signed(x) < Signed(y))
      BY DEF Flags
    <2> HIDE DEF x, y, last
    <2>5. (flags'.eq[l] = 1) <=> (last[l].x = last[l].y)
      BY <2>2, <2>3, <2>4, SignedOne DEF AsFlag
    <2>6. (flags'.lt[l] = 1) <=> (last[l].x < last[l].y)
      BY <2>2, <2>4 DEF AsFlag
    <2>7. op \in {"plus", "minus"} => flags'.carry[l] = CarryAfter(last[l])
      <3>1. Unsigned(last[l].x) = x /\ Unsigned(last[l].y) = y
        BY <2>2, <2>3, UnsignedOfSigned
      <3>2. CASE op = "plus"
        BY <2>2, <2>4, <3>1, <3>2 DEF CarryAfter, CarryOf, AsFlag
      <3>3. CASE op = "minus"
        BY <2>2, <2>4, <3>1, <3>3 DEF CarryAfter, CarryOf, AsFlag
      <3> QED BY <3>2, <3>3
    <2> QED BY <2>2, <2>5, <2>6, <2>7
  <1> QED BY <1>1, <1>2


\* The operands of a sum come the other way round; no order is asked of it, and
\* nothing of a sum or difference with a carry.
LEMMA FlagsOfSum ==
    ASSUME NEW m, NEW op \in {"plus", "addc", "subc", "and", "or", "xor"}, NEW a, NEW b,
           NEW left, NEW right, NEW carry,
           \A l \in Lanes : left[l] \in Cells /\ right[l] \in Cells,
           \A l \in Lanes : /\ m.val[a][l] = Signed(right[l])
                            /\ m.val[b][l] = Signed(left[l]),
           op = "plus" => flags' = Flags("+", left, right, carry)
    PROVE  FlagsAgree(Comparisons(m, op, a, b))'
  <1> DEFINE last == Comparisons(m, op, a, b)
  <1> SUFFICES ASSUME NEW l \in Lanes
               PROVE  /\ last[l].op \in {"plus", "minus"} =>
                             flags'.carry[l] = CarryAfter(last[l])
                      /\ last[l].op \notin {"minus", "eq", "lt"}
    <2> HIDE DEF last
    <2> QED BY DEF FlagsAgree, last
  <1>1. CASE l \notin Taking(m)
    <2>1. last[l] = Compared("lost", 0, 0)
      BY <1>1 DEF Comparisons
    <2>2. last[l].op = "lost"
      BY <2>1 DEF Compared
    <2> QED BY <2>2
  <1>2. CASE l \in Taking(m)
    <2> DEFINE x == right[l]  y == left[l]
    <2>1. last[l] = Compared(op, Signed(x), Signed(y))
      BY <1>2 DEF Comparisons
    <2>2. last[l].op = op /\ last[l].x = Signed(x) /\ last[l].y = Signed(y)
      BY <2>1 DEF Compared
    <2>3. x \in Cells /\ y \in Cells
      OBVIOUS
    <2>4. op = "plus" => flags'.carry[l] = AsFlag(CarryOf("+", y, x, carry[l]))
      BY DEF Flags
    <2> HIDE DEF x, y, last
    <2>5. op = "plus" => flags'.carry[l] = CarryAfter(last[l])
      <3> HAVE op = "plus"
      <3>1. Unsigned(last[l].x) = x /\ Unsigned(last[l].y) = y
        BY <2>2, <2>3, UnsignedOfSigned
      <3>2. x + y = y + x
        <4>1. x \in Nat /\ y \in Nat
          BY <2>3, CellOfCell
        <4> QED BY <4>1
      <3> QED BY <2>2, <2>4, <3>1, <3>2 DEF CarryAfter, CarryOf, AsFlag
    <2> QED BY <2>2, <2>5
  <1> QED BY <1>1, <1>2

\* Form and operands of what is written with two registers.
LEMMA BinaryNow ==
    ASSUME NEW st, StatementNow(st), st.form \in {"binary", "update"}
    PROVE  /\ st.op \in DOMAIN CodeOf
           /\ st.op \in {"plus", "addc"} => NowIs(CodeOf[st.op], FirstOf(st), st.b, st.d)
           /\ st.op \notin {"plus", "addc"} => NowIs(CodeOf[st.op], st.b, FirstOf(st), st.d)
           /\ \A m : Meaning(st, m) = BinaryMeaning(m, st.op, st.d, FirstOf(st), st.b)
  <1>1. st.op \in DOMAIN CodeOf
    BY DEF StatementNow, Written
  <1>2. /\ st.op \in {"plus", "addc"} => NowIs(CodeOf[st.op], FirstOf(st), st.b, st.d)
        /\ st.op \notin {"plus", "addc"} => NowIs(CodeOf[st.op], st.b, FirstOf(st), st.d)
    BY EmittedByForm, FitsByForm DEF StatementNow, NowIs
  <1>3. \A m : Meaning(st, m) = BinaryMeaning(m, st.op, st.d, FirstOf(st), st.b)
    BY DEF Meaning, FirstOf
  <1> QED BY <1>1, <1>2, <1>3

\* An operator that sets the flags, executed.
LEMMA FlaggedStep ==
    ASSUME LanesTypeOK, NEW m, Agrees(m), NEW code \in UsesDest, NEW right, NEW left, NEW dest,
           NowIs(code, right, left, dest), NEW op, NEW a, NEW b, ~IsShift(op),
           NEW vector, AssignDest(vector),
           \A l \in Taking(m) :
               Signed(vector[l]) = Value(op, m.val[a][l], m.val[b][l], CarryAfter(m.last[l])),
           FlagsAgree(Comparisons(m, op, a, b))',
           UNCHANGED <<localStore, active, cellDisabled, mult, shiftReg, reductions, failure>>
    PROVE  Agrees(Operated(m, op, dest, a, b))'
  <1> DEFINE v == BinaryValues(m, op, a, b)
             last == Comparisons(m, op, a, b)
  <1>1. GetDest(Now) = dest /\ dest \in Registers
    BY OperandsAgree
  <1>2. \A l \in Taking(m) : v[l] = Signed(vector[l])
    BY TakingAreSelected DEF BinaryValues
  <1>3. FlagsAgree(last)'
    OBVIOUS
  <1> HIDE DEF v, last
  <1>4. Agrees([SetTo(m, dest, v) EXCEPT !.last = last])'
    BY <1>1, <1>2, <1>3, RegisterStepAgrees
  <1> QED BY <1>4 DEF v, last, Operated

\* Sums, differences, comparisons and logical operators without a carry.
LEMMA ArithmeticAgrees ==
    ASSUME LanesTypeOK, ExecuteInstruction, NEW m, Agrees(m), NEW st, StatementNow(st),
           st.form \in {"binary", "update"},
           st.op \in {"plus", "minus", "and", "or", "xor", "eq", "lt"},
           Meaning(st, m).defined = TRUE
    PROVE  Agrees(Meaning(st, m))'
  <1> DEFINE code == CodeOf[st.op]
             a == FirstOf(st)
             b == st.b
             symbol == OperatorOf[code]
  <1>1. code \in DOMAIN OperatorOf /\ code \in UsesDest /\ code \in UsesLeft
        /\ code \in UsesRight /\ code \in DOMAIN Opcode
    BY CodesAreNames DEF CodeOf, OperatorOf, UsesDest, UsesLeft, UsesRight, TwoOperands, Codes,
                         RegisterCodes
  <1>2. /\ st.op = "plus" => symbol = "+"
        /\ st.op = "minus" => symbol = "-"
        /\ st.op = "and" => symbol = "&"
        /\ st.op = "or" => symbol = "|"
        /\ st.op = "xor" => symbol = "^"
        /\ st.op = "eq" => symbol = "=="
        /\ st.op = "lt" => symbol = "<"
    BY DEF CodeOf, OperatorOf
  <1>3. /\ st.op = "plus" => NowIs(code, a, b, st.d)
        /\ st.op # "plus" => NowIs(code, b, a, st.d)
        /\ Meaning(st, m) = BinaryMeaning(m, st.op, st.d, a, b)
    BY BinaryNow
  <1> HIDE DEF code, symbol, a, b
  <1>4. /\ AssignDest(ResultVector(symbol, Left, Right))
        /\ flags' = Flags(symbol, Left, Right, flags.carry)
        /\ UNCHANGED <<localStore, active, cellDisabled, mult, shiftReg, reductions, failure>>
    <2>1. Now.opcode = Opcode[code]
      BY <1>3, NowSeen
    <2>2. Arithmetic(code)
      BY <1>1, <2>1, ActionOfCode
    <2> QED BY <2>2 DEF Arithmetic, symbol
  <1>5. ~IsUnflagged(st.op) /\ ~IsShift(st.op)
    BY DEF IsUnflagged, IsShift
  <1>6. Meaning(st, m) = Operated(m, st.op, st.d, a, b)
    <2> DEFINE op == st.op  d == st.d
    <2>1. Shaped(m) /\ m.defined = TRUE
      BY DEF Agrees
    <2>2. ~IsUnflagged(op) /\ BinaryMeaning(m, op, d, a, b).defined = TRUE
      BY <1>3, <1>5
    <2> HIDE DEF op, d
    <2>3. BinaryMeaning(m, op, d, a, b)
              = Operated(m, op, d, a, b)
      BY ONLY <2>1, <2>2, FlaggedUnfolded
    <2> QED BY <1>3, <2>3 DEF op, d
  <1>7. CASE st.op = "plus"
    <2>1. \A l \in Lanes : /\ Left[l] \in Cells /\ Right[l] \in Cells
                           /\ m.val[a][l] = Signed(Right[l])
                           /\ m.val[b][l] = Signed(Left[l])
      BY <1>1, <1>3, <1>7, OperandsAgree
    <2>2. \A l \in Lanes : Signed(ResultVector(symbol, Left, Right)[l])
              = Value(st.op, m.val[a][l], m.val[b][l], CarryAfter(m.last[l]))
      <3> TAKE l \in Lanes
      <3>1. Signed(Result("+", Left[l], Right[l])) = Wrapped(Signed(Left[l]) + Signed(Right[l]))
        BY <2>1, FlaggedValue DEF Value
      <3>2. Signed(Left[l]) + Signed(Right[l]) = Signed(Right[l]) + Signed(Left[l])
        <4>1. Signed(Left[l]) \in Int /\ Signed(Right[l]) \in Int
          BY <2>1, SignedRange
        <4> QED BY <4>1
      <3>3. ResultVector(symbol, Left, Right)[l] = Result("+", Left[l], Right[l])
        BY <1>2, <1>7 DEF ResultVector
      <3> QED BY <1>7, <2>1, <3>1, <3>2, <3>3 DEF Value
    <2>3. FlagsAgree(Comparisons(m, st.op, a, b))'
      BY <1>2, <1>4, <1>7, <2>1, FlagsOfSum
    <2>4. \A l \in Taking(m) : Signed(ResultVector(symbol, Left, Right)[l])
              = Value(st.op, m.val[a][l], m.val[b][l], CarryAfter(m.last[l]))
      BY <2>2, TakingAreSelected
    <2>5. Agrees(Operated(m, st.op, st.d, a, b))'
      BY <1>1, <1>3, <1>4, <1>5, <1>7, <2>3, <2>4, FlaggedStep
    <2> QED BY <1>6, <2>5
  <1>8. CASE st.op # "plus"
    <2>1. \A l \in Lanes : /\ Left[l] \in Cells /\ Right[l] \in Cells
                           /\ m.val[a][l] = Signed(Left[l])
                           /\ m.val[b][l] = Signed(Right[l])
      BY <1>1, <1>3, <1>8, OperandsAgree
    <2>2. \A l \in Lanes : Signed(ResultVector(symbol, Left, Right)[l])
              = Value(st.op, m.val[a][l], m.val[b][l], CarryAfter(m.last[l]))
      <3> TAKE l \in Lanes
      <3>1. ResultVector(symbol, Left, Right)[l] = Result(symbol, Left[l], Right[l])
        BY DEF ResultVector
      <3>2. Signed(Result(symbol, Left[l], Right[l]))
                = Value(st.op, Signed(Left[l]), Signed(Right[l]), CarryAfter(m.last[l]))
        BY <1>2, <1>8, <2>1, FlaggedValue
      <3> QED BY <2>1, <3>1, <3>2
    <2>3. FlagsAgree(Comparisons(m, st.op, a, b))'
      BY <1>2, <1>4, <1>8, <2>1, FlagsOfOperator
    <2>4. \A l \in Taking(m) : Signed(ResultVector(symbol, Left, Right)[l])
              = Value(st.op, m.val[a][l], m.val[b][l], CarryAfter(m.last[l]))
      BY <2>2, TakingAreSelected
    <2>5. Agrees(Operated(m, st.op, st.d, a, b))'
      BY <1>1, <1>3, <1>4, <1>5, <1>8, <2>3, <2>4, FlaggedStep
    <2> QED BY <1>6, <2>5
  <1> QED BY <1>7, <1>8


\* Sums and differences with the carry of the sum or difference before.
LEMMA CarriedAgrees ==
    ASSUME LanesTypeOK, ExecuteInstruction, NEW m, Agrees(m), NEW st, StatementNow(st),
           st.form \in {"binary", "update"}, st.op \in {"addc", "subc"},
           Meaning(st, m).defined = TRUE
    PROVE  Agrees(Meaning(st, m))'
  <1> DEFINE a == FirstOf(st)
             b == st.b
  <1>1. /\ "ADDC" \in UsesDest /\ "ADDC" \in UsesLeft /\ "ADDC" \in UsesRight
        /\ "SUBC" \in UsesDest /\ "SUBC" \in UsesLeft /\ "SUBC" \in UsesRight
    BY DEF UsesDest, UsesLeft, UsesRight, TwoOperands
  <1>2. /\ st.op = "addc" => NowIs("ADDC", a, b, st.d)
        /\ st.op = "subc" => NowIs("SUBC", b, a, st.d)
        /\ Meaning(st, m) = BinaryMeaning(m, st.op, st.d, a, b)
    BY BinaryNow DEF CodeOf
  <1> HIDE DEF a, b
  <1>3. ~IsUnflagged(st.op) /\ ~IsShift(st.op)
    BY DEF IsUnflagged, IsShift
  <1>4. /\ Meaning(st, m) = Operated(m, st.op, st.d, a, b)
        /\ \A l \in Taking(m) : m.last[l].op \in {"plus", "minus"}
    <2> DEFINE op == st.op  d == st.d
    <2>1. Shaped(m) /\ m.defined = TRUE
      BY DEF Agrees
    <2>2. ~IsUnflagged(op) /\ op \in {"addc", "subc"}
          /\ BinaryMeaning(m, op, d, a, b).defined = TRUE
      BY <1>2, <1>3
    <2> HIDE DEF op, d
    <2>3. /\ BinaryMeaning(m, op, d, a, b)
                 = Operated(m, op, d, a, b)
          /\ \A l \in Taking(m) : m.last[l].op \in {"plus", "minus"}
      BY ONLY <2>1, <2>2, FlaggedUnfolded
    <2> QED BY <1>2, <2>3 DEF op, d
  <1>5. \A l \in Taking(m) : l \in Lanes /\ flags.carry[l] = CarryAfter(m.last[l])
                             /\ flags.carry[l] \in {0, 1}
    <2>1. FlagsAgree(m.last)
      BY DEF Agrees
    <2>2. flags["carry"] \in [Lanes -> {0, 1}]
      BY DEF LanesTypeOK
    <2>3. \A l \in Lanes : flags.carry[l] \in {0, 1}
      BY <2>2
    <2>4. \A l \in Lanes : m.last[l].op \in {"plus", "minus"} =>
                               flags.carry[l] = CarryAfter(m.last[l])
      BY <2>1 DEF FlagsAgree
    <2>5. \A l \in Taking(m) : l \in Lanes
      BY TakingAreSelected
    <2> QED BY <1>4, <2>3, <2>4, <2>5
  <1>6. CASE st.op = "addc"
    <2> DEFINE sum == ResultVector("+", flags.carry, Left)
    <2>1. /\ AssignDest(ResultVector("+", sum, Right))
          /\ UNCHANGED <<localStore, active, cellDisabled, mult, shiftReg, reductions, failure>>
      <3>1. AddWithCarry
        BY <1>2, <1>6, NowSeen, ActionOfCode
      <3> QED BY <3>1 DEF AddWithCarry
    <2>2. \A l \in Lanes : /\ Left[l] \in Cells /\ Right[l] \in Cells
                           /\ m.val[a][l] = Signed(Right[l])
                           /\ m.val[b][l] = Signed(Left[l])
      BY <1>1, <1>2, <1>6, OperandsAgree
    <2>3. ASSUME NEW l \in Taking(m)
          PROVE  Signed(ResultVector("+", sum, Right)[l])
                     = Value(st.op, m.val[a][l], m.val[b][l], CarryAfter(m.last[l]))
      <3> DEFINE c == flags.carry[l]
      <3>1. l \in Lanes /\ c \in {0, 1} /\ c = CarryAfter(m.last[l])
        BY <1>5
      <3>2. ResultVector("+", sum, Right)[l] = Result("+", Result("+", c, Left[l]), Right[l])
        BY <3>1 DEF ResultVector
      <3> HIDE DEF c
      <3>3. Signed(Result("+", Result("+", c, Left[l]), Right[l]))
                = Wrapped(Signed(Left[l]) + Signed(Right[l]) + c)
        BY <2>2, <3>1, CarriedValue DEF Value
      <3>4. Signed(Left[l]) + Signed(Right[l]) + c = Signed(Right[l]) + Signed(Left[l]) + c
        <4>1. Signed(Left[l]) \in Int /\ Signed(Right[l]) \in Int /\ c \in Int
          BY <2>2, <3>1, SignedRange
        <4> QED BY <4>1
      <3>5. Value("addc", m.val[a][l], m.val[b][l], c)
                = Wrapped(Signed(Right[l]) + Signed(Left[l]) + c)
        BY <2>2, <3>1 DEF Value
      <3> QED BY <1>6, <3>1, <3>2, <3>3, <3>4, <3>5
    <2> HIDE DEF sum
    <2>4. FlagsAgree(Comparisons(m, st.op, a, b))'
      BY <1>6, <2>2, FlagsOfSum
    <2>5. Agrees(Operated(m, st.op, st.d, a, b))'
      BY <1>1, <1>2, <1>3, <1>6, <2>1, <2>3, <2>4, FlaggedStep
    <2> QED BY <1>4, <2>5
  <1>7. CASE st.op = "subc"
    <2> DEFINE diff == ResultVector("-", Left, flags.carry)
    <2>1. /\ AssignDest(ResultVector("-", diff, Right))
          /\ UNCHANGED <<localStore, active, cellDisabled, mult, shiftReg, reductions, failure>>
      <3>1. SubWithCarry
        BY <1>2, <1>7, NowSeen, ActionOfCode
      <3> QED BY <3>1 DEF SubWithCarry
    <2>2. \A l \in Lanes : /\ Left[l] \in Cells /\ Right[l] \in Cells
                           /\ m.val[a][l] = Signed(Left[l])
                           /\ m.val[b][l] = Signed(Right[l])
      BY <1>1, <1>2, <1>7, OperandsAgree
    <2>3. ASSUME NEW l \in Taking(m)
          PROVE  Signed(ResultVector("-", diff, Right)[l])
                     = Value(st.op, m.val[a][l], m.val[b][l], CarryAfter(m.last[l]))
      <3> DEFINE c == flags.carry[l]
      <3>1. l \in Lanes /\ c \in {0, 1} /\ c = CarryAfter(m.last[l])
        BY <1>5
      <3>2. ResultVector("-", diff, Right)[l] = Result("-", Result("-", Left[l], c), Right[l])
        BY <3>1 DEF ResultVector
      <3> HIDE DEF c
      <3>3. Signed(Result("-", Result("-", Left[l], c), Right[l]))
                = Value("subc", Signed(Left[l]), Signed(Right[l]), c)
        BY <2>2, <3>1, CarriedValue
      <3> QED BY <1>7, <2>2, <3>1, <3>2, <3>3
    <2> HIDE DEF diff
    <2>4. FlagsAgree(Comparisons(m, st.op, a, b))'
      <3> DEFINE left == [l \in Lanes |-> Right[l]]  right == [l \in Lanes |-> Left[l]]
      <3>1. \A l \in Lanes : /\ left[l] \in Cells /\ right[l] \in Cells
                             /\ m.val[a][l] = Signed(right[l])
                             /\ m.val[b][l] = Signed(left[l])
        BY <2>2
      <3> HIDE DEF left, right
      <3> QED BY <1>7, <3>1, FlagsOfSum
    <2>5. Agrees(Operated(m, st.op, st.d, a, b))'
      BY <1>1, <1>2, <1>3, <1>7, <2>1, <2>3, <2>4, FlaggedStep
    <2> QED BY <1>4, <2>5
  <1> QED BY <1>6, <1>7

\* The unsigned comparison, and shifts by a number of each lane: a number that
\* C++ defines the shift for.
LEMMA ShiftOrUltAgrees ==
    ASSUME LanesTypeOK, ExecuteInstruction, NEW m, Agrees(m), NEW st, StatementNow(st),
           st.form \in {"binary", "update"}, st.op \in {"ult", "shl", "shr", "shra"},
           Meaning(st, m).defined = TRUE
    PROVE  Agrees(Meaning(st, m))'
  <1> DEFINE code == CodeOf[st.op]
             a == FirstOf(st)
             b == st.b
             v == BinaryValues(m, st.op, a, b)
  <1>1. code \in UsesDest /\ code \in UsesLeft /\ code \in UsesRight /\ code \in DOMAIN Opcode
    BY CodesAreNames DEF CodeOf, UsesDest, UsesLeft, UsesRight, TwoOperands, Codes, RegisterCodes
  <1>2. /\ NowIs(code, b, a, st.d)
        /\ Meaning(st, m) = BinaryMeaning(m, st.op, st.d, a, b)
    BY BinaryNow
  <1>3. IsUnflagged(st.op) /\ (st.op = "ult" <=> ~IsShift(st.op))
    BY DEF IsUnflagged, IsShift
  <1>4. /\ st.op = "ult" => code = "ULT"
        /\ st.op = "shl" => code = "SHL"
        /\ st.op = "shr" => code = "SHR"
        /\ st.op = "shra" => code = "SHRA"
    BY DEF CodeOf
  <1> HIDE DEF code, a, b
  <1>5. /\ Meaning(st, m) = SetTo(m, st.d, v)
        /\ IsShift(st.op) => \A l \in Taking(m) : m.val[b][l] \in 0..31
    <2> DEFINE op == st.op  d == st.d
    <2>1. Shaped(m) /\ m.defined = TRUE
      BY DEF Agrees
    <2>2. IsUnflagged(op) /\ BinaryMeaning(m, op, d, a, b).defined = TRUE
      BY <1>2, <1>3
    <2> HIDE DEF op, d, v
    <2>3. /\ BinaryMeaning(m, op, d, a, b) = SetTo(m, d, BinaryValues(m, op, a, b))
          /\ IsShift(op) => \A l \in Taking(m) : m.val[b][l] \in 0..31
      BY ONLY <2>1, <2>2, UnflaggedUnfolded
    <2> QED BY <1>2, <2>3 DEF op, d, v
  <1>6. \A l \in Lanes : /\ Left[l] \in Cells /\ Right[l] \in Cells
                         /\ m.val[a][l] = Signed(Left[l])
                         /\ m.val[b][l] = Signed(Right[l])
    BY <1>1, <1>2, OperandsAgree
  <1>7. Now.opcode = Opcode[code]
    BY <1>2, NowSeen
  <1>8. CASE st.op = "ult"
    <2>1. Unflagged({"ULT"}, [l \in Lanes |-> UnsignedLess(Left[l], Right[l])])
      BY <1>1, <1>4, <1>7, <1>8, ActionOfCode DEF CompareUnsigned
    <2>2. \A l \in Lanes : v[l] = Signed([k \in Lanes |-> UnsignedLess(Left[k], Right[k])][l])
      <3> TAKE l \in Lanes
      <3>1. Signed(UnsignedLess(Left[l], Right[l]))
                = Value("ult", Signed(Left[l]), Signed(Right[l]), CarryAfter(m.last[l]))
        BY <1>6, UnflaggedValue
      <3>2. v[l] = Value("ult", m.val[a][l], m.val[b][l], CarryAfter(m.last[l]))
        BY <1>3, <1>8 DEF BinaryValues
      <3> QED BY <1>6, <3>1, <3>2
    <2> HIDE DEF v
    <2>3. Agrees(SetTo(m, st.d, v))'
      BY <1>1, <1>2, <2>1, <2>2, UnflaggedStep
    <2> QED BY <1>5, <2>3
  <1>9. CASE st.op # "ult"
    <2>1. PICK name : Shift(name, st.op)
      BY <1>1, <1>4, <1>7, <1>9, ActionOfCode
    <2> DEFINE counts == [l \in Selected |-> Signed(Right[l])]
    <2>2. PICK number \in ShiftNumbers(counts) :
              AssignDest([l \in Lanes |->
                  IF IsCellActive(l) THEN ShiftBy(st.op, Left[l], number[l]) ELSE Left[l]])
      BY <2>1 DEF Shift
    <2>3. \A l \in Selected : l \in Taking(m) /\ l \in Lanes /\ counts[l] = m.val[b][l]
                              /\ counts[l] \in 0..31
      <3>1. \A l \in Selected : l \in Taking(m) /\ l \in Lanes
        BY TakingAreSelected
      <3> QED BY <1>3, <1>5, <1>6, <1>9, <3>1
    <2>4. \A l \in Selected : number[l] = counts[l]
      <3>1. DOMAIN counts = Selected
        OBVIOUS
      <3> HIDE DEF counts
      <3> QED BY <2>2, <2>3, <3>1, DefinedShifts
    <2> HIDE DEF counts
    <2> DEFINE vector == [l \in Lanes |->
                   IF IsCellActive(l) THEN ShiftBy(st.op, Left[l], number[l]) ELSE Left[l]]
    <2>5. \A l \in Taking(m) : v[l] = Signed(vector[l])
      <3> TAKE l \in Taking(m)
      <3>1. l \in Selected /\ l \in Lanes /\ IsCellActive(l)
        BY TakingAreSelected DEF Selected
      <3>2. vector[l] = ShiftBy(st.op, Left[l], m.val[b][l])
        BY <2>3, <2>4, <3>1
      <3>3. m.val[b][l] \in 0..31 /\ m.val[b][l] \in Nat
        BY <2>3, <3>1
      <3>4. v[l] = Value(st.op, m.val[a][l], m.val[b][l], CarryAfter(m.last[l]))
        BY <3>1, <3>3 DEF BinaryValues
      <3> HIDE DEF vector, v
      <3>5. Signed(ShiftBy(st.op, Left[l], m.val[b][l]))
                = Value(st.op, Signed(Left[l]), m.val[b][l], CarryAfter(m.last[l]))
        BY <1>6, <1>9, <3>1, <3>3, UnflaggedValue
      <3> QED BY <1>6, <3>1, <3>2, <3>4, <3>5
    <2>6. GetDest(Now) = st.d /\ st.d \in Registers
      BY <1>1, <1>2, OperandsAgree
    <2>7. AssignDest(vector) /\ UNCHANGED <<localStore, flags, active, cellDisabled, mult,
                                            shiftReg, reductions, failure>>
      BY <2>1, <2>2 DEF Shift
    <2> HIDE DEF v, vector
    <2>8. Agrees(SetTo(m, st.d, v))'
      BY <2>5, <2>6, <2>7, UnflaggedAgrees
    <2> QED BY <1>5, <2>8
  <1> QED BY <1>8, <1>9


-----------------------------------------------------------------------------
(***************************************************************************)
(* Statements that leave registers and flags as they are.                  *)
(***************************************************************************)
\* What a step leaves alone agrees after it.
LEMMA KeptAgrees ==
    ASSUME NEW m, Agrees(m)
    PROVE  /\ UNCHANGED registerFile => m.val = ValuesOf(registerFile)'
           /\ UNCHANGED localStore => m.store = ValuesOf(localStore)'
           /\ UNCHANGED <<active, cellDisabled>> => SelectionAgrees(m.selected, m.gated)'
           /\ UNCHANGED flags => FlagsAgree(m.last)'
           /\ UNCHANGED mult => ProductAgrees(m.product)'
           /\ UNCHANGED shiftReg => m.shifted = [l \in Lanes |-> Signed(shiftReg'[l])]
           /\ UNCHANGED reductions => m.sums = reductions'
           /\ UNCHANGED failure => failure' = "none"
  <1>1. UNCHANGED registerFile => m.val = ValuesOf(registerFile)'
    BY DEF Agrees, ValuesOf
  <1>2. UNCHANGED localStore => m.store = ValuesOf(localStore)'
    BY DEF Agrees, ValuesOf
  <1>3. UNCHANGED <<active, cellDisabled>> => SelectionAgrees(m.selected, m.gated)'
    BY DEF Agrees, SelectionAgrees
  <1>4. UNCHANGED flags => FlagsAgree(m.last)'
    BY FlagsKept
  <1>5. UNCHANGED mult => ProductAgrees(m.product)'
    BY DEF Agrees, ProductAgrees
  <1>6. /\ UNCHANGED shiftReg => m.shifted = [l \in Lanes |-> Signed(shiftReg'[l])]
        /\ UNCHANGED reductions => m.sums = reductions'
        /\ UNCHANGED failure => failure' = "none"
    BY DEF Agrees
  <1> QED BY <1>1, <1>2, <1>3, <1>4, <1>5, <1>6

\* A row of the local store for each lane, by the numbers in a register: all of
\* them rows, or the kernel means nothing.
LEMMA AddressesAreRows ==
    ASSUME LanesTypeOK, NEW m, Agrees(m), NEW b, InStore(m, b),
           \A l \in Lanes : m.val[b][l] = Signed(Right[l])
    PROVE  /\ DOMAIN m.store = Rows
           /\ \A l \in Selected : /\ l \in Taking(m) /\ l \in Lanes
                                  /\ Address(l) = m.val[b][l] /\ Address(l) \in Rows
  <1>1. DOMAIN m.store = Rows
    BY DEF Agrees, ValuesOf, LanesTypeOK
  <1>2. \A l \in Selected : l \in Taking(m) /\ l \in Lanes
    BY TakingAreSelected
  <1> QED BY <1>1, <1>2 DEF InStore, Address

\* READ: the store at the addresses in a register (readDataToRegister).
LEMMA ReadAgrees ==
    ASSUME LanesTypeOK, ExecuteInstruction, NEW m, Agrees(m), NEW st, StatementNow(st),
           st.form = "read", Meaning(st, m).defined = TRUE
    PROVE  Agrees(Meaning(st, m))'
  <1> DEFINE b == st.b
             v == [l \in Lanes |-> m.store[m.val[b][l]][l]]
             vector == [l \in Lanes |-> IF IsCellActive(l) THEN localStore[Address(l)][l] ELSE 0]
  <1>1. NowIs("READ", b, 0, st.d) /\ "READ" \in UsesDest /\ "READ" \in UsesRight
    BY EmittedByForm, FitsByForm DEF StatementNow, NowIs, UsesDest, UsesRight
  <1>2. Read \/ OutOfBounds
    BY <1>1, NowSeen, ActionOfCode
  <1>3. Meaning(st, m) = IF InStore(m, b) THEN SetTo(m, st.d, v) ELSE Undefined(m, FALSE)
    BY DEF Meaning, SetReg, SetTo
  <1>4. InStore(m, b)
    <2>1. Shaped(m) /\ m.defined = TRUE
      BY DEF Agrees
    <2>2. Undefined(m, FALSE).defined # TRUE
      BY <2>1, StillDefined
    <2> HIDE DEF v, b
    <2> QED BY <1>3, <2>2
  <1>5. \A l \in Lanes : Right[l] \in Cells /\ m.val[b][l] = Signed(Right[l])
    BY <1>1, OperandsAgree
  <1> HIDE DEF b
  <1>6. /\ DOMAIN m.store = Rows
        /\ \A l \in Selected : /\ l \in Taking(m) /\ l \in Lanes
                               /\ Address(l) = m.val[b][l] /\ Address(l) \in Rows
    BY <1>4, <1>5, AddressesAreRows
  <1>7. Read
    BY <1>2, <1>6 DEF OutOfBounds
  <1>8. /\ AssignDest(vector)
        /\ UNCHANGED <<localStore, flags, active, cellDisabled, mult, shiftReg, reductions,
                       failure>>
    BY <1>7 DEF Read
  <1>9. \A l \in Taking(m) : v[l] = Signed(vector[l])
    <2> TAKE l \in Taking(m)
    <2>1. l \in Selected /\ l \in Lanes /\ IsCellActive(l)
      BY TakingAreSelected DEF Selected
    <2>2. v[l] = m.store[m.val[b][l]][l] /\ vector[l] = localStore[Address(l)][l]
      BY <2>1
    <2>3. Address(l) = m.val[b][l] /\ Address(l) \in Rows
      BY <1>6, <2>1
    <2>4. \A w \in Rows : m.store[w][l] = Signed(localStore[w][l])
      BY <2>1 DEF Agrees, ValuesOf, LanesTypeOK
    <2> HIDE DEF v, vector
    <2> QED BY <2>2, <2>3, <2>4
  <1>10. GetDest(Now) = st.d /\ st.d \in Registers
    BY <1>1, OperandsAgree
  <1> HIDE DEF v, vector
  <1>11. Agrees(SetTo(m, st.d, v))'
    BY <1>8, <1>9, <1>10, UnflaggedAgrees
  <1> QED BY <1>3, <1>4, <1>11

\* A step that changes the local store and nothing else.
LEMMA StoreStepAgrees ==
    ASSUME NEW m, Agrees(m), NEW store, store = ValuesOf(localStore)',
           UNCHANGED <<registerFile, flags, active, cellDisabled, mult, shiftReg, reductions,
                       failure>>
    PROVE  Agrees([m EXCEPT !.store = store])'
  <1> DEFINE n == [m EXCEPT !.store = store]
  <1>1. Shaped(m) /\ m.defined = TRUE
    BY DEF Agrees
  <1>2. n.store = store /\ Alike(n, m, "store")
    <2>1. Alike([m EXCEPT !.store = store], m, "store")
      BY ONLY <1>1, ChangedField
    <2>2. [m EXCEPT !.store = store].store = store
      BY ONLY <1>1, ChangedField
    <2> QED BY ONLY <2>1, <2>2
  <1> HIDE DEF n
  <1>3. Agrees(n)'
    BY <1>1, <1>2, KeptAgrees DEF Alike, Agrees
  <1> QED BY <1>3 DEF n

\* WRITE: the store of each lane at the address in its register.
LEMMA WriteAgrees ==
    ASSUME LanesTypeOK, ExecuteInstruction, NEW m, Agrees(m), NEW st, StatementNow(st),
           st.form = "write", Meaning(st, m).defined = TRUE
    PROVE  Agrees(Meaning(st, m))'
  <1> DEFINE a == st.a  b == st.b
             store == [w \in DOMAIN m.store |-> [l \in Lanes |->
                          IF l \in Taking(m) /\ m.val[b][l] = w
                          THEN m.val[a][l] ELSE m.store[w][l]]]
  <1>1. NowIs("WRITE", b, a, 0) /\ "WRITE" \in UsesLeft /\ "WRITE" \in UsesRight
    BY EmittedByForm, FitsByForm DEF StatementNow, NowIs, UsesLeft, UsesRight, TwoOperands
  <1>2. Write \/ OutOfBounds
    BY <1>1, NowSeen, ActionOfCode
  <1>3. Meaning(st, m) = IF InStore(m, b) THEN [m EXCEPT !.store = store]
                         ELSE Undefined(m, FALSE)
    BY DEF Meaning
  <1>4. InStore(m, b)
    <2>1. Shaped(m) /\ m.defined = TRUE
      BY DEF Agrees
    <2>2. Undefined(m, FALSE).defined # TRUE
      BY <2>1, StillDefined
    <2> HIDE DEF store, b
    <2> QED BY <1>3, <2>2
  <1>5. \A l \in Lanes : /\ Right[l] \in Cells /\ m.val[b][l] = Signed(Right[l])
                         /\ Left[l] \in Cells /\ m.val[a][l] = Signed(Left[l])
    BY <1>1, OperandsAgree
  <1> HIDE DEF a, b
  <1>6. /\ DOMAIN m.store = Rows
        /\ \A l \in Selected : /\ l \in Taking(m) /\ l \in Lanes
                               /\ Address(l) = m.val[b][l] /\ Address(l) \in Rows
    BY <1>4, <1>5, AddressesAreRows
  <1>7. Write
    BY <1>2, <1>6 DEF OutOfBounds
  <1>8. /\ localStore' = [row \in Rows |-> [l \in Lanes |->
                             IF IsCellActive(l) /\ Address(l) = row
                             THEN Left[l] ELSE localStore[row][l]]]
        /\ UNCHANGED <<registerFile, flags, active, cellDisabled, mult, shiftReg, reductions,
                       failure>>
    BY <1>7 DEF Write
  <1>9. \A w \in Rows, l \in Lanes : store[w][l] = Signed(localStore'[w][l])
    <2> TAKE w \in Rows, l \in Lanes
    <2>1. m.store[w][l] = Signed(localStore[w][l])
      BY DEF Agrees, ValuesOf, LanesTypeOK
    <2>2. l \in Taking(m) <=> IsCellActive(l)
      BY TakingAreSelected DEF Selected
    <2>3. Address(l) = m.val[b][l]
      BY <1>5 DEF Address
    <2>4. store[w][l] = IF l \in Taking(m) /\ m.val[b][l] = w THEN m.val[a][l]
                        ELSE m.store[w][l]
      BY <1>6
    <2>5. localStore'[w][l] = IF IsCellActive(l) /\ Address(l) = w THEN Left[l]
                              ELSE localStore[w][l]
      BY <1>8
    <2> HIDE DEF store
    <2> QED BY <1>5, <2>1, <2>2, <2>3, <2>4, <2>5
  <1>10. store = ValuesOf(localStore)'
    <2>1. store = [w \in Rows |-> [l \in Lanes |-> store[w][l]]]
      BY <1>6
    <2>2. ValuesOf(localStore)' = [w \in Rows |-> [l \in Lanes |-> Signed(localStore'[w][l])]]
      BY <1>8 DEF ValuesOf
    <2> HIDE DEF store
    <2> QED BY <1>9, <2>1, <2>2
  <1> HIDE DEF store
  <1>11. Agrees([m EXCEPT !.store = store])'
    BY <1>8, <1>10, StoreStepAgrees
  <1> QED BY <1>3, <1>4, <1>11

\* A row by its number: only the lanes that take part are written.
LEMMA WriteAtAgrees ==
    ASSUME LanesTypeOK, ExecuteInstruction, NEW m, Agrees(m), NEW st, StatementNow(st),
           st.form = "iwrite"
    PROVE  Agrees(Meaning(st, m))'
  <1> DEFINE a == st.a  b == st.b
             row == [l \in Lanes |-> IF l \in Taking(m) THEN m.val[a][l] ELSE m.store[b][l]]
             store == [m.store EXCEPT ![b] = row]
  <1>1. NowIs("IWRITE", b, a, 0) /\ "IWRITE" \in UsesLeft
    BY EmittedByForm, FitsByForm DEF StatementNow, NowIs, UsesLeft
  <1>2. b \in Rows /\ GetValue(Now) = b
    BY <1>1, NowSeen DEF NowIs, Fits
  <1>3. WriteAt
    BY <1>1, NowSeen, ActionOfCode
  <1>4. Meaning(st, m) = [m EXCEPT !.store = store]
    BY DEF Meaning
  <1>5. \A l \in Lanes : Left[l] \in Cells /\ m.val[a][l] = Signed(Left[l])
    BY <1>1, OperandsAgree
  <1> HIDE DEF a, b
  <1>6. /\ localStore' = [localStore EXCEPT ![b] = AssignedWhere(localStore[b], Left)]
        /\ UNCHANGED <<registerFile, flags, active, cellDisabled, mult, shiftReg, reductions,
                       failure>>
    BY <1>2, <1>3 DEF WriteAt
  <1>7. m.store = [w \in Rows |-> [l \in Lanes |-> Signed(localStore[w][l])]]
        /\ localStore = [w \in Rows |-> localStore[w]]
    BY DEF Agrees, ValuesOf, LanesTypeOK
  <1>8. ASSUME NEW l \in Lanes
        PROVE  row[l] = Signed(AssignedWhere(localStore[b], Left)[l])
    <2>1. l \in Taking(m) <=> IsCellActive(l)
      BY TakingAreSelected DEF Selected
    <2>2. m.store[b][l] = Signed(localStore[b][l])
      BY <1>2, <1>7
    <2> QED BY <1>5, <2>1, <2>2 DEF AssignedWhere
  <1> DEFINE new == AssignedWhere(localStore[b], Left)
  <1>9. row = [l \in Lanes |-> Signed(new[l])]
    BY <1>8
  <1> HIDE DEF row, new
  <1>10. localStore' = [w \in Rows |-> IF w = b THEN new ELSE localStore[w]]
    BY <1>2, <1>6, <1>7 DEF new
  <1>11. store = [w \in Rows |-> IF w = b THEN row ELSE m.store[w]]
    BY <1>2, <1>7
  <1>12. store = ValuesOf(localStore)'
    <2>1. ValuesOf(localStore)' = [w \in Rows |-> [l \in Lanes |-> Signed(localStore'[w][l])]]
      BY <1>10 DEF ValuesOf
    <2>2. \A w \in Rows : w # b => m.store[w] = [l \in Lanes |-> Signed(localStore'[w][l])]
      BY <1>7, <1>10
    <2>3. row = [l \in Lanes |-> Signed(localStore'[b][l])]
      BY <1>2, <1>9, <1>10
    <2> HIDE DEF store
    <2> DEFINE after(w) == [l \in Lanes |-> Signed(localStore'[w][l])]
    <2>4. \A w \in Rows : after(w) = IF w = b THEN row ELSE m.store[w]
      BY <2>2, <2>3
    <2>5. ValuesOf(localStore)' = [w \in Rows |-> after(w)]
      BY <2>1
    <2> HIDE DEF after
    <2> QED BY <1>11, <2>4, <2>5
  <1> HIDE DEF store
  <1>13. Agrees([m EXCEPT !.store = store])'
    BY <1>6, <1>12, StoreStepAgrees
  <1> QED BY <1>4, <1>13


\* NOP.
LEMMA NopAgrees ==
    ASSUME LanesTypeOK, ExecuteInstruction, NEW m, Agrees(m), NEW st, StatementNow(st),
           st.form = "nop"
    PROVE  Agrees(Meaning(st, m))'
  <1>1. NowIs("NOP", 0, 0, 0)
    BY EmittedByForm, FitsByForm DEF StatementNow, NowIs
  <1>2. Nop
    BY <1>1, NowSeen, ActionOfCode
  <1>3. UNCHANGED <<registerFile, localStore, flags, active, cellDisabled, mult, shiftReg,
                    reductions, failure>>
    BY <1>2 DEF Nop
  <1>4. Agrees(m)'
    BY <1>3, KeptAgrees DEF Agrees
  <1>5. Meaning(st, m) = m
    BY DEF Meaning
  <1> QED BY <1>4, <1>5

-----------------------------------------------------------------------------
(***************************************************************************)
(* Products.                                                               *)
(***************************************************************************)
\* Products where lanes take part.
Products(m, p) == [l \in Lanes |-> IF l \in Taking(m) THEN p[l] ELSE m.product[l]]

\* Both halves of a product are stored where lanes take part.
LEMMA ProductStepAgrees ==
    ASSUME LanesTypeOK, NEW m, Agrees(m), NEW p, \A l \in Lanes : p[l] \in Int,
           mult' = [low  |-> AssignedWhere(mult.low, [l \in Lanes |-> LowHalf(p[l])]),
                    high |-> AssignedWhere(mult.high, [l \in Lanes |-> HighHalf(p[l])])],
           UNCHANGED <<registerFile, localStore, flags, active, cellDisabled, shiftReg,
                       reductions, failure>>
    PROVE  Agrees([m EXCEPT !.product = Products(m, p)])'
  <1> DEFINE product == Products(m, p)
             n == [m EXCEPT !.product = product]
  <1>1. ASSUME NEW l \in Lanes
        PROVE  /\ product[l] \in Int
               /\ mult'.low[l] = Cell(product[l])
               /\ mult'.high[l] = Cell(product[l] \div Values)
    <2>1. l \in Taking(m) <=> IsCellActive(l)
      BY TakingAreSelected DEF Selected
    <2>2. /\ m.product[l] \in Int
          /\ mult.low[l] = Cell(m.product[l])
          /\ mult.high[l] = Cell(m.product[l] \div Values)
      BY DEF Agrees, ProductAgrees
    <2>3. product[l] = IF l \in Taking(m) THEN p[l] ELSE m.product[l]
      BY DEF Products
    <2>4. /\ mult'.low[l] = IF IsCellActive(l) THEN LowHalf(p[l]) ELSE mult.low[l]
          /\ mult'.high[l] = IF IsCellActive(l) THEN HighHalf(p[l]) ELSE mult.high[l]
      BY DEF AssignedWhere
    <2> HIDE DEF product
    <2> QED BY <2>1, <2>2, <2>3, <2>4 DEF LowHalf, HighHalf
  <1>2. ProductAgrees(product)'
    <2>1. product = [l \in Lanes |-> product[l]]
      BY DEF Products
    <2> HIDE DEF product
    <2> QED BY <1>1, <2>1 DEF ProductAgrees
  <1>3. Shaped(m) /\ m.defined = TRUE
    BY DEF Agrees
  <1> HIDE DEF product
  <1>4. n.product = product /\ Alike(n, m, "product")
    <2>1. Alike([m EXCEPT !.product = product], m, "product")
      BY ONLY <1>3, ChangedField
    <2>2. [m EXCEPT !.product = product].product = product
      BY ONLY <1>3, ChangedField
    <2> QED BY ONLY <2>1, <2>2
  <1> HIDE DEF n
  <1>5. Agrees(n)'
    BY <1>2, <1>3, <1>4, KeptAgrees DEF Alike, Agrees
  <1> QED BY <1>5 DEF n, product

\* The exact product of two registers.
Multiplied(m, st) ==
    [m EXCEPT !.product =
        Products(m, [l \in Lanes |-> m.val[st.a][l] * m.val[st.b][l]])]

\* MULT: all that a statement of the form "mult" asks for, and the first half of
\* what one of the form "product" does.
LEMMA MultiplyAgrees ==
    ASSUME LanesTypeOK, ExecuteInstruction, NEW m, Agrees(m), NEW st, StatementNow(st),
           st.form \in {"mult", "product"}
    PROVE  Agrees(Multiplied(m, st))'
  <1> DEFINE p == [l \in Lanes |-> m.val[st.a][l] * m.val[st.b][l]]
  <1>1. NowIs("MULT", st.b, st.a, 0) /\ "MULT" \in UsesLeft /\ "MULT" \in UsesRight
    BY EmittedByForm, FitsByForm DEF StatementNow, NowIs, UsesLeft, UsesRight, TwoOperands
  <1>2. MultiplySigned
    BY <1>1, NowSeen, ActionOfCode
  <1>3. \A l \in Lanes : /\ Right[l] \in Cells /\ m.val[st.b][l] = Signed(Right[l])
                         /\ Left[l] \in Cells /\ m.val[st.a][l] = Signed(Left[l])
    BY <1>1, OperandsAgree
  <1>4. p = [l \in Lanes |-> Signed(Left[l]) * Signed(Right[l])]
    BY <1>3
  <1>5. \A l \in Lanes : p[l] \in Int
    <2> TAKE l \in Lanes
    <2>1. Signed(Left[l]) \in Int /\ Signed(Right[l]) \in Int
      BY <1>3, SignedRange
    <2>2. p[l] = Signed(Left[l]) * Signed(Right[l])
      BY <1>4
    <2> HIDE DEF p
    <2> QED BY <2>1, <2>2
  <1> HIDE DEF p
  <1>6. /\ mult' = [low  |-> AssignedWhere(mult.low, [l \in Lanes |-> LowHalf(p[l])]),
                    high |-> AssignedWhere(mult.high, [l \in Lanes |-> HighHalf(p[l])])]
        /\ UNCHANGED <<registerFile, localStore, flags, active, cellDisabled, shiftReg,
                       reductions, failure>>
    BY <1>2, <1>4 DEF MultiplySigned, Multiplying
  <1>7. Agrees([m EXCEPT !.product = Products(m, p)])'
    BY <1>5, <1>6, ProductStepAgrees
  <1> QED BY <1>7 DEF Multiplied, p

\* MULT: the product in the two halves of the MULT register.
LEMMA MultAgrees ==
    ASSUME LanesTypeOK, ExecuteInstruction, NEW m, Agrees(m), NEW st, StatementNow(st),
           st.form = "mult"
    PROVE  Agrees(Meaning(st, m))'
  <1>1. Meaning(st, m) = [m EXCEPT !.product = [l \in Lanes |->
                     IF l \in Taking(m) THEN m.val[st.a][l] * m.val[st.b][l]
                     ELSE m.product[l]]]
    BY DEF Meaning
  <1>2. Products(m, [l \in Lanes |-> m.val[st.a][l] * m.val[st.b][l]])
            = [l \in Lanes |-> IF l \in Taking(m) THEN m.val[st.a][l] * m.val[st.b][l]
                               ELSE m.product[l]]
    BY DEF Products
  <1>3. Meaning(st, m) = Multiplied(m, st)
    BY <1>1, <1>2 DEF Multiplied
  <1>4. Agrees(Multiplied(m, st))'
    BY MultiplyAgrees
  <1> QED BY <1>3, <1>4

\* MULT_U.
LEMMA MultUnsignedAgrees ==
    ASSUME LanesTypeOK, ExecuteInstruction, NEW m, Agrees(m), NEW st, StatementNow(st),
           st.form = "mult_u"
    PROVE  Agrees(Meaning(st, m))'
  <1> DEFINE p == [l \in Lanes |-> Unsigned(m.val[st.a][l]) * Unsigned(m.val[st.b][l])]
  <1>1. NowIs("MULT_U", st.b, st.a, 0) /\ "MULT_U" \in UsesLeft /\ "MULT_U" \in UsesRight
    BY EmittedByForm, FitsByForm DEF StatementNow, NowIs, UsesLeft, UsesRight, TwoOperands
  <1>2. MultiplyUnsigned
    BY <1>1, NowSeen, ActionOfCode
  <1>3. \A l \in Lanes : /\ Right[l] \in Cells /\ m.val[st.b][l] = Signed(Right[l])
                         /\ Left[l] \in Cells /\ m.val[st.a][l] = Signed(Left[l])
    BY <1>1, OperandsAgree
  <1>4. \A l \in Lanes : Unsigned(m.val[st.a][l]) * Unsigned(m.val[st.b][l])
                             = Left[l] * Right[l]
    BY <1>3, UnsignedOfSigned
  <1>5. p = [l \in Lanes |-> Left[l] * Right[l]]
    BY <1>4
  <1>6. \A l \in Lanes : p[l] \in Int
    <2> TAKE l \in Lanes
    <2>1. Left[l] \in Int /\ Right[l] \in Int
      BY <1>3, CellOfCell
    <2>2. p[l] = Left[l] * Right[l]
      BY <1>5
    <2> HIDE DEF p
    <2> QED BY <2>1, <2>2
  <1>7. Meaning(st, m) = [m EXCEPT !.product = Products(m, p)]
    <2>1. Meaning(st, m) = [m EXCEPT !.product = [l \in Lanes |->
                 IF l \in Taking(m) THEN Unsigned(m.val[st.a][l]) * Unsigned(m.val[st.b][l])
                 ELSE m.product[l]]]
      BY DEF Meaning
    <2>2. Products(m, p) = [l \in Lanes |->
                 IF l \in Taking(m) THEN Unsigned(m.val[st.a][l]) * Unsigned(m.val[st.b][l])
                 ELSE m.product[l]]
      BY DEF Products
    <2> HIDE DEF p
    <2> QED BY <2>1, <2>2
  <1> HIDE DEF p
  <1>8. /\ mult' = [low  |-> AssignedWhere(mult.low, [l \in Lanes |-> LowHalf(p[l])]),
                    high |-> AssignedWhere(mult.high, [l \in Lanes |-> HighHalf(p[l])])]
        /\ UNCHANGED <<registerFile, localStore, flags, active, cellDisabled, shiftReg,
                       reductions, failure>>
    BY <1>2, <1>5 DEF MultiplyUnsigned, Multiplying
  <1>9. Agrees([m EXCEPT !.product = Products(m, p)])'
    BY <1>6, <1>8, ProductStepAgrees
  <1> QED BY <1>7, <1>9

\* The low half is fetched: the second half of a statement of the form "product".
LEMMA ProductAgreesAfter ==
    ASSUME LanesTypeOK, ExecuteInstruction, NEW m, NEW st, Written(st), st.form = "product",
           Agrees(Multiplied(m, st)), words[pc] = Assembled(Emitted(st)[2])
    PROVE  Agrees(Meaning(st, m))'
  <1> DEFINE n == Multiplied(m, st)
             v == [l \in Lanes |-> Wrapped(n.product[l])]
  <1>1. NowIs("MULT_LO", 0, 0, st.d) /\ "MULT_LO" \in UsesDest
    BY EmittedByForm, FitsByForm DEF NowIs, UsesDest
  <1>2. Unflagged({"MULT_LO"}, mult.low)
    BY <1>1, NowSeen, ActionOfCode
  <1>3. Meaning(st, m) = SetTo(n, st.d, v)
    <2> DEFINE exact == [m EXCEPT !.product = [l \in Lanes |->
                     IF l \in Taking(m) THEN m.val[st.a][l] * m.val[st.b][l]
                     ELSE m.product[l]]]
    <2>1. Meaning(st, m) = SetTo(exact, st.d, [l \in Lanes |-> Wrapped(exact.product[l])])
      <3>1. Meaning(st, m) = SetReg(exact, st.d, LAMBDA l : Wrapped(exact.product[l]))
        BY DEF Meaning
      <3> HIDE DEF exact
      <3>2. SetReg(exact, st.d, LAMBDA l : Wrapped(exact.product[l]))
                = SetTo(exact, st.d, [l \in Lanes |-> Wrapped(exact.product[l])])
        BY DEF SetReg, SetTo
      <3> QED BY <3>1, <3>2
    <2>2. Products(m, [l \in Lanes |-> m.val[st.a][l] * m.val[st.b][l]])
            = [l \in Lanes |-> IF l \in Taking(m) THEN m.val[st.a][l] * m.val[st.b][l]
                               ELSE m.product[l]]
      BY DEF Products
    <2>3. exact = n
      BY <2>2 DEF Multiplied
    <2> HIDE DEF exact, n
    <2> QED BY <2>1, <2>3
  <1> HIDE DEF n
  <1>4. \A l \in Lanes : v[l] = Signed(mult.low[l])
    BY WrappedIsCell DEF n, Agrees, ProductAgrees
  <1> HIDE DEF v
  <1>5. Agrees(n)
    BY DEF n
  <1>6. Agrees(SetTo(n, st.d, v))'
    BY <1>1, <1>2, <1>4, <1>5, UnflaggedStep
  <1> QED BY <1>3, <1>6


-----------------------------------------------------------------------------
(***************************************************************************)
(* Which lanes are selected.                                               *)
(***************************************************************************)
\* A step that changes the selection and nothing else.
LEMMA SelectionStepAgrees ==
    ASSUME NEW m, Agrees(m), NEW selected, SelectionAgrees(selected, m.gated)',
           UNCHANGED <<registerFile, localStore, flags, mult, shiftReg, reductions, failure>>
    PROVE  Agrees([m EXCEPT !.selected = selected])'
  <1> DEFINE n == [m EXCEPT !.selected = selected]
  <1>1. Shaped(m) /\ m.defined = TRUE
    BY DEF Agrees
  <1>2. n.selected = selected /\ Alike(n, m, "selected")
    <2>1. Alike([m EXCEPT !.selected = selected], m, "selected")
      BY ONLY <1>1, ChangedField
    <2>2. [m EXCEPT !.selected = selected].selected = selected
      BY ONLY <1>1, ChangedField
    <2> QED BY ONLY <2>1, <2>2
  <1> HIDE DEF n
  <1>3. SelectionAgrees(n.selected, n.gated)'
    BY <1>2 DEF Alike
  <1>4. Agrees(n)'
    BY <1>1, <1>2, <1>3, KeptAgrees DEF Alike, Agrees
  <1> QED BY <1>4 DEF n

\* A step that changes which lanes are gated and nothing else.
LEMMA GatingStepAgrees ==
    ASSUME NEW m, Agrees(m), NEW gated, SelectionAgrees(m.selected, gated)',
           UNCHANGED <<registerFile, localStore, flags, mult, shiftReg, reductions, failure>>
    PROVE  Agrees([m EXCEPT !.gated = gated])'
  <1> DEFINE n == [m EXCEPT !.gated = gated]
  <1>1. Shaped(m) /\ m.defined = TRUE
    BY DEF Agrees
  <1>2. n.gated = gated /\ Alike(n, m, "gated")
    <2>1. Alike([m EXCEPT !.gated = gated], m, "gated")
      BY ONLY <1>1, ChangedField
    <2>2. [m EXCEPT !.gated = gated].gated = gated
      BY ONLY <1>1, ChangedField
    <2> QED BY ONLY <2>1, <2>2
  <1> HIDE DEF n
  <1>3. SelectionAgrees(n.selected, n.gated)'
    BY <1>2 DEF Alike
  <1>4. Agrees(n)'
    BY <1>1, <1>2, <1>3, KeptAgrees DEF Alike, Agrees
  <1> QED BY <1>4 DEF n

\* END_WHERE selects all lanes, the gated ones too.
LEMMA InAllAgrees ==
    ASSUME LanesTypeOK, ExecuteInstruction, NEW m, Agrees(m), NEW st, StatementNow(st),
           st.form = "in_all"
    PROVE  Agrees(Meaning(st, m))'
  <1>1. NowIs("END_WHERE", 0, 0, 0)
    BY EmittedByForm, FitsByForm DEF StatementNow, NowIs
  <1>2. Where("END_WHERE", Everywhere(1))
    BY <1>1, NowSeen, ActionOfCode
  <1>3. /\ active' = [l \in Lanes |-> 1]
        /\ cellDisabled' = cellDisabled
        /\ UNCHANGED <<registerFile, localStore, flags, mult, shiftReg, reductions, failure>>
    BY <1>2 DEF Where, Everywhere
  <1>4. m.gated = {l \in Lanes : cellDisabled[l] = 1}
    BY DEF Agrees, SelectionAgrees
  <1>5. SelectionAgrees(Lanes, m.gated)'
    BY <1>3, <1>4 DEF SelectionAgrees
  <1>6. Agrees([m EXCEPT !.selected = Lanes])'
    BY <1>3, <1>5, SelectionStepAgrees
  <1>7. Meaning(st, m) = [m EXCEPT !.selected = Lanes]
    BY DEF Meaning
  <1> QED BY <1>6, <1>7

\* The lanes for which a condition holds.
Deciding(m, condition) ==
    {l \in Lanes : Decides(m.last[l].op, condition) /\ Holds(condition, m.last[l])}

\* A WHERE selects the lanes whose flag is set: where the operator before it
\* decides the condition, these are the lanes for which it holds.
LEMMA FlagSelects ==
    ASSUME LanesTypeOK, NEW m, Agrees(m), NEW condition, NEW flag,
           \/ condition = "WHERE_CRY" /\ flag = flags.carry
           \/ condition = "WHERE_EQ" /\ flag = flags.eq
           \/ condition = "WHERE_LT" /\ flag = flags.lt
    PROVE  \A l \in Lanes : Decides(m.last[l].op, condition) =>
                                (flag[l] = 1 <=> Holds(condition, m.last[l]))
  <1> TAKE l \in Lanes
  <1>1. FlagsAgree(m.last)
    BY DEF Agrees
  <1>2. /\ m.last[l].op \in {"plus", "minus"} => flags.carry[l] = CarryAfter(m.last[l])
        /\ m.last[l].op \in {"minus", "eq", "lt"} =>
              /\ (flags.eq[l] = 1) <=> (m.last[l].x = m.last[l].y)
              /\ (flags.lt[l] = 1) <=> (m.last[l].x < m.last[l].y)
    BY <1>1 DEF FlagsAgree
  <1>3. CASE condition = "WHERE_CRY" /\ flag = flags.carry
    BY <1>2, <1>3 DEF Decides, Holds
  <1>4. CASE condition = "WHERE_EQ" /\ flag = flags.eq
    BY <1>2, <1>4 DEF Decides, Holds
  <1>5. CASE condition = "WHERE_LT" /\ flag = flags.lt
    BY <1>2, <1>5 DEF Decides, Holds
  <1> QED BY <1>3, <1>4, <1>5

\* WHERE_EQ, WHERE_LT and WHERE_CRY select the lanes by their flags.
LEMMA WhereAgrees ==
    ASSUME LanesTypeOK, ExecuteInstruction, NEW m, Agrees(m), NEW st, StatementNow(st),
           st.form = "where", Meaning(st, m).defined = TRUE
    PROVE  Agrees(Meaning(st, m))'
  <1> DEFINE condition == st.op
             selected == Deciding(m, condition)
             n == [m EXCEPT !.selected = selected]
             c == \A l \in Lanes \ m.gated : Decides(m.last[l].op, condition)
  <1>1. NowIs(condition, 0, 0, 0) /\ condition \in {"WHERE_CRY", "WHERE_EQ", "WHERE_LT"}
    BY EmittedByForm, FitsByForm DEF StatementNow, NowIs, Written
  <1>2. Meaning(st, m) = Undefined(n, c)
    BY DEF Meaning, Deciding
  <1> HIDE DEF condition
  <1>3. c /\ Meaning(st, m) = n
    <2>1. Shaped(m) /\ m.defined = TRUE
      BY DEF Agrees
    <2>2. c \in BOOLEAN
      OBVIOUS
    <2> HIDE DEF selected, c
    <2>3. Alike([m EXCEPT !.selected = selected], m, "selected")
      BY ONLY <2>1, ChangedField
    <2>4. Shaped(n) /\ n.defined = TRUE
      BY ONLY <2>1, <2>3 DEF Alike
    <2> HIDE DEF n
    <2>5. c /\ Undefined(n, c) = n
      BY <1>2, <2>2, <2>4, StillDefined
    <2> QED BY <1>2, <2>5
  <1>4. PICK flag : /\ Where(condition, flag)
                    /\ \/ condition = "WHERE_CRY" /\ flag = flags.carry
                       \/ condition = "WHERE_EQ" /\ flag = flags.eq
                       \/ condition = "WHERE_LT" /\ flag = flags.lt
    <2>1. /\ condition = "WHERE_CRY" => Where("WHERE_CRY", flags.carry)
          /\ condition = "WHERE_EQ" => Where("WHERE_EQ", flags.eq)
          /\ condition = "WHERE_LT" => Where("WHERE_LT", flags.lt)
      BY <1>1, NowSeen, ActionOfCode
    <2> QED BY <1>1, <2>1
  <1>5. /\ active' = flag /\ cellDisabled' = cellDisabled
        /\ UNCHANGED <<registerFile, localStore, flags, mult, shiftReg, reductions, failure>>
    BY <1>4 DEF Where
  <1>6. \A l \in Lanes : Decides(m.last[l].op, condition) =>
                             (flag[l] = 1 <=> Holds(condition, m.last[l]))
    BY <1>4, FlagSelects
  <1>7. m.gated = {l \in Lanes : cellDisabled[l] = 1}
    BY DEF Agrees, SelectionAgrees
  <1>8. selected \subseteq {l \in Lanes : active'[l] = 1}
    BY <1>5, <1>6 DEF Deciding
  <1>9. {l \in Lanes : active'[l] = 1} \ m.gated \subseteq selected
    BY <1>3, <1>5, <1>6 DEF Deciding
  <1> HIDE DEF selected, n
  <1>10. SelectionAgrees(selected, m.gated)'
    BY <1>5, <1>7, <1>8, <1>9 DEF SelectionAgrees
  <1>11. Agrees([m EXCEPT !.selected = selected])'
    BY <1>5, <1>10, SelectionStepAgrees
  <1> QED BY <1>3, <1>11 DEF n

\* DISABLE_CELL gates the lanes that take part.
LEMMA DisableAgrees ==
    ASSUME LanesTypeOK, ExecuteInstruction, NEW m, Agrees(m), NEW st, StatementNow(st),
           st.form = "disable"
    PROVE  Agrees(Meaning(st, m))'
  <1> DEFINE gated == m.gated \cup Taking(m)
  <1>1. NowIs("DISABLE_CELL", 0, 0, 0)
    BY EmittedByForm, FitsByForm DEF StatementNow, NowIs
  <1>2. DisableCell
    BY <1>1, NowSeen, ActionOfCode
  <1>3. /\ cellDisabled' = [l \in Lanes |-> IF IsCellActive(l) THEN active[l]
                                            ELSE cellDisabled[l]]
        /\ active' = active
        /\ UNCHANGED <<registerFile, localStore, flags, mult, shiftReg, reductions, failure>>
    BY <1>2 DEF DisableCell, AssignedWhere
  <1>4. /\ m.gated = {l \in Lanes : cellDisabled[l] = 1}
        /\ m.selected \subseteq {l \in Lanes : active[l] = 1}
        /\ {l \in Lanes : active[l] = 1} \ m.gated \subseteq m.selected
    BY DEF Agrees, SelectionAgrees
  <1>5. Taking(m) = {l \in Lanes : IsCellActive(l)}
    BY TakingAreSelected DEF Selected
  <1>6. \A l \in Lanes : cellDisabled'[l] = 1 <=> (l \in Taking(m) \/ cellDisabled[l] = 1)
    BY <1>3, <1>5 DEF IsCellActive
  <1>7. gated = {l \in Lanes : cellDisabled'[l] = 1}
    BY <1>4, <1>5, <1>6
  <1>8. SelectionAgrees(m.selected, gated)'
    BY <1>3, <1>4, <1>7 DEF SelectionAgrees
  <1>9. Meaning(st, m) = [m EXCEPT !.gated = gated]
    BY DEF Meaning
  <1> HIDE DEF gated
  <1>10. Agrees([m EXCEPT !.gated = gated])'
    BY <1>3, <1>8, GatingStepAgrees
  <1> QED BY <1>9, <1>10

\* ENABLE_ALL_CELLS: no lane is gated, and each that comes back is selected.
LEMMA EnableAgrees ==
    ASSUME LanesTypeOK, ExecuteInstruction, NEW m, Agrees(m), NEW st, StatementNow(st),
           st.form = "enable", Meaning(st, m).defined = TRUE
    PROVE  Agrees(Meaning(st, m))'
  <1> DEFINE n == [m EXCEPT !.gated = {}]
             c == m.gated \subseteq m.selected
  <1>1. NowIs("ENABLE_ALL_CELLS", 0, 0, 0)
    BY EmittedByForm, FitsByForm DEF StatementNow, NowIs
  <1>2. EnableAllCells
    BY <1>1, NowSeen, ActionOfCode
  <1>3. /\ cellDisabled' = [l \in Lanes |-> 0]
        /\ active' = active
        /\ UNCHANGED <<registerFile, localStore, flags, mult, shiftReg, reductions, failure>>
    BY <1>2 DEF EnableAllCells, Everywhere
  <1>4. Meaning(st, m) = Undefined(n, c)
    BY DEF Meaning
  <1>5. c /\ Meaning(st, m) = n
    <2>1. Shaped(m) /\ m.defined = TRUE
      BY DEF Agrees
    <2>2. c \in BOOLEAN
      OBVIOUS
    <2> HIDE DEF c
    <2>3. Alike([m EXCEPT !.gated = {}], m, "gated")
      BY ONLY <2>1, ChangedField
    <2>4. Shaped(n) /\ n.defined = TRUE
      BY ONLY <2>1, <2>3 DEF Alike
    <2> HIDE DEF n
    <2>5. c /\ Undefined(n, c) = n
      BY <1>4, <2>2, <2>4, StillDefined
    <2> QED BY <1>4, <2>5
  <1> HIDE DEF n
  <1>6. /\ m.selected \subseteq {l \in Lanes : active[l] = 1}
        /\ {l \in Lanes : active[l] = 1} \ m.gated \subseteq m.selected
    BY DEF Agrees, SelectionAgrees
  <1>7. {l \in Lanes : cellDisabled'[l] = 1} = {}
    BY <1>3
  <1>8. SelectionAgrees(m.selected, {})'
    BY <1>3, <1>5, <1>6, <1>7 DEF SelectionAgrees
  <1>9. Agrees([m EXCEPT !.gated = {}])'
    BY <1>3, <1>8, GatingStepAgrees
  <1> QED BY <1>5, <1>9 DEF n


-----------------------------------------------------------------------------
(***************************************************************************)
(* The lanes exchange cells, and their sums.                               *)
(***************************************************************************)
\* handleShift() when all lanes ask for the same number of rounds, none or more.
LEMMA CellShiftAgrees ==
    ASSUME LanesTypeOK, NEW m, Agrees(m), NEW a, NEW b, NEW name, NEW direction \in {-1, 1},
           CellShift(name, direction),
           \A l \in Lanes : /\ Right[l] \in Cells /\ m.val[b][l] = Signed(Right[l])
                            /\ Left[l] \in Cells /\ m.val[a][l] = Signed(Left[l]),
           ShiftMeaning(m, a, b, direction).defined = TRUE
    PROVE  Agrees(ShiftMeaning(m, a, b, direction))'
  <1> DEFINE n == m.val[b][0]
             shifted == [l \in Lanes |-> m.val[a][(l + direction * n) % VectorLength]]
             counts == [l \in Lanes |-> Signed(Right[l])]
             k == [m EXCEPT !.shifted = shifted]
  <1>1. Shaped(m) /\ m.defined = TRUE
    BY DEF Agrees
  <1>2. /\ n >= 0 /\ \A l \in Lanes : m.val[b][l] = n
        /\ ShiftMeaning(m, a, b, direction) = k
    <2>1. ShiftMeaning(m, a, b, direction)
              = IF n >= 0 /\ \A l \in Lanes : m.val[b][l] = n THEN k ELSE Undefined(m, FALSE)
      BY DEF ShiftMeaning
    <2>2. Undefined(m, FALSE).defined # TRUE
      BY <1>1, StillDefined
    <2> HIDE DEF k, n
    <2> QED BY <2>1, <2>2
  <1>3. n \in Nat
    BY <1>2, LaneNumbers, SignedRange
  <1>4. \A l \in Lanes : counts[l] = n
    BY <1>2
  <1> HIDE DEF n, counts
  <1>5. /\ shiftReg' = ShiftedCells(Left, counts, direction)
        /\ UNCHANGED <<registerFile, localStore, flags, active, cellDisabled, mult, reductions,
                       failure>>
    <2>1. ~ \E l \in Lanes : counts[l] < 0
      BY <1>3, <1>4
    <2> QED BY <2>1 DEF CellShift, counts
  <1>6. \A l \in Lanes : shiftReg'[l] = Left[(l + direction * n) % VectorLength]
    BY <1>3, <1>4, <1>5, ShiftedTogether
  <1>7. \A l \in Lanes : (l + direction * n) % VectorLength \in Lanes
    <2> TAKE l \in Lanes
    <2>1. l + direction * n \in Int
      <3>1. l \in Int /\ n \in Int
        BY <1>3, LaneNumbers
      <3>2. direction * n \in Int
        BY <3>1
      <3> QED BY ONLY <3>1, <3>2
    <2> QED BY <2>1, LaneNumbers
  <1>8. shifted = [l \in Lanes |-> Signed(shiftReg'[l])]
    BY <1>6, <1>7
  <1> HIDE DEF shifted
  <1>9. k.shifted = shifted /\ Alike(k, m, "shifted")
    <2>1. Alike([m EXCEPT !.shifted = shifted], m, "shifted")
      BY ONLY <1>1, ChangedField
    <2>2. [m EXCEPT !.shifted = shifted].shifted = shifted
      BY ONLY <1>1, ChangedField
    <2> QED BY ONLY <2>1, <2>2
  <1> HIDE DEF k
  <1>10. Agrees(k)'
    BY <1>1, <1>5, <1>8, <1>9, KeptAgrees DEF Alike, Agrees
  <1> QED BY <1>2, <1>10

\* CELL_SHL and CELL_SHR leave their vector in the shift register.
LEMMA CellShiftsAgree ==
    ASSUME LanesTypeOK, ExecuteInstruction, NEW m, Agrees(m), NEW st, StatementNow(st),
           st.form \in {"cellshl", "cellshr"}, Meaning(st, m).defined = TRUE
    PROVE  Agrees(Meaning(st, m))'
  <1> DEFINE a == st.a  b == st.b
  <1>1. /\ "CELL_SHL" \in UsesLeft /\ "CELL_SHL" \in UsesRight
        /\ "CELL_SHR" \in UsesLeft /\ "CELL_SHR" \in UsesRight
    BY DEF UsesLeft, UsesRight, TwoOperands
  <1>2. CASE st.form = "cellshl"
    <2>1. NowIs("CELL_SHL", b, a, 0)
      BY <1>2, EmittedByForm, FitsByForm DEF StatementNow, NowIs
    <2>2. CellShift("CELL_SHL", 1)
      BY <2>1, NowSeen, ActionOfCode
    <2>3. Meaning(st, m) = ShiftMeaning(m, a, b, 1)
      BY <1>2 DEF Meaning
    <2>4. \A l \in Lanes : /\ Right[l] \in Cells /\ m.val[b][l] = Signed(Right[l])
                           /\ Left[l] \in Cells /\ m.val[a][l] = Signed(Left[l])
      BY <1>1, <2>1, OperandsAgree
    <2> HIDE DEF a, b
    <2>5. 1 \in {-1, 1} /\ ShiftMeaning(m, a, b, 1).defined = TRUE
      BY <2>3
    <2>6. Agrees(ShiftMeaning(m, a, b, 1))'
      BY <2>2, <2>4, <2>5, CellShiftAgrees
    <2> QED BY <2>3, <2>6
  <1>3. CASE st.form = "cellshr"
    <2>1. NowIs("CELL_SHR", b, a, 0)
      BY <1>3, EmittedByForm, FitsByForm DEF StatementNow, NowIs
    <2>2. CellShift("CELL_SHR", -1)
      BY <2>1, NowSeen, ActionOfCode
    <2>3. Meaning(st, m) = ShiftMeaning(m, a, b, -1)
      BY <1>3 DEF Meaning
    <2>4. \A l \in Lanes : /\ Right[l] \in Cells /\ m.val[b][l] = Signed(Right[l])
                           /\ Left[l] \in Cells /\ m.val[a][l] = Signed(Left[l])
      BY <1>1, <2>1, OperandsAgree
    <2> HIDE DEF a, b
    <2>5. -1 \in {-1, 1} /\ ShiftMeaning(m, a, b, -1).defined = TRUE
      BY <2>3
    <2>6. Agrees(ShiftMeaning(m, a, b, -1))'
      BY <2>2, <2>4, <2>5, CellShiftAgrees
    <2> QED BY <2>3, <2>6
  <1> QED BY <1>2, <1>3

\* The sum of the values as unsigned numbers, over the parts of B.
UnsignedRule(g, x, B) ==
    g = [s \in SUBSET B |->
            IF s = {} THEN 0
            ELSE Unsigned(x[CHOOSE y \in s : TRUE]) + g[s \ {CHOOSE y \in s : TRUE}]]

\* A sum of numbers without sign is the sum of a function.
LEMMA SumOfUnsigned ==
    ASSUME NEW x, NEW B \in SUBSET Lanes
    PROVE  SumOf(LAMBDA l : Unsigned(x[l]), B)
               = SumOver([l \in Lanes |-> Unsigned(x[l])], B)
  <1> DEFINE f == [l \in Lanes |-> Unsigned(x[l])]
  <1>1. ASSUME NEW s \in SUBSET B, s # {}
        PROVE  f[CHOOSE y \in s : TRUE] = Unsigned(x[CHOOSE y \in s : TRUE])
    BY <1>1
  <1> HIDE DEF f
  <1>2. \A g : [s \in SUBSET B |->
                   IF s = {} THEN 0
                   ELSE f[CHOOSE y \in s : TRUE] + g[s \ {CHOOSE y \in s : TRUE}]]
               = [s \in SUBSET B |->
                   IF s = {} THEN 0
                   ELSE Unsigned(x[CHOOSE y \in s : TRUE]) + g[s \ {CHOOSE y \in s : TRUE}]]
    BY <1>1
  <1>3. \A g : SumRule(g, f, B) <=> UnsignedRule(g, x, B)
    BY <1>2 DEF SumRule, UnsignedRule
  <1>4. IsFiniteSet(B)
    BY LaneNumbers, FS_Subset
  <1> DEFINE g == CHOOSE g : UnsignedRule(g, x, B)
  <1>5. UnsignedRule(g, x, B)
    BY <1>3, <1>4, SumRuleExists
  <1>6. SumOf(LAMBDA l : Unsigned(x[l]), B) = g[B]
    BY DEF SumOf, MapThenSumSet, MapThenFoldSet, UnsignedRule
  <1>7. PICK h : SumRule(h, f, B) /\ SumOver(f, B) = h[B]
    BY <1>4, SumOverRule
  <1>8. B \in SUBSET B /\ SumRule(g, f, B)
    BY <1>3, <1>5
  <1> HIDE DEF g
  <1>9. g[B] = h[B]
    BY <1>4, <1>7, <1>8, SumRuleUnique
  <1>10. SumOf(LAMBDA l : Unsigned(x[l]), B) = SumOver(f, B)
    BY <1>6, <1>7, <1>9
  <1> QED BY <1>10 DEF f

\* handleReduction() and handleReduction_u(): one sum more.
LEMMA SumStepAgrees ==
    ASSUME NEW m, Agrees(m), NEW sum, reductions' = Append(reductions, sum),
           UNCHANGED <<registerFile, localStore, flags, active, cellDisabled, mult, shiftReg,
                       failure>>
    PROVE  Agrees([m EXCEPT !.sums = Append(m.sums, sum)])'
  <1> DEFINE sums == Append(m.sums, sum)
             n == [m EXCEPT !.sums = sums]
  <1>1. Shaped(m) /\ m.defined = TRUE
    BY DEF Agrees
  <1>2. sums = reductions'
    BY DEF Agrees
  <1> HIDE DEF sums
  <1>3. n.sums = sums /\ Alike(n, m, "sums")
    <2>1. Alike([m EXCEPT !.sums = sums], m, "sums")
      BY ONLY <1>1, ChangedField
    <2>2. [m EXCEPT !.sums = sums].sums = sums
      BY ONLY <1>1, ChangedField
    <2> QED BY ONLY <2>1, <2>2
  <1> HIDE DEF n
  <1>4. Agrees(n)'
    BY <1>1, <1>2, <1>3, KeptAgrees DEF Alike, Agrees
  <1> QED BY <1>4 DEF n, sums

\* REDUCE: the sum of the selected lanes leaves through the pipe.
LEMMA ReduceAgrees ==
    ASSUME LanesTypeOK, ExecuteInstruction, NEW m, Agrees(m), NEW st, StatementNow(st),
           st.form = "reduce"
    PROVE  Agrees(Meaning(st, m))'
  <1> DEFINE x == m.val[st.a]
             cells == Left
             sum == SumOf(LAMBDA l : x[l], Taking(m))
             f == [l \in Lanes |-> Signed(cells[l])]
  <1>1. NowIs("REDUCE", 0, st.a, 0) /\ "REDUCE" \in UsesLeft
    BY EmittedByForm, FitsByForm DEF StatementNow, NowIs, UsesLeft
  <1>2. SumSigned
    BY <1>1, NowSeen, ActionOfCode
  <1>3. \A l \in Lanes : cells[l] \in Cells /\ x[l] = Signed(cells[l])
    BY <1>1, OperandsAgree
  <1>4. Meaning(st, m) = [m EXCEPT !.sums = Append(m.sums, sum)]
    BY DEF Meaning
  <1>5. /\ reductions' = Append(reductions, SumOf(LAMBDA l : Signed(cells[l]), Selected))
        /\ UNCHANGED <<registerFile, localStore, flags, active, cellDisabled, mult, shiftReg,
                       failure>>
    BY <1>2 DEF SumSigned, Reducing
  <1>6. Taking(m) = Selected /\ Selected \subseteq Lanes
    BY TakingAreSelected
  <1> HIDE DEF cells, x
  <1>7. SumOf(LAMBDA l : Signed(cells[l]), Selected) = SumOver(f, Selected)
    BY <1>6, SumOfSigned
  <1>8. sum = SumOver(x, Selected)
    BY <1>6 DEF SumOf, SumOver
  <1>9. IsFiniteSet(Selected) /\ \A l \in Selected : f[l] = x[l]
    BY <1>3, <1>6, LaneNumbers, FS_Subset
  <1> HIDE DEF sum, f
  <1>10. SumOver(f, Selected) = SumOver(x, Selected)
    BY <1>9, SumsAgree
  <1>11. Agrees([m EXCEPT !.sums = Append(m.sums, sum)])'
    BY <1>5, <1>7, <1>8, <1>10, SumStepAgrees
  <1> QED BY <1>4, <1>11

\* REDUCE_U: the sum of their unsigned values.
LEMMA ReduceUnsignedAgrees ==
    ASSUME LanesTypeOK, ExecuteInstruction, NEW m, Agrees(m), NEW st, StatementNow(st),
           st.form = "reduce_u"
    PROVE  Agrees(Meaning(st, m))'
  <1> DEFINE x == m.val[st.a]
             cells == Left
             sum == SumOf(LAMBDA l : Unsigned(x[l]), Taking(m))
             f == [l \in Lanes |-> Unsigned(x[l])]
  <1>1. NowIs("REDUCE_U", 0, st.a, 0) /\ "REDUCE_U" \in UsesLeft
    BY EmittedByForm, FitsByForm DEF StatementNow, NowIs, UsesLeft
  <1>2. SumUnsigned
    BY <1>1, NowSeen, ActionOfCode
  <1>3. \A l \in Lanes : cells[l] \in Cells /\ x[l] = Signed(cells[l])
    BY <1>1, OperandsAgree
  <1>4. Meaning(st, m) = [m EXCEPT !.sums = Append(m.sums, sum)]
    BY DEF Meaning
  <1>5. /\ reductions' = Append(reductions, SumOf(LAMBDA l : cells[l], Selected))
        /\ UNCHANGED <<registerFile, localStore, flags, active, cellDisabled, mult, shiftReg,
                       failure>>
    BY <1>2 DEF SumUnsigned, Reducing
  <1>6. Taking(m) = Selected /\ Selected \subseteq Lanes
    BY TakingAreSelected
  <1> HIDE DEF cells, x
  <1>7. SumOf(LAMBDA l : cells[l], Selected) = SumOver(cells, Selected)
    BY DEF SumOf, SumOver
  <1>8. sum = SumOver(f, Selected)
    BY <1>6, SumOfUnsigned
  <1>9. IsFiniteSet(Selected) /\ \A l \in Selected : f[l] = cells[l]
    BY <1>3, <1>6, LaneNumbers, FS_Subset, UnsignedOfSigned
  <1> HIDE DEF sum, f
  <1>10. SumOver(f, Selected) = SumOver(cells, Selected)
    BY <1>9, SumsAgree
  <1>11. Agrees([m EXCEPT !.sums = Append(m.sums, sum)])'
    BY <1>5, <1>7, <1>8, <1>10, SumStepAgrees
  <1> QED BY <1>4, <1>11


-----------------------------------------------------------------------------
(***************************************************************************)
(* Any statement.                                                          *)
(***************************************************************************)
\* The instruction of a statement does what the statement says.
LEMMA StatementAgrees ==
    ASSUME LanesTypeOK, ExecuteInstruction, NEW m, Agrees(m), NEW st, StatementNow(st),
           st.form # "product", Meaning(st, m).defined = TRUE
    PROVE  Agrees(Meaning(st, m))'
  <1>1. CASE st.form \in {"binary", "update"}
    <2>1. st.op \in DOMAIN CodeOf
      BY <1>1 DEF StatementNow, Written
    <2>2. \/ st.op \in {"plus", "minus", "and", "or", "xor", "eq", "lt"}
          \/ st.op \in {"addc", "subc"}
          \/ st.op \in {"ult", "shl", "shr", "shra"}
      BY <2>1 DEF CodeOf
    <2> QED BY <1>1, <2>2, ArithmeticAgrees, CarriedAgrees, ShiftOrUltAgrees
  <1>2. CASE st.form \in {"unary", "shift", "copy", "const"}
    BY <1>2, UnaryAgrees, ShiftAgrees, CopyAgrees, ConstAgrees
  <1>3. CASE st.form \in {"index", "shiftreg", "multlo", "multhi"}
    BY <1>3, SpecialAgrees
  <1>4. CASE st.form \in {"read", "iread", "write", "iwrite"}
    BY <1>4, ReadAgrees, ReadAtAgrees, WriteAgrees, WriteAtAgrees
  <1>5. CASE st.form \in {"mult", "mult_u"}
    BY <1>5, MultAgrees, MultUnsignedAgrees
  <1>6. CASE st.form \in {"cellshl", "cellshr"}
    BY <1>6, CellShiftsAgree
  <1>7. CASE st.form \in {"reduce", "reduce_u"}
    BY <1>7, ReduceAgrees, ReduceUnsignedAgrees
  <1>8. CASE st.form \in {"in_all", "where", "disable", "enable", "nop"}
    BY <1>8, InAllAgrees, WhereAgrees, DisableAgrees, EnableAgrees, NopAgrees
  <1>9. st.form \in {"binary", "update", "unary", "shift", "copy", "const", "index",
                   "shiftreg", "read", "iread", "write", "iwrite", "mult", "product",
                   "mult_u", "multlo", "multhi", "cellshl", "cellshr", "reduce",
                   "reduce_u", "in_all", "where", "disable", "enable", "nop"}
    BY DEF StatementNow, Written
  <1> QED BY <1>1, <1>2, <1>3, <1>4, <1>5, <1>6, <1>7, <1>8, <1>9

-----------------------------------------------------------------------------
(***************************************************************************)
(* What statements mean, one after the other.  A kernel that means nothing *)
(* at some statement means nothing at the end.                             *)
(***************************************************************************)
Continues(n, m) ==
    Shaped(n) /\ n.defined \in BOOLEAN /\ (n.defined = TRUE => m.defined = TRUE)

\* Replacing a field other than "defined" does not make a meaning defined.
LEMMA ChangedContinues ==
    ASSUME NEW m, NEW k, Continues(k, m), NEW v
    PROVE  /\ Continues([k EXCEPT !.val = v], m)
           /\ Continues([k EXCEPT !.store = v], m)
           /\ Continues([k EXCEPT !.selected = v], m)
           /\ Continues([k EXCEPT !.gated = v], m)
           /\ Continues([k EXCEPT !.last = v], m)
           /\ Continues([k EXCEPT !.product = v], m)
           /\ Continues([k EXCEPT !.shifted = v], m)
           /\ Continues([k EXCEPT !.sums = v], m)
  <1>1. Shaped(k)
    BY DEF Continues
  <1>2. \A n : \A field \in {"val", "store", "selected", "gated", "last", "product",
                             "shifted", "sums"} :
            Alike(n, k, field) => Continues(n, m)
    BY DEF Alike, Continues
  <1>3. Continues([k EXCEPT !.val = v], m)
    <2>1. Alike([k EXCEPT !.val = v], k, "val")
      BY ONLY <1>1, ChangedField
    <2> QED BY ONLY <1>2, <2>1
  <1>4. Continues([k EXCEPT !.store = v], m)
    <2>1. Alike([k EXCEPT !.store = v], k, "store")
      BY ONLY <1>1, ChangedField
    <2> QED BY ONLY <1>2, <2>1
  <1>5. Continues([k EXCEPT !.selected = v], m)
    <2>1. Alike([k EXCEPT !.selected = v], k, "selected")
      BY ONLY <1>1, ChangedField
    <2> QED BY ONLY <1>2, <2>1
  <1>6. Continues([k EXCEPT !.gated = v], m)
    <2>1. Alike([k EXCEPT !.gated = v], k, "gated")
      BY ONLY <1>1, ChangedField
    <2> QED BY ONLY <1>2, <2>1
  <1>7. Continues([k EXCEPT !.last = v], m)
    <2>1. Alike([k EXCEPT !.last = v], k, "last")
      BY ONLY <1>1, ChangedField
    <2> QED BY ONLY <1>2, <2>1
  <1>8. Continues([k EXCEPT !.product = v], m)
    <2>1. Alike([k EXCEPT !.product = v], k, "product")
      BY ONLY <1>1, ChangedField
    <2> QED BY ONLY <1>2, <2>1
  <1>9. Continues([k EXCEPT !.shifted = v], m)
    <2>1. Alike([k EXCEPT !.shifted = v], k, "shifted")
      BY ONLY <1>1, ChangedField
    <2> QED BY ONLY <1>2, <2>1
  <1>10. Continues([k EXCEPT !.sums = v], m)
    <2>1. Alike([k EXCEPT !.sums = v], k, "sums")
      BY ONLY <1>1, ChangedField
    <2> QED BY ONLY <1>2, <2>1
  <1> QED BY ONLY <1>3, <1>4, <1>5, <1>6, <1>7, <1>8, <1>9, <1>10

\* Nor does a further condition.
LEMMA UndefinedContinues ==
    ASSUME NEW m, NEW k, Continues(k, m), NEW c \in BOOLEAN
    PROVE  Continues(Undefined(k, c), m)
  <1> DEFINE b == k.defined /\ c
             n == [k EXCEPT !.defined = b]
  <1>1. Shaped(k) /\ k.defined \in BOOLEAN /\ (k.defined = TRUE => m.defined = TRUE)
    BY DEF Continues
  <1>2. b \in BOOLEAN /\ (b = TRUE => k.defined = TRUE)
    BY <1>1
  <1>3. Undefined(k, c) = n
    BY DEF Undefined
  <1> HIDE DEF b
  <1>4. Alike(n, k, "defined") /\ n.defined = b
    <2>1. Alike([k EXCEPT !.defined = b], k, "defined")
      BY ONLY <1>1, ChangedField
    <2>2. [k EXCEPT !.defined = b].defined = b
      BY ONLY <1>1, ChangedField
    <2> QED BY ONLY <2>1, <2>2
  <1> HIDE DEF n
  <1> QED BY ONLY <1>1, <1>2, <1>3, <1>4 DEF Alike, Continues

\* Nor does setting a register.
LEMMA SetToContinues ==
    ASSUME NEW m, NEW k, Continues(k, m), NEW d, NEW v
    PROVE  Continues(SetTo(k, d, v), m)
  <1> DEFINE val == [k.val EXCEPT ![d] = [l \in Lanes |-> IF l \in Taking(k) THEN v[l] ELSE k.val[d][l]]]
  <1>1. SetTo(k, d, v) = [k EXCEPT !.val = val]
    BY DEF SetTo
  <1> HIDE DEF val
  <1>2. Continues([k EXCEPT !.val = val], m)
    BY ChangedContinues
  <1> QED BY <1>1, <1>2

\* Nor does an operator of two registers.
LEMMA BinaryContinues ==
    ASSUME NEW m, Continues(m, m), NEW op, NEW d, NEW a, NEW b
    PROVE  Continues(BinaryMeaning(m, op, d, a, b), m)
  <1> DEFINE v == BinaryValues(m, op, a, b)
             set == SetTo(m, d, v)
             last == Comparisons(m, op, a, b)
             n == [set EXCEPT !.last = last]
  <1>1. SetReg(m, d, LAMBDA l :
                   IF IsShift(op) /\ m.val[b][l] \notin 0..31 THEN 0
                   ELSE Value(op, m.val[a][l], m.val[b][l], CarryAfter(m.last[l]))) = set
    BY DEF SetReg, SetTo, BinaryValues
  <1>2. CASE IsUnflagged(op)
    <2> DEFINE c == IsShift(op) => \A l \in Taking(m) : m.val[b][l] \in 0..31
    <2>1. BinaryMeaning(m, op, d, a, b) = Undefined(set, c)
      BY <1>1, <1>2 DEF BinaryMeaning
    <2>2. c \in BOOLEAN
      OBVIOUS
    <2> HIDE DEF c, v
    <2>3. Continues(set, m)
      BY SetToContinues
    <2> HIDE DEF set
    <2> QED BY <2>1, <2>2, <2>3, UndefinedContinues
  <1>3. CASE ~IsUnflagged(op)
    <2> DEFINE c == op \in {"addc", "subc"} =>
                        \A l \in Taking(m) : m.last[l].op \in {"plus", "minus"}
    <2>1. BinaryMeaning(m, op, d, a, b) = Undefined(n, c)
      <3> HIDE DEF v
      <3> QED BY <1>1, <1>3 DEF BinaryMeaning, Comparisons, v
    <2>2. c \in BOOLEAN
      OBVIOUS
    <2> HIDE DEF c, v
    <2>3. Continues(set, m)
      BY SetToContinues
    <2> HIDE DEF set, last
    <2>4. Continues(n, m)
      BY <2>3, ChangedContinues
    <2> HIDE DEF n
    <2> QED BY <2>1, <2>2, <2>4, UndefinedContinues
  <1> QED BY <1>2, <1>3

\* Nor does a shift of the cells.
LEMMA ShiftContinues ==
    ASSUME NEW m, Continues(m, m), NEW a, NEW b, NEW direction
    PROVE  Continues(ShiftMeaning(m, a, b, direction), m)
  <1> DEFINE n == m.val[b][0]
             shifted == [l \in Lanes |-> m.val[a][(l + direction * n) % VectorLength]]
             c == n >= 0 /\ \A l \in Lanes : m.val[b][l] = n
  <1>1. ShiftMeaning(m, a, b, direction)
            = IF c THEN [m EXCEPT !.shifted = shifted] ELSE Undefined(m, FALSE)
    BY DEF ShiftMeaning
  <1> HIDE DEF c, shifted
  <1>2. Continues([m EXCEPT !.shifted = shifted], m)
    BY ChangedContinues
  <1>3. Continues(Undefined(m, FALSE), m)
    BY UndefinedContinues
  <1> QED BY <1>1, <1>2, <1>3


\* Forms that assign to a register.
LEMMA RegisterContinues ==
    ASSUME NEW m, Continues(m, m), NEW st,
           st.form \in {"unary", "shift", "copy", "const", "index", "shiftreg", "iread",
                        "multlo", "multhi"}
    PROVE  Continues(Meaning(st, m), m)
  <1>1. \A v : Continues(SetTo(m, st.d, v), m)
    BY SetToContinues
  <1>2. CASE st.form = "unary"
    <2>1. Meaning(st, m) = SetTo(m, st.d, [l \in Lanes |-> UnaryValue(st.op, m.val[st.a][l])])
      BY <1>2 DEF Meaning, SetReg, SetTo
    <2> QED BY <1>1, <2>1
  <1>3. CASE st.form = "shift"
    <2>1. Meaning(st, m) = SetTo(m, st.d, [l \in Lanes |-> Value(st.op, m.val[st.a][l], st.b, 0)])
      BY <1>3 DEF Meaning, SetReg, SetTo
    <2> QED BY <1>1, <2>1
  <1>4. CASE st.form = "copy"
    <2>1. Meaning(st, m) = SetTo(m, st.d, [l \in Lanes |-> m.val[st.a][l]])
      BY <1>4 DEF Meaning, SetReg, SetTo
    <2> QED BY <1>1, <2>1
  <1>5. CASE st.form = "const"
    <2>1. Meaning(st, m) = SetTo(m, st.d, [l \in Lanes |-> Wrapped(st.b)])
      BY <1>5 DEF Meaning, SetReg, SetTo
    <2> QED BY <1>1, <2>1
  <1>6. CASE st.form = "index"
    <2>1. Meaning(st, m) = SetTo(m, st.d, [l \in Lanes |-> Wrapped(l)])
      BY <1>6 DEF Meaning, SetReg, SetTo
    <2> QED BY <1>1, <2>1
  <1>7. CASE st.form = "shiftreg"
    <2>1. Meaning(st, m) = SetTo(m, st.d, [l \in Lanes |-> m.shifted[l]])
      BY <1>7 DEF Meaning, SetReg, SetTo
    <2> QED BY <1>1, <2>1
  <1>8. CASE st.form = "iread"
    <2>1. Meaning(st, m) = SetTo(m, st.d, [l \in Lanes |-> m.store[st.b][l]])
      BY <1>8 DEF Meaning, SetReg, SetTo
    <2> QED BY <1>1, <2>1
  <1>9. CASE st.form = "multlo"
    <2>1. Meaning(st, m) = SetTo(m, st.d, [l \in Lanes |-> Wrapped(m.product[l])])
      BY <1>9 DEF Meaning, SetReg, SetTo
    <2> QED BY <1>1, <2>1
  <1>10. CASE st.form = "multhi"
    <2>1. Meaning(st, m) = SetTo(m, st.d, [l \in Lanes |-> Wrapped(m.product[l] \div Values)])
      BY <1>10 DEF Meaning, SetReg, SetTo
    <2> QED BY <1>1, <2>1
  <1> QED BY <1>2, <1>3, <1>4, <1>5, <1>6, <1>7, <1>8, <1>9, <1>10

\* Forms that read or write the local store, or multiply.
LEMMA StoreContinues ==
    ASSUME NEW m, Continues(m, m), NEW st,
           st.form \in {"read", "write", "iwrite", "mult", "product", "mult_u"}
    PROVE  Continues(Meaning(st, m), m)
  <1>1. \A v, k : Continues(k, m) => Continues(SetTo(k, st.d, v), m)
    BY SetToContinues
  <1>2. \A v : Continues([m EXCEPT !.store = v], m) /\ Continues([m EXCEPT !.product = v], m)
    BY ChangedContinues
  <1>3. Continues(Undefined(m, FALSE), m)
    BY UndefinedContinues
  <1>4. CASE st.form = "read"
    <2> DEFINE v == [l \in Lanes |-> m.store[m.val[st.b][l]][l]]
    <2>1. Meaning(st, m) = IF InStore(m, st.b) THEN SetTo(m, st.d, v) ELSE Undefined(m, FALSE)
      BY <1>4 DEF Meaning, SetReg, SetTo
    <2> HIDE DEF v
    <2>2. Continues(SetTo(m, st.d, v), m)
      BY <1>1
    <2> QED BY <1>3, <2>1, <2>2
  <1>5. CASE st.form = "write"
    <2> DEFINE store == [w \in DOMAIN m.store |-> [l \in Lanes |->
                            IF l \in Taking(m) /\ m.val[st.b][l] = w
                            THEN m.val[st.a][l] ELSE m.store[w][l]]]
    <2>1. Meaning(st, m) = IF InStore(m, st.b) THEN [m EXCEPT !.store = store]
                           ELSE Undefined(m, FALSE)
      BY <1>5 DEF Meaning
    <2> HIDE DEF store
    <2>2. Continues([m EXCEPT !.store = store], m)
      BY <1>2
    <2> QED BY <1>3, <2>1, <2>2
  <1>6. CASE st.form = "iwrite"
    <2> DEFINE store == [m.store EXCEPT ![st.b] =
                            [l \in Lanes |-> IF l \in Taking(m) THEN m.val[st.a][l]
                                             ELSE m.store[st.b][l]]]
    <2>1. Meaning(st, m) = [m EXCEPT !.store = store]
      BY <1>6 DEF Meaning
    <2> HIDE DEF store
    <2> QED BY <1>2, <2>1
  <1>7. CASE st.form \in {"mult", "product"}
    <2> DEFINE product == [l \in Lanes |-> IF l \in Taking(m)
                                           THEN m.val[st.a][l] * m.val[st.b][l]
                                           ELSE m.product[l]]
               exact == [m EXCEPT !.product = product]
               v == [l \in Lanes |-> Wrapped(exact.product[l])]
    <2>1. st.form = "mult" => Meaning(st, m) = exact
      BY <1>7 DEF Meaning
    <2>2. st.form = "product" => Meaning(st, m) = SetTo(exact, st.d, v)
      <3>1. st.form = "product" =>
                Meaning(st, m) = SetReg(exact, st.d, LAMBDA l : Wrapped(exact.product[l]))
        BY <1>7 DEF Meaning
      <3> HIDE DEF exact
      <3>2. SetReg(exact, st.d, LAMBDA l : Wrapped(exact.product[l])) = SetTo(exact, st.d, v)
        BY DEF SetReg, SetTo
      <3> QED BY <3>1, <3>2
    <2> HIDE DEF product, v
    <2>3. Continues(exact, m)
      BY <1>2
    <2> HIDE DEF exact
    <2>4. Continues(SetTo(exact, st.d, v), m)
      BY <1>1, <2>3
    <2> QED BY <1>7, <2>1, <2>2, <2>3, <2>4
  <1>8. CASE st.form = "mult_u"
    <2> DEFINE product == [l \in Lanes |->
                              IF l \in Taking(m)
                              THEN Unsigned(m.val[st.a][l]) * Unsigned(m.val[st.b][l])
                              ELSE m.product[l]]
    <2>1. Meaning(st, m) = [m EXCEPT !.product = product]
      BY <1>8 DEF Meaning
    <2> HIDE DEF product
    <2> QED BY <1>2, <2>1
  <1> QED BY <1>4, <1>5, <1>6, <1>7, <1>8

\* Forms that sum up, and those that select lanes.
LEMMA SelectionContinues ==
    ASSUME NEW m, Continues(m, m), NEW st,
           st.form \in {"reduce", "reduce_u", "in_all", "where", "disable", "enable", "nop"}
    PROVE  Continues(Meaning(st, m), m)
  <1>1. \A v : /\ Continues([m EXCEPT !.sums = v], m)
               /\ Continues([m EXCEPT !.selected = v], m)
               /\ Continues([m EXCEPT !.gated = v], m)
    BY ChangedContinues
  <1>2. CASE st.form = "reduce"
    <2> DEFINE sums == Append(m.sums, SumOf(LAMBDA l : m.val[st.a][l], Taking(m)))
    <2>1. Meaning(st, m) = [m EXCEPT !.sums = sums]
      BY <1>2 DEF Meaning
    <2> HIDE DEF sums
    <2> QED BY <1>1, <2>1
  <1>3. CASE st.form = "reduce_u"
    <2> DEFINE sums == Append(m.sums, SumOf(LAMBDA l : Unsigned(m.val[st.a][l]), Taking(m)))
    <2>1. Meaning(st, m) = [m EXCEPT !.sums = sums]
      BY <1>3 DEF Meaning
    <2> HIDE DEF sums
    <2> QED BY <1>1, <2>1
  <1>4. CASE st.form = "in_all"
    <2>1. Meaning(st, m) = [m EXCEPT !.selected = Lanes]
      BY <1>4 DEF Meaning
    <2> QED BY <1>1, <2>1
  <1>5. CASE st.form = "where"
    <2> DEFINE n == [m EXCEPT !.selected = Deciding(m, st.op)]
               c == \A l \in Lanes \ m.gated : Decides(m.last[l].op, st.op)
    <2>1. Meaning(st, m) = Undefined(n, c)
      BY <1>5 DEF Meaning, Deciding
    <2>2. c \in BOOLEAN /\ Continues(n, m)
      BY <1>1
    <2> HIDE DEF n, c
    <2> QED BY <2>1, <2>2, UndefinedContinues
  <1>6. CASE st.form = "disable"
    <2>1. Meaning(st, m) = [m EXCEPT !.gated = m.gated \cup Taking(m)]
      BY <1>6 DEF Meaning
    <2> QED BY <1>1, <2>1
  <1>7. CASE st.form = "enable"
    <2> DEFINE n == [m EXCEPT !.gated = {}]
               c == m.gated \subseteq m.selected
    <2>1. Meaning(st, m) = Undefined(n, c)
      BY <1>7 DEF Meaning
    <2>2. c \in BOOLEAN /\ Continues(n, m)
      BY <1>1
    <2> HIDE DEF n, c
    <2> QED BY <2>1, <2>2, UndefinedContinues
  <1>8. CASE st.form = "nop"
    BY <1>8 DEF Meaning
  <1> QED BY <1>2, <1>3, <1>4, <1>5, <1>6, <1>7, <1>8

\* No statement gives a meaning to a kernel that has lost it.
LEMMA MeaningContinues ==
    ASSUME NEW m, Shaped(m), m.defined \in BOOLEAN, NEW st, Written(st)
    PROVE  Continues(Meaning(st, m), m)
  <1>1. Continues(m, m)
    BY DEF Continues
  <1>2. CASE st.form \in {"binary", "update"}
    <2>1. Meaning(st, m) = BinaryMeaning(m, st.op, st.d, FirstOf(st), st.b)
      BY <1>2 DEF Meaning, FirstOf
    <2> QED BY <1>1, <2>1, BinaryContinues
  <1>3. CASE st.form = "cellshl"
    <2>1. Meaning(st, m) = ShiftMeaning(m, st.a, st.b, 1)
      BY <1>3 DEF Meaning
    <2> QED BY <1>1, <2>1, ShiftContinues
  <1>4. CASE st.form = "cellshr"
    <2>1. Meaning(st, m) = ShiftMeaning(m, st.a, st.b, -1)
      BY <1>4 DEF Meaning
    <2> QED BY <1>1, <2>1, ShiftContinues
  <1>5. st.form \in {"binary", "update", "unary", "shift", "copy", "const", "index",
                   "shiftreg", "read", "iread", "write", "iwrite", "mult", "product",
                   "mult_u", "multlo", "multhi", "cellshl", "cellshr", "reduce",
                   "reduce_u", "in_all", "where", "disable", "enable", "nop"}
    BY DEF Written
  <1> QED BY <1>1, <1>2, <1>3, <1>4, <1>5, RegisterContinues, StoreContinues, SelectionContinues

\* The meaning of a kernel after each of its statements.
Course(after, program, registers, store, selection) ==
    after = [k \in 0..Len(program) |->
                IF k = 0 THEN Outset(registers, store, selection)
                ELSE Meaning(program[k], after[k - 1])]

\* The meanings after each of the first statements.
CourseTo(after, program, first, last) ==
    after = [k \in 0..last |-> IF k = 0 THEN first ELSE Meaning(program[k], after[k - 1])]

\* They exist, for any number of statements.
LEMMA CourseToExists ==
    ASSUME NEW program, NEW first
    PROVE  \A last \in Nat : \E f : CourseTo(f, program, first, last)
  <1> DEFINE T == {last \in Nat : \E f : CourseTo(f, program, first, last)}
  <1>1. 0 \in T
    <2>1. CourseTo([n \in 0..0 |-> first], program, first, 0)
      BY DEF CourseTo
    <2> QED BY <2>1
  <1>2. ASSUME NEW last \in Nat, last \in T PROVE last + 1 \in T
    <2>1. PICK f : CourseTo(f, program, first, last)
      BY <1>2
    <2>2. \A n \in 0..last : f[n] = IF n = 0 THEN first ELSE Meaning(program[n], f[n - 1])
      BY <2>1 DEF CourseTo
    <2> DEFINE g == [n \in 0..(last + 1) |->
                        IF n <= last THEN f[n] ELSE Meaning(program[n], f[last])]
    <2>3. \A n \in 0..(last + 1) :
              g[n] = IF n = 0 THEN first ELSE Meaning(program[n], g[n - 1])
      BY <2>2
    <2>4. CourseTo(g, program, first, last + 1)
      BY <2>3 DEF CourseTo
    <2> QED BY <2>4
  <1>3. \A last \in Nat : last \in T
    <2> HIDE DEF T
    <2> QED BY <1>1, <1>2, SetInduction
  <1> QED BY <1>3

\* The course of a kernel from the lanes it starts with.
CourseOf(k) == CHOOSE after : Course(after, k.statements, k.registers, k.store, k.selection)

\* The course of a kernel, and what it tells of the statements before one that
\* is defined.
LEMMA CourseOfKernel ==
    ASSUME NEW k, WrittenAll(k.statements)
    PROVE  LET after == CourseOf(k)  last == Len(k.statements) IN
           /\ after[0] = Outset(k.registers, k.store, k.selection)
           /\ \A n \in 1..last : after[n] = Meaning(k.statements[n], after[n - 1])
           /\ MeaningOf(k.statements, k.registers, k.store, k.selection) = after[last]
           /\ \A n \in 0..last : Shaped(after[n]) /\ after[n].defined \in BOOLEAN
           /\ after[last].defined = TRUE => \A n \in 0..last : after[n].defined = TRUE
  <1> DEFINE after == CourseOf(k)
             last == Len(k.statements)
             first == Outset(k.registers, k.store, k.selection)
  <1>1. last \in Nat /\ \A n \in 1..last : Written(k.statements[n])
    BY DEF WrittenAll
  <1>2. Course(after, k.statements, k.registers, k.store, k.selection)
    <2>1. PICK f : CourseTo(f, k.statements, first, last)
      BY <1>1, CourseToExists
    <2>2. Course(f, k.statements, k.registers, k.store, k.selection)
      BY <2>1 DEF Course, CourseTo
    <2> QED BY <2>2 DEF CourseOf
  <1>3. MeaningOf(k.statements, k.registers, k.store, k.selection) = after[last]
    BY DEF MeaningOf, CourseOf, Course
  <1> HIDE DEF after, first, last
  <1>4. after[0] = first /\ \A n \in 1..last : after[n] = Meaning(k.statements[n], after[n - 1])
    BY <1>1, <1>2 DEF Course, last, first
  <1>5. Shaped(first) /\ first.defined = TRUE
    BY DEF first, Outset, Shaped, Grouped
  <1>6. \A n \in 0..last : Shaped(after[n]) /\ after[n].defined \in BOOLEAN
    <2> DEFINE T == {n \in 0..last : Shaped(after[n]) /\ after[n].defined \in BOOLEAN}
    <2>1. 0 \in T
      <3>1. Shaped(after[0])
        BY <1>4, <1>5
      <3>2. after[0].defined \in BOOLEAN
        BY <1>4, <1>5
      <3>3. 0 \in 0..last
        BY <1>1
      <3> QED BY <3>1, <3>2, <3>3
    <2>2. ASSUME NEW n \in 0..(last - 1), n \in T PROVE n + 1 \in T
      <3> DEFINE j == n + 1
      <3>1. j \in 1..last /\ j \in 0..last /\ j - 1 = n
        BY <1>1
      <3> HIDE DEF j
      <3>2. Continues(after[j], after[n])
        BY <1>1, <1>4, <2>2, <3>1, MeaningContinues
      <3>3. j \in T
        BY <3>1, <3>2 DEF Continues
      <3> QED BY <3>3 DEF j
    <2>3. \A n \in 0..last : n \in T
      <3> HIDE DEF T
      <3> QED BY <1>1, <2>1, <2>2, BoundedInduction
    <2> QED BY <2>3
  <1>7. \A n \in 1..last : after[n].defined = TRUE => after[n - 1].defined = TRUE
    <2> TAKE n \in 1..last
    <2> DEFINE before == n - 1
    <2>1. before \in 0..last
      BY <1>1
    <2> HIDE DEF before
    <2>2. after[n] = Meaning(k.statements[n], after[before])
      BY <1>4 DEF before
    <2>3. Continues(after[n], after[before])
      BY <1>1, <1>6, <2>1, <2>2, MeaningContinues
    <2> QED BY <2>3 DEF Continues, before
  <1>8. ASSUME after[last].defined = TRUE
        PROVE  \A n \in 0..last : after[n].defined = TRUE
    <2> DEFINE T == {n \in 0..last : after[last - n].defined = TRUE}
    <2>1. 0 \in T
      BY <1>1, <1>8
    <2>2. ASSUME NEW n \in 0..(last - 1), n \in T PROVE n + 1 \in T
      <3> DEFINE j == last - n
      <3>1. j \in 1..last /\ n + 1 \in 0..last /\ last - (n + 1) = j - 1
        BY <1>1
      <3>2. after[j].defined = TRUE
        BY <2>2
      <3> HIDE DEF j
      <3>3. after[j - 1].defined = TRUE
        BY <1>7, <3>1, <3>2
      <3> QED BY <3>1, <3>3
    <2>3. \A n \in 0..last : n \in T
      <3> HIDE DEF T
      <3> QED BY <1>1, <2>1, <2>2, BoundedInduction
    <2>4. ASSUME NEW n \in 0..last PROVE after[n].defined = TRUE
      <3> DEFINE j == last - n
      <3>1. j \in 0..last /\ last - j = n
        BY <1>1
      <3> HIDE DEF j
      <3>2. j \in T
        BY <2>3, <3>1
      <3> QED BY <3>1, <3>2
    <2> QED BY <2>4
  <1> QED BY <1>3, <1>4, <1>6, <1>8 DEF after, first, last


-----------------------------------------------------------------------------
(***************************************************************************)
(* The execution of a kernel follows its course, as long as that is        *)
(* defined: before each word, the lanes hold what the statements up to     *)
(* there say; between the two instructions of a product, the exact one.    *)
(***************************************************************************)
Followed(after, at) ==
    \E n \in 0..Len(kernel.statements) :
        \/ pc = at[n] + 1 /\ Agrees(after[n])
        \/ /\ n # Len(kernel.statements)
           /\ kernel.statements[n + 1].form = "product"
           /\ pc = at[n] + 2
           /\ Agrees(Multiplied(after[n], kernel.statements[n + 1]))

\* While the kernel has a meaning, the run is on its course.
Follows ==
    Meant.defined = TRUE => Followed(CourseOf(kernel), Starts(kernel.statements))

\* What kernels find is what they mean to begin with.
LEMMA OutsetAgrees ==
    ASSUME NEW registers, NEW store, NEW selection, NEW program,
           registers \in [Registers -> Vectors], store \in [Rows -> Vectors],
           Start(program, registers, store, selection)
    PROVE  Agrees(Outset(registers, store, selection))
  <1> DEFINE m == Outset(registers, store, selection)
  <1> DEFINE val == ValuesOf(registers)
             rows == ValuesOf(store)
             selected == {l \in Lanes : selection[l] = 1}
             last == [l \in Lanes |-> Compared("none", 0, 0)]
             zeros == [l \in Lanes |-> 0]
             none == {}
             empty == << >>
             yes == TRUE
  <1>1. m = Grouped(val, rows, selected, none, last, zeros, zeros, empty, yes)
    BY DEF Outset, Grouped, ValuesOf
  <1>2. /\ Shaped(m) /\ m.val = ValuesOf(registers) /\ m.store = ValuesOf(store)
        /\ m.selected = {l \in Lanes : selection[l] = 1} /\ m.gated = {}
        /\ m.last = [l \in Lanes |-> Compared("none", 0, 0)]
        /\ m.product = [l \in Lanes |-> 0] /\ m.shifted = [l \in Lanes |-> 0]
        /\ m.sums = << >> /\ m.defined = TRUE
    <2> HIDE DEF m, val, rows, selected, last, zeros, none, empty, yes
    <2>1. /\ Shaped(m) /\ m.val = val /\ m.store = rows /\ m.selected = selected
          /\ m.gated = none /\ m.last = last /\ m.product = zeros /\ m.shifted = zeros
          /\ m.sums = empty /\ m.defined = yes
      BY ONLY <1>1, GroupedFields
    <2> QED BY <2>1 DEF val, rows, selected, last, zeros, none, empty, yes
  <1> HIDE DEF m
  <1>3. 0 \in Cells /\ Signed(0) = 0 /\ Cell(0) = 0 /\ 0 \div Values = 0
    <2>1. Values \in Nat \ {0} /\ 0 \in 0..(Values - 1)
      BY ValuesEven
    <2>2. 0 % Values = 0 /\ 0 \div Values = 0
      BY ONLY <2>1, SmallRest
    <2> DEFINE v == Values
    <2>3. 0 \in Cells /\ Cell(0) = 0
      BY <2>1, <2>2 DEF Cells, Cell
    <2>4. 2 * 0 < Values
      <3> HIDE DEF v
      <3>1. v \in Nat \ {0}
        BY <2>1 DEF v
      <3>2. 2 * 0 < v
        BY ONLY <3>1
      <3> QED BY <3>2 DEF v
    <2> QED BY <2>2, <2>3, <2>4 DEF Signed
  <1>4. SelectionAgrees(m.selected, m.gated)
    <2>1. active = selection /\ \A l \in Lanes : cellDisabled[l] = 0
      BY DEF Start, Everywhere
    <2> QED BY <1>2, <2>1 DEF SelectionAgrees
  <1>5. FlagsAgree(m.last)
    <2>1. \A l \in Lanes : m.last[l].op = "none"
      BY <1>2 DEF Compared
    <2> QED BY <2>1 DEF FlagsAgree
  <1>6. ProductAgrees(m.product)
    <2>1. \A l \in Lanes : mult.low[l] = 0 /\ mult.high[l] = 0
      BY DEF Start, Everywhere
    <2> QED BY <1>2, <1>3, <2>1 DEF ProductAgrees
  <1>7. m.shifted = [l \in Lanes |-> Signed(shiftReg[l])]
    BY <1>2, <1>3 DEF Start, Everywhere
  <1>8. /\ m.val = ValuesOf(registerFile) /\ m.store = ValuesOf(localStore)
        /\ m.sums = reductions /\ failure = "none"
    BY <1>2 DEF Start
  <1>9. Agrees(m)
    BY <1>2, <1>4, <1>5, <1>6, <1>7, <1>8 DEF Agrees
  <1> QED BY <1>9 DEF m

\* One instruction more.
LEMMA InstructionFollows ==
    ASSUME KernelWritten, LanesTypeOK, ExecuteInstruction, UNCHANGED kernel,
           NEW after, NEW at, Places(at, kernel.statements),
           \A n \in 1..Len(kernel.statements) :
               /\ after[n] = Meaning(kernel.statements[n], after[n - 1])
               /\ after[n].defined = TRUE,
           Followed(after, at)
    PROVE  Followed(after, at)'
  <1> DEFINE N == Len(kernel.statements)
  <1>1. /\ WrittenAll(kernel.statements) /\ N \in Nat
        /\ Len(words) = Len(Appended(kernel.statements)) /\ Len(words) \in Nat
        /\ \A p \in 1..Len(words) :
              /\ words[p] = Assembled(Appended(kernel.statements)[p])
              /\ Constructible(Appended(kernel.statements)[p])
    BY KernelShape DEF WrittenAll
  <1>2. pc \in Nat /\ pc >= 1 /\ pc <= Len(words) /\ pc' = pc + 1
    <2>1. \E names : Execute(names)
      BY ActionsExecute DEF ExecuteInstruction, Unary, Shifting, LoadProduct, Selecting
    <2>2. ~Ended /\ pc' = pc + 1
      BY <2>1 DEF Execute
    <2> QED BY <1>1, <2>2 DEF Ended, LanesTypeOK
  <1>3. /\ at \in [0..N -> Nat] /\ at[N] = Len(words)
        /\ \A k \in 1..N :
              /\ at[k] = at[k - 1] + Len(Emitted(kernel.statements[k]))
              /\ \A j \in 1..Len(Emitted(kernel.statements[k])) :
                    Appended(kernel.statements)[at[k - 1] + j] = Emitted(kernel.statements[k])[j]
    BY <1>1 DEF Places
  <1>4. PICK n \in 0..N :
            \/ pc = at[n] + 1 /\ Agrees(after[n])
            \/ /\ n # N
               /\ kernel.statements[n + 1].form = "product"
               /\ pc = at[n] + 2
               /\ Agrees(Multiplied(after[n], kernel.statements[n + 1]))
    BY DEF Followed
  <1>5. at[n] \in Nat /\ n # N
    <2>1. at[n] \in Nat
      BY <1>3
    <2>2. n = N => pc = at[N] + 1
      BY <1>4
    <2> HIDE DEF N
    <2> QED BY <1>2, <1>3, <2>1, <2>2
  <1>6. PICK next : next = n + 1
    OBVIOUS
  <1>7. next \in 1..N /\ next \in 0..N /\ next - 1 = n
    BY <1>1, <1>5, <1>6
  <1>8. PICK st : st = kernel.statements[next]
    OBVIOUS
  <1>9. PICK m : m = after[n]
    OBVIOUS
  <1>10. /\ Written(st)
         /\ after[next] = Meaning(st, m) /\ Meaning(st, m).defined = TRUE
         /\ Len(Emitted(st)) = IF st.form = "product" THEN 2 ELSE 1
         /\ at[next] = at[n] + Len(Emitted(st))
         /\ \A j \in 1..Len(Emitted(st)) :
                Appended(kernel.statements)[at[n] + j] = Emitted(st)[j]
    <2>1. Written(st)
      BY <1>1, <1>7, <1>8 DEF WrittenAll
    <2>2. Len(Emitted(st)) = IF st.form = "product" THEN 2 ELSE 1
      BY <2>1, EmittedLength
    <2> QED BY <1>3, <1>7, <1>8, <1>9, <2>1, <2>2
  <1>11. words[pc] = Assembled(Appended(kernel.statements)[pc])
         /\ Constructible(Appended(kernel.statements)[pc])
    BY <1>1, <1>2
  <1>12. kernel' = kernel /\ N' = N
    OBVIOUS
  <1>13. CASE pc = at[n] + 1 /\ Agrees(m)
    <2>1. 1 \in 1..Len(Emitted(st))
      BY <1>10
    <2>2. Appended(kernel.statements)[pc] = Emitted(st)[1]
      BY <1>10, <1>13, <2>1
    <2>3. StatementNow(st)
      BY <1>10, <1>11, <2>2 DEF StatementNow
    <2>4. CASE st.form # "product"
      <3>1. Agrees(Meaning(st, m))'
        BY <1>10, <1>13, <2>3, <2>4, StatementAgrees
      <3>2. Agrees(after[next])'
        BY <1>10, <3>1
      <3>3. pc' = at[next] + 1
        BY <1>2, <1>5, <1>10, <1>13, <2>4
      <3>4. next \in 0..N'
        BY <1>7, <1>12
      <3> HIDE DEF N
      <3> QED BY <3>2, <3>3, <3>4 DEF Followed, N
    <2>5. CASE st.form = "product"
      <3>1. Agrees(Multiplied(m, st))'
        BY <1>13, <2>3, <2>5, MultiplyAgrees
      <3>2. pc' = at[n] + 2
        BY <1>2, <1>5, <1>13
      <3>3. /\ n \in 0..N' /\ n # N'
            /\ kernel'.statements[n + 1] = st
        BY <1>5, <1>6, <1>8, <1>12
      <3>4. Agrees(Multiplied(after[n], kernel.statements[n + 1]))'
        BY <1>9, <3>1, <3>3
      <3> HIDE DEF N
      <3> QED BY <2>5, <3>2, <3>3, <3>4 DEF Followed, N
    <2> QED BY <2>4, <2>5
  <1>14. CASE st.form = "product" /\ pc = at[n] + 2 /\ Agrees(Multiplied(m, st))
    <2>1. 2 \in 1..Len(Emitted(st))
      BY <1>10, <1>14
    <2>2. Appended(kernel.statements)[pc] = Emitted(st)[2]
      BY <1>10, <1>14, <2>1
    <2>3. words[pc] = Assembled(Emitted(st)[2])
      BY <1>11, <2>2
    <2>4. Agrees(Meaning(st, m))'
      BY <1>10, <1>14, <2>3, ProductAgreesAfter
    <2>5. Agrees(after[next])'
      BY <1>10, <2>4
    <2>6. pc' = at[next] + 1
      BY <1>2, <1>5, <1>10, <1>14
    <2>7. next \in 0..N'
      BY <1>7, <1>12
    <2> HIDE DEF N
    <2> QED BY <2>5, <2>6, <2>7 DEF Followed, N
  <1> QED BY <1>4, <1>6, <1>8, <1>9, <1>13, <1>14


\* Where the execution is at its end.
LEMMA FollowedToEnd ==
    ASSUME KernelWritten, LanesTypeOK, Ended,
           NEW after, NEW at, Places(at, kernel.statements), Followed(after, at)
    PROVE  Agrees(after[Len(kernel.statements)])
  <1> DEFINE N == Len(kernel.statements)
  <1>1. /\ WrittenAll(kernel.statements) /\ N \in Nat
        /\ Len(words) = Len(Appended(kernel.statements)) /\ Len(words) \in Nat
    BY KernelShape DEF WrittenAll
  <1>2. pc \in Nat /\ pc > Len(words)
    BY <1>1 DEF Ended, LanesTypeOK
  <1>3. /\ at \in [0..N -> Nat] /\ at[N] = Len(words)
        /\ \A k \in 1..N : at[k] = at[k - 1] + Len(Emitted(kernel.statements[k]))
    BY <1>1 DEF Places
  <1>4. \A k \in 0..N : at[k] <= at[N]
    <2>1. N \in 0..N
      BY <1>1
    <2> QED BY <1>1, <2>1, PlacesGrow
  <1>5. PICK n \in 0..N :
            \/ pc = at[n] + 1 /\ Agrees(after[n])
            \/ /\ n # N
               /\ kernel.statements[n + 1].form = "product"
               /\ pc = at[n] + 2
    BY DEF Followed
  <1>6. CASE n = N
    BY <1>5, <1>6
  <1>7. CASE n # N
    <2> DEFINE k == n + 1
    <2>1. k \in 1..N /\ k \in 0..N /\ k - 1 = n
      BY <1>1, <1>7
    <2> HIDE DEF k, N
    <2>2. Len(Emitted(kernel.statements[k]))
              = IF kernel.statements[k].form = "product" THEN 2 ELSE 1
      BY <1>1, <2>1, EmittedLength DEF WrittenAll, N
    <2>3. at[k] = at[n] + Len(Emitted(kernel.statements[k])) /\ at[k] <= at[N]
      BY <1>3, <1>4, <2>1
    <2>4. at[n] \in Nat /\ at[k] \in Nat /\ at[N] \in Nat
      BY <1>3, <1>1, <2>1
    <2>5. pc <= at[k]
      BY <1>5, <1>7, <2>2, <2>3, <2>4 DEF k
    <2> QED BY <1>2, <1>3, <2>3, <2>4, <2>5
  <1> QED BY <1>6, <1>7

\* What the host has got, from the FIFO of a kernel that has ended.
Answered ==
    answer # NoAnswer =>
        /\ Ended
        /\ failure = "none"
        /\ answer.values = IF answer.mode = "short" THEN ShortResults(Delivered(answer.from))
                           ELSE SignExtendedResults(Delivered(answer.from), 0)

\* Every step stays on the course, and the host gets its answer only at its end.
LEMMA StepsFollow ==
    ASSUME KernelWritten, LanesTypeOK, [Next]_vars, Follows, Answered
    PROVE  Follows' /\ Answered'
  <1>1. CASE ExecuteInstruction /\ UNCHANGED <<kernel, answer>>
    <2>1. ~Ended
      <3>1. \E names : Execute(names)
        BY <1>1, ActionsExecute DEF ExecuteInstruction, Unary, Shifting, LoadProduct, Selecting
      <3> QED BY <3>1 DEF Execute
    <2>2. answer = NoAnswer
      BY <2>1 DEF Answered
    <2>3. Answered'
      BY <1>1, <2>2 DEF Answered, NoAnswer
    <2>4. Follows'
      <3>1. /\ WrittenAll(kernel.statements)
            /\ Places(Starts(kernel.statements), kernel.statements)
        BY KernelShape
      <3>2. PICK after : after = CourseOf(kernel)
        OBVIOUS
      <3>3. PICK at : at = Starts(kernel.statements)
        OBVIOUS
      <3>4. kernel' = kernel
        BY <1>1
      <3>5. Meant' = Meant /\ CourseOf(kernel)' = after /\ Starts(kernel.statements)' = at
        BY <3>2, <3>3, <3>4 DEF Meant
      <3>6. SUFFICES ASSUME Meant.defined = TRUE PROVE Followed(after, at)'
        BY <3>5 DEF Follows
      <3>7. Followed(after, at)
        BY <3>2, <3>3, <3>6 DEF Follows
      <3>8. \A n \in 1..Len(kernel.statements) :
                /\ after[n] = Meaning(kernel.statements[n], after[n - 1])
                /\ after[n].defined = TRUE
        <4>1. /\ \A n \in 1..Len(kernel.statements) :
                     after[n] = Meaning(kernel.statements[n], after[n - 1])
              /\ Meant = after[Len(kernel.statements)]
              /\ after[Len(kernel.statements)].defined = TRUE =>
                     \A n \in 0..Len(kernel.statements) : after[n].defined = TRUE
          BY <3>1, <3>2, CourseOfKernel DEF Meant
        <4>2. \A n \in 1..Len(kernel.statements) : n \in 0..Len(kernel.statements)
          BY <3>1 DEF WrittenAll
        <4> QED BY <3>6, <4>1, <4>2
      <3>9. Places(at, kernel.statements)
        BY <3>1, <3>3
      <3> QED BY <1>1, <3>4, <3>7, <3>8, <3>9, InstructionFollows
    <2> QED BY <2>3, <2>4
  <1>2. ASSUME UNCHANGED <<lanesVars, kernel>> PROVE Follows'
    <2>1. \A m : Agrees(m) => Agrees(m)'
      BY <1>2, KeptAgrees DEF Agrees, lanesVars
    <2>2. \A after, at : Followed(after, at) => Followed(after, at)'
      <3> TAKE after, at
      <3>1. pc' = pc /\ kernel' = kernel
        BY <1>2 DEF lanesVars
      <3> QED BY <2>1, <3>1 DEF Followed
    <2>3. kernel' = kernel /\ Meant' = Meant
      BY <1>2 DEF Meant
    <2> QED BY <2>2, <2>3 DEF Follows
  <1>3. ASSUME NEW from \in Sources, NEW mode \in {"short", "sign_extend"},
               ReadResults(from, mode)
        PROVE  Follows' /\ Answered'
    <2>1. Follows'
      BY <1>2, <1>3 DEF ReadResults
    <2>2. /\ Ended /\ failure = "none"
          /\ answer' = [from |-> from, mode |-> mode, values |->
                           IF mode = "short" THEN ShortResults(Delivered(from))
                           ELSE SignExtendedResults(Delivered(from), 0)]
          /\ UNCHANGED lanesVars
      BY <1>3 DEF ReadResults
    <2>3. Ended' /\ failure' = "none" /\ Delivered(from)' = Delivered(from)
      BY <2>2 DEF lanesVars, Ended, Delivered
    <2>4. answer'.mode = mode /\ answer'.from = from
      BY <2>2
    <2>5. answer'.values = IF mode = "short" THEN ShortResults(Delivered(from))
                           ELSE SignExtendedResults(Delivered(from), 0)
      BY <2>2
    <2> QED BY <2>1, <2>3, <2>4, <2>5 DEF Answered
  <1>4. CASE UNCHANGED vars
    <2>1. UNCHANGED <<lanesVars, kernel>> /\ answer' = answer
      BY <1>4 DEF vars
    <2>2. /\ Delivered(answer.from)' = Delivered(answer.from)
          /\ Ended' = Ended /\ failure' = failure
      BY <2>1 DEF lanesVars, Ended, Delivered
    <2>3. Answered'
      BY <2>1, <2>2 DEF Answered
    <2> QED BY <1>2, <2>1, <2>3
  <1> QED BY <1>1, <1>3, <1>4 DEF Next, Rest

\* Every run of a kernel with a meaning is on its course at every moment.
LEMMA AlwaysFollows == Spec => [](KernelWritten /\ TypeOK /\ Follows /\ Answered)
  <1>1. Init => Follows /\ Answered
    <2> SUFFICES ASSUME Init PROVE Follows /\ Answered
      OBVIOUS
    <2>1. PICK k \in Kernels :
              /\ kernel = k /\ answer = NoAnswer
              /\ Start(KernelWords(k.statements), k.registers, k.store, k.selection)
              /\ \A n \in DOMAIN Appended(k.statements) :
                     Constructible(Appended(k.statements)[n])
      BY DEF Init
    <2>2. KernelWritten
      BY <2>1 DEF KernelWritten, Start
    <2>3. /\ WrittenAll(k.statements)
          /\ Places(Starts(k.statements), k.statements)
      BY <2>1, <2>2, KernelShape
    <2>4. /\ k.registers \in [Registers -> Vectors] /\ k.store \in [Rows -> Vectors]
          /\ 0 \in 0..Len(k.statements)
      BY <2>3, KernelsAssumption DEF WrittenAll
    <2>5. Agrees(Outset(k.registers, k.store, k.selection))
      <3> DEFINE registers == k.registers  store == k.store  selection == k.selection
                 program == KernelWords(k.statements)
      <3>1. /\ registers \in [Registers -> Vectors] /\ store \in [Rows -> Vectors]
            /\ Start(program, registers, store, selection)
        BY <2>1, <2>4
      <3> HIDE DEF registers, store, selection, program
      <3>2. Agrees(Outset(registers, store, selection))
        BY <3>1, OutsetAgrees
      <3> QED BY <3>2 DEF registers, store, selection
    <2>6. CourseOf(k)[0] = Outset(k.registers, k.store, k.selection)
      BY <2>3, CourseOfKernel
    <2>7. pc = Starts(k.statements)[0] + 1
      BY <2>1, <2>3 DEF Start, Places
    <2>8. Followed(CourseOf(k), Starts(k.statements))
      BY <2>1, <2>4, <2>5, <2>6, <2>7 DEF Followed
    <2> QED BY <2>1, <2>8 DEF Follows, Answered
  <1>2. KernelWritten /\ TypeOK /\ Follows /\ Answered /\ [Next]_vars => Follows' /\ Answered'
    BY StepsFollow DEF TypeOK
  <1> QED BY <1>1, <1>2, KernelStaysWritten, LanesAreTyped, PTL DEF Spec

\* A kernel that has a meaning and has ended holds what it means.
LEMMA EndAgrees ==
    ASSUME KernelWritten, TypeOK, Follows, Ended, Meant.defined
    PROVE  Agrees(Meant)
  <1>1. /\ WrittenAll(kernel.statements)
        /\ Places(Starts(kernel.statements), kernel.statements)
    BY KernelShape
  <1>2. /\ Meant = CourseOf(kernel)[Len(kernel.statements)]
        /\ Meant.defined \in BOOLEAN
    <2>1. Len(kernel.statements) \in 0..Len(kernel.statements)
      BY <1>1 DEF WrittenAll
    <2> QED BY <1>1, <2>1, CourseOfKernel DEF Meant
  <1>3. Meant.defined = TRUE
    BY <1>2
  <1>4. Followed(CourseOf(kernel), Starts(kernel.statements))
    BY <1>3 DEF Follows
  <1>5. Agrees(CourseOf(kernel)[Len(kernel.statements)])
    <2>1. LanesTypeOK
      BY DEF TypeOK
    <2> QED BY <1>1, <1>4, <2>1, FollowedToEnd
  <1> QED BY <1>2, <1>5

\* What the statements of a kernel say in the arithmetic of integers is what the
\* simulator computes with the words that Operand and Instruction make of them
\* (executeInstruction(), the operators of ConnexVector.cpp and Operand.cpp):
\* for every kernel, whatever it finds in registers and local store.
THEOREM KernelsDoWhatIsWritten == Spec => []DoesWhatIsWritten
  <1>1. KernelWritten /\ TypeOK /\ Follows => DoesWhatIsWritten
    <2> SUFFICES ASSUME KernelWritten, TypeOK, Follows, Ended, Meant.defined
                 PROVE  /\ \A r \in Registers, l \in Lanes :
                              Signed(registerFile[r][l]) = Meant.val[r][l]
                        /\ \A w \in Rows, l \in Lanes :
                              Signed(localStore[w][l]) = Meant.store[w][l]
                        /\ reductions = Meant.sums
      BY DEF DoesWhatIsWritten
    <2>1. Agrees(Meant)
      BY EndAgrees
    <2>2. Meant.val = ValuesOf(registerFile) /\ Meant.store = ValuesOf(localStore)
          /\ Meant.sums = reductions
      BY <2>1 DEF Agrees
    <2>3. DOMAIN registerFile = Registers /\ DOMAIN localStore = Rows
      BY DEF TypeOK, LanesTypeOK
    <2> QED BY <2>2, <2>3 DEF ValuesOf
  <1> QED BY <1>1, AlwaysFollows, PTL

\* The assertions of loadFrom() and storeTo() fail, and the loop of shift() does
\* not end, only in kernels whose statements ask for what has no meaning.  Other
\* assertions of the simulator, that of the energy table among them, are not
\* considered.
THEOREM KernelsFailOnlyOnMisuse == Spec => []AccessesFailOnlyOnMisuse
  <1>1. KernelWritten /\ TypeOK /\ Follows => AccessesFailOnlyOnMisuse
    <2> SUFFICES ASSUME KernelWritten, Follows, Meant.defined PROVE failure = "none"
      BY DEF AccessesFailOnlyOnMisuse
    <2>1. Meant.defined = TRUE
      <3>1. WrittenAll(kernel.statements)
        BY KernelShape
      <3>2. Len(kernel.statements) \in 0..Len(kernel.statements)
        BY <3>1 DEF WrittenAll
      <3>3. Meant.defined \in BOOLEAN
        BY <3>1, <3>2, CourseOfKernel DEF Meant
      <3> QED BY <3>3
    <2>2. Followed(CourseOf(kernel), Starts(kernel.statements))
      BY <2>1 DEF Follows
    <2> QED BY <2>2 DEF Followed, Agrees
  <1> QED BY <1>1, AlwaysFollows, PTL

\* What the host gets from readCorrectReductionResults() are the sums that the
\* kernel asks for: cut to a cell, whichever FIFO they come from, and as they are,
\* if they are the ints that the simulator writes.
THEOREM HostGetsSums == Spec => []ResultsAreSums
  <1>1. KernelWritten /\ TypeOK /\ Follows /\ Answered => ResultsAreSums
    <2> SUFFICES ASSUME KernelWritten, TypeOK, Follows, Answered, answer # NoAnswer,
                        Meant.defined
                 PROVE  /\ answer.mode = "short" =>
                               answer.values = [k \in DOMAIN Meant.sums |->
                                                   Wrapped(Meant.sums[k])]
                        /\ answer.mode = "sign_extend" /\ answer.from = "simulator" =>
                               answer.values = Meant.sums
      BY DEF ResultsAreSums
    <2>1. /\ Ended
          /\ answer.values = IF answer.mode = "short"
                                THEN ShortResults(Delivered(answer.from))
                             ELSE SignExtendedResults(Delivered(answer.from), 0)
      BY DEF Answered
    <2>2. Meant.sums = reductions
      BY <2>1, EndAgrees DEF Agrees
    <2>3. /\ reductions = [k \in DOMAIN reductions |-> reductions[k]]
          /\ \A k \in DOMAIN reductions : reductions[k] \in Int
      <3>1. reductions \in Seq(Int)
        BY DEF TypeOK, LanesTypeOK
      <3> QED BY <3>1
    <2>4. ShortResults(Delivered(answer.from))
              = [k \in DOMAIN reductions |-> Wrapped(reductions[k])]
      <3>1. /\ DOMAIN Delivered(answer.from) = DOMAIN reductions
            /\ \A k \in DOMAIN reductions :
                  Cell(Delivered(answer.from)[k]) = Cell(reductions[k])
        BY <2>3, ResultBitsHoldACell DEF Delivered
      <3> QED BY <3>1, WrappedIsCell DEF ShortResults
    <2>5. answer.from = "simulator" =>
              SignExtendedResults(Delivered(answer.from), 0) = reductions
      <3> SUFFICES ASSUME answer.from = "simulator"
                   PROVE  SignExtendedResults(Delivered(answer.from), 0) = reductions
        OBVIOUS
      <3>1. Delivered(answer.from) = [k \in DOMAIN reductions |-> reductions[k]]
        BY DEF Delivered
      <3> DEFINE most == 2^(ResultBits - 1)
      <3>2. most \in Nat \ {0}
        BY ResultBitsAreBits
      <3> HIDE DEF most
      <3>3. ~(0 > most)
        BY ONLY <3>2
      <3> QED BY <2>3, <3>1, <3>3 DEF SignExtendedResults, most
    <2> QED BY <2>1, <2>2, <2>4, <2>5
  <1> QED BY <1>1, AlwaysFollows, PTL

-----------------------------------------------------------------------------
(***************************************************************************)
(* Numbers of two cells.  What the kernels that compute with them mean,    *)
(* statement by statement, and that the lanes then hold the sums,          *)
(* differences, products and absolute values.                              *)
(***************************************************************************)
\* A number differs from what is left of it in a register by a multiple of the
\* number of values.
LEMMA WrappedDiffers ==
    ASSUME NEW n \in Int
    PROVE  \E k \in Int : Wrapped(n) = n + Values * k
  <1>1. Cell(n) \in Cells /\ Wrapped(n) = Signed(Cell(n))
    BY CellIsCell, WrappedIsCell
  <1>2. PICK i \in {-1, 0} : Signed(Cell(n)) = Cell(n) + Values * i
    BY <1>1, SignedRange
  <1>3. PICK q \in Int : n = Values * q + Cell(n)
    BY CellAndRest
  <1>4. PICK c : c = Cell(n)
    OBVIOUS
  <1>5. PICK v : v = Values
    OBVIOUS
  <1>6. v \in Int /\ c \in Int
    BY <1>1, <1>4, <1>5, ValuesEven DEF Cells
  <1>7. n = v * q + c
    BY <1>3, <1>4, <1>5
  <1>8. c + v * i = n + v * (i - q) /\ i - q \in Int
    <2>1. v * (i - q) = v * i - v * q /\ v * i \in Int /\ v * q \in Int
      BY ONLY <1>2, <1>3, <1>6
    <2> QED BY ONLY <1>2, <1>3, <1>6, <1>7, <2>1
  <1> QED BY <1>1, <1>2, <1>4, <1>5, <1>8

\* Statements compute with what is left of numbers what would be left of the
\* result of computing with the numbers.
LEMMA ValueOfWrapped ==
    ASSUME NEW n \in Int, NEW k \in Int, NEW c \in {0, 1}, NEW other
    PROVE  /\ Value("plus", Wrapped(n), Wrapped(k), other) = Wrapped(n + k)
           /\ Value("minus", Wrapped(n), Wrapped(k), other) = Wrapped(n - k)
           /\ Value("addc", Wrapped(n), Wrapped(k), c) = Wrapped(n + k + c)
           /\ Value("subc", Wrapped(n), Wrapped(k), c) = Wrapped(n - k - c)
           /\ Wrapped(Wrapped(n) * Wrapped(k)) = Wrapped(n * k)
  <1>1. PICK i \in Int : Wrapped(n) = n + Values * i
    BY WrappedDiffers
  <1>2. PICK j \in Int : Wrapped(k) = k + Values * j
    BY WrappedDiffers
  <1>3. PICK v : v = Values
    OBVIOUS
  <1>4. v \in Int
    BY <1>3, ValuesEven
  <1>5. \A a \in Int : \A b \in Int : Wrapped(a + v * b) = Wrapped(a)
    BY <1>3, WrappedSigned
  <1>6. PICK x : x = n + v * i
    OBVIOUS
  <1>7. PICK y : y = k + v * j
    OBVIOUS
  <1>8. /\ x + y = (n + k) + v * (i + j) /\ x - y = (n - k) + v * (i - j)
        /\ x + y + c = (n + k + c) + v * (i + j) /\ x - y - c = (n - k - c) + v * (i - j)
    <2>1. /\ v * (i + j) = v * i + v * j /\ v * (i - j) = v * i - v * j
          /\ v * i \in Int /\ v * j \in Int
      BY ONLY <1>1, <1>2, <1>4
    <2>2. PICK a : a = v * i
      OBVIOUS
    <2>3. PICK b : b = v * j
      OBVIOUS
    <2>4. /\ x = n + a /\ y = k + b /\ v * (i + j) = a + b /\ v * (i - j) = a - b
          /\ a \in Int /\ b \in Int
      BY ONLY <1>6, <1>7, <2>1, <2>2, <2>3
    <2>5. c \in Int
      OBVIOUS
    <2> QED BY ONLY <2>4, <2>5, n \in Int, k \in Int
  <1>9. x * y = n * k + v * (n * j + k * i + v * (i * j))
    <2>1. x * y = n * k + n * (v * j) + (v * i) * k + (v * i) * (v * j)
      BY ONLY <1>1, <1>2, <1>4, <1>6, <1>7, n \in Int, k \in Int
    <2>2. v * (n * j + k * i + v * (i * j)) = v * (n * j) + v * (k * i) + v * (v * (i * j))
      BY ONLY <1>1, <1>2, <1>4, n \in Int, k \in Int
    <2>3. /\ n * (v * j) = v * (n * j) /\ (v * i) * k = v * (k * i)
          /\ (v * i) * (v * j) = v * (v * (i * j))
      BY ONLY <1>1, <1>2, <1>4, n \in Int, k \in Int
    <2>4. n * k \in Int /\ v * (n * j) \in Int /\ v * (k * i) \in Int /\ v * (v * (i * j)) \in Int
      BY ONLY <1>1, <1>2, <1>4, n \in Int, k \in Int
    <2> QED BY ONLY <2>1, <2>2, <2>3, <2>4
  <1>10. /\ n + k \in Int /\ n - k \in Int /\ n + k + c \in Int /\ n - k - c \in Int
         /\ n * k \in Int /\ i + j \in Int /\ i - j \in Int
         /\ n * j + k * i + v * (i * j) \in Int
    BY ONLY <1>1, <1>2, <1>4, n \in Int, k \in Int, c \in {0, 1}
  <1>11. /\ Wrapped(x + y) = Wrapped(n + k) /\ Wrapped(x - y) = Wrapped(n - k)
         /\ Wrapped(x + y + c) = Wrapped(n + k + c) /\ Wrapped(x - y - c) = Wrapped(n - k - c)
         /\ Wrapped(x * y) = Wrapped(n * k)
    BY ONLY <1>5, <1>8, <1>9, <1>10
  <1>12. Wrapped(n) = x /\ Wrapped(k) = y
    BY <1>1, <1>2, <1>3, <1>6, <1>7
  <1> QED BY <1>11, <1>12 DEF Value

\* The carry and the borrow that a sum and a difference of cells leave.
LEMMA CarryOfCells ==
    ASSUME NEW x \in Cells, NEW y \in Cells
    PROVE  /\ CarryAfter(Compared("plus", Signed(x), Signed(y))) = Carry(x, y)
           /\ CarryAfter(Compared("minus", Signed(x), Signed(y))) = Borrow(x, y)
  BY UnsignedOfSigned DEF CarryAfter, Compared, Carry, Borrow

\* A meaning that statements can be added to.
Ready(m) == Shaped(m) /\ m.defined = TRUE /\ DOMAIN m.val = Registers

\* k is m with the values v in register d, in the lanes that take part.
Assigned(k, m, d, v) ==
    /\ Ready(k)
    /\ k.selected = m.selected /\ k.gated = m.gated /\ k.sums = m.sums
    /\ \A r \in Registers \ {d} : k.val[r] = m.val[r]
    /\ \A l \in Lanes : k.val[d][l] = IF l \in Taking(m) THEN v[l] ELSE m.val[d][l]

\* What an assignment of Operand writes to a register changes nothing else.
LEMMA SetToAssigns ==
    ASSUME NEW m, Ready(m), NEW d \in Registers, NEW v
    PROVE  /\ Assigned(SetTo(m, d, v), m, d, v)
           /\ SetTo(m, d, v).last = m.last /\ SetTo(m, d, v).product = m.product
  <1> DEFINE k == SetTo(m, d, v)
             new == [l \in Lanes |-> IF l \in Taking(m) THEN v[l] ELSE m.val[d][l]]
             val == [m.val EXCEPT ![d] = new]
  <1>1. k = [m EXCEPT !.val = val]
    BY DEF SetTo
  <1>2. Shaped(m) /\ m.defined = TRUE
    BY DEF Ready
  <1>3. DOMAIN val = Registers /\ val[d] = new /\ \A r \in Registers \ {d} : val[r] = m.val[r]
    BY DEF Ready
  <1> HIDE DEF k, val
  <1>4. k.val = val /\ Alike(k, m, "val")
    BY <1>1, <1>2, ChangedField
  <1>5. /\ Shaped(k) /\ k.defined = TRUE /\ k.selected = m.selected /\ k.gated = m.gated
        /\ k.sums = m.sums /\ k.last = m.last /\ k.product = m.product
    BY <1>2, <1>4 DEF Alike
  <1>6. Assigned(k, m, d, v)
    BY <1>3, <1>4, <1>5 DEF Assigned, Ready
  <1> QED BY <1>5, <1>6 DEF k

\* Statements that assign to a register and remember no operator.
LEMMA RegisterMeaning ==
    ASSUME NEW m, Ready(m), NEW st, Written(st)
    PROVE  LET k == Meaning(st, m) IN
           /\ st.form \in {"copy", "const", "multlo", "multhi"} =>
                 k.last = m.last /\ k.product = m.product
           /\ st.form = "copy" => Assigned(k, m, st.d, [l \in Lanes |-> m.val[st.a][l]])
           /\ st.form = "const" => Assigned(k, m, st.d, [l \in Lanes |-> Wrapped(st.b)])
           /\ st.form = "multlo" =>
                 Assigned(k, m, st.d, [l \in Lanes |-> Wrapped(m.product[l])])
           /\ st.form = "multhi" =>
                 Assigned(k, m, st.d, [l \in Lanes |-> Wrapped(m.product[l] \div Values)])
  <1>1. st.d \in Registers
    BY DEF Written
  <1>2. ASSUME st.form = "copy"
        PROVE  Meaning(st, m) = SetTo(m, st.d, [l \in Lanes |-> m.val[st.a][l]])
    BY <1>2 DEF Meaning, SetReg, SetTo
  <1>3. ASSUME st.form = "const"
        PROVE  Meaning(st, m) = SetTo(m, st.d, [l \in Lanes |-> Wrapped(st.b)])
    BY <1>3 DEF Meaning, SetReg, SetTo
  <1>4. ASSUME st.form = "multlo"
        PROVE  Meaning(st, m) = SetTo(m, st.d, [l \in Lanes |-> Wrapped(m.product[l])])
    BY <1>4 DEF Meaning, SetReg, SetTo
  <1>5. ASSUME st.form = "multhi"
        PROVE  Meaning(st, m)
                   = SetTo(m, st.d, [l \in Lanes |-> Wrapped(m.product[l] \div Values)])
    BY <1>5 DEF Meaning, SetReg, SetTo
  <1>6. \A v : /\ Assigned(SetTo(m, st.d, v), m, st.d, v)
               /\ SetTo(m, st.d, v).last = m.last /\ SetTo(m, st.d, v).product = m.product
    BY <1>1, SetToAssigns
  <1> QED BY <1>2, <1>3, <1>4, <1>5, <1>6

\* They leave the last operator and the last product alone.
LEMMA RegisterMeaningKeeps ==
    ASSUME NEW m, Ready(m), NEW st, Written(st),
           st.form \in {"copy", "const", "multlo", "multhi"}, NEW k, k = Meaning(st, m)
    PROVE  k.last = m.last /\ k.product = m.product
  BY RegisterMeaning

\* Operators that set the flags, where ADDC and SUBC find a carry.
LEMMA OperatorMeaning ==
    ASSUME NEW m, Ready(m), NEW st, Written(st), st.form \in {"binary", "update"},
           ~IsUnflagged(st.op),
           st.op \in {"addc", "subc"} => \A l \in Taking(m) : m.last[l].op \in {"plus", "minus"}
    PROVE  LET k == Meaning(st, m)  a == FirstOf(st)  b == st.b IN
           /\ Assigned(k, m, st.d, [l \in Lanes |->
                  Value(st.op, m.val[a][l], m.val[b][l], CarryAfter(m.last[l]))])
           /\ \A l \in Lanes :
                 k.last[l] = IF l \in Taking(m)
                             THEN Compared(st.op, m.val[a][l], m.val[b][l])
                             ELSE Compared("lost", 0, 0)
  <1> DEFINE op == st.op
             a == FirstOf(st)
             b == st.b
             d == st.d
             v == BinaryValues(m, op, a, b)
             set == SetTo(m, d, v)
             last == Comparisons(m, op, a, b)
             n == [set EXCEPT !.last = last]
             c == op \in {"addc", "subc"} =>
                      \A l \in Taking(m) : m.last[l].op \in {"plus", "minus"}
  <1>1. d \in Registers
    BY DEF Written
  <1>2. Meaning(st, m) = BinaryMeaning(m, op, d, a, b)
    BY DEF Meaning, FirstOf
  <1>3. ~IsShift(op)
    BY DEF IsUnflagged
  <1>4. v = [l \in Lanes |-> Value(op, m.val[a][l], m.val[b][l], CarryAfter(m.last[l]))]
    BY <1>3 DEF BinaryValues
  <1>5. SetReg(m, d, LAMBDA l :
                   IF IsShift(op) /\ m.val[b][l] \notin 0..31 THEN 0
                   ELSE Value(op, m.val[a][l], m.val[b][l], CarryAfter(m.last[l]))) = set
    BY DEF SetReg, SetTo, BinaryValues
  <1> HIDE DEF op, a, b, d, v
  <1>6. BinaryMeaning(m, op, d, a, b) = Undefined(n, c)
    <2>1. ~IsUnflagged(op)
      BY DEF op
    <2> QED BY <1>5, <2>1 DEF BinaryMeaning, Comparisons
  <1>7. c = TRUE
    BY DEF op
  <1>8. Assigned(set, m, d, v)
    BY <1>1, SetToAssigns
  <1> HIDE DEF set, last, c
  <1>9. n.last = last /\ Alike(n, set, "last")
    <2>1. Shaped(set)
      BY <1>8 DEF Assigned, Ready
    <2> QED BY ONLY <2>1, ChangedField
  <1> HIDE DEF n
  <1>10. Undefined(n, c) = n
    <2>1. Shaped(n) /\ n.defined = TRUE
      BY <1>8, <1>9 DEF Alike, Assigned, Ready
    <2>2. Undefined(n, c) = [n EXCEPT !.defined = n.defined]
      BY <1>7, <2>1 DEF Undefined
    <2> QED BY ZenonT(60), <2>1, <2>2, Regrouped DEF Shaped
  <1>11. Assigned(n, m, d, v)
    BY <1>8, <1>9 DEF Alike, Assigned, Ready
  <1>12. \A l \in Lanes :
            n.last[l] = IF l \in Taking(m) THEN Compared(op, m.val[a][l], m.val[b][l])
                        ELSE Compared("lost", 0, 0)
    BY <1>9 DEF last, Comparisons
  <1>13. Meaning(st, m) = n
    BY <1>2, <1>6, <1>10
  <1> QED BY <1>4, <1>11, <1>12, <1>13 DEF op, a, b, d

\* MULT and MULT_U keep a product and leave the rest alone.
LEMMA ProductKept ==
    ASSUME NEW m, Ready(m), NEW p, NEW e, e = [m EXCEPT !.product = p]
    PROVE  /\ Ready(e) /\ e.product = p /\ e.val = m.val
           /\ e.selected = m.selected /\ e.gated = m.gated /\ e.sums = m.sums
  <1>1. Shaped(m) /\ m.defined = TRUE
    BY DEF Ready
  <1>2. e.product = p /\ Alike(e, m, "product")
    BY <1>1, ChangedField
  <1> QED BY <1>1, <1>2 DEF Alike, Ready

\* The product of two numbers.
Times(x, y) == x * y

\* The product of numbers without a sign.
LEMMA UnsignedProductMeaning ==
    ASSUME NEW m, Ready(m), NEW st, st.form = "mult_u", Taking(m) = Lanes,
           NEW k, k = Meaning(st, m), NEW a, a = st.a, NEW b, b = st.b
    PROVE  /\ Ready(k) /\ k.val = m.val /\ Taking(k) = Lanes
           /\ \A l \in Lanes : k.product[l] = Times(Unsigned(m.val[a][l]), Unsigned(m.val[b][l]))
  <1> DEFINE p == [l \in Lanes |->
                     IF l \in Taking(m)
                     THEN Unsigned(m.val[st.a][l]) * Unsigned(m.val[st.b][l])
                     ELSE m.product[l]]
  <1>1. k = [m EXCEPT !.product = p]
    BY DEF Meaning
  <1>2. \A l \in Lanes : p[l] = Times(Unsigned(m.val[a][l]), Unsigned(m.val[b][l]))
    BY DEF Times
  <1> HIDE DEF p
  <1>3. /\ Ready(k) /\ k.product = p /\ k.val = m.val
        /\ k.selected = m.selected /\ k.gated = m.gated
    BY <1>1, ProductKept
  <1> QED BY <1>2, <1>3 DEF Taking

\* `product' keeps the product with its sign and fetches the lower half.
LEMMA ProductMeaning ==
    ASSUME NEW m, Ready(m), NEW st, Written(st), st.form = "product"
    PROVE  Assigned(Meaning(st, m), m, st.d,
                    [l \in Lanes |-> Wrapped(m.val[st.a][l] * m.val[st.b][l])])
  <1> DEFINE x(l) == m.val[st.a][l] * m.val[st.b][l]
             p == [l \in Lanes |-> IF l \in Taking(m) THEN x(l) ELSE m.product[l]]
             e == [m EXCEPT !.product = p]
             v == [l \in Lanes |-> Wrapped(e.product[l])]
  <1>1. Meaning(st, m) = SetTo(e, st.d, v)
    <2>1. Meaning(st, m) = SetReg(e, st.d, LAMBDA l : Wrapped(e.product[l]))
      BY DEF Meaning
    <2> HIDE DEF e
    <2>2. SetReg(e, st.d, LAMBDA l : Wrapped(e.product[l])) = SetTo(e, st.d, v)
      BY DEF SetReg, SetTo
    <2> QED BY ONLY <2>1, <2>2
  <1>2. /\ Ready(e) /\ e.product = p /\ e.val = m.val
        /\ e.selected = m.selected /\ e.gated = m.gated /\ e.sums = m.sums
    <2>1. PICK q : q = p
      OBVIOUS
    <2>2. PICK k : k = e
      OBVIOUS
    <2> HIDE DEF p
    <2>3. k = [m EXCEPT !.product = q]
      BY ONLY <2>1, <2>2 DEF e
    <2> HIDE DEF e
    <2>4. /\ Ready(k) /\ k.product = q /\ k.val = m.val
          /\ k.selected = m.selected /\ k.gated = m.gated /\ k.sums = m.sums
      BY <2>3, ProductKept
    <2> QED BY ONLY <2>1, <2>2, <2>4
  <1> HIDE DEF e
  <1>3. Taking(e) = Taking(m)
    BY <1>2 DEF Taking
  <1>4. \A l \in Taking(m) : l \in Lanes => v[l] = Wrapped(x(l))
    BY <1>2
  <1>5. st.d \in Registers
    BY DEF Written
  <1> HIDE DEF v
  <1>6. Assigned(SetTo(e, st.d, v), e, st.d, v)
    BY <1>2, <1>5, SetToAssigns
  <1>7. Assigned(SetTo(e, st.d, v), m, st.d, [l \in Lanes |-> Wrapped(x(l))])
    <2> HIDE DEF x, p
    <2> QED BY <1>2, <1>3, <1>4, <1>6 DEF Assigned
  <1> QED BY <1>1, <1>7

\* k is m with s for the lanes that are selected.
Selects(k, m, s) ==
    /\ Ready(k) /\ k.selected = s
    /\ k.val = m.val /\ k.gated = m.gated /\ k.sums = m.sums /\ k.last = m.last

\* EXECUTE_IN_ALL, and EXECUTE_WHERE where each lane has a flag to ask for.
LEMMA SelectionMeaning ==
    ASSUME NEW m, Ready(m), NEW st
    PROVE  /\ st.form = "in_all" => Selects(Meaning(st, m), m, Lanes)
           /\ st.form = "where" /\ (\A l \in Lanes \ m.gated : Decides(m.last[l].op, st.op)) =>
                 Selects(Meaning(st, m), m, {l \in Lanes : Decides(m.last[l].op, st.op)
                                                           /\ Holds(st.op, m.last[l])})
  <1>1. Shaped(m) /\ m.defined = TRUE
    BY DEF Ready
  <1>2. ASSUME NEW s
        PROVE  Selects([m EXCEPT !.selected = s], m, s)
    <2>1. [m EXCEPT !.selected = s].selected = s /\ Alike([m EXCEPT !.selected = s], m, "selected")
      <3>1. [m EXCEPT !.selected = s].selected = s
        BY ONLY <1>1, ChangedField
      <3>2. Alike([m EXCEPT !.selected = s], m, "selected")
        BY ONLY <1>1, ChangedField
      <3> QED BY ONLY <3>1, <3>2
    <2>2. PICK k : k = [m EXCEPT !.selected = s]
      OBVIOUS
    <2>3. k.selected = s /\ Alike(k, m, "selected")
      BY ONLY <2>1, <2>2
    <2>4. Selects(k, m, s)
      BY <2>3 DEF Alike, Ready, Selects
    <2> QED BY ONLY <2>2, <2>4
  <1>3. CASE st.form = "in_all"
    <2>1. Meaning(st, m) = [m EXCEPT !.selected = Lanes]
      BY <1>3 DEF Meaning
    <2> QED BY <1>2, <1>3, <2>1
  <1>4. CASE st.form = "where" /\ \A l \in Lanes \ m.gated : Decides(m.last[l].op, st.op)
    <2> DEFINE s == {l \in Lanes : Decides(m.last[l].op, st.op) /\ Holds(st.op, m.last[l])}
               n == [m EXCEPT !.selected = s]
               c == \A l \in Lanes \ m.gated : Decides(m.last[l].op, st.op)
    <2>1. Meaning(st, m) = Undefined(n, c)
      BY <1>4 DEF Meaning
    <2>2. c = TRUE
      BY <1>4
    <2> HIDE DEF s, c
    <2>3. Selects(n, m, s)
      BY <1>2
    <2> HIDE DEF n
    <2>4. Shaped(n) /\ n.defined = TRUE
      BY <2>3 DEF Selects, Ready
    <2>5. Undefined(n, c) = [n EXCEPT !.defined = n.defined]
      BY <2>2, <2>4 DEF Undefined
    <2>6. Undefined(n, c) = n
      BY <2>4, <2>5, Regrouped DEF Shaped
    <2> QED BY <1>4, <2>1, <2>3, <2>6 DEF s
  <1> QED BY <1>3, <1>4

\* EXECUTE_IN_ALL alone.
LEMMA InAllMeaning ==
    ASSUME NEW m, Ready(m), NEW st, st.form = "in_all", NEW k, k = Meaning(st, m)
    PROVE  Selects(k, m, Lanes)
  BY SelectionMeaning

\* A constant for a register.
LEMMA ConstMeaning ==
    ASSUME NEW m, Ready(m), NEW st, Written(st), st.form = "const",
           NEW d, d = st.d, NEW v, v = [l \in Lanes |-> Wrapped(st.b)], NEW k, k = Meaning(st, m)
    PROVE  Assigned(k, m, d, v)
  BY RegisterMeaning

\* REDUCE and REDUCE_U add a sum to those sent.
LEMMA SumKept ==
    ASSUME NEW m, Ready(m), NEW s, NEW k, k = [m EXCEPT !.sums = s]
    PROVE  /\ Ready(k) /\ k.val = m.val /\ k.selected = m.selected /\ k.gated = m.gated
           /\ k.sums = s /\ Taking(k) = Taking(m)
  <1>1. Shaped(m) /\ m.defined = TRUE
    BY DEF Ready
  <1>2. k.sums = s /\ Alike(k, m, "sums")
    BY <1>1, ChangedField
  <1> QED BY <1>1, <1>2 DEF Alike, Ready, Taking

\* REDUCE, with every lane: the sum of a register's numbers.
LEMMA ReduceMeaning ==
    ASSUME NEW m, Ready(m), Taking(m) = Lanes, NEW st, st.form = "reduce",
           NEW a, a = st.a, NEW k, k = Meaning(st, m)
    PROVE  /\ Ready(k) /\ k.val = m.val /\ Taking(k) = Lanes
           /\ k.sums = Append(m.sums, SumOver(m.val[a], Lanes))
  <1> DEFINE s == Append(m.sums, SumOf(LAMBDA l : m.val[a][l], Lanes))
  <1>1. k = [m EXCEPT !.sums = s]
    BY DEF Meaning
  <1> HIDE DEF s
  <1>2. Ready(k) /\ k.val = m.val /\ Taking(k) = Lanes /\ k.sums = s
    BY <1>1, SumKept
  <1>3. s = Append(m.sums, SumOver(m.val[a], Lanes))
    BY DEF s, SumOf, SumOver
  <1> QED BY <1>2, <1>3

\* REDUCE_U, with every lane: the same without their signs.
LEMMA ReduceUnsignedMeaning ==
    ASSUME NEW m, Ready(m), Taking(m) = Lanes, NEW st, st.form = "reduce_u",
           NEW a, a = st.a, NEW k, k = Meaning(st, m)
    PROVE  /\ Ready(k) /\ k.val = m.val /\ Taking(k) = Lanes
           /\ k.sums = Append(m.sums,
                             SumOver([l \in Lanes |-> Unsigned(m.val[a][l])], Lanes))
  <1> DEFINE x == m.val[a]
             s == Append(m.sums, SumOf(LAMBDA l : Unsigned(x[l]), Lanes))
  <1>1. k = [m EXCEPT !.sums = s]
    BY DEF Meaning
  <1> HIDE DEF x
  <1>2. s = Append(m.sums, SumOver([l \in Lanes |-> Unsigned(x[l])], Lanes))
    <2>1. Lanes \in SUBSET Lanes
      OBVIOUS
    <2>2. SumOf(LAMBDA l : Unsigned(x[l]), Lanes)
              = SumOver([l \in Lanes |-> Unsigned(x[l])], Lanes)
      BY <2>1, SumOfUnsigned
    <2> QED BY <2>2
  <1> HIDE DEF s
  <1>3. Ready(k) /\ k.val = m.val /\ Taking(k) = Lanes /\ k.sums = s
    BY <1>1, SumKept
  <1> QED BY <1>2, <1>3 DEF x

\* What a kernel begins with.
LEMMA OutsetReady ==
    ASSUME NEW registers \in [Registers -> Vectors], NEW store, NEW selection
    PROVE  LET m == Outset(registers, store, selection) IN
           /\ Ready(m) /\ m.gated = {} /\ m.sums = << >>
           /\ \A r \in Registers, l \in Lanes :
                 registers[r][l] \in Cells /\ m.val[r][l] = Signed(registers[r][l])
  BY DEF Outset, Ready, Shaped, Grouped, Vectors

\* The meanings of a kernel's statements, one after the other.
Steps(after, program, k) ==
    /\ WrittenAll(program)
    /\ k.registers \in [Registers -> Vectors]
    /\ after[0] = Outset(k.registers, k.store, k.selection)
    /\ \A n \in 1..Len(program) : after[n] = Meaning(program[n], after[n - 1])

\* The first statement selects all lanes, whichever were selected before.
LEMMA AllSelected ==
    ASSUME NEW after, NEW program, NEW k, Steps(after, program, k),
           1 \in 1..Len(program), program[1] = InAll
    PROVE  /\ Ready(after[1]) /\ Taking(after[1]) = Lanes
           /\ after[1].selected = Lanes /\ after[1].gated = {} /\ after[1].sums = << >>
           /\ \A r \in Registers, l \in Lanes :
                 k.registers[r][l] \in Cells /\ after[1].val[r][l] = Wrapped(k.registers[r][l])
  <1>1. /\ Ready(after[0]) /\ after[0].gated = {} /\ after[0].sums = << >>
        /\ \A r \in Registers, l \in Lanes :
              k.registers[r][l] \in Cells /\ after[0].val[r][l] = Signed(k.registers[r][l])
    BY OutsetReady DEF Steps
  <1>2. after[1] = Meaning(InAll, after[0])
    BY DEF Steps
  <1>3. Selects(after[1], after[0], Lanes)
    <2>1. InAll.form = "in_all"
      BY DEF InAll, Plain, Statement
    <2> QED BY <1>1, <1>2, <2>1, SelectionMeaning
  <1>4. \A r \in Registers, l \in Lanes :
            k.registers[r][l] \in Cells /\ after[1].val[r][l] = Wrapped(k.registers[r][l])
    BY <1>1, <1>3, WrappedCell DEF Selects
  <1> QED BY <1>1, <1>3, <1>4 DEF Selects, Taking

\* What two operators leave, the second with the carry of the first.
LEMMA TwoOperators ==
    ASSUME NEW after, NEW k, NEW op \in {"plus", "minus"}, NEW then \in {"addc", "subc"},
           Steps(after, <<InAll, Bin(op, 4, 0, 1), Bin(then, 5, 2, 3)>>, k)
    PROVE  /\ Ready(after[3]) /\ {0, 1, 2, 3, 4, 5} \subseteq Registers
           /\ \A l \in Lanes :
                 LET x(r) == Wrapped(k.registers[r][l]) IN
                 /\ \E c : after[3].val[4][l] = Value(op, x(0), x(1), c)
                 /\ after[3].val[5][l] = Value(then, x(2), x(3),
                                               CarryAfter(Compared(op, x(0), x(1))))
  <1> DEFINE program == <<InAll, Bin(op, 4, 0, 1), Bin(then, 5, 2, 3)>>
  <1>1. /\ Len(program) = 3 /\ program[1] = InAll
        /\ program[2] = Bin(op, 4, 0, 1) /\ program[3] = Bin(then, 5, 2, 3)
    OBVIOUS
  <1> HIDE DEF program
  <1>2. Steps(after, program, k)
    BY DEF program
  <1>3. PICK s : s = Bin(op, 4, 0, 1)
    OBVIOUS
  <1>4. PICK t : t = Bin(then, 5, 2, 3)
    OBVIOUS
  <1>5. /\ s.form = "binary" /\ s.op = op /\ s.d = 4 /\ s.a = 0 /\ s.b = 1
        /\ t.form = "binary" /\ t.op = then /\ t.d = 5 /\ t.a = 2 /\ t.b = 3
    BY <1>3, <1>4 DEF Bin, Statement
  <1>6. /\ Written(s) /\ Written(t)
        /\ after[2] = Meaning(s, after[1]) /\ after[3] = Meaning(t, after[2])
    <2>1. 2 \in 1..3 /\ 3 \in 1..3 /\ 2 - 1 = 1 /\ 3 - 1 = 2
      OBVIOUS
    <2> QED BY <1>1, <1>2, <1>3, <1>4, <2>1 DEF Steps, WrittenAll
  <1>7. {0, 1, 2, 3, 4, 5} \subseteq Registers
    BY <1>5, <1>6 DEF Written
  <1>8. /\ Ready(after[1]) /\ Taking(after[1]) = Lanes
        /\ \A r \in Registers, l \in Lanes : after[1].val[r][l] = Wrapped(k.registers[r][l])
    <2>1. 1 \in 1..3
      OBVIOUS
    <2> QED BY <1>1, <1>2, <2>1, AllSelected
  <1>9. ~IsUnflagged(op) /\ ~IsUnflagged(then) /\ op \notin {"addc", "subc"}
    BY DEF IsUnflagged, IsShift
  <1>10. /\ Assigned(after[2], after[1], 4, [l \in Lanes |->
                Value(op, after[1].val[0][l], after[1].val[1][l], CarryAfter(after[1].last[l]))])
         /\ \A l \in Lanes :
               after[2].last[l] = Compared(op, after[1].val[0][l], after[1].val[1][l])
    <2>1. FirstOf(s) = 0
      BY <1>5 DEF FirstOf
    <2> QED BY <1>5, <1>6, <1>8, <1>9, <2>1, OperatorMeaning
  <1>11. /\ Ready(after[2]) /\ Taking(after[2]) = Lanes
         /\ \A l \in Lanes : after[2].last[l].op \in {"plus", "minus"}
    <2>1. \A x, y : Compared(op, x, y).op \in {"plus", "minus"}
      BY DEF Compared
    <2>2. Ready(after[2]) /\ Taking(after[2]) = Lanes
      BY <1>8, <1>10 DEF Assigned, Taking
    <2> QED BY <1>10, <2>1, <2>2
  <1>12. Assigned(after[3], after[2], 5, [l \in Lanes |->
                Value(then, after[2].val[2][l], after[2].val[3][l], CarryAfter(after[2].last[l]))])
    <2>1. FirstOf(t) = 2
      BY <1>5 DEF FirstOf
    <2> QED BY <1>5, <1>6, <1>9, <1>11, <2>1, OperatorMeaning
  <1>13. /\ after[2].val[2] = after[1].val[2] /\ after[2].val[3] = after[1].val[3]
         /\ after[3].val[4] = after[2].val[4] /\ Ready(after[3])
    <2>1. {2, 3} \subseteq Registers \ {4} /\ 4 \in Registers \ {5}
      BY <1>7
    <2> QED BY <1>10, <1>12, <2>1 DEF Assigned
  <1>14. ASSUME NEW l \in Lanes
         PROVE  LET x(r) == Wrapped(k.registers[r][l]) IN
                /\ \E c : after[3].val[4][l] = Value(op, x(0), x(1), c)
                /\ after[3].val[5][l] = Value(then, x(2), x(3),
                                              CarryAfter(Compared(op, x(0), x(1))))
    <2>1. \A r \in {0, 1, 2, 3} : after[1].val[r][l] = Wrapped(k.registers[r][l])
      BY <1>7, <1>8
    <2>2. after[3].val[4][l] = Value(op, after[1].val[0][l], after[1].val[1][l],
                                     CarryAfter(after[1].last[l]))
      BY <1>8, <1>10, <1>13 DEF Assigned
    <2>3. after[3].val[5][l] = Value(then, after[1].val[2][l], after[1].val[3][l],
                    CarryAfter(Compared(op, after[1].val[0][l], after[1].val[1][l])))
      BY <1>10, <1>11, <1>12, <1>13 DEF Assigned
    <2> QED BY <2>1, <2>2, <2>3
  <1> QED BY <1>7, <1>13, <1>14

\* The halves that the kernels of sums and differences leave.
LEMMA WideSumMeaning ==
    ASSUME NEW after, NEW k,
           \/ Steps(after, WideAdd, k)
           \/ Steps(after, WideSub, k)
    PROVE  /\ {0, 1, 2, 3, 4, 5} \subseteq Registers
           /\ \A l \in Lanes :
                 LET a(r) == k.registers[r][l]  m == after[3].val IN
                 /\ \A r \in 0..3 : a(r) \in Cells
                 /\ Steps(after, WideAdd, k) =>
                       /\ m[4][l] = Wrapped(a(0) + a(1))
                       /\ m[5][l] = Wrapped(a(2) + a(3) + Carry(a(0), a(1)))
                 /\ Steps(after, WideSub, k) =>
                       /\ m[4][l] = Wrapped(a(0) - a(1))
                       /\ m[5][l] = Wrapped(a(2) - a(3) - Borrow(a(0), a(1)))
  <1>1. {0, 1, 2, 3, 4, 5} \subseteq Registers
    BY TwoOperators DEF WideAdd, WideSub
  <1>2. k.registers \in [Registers -> Vectors]
    BY DEF Steps
  <1>3. ASSUME NEW l \in Lanes, NEW a, a = [r \in 0..3 |-> k.registers[r][l]]
        PROVE  /\ \A r \in 0..3 : a[r] \in Cells
               /\ Steps(after, WideAdd, k) =>
                       /\ after[3].val[4][l] = Wrapped(a[0] + a[1])
                       /\ after[3].val[5][l] = Wrapped(a[2] + a[3] + Carry(a[0], a[1]))
               /\ Steps(after, WideSub, k) =>
                       /\ after[3].val[4][l] = Wrapped(a[0] - a[1])
                       /\ after[3].val[5][l] = Wrapped(a[2] - a[3] - Borrow(a[0], a[1]))
    <2>1. a[0] \in Cells /\ a[1] \in Cells /\ a[2] \in Cells /\ a[3] \in Cells
      BY <1>1, <1>2, <1>3 DEF Vectors
    <2>2. \A r \in 0..3 : a[r] \in Cells /\ k.registers[r][l] = a[r]
      BY <1>3, <2>1
    <2>3. a[0] \in Int /\ a[1] \in Int /\ a[2] \in Int /\ a[3] \in Int
      BY <2>1, ValuesEven DEF Cells
    <2>4. Carry(a[0], a[1]) \in {0, 1} /\ Borrow(a[0], a[1]) \in {0, 1}
      BY DEF Carry, Borrow
    <2>5. /\ CarryAfter(Compared("plus", Wrapped(a[0]), Wrapped(a[1]))) = Carry(a[0], a[1])
          /\ CarryAfter(Compared("minus", Wrapped(a[0]), Wrapped(a[1]))) = Borrow(a[0], a[1])
      BY <2>1, CarryOfCells, WrappedCell
    <2>6. ASSUME Steps(after, WideAdd, k)
          PROVE  /\ after[3].val[4][l] = Wrapped(a[0] + a[1])
                 /\ after[3].val[5][l] = Wrapped(a[2] + a[3] + Carry(a[0], a[1]))
      <3>1. PICK c : after[3].val[4][l] = Value("plus", Wrapped(a[0]), Wrapped(a[1]), c)
        BY <2>2, <2>6, TwoOperators DEF WideAdd
      <3>2. after[3].val[5][l] = Value("addc", Wrapped(a[2]), Wrapped(a[3]), Carry(a[0], a[1]))
        <4>1. after[3].val[5][l] = Value("addc", Wrapped(a[2]), Wrapped(a[3]),
                    CarryAfter(Compared("plus", Wrapped(a[0]), Wrapped(a[1]))))
          BY <2>2, <2>6, TwoOperators DEF WideAdd
        <4> QED BY ONLY <2>5, <4>1
      <3>3. Value("plus", Wrapped(a[0]), Wrapped(a[1]), c) = Wrapped(a[0] + a[1])
        <4>1. 0 \in {0, 1}
          OBVIOUS
        <4> QED BY <2>3, <4>1, ValueOfWrapped
      <3>4. Value("addc", Wrapped(a[2]), Wrapped(a[3]), Carry(a[0], a[1]))
                = Wrapped(a[2] + a[3] + Carry(a[0], a[1]))
        BY ONLY <2>3, <2>4, ValueOfWrapped
      <3> QED BY ONLY <3>1, <3>2, <3>3, <3>4
    <2>7. ASSUME Steps(after, WideSub, k)
          PROVE  /\ after[3].val[4][l] = Wrapped(a[0] - a[1])
                 /\ after[3].val[5][l] = Wrapped(a[2] - a[3] - Borrow(a[0], a[1]))
      <3>1. PICK c : after[3].val[4][l] = Value("minus", Wrapped(a[0]), Wrapped(a[1]), c)
        BY <2>2, <2>7, TwoOperators DEF WideSub
      <3>2. after[3].val[5][l] = Value("subc", Wrapped(a[2]), Wrapped(a[3]), Borrow(a[0], a[1]))
        <4>1. after[3].val[5][l] = Value("subc", Wrapped(a[2]), Wrapped(a[3]),
                    CarryAfter(Compared("minus", Wrapped(a[0]), Wrapped(a[1]))))
          BY <2>2, <2>7, TwoOperators DEF WideSub
        <4> QED BY ONLY <2>5, <4>1
      <3>3. Value("minus", Wrapped(a[0]), Wrapped(a[1]), c) = Wrapped(a[0] - a[1])
        <4>1. 0 \in {0, 1}
          OBVIOUS
        <4> QED BY <2>3, <4>1, ValueOfWrapped
      <3>4. Value("subc", Wrapped(a[2]), Wrapped(a[3]), Borrow(a[0], a[1]))
                = Wrapped(a[2] - a[3] - Borrow(a[0], a[1]))
        BY ONLY <2>3, <2>4, ValueOfWrapped
      <3> QED BY ONLY <3>1, <3>2, <3>3, <3>4
    <2> QED BY <2>2, <2>6, <2>7
  <1>4. ASSUME NEW l \in Lanes
        PROVE  LET a(r) == k.registers[r][l]  m == after[3].val IN
                 /\ \A r \in 0..3 : a(r) \in Cells
                 /\ Steps(after, WideAdd, k) =>
                       /\ m[4][l] = Wrapped(a(0) + a(1))
                       /\ m[5][l] = Wrapped(a(2) + a(3) + Carry(a(0), a(1)))
                 /\ Steps(after, WideSub, k) =>
                       /\ m[4][l] = Wrapped(a(0) - a(1))
                       /\ m[5][l] = Wrapped(a(2) - a(3) - Borrow(a(0), a(1)))
    <2>1. PICK a : a = [r \in 0..3 |-> k.registers[r][l]]
      OBVIOUS
    <2>2. \A r \in 0..3 : a[r] = k.registers[r][l]
      BY <2>1
    <2>3. /\ a[0] = k.registers[0][l] /\ a[1] = k.registers[1][l]
          /\ a[2] = k.registers[2][l] /\ a[3] = k.registers[3][l]
      BY <2>2
    <2> QED BY <1>3, <2>1, <2>2, <2>3
  <1> QED BY <1>1, <1>4

\* A statement of a kernel, and the meaning it leads to.
LEMMA StepOf ==
    ASSUME NEW after, NEW program, NEW k, Steps(after, program, k),
           NEW n \in 1..Len(program)
    PROVE  Written(program[n]) /\ after[n] = Meaning(program[n], after[n - 1])
  BY DEF Steps, WrittenAll

\* An assignment in all lanes.
LEMMA AssignedEverywhere ==
    ASSUME NEW k, NEW m, NEW d, NEW v, Assigned(k, m, d, v), Taking(m) = Lanes
    PROVE  /\ Ready(k) /\ Taking(k) = Lanes /\ k.gated = m.gated /\ k.sums = m.sums
           /\ \A r \in Registers \ {d} : k.val[r] = m.val[r]
           /\ \A l \in Lanes : k.val[d][l] = v[l]
  BY DEF Assigned, Taking

\* The halves that the kernel of a product leaves.
LEMMA WideProductMeaning ==
    ASSUME NEW after, NEW k, Steps(after, WideMultiply, k)
    PROVE  /\ {0, 1, 2, 3, 4, 5, 6} \subseteq Registers /\ Ready(after[8])
           /\ \A l \in Lanes :
                 LET a(r) == k.registers[r][l]  m == after[8].val IN
                 /\ a(0) \in Cells /\ a(1) \in Cells /\ a(2) \in Cells /\ a(3) \in Cells
                 /\ m[4][l] = Wrapped(a(0) * a(1))
                 /\ m[5][l] = Wrapped((a(0) * a(1)) \div Values + a(0) * a(3) + a(2) * a(1))
  <1> DEFINE s(n) == WideMultiply[n]
  <1>1. /\ Len(WideMultiply) = 8 /\ s(1) = InAll
        /\ s(2) = Plain("mult_u", 0, 0, 1) /\ s(3) = Plain("multlo", 4, 0, 0)
        /\ s(4) = Plain("multhi", 5, 0, 0) /\ s(5) = Plain("product", 6, 0, 3)
        /\ s(6) = Statement("update", "plus", 5, 0, 6) /\ s(7) = Plain("product", 6, 2, 1)
        /\ s(8) = Statement("update", "plus", 5, 0, 6)
    BY DEF WideMultiply
  <1> HIDE DEF s
  <1>2. /\ s(2).form = "mult_u" /\ s(2).a = 0 /\ s(2).b = 1
        /\ s(3).form = "multlo" /\ s(3).d = 4
        /\ s(4).form = "multhi" /\ s(4).d = 5
        /\ s(5).form = "product" /\ s(5).d = 6 /\ s(5).a = 0 /\ s(5).b = 3
        /\ s(7).form = "product" /\ s(7).d = 6 /\ s(7).a = 2 /\ s(7).b = 1
    <2>1. \A form, d, a, b :
              LET st == Plain(form, d, a, b) IN
              st.form = form /\ st.d = d /\ st.a = a /\ st.b = b
      BY DEF Plain, Statement
    <2> QED BY <1>1, <2>1
  <1>3. \A n \in {6, 8} : /\ s(n).form = "update" /\ s(n).op = "plus" /\ s(n).d = 5
                          /\ s(n).b = 6 /\ FirstOf(s(n)) = 5
    BY <1>1 DEF Statement, FirstOf
  <1>4. \A n \in 1..8 : Written(s(n)) /\ after[n] = Meaning(s(n), after[n - 1])
    BY <1>1, StepOf DEF s
  <1>5. /\ Written(s(2)) /\ after[2] = Meaning(s(2), after[1])
        /\ Written(s(3)) /\ after[3] = Meaning(s(3), after[2])
        /\ Written(s(4)) /\ after[4] = Meaning(s(4), after[3])
        /\ Written(s(5)) /\ after[5] = Meaning(s(5), after[4])
        /\ Written(s(6)) /\ after[6] = Meaning(s(6), after[5])
        /\ Written(s(7)) /\ after[7] = Meaning(s(7), after[6])
        /\ Written(s(8)) /\ after[8] = Meaning(s(8), after[7])
    <2>1. /\ 2 - 1 = 1 /\ 3 - 1 = 2 /\ 4 - 1 = 3 /\ 5 - 1 = 4 /\ 6 - 1 = 5 /\ 7 - 1 = 6
          /\ 8 - 1 = 7
      OBVIOUS
    <2>2. \A n \in 2..8 : n \in 1..8
      OBVIOUS
    <2> QED BY <1>4, <2>1
  <1>6. {0, 1, 2, 3, 4, 5, 6} \subseteq Registers
    <2>1. /\ {s(2).a, s(2).b, s(7).a, s(5).b, s(3).d, s(4).d, s(5).d} \subseteq Registers
      BY <1>2, <1>5 DEF Written
    <2> QED BY <1>2, <2>1
  <1>7. /\ Ready(after[1]) /\ Taking(after[1]) = Lanes
        /\ \A r \in Registers, l \in Lanes :
              k.registers[r][l] \in Cells /\ after[1].val[r][l] = Wrapped(k.registers[r][l])
    <2>1. 1 \in 1..8
      OBVIOUS
    <2> QED BY <1>1, <2>1, AllSelected DEF s
  <1>8. /\ Ready(after[2]) /\ Taking(after[2]) = Lanes /\ after[2].val = after[1].val
        /\ \A l \in Lanes : after[2].product[l] = Times(Unsigned(after[1].val[0][l]),
                                                        Unsigned(after[1].val[1][l]))
    BY <1>2, <1>5, <1>7, UnsignedProductMeaning
  <1>9. /\ Assigned(after[3], after[2], 4, [l \in Lanes |-> Wrapped(after[2].product[l])])
        /\ after[3].product = after[2].product
    <2>1. "multlo" \in {"copy", "const", "multlo", "multhi"}
      OBVIOUS
    <2>2. Assigned(after[3], after[2], s(3).d, [l \in Lanes |-> Wrapped(after[2].product[l])])
      BY <1>2, <1>5, <1>8, RegisterMeaning
    <2>3. after[3].product = after[2].product
      BY <1>2, <1>5, <1>8, <2>1, RegisterMeaningKeeps
    <2> QED BY <1>2, <2>2, <2>3
  <1>10. /\ Ready(after[3]) /\ Taking(after[3]) = Lanes
         /\ \A r \in Registers \ {4} : after[3].val[r] = after[2].val[r]
         /\ \A l \in Lanes : after[3].val[4][l] = Wrapped(after[2].product[l])
    BY <1>8, <1>9, AssignedEverywhere
  <1>11. Assigned(after[4], after[3], 5, [l \in Lanes |-> Wrapped(after[3].product[l] \div Values)])
    <2>1. Assigned(after[4], after[3], s(4).d,
                   [l \in Lanes |-> Wrapped(after[3].product[l] \div Values)])
      BY <1>2, <1>5, <1>10, RegisterMeaning
    <2> QED BY <1>2, <2>1
  <1>12. /\ Ready(after[4]) /\ Taking(after[4]) = Lanes
         /\ \A r \in Registers \ {5} : after[4].val[r] = after[3].val[r]
         /\ \A l \in Lanes : after[4].val[5][l] = Wrapped(after[2].product[l] \div Values)
    BY <1>9, <1>10, <1>11, AssignedEverywhere
  <1>13. Assigned(after[5], after[4], 6,
                  [l \in Lanes |-> Wrapped(after[4].val[0][l] * after[4].val[3][l])])
    BY <1>2, <1>5, <1>12, ProductMeaning
  <1>14. /\ Ready(after[5]) /\ Taking(after[5]) = Lanes
         /\ \A r \in Registers \ {6} : after[5].val[r] = after[4].val[r]
         /\ \A l \in Lanes : after[5].val[6][l] = Wrapped(after[4].val[0][l] * after[4].val[3][l])
    BY <1>12, <1>13, AssignedEverywhere
  <1>15. ~IsUnflagged("plus") /\ "plus" \notin {"addc", "subc"}
    BY DEF IsUnflagged, IsShift
  <1>16. /\ 6 \in {6, 8} /\ 8 \in {6, 8}
    OBVIOUS
  <1>17. Assigned(after[6], after[5], 5, [l \in Lanes |->
             Value("plus", after[5].val[5][l], after[5].val[6][l], CarryAfter(after[5].last[l]))])
    BY <1>3, <1>5, <1>14, <1>15, <1>16, OperatorMeaning
  <1>18. /\ Ready(after[6]) /\ Taking(after[6]) = Lanes
         /\ \A r \in Registers \ {5} : after[6].val[r] = after[5].val[r]
         /\ \A l \in Lanes :
               after[6].val[5][l] = Value("plus", after[5].val[5][l], after[5].val[6][l],
                                          CarryAfter(after[5].last[l]))
    BY <1>14, <1>17, AssignedEverywhere
  <1>19. Assigned(after[7], after[6], 6,
                  [l \in Lanes |-> Wrapped(after[6].val[2][l] * after[6].val[1][l])])
    BY <1>2, <1>5, <1>18, ProductMeaning
  <1>20. /\ Ready(after[7]) /\ Taking(after[7]) = Lanes
         /\ \A r \in Registers \ {6} : after[7].val[r] = after[6].val[r]
         /\ \A l \in Lanes : after[7].val[6][l] = Wrapped(after[6].val[2][l] * after[6].val[1][l])
    BY <1>18, <1>19, AssignedEverywhere
  <1>21. Assigned(after[8], after[7], 5, [l \in Lanes |->
             Value("plus", after[7].val[5][l], after[7].val[6][l], CarryAfter(after[7].last[l]))])
    BY <1>3, <1>5, <1>15, <1>16, <1>20, OperatorMeaning
  <1>22. /\ Ready(after[8])
         /\ \A r \in Registers \ {5} : after[8].val[r] = after[7].val[r]
         /\ \A l \in Lanes :
               after[8].val[5][l] = Value("plus", after[7].val[5][l], after[7].val[6][l],
                                          CarryAfter(after[7].last[l]))
    BY <1>20, <1>21, AssignedEverywhere
  <1>23. /\ \A r \in {0, 1, 2, 3} : /\ after[4].val[r] = after[1].val[r]
                                    /\ after[6].val[r] = after[1].val[r]
         /\ after[8].val[4] = after[3].val[4]
         /\ after[5].val[5] = after[4].val[5] /\ after[7].val[5] = after[6].val[5]
    <2>1. \A r \in {0, 1, 2, 3} :
              r \in Registers \ {4} /\ r \in Registers \ {5} /\ r \in Registers \ {6}
      BY <1>6
    <2>2. 4 \in Registers \ {5} /\ 4 \in Registers \ {6} /\ 5 \in Registers \ {6}
      BY <1>6
    <2> QED BY <1>8, <1>10, <1>12, <1>14, <1>18, <1>20, <1>22, <2>1, <2>2
  <1>24. ASSUME NEW l \in Lanes,
                NEW a0, a0 = k.registers[0][l], NEW a1, a1 = k.registers[1][l],
                NEW a2, a2 = k.registers[2][l], NEW a3, a3 = k.registers[3][l]
         PROVE  /\ a0 \in Cells /\ a1 \in Cells /\ a2 \in Cells /\ a3 \in Cells
                /\ after[8].val[4][l] = Wrapped(a0 * a1)
                /\ after[8].val[5][l] = Wrapped((a0 * a1) \div Values + a0 * a3 + a2 * a1)
    <2>1. /\ a0 \in Cells /\ a1 \in Cells /\ a2 \in Cells /\ a3 \in Cells
          /\ after[1].val[0][l] = Wrapped(a0) /\ after[1].val[1][l] = Wrapped(a1)
          /\ after[1].val[2][l] = Wrapped(a2) /\ after[1].val[3][l] = Wrapped(a3)
      BY <1>6, <1>7, <1>24
    <2>2. PICK p : p = a0 * a1
      OBVIOUS
    <2>3. after[2].product[l] = p
      <3>1. Unsigned(Wrapped(a0)) = a0 /\ Unsigned(Wrapped(a1)) = a1
        BY <2>1, UnsignedOfSigned, WrappedCell
      <3>2. after[2].product[l] = Times(Unsigned(Wrapped(a0)), Unsigned(Wrapped(a1)))
        BY <1>8, <2>1
      <3>3. Times(a0, a1) = p
        BY <2>2 DEF Times
      <3> QED BY <3>1, <3>2, <3>3
    <2>4. /\ a0 \in Int /\ a1 \in Int /\ a2 \in Int /\ a3 \in Int /\ Values \in Nat \ {0}
      BY <2>1, ValuesEven DEF Cells
    <2>5. p \in Int
      BY ONLY <2>2, <2>4
    <2>6. PICK d : d = p \div Values
      OBVIOUS
    <2>7. d \in Int
      BY <2>4, <2>5, <2>6, Division
    <2>8. PICK q : q = a0 * a3
      OBVIOUS
    <2>9. PICK r : r = a2 * a1
      OBVIOUS
    <2>10. q \in Int /\ r \in Int
      BY ONLY <2>4, <2>8, <2>9
    <2>11. after[8].val[4][l] = Wrapped(p)
      BY <1>10, <1>23, <2>3
    <2>12. after[5].val[5][l] = Wrapped(d)
      BY <1>12, <1>23, <2>3, <2>6
    <2>13. /\ after[4].val[0][l] = Wrapped(a0) /\ after[4].val[3][l] = Wrapped(a3)
           /\ after[6].val[2][l] = Wrapped(a2) /\ after[6].val[1][l] = Wrapped(a1)
      BY <1>23, <2>1
    <2>14. 0 \in {0, 1}
      OBVIOUS
    <2>15. Wrapped(Wrapped(a0) * Wrapped(a3)) = Wrapped(q)
      BY <2>4, <2>8, <2>14, ValueOfWrapped
    <2>16. Wrapped(Wrapped(a2) * Wrapped(a1)) = Wrapped(r)
      BY <2>4, <2>9, <2>14, ValueOfWrapped
    <2>17. after[5].val[6][l] = Wrapped(q) /\ after[7].val[6][l] = Wrapped(r)
      BY <1>14, <1>20, <2>13, <2>15, <2>16
    <2>18. \A c : Value("plus", Wrapped(d), Wrapped(q), c) = Wrapped(d + q)
      BY <2>7, <2>10, <2>14, ValueOfWrapped
    <2>19. after[6].val[5][l] = Wrapped(d + q)
      BY <1>18, <2>12, <2>17, <2>18
    <2>20. d + q \in Int
      BY ONLY <2>7, <2>10
    <2>21. \A c : Value("plus", Wrapped(d + q), Wrapped(r), c) = Wrapped(d + q + r)
      BY <2>10, <2>14, <2>20, ValueOfWrapped
    <2>22. after[8].val[5][l] = Wrapped(d + q + r)
      BY <1>22, <1>23, <2>17, <2>19, <2>21
    <2> QED BY <2>1, <2>2, <2>6, <2>8, <2>9, <2>11, <2>22
  <1> QED BY <1>6, <1>22, <1>24

\* An assignment that may leave lanes alone.
LEMMA AssignedPartly ==
    ASSUME NEW k, NEW m, NEW d, NEW v, Assigned(k, m, d, v)
    PROVE  /\ Ready(k) /\ Taking(k) = Taking(m) /\ k.gated = m.gated /\ k.sums = m.sums
           /\ \A r \in Registers \ {d} : k.val[r] = m.val[r]
           /\ \A l \in Lanes : k.val[d][l] = IF l \in Taking(m) THEN v[l] ELSE m.val[d][l]
  BY DEF Assigned, Taking

\* The halves that the kernel of absolute values leaves, and the sums it sends.
LEMMA WideAbsMeaning ==
    ASSUME NEW after, NEW k, Steps(after, WideAbs, k)
    PROVE  /\ {0, 2, 3, 4, 5, 6} \subseteq Registers /\ Ready(after[11])
           /\ \A l \in Lanes :
                 LET a0 == k.registers[0][l]  a2 == k.registers[2][l]  m == after[11].val IN
                 /\ a0 \in Cells /\ a2 \in Cells
                 /\ IF Signed(a2) < 0
                    THEN /\ m[4][l] = Wrapped(0 - a0)
                         /\ m[5][l] = Wrapped(0 - a2 - Borrow(0, a0))
                    ELSE m[4][l] = Wrapped(a0) /\ m[5][l] = Wrapped(a2)
           /\ after[11].sums[1]
                  = SumOver([l \in Lanes |-> Unsigned(after[11].val[4][l])], Lanes)
           /\ after[11].sums[2] = SumOver(after[11].val[5], Lanes)
  <1> DEFINE s(n) == WideAbs[n]
  <1>1. /\ Len(WideAbs) = 11 /\ s(1) = InAll
        /\ s(2) = Plain("copy", 4, 0, 0) /\ s(3) = Plain("copy", 5, 2, 0)
        /\ s(4) = Const(6, 0) /\ s(5) = Bin("lt", 3, 2, 6) /\ s(6) = Only("WHERE_LT")
        /\ s(7) = Bin("minus", 4, 6, 0) /\ s(8) = Bin("subc", 5, 6, 2)
        /\ s(9) = InAll /\ s(10) = ReduceU(4) /\ s(11) = Reduce(5)
    BY DEF WideAbs
  <1> HIDE DEF s
  <1>2. \A form, op, d, a, b :
            /\ Statement(form, op, d, a, b).form = form /\ Statement(form, op, d, a, b).op = op
            /\ Statement(form, op, d, a, b).d = d /\ Statement(form, op, d, a, b).a = a
            /\ Statement(form, op, d, a, b).b = b
    BY DEF Statement
  <1>3. /\ s(2).form = "copy" /\ s(2).d = 4 /\ s(2).a = 0
        /\ s(3).form = "copy" /\ s(3).d = 5 /\ s(3).a = 2
        /\ s(4).form = "const" /\ s(4).d = 6 /\ s(4).b = 0
        /\ s(5).form = "binary" /\ s(5).op = "lt" /\ s(5).d = 3 /\ s(5).b = 6
        /\ s(5).a = 2
    <2> \A form, d, a, b :
            LET st == Plain(form, d, a, b) IN
            st.form = form /\ st.d = d /\ st.a = a /\ st.b = b
      BY DEF Plain, Statement
    <2>1. s(2).form = "copy" /\ s(2).d = 4 /\ s(2).a = 0
      BY <1>1
    <2>2. s(3).form = "copy" /\ s(3).d = 5 /\ s(3).a = 2
      BY <1>1
    <2>3. s(4).form = "const" /\ s(4).d = 6 /\ s(4).b = 0
      BY <1>1 DEF Const
    <2>4. s(5).form = "binary" /\ s(5).op = "lt" /\ s(5).d = 3 /\ s(5).b = 6 /\ s(5).a = 2
      BY <1>1, <1>2 DEF Bin
    <2> QED BY <2>1, <2>2, <2>3, <2>4
  <1>4. /\ s(6).form = "where" /\ s(6).op = "WHERE_LT"
        /\ s(7).form = "binary" /\ s(7).op = "minus" /\ s(7).d = 4 /\ s(7).b = 0 /\ s(7).a = 6
        /\ s(8).form = "binary" /\ s(8).op = "subc" /\ s(8).d = 5 /\ s(8).b = 2 /\ s(8).a = 6
        /\ s(9).form = "in_all"
        /\ s(10).form = "reduce_u" /\ s(10).a = 4
        /\ s(11).form = "reduce" /\ s(11).a = 5
    <2> \A form, d, a, b :
            LET st == Plain(form, d, a, b) IN
            st.form = form /\ st.d = d /\ st.a = a /\ st.b = b
      BY DEF Plain, Statement
    <2>1. s(6).form = "where" /\ s(6).op = "WHERE_LT"
      BY <1>1, <1>2 DEF Only
    <2>2. s(7).form = "binary" /\ s(7).op = "minus" /\ s(7).d = 4 /\ s(7).b = 0 /\ s(7).a = 6
      BY <1>1, <1>2 DEF Bin
    <2>3. s(8).form = "binary" /\ s(8).op = "subc" /\ s(8).d = 5 /\ s(8).b = 2 /\ s(8).a = 6
      BY <1>1, <1>2 DEF Bin
    <2>4. s(9).form = "in_all"
      BY <1>1 DEF InAll
    <2>5. s(10).form = "reduce_u" /\ s(10).a = 4
      BY <1>1 DEF ReduceU
    <2>6. s(11).form = "reduce" /\ s(11).a = 5
      BY <1>1 DEF Reduce
    <2> QED BY <2>1, <2>2, <2>3, <2>4, <2>5, <2>6
  <1>5. FirstOf(s(5)) = 2 /\ FirstOf(s(7)) = 6 /\ FirstOf(s(8)) = 6
    BY <1>3, <1>4 DEF FirstOf
  <1>6. \A n \in 1..11 : Written(s(n)) /\ after[n] = Meaning(s(n), after[n - 1])
    <2> TAKE n \in 1..11
    <2> n \in 1..Len(WideAbs)
      BY <1>1
    <2>1. Written(WideAbs[n]) /\ after[n] = Meaning(WideAbs[n], after[n - 1])
      BY StepOf
    <2> QED BY <2>1 DEF s
  <1>7. /\ Written(s(2)) /\ after[2] = Meaning(s(2), after[1])
        /\ Written(s(3)) /\ after[3] = Meaning(s(3), after[2])
        /\ Written(s(4)) /\ after[4] = Meaning(s(4), after[3])
        /\ Written(s(5)) /\ after[5] = Meaning(s(5), after[4])
        /\ after[6] = Meaning(s(6), after[5])
        /\ Written(s(7)) /\ after[7] = Meaning(s(7), after[6])
        /\ Written(s(8)) /\ after[8] = Meaning(s(8), after[7])
        /\ after[9] = Meaning(s(9), after[8]) /\ after[10] = Meaning(s(10), after[9])
        /\ after[11] = Meaning(s(11), after[10])
    <2>1. /\ 2 - 1 = 1 /\ 3 - 1 = 2 /\ 4 - 1 = 3 /\ 5 - 1 = 4 /\ 6 - 1 = 5 /\ 7 - 1 = 6
          /\ 8 - 1 = 7 /\ 9 - 1 = 8 /\ 10 - 1 = 9 /\ 11 - 1 = 10
      OBVIOUS
    <2> QED BY <1>6, <2>1
  <1>8. {0, 2, 3, 4, 5, 6} \subseteq Registers
    <2>1. {s(2).d, s(2).a, s(3).d, s(3).a, s(4).d, s(5).d} \subseteq Registers
      BY <1>7 DEF Written
    <2> QED BY <1>3, <2>1
  <1>9. /\ Ready(after[1]) /\ Taking(after[1]) = Lanes
        /\ after[1].gated = {} /\ after[1].sums = << >>
        /\ \A r \in Registers, l \in Lanes :
              k.registers[r][l] \in Cells /\ after[1].val[r][l] = Wrapped(k.registers[r][l])
    <2>1. 1 \in 1..11
      OBVIOUS
    <2> QED BY <1>1, <2>1, AllSelected DEF s
  <1>10. Assigned(after[2], after[1], 4, [l \in Lanes |-> after[1].val[0][l]])
    <2>1. Assigned(after[2], after[1], s(2).d, [l \in Lanes |-> after[1].val[s(2).a][l]])
      BY <1>3, <1>7, <1>9, RegisterMeaning
    <2> QED BY <1>3, <2>1
  <1>11. /\ Ready(after[2]) /\ Taking(after[2]) = Lanes
         /\ after[2].gated = {} /\ after[2].sums = << >>
         /\ \A r \in Registers \ {4} : after[2].val[r] = after[1].val[r]
         /\ \A l \in Lanes : after[2].val[4][l] = after[1].val[0][l]
    BY <1>9, <1>10, AssignedEverywhere
  <1>12. Assigned(after[3], after[2], 5, [l \in Lanes |-> after[2].val[2][l]])
    <2>1. Assigned(after[3], after[2], s(3).d, [l \in Lanes |-> after[2].val[s(3).a][l]])
      BY <1>3, <1>7, <1>11, RegisterMeaning
    <2> QED BY <1>3, <2>1
  <1>13. /\ Ready(after[3]) /\ Taking(after[3]) = Lanes
         /\ after[3].gated = {} /\ after[3].sums = << >>
         /\ \A r \in Registers \ {5} : after[3].val[r] = after[2].val[r]
         /\ \A l \in Lanes : after[3].val[5][l] = after[2].val[2][l]
    BY <1>11, <1>12, AssignedEverywhere
  <1>14. Assigned(after[4], after[3], 6, [l \in Lanes |-> Wrapped(0)])
    <2>1. PICK v : v = [l \in Lanes |-> Wrapped(s(4).b)]
      OBVIOUS
    <2>2. v = [l \in Lanes |-> Wrapped(0)]
      BY <1>3, <2>1
    <2>3. Assigned(after[4], after[3], 6, v)
      BY <1>3, <1>7, <1>13, <2>1, ConstMeaning
    <2> QED BY <2>2, <2>3
  <1>15. /\ Ready(after[4]) /\ Taking(after[4]) = Lanes
         /\ after[4].gated = {} /\ after[4].sums = << >>
         /\ \A r \in Registers \ {6} : after[4].val[r] = after[3].val[r]
         /\ \A l \in Lanes : after[4].val[6][l] = Wrapped(0)
    BY <1>13, <1>14, AssignedEverywhere
  <1>16. /\ ~IsUnflagged("lt") /\ ~IsUnflagged("minus") /\ ~IsUnflagged("subc")
         /\ "lt" \notin {"addc", "subc"} /\ "minus" \notin {"addc", "subc"}
    BY DEF IsUnflagged, IsShift
  <1>17. /\ Assigned(after[5], after[4], 3, [l \in Lanes |->
               Value("lt", after[4].val[2][l], after[4].val[6][l], CarryAfter(after[4].last[l]))])
         /\ \A l \in Lanes :
               after[5].last[l] = Compared("lt", after[4].val[2][l], after[4].val[6][l])
    BY <1>3, <1>5, <1>7, <1>15, <1>16, OperatorMeaning
  <1>18. /\ Ready(after[5]) /\ after[5].gated = {} /\ after[5].sums = << >>
         /\ \A r \in Registers \ {3} : after[5].val[r] = after[4].val[r]
    BY <1>15, <1>17, AssignedEverywhere
  <1>19. \A x, y : /\ Compared("lt", x, y).op = "lt" /\ Decides("lt", "WHERE_LT")
                   /\ (Holds("WHERE_LT", Compared("lt", x, y)) <=> x < y)
    BY DEF Compared, Decides, Holds
  <1>20. PICK below : below = {l \in Lanes : after[4].val[2][l] < Wrapped(0)}
    OBVIOUS
  <1>21. Selects(after[6], after[5], below)
    <2>1. \A l \in Lanes : /\ Decides(after[5].last[l].op, "WHERE_LT")
                           /\ Holds("WHERE_LT", after[5].last[l])
                                  <=> after[4].val[2][l] < Wrapped(0)
      BY <1>15, <1>17, <1>19
    <2>2. below = {l \in Lanes : Decides(after[5].last[l].op, "WHERE_LT")
                                 /\ Holds("WHERE_LT", after[5].last[l])}
      BY <1>20, <2>1
    <2> QED BY <1>4, <1>7, <1>18, <2>1, <2>2, SelectionMeaning
  <1>22. /\ Ready(after[6]) /\ Taking(after[6]) = below /\ after[6].val = after[5].val
         /\ after[6].gated = {} /\ after[6].sums = << >> /\ below \subseteq Lanes
    BY <1>18, <1>20, <1>21 DEF Selects, Taking
  <1>23. /\ Assigned(after[7], after[6], 4, [l \in Lanes |->
               Value("minus", after[6].val[6][l], after[6].val[0][l],
                     CarryAfter(after[6].last[l]))])
         /\ \A l \in below :
               after[7].last[l] = Compared("minus", after[6].val[6][l], after[6].val[0][l])
    BY <1>4, <1>5, <1>7, <1>16, <1>22, OperatorMeaning
  <1>24. /\ Ready(after[7]) /\ Taking(after[7]) = below
         /\ after[7].gated = {} /\ after[7].sums = << >>
         /\ \A r \in Registers \ {4} : after[7].val[r] = after[6].val[r]
         /\ \A l \in Lanes :
               after[7].val[4][l] = IF l \in below
                                    THEN Value("minus", after[6].val[6][l], after[6].val[0][l],
                                               CarryAfter(after[6].last[l]))
                                    ELSE after[6].val[4][l]
    BY <1>22, <1>23, AssignedPartly
  <1>25. Assigned(after[8], after[7], 5, [l \in Lanes |->
             Value("subc", after[7].val[6][l], after[7].val[2][l], CarryAfter(after[7].last[l]))])
    <2>1. \A x, y : Compared("minus", x, y).op = "minus"
      BY DEF Compared
    <2>2. \A l \in Taking(after[7]) : after[7].last[l].op \in {"plus", "minus"}
      BY <1>23, <1>24, <2>1
    <2> QED BY <1>4, <1>5, <1>7, <1>16, <1>24, <2>2, OperatorMeaning
  <1>26. /\ Ready(after[8]) /\ after[8].gated = {} /\ after[8].sums = << >>
         /\ \A r \in Registers \ {5} : after[8].val[r] = after[7].val[r]
         /\ \A l \in Lanes :
               after[8].val[5][l] = IF l \in below
                                    THEN Value("subc", after[7].val[6][l], after[7].val[2][l],
                                               CarryAfter(after[7].last[l]))
                                    ELSE after[7].val[5][l]
    BY <1>24, <1>25, AssignedPartly
  <1>27. /\ Ready(after[9]) /\ after[9].val = after[8].val /\ Taking(after[9]) = Lanes
         /\ after[9].selected = Lanes /\ after[9].gated = {} /\ after[9].sums = << >>
    <2>1. Selects(after[9], after[8], Lanes)
      BY <1>4, <1>7, <1>26, InAllMeaning
    <2> QED BY <1>26, <2>1 DEF Selects, Taking
  <1>28. /\ Ready(after[10]) /\ after[10].val = after[8].val /\ Taking(after[10]) = Lanes
         /\ after[10].sums = Append(<< >>, SumOver([l \in Lanes |->
                                               Unsigned(after[8].val[4][l])], Lanes))
    BY <1>4, <1>7, <1>27, ReduceUnsignedMeaning
  <1>29. /\ Ready(after[11]) /\ after[11].val = after[8].val
         /\ after[11].sums = Append(after[10].sums, SumOver(after[8].val[5], Lanes))
    <2>1. /\ Ready(after[11]) /\ after[11].val = after[10].val
          /\ after[11].sums = Append(after[10].sums, SumOver(after[10].val[s(11).a], Lanes))
      <3>1. /\ after[11] = Meaning(s(11), after[10]) /\ s(11).form = "reduce"
            /\ Ready(after[10]) /\ Taking(after[10]) = Lanes
        BY <1>4, <1>7, <1>28
      <3> QED BY ONLY <3>1, ReduceMeaning
    <2> QED BY <1>4, <1>28, <2>1
  <1>30. /\ after[4].val[2] = after[1].val[2] /\ after[6].val[0] = after[1].val[0]
         /\ after[6].val[6] = after[4].val[6] /\ after[7].val[6] = after[4].val[6]
         /\ after[7].val[2] = after[1].val[2] /\ after[6].val[4] = after[2].val[4]
         /\ after[7].val[5] = after[3].val[5] /\ after[2].val[2] = after[1].val[2]
         /\ after[8].val[4] = after[7].val[4]
    <2>1. \A r \in {0, 2} : /\ r \in Registers \ {3} /\ r \in Registers \ {4}
                            /\ r \in Registers \ {5} /\ r \in Registers \ {6}
      BY <1>8
    <2>2. /\ 6 \in Registers \ {3} /\ 6 \in Registers \ {4}
          /\ 4 \in Registers \ {3} /\ 4 \in Registers \ {5} /\ 4 \in Registers \ {6}
          /\ 5 \in Registers \ {3} /\ 5 \in Registers \ {4} /\ 5 \in Registers \ {6}
      BY <1>8
    <2>3. /\ \A r \in {0, 2} : /\ after[2].val[r] = after[1].val[r]
                               /\ after[3].val[r] = after[1].val[r]
                               /\ after[4].val[r] = after[1].val[r]
                               /\ after[6].val[r] = after[1].val[r]
                               /\ after[7].val[r] = after[1].val[r]
      BY <1>11, <1>13, <1>15, <1>18, <1>22, <1>24, <2>1
    <2>4. /\ after[6].val[6] = after[4].val[6] /\ after[7].val[6] = after[4].val[6]
          /\ after[6].val[4] = after[2].val[4] /\ after[7].val[5] = after[3].val[5]
          /\ after[8].val[4] = after[7].val[4]
      BY <1>13, <1>15, <1>18, <1>22, <1>24, <1>26, <2>2
    <2> QED BY <2>3, <2>4
  <1>31. ASSUME NEW l \in Lanes,
                NEW a0, a0 = k.registers[0][l], NEW a2, a2 = k.registers[2][l]
         PROVE  /\ a0 \in Cells /\ a2 \in Cells
                /\ IF Signed(a2) < 0
                   THEN /\ after[8].val[4][l] = Wrapped(0 - a0)
                        /\ after[8].val[5][l] = Wrapped(0 - a2 - Borrow(0, a0))
                   ELSE after[8].val[4][l] = Wrapped(a0) /\ after[8].val[5][l] = Wrapped(a2)
    <2>1. /\ a0 \in Cells /\ a2 \in Cells
          /\ after[1].val[0][l] = Wrapped(a0) /\ after[1].val[2][l] = Wrapped(a2)
      BY <1>8, <1>9, <1>31
    <2>2. a0 \in Int /\ a2 \in Int /\ 0 \in Cells /\ 0 \in Int
      BY <2>1, ValuesEven DEF Cells
    <2>3. Wrapped(0) = 0 /\ Wrapped(a2) = Signed(a2)
      <3>1. Signed(0) = 0
        BY ValuesEven DEF Signed
      <3> QED BY <2>1, <2>2, <3>1, WrappedCell
    <2>4. l \in below <=> Signed(a2) < 0
      BY <1>20, <1>30, <2>1, <2>3
    <2>5. CASE Signed(a2) < 0
      <3>1. after[8].val[4][l] = Value("minus", Wrapped(0), Wrapped(a0), CarryAfter(after[6].last[l]))
        BY <1>15, <1>24, <1>30, <2>1, <2>4, <2>5
      <3>2. after[7].last[l] = Compared("minus", Wrapped(0), Wrapped(a0))
        BY <1>15, <1>23, <1>30, <2>1, <2>4, <2>5
      <3>3. CarryAfter(Compared("minus", Wrapped(0), Wrapped(a0))) = Borrow(0, a0)
        BY <2>1, <2>2, CarryOfCells, WrappedCell
      <3>4. after[8].val[5][l] = Value("subc", Wrapped(0), Wrapped(a2), Borrow(0, a0))
        BY <1>15, <1>26, <1>30, <2>1, <2>4, <2>5, <3>2, <3>3
      <3>5. \A c : Value("minus", Wrapped(0), Wrapped(a0), c) = Wrapped(0 - a0)
        <4>1. 0 \in {0, 1}
          OBVIOUS
        <4> QED BY <2>2, <4>1, ValueOfWrapped
      <3>6. Value("subc", Wrapped(0), Wrapped(a2), Borrow(0, a0)) = Wrapped(0 - a2 - Borrow(0, a0))
        <4>1. Borrow(0, a0) \in {0, 1}
          BY DEF Borrow
        <4> QED BY ONLY <2>2, <4>1, ValueOfWrapped
      <3> QED BY <2>1, <2>5, <3>1, <3>4, <3>5, <3>6
    <2>6. CASE ~(Signed(a2) < 0)
      <3>1. after[8].val[4][l] = after[1].val[0][l] /\ after[8].val[5][l] = after[1].val[2][l]
        BY <1>11, <1>13, <1>24, <1>26, <1>30, <2>4, <2>6
      <3> QED BY <2>1, <2>6, <3>1
    <2> QED BY <2>5, <2>6
  <1>32. \A l \in Lanes :
            LET a0 == k.registers[0][l]  a2 == k.registers[2][l]  m == after[11].val IN
            /\ a0 \in Cells /\ a2 \in Cells
            /\ IF Signed(a2) < 0
               THEN /\ m[4][l] = Wrapped(0 - a0)
                    /\ m[5][l] = Wrapped(0 - a2 - Borrow(0, a0))
               ELSE m[4][l] = Wrapped(a0) /\ m[5][l] = Wrapped(a2)
    BY <1>29, <1>31
  <1>33. ASSUME NEW a, NEW b
         PROVE  Append(Append(<< >>, a), b)[1] = a /\ Append(Append(<< >>, a), b)[2] = b
    <2> DEFINE one == Append(<< >>, a)
    <2>1. one \in Seq({a, b}) /\ Len(one) = 1 /\ one[1] = a
      OBVIOUS
    <2> HIDE DEF one
    <2>2. a \in {a, b} /\ b \in {a, b} /\ 1 \in 1..Len(one) /\ Len(one) + 1 = 2
      BY <2>1
    <2>3. Append(one, b)[1] = one[1] /\ Append(one, b)[Len(one) + 1] = b
      BY ONLY ZenonT(60), <2>1, <2>2, AppendProperties
    <2> QED BY <2>1, <2>2, <2>3 DEF one
  <1>34. /\ after[11].sums[1]
                = SumOver([l \in Lanes |-> Unsigned(after[11].val[4][l])], Lanes)
         /\ after[11].sums[2] = SumOver(after[11].val[5], Lanes)
    BY <1>28, <1>29, <1>33
  <1> QED BY <1>8, <1>29, <1>32, <1>34

\* At the end of a kernel whose last meaning is one, registers are what is left of
\* its numbers, and its sums have been sent.
LEMMA EndOfSteps ==
    ASSUME KernelWritten, TypeOK, DoesWhatIsWritten, Ended, failure = "none"
    PROVE  \E after : LET last == Len(kernel.statements) IN
              /\ Steps(after, kernel.statements, kernel)
              /\ Ready(after[last]) =>
                    /\ reductions = after[last].sums
                    /\ \A r \in Registers, l \in Lanes :
                          /\ registerFile[r][l] \in Cells
                          /\ Signed(registerFile[r][l]) = after[last].val[r][l]
  <1>1. PICK after : after = CourseOf(kernel)
    OBVIOUS
  <1>2. PICK last : last = Len(kernel.statements)
    OBVIOUS
  <1>3. WrittenAll(kernel.statements)
    BY KernelShape
  <1>4. /\ after[0] = Outset(kernel.registers, kernel.store, kernel.selection)
        /\ \A n \in 1..last : after[n] = Meaning(kernel.statements[n], after[n - 1])
        /\ Meant = after[last]
    BY <1>1, <1>2, <1>3, CourseOfKernel DEF Meant
  <1>5. kernel.registers \in [Registers -> Vectors]
    BY KernelsAssumption DEF KernelWritten
  <1>6. Steps(after, kernel.statements, kernel)
    BY <1>2, <1>3, <1>4, <1>5 DEF Steps
  <1>7. ASSUME Ready(after[last])
        PROVE  /\ reductions = after[last].sums
               /\ \A r \in Registers, l \in Lanes :
                     /\ registerFile[r][l] \in Cells
                     /\ Signed(registerFile[r][l]) = after[last].val[r][l]
    <2>1. Meant.defined
      BY <1>4, <1>7 DEF Ready
    <2>2. \A r \in Registers, l \in Lanes : registerFile[r][l] \in Cells
      BY DEF TypeOK, LanesTypeOK, Vectors
    <2> QED BY <1>4, <2>1, <2>2 DEF DoesWhatIsWritten
  <1> QED BY <1>2, <1>6, <1>7

\* What is left of a number is in a register as its lowest bits.
LEMMA CellOfWrapped ==
    ASSUME NEW n \in Int, NEW c \in Cells, Signed(c) = Wrapped(n)
    PROVE  c = Cell(n)
  <1>1. Cell(n) \in Cells /\ Wrapped(n) = Signed(Cell(n))
    BY CellIsCell, WrappedIsCell
  <1> QED BY <1>1, SignedOne

\* Sums, differences and products of two cells.
LEMMA WideOperations ==
    ASSUME KernelWritten, TypeOK, DoesWhatIsWritten, Ended, failure = "none", NEW l \in Lanes
    PROVE  LET x == PairFound(2, 0, l)  y == PairFound(3, 1, l)  z == Pair(5, 4, l) IN
           /\ kernel.statements = WideAdd => z = ModPair(x + y)
           /\ kernel.statements = WideSub => z = ModPair(x - y)
           /\ kernel.statements = WideMultiply => z = ModPair(x * y)
  <1>1. PICK after : LET last == Len(kernel.statements) IN
              /\ Steps(after, kernel.statements, kernel)
              /\ Ready(after[last]) =>
                    \A r \in Registers, i \in Lanes :
                          /\ registerFile[r][i] \in Cells
                          /\ Signed(registerFile[r][i]) = after[last].val[r][i]
    BY EndOfSteps
  <1>2. PICK a0 : a0 = kernel.registers[0][l]
    OBVIOUS
  <1>3. PICK a1 : a1 = kernel.registers[1][l]
    OBVIOUS
  <1>4. PICK a2 : a2 = kernel.registers[2][l]
    OBVIOUS
  <1>5. PICK a3 : a3 = kernel.registers[3][l]
    OBVIOUS
  <1>6. PICK b : b = registerFile[4][l]
    OBVIOUS
  <1>7. PICK c : c = registerFile[5][l]
    OBVIOUS
  <1>8. /\ PairFound(2, 0, l) = Values * a2 + a0 /\ PairFound(3, 1, l) = Values * a3 + a1
        /\ Pair(5, 4, l) = Values * c + b
    BY <1>2, <1>3, <1>4, <1>5, <1>6, <1>7 DEF PairFound, Pair
  <1>9. Cells \subseteq Int
    BY ValuesEven DEF Cells
  <1>10. Len(WideAdd) = 3 /\ Len(WideSub) = 3 /\ Len(WideMultiply) = 8
    BY DEF WideAdd, WideSub, WideMultiply
  <1>11. ASSUME kernel.statements = WideAdd
         PROVE  Pair(5, 4, l) = ModPair(PairFound(2, 0, l) + PairFound(3, 1, l))
    <2>1. Steps(after, WideAdd, kernel)
      BY <1>1, <1>11
    <2>2. /\ {4, 5} \subseteq Registers
          /\ a0 \in Cells /\ a1 \in Cells /\ a2 \in Cells /\ a3 \in Cells
          /\ after[3].val[4][l] = Wrapped(a0 + a1)
          /\ after[3].val[5][l] = Wrapped(a2 + a3 + Carry(a0, a1))
      <3>1. 0 \in 0..3 /\ 1 \in 0..3 /\ 2 \in 0..3 /\ 3 \in 0..3
        OBVIOUS
      <3> QED BY <1>2, <1>3, <1>4, <1>5, <2>1, <3>1, WideSumMeaning
    <2>3. Ready(after[3])
      BY <2>1, TwoOperators DEF WideAdd
    <2>4. /\ b \in Cells /\ Signed(b) = Wrapped(a0 + a1)
          /\ c \in Cells /\ Signed(c) = Wrapped(a2 + a3 + Carry(a0, a1))
      BY <1>1, <1>6, <1>7, <1>10, <1>11, <2>2, <2>3
    <2>5. a0 + a1 \in Int /\ a2 + a3 + Carry(a0, a1) \in Int
      BY <1>9, <2>2 DEF Carry
    <2>6. b = Cell(a0 + a1) /\ c = Cell(a2 + a3 + Carry(a0, a1))
      BY <2>4, <2>5, CellOfWrapped
    <2> QED BY <1>8, <2>2, <2>6, SumOfPairs DEF ModPair
  <1>12. ASSUME kernel.statements = WideSub
         PROVE  Pair(5, 4, l) = ModPair(PairFound(2, 0, l) - PairFound(3, 1, l))
    <2>1. Steps(after, WideSub, kernel)
      BY <1>1, <1>12
    <2>2. /\ {4, 5} \subseteq Registers
          /\ a0 \in Cells /\ a1 \in Cells /\ a2 \in Cells /\ a3 \in Cells
          /\ after[3].val[4][l] = Wrapped(a0 - a1)
          /\ after[3].val[5][l] = Wrapped(a2 - a3 - Borrow(a0, a1))
      <3>1. 0 \in 0..3 /\ 1 \in 0..3 /\ 2 \in 0..3 /\ 3 \in 0..3
        OBVIOUS
      <3> QED BY <1>2, <1>3, <1>4, <1>5, <2>1, <3>1, WideSumMeaning
    <2>3. Ready(after[3])
      BY <2>1, TwoOperators DEF WideSub
    <2>4. /\ b \in Cells /\ Signed(b) = Wrapped(a0 - a1)
          /\ c \in Cells /\ Signed(c) = Wrapped(a2 - a3 - Borrow(a0, a1))
      BY <1>1, <1>6, <1>7, <1>10, <1>12, <2>2, <2>3
    <2>5. a0 - a1 \in Int /\ a2 - a3 - Borrow(a0, a1) \in Int
      BY <1>9, <2>2 DEF Borrow
    <2>6. b = Cell(a0 - a1) /\ c = Cell(a2 - a3 - Borrow(a0, a1))
      BY <2>4, <2>5, CellOfWrapped
    <2> QED BY <1>8, <2>2, <2>6, SumOfPairs DEF ModPair
  <1>13. ASSUME kernel.statements = WideMultiply
         PROVE  Pair(5, 4, l) = ModPair(PairFound(2, 0, l) * PairFound(3, 1, l))
    <2>1. Steps(after, WideMultiply, kernel)
      BY <1>1, <1>13
    <2>2. /\ {4, 5} \subseteq Registers /\ Ready(after[8])
          /\ a0 \in Cells /\ a1 \in Cells /\ a2 \in Cells /\ a3 \in Cells
          /\ after[8].val[4][l] = Wrapped(a0 * a1)
          /\ after[8].val[5][l] = Wrapped((a0 * a1) \div Values + a0 * a3 + a2 * a1)
      BY <1>2, <1>3, <1>4, <1>5, <2>1, WideProductMeaning
    <2>3. PICK low : low = a0 * a1
      OBVIOUS
    <2>4. PICK high : high = (a0 * a1) \div Values + a0 * a3 + a2 * a1
      OBVIOUS
    <2>5. low \in Int /\ high \in Int
      <3>1. a0 \in Int /\ a1 \in Int /\ a2 \in Int /\ a3 \in Int
        BY <1>9, <2>2
      <3>2. a0 * a1 \in Int /\ a0 * a3 \in Int /\ a2 * a1 \in Int
        BY ONLY <3>1
      <3>3. (a0 * a1) \div Values \in Int
        BY <3>2, Division, ValuesEven
      <3> QED BY ONLY <2>3, <2>4, <3>2, <3>3
    <2>6. /\ b \in Cells /\ Signed(b) = Wrapped(low)
          /\ c \in Cells /\ Signed(c) = Wrapped(high)
      BY <1>1, <1>6, <1>7, <1>10, <1>13, <2>2, <2>3, <2>4
    <2>7. b = Cell(low) /\ c = Cell(high)
      BY <2>5, <2>6, CellOfWrapped
    <2>8. Values * Cell(high) + Cell(low)
              = ((Values * a2 + a0) * (Values * a3 + a1)) % (Values * Values)
      BY <2>2, <2>3, <2>4, ProductOfPairs
    <2> QED BY <1>8, <2>7, <2>8 DEF ModPair
  <1> QED BY <1>11, <1>12, <1>13

\* Absolute values, and their sum over the lanes.
LEMMA WideAbsolute ==
    ASSUME KernelWritten, TypeOK, DoesWhatIsWritten, Ended, failure = "none",
           kernel.statements = WideAbs
    PROVE  /\ \A l \in Lanes : Pair(5, 4, l) = Absolute(PairFound(2, 0, l))
           /\ LET wide == [l \in Lanes |->
                             IF Pair(5, 4, l) = (Values * Values) \div 2
                             THEN -Pair(5, 4, l) ELSE Pair(5, 4, l)]
              IN  Values * reductions[2] + reductions[1] = SumOf(LAMBDA l : wide[l], Lanes)
  <1>1. Len(WideAbs) = 11
    BY DEF WideAbs
  <1>2. PICK after : /\ Steps(after, WideAbs, kernel)
                     /\ Ready(after[11]) =>
                           /\ reductions = after[11].sums
                           /\ \A r \in Registers, l \in Lanes :
                                 /\ registerFile[r][l] \in Cells
                                 /\ Signed(registerFile[r][l]) = after[11].val[r][l]
    BY <1>1, EndOfSteps
  <1>3. /\ {4, 5} \subseteq Registers /\ Ready(after[11])
        /\ after[11].sums[1] = SumOver([l \in Lanes |-> Unsigned(after[11].val[4][l])], Lanes)
        /\ after[11].sums[2] = SumOver(after[11].val[5], Lanes)
    BY <1>2, WideAbsMeaning
  <1>4. ASSUME NEW l \in Lanes
        PROVE  /\ registerFile[4][l] \in Cells /\ registerFile[5][l] \in Cells
               /\ Signed(registerFile[4][l]) = after[11].val[4][l]
               /\ Signed(registerFile[5][l]) = after[11].val[5][l]
    BY <1>2, <1>3
  <1>5. Cells \subseteq Int
    BY ValuesEven DEF Cells
  <1>6. ASSUME NEW l \in Lanes
        PROVE  /\ Pair(5, 4, l) = Absolute(PairFound(2, 0, l))
               /\ ~(Values * Values < 2 * Pair(5, 4, l))
    <2>1. PICK a0 : a0 = kernel.registers[0][l]
      OBVIOUS
    <2>2. PICK a2 : a2 = kernel.registers[2][l]
      OBVIOUS
    <2>3. PICK b : b = registerFile[4][l]
      OBVIOUS
    <2>4. PICK c : c = registerFile[5][l]
      OBVIOUS
    <2>5. PICK x : x = Values * a2 + a0
      OBVIOUS
    <2>6. PICK z : z = Values * c + b
      OBVIOUS
    <2>7. PairFound(2, 0, l) = x /\ Pair(5, 4, l) = z
      BY <2>1, <2>2, <2>3, <2>4, <2>5, <2>6 DEF PairFound, Pair
    <2>8. /\ a0 \in Cells /\ a2 \in Cells
          /\ Signed(a2) < 0 => /\ after[11].val[4][l] = Wrapped(0 - a0)
                               /\ after[11].val[5][l] = Wrapped(0 - a2 - Borrow(0, a0))
          /\ ~(Signed(a2) < 0) => /\ after[11].val[4][l] = Wrapped(a0)
                                  /\ after[11].val[5][l] = Wrapped(a2)
      <3>1. \A i \in Lanes :
               LET x0 == kernel.registers[0][i]  x2 == kernel.registers[2][i]
                   m == after[11].val
               IN  /\ x0 \in Cells /\ x2 \in Cells
                   /\ IF Signed(x2) < 0
                      THEN /\ m[4][i] = Wrapped(0 - x0)
                           /\ m[5][i] = Wrapped(0 - x2 - Borrow(0, x0))
                      ELSE m[4][i] = Wrapped(x0) /\ m[5][i] = Wrapped(x2)
        <4>1. Steps(after, WideAbs, kernel)
          BY ONLY <1>2
        <4> QED BY ONLY <4>1, WideAbsMeaning
      <3>2. LET m == after[11].val IN
            /\ a0 \in Cells /\ a2 \in Cells
            /\ IF Signed(a2) < 0
               THEN /\ m[4][l] = Wrapped(0 - a0)
                    /\ m[5][l] = Wrapped(0 - a2 - Borrow(0, a0))
               ELSE m[4][l] = Wrapped(a0) /\ m[5][l] = Wrapped(a2)
        BY ONLY <2>1, <2>2, <3>1, l \in Lanes
      <3> QED BY ONLY <3>2
    <2>9. /\ b \in Cells /\ Signed(b) = after[11].val[4][l]
          /\ c \in Cells /\ Signed(c) = after[11].val[5][l]
      BY <1>4, <2>3, <2>4
    <2>10. a0 \in Int /\ a2 \in Int /\ 0 - a0 \in Int /\ 0 - a2 - Borrow(0, a0) \in Int
      BY <1>5, <2>8 DEF Borrow
    <2>11. PICK w : w = Values * Values
      OBVIOUS
    <2>12. w \in Int /\ x \in Int
      <3>1. Values \in Int
        BY ValuesEven
      <3> QED BY ONLY <2>5, <2>10, <2>11, <3>1
    <2>13. CASE Signed(a2) < 0
      <3>1. b = Cell(0 - a0) /\ c = Cell(0 - a2 - Borrow(0, a0))
        BY <2>8, <2>9, <2>10, <2>13, CellOfWrapped
      <3>2. z = Values * Cell(0 - a2 - Borrow(0, a0)) + Cell(0 - a0)
        BY <2>6, <3>1
      <3>3. z = w - x /\ ~(2 * x < w)
        BY <2>5, <2>8, <2>11, <2>13, <3>2, PairNegated
      <3>4. ~(w < 2 * z)
        BY ONLY <2>12, <3>3
      <3>5. z = Absolute(x)
        BY <2>11, <3>3 DEF Absolute
      <3> QED BY <2>7, <2>11, <3>4, <3>5
    <2>14. CASE ~(Signed(a2) < 0)
      <3>1. b = Cell(a0) /\ c = Cell(a2)
        BY <2>8, <2>9, <2>10, <2>14, CellOfWrapped
      <3>2. b = a0 /\ c = a2
        BY <2>8, <3>1, CellOfCell
      <3>3. z = x /\ 2 * x < w
        BY <2>5, <2>6, <2>8, <2>11, <2>14, <3>2, PairPositive
      <3>4. ~(w < 2 * z)
        BY ONLY <2>12, <3>3
      <3>5. z = Absolute(x)
        BY <2>11, <3>3 DEF Absolute
      <3> QED BY <2>7, <2>11, <3>4, <3>5
    <2> QED BY <2>13, <2>14
  <1> DEFINE wide == [l \in Lanes |->
                        IF Pair(5, 4, l) = (Values * Values) \div 2
                        THEN -Pair(5, 4, l) ELSE Pair(5, 4, l)]
             high == after[11].val[5]
             low == [l \in Lanes |-> Unsigned(after[11].val[4][l])]
  <1>7. \A l \in Lanes : /\ high[l] \in Int /\ low[l] \in Int
                         /\ wide[l] = Values * high[l] + low[l]
    <2> TAKE l \in Lanes
    <2>1. PICK b : b = registerFile[4][l]
      OBVIOUS
    <2>2. PICK c : c = registerFile[5][l]
      OBVIOUS
    <2>3. /\ b \in Cells /\ c \in Cells
          /\ Signed(b) = after[11].val[4][l] /\ Signed(c) = after[11].val[5][l]
      BY <1>4, <2>1, <2>2
    <2>4. high[l] = Signed(c) /\ low[l] = b
      BY <2>3, UnsignedOfSigned
    <2>5. PICK z : z = Values * c + b
      OBVIOUS
    <2>6. Pair(5, 4, l) = z /\ ~(Values * Values < 2 * z)
      BY <1>6, <2>1, <2>2, <2>5 DEF Pair
    <2>7. Values * Signed(c) + b = IF z = (Values * Values) \div 2 THEN -z ELSE z
      BY <2>3, <2>5, <2>6, PairWithSign
    <2>8. wide[l] = IF z = (Values * Values) \div 2 THEN -z ELSE z
      BY <2>6
    <2>9. Signed(c) \in Int /\ b \in Int
      BY <1>5, <2>3, SignedRange
    <2> HIDE DEF wide, high, low
    <2> QED BY <2>4, <2>7, <2>8, <2>9
  <1>8. reductions[1] = SumOver(low, Lanes) /\ reductions[2] = SumOver(high, Lanes)
    BY <1>2, <1>3
  <1> HIDE DEF wide, high, low
  <1>9. Values * SumOver(high, Lanes) + SumOver(low, Lanes) = SumOver(wide, Lanes)
    <2>1. IsFiniteSet(Lanes) /\ Values \in Int
      BY LaneNumbers, ValuesEven
    <2> QED BY <1>7, <2>1, SumOfHalves
  <1>10. SumOver(wide, Lanes) = SumOf(LAMBDA l : wide[l], Lanes)
    BY DEF SumOf, SumOver
  <1>11. Values * reductions[2] + reductions[1] = SumOf(LAMBDA l : wide[l], Lanes)
    BY <1>8, <1>9, <1>10
  <1> QED BY <1>6, <1>11 DEF wide

\* ADD and ADDC, SUB and SUBC and the halves of products compute with numbers of
\* two cells in every lane, whatever the width of a cell, the number of lanes and
\* the operands: the first of two instructions leaves the carry that the second
\* takes, also under a WHERE (executeInstruction()).
THEOREM WideKernelsCompute == Spec => []WideArithmetic
  <1>1. KernelWritten /\ TypeOK /\ DoesWhatIsWritten => WideArithmetic
    <2> SUFFICES ASSUME KernelWritten, TypeOK, DoesWhatIsWritten, Ended, failure = "none"
                 PROVE  WideArithmetic
      BY DEF WideArithmetic
    <2>1. \A l \in Lanes :
              LET x == PairFound(2, 0, l)  y == PairFound(3, 1, l)  z == Pair(5, 4, l) IN
              /\ kernel.statements = WideAdd => z = ModPair(x + y)
              /\ kernel.statements = WideSub => z = ModPair(x - y)
              /\ kernel.statements = WideMultiply => z = ModPair(x * y)
              /\ kernel.statements = WideAbs => z = Absolute(x)
      BY WideOperations, WideAbsolute
    <2>2. kernel.statements = WideAbs =>
              LET wide == [l \in Lanes |->
                             IF Pair(5, 4, l) = (Values * Values) \div 2
                             THEN -Pair(5, 4, l) ELSE Pair(5, 4, l)]
              IN  Values * reductions[2] + reductions[1] = SumOf(LAMBDA l : wide[l], Lanes)
      BY WideAbsolute
    <2> QED BY <2>1, <2>2 DEF WideArithmetic
  <1> QED BY <1>1, AlwaysFollows, KernelsDoWhatIsWritten, PTL

=============================================================================
