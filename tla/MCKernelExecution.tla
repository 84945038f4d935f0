-------------------------- MODULE MCKernelExecution --------------------------
(***************************************************************************)
(* Kernels for four lanes of three bits.  Each family of kernels is run on *)
(* operands that between them show every lane every combination of values. *)
(***************************************************************************)
EXTENDS KernelExecution

-----------------------------------------------------------------------------
(* What the kernels find.  Operands is all pairs of values for R0 and R1,  *)
(* WideOperands all pairs of two-cell numbers, R2:R0 and R3:R1.            *)

Ramp(n, step) == [l \in Lanes |-> (n + step * l) % Values]

RegistersWith(r0, r1, r2, r3) ==
    [r \in Registers |-> CASE r = 0 -> r0 [] r = 1 -> r1 [] r = 2 -> r2 [] r = 3 -> r3
                           [] OTHER -> Everywhere(5)]

Operands ==
    {RegistersWith(Ramp(a, 3), Ramp(b, 2), Everywhere(2), Everywhere(1)) :
        a \in Cells, b \in {0, 1}}

WideOperands ==
    {RegistersWith(Ramp(a, 3), Ramp(b, 2), Ramp(c, 1), Ramp(d, 5)) :
        a \in Cells, b \in {0, 1}, c \in Cells, d \in Cells}

Store == [w \in Rows |-> Ramp(w, 2)]
Mixed == [l \in Lanes |-> l % 2]

Kernel(statements, registers, selection) ==
    [statements |-> statements, registers |-> registers, store |-> Store,
     selection |-> selection]

-----------------------------------------------------------------------------
(* One statement of each form, after an EXECUTE_IN_ALL and without one.    *)

BinaryOps == DOMAIN CodeOf \ {"addc", "subc"}

Statements ==
    {Bin(op, 4, 0, 1) : op \in BinaryOps}
    \cup {Bin("plus", 31, 0, 1), Bin("minus", 4, 31, 0), Bin("ult", 4, 0, 31)}
    \cup {Statement("update", op, 0, 0, 1) :
             op \in {"plus", "minus", "or", "and", "xor", "shl", "shr"}}
    \cup {Statement("unary", op, 4, 0, 0) : op \in DOMAIN CodeOfUnary}
    \cup {Statement("shift", op, d, 0, n) :
             op \in DOMAIN CodeOfShift, d \in {0, 4}, n \in {0, 1, 2, 31}}
    \cup {Const(4, n) : n \in {-32768, -1, 3, 32767}}
    \cup {Plain(form, 4, 0, 1) :
             form \in {"copy", "index", "product", "iread", "iwrite", "nop",
                       "read", "write", "reduce", "reduce_u"}}

SingleStatements ==
    {Kernel(<<InAll, st>>, r, Mixed) : st \in Statements, r \in Operands}
    \cup {Kernel(<<st>>, CHOOSE r \in Operands : TRUE, s) :
             st \in Statements, s \in {Mixed, Everywhere(0)}}

-----------------------------------------------------------------------------
(* Longer kernels.                                                         *)

\* A comparison, a statement for the lanes where it has some outcome, and a
\* sum over these lanes and over all.
Comparisons == {"eq", "lt", "minus", "plus", "or"}
Conditions  == {"WHERE_EQ", "WHERE_LT", "WHERE_CRY"}
Bodies ==
    {Const(4, 2), Bin("minus", 0, 1, 0), Bin("ult", 1, 1, 0),
     Plain("product", 4, 0, 1), Plain("iwrite", 0, 0, 1), Plain("index", 0, 0, 0)}

Predicated ==
    {Kernel(<<InAll, Bin(op, 4, 0, 1), Only(c), body, Reduce(0), InAll, ReduceU(4)>>,
            r, Mixed) :
        op \in Comparisons, c \in Conditions, body \in Bodies, r \in Operands}

\* Accesses to the local store of lanes whose address has been looked at before.
Checked ==
    {Kernel(<<InAll, Const(4, 0), Const(5, 3), Statement("shift", "shr", 1, 1, 1),
              Bin("lt", 4, 1, 5), Only("WHERE_LT"), st, InAll, Reduce(0)>>, r, Mixed) :
        st \in {Plain("read", 0, 0, 1), Plain("write", 0, 0, 1)}, r \in Operands}

\* Both products, fetched under another selection than they were made.
Products ==
    {Kernel(<<InAll, Plain(m, 0, 0, 1), Bin("lt", 4, 0, 1), Only("WHERE_LT"),
              Plain("mult_u", 0, 1, 1), InAll,
              Plain("multlo", 4, 0, 0), Plain("multhi", 5, 0, 0)>>, r, Mixed) :
        m \in {"mult", "mult_u"}, r \in Operands}

\* Rotations by the same number everywhere, and by what is in R1.
Rotations ==
    {Kernel(<<InAll, Const(3, n), Plain(form, 0, 0, 3), Bin("lt", 4, 0, 1),
              Only("WHERE_LT"), Plain("shiftreg", 0, 0, 0), InAll, Reduce(0)>>, r, Mixed) :
        form \in {"cellshl", "cellshr"}, n \in {0, 1, 3}, r \in Operands}
    \cup {Kernel(<<InAll, Plain(form, 0, 0, 1), Plain("shiftreg", 4, 0, 0)>>, r, Mixed) :
             form \in {"cellshl", "cellshr"}, r \in Operands}

\* Lanes are gated off one after the other, whatever is selected later.
Gated ==
    {Kernel(<<InAll, Bin("lt", 4, 0, 1), Only("WHERE_LT"), Plain("disable", 0, 0, 0),
              InAll, Const(4, 3), Reduce(4), Bin("eq", 5, 0, 1), Only("WHERE_EQ"),
              Plain("disable", 0, 0, 0), InAll, Reduce(0), Plain("enable", 0, 0, 0),
              Reduce(4)>>, r, Mixed) : r \in Operands}
    \cup {Kernel(<<InAll, Bin("lt", 4, 0, 1), Only("WHERE_LT"), Plain("disable", 0, 0, 0)>>
                \o while \o <<Plain("enable", 0, 0, 0), Const(4, 3), Reduce(4)>>, r, Mixed) :
             while \in {<< >>, <<InAll, Bin("eq", 5, 0, 0), Only("WHERE_EQ")>>},
             r \in Operands}

-----------------------------------------------------------------------------
(* Numbers of two cells, R2:R0 and R3:R1.                                  *)

Wide ==
    {Kernel(w, r, Mixed) : w \in {WideAdd, WideSub, WideMultiply}, r \in WideOperands}
    \cup {Kernel(WideAbs, RegistersWith(Ramp(a, 3), Ramp(0, 1), Ramp(b, 2), Ramp(0, 1)),
                 Mixed) : a \in Cells, b \in Cells}

AllKernels ==
    SingleStatements \cup Predicated \cup Checked \cup Products \cup Rotations
    \cup Gated \cup Wide

\* Sums of numbers with a sign and nothing else, for the host's reading of them.
Summing == {Kernel(<<InAll, Reduce(0), Reduce(1)>>, r, Mixed) : r \in Operands}

=============================================================================
