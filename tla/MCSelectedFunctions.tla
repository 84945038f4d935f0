------------------------- MODULE MCSelectedFunctions -------------------------
(***************************************************************************)
(* Calls of the floating-point functions: every pair of the numbers of two *)
(* vectors, as one vector and the other one rotated.                       *)
(***************************************************************************)
EXTENDS SelectedFunctions

Vector(cells) == [l \in Lanes |-> cells[l + 1]]
Rotated(v, n) == [l \in Lanes |-> v[(l + n) % VectorLength]]

\* Zeros, the ends of the subnormal and the normal numbers, infinities, a NaN,
\* the operand of the test of x + (-x), a third.
Ends16 == Vector(<<
    \h0000, \h8000, \h0001, \h03FF, \h0400, \h8400, \h3C00, \hBC00,
    \h3C01, \h7BFF, \hFBFF, \h7C00, \hFC00, \h7E00, \h0880, \h3555>>)

\* Mantissas of all zeros and all ones, at exponents 0 to 24 apart.
Near16 == Vector(<<
    \h3C00, \h3BFF, \hBFFF, \h4000, \h43FF, \hC401, \hB801, \hAFFF,
    \h2C01, \hB400, \h5801, \hD7FF, \h6BFF, \h1401, \h8BFF, \h07FF>>)

\* Mantissas of mixed bits, between 2^-14 and 2^15.
Mixed16 == Vector(<<
    \h2E66, \h4248, \hC16F, \h63FD, \h5555, \hAAAA, \h1234, \h8765,
    \h7ABC, \hF6E5, \h0555, \h8401, \h6C3B, \h3801, \h3BFD, \hBC03>>)

\* Of f32, the low half first: 1, 2.5, -1, 1 + 2^-23, 2^24 - 1, -65535, 1 + 2^-7, 0.5
Whole32 == Vector(<<
    \h0000, \h3F80,  \h0000, \h4020,  \h0000, \hBF80,  \h0001, \h3F80,
    \hFFFF, \h4B7F,  \hFF00, \hC77F,  \h0000, \h3F81,  \h0000, \h3F00>>)

\* 0, the least normal number, 4097, -50, the greatest number, infinity, -2^-100,
\* and a number whose low half is rounded over.
Ends32 == Vector(<<
    \h0000, \h0000,  \h0000, \h0080,  \h0800, \h4580,  \h0000, \hC248,
    \hFFFF, \h7F7F,  \h0000, \h7F80,  \h0000, \h8D80,  \hFFFF, \h407F>>)

\* Numbers most of which differ from another in their last bits: 15 leading bits
\* cancel, 12, 8, and 22, which is too many.
Near32 == Vector(<<
    \h0000, \h3F80,  \h0100, \hBF80,  \h0800, \hBF80,  \h8000, \hBF80,
    \h0002, \hBF80,  \h0001, \h4EAB,  \h0003, \hCEAB,  \h5555, \h3EAA>>)

CallsOf(functions, vectors, lanes) ==
    {[function |-> f, first |-> v, second |-> Rotated(w, lanes * n)] :
        f \in functions, v \in vectors, w \in vectors, n \in 0..(VectorLength \div lanes - 1)}

AllCalls ==
    CallsOf(Functions16, {Ends16, Near16, Mixed16}, 1)
    \cup CallsOf({"ADDf32", "MULTf32"}, {Whole32, Ends32, Near32}, 2)

\* x + (-x).
Opposite(v) == [l \in Lanes |-> (v[l] + \h8000) % \h10000]
OppositeCalls ==
    {[function |-> "ADDf16", first |-> v, second |-> Opposite(v)] :
        v \in {Ends16, Near16, Mixed16}}

\* All zeros, and a pattern that no constant of the kernels is.
ZerosAndOthers == {[register |-> 0, shift |-> 0], [register |-> \hDEAD, shift |-> 16]}

=============================================================================
