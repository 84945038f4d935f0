------------------------------ MODULE MCKernel ------------------------------
(***************************************************************************)
(* Kernels of up to a dozen words over a NOP, a READ and a WRITE.            *)
(***************************************************************************)
EXTENDS RepeatUnrolling

\* R0 = LS[R0], which waits for itself, and LS[R0] = R2, which waits for it.
\* Both use the register that _IJMPNZ_RED seems to write.
SmallOperation ==
    0 :> Decoding("NOP", NoReg, NoReg, NoReg)
    @@ 1 :> Decoding("READ", 0, NoReg, 0)
    @@ 2 :> Decoding("WRITE", NoReg, 2, 0)

=============================================================================
