---------------------------- MODULE MCCoreThread ----------------------------
(***************************************************************************)
(* Instances of CoreThread: the small streams TLC sends to the core        *)
(* thread, every sequence of at most n units, a unit being one plain       *)
(* instruction or one loop around a shorter sequence, written out the way  *)
(* the macros of include/Kernel.h write it out.  Each stream comes with    *)
(* its meaning, the tags of the plain instructions in the order the        *)
(* programmer expects.                                                     *)
(***************************************************************************)
EXTENDS CoreThread

Word(op, val, lvl) == [op |-> op, val |-> val, lvl |-> lvl]

Plain(tag, lvl) == [code |-> <<Word("OTHER", tag, lvl)>>, means |-> <<tag>>]

Then(a, b) == [code |-> a.code \o b.code, means |-> a.means \o b.means]

Nothing == [code |-> << >>, means |-> << >>]

RECURSIVE Times(_, _)
Times(n, tags) == IF n = 0 THEN << >> ELSE tags \o Times(n - 1, tags)

\* REPEAT(trips) body END_REPEAT: two SETLC of trips - 1, the body, the jump
\* over it, and the NOP.  Tag 0 is the NOP's.
Counted(trips, body, lvl, modulus) ==
    [code  |-> <<Word("SETLC", trips - 1, lvl), Word("SETLC", trips - 1, lvl)>>
                 \o body.code
                 \o <<Word("IJMPNZ", Len(body.code), lvl + 1),
                      Word("OTHER", 0, lvl)>>,
     means |-> Append(Times(((trips - 1) % modulus) + 1, body.means), 0)]

\* The meaning of what the data, or a failure, decide about: no instruction
\* has this tag.
LeftToData == <<-1>>

\* before, and REPEAT_SIMPLE body END_REPEAT_RED_NOT_ZERO: the data decide how
\* often the body runs.
Simple(before, body) ==
    [code  |-> before.code \o body.code \o
                   <<Word("IJMPNZ_RED", Len(body.code), 1),
                     Word("OTHER", 0, 0), Word("OTHER", 9, 0)>>,
     means |-> LeftToData]

\* Sequences of at most n units at depth lvl, tags from lo + 1 on, loops
\* nested down to depth deepest.
RECURSIVE Sequences(_, _, _, _, _, _)
Sequences(lvl, deepest, lo, n, trips, modulus) ==
    {Nothing} \cup
    (IF n = 0 THEN {} ELSE
        { Then(Plain(lo + 1, lvl), rest) :
            rest \in Sequences(lvl, deepest, lo + 1, n - 1, trips, modulus) }
        \cup
        (IF lvl = deepest THEN {} ELSE
            UNION { { Then(Counted(t, body, lvl, modulus), rest) :
                        t \in trips,
                        body \in Sequences(lvl + 1, deepest, lo, k, trips, modulus),
                        rest \in Sequences(lvl, deepest, lo + k, n - 1 - k,
                                           trips, modulus) } :
                    k \in 0..(n - 1) }))

\* A nest of the given trip counts around one plain instruction, with one
\* plain instruction before each inner loop.
RECURSIVE Nest(_, _, _)
Nest(lvl, trips, modulus) ==
    IF trips = << >> THEN Plain(lvl + 1, lvl)
    ELSE Then(Plain(lvl + 1, lvl),
              Counted(Head(trips), Nest(lvl + 1, Tail(trips), modulus), lvl,
                      modulus))

CodeOf(programs) == { p.code : p \in programs }

-----------------------------------------------------------------------------
\* The body of an outermost REPEAT_SIMPLE at most two units long, REPEATs
\* nested in it included, between plain instructions; and bodies of three, up to
\* twelve instructions.
SimplePrograms ==
    { Simple(before, body) :
        before \in Sequences(0, 1, 0, 1, {2}, 4),
        body \in Sequences(1, 3, 4, 2, {1, 2, 3}, 4) \cup Sequences(1, 3, 4, 3, {2}, 4) }

\* Kernels that start with the ENABLE_ALL_CELLS of BEGIN_KERNEL.
GatedPrograms ==
    { [code |-> <<Word("GATE", 0, 0)>> \o p.code, means |-> LeftToData] :
        p \in Sequences(0, 1, 0, 1, {2}, 4) }

\* A nest of five loops, one more than the thread's condition looks.
FiveDeepStreams == CodeOf({ Nest(0, <<1, 1, 1, 2, 2>>, 4) })

=============================================================================
