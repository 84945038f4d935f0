---------------------------- MODULE MCLoopMeaning ----------------------------
(***************************************************************************)
(* CoreThread with a history of the plain instructions it executed, to be  *)
(* compared with what the programmer wrote.                                *)
(***************************************************************************)
EXTENDS CoreThreadProofs, MCCoreThread

CONSTANT Programs              \* streams with their meaning

VARIABLES expected, executed

historyVars == <<coreVars, expected, executed>>

HistoryInit ==
    /\ Init
    /\ \E p \in {q \in Programs : q.code = stream} : expected = p.means
    /\ executed = << >>

\* What has no meaning of its own may run for ever and is not recorded.
HistoryNext ==
    /\ UNCHANGED expected
    /\ \/ /\ Other
          /\ executed' = IF expected = LeftToData THEN executed
                         ELSE Append(executed, Current.val)
       \/ /\ HostWrite \/ Setlc \/ LeaveLoop \/ RepeatLoop
             \/ LeaveSimple \/ RepeatSimple \/ Gate \/ Quiet
          /\ UNCHANGED executed

HistorySpec == HistoryInit /\ [][HistoryNext]_historyVars /\ Fairness

\* REPEAT(x) means x executions of its body, nested loops included, in
\* program order (the results tests/src/controller_tests.cpp waits for):
\* what has been executed is always a prefix of that, and all of it once the
\* stream is consumed.
ExecutesMeaning ==
    expected # LeftToData =>
        /\ Len(executed) <= Len(expected)
        /\ executed = SubSeq(expected, 1, Len(executed))
        /\ (failure = "none" /\ fetched = Len(stream) /\ ~Replaying)
              => executed = expected

-----------------------------------------------------------------------------
\* Every program of at most four units, loops nested at most three deep.  A
\* trip count of 0 wraps the 16-bit counter, here taken modulo 4.  Nests of four
\* loops, whose outermost body does not fit a memory of 12.
CountedPrograms ==
    Sequences(0, 3, 0, 4, {0, 2}, 4)
    \cup { Nest(0, trips, 4) : trips \in [1..4 -> {1, 2}] }

AllPrograms == CountedPrograms \cup SimplePrograms \cup GatedPrograms

AllStreams == CodeOf(AllPrograms)

=============================================================================
