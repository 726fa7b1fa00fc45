-------------------------- MODULE MCThunkExecutor --------------------------
(* An instance of ThunkExecutor: the graphs of all programs over a few operations *)
(* are built; chosen programs that give many ready nodes, diamonds, chains and    *)
(* mixed edges are executed as well.                                              *)
EXTENDS ThunkExecutor

CONSTANTS tok, comm

MCIsToken == [r \in {tok, comm} |-> r = tok]

Op(r, w, rs) == [read |-> r, write |-> w, rread |-> {}, rwrite |-> rs]

ReadsToken == [read |-> {{1, 2}}, write |-> {}, rread |-> {tok}, rwrite |-> {}]

\* A slice of a buffer written, alone or with a communicator; a communicator; both slices
\* and a token read; a token and a communicator.
SomeOps ==
    {Op({}, {{1}}, {}), Op({}, {}, {comm}), Op({}, {{2}}, {comm}), ReadsToken,
     Op({}, {}, {tok, comm})}

AsProgram(s) == [n \in 0..(N - 1) |-> s[n + 1]]

\* Three thunks and one that reads from all; collectives and what reads from them; a thunk
\* and two collectives after it; a diamond; a chain of collectives, two of them read; a
\* collective that one thunk waits for and another only follows; a chain.
MCExecuted ==
    {AsProgram(s) : s \in {
        <<Op({}, {{1}}, {}), Op({}, {{2}}, {}), Op({}, {{3}}, {}), Op({{1}, {2}, {3}}, {}, {})>>,
        <<Op({}, {{1}}, {comm}), Op({}, {{2}}, {comm}), Op({{1}}, {{3}}, {}), Op({{2}}, {{3}}, {})>>,
        <<Op({}, {{1}}, {}), Op({{1}}, {}, {comm}), Op({{1}}, {}, {comm}), Op({}, {{4}}, {})>>,
        <<Op({}, {{1, 2}}, {}), Op({{1}}, {{3}}, {}), Op({{2}}, {{4}}, {}), Op({{3}, {4}}, {}, {})>>,
        <<Op({}, {{1}}, {comm}), Op({}, {{2}}, {comm}), Op({}, {{3}}, {comm}), Op({{1}, {3}}, {}, {})>>,
        <<Op({}, {{2}}, {comm}), Op({}, {{1}}, {comm}), Op({}, {{1, 2}}, {}), Op({}, {{3}}, {})>>,
        <<Op({}, {{1}}, {}), Op({}, {{1}}, {comm}), Op({}, {{2}}, {comm}), Op({{2}}, {}, {})>>}}

MCPrograms == MCExecuted \cup [0..(N - 1) -> SomeOps]
=============================================================================
