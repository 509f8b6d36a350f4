---------------------------- MODULE MCStateStore ----------------------------
(* Small instances of StateStore: two subjects, one of which may refer to   *)
(* the other and back, and an operation.                                    *)
EXTENDS StateStore, TLC

CONSTANTS plan, gates, op1, w1, w2, w3, w4

Ask(s, expected, refs, bound) ==
    [subject |-> s, expected |-> expected, refs |-> refs, bound |-> bound]

\* Every order of two revisions of both subjects, with references either way.
CrossReferences ==
    {Ask(s, expected, {}, FALSE) : s \in Subjects, expected \in 0..1} \cup
    {Ask(plan, 0, {StateRef(gates, r)}, FALSE) : r \in 1..2} \cup
    {Ask(gates, r - 1, {StateRef(plan, r), OperationRef(op1)}, TRUE) : r \in 1..2}

MCSymmetry == Permutations(Writes)
=============================================================================
