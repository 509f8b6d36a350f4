-------------------------- MODULE MCStateChangeFeed --------------------------
(* Small instances of StateChangeFeed: a consumer of everything or of a    *)
(* single namespace, one record a page.                                     *)
EXTENDS StateChangeFeed, TLC

CONSTANTS plan, gates, w1, w2, w3, k1

Ask(s, expected) == [subject |-> s, expected |-> expected, refs |-> {}, bound |-> FALSE]

PlainWrites == {Ask(s, expected) : s \in Subjects, expected \in 0..1}

AllAndOne == {Subjects, {plan}}
=============================================================================
