---------------------------- MODULE MCEventStore ----------------------------
(* Small instances of EventStore for TLC. *)
EXTENDS EventStore, TLC

CONSTANTS q1, q2, q3, r1

Rows2 == {q1, q2}
Rows3 == {q1, q2, q3}
OneReader == {r1}
NoReader == {}
BothModes == {TRUE, FALSE}
AsyncOnly == {TRUE}

RowSymmetry == Permutations(Row) \union Permutations(Reader)
=============================================================================
