------------------------------- MODULE MCQuery -------------------------------
(* Instances of QueryAsk for TLC.                                            *)
EXTENDS QueryAsk, TLC

CONSTANTS d1, d2, u1, u2, ws1, ws2

OnePage   == {<<1>>}
TwoChunks == {<<2>>}

\* Every document in one workspace; a second one, if there is one, has none.
OneWorkspace == [d \in Docs |-> ws1]

\* Both users are members of the first workspace, one is of the second.
Everybody == {<<u1, ws1>>, <<u2, ws1>>, <<u1, ws2>>}
Alone     == {<<u1, ws1>>}

DocSymmetry   == Permutations({d1, d2})

=============================================================================
