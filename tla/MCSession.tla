----------------------------- MODULE MCSession -----------------------------
(***************************************************************************)
(* Values for the constants of Session.                                    *)
(***************************************************************************)
EXTENDS Session

CONSTANTS A, B, Elsewhere

Both == {A, B}
Identifiers == [s \in Both |-> 1]
LongIdentifiers == [s \in Both |-> 3]
ACalls == {<<A, B>>}
ThenElsewhere == {<<A, B>>, <<B, Elsewhere>>}
BothCall == {<<A, B>>, <<B, A>>}
Never == {MaxTime + 1}
Closing == 1 .. 20 \cup Never
NoIdentifiers == [s \in Both |-> 0]
=============================================================================
