------------------------- MODULE MCCallTransactions -------------------------
(* Small instances of CallTransactions.                                    *)
EXTENDS CallTransactions

CONSTANTS k1, k2, c1, c2, r1, r2, r3

MCDue == [k \in Calls |-> [c \in Commitments |-> 2]]

\* Calls allocated to nobody, to everybody.
MCAnyItems == {[k \in Calls |-> {}], [k \in Calls |-> Commitments]}
MCAllItems == {[k \in Calls |-> Commitments]}
=============================================================================
