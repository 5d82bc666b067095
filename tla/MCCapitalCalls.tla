--------------------------- MODULE MCCapitalCalls ---------------------------
(* Small instances of CapitalCalls.                                        *)
EXTENDS CapitalCalls

CONSTANTS k1, k2, c1, c2, f1

MCCallFund == [k \in Calls |-> f1]
MCCommitmentFund == [c \in Commitments |-> f1]

\* Equal commitments: everybody gets the rounded share, the first (c1 if it is
\* there) what remains: of 1 between two nothing.
MCShares(total, S) ==
  LET n == SumFunction([c \in S |-> 1])
      first == CHOOSE c \in S : c1 \in S => c = c1
      share == (2 * total + n) \div (2 * n)
  IN  [c \in S |-> IF c = first THEN total - (n - 1) * share ELSE share]
=============================================================================
