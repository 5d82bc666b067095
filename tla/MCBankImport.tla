---------------------------- MODULE MCBankImport ----------------------------
(* A small instance of BankImport: statement i1 has lines t1 and t2, i2 is *)
(* a later statement that repeats t1's payment and t2's synthetic          *)
(* reference, t1 being printed twice in it.                                *)
EXTENDS BankImport, TLC

CONSTANTS k1, k2, c1, f1, i1, i2, t1, t2, u1, u1b, u2, x, s

MCCallFund == [k \in Calls |-> f1]
MCCommitmentFund == [c \in Commitments |-> f1]
MCShares(total, S) == [c \in S |-> total]

MCImportOf == [t \in Lines |-> IF t \in {t1, t2} THEN i1 ELSE i2]
MCReferenceOf == [t \in Lines |-> IF t \in {t1, u1, u1b} THEN x ELSE s]

\* The two calls are alike, and so are the two prints of one line.
Symmetric == Permutations(Calls) \cup Permutations({u1, u1b})
=============================================================================
