--------------------------- MODULE MCInvitations ---------------------------
(* Small instances of Invitations.                                         *)
EXTENDS Invitations, TLC

CONSTANTS i1, r1, r2, r3

Symmetric == Permutations(Requests)
=============================================================================
