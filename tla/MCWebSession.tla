--------------------------- MODULE MCWebSession ---------------------------
(* Two organizations: the user belongs to one and is invited to the other. *)
EXTENDS WebSession

CONSTANTS a, b
=============================================================================
