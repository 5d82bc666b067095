---------------------------- MODULE MCContactDesk ----------------------------
EXTENDS ContactDesk

\* The one contact.
CONSTANT c1
=============================================================================
