------------------------------ MODULE WebQuery ------------------------------
(***************************************************************************)
(* One entry of a page's query cache, as the pages of the web apps use it: *)
(* the answer it shows, whether a request is under way, and whether it was *)
(* invalidated while it was not on screen.  A request is handled by the    *)
(* server as it is answered.                                               *)
(***************************************************************************)

\* Nothing was read, and nothing on screen asks for it.
Unread(nothing) == [has |-> FALSE, data |-> nothing, reading |-> FALSE, stale |-> FALSE]

\* A component that shows the query mounts: it is read unless there is an
\* answer that counts as fresh.
Mounted(q) == [q EXCEPT !.reading = q.reading \/ ~q.has \/ q.stale]

FirstRead(nothing) == Mounted(Unread(nothing))

Loading(q) == ~q.has /\ q.reading

\* invalidateQueries on a query that is on screen: it is read again at once,
\* and what it shows stays until the answer.
Told(q) == [q EXCEPT !.reading = TRUE]

\* invalidateQueries: a query that is not on screen is only marked.
Invalidated(q, shown) == IF shown THEN Told(q) ELSE [q EXCEPT !.stale = q.has]

Answered(d) == [has |-> TRUE, data |-> d, reading |-> FALSE, stale |-> FALSE]

\* The request fails, and so does its retry: what was shown stays.
ReadFailed(q) == [q EXCEPT !.reading = FALSE]
=============================================================================
