------------------------------- MODULE FormDesk -------------------------------
(***************************************************************************)
(* One page of Forms at work: a user with one role, a row of the page's    *)
(* table and the other rows, the queries that show the row on this page,   *)
(* in its drawer and on the pages one goes to from it, the form that is    *)
(* open, the requests under way, and the server with its other users.      *)
(*                                                                         *)
(* What a row holds beside its status is one text.                         *)
(***************************************************************************)
EXTENDS Forms, WebQuery, Naturals, Sequences, FiniteSets

CONSTANTS Looks,     \* the <<screen, role, quiet>> looked at
          MaxAsked   \* bound: requests under way at a time, for each page

\* What a request can do.
Steps == {"create", "write", "finish", "reopen", "remove", "ask"}

ASSUME LooksAssumption == \A l \in Looks : l[1] \in DOMAIN Screens

\* The rest is what the machine below relies on in the tables of Forms: facts
\* about the tables as they are, each a finite check.

\* A page has a list, and shows the row under other keys in the drawer; it
\* offers operations there are, on the page, in its drawer or in the form of
\* one, for a new row or for rows that stand.
ASSUME OffersAssumption ==
  /\ {"none", "page", "drawer"} \cap DOMAIN Operations = {}
  /\ \A p \in DOMAIN Operations : Operations[p].does \in Seq(Steps) \ {<<>>}
  /\ \A s \in DOMAIN Screens :
       /\ "nowhere" \notin Screens[s].list \cup Screens[s].detail \cup Screens[s].away
       /\ Screens[s].list # {}
       /\ Screens[s].detail \cap (Screens[s].list \cup Screens[s].away) = {}
       /\ \A o \in Screens[s].offers :
            /\ o.op \in DOMAIN Operations
            /\ o.on \in {"page", "drawer"} \cup DOMAIN Operations
            /\ o.rows = NewRow \/ o.rows \subseteq Standing

\* What closes a dialog that waits is asked from that dialog, keeps it from
\* being closed, waits for whatever else closes it, and stays pending.
ASSUME DialogsAssumption ==
  \A p, d \in DOMAIN Operations :
    d \in Operations[p].closes /\ Operations[d].waits
    => /\ p \in Operations[d].blocks
       /\ ~Operations[p].unmounts
       /\ \A q \in DOMAIN Operations :
            d \in Operations[q].closes => q \in Operations[p].blocks
       /\ IF Operations[p].seeds = "none"
          THEN \A s \in DOMAIN Screens : \A o \in Screens[s].offers : o.op = p => o.on = d
          ELSE p = d

\* A form that is unmounted as it is closed can be closed at any time.
ASSUME UnmountsAssumption ==
  \A p \in DOMAIN Operations : ~(Operations[p].unmounts /\ Operations[p].waits)

\* An operation that writes invalidates every key that shows the row on its
\* page, in its drawer and on the pages one goes to, but for the keys Forms says
\* it misses, the drawer of a row it makes or removes, and the page it leaves for
\* good.
ASSUME TellsAssumption ==
  \A s \in DOMAIN Screens : \A o \in Screens[s].offers :
    LET p == Operations[o.op]
        all == (Screens[s].list \cup Screens[s].away) \ p.misses
    IN \/ \A i \in DOMAIN p.does : p.does[i] = "ask"
       \/ all \cup Screens[s].detail \subseteq p.tells
       \/ /\ all \subseteq p.tells
          /\ \A i \in DOMAIN p.does : p.does[i] \in {"ask", "create", "remove"}
       \/ Screens[s].away \ p.misses \subseteq p.tells /\ p.goes = "left"

\* A page has operations that remove its row or leave for good, and then each of
\* its operations writes with its last request only; or it has neither.
Plainly(s) ==
  \A o \in Screens[s].offers :
    /\ Operations[o.op].goes # "left"
    /\ \A i \in DOMAIN Operations[o.op].does : Operations[o.op].does[i] # "remove"

ASSUME SeveralAssumption ==
  \A s \in DOMAIN Screens : \A o \in Screens[s].offers :
    LET p == Operations[o.op] IN
    /\ Plainly(s) \/ \A i \in 1..(Len(p.does) - 1) : p.does[i] = "ask"
    /\ p.goes = "left" => Screens[s].away # {}
    /\ p.goes = "drawer" => p.does[Len(p.does)] # "ask"

VARIABLES
  screen,  \* the page
  as,      \* the user's role
  quiet,   \* nobody else writes and no request is lost
  row,     \* the server: the row
  cache,   \* the queries that show the row
  elsewhere, \* the key read on the page one goes to from this one, or Nowhere
  place,   \* "page", "drawer", "away", or "left" for good
  editor,  \* the open form, or NoEditor
  asked    \* the requests under way

formVars == <<screen, as, quiet, elsewhere, row, cache, place, editor, asked>>
still == <<screen, as, quiet, elsewhere>>

Texts == {0, 1}
Nowhere == "nowhere"
NoRow == [status |-> "none", text |-> 0]
NoEditor == [op |-> "none", of |-> "row", text |-> 0, typed |-> FALSE]
Exists(r) == r.status \in Standing

Screen == Screens[screen]

\* The keys that one of the page's operations leaves as they are.
Missed == UNION {Operations[o.op].misses : o \in Screen.offers}

\* The queries on screen at a place.
MountedAt(p) ==
  CASE p = "page"   -> Screen.list
    [] p = "drawer" -> Screen.list \cup Screen.detail
    [] OTHER        -> {elsewhere}

Enter(p, c) ==
  /\ place' = p
  /\ cache' = [k \in DOMAIN c |->
                 IF k \in MountedAt(p) \ MountedAt(place) THEN Mounted(c[k]) ELSE c[k]]

FormInit ==
  /\ \E l \in Looks : screen = l[1] /\ as = l[2] /\ quiet = l[3]
  /\ as \in Screen.roles
  /\ row \in {NoRow, [status |-> "open", text |-> 0]}
  /\ elsewhere \in (IF Screen.away = {} THEN {Nowhere} ELSE Screen.away)
  /\ cache = [k \in Screen.list \cup Screen.detail \cup {elsewhere} |->
                IF k \in Screen.list THEN FirstRead(NoRow) ELSE Unread(NoRow)]
  /\ place = "page"
  /\ editor = NoEditor
  /\ asked = {}

-----------------------------------------------------------------------------
(* Where the user is                                                       *)

\* The query an operation's row is read from.
Source(p) == IF p = "drawer" THEN Screen.detail ELSE Screen.list
Reading(p) == \E k \in Source(p) : ~cache[k].has
RowShown(p) == LET k == CHOOSE k \in Source(p) : TRUE IN cache[k].data

OpenDrawer ==
  /\ place = "page"
  /\ editor = NoEditor
  /\ Screen.detail # {}
  /\ Exists(RowShown("page"))
  /\ Enter("drawer", cache)
  /\ UNCHANGED <<still, row, editor, asked>>

\* What is mounted in the drawer goes, with its pending states.
CloseDrawer ==
  /\ place = "drawer"
  /\ editor = NoEditor
  /\ Enter("page", cache)
  /\ asked' = {IF m.from = "drawer" THEN [m EXCEPT !.from = "closed drawer"] ELSE m
                 : m \in asked}
  /\ UNCHANGED <<still, row, editor>>

\* To a page that shows the row too, and back: an open form is lost.
GoAway ==
  /\ place \in {"page", "drawer"}
  /\ elsewhere # Nowhere
  /\ Enter("away", cache)
  /\ editor' = NoEditor
  /\ asked' = {[m EXCEPT !.from = "away"] : m \in asked}
  /\ UNCHANGED <<still, row>>

ComeBack ==
  /\ place = "away"
  /\ Enter("page", cache)
  /\ UNCHANGED <<still, row, editor, asked>>

-----------------------------------------------------------------------------
(* Forms and buttons                                                       *)

\* isPending, of components that are still mounted, and whether what a request
\* does to the page once it succeeds reaches it: the handlers of a form that was
\* unmounted still set the state of the page that had opened it.
Pending(ops) == \E m \in asked : m.op \in ops /\ m.from \in {"page", "drawer"}
Heard(m) == m.from \in {"page", "drawer", "closed form"}

\* The requests once the open form is closed: a form that is unmounted takes its
\* pending state along.
WithoutForm(requests) ==
  {IF m.op = editor.op /\ Operations[m.op].unmounts /\ m.from = "page"
   THEN [m EXCEPT !.from = "closed form"] ELSE m : m \in requests}

\* The page shows offer o for the row it shows, or for a new one.
Offered(o) ==
  /\ as \in o.to
  /\ o.on \in {"page", "drawer"} => o.on = place
  /\ o.on \notin {"page", "drawer"} => editor.op = o.on
  /\ o.rows # NewRow => ~Reading(place) /\ RowShown(place).status \in o.rows

OpenForm(o, of) ==
  /\ editor = NoEditor
  /\ Operations[o.op].seeds # "none"
  /\ Offered(o)
  /\ ~Pending(Operations[o.op].after)
  /\ of = "row" \/ (o.rows # NewRow /\ o.on = "page")
  /\ editor' = [op |-> o.op, of |-> of, typed |-> FALSE,
                text |-> IF Operations[o.op].seeds = "blank" \/ of # "row" THEN 0
                         ELSE RowShown(place).text]
  /\ UNCHANGED <<still, row, cache, place, asked>>

Type ==
  /\ editor # NoEditor
  /\ editor' = [editor EXCEPT !.text = 1 - @, !.typed = TRUE]
  /\ UNCHANGED <<still, row, cache, place, asked>>

\* A change of CloseForm: a dialog can be closed while its request is under way.
CloseFormAnyTime ==
  /\ editor # NoEditor
  /\ editor' = NoEditor
  /\ asked' = WithoutForm(asked)
  /\ UNCHANGED <<still, row, cache, place>>

\* Cancel, Escape, or a click beside the form.
CloseForm ==
  /\ editor # NoEditor
  /\ Operations[editor.op].waits => ~Pending(Operations[editor.op].blocks)
  /\ editor' = NoEditor
  /\ asked' = WithoutForm(asked)
  /\ UNCHANGED <<still, row, cache, place>>

Ask(op, of, text) ==
  /\ ~Pending(Operations[op].blocks)
  /\ Cardinality(asked) < MaxAsked[screen]
  /\ asked' = asked \cup {[op |-> op, of |-> of, text |-> text, from |-> place,
                            left |-> Operations[op].does]}
  /\ UNCHANGED <<still, row, cache, place, editor>>

Submit ==
  /\ editor # NoEditor
  /\ Ask(editor.op, editor.of, editor.text)

\* A button of the page, or a second one of the open form.
Press(o) ==
  /\ Operations[o.op].seeds = "none"
  /\ Offered(o)
  /\ o.on \in {"page", "drawer"} => editor = NoEditor
  /\ Ask(o.op, editor.of, IF editor = NoEditor THEN 1 - RowShown(place).text ELSE editor.text)

-----------------------------------------------------------------------------
(* The server                                                              *)

\* What the next request of m does to the row; a second row that a repeated
\* creation makes is not followed.
After(m) ==
  IF m.of # "row" THEN row
  ELSE CASE Head(m.left) = "create" /\ row = NoRow -> [status |-> "open", text |-> m.text]
         [] Head(m.left) = "write"  -> [row EXCEPT !.text = m.text]
         [] Head(m.left) = "finish" -> [row EXCEPT !.status = "done"]
         [] Head(m.left) = "reopen" -> [row EXCEPT !.status = "open"]
         [] Head(m.left) = "remove" -> [row EXCEPT !.status = "gone"]
         [] OTHER -> row

Accepted(m) ==
  m.of = "row" => Head(m.left) \in {"create", "ask"} \/ Exists(row)

-----------------------------------------------------------------------------
(* Answers                                                                 *)

\* A change of AfterTelling: the queries on screen are read again (refetch), and
\* the others are left as they are.
AfterRefetching(keys) ==
  [k \in DOMAIN cache |-> IF k \in keys \cap MountedAt(place) THEN Told(cache[k])
                                                             ELSE cache[k]]

\* The cache after the keys of an operation were invalidated.
AfterTelling(keys) ==
  [k \in DOMAIN cache |-> IF k \in keys THEN Invalidated(cache[k], k \in MountedAt(place))
                                        ELSE cache[k]]

\* Where the success of m takes the user: the drawer opens over the page and
\* closes to it, whichever row's it is.
Destination(m) ==
  LET goes == Operations[m.op].goes
  IN CASE goes = "left" -> "left"
       [] goes = "drawer" /\ place = "page" /\ m.from # "away" -> "drawer"
       [] goes = "page" /\ place = "drawer" /\ m.from # "away" -> "page"
       [] OTHER -> place

\* One of several requests succeeds, and the next one is sent.
NextRequest(m) ==
  /\ m \in asked
  /\ Len(m.left) > 1
  /\ Accepted(m)
  /\ row' = After(m)
  /\ asked' = (asked \ {m}) \cup {[m EXCEPT !.left = Tail(@)]}
  /\ UNCHANGED <<still, cache, place, editor>>

\* onSuccess, or what follows the last await.
Succeeds(m) ==
  /\ m \in asked
  /\ Len(m.left) = 1
  /\ Accepted(m)
  /\ row' = After(m)
  /\ LET op == Operations[m.op]
     IN /\ Enter(Destination(m), AfterTelling(op.tells))
        /\ IF (editor.op \in op.closes /\ Heard(m)) \/ Destination(m) = "left"
           THEN editor' = NoEditor /\ asked' = WithoutForm(asked \ {m})
           ELSE editor' = editor /\ asked' = asked \ {m}
  /\ UNCHANGED still

\* A request is refused, fails, or only its answer is lost: the form stays.
Fails(m) ==
  /\ m \in asked
  /\ quiet => ~Accepted(m)
  /\ row' \in {row, IF Accepted(m) THEN After(m) ELSE row}
  /\ asked' = asked \ {m}
  /\ UNCHANGED <<still, cache, place, editor>>

\* A live form is seeded again when an answer changes the row it shows.
Answer(k) ==
  /\ cache[k].reading
  /\ cache' = [cache EXCEPT ![k] = Answered(row)]
  /\ editor' = IF /\ editor # NoEditor
                  /\ Operations[editor.op].seeds = "live"
                  /\ editor.of = "row" /\ k \in Source(place)
                  /\ cache[k].data # row
               THEN [editor EXCEPT !.text = row.text, !.typed = FALSE]
               ELSE editor
  /\ UNCHANGED <<still, row, place, asked>>

WrittenElsewhere ==
  /\ ~quiet
  /\ Exists(row)
  /\ row' \in {[row EXCEPT !.text = 1 - @], [row EXCEPT !.status = "done"]}
  /\ UNCHANGED <<still, cache, place, editor, asked>>

FormNext ==
  \/ OpenDrawer \/ CloseDrawer \/ GoAway \/ ComeBack
  \/ \E o \in Screen.offers : \/ \E of \in {"row", "another row"} : OpenForm(o, of)
                              \/ Press(o)
  \/ Type \/ CloseForm \/ Submit
  \/ \E m \in asked : NextRequest(m) \/ Succeeds(m) \/ Fails(m)
  \/ \E k \in DOMAIN cache : Answer(k)
  \/ WrittenElsewhere

FormSpec == FormInit /\ [][FormNext]_formVars

-----------------------------------------------------------------------------
\* Whatever the user did here, alone, no answer that counts as fresh shows the
\* row as it was before: each operation invalidates every query of this page
\* and of the pages one goes to that shows what it changed.  Excepted are the
\* keys that Forms lists as missed by one of the page's operations: they do show
\* the old row, for as long as an answer counts as fresh.  (The drawer of a
\* removed row is closed, and a page that was left for good is not looked at.)
OwnWritesShow ==
  quiet /\ asked = {} =>
    \A k \in (IF place = "left" THEN {elsewhere} ELSE DOMAIN cache) \ Missed :
      cache[k].has /\ ~cache[k].reading /\ ~cache[k].stale
        => cache[k].data = row \/ (k \in Screen.detail /\ row.status = "gone")

\* What was typed into a dialog that waits for its request, and whose fields are
\* read when it opens, goes only with the success of its own request, whatever
\* else is answered meanwhile.  (The letter's edit waits too, but reads its fields
\* again from every answer that changes the letter: what is typed there goes with
\* an answer, as it does in the forms that do not wait.)
TypedTextSurvives ==
  [][editor.typed /\ editor' # editor /\ (cache' # cache \/ asked' # asked)
       /\ place' = place /\ Operations[editor.op].waits
       /\ Operations[editor.op].seeds \in {"blank", "row"}
       => \E m \in asked \ asked' : m.of = editor.of /\ editor.op \in Operations[m.op].closes]_formVars
=============================================================================
