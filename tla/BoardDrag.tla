----------------------------- MODULE BoardDrag ------------------------------
(***************************************************************************)
(* Dragging cards on the board page of the web client.  A drag shows its   *)
(* result at once and sends two requests side by side, one for the column  *)
(* and one for the place in it.  The first failure puts the snapshot of    *)
(* the drag back, while the other request goes on; once the drag has       *)
(* settled, the board is fetched again.  Drags may overlap, and a fetch    *)
(* shows what the server read, however long ago that was.                  *)
(*                                                                         *)
(* Starting a drag and settling it are steps of the page's one thread.     *)
(* The client's cache library is external, modelled from its use: a fetch  *)
(* that is cancelled shows nothing, an invalidation replaces the fetch in  *)
(* flight.                                                                 *)
(***************************************************************************)
EXTENDS Naturals, FiniteSets

CONSTANTS
    Cards,              \* the tasks of the board
    Repeaters,          \* those of them that repeat
    Columns,            \* its buckets, in their order
    DefaultColumn, DoneColumn,
    Places,             \* the positions within a column (bound)
    PlaceAnswers,       \* what the request for the place may be answered with
    MaxDrags            \* how many drags a session of the page has (bound)

ASSUME BoardDragAssumption ==
    /\ Columns \subseteq Nat /\ {DefaultColumn, DoneColumn} \subseteq Columns
    /\ PlaceAnswers \subseteq {"ok", "failed"}

VARIABLES
    onServer,   \* by task: its bucket and its position in the view
    shown,      \* the page's copy: the cards in each column
    fetch,      \* the one fetch of the board: none, asked for, or what it read
    pageFailed, \* the last fetch failed: the page shows an error and no board
    drags,      \* the drags, by the order they were made in
    late        \* history: a request was carried out after its drag had settled, and
                \* no fetch has read the board since

dragVars == <<onServer, shown, fetch, pageFailed, drags, late>>

NoFetch == [at |-> "none"]
FetchAsked == [at |-> "asked"]
NotMade == [at |-> "idle"]
NoSnapshot == <<>>

\* What the server lists.
BoardOf(rows) == [b \in Columns |-> {[task |-> t, place |-> rows[t].place] :
                                        t \in {x \in Cards : rows[x].column = b}}]

DragInit ==
    /\ onServer \in [Cards -> [column : Columns, place : Places]]
    /\ shown = BoardOf(onServer)
    /\ fetch = NoFetch /\ pageFailed = FALSE /\ late = FALSE
    /\ drags = [d \in 1..MaxDrags |-> NotMade]

-----------------------------------------------------------------------------
(* The page.                                                               *)

\* A repeating task that is completed starts over in the default bucket.
Landed(t, b) == IF b = DoneColumn /\ t \in Repeaters THEN DefaultColumn ELSE b

CardsOf(board, b, t) == {c \in board[b] : c.task = t}
Holders(board, t) == {b \in Columns : CardsOf(board, b, t) # {}}
Holder(board, t) == CHOOSE b \in Holders(board, t) : \A c \in Holders(board, t) : b <= c

\* The card out of one column and into another, as far as they hold it.
ApplyTaskMove(board, m) ==
    LET card == [task |-> m.task, place |-> m.place]
        gone == [board EXCEPT ![m.from] = @ \ CardsOf(board, m.from, m.task)]
    IN IF Holders(board, m.task) = {} THEN board
       ELSE [gone EXCEPT ![m.to] = @ \cup {card}]

\* A drag onto where the card is sends nothing.
Moves(d) == {[task |-> t, from |-> Holder(shown, t), to |-> b, place |-> p] :
                t \in {x \in Cards : Holders(shown, x) # {}}, b \in Columns, p \in Places}
Changes(m) == ~\E c \in shown[m.to] : c.task = m.task /\ c.place = m.place

MakeDrag(d) ==
    /\ drags[d] = NotMade /\ \A e \in 1..(d - 1) : drags[e] # NotMade
    /\ ~pageFailed
    /\ \E m \in {x \in Moves(d) : Changes(x)} :
         /\ drags' = [drags EXCEPT ![d] = [at |-> "flying", move |-> m, previous |-> shown,
                                           column |-> "sent", place |-> "sent"]]
         /\ shown' = ApplyTaskMove(shown, m)
    /\ fetch' = NoFetch
    /\ UNCHANGED <<onServer, pageFailed, late>>

\* MUTANT of Refetch: an invalidation joins the fetch in flight.
JoinedFetch == IF fetch = NoFetch THEN FetchAsked ELSE fetch
\* An invalidation cancels the fetch in flight and asks again.
Refetch == FetchAsked

Settle(d) == drags' = [drags EXCEPT ![d].at = "settled", ![d].previous = NoSnapshot]

\* Both requests are answered: the card is put where the server says it landed.
Succeed(d) ==
    /\ drags[d].at = "flying" /\ drags[d].column = "ok" /\ drags[d].place = "ok"
    /\ LET m == drags[d].move  landed == Landed(m.task, m.to) IN
         shown' = IF landed = m.to THEN shown
                  ELSE ApplyTaskMove(shown, [m EXCEPT !.from = m.to, !.to = landed])
    /\ Settle(d)
    /\ fetch' = Refetch
    /\ UNCHANGED <<onServer, pageFailed, late>>

\* MUTANT of RollBack: no fetch after a drag that failed.
RollBackOnly(d) ==
    /\ drags[d].at = "flying" /\ "failed" \in {drags[d].column, drags[d].place}
    /\ shown' = drags[d].previous
    /\ Settle(d)
    /\ UNCHANGED <<onServer, fetch, pageFailed, late>>
\* One of them failed: the board as it was before the drag, whatever else has happened.
RollBack(d) ==
    /\ drags[d].at = "flying" /\ "failed" \in {drags[d].column, drags[d].place}
    /\ shown' = drags[d].previous
    /\ Settle(d)
    /\ fetch' = Refetch
    /\ UNCHANGED <<onServer, pageFailed, late>>

\* Coming back to the page asks again, or joins the fetch in flight.
Remount ==
    /\ fetch = NoFetch /\ fetch' = FetchAsked
    /\ UNCHANGED <<onServer, shown, pageFailed, drags, late>>

FetchLands ==
    /\ fetch.at = "read"
    /\ shown' = fetch.board /\ fetch' = NoFetch /\ pageFailed' = FALSE
    /\ UNCHANGED <<onServer, drags, late>>

\* With its one retry.
FetchFails ==
    /\ fetch.at # "none" /\ fetch' = NoFetch /\ pageFailed' = TRUE
    /\ UNCHANGED <<onServer, shown, drags, late>>

-----------------------------------------------------------------------------
(* The server, and the network.                                            *)

\* A request that is carried out without its drag waiting for it any more.
Overtaken(d) == late \/ drags[d].at = "settled"

ServerMoves(d) ==
    /\ drags[d] # NotMade /\ drags[d].column = "sent"
    /\ LET m == drags[d].move IN onServer' = [onServer EXCEPT ![m.task].column = Landed(m.task, m.to)]
    /\ drags' = [drags EXCEPT ![d].column = "applied"]
    /\ late' = Overtaken(d)
    /\ UNCHANGED <<shown, fetch, pageFailed>>

ServerPlaces(d) ==
    /\ drags[d] # NotMade /\ drags[d].place = "sent" /\ "ok" \in PlaceAnswers
    /\ onServer' = [onServer EXCEPT ![drags[d].move.task].place = drags[d].move.place]
    /\ drags' = [drags EXCEPT ![d].place = "applied"]
    /\ late' = Overtaken(d)
    /\ UNCHANGED <<shown, fetch, pageFailed>>

\* A request is refused or never reaches the server, or an answer arrives or is lost; a
\* drag that has settled does not look at the answer any more.
CallAnswers(d, call) ==
    CASE call = "sent" -> {"failed"}
      [] call = "applied" /\ drags[d].at = "flying" -> {"ok", "failed"}
      [] OTHER -> {}

CallAnswered(d) ==
    /\ drags[d] # NotMade
    /\ \/ \E a \in CallAnswers(d, drags[d].column) : drags' = [drags EXCEPT ![d].column = a]
       \/ \E a \in CallAnswers(d, drags[d].place) : drags' = [drags EXCEPT ![d].place = a]
    /\ UNCHANGED <<onServer, shown, fetch, pageFailed, late>>

ServeFetch ==
    /\ fetch = FetchAsked /\ fetch' = [at |-> "read", board |-> BoardOf(onServer)]
    /\ late' = FALSE
    /\ UNCHANGED <<onServer, shown, pageFailed, drags>>

DragNext ==
    \/ \E d \in 1..MaxDrags : \/ MakeDrag(d) \/ Succeed(d) \/ RollBack(d)
                              \/ ServerMoves(d) \/ ServerPlaces(d) \/ CallAnswered(d)
    \/ Remount \/ ServeFetch \/ FetchLands \/ FetchFails

DragSpec == DragInit /\ [][DragNext]_dragVars

-----------------------------------------------------------------------------
(* Properties.                                                             *)

\* Nothing more is going to change the page.
AtRest ==
    /\ fetch = NoFetch /\ ~pageFailed
    /\ \A d \in 1..MaxDrags : drags[d] # NotMade =>
         drags[d].at = "settled" /\ "sent" \notin {drags[d].column, drags[d].place}

\* Whatever drags overlapped, rolled one another back or landed elsewhere, a page at
\* rest shows the server's board, unless a request was carried out after its drag had
\* already settled and been fetched for.
CaughtUp == AtRest /\ ~late => shown = BoardOf(onServer)

\* As the hook promises of the fetch after a drag: that it brings the page into line
\* with the server, also where the request that did not fail goes on.
RefetchAligns == AtRest => shown = BoardOf(onServer)
=============================================================================
