----------------------------- MODULE Collections -----------------------------
(***************************************************************************)
(* Reading tasks: one page of a sorted listing, the subtasks below it, the *)
(* columns of a board and the related tasks of each task, as operators on  *)
(* the relations that TaskRelations writes.  A page is one statement; two  *)
(* pages of one listing are two, and the database may order equal rows     *)
(* differently in each.                                                    *)
(*                                                                         *)
(* A scope is the set of live tasks that the project, the caller's access, *)
(* the filter and the search let through.                                  *)
(***************************************************************************)
EXTENDS TaskRelations, Sequences, SequencesExt

CONSTANTS
    Title,          \* the title of each task, as a number: only its order matters
    Position,       \* the position of each task in the view; 0 for no row
    MaxPerPage,     \* MAX_ITEMS_PER_PAGE (bound)
    Queries         \* what listings are asked for: fields and orders to sort by, view, page, ...

ASSUME CollectionsAssumption ==
    /\ IsFiniteSet(Tasks)
    /\ Title \in [Tasks -> Nat] /\ Position \in [Tasks -> Nat] /\ MaxPerPage \in Nat \ {0}
    /\ Queries \subseteq [sort : Seq(STRING), orders : Seq(STRING), view : Int,
                          page : Nat, perPage : Nat, expand : BOOLEAN]

-----------------------------------------------------------------------------
(* Sorting.                                                                *)

Sortable == {"id", "title", "position"}
Relevance == "relevance"

\* A listing outside of a view has none (0); pseudo views are negative.
NoView == 0

Direction(orders, i) == IF i > Len(orders) THEN "asc" ELSE orders[i]

WithoutPositions(params) ==
    LET kept[n \in 0..Len(params)] ==
          IF n = 0 THEN <<>>
          ELSE IF params[n].by = "position" THEN kept[n - 1] ELSE Append(kept[n - 1], params[n])
    IN  kept[Len(params)]

\* parse_sort: the parameters, those of positions dropped in a pseudo view.
ParsedSort(fields, orders, view) ==
    LET all == [i \in DOMAIN fields |-> [by |-> fields[i], order |-> Direction(orders, i),
                                         view |-> IF fields[i] = "position" THEN view ELSE NoView]]
    IN  IF view < 0 THEN WithoutPositions(all) ELSE all

SortValid(p) ==
    /\ p.order \in {"asc", "desc"}
    /\ p.by = "position" => p.view # NoView
    /\ p.by \in Sortable \cup {Relevance}

\* A listing whose parameters are not all valid is refused.
Accepted(query) == \A p \in Range(ParsedSort(query.sort, query.orders, query.view)) : SortValid(p)

WithViewPosition(params, view) ==
    IF \E i \in DOMAIN params : params[i].by = "position" THEN params
    ELSE Append(params, [by |-> "position", order |-> "asc", view |-> view])

\* MUTANT of WithIdTiebreaker: equal tasks are left to the database.
WithoutTiebreaker(params) == params
WithIdTiebreaker(params) ==
    IF params # <<>> /\ Last(params).by = "id" THEN params
    ELSE Append(params, [by |-> "id", order |-> "asc", view |-> NoView])

SortOf(query) ==
    LET params == ParsedSort(query.sort, query.orders, query.view)
    IN  WithIdTiebreaker(IF query.view = NoView THEN params ELSE WithViewPosition(params, query.view))

Value(by, t) == CASE by = "id" -> t [] by = "title" -> Title[t]
                  [] by = "position" -> Position[t] [] by = Relevance -> 0

Before(p, t, u) == IF p.order = "desc" THEN Value(p.by, t) > Value(p.by, u)
                   ELSE Value(p.by, t) < Value(p.by, u)

\* No row u comes before t by the first parameter that tells the two apart.
InOrder(params, t, u) ==
    \A i \in DOMAIN params : Before(params[i], u, t) => \E j \in 1..(i - 1) : Before(params[j], t, u)

\* The orders in which the database may return the tasks of S.
Ordered(S, params) ==
    {s \in SetToSeqs(S) : \A i, j \in DOMAIN s : i < j => InOrder(params, s[i], s[j])}

-----------------------------------------------------------------------------
(* Pages.                                                                  *)

\* Page 0 is everything; per_page 0 is the maximum, and nothing exceeds it.
PerPage(query) == IF query.perPage = 0 \/ query.perPage > MaxPerPage THEN MaxPerPage
                  ELSE query.perPage
Unlimited(query) == query.page < 1

Offset(query) == IF Unlimited(query) THEN 0 ELSE (query.page - 1) * PerPage(query)

PageOf(s, query) ==
    IF Unlimited(query) THEN s
    ELSE SubSeq(s, Offset(query) + 1,
                IF Offset(query) + PerPage(query) < Len(s) THEN Offset(query) + PerPage(query)
                ELSE Len(s))

TotalPages(total, perPage, resultCount) ==
    IF resultCount = 0 THEN 0 ELSE (total + perPage - 1) \div perPage

-----------------------------------------------------------------------------
(* Subtasks.                                                               *)

\* MUTANT of IsRoot: a parent hides its subtasks even where it is not listed.
IsRootAnywhere(t, scope) == ~\E r \in DOMAIN rows : rows[r].task = t /\ rows[r].kind = "parenttask"
IsRoot(t, scope) ==
    ~\E r \in DOMAIN rows : rows[r].task = t /\ rows[r].kind = "parenttask" /\ rows[r].other \in scope

Subtasks(T) == {rows[r].other : r \in {s \in DOMAIN rows : rows[s].kind = "subtask" /\ rows[s].task \in T}}

\* A round of the recursive query: UNION ALL keeps what it has met before, so
\* that it goes on for as long as there is a row to follow.
Round(roots) == [n \in 0..Cardinality(Tasks) |->
                   LET f[i \in 0..n] == IF i = 0 THEN Subtasks(roots) ELSE Subtasks(f[i - 1]) IN f[n]]
WalkEnds(roots) == Round(roots)[Cardinality(Tasks)] = {}

\* The walk passes through deleted tasks and those outside the scope.
DescendantsOf(roots) == (UNION Range(Round(roots))) \cap (alive \ roots)

-----------------------------------------------------------------------------
(* Listings.                                                               *)

Listed(scope, query) == IF query.expand THEN {t \in scope : IsRoot(t, scope)} ELSE scope

\* What one page may be: its tasks in order, what hangs below them, and the total.
ReadFlat(scope, query) ==
    {[page  |-> PageOf(s, query),
      below |-> IF query.expand THEN DescendantsOf(Range(PageOf(s, query))) ELSE {},
      total |-> Cardinality(Listed(scope, query))] :
        s \in Ordered(Listed(scope, query), SortOf(query))}

\* A board reads every column whole, or its first page whatever page is asked for.
ReadBuckets(scope, column, query) ==
    [b \in Range(column) |->
       LET tasks == {t \in scope : column[t] = b}
           s == CHOOSE o \in Ordered(tasks, <<[by |-> "position", order |-> "asc", view |-> query.view]>>) : TRUE
       IN  [tasks |-> IF Unlimited(query) THEN s ELSE PageOf(s, [query EXCEPT !.page = 1]),
            count |-> Cardinality(tasks)]]

-----------------------------------------------------------------------------
(* Related tasks, read for one task or fetched ahead for a page of them.   *)

FarEnds(T) == {rows[r].other : r \in {s \in DOMAIN rows : rows[s].task \in T}} \cap alive

RelatedTasks(t, readable) ==
    [k \in Kinds |-> {o \in FarEnds({t}) \cap readable :
                        Stored([task |-> t, other |-> o, kind |-> k])}]

\* build_prefetch reads the rows of all tasks of the page, the tasks at their
\* far ends and what the caller may do there, once each.
\* MUTANT of Prefetch: the rows are those that point at the page.
PrefetchFarRows(T, readable) ==
    [rows |-> {r \in DOMAIN rows : rows[r].other \in T}, ends |-> FarEnds(T),
     permitted |-> FarEnds(T) \cap readable]
Prefetch(T, readable) ==
    [rows |-> {r \in DOMAIN rows : rows[r].task \in T}, ends |-> FarEnds(T),
     permitted |-> FarEnds(T) \cap readable]

RelatedFromPrefetch(t, fetched) ==
    [k \in Kinds |-> {o \in fetched.ends \cap fetched.permitted :
                        \E r \in fetched.rows : rows[r] = [task |-> t, other |-> o, kind |-> k]}]

-----------------------------------------------------------------------------
(* Properties.                                                             *)

Scopes == {alive, alive \ {CHOOSE t \in Tasks : \A u \in Tasks : t <= u}}

\* No request is under way: listings depend on the stored rows alone.
Quiet == \A q \in Linkers : request[q] = Idle

OnPage(query, n) == [query EXCEPT !.page = n]

Expanded == [sort |-> <<>>, orders |-> <<>>, view |-> NoView, page |-> 1, perPage |-> 1, expand |-> TRUE]

\* However the tasks lie in its columns, a board shows what a listing does.
BoardCovers(scope, query) ==
    \A column \in [Tasks -> {1, 2}] :
      LET board == ReadBuckets(scope, column, OnPage(query, 0))
      IN  /\ UNION {Range(board[b].tasks) : b \in DOMAIN board} = scope
          /\ SumFunction([b \in DOMAIN board |-> board[b].count]) = Cardinality(scope)

\* Whatever order the database gives equal rows on each page, the pages 1 to
\* total_pages of a listing hold each of its tasks once, and the next one nothing.
PagesPartition ==
    Quiet => \A scope \in Scopes, query \in {q \in Queries : Accepted(q)} :
      LET listed == Listed(scope, query)
          pages == TotalPages(Cardinality(listed), PerPage(query), Cardinality(listed))
      IN  \A read \in [1..(pages + 1) -> Ordered(listed, SortOf(query))] :
            LET page(n) == PageOf(read[n], OnPage(query, n))
                all == FoldLeft(LAMBDA x, y : x \o y, <<>>, [n \in 1..pages |-> page(n)])
            IN  /\ Range(all) = listed /\ Len(all) = Cardinality(listed)
                /\ page(pages + 1) = <<>>
                /\ query.view # NoView => BoardCovers(scope, query)

\* With subtasks expanded, a task that is in scope is on a page, or below a task
\* that is, and the walk down from each page ends: roots are found by the rows of
\* one direction and descendants by those of the other, through deleted tasks and
\* tasks out of scope.  A cycle would hide its tasks, or make the walk endless.
ExpansionCovers ==
    Quiet /\ Acyclic => \A scope \in Scopes :
      LET roots == Listed(scope, Expanded)
          reads == UNION {ReadFlat(scope, OnPage(Expanded, n)) : n \in 1..Cardinality(roots)}
      IN  /\ WalkEnds(roots)
          /\ scope \subseteq UNION {Range(read.page) \cup read.below : read \in reads}

\* A task on a page shows the same relations as the task read by itself, and what
\* shows at one end of a relation shows at the other.
RelatedAgrees ==
    Quiet => \A t \in alive, readable \in Scopes, k \in Kinds :
      /\ \A page \in {alive, {t}} :
            RelatedFromPrefetch(t, Prefetch(page, readable)) = RelatedTasks(t, readable)
      /\ t \in readable => \A o \in RelatedTasks(t, readable)[k] :
                              t \in RelatedTasks(o, readable)[InverseKind[k]]
=============================================================================
