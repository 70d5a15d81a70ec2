--------------------------- MODULE FilterLanguage ---------------------------
(***************************************************************************)
(* The filter of a task listing, from the text a user typed to the tasks   *)
(* it selects: the two rewrites of the text, the scanner, the parser and   *)
(* the compiler, and the conjunction of a request's filter with the filter *)
(* of the view or saved filter it is read through.                         *)
(*                                                                         *)
(* A text is a sequence of lexemes set apart by spaces; a value that was   *)
(* quoted is the sequence of the lexemes between the quotes.  Of the two   *)
(* quote characters there is one.  A text is one line, which a comment     *)
(* ends.  Backslashes and functions are not typed, and every sign is       *)
(* followed by something.                                                  *)
(***************************************************************************)
EXTENDS Naturals, Sequences, SequencesExt, FiniteSetsExt, TLC

CONSTANTS
    Fragments,      \* what may be typed at once: sequences of lexemes
    MaxFragments,   \* how much is typed (bound)
    ViewFilters,    \* the texts stored with views and saved filters
    Words,          \* the lexemes that are words, the fields' names among them
    Number,         \* the words that are numbers, or lists of them: the set of those numbers
    StoredTasks     \* the tasks: records with a field for each filterable one

VARIABLES text, typed
filterVars == <<text, typed>>

ASSUME FilterAssumption ==
    /\ MaxFragments \in Nat /\ \A f \in Fragments \cup ViewFilters : f \in Seq(STRING)
    /\ DOMAIN Number \subseteq Words

NumericFields == {"priority"}
SubTables == {"labels", "reminders", "assignees"}
Fields == {"title"} \cup NumericFields \cup SubTables

\* A column that is NULL.
Unset == 99

HumanOperators == [o \in {"in", "not in", "like"} |->
                     CASE o = "in" -> "?=" [] o = "not in" -> "?!=" [] o = "like" -> "~"]
Signs == {"=", "!=", "<", ">", "~", "?=", "?!="}
Joins == {"&&", "||"}
Boundaries == Joins \cup {"(", ")"}

-----------------------------------------------------------------------------
(* Rewriting the text.                                                     *)

QuotesIn(s, from, to) == Cardinality({i \in from..to : s[i] = "'"})

\* Quotes pair up from the left; one that is never closed is an ordinary character.
InQuotedRun(s, i) ==
    /\ QuotesIn(s, 1, i - 1) % 2 = 1
    /\ \E j \in (i + 1)..Len(s) : s[j] = "'"

\* MUTANT of ReplaceOperators: a plain replacement, quoted or not.
ReplaceEverywhere(s) == [i \in DOMAIN s |->
    IF s[i] \in DOMAIN HumanOperators THEN HumanOperators[s[i]] ELSE s[i]]
ReplaceOperators(s) == [i \in DOMAIN s |->
    IF s[i] \in DOMAIN HumanOperators /\ ~InQuotedRun(s, i) THEN HumanOperators[s[i]] ELSE s[i]]

\* A value quoted at both ends is left as written; any other is quoted, its quotes escaped.
QuoteValue(v) ==
    IF Head(v) = "'" /\ Last(v) = "'" THEN v
    ELSE <<"'">> \o [i \in DOMAIN v |-> IF v[i] = "'" THEN "\\'" ELSE v[i]] \o <<"'">>

\* Where a comparison starts: a word, a sign, and something that may be its value.
Comparisons(s) == {i \in 1..(Len(s) - 2) : s[i] \in Words /\ s[i + 1] \in Signs
                                             /\ s[i + 2] \notin Boundaries}

\* The value reaches to the next join or bracket, even one that is within quotes.
RECURSIVE QuoteValues(_)
QuoteValues(s) ==
    IF Comparisons(s) = {} THEN s
    ELSE LET first == Min(Comparisons(s))
             ends == {i \in (first + 2)..Len(s) : s[i] \in Boundaries}
             end == IF ends = {} THEN Len(s) ELSE Min(ends) - 1
         IN  SubSeq(s, 1, first + 1) \o QuoteValue(SubSeq(s, first + 2, end))
               \o QuoteValues(SubSeq(s, end + 1, Len(s)))

Preprocess(s) == QuoteValues(ReplaceOperators(s))

-----------------------------------------------------------------------------
(* Scanning.                                                               *)

Outside(s, i) == QuotesIn(s, 1, i - 1) % 2 = 0
Depth(s, n) == Cardinality({i \in 1..n : s[i] = "(" /\ Outside(s, i)})
             - Cardinality({i \in 1..n : s[i] = ")" /\ Outside(s, i)})

\* The places where the group or the quoted text that s opens with may end: a comment
\* hides no bracket and no quote from them.
ClosingBrackets(s) == {i \in DOMAIN s : s[i] = ")" /\ Outside(s, i) /\ Depth(s, i) = 0}
ClosingQuotes(s) == {i \in 2..Len(s) : s[i] = "'"}

Unescaped(v) == [i \in DOMAIN v |-> IF v[i] = "\\'" THEN "'" ELSE v[i]]

\* The first token of s and the number of lexemes it takes; "unexpected" for an error.
Token(s) ==
    CASE s[1] = "(" ->
           IF ClosingBrackets(s) = {} THEN [type |-> "unexpected", size |-> Len(s)]
           ELSE [type |-> "group", size |-> Min(ClosingBrackets(s)),
                 literal |-> SubSeq(s, 2, Min(ClosingBrackets(s)) - 1)]
      [] s[1] = "'" ->
           IF ClosingQuotes(s) = {} THEN [type |-> "unexpected", size |-> Len(s)]
           ELSE [type |-> "operand", size |-> Min(ClosingQuotes(s)),
                 literal |-> Unescaped(SubSeq(s, 2, Min(ClosingQuotes(s)) - 1))]
      [] s[1] \in Words \cup DOMAIN HumanOperators ->
           [type |-> IF s[1] \in DOMAIN Number /\ Cardinality(Number[s[1]]) > 1
                     THEN "unexpected" ELSE "operand", size |-> 1, literal |-> <<s[1]>>]
      [] s[1] \in Signs -> [type |-> "sign", size |-> 1, literal |-> <<s[1]>>]
      [] s[1] \in Joins -> [type |-> "join", size |-> 1, literal |-> <<s[1]>>]
      [] s[1] = "//" -> [type |-> "comment", size |-> Len(s), literal |-> Tail(s)]
      [] OTHER -> [type |-> "unexpected", size |-> Len(s)]

RECURSIVE Scan(_)
Scan(s) == IF s = <<>> THEN <<>>
           ELSE <<Token(s)>> \o Scan(SubSeq(s, Token(s).size + 1, Len(s)))

-----------------------------------------------------------------------------
(* Parsing: a step for every token, from an operand over a sign to an      *)
(* operand, then a join.  A group is taken at any of these points and      *)
(* drops a comparison that had begun; a comment is passed over.            *)

Comparator(sign) == CASE sign = "~" -> "like" [] sign = "?=" -> "in"
                      [] sign = "?!=" -> "not in" [] OTHER -> sign

Condition(join, left, op, value) ==
    [join |-> join, group |-> FALSE, nodes |-> <<>>, field |-> left, cmp |-> op, value |-> value]
Group(join, nodes) ==
    [join |-> join, group |-> TRUE, nodes |-> nodes, field |-> <<>>, cmp |-> "", value |-> <<>>]

Start == [ok |-> TRUE, step |-> "left", join |-> "&&", left |-> <<>>, op |-> "", nodes |-> <<>>]

RECURSIVE Parse(_)
ParseToken(at, token) ==
    CASE ~at.ok \/ token.type = "comment" -> at
      [] at.ok /\ token.type = "group" ->
           LET nested == Parse(token.literal)
           IN  [at EXCEPT !.ok = nested.ok, !.nodes = Append(@, Group(at.join, nested.nodes)),
                          !.step = "join"]
      [] at.ok /\ at.step = "left" /\ token.type = "operand" ->
           [at EXCEPT !.left = token.literal, !.step = "sign"]
      [] at.ok /\ at.step = "sign" /\ token.type = "sign" ->
           [at EXCEPT !.op = token.literal[1], !.step = "right"]
      [] at.ok /\ at.step = "right" /\ token.type = "operand" ->
           [at EXCEPT !.nodes = Append(@, Condition(at.join, at.left, Comparator(at.op), token.literal)),
                      !.step = "join"]
      [] at.ok /\ at.step = "join" /\ token.type = "join" ->
           [at EXCEPT !.join = token.literal[1], !.step = "left"]
      [] OTHER -> [at EXCEPT !.ok = FALSE]
Parse(s) ==
    LET end == FoldLeft(ParseToken, Start, Scan(s))
    IN  [ok |-> end.ok /\ end.step = "join", nodes |-> end.nodes]

-----------------------------------------------------------------------------
(* Compiling: what the parsed conditions select.                           *)

IsNumber(value) == Len(value) = 1 /\ value[1] \in DOMAIN Number

\* A condition on assignees with "like" is dropped, and its join with it.
IsDropped(c) == c.field = <<"assignees">> /\ c.cmp = "like"

ValueFits(c) ==
    LET field == c.field[1]
    IN  \/ field \in {"title", "assignees"}
        \/ c.cmp # "like" /\ IsNumber(c.value)
             /\ (c.cmp \in {"in", "not in"} \/ Cardinality(Number[c.value[1]]) = 1)

RECURSIVE Valid(_)
Valid(nodes) == \A i \in DOMAIN nodes :
    IF nodes[i].group THEN Valid(nodes[i].nodes)
    ELSE nodes[i].field \in {<<f>> : f \in Fields} /\ (IsDropped(nodes[i]) \/ ValueFits(nodes[i]))

\* The filter of a text: no text, no condition.
Filter(s) ==
    IF s = <<>> THEN [ok |-> TRUE, nodes |-> <<>>]
    ELSE LET parsed == Parse(Preprocess(s))
         IN  [ok |-> parsed.ok /\ Valid(parsed.nodes), nodes |-> parsed.nodes]

Ranging == {"<", ">"}
Negating == {"!=", "not in"}

Values(c) == IF c.field[1] \in {"title", "assignees"} THEN {c.value} ELSE Number[c.value[1]]

Compares(stored, c) ==
    CASE c.cmp \in {"=", "in"} -> stored \in Values(c)
      [] c.cmp \in Negating -> stored \notin Values(c)
      [] c.cmp = "<" -> \A v \in Values(c) : stored < v
      [] c.cmp = ">" -> \A v \in Values(c) : stored > v
      [] c.cmp = "like" -> \A v \in Values(c) : v \in SubSeqs(stored)

\* NULL compares with nothing, unless the listing includes nulls; then 0 is one too.
OnColumn(t, c, nulls) ==
    LET stored == t[c.field[1]]
        numeric == c.field[1] \in NumericFields
    IN  \/ ~(numeric /\ stored = Unset) /\ Compares(stored, c)
        \/ nulls /\ numeric /\ stored \in {Unset, 0}

\* MUTANT of OnSubTable: the rows that differ are looked for, not their absence.
OnDifferentRow(t, cs, nulls) ==
    LET rows == t[cs[1].field[1]]
    IN  \/ \E r \in rows : \A i \in DOMAIN cs : Compares(r, cs[i])
        \/ nulls /\ rows = {}
OnSubTable(t, cs, nulls) ==
    LET rows == t[cs[1].field[1]]
        found == \E r \in rows : \A i \in DOMAIN cs :
                   IF cs[i].cmp \in Negating THEN r \in Values(cs[i]) ELSE Compares(r, cs[i])
    IN  \/ IF cs[1].cmp \in Negating THEN ~found ELSE found
        \/ nulls /\ rows = {}

IsSubTable(c) == ~c.group /\ c.field[1] \in SubTables

\* Adjacent ranges over one sub-table joined by && are asked of one row.
\* MUTANT of Merges: whatever joins them.
MergesAnyhow(c, next) ==
    IsSubTable(c) /\ IsSubTable(next) /\ c.field = next.field /\ c.cmp \in Ranging /\ next.cmp \in Ranging
Merges(c, next) ==
    /\ IsSubTable(c) /\ IsSubTable(next) /\ c.field = next.field
    /\ c.cmp \in Ranging /\ next.cmp \in Ranging /\ next.join = "&&"

WindowEnd(nodes, i) ==
    Max({j \in i..Len(nodes) : \A k \in i..(j - 1) : Merges(nodes[k], nodes[k + 1])})

RECURSIVE AllDropped(_)
AllDropped(nodes) == \A i \in DOMAIN nodes :
    IF nodes[i].group THEN AllDropped(nodes[i].nodes) ELSE IsDropped(nodes[i])

\* The nodes that become a clause of their own.
Clauses(nodes) == SelectSeq([i \in DOMAIN nodes |-> i], LAMBDA i :
    ~AllDropped(<<nodes[i]>>) /\ ~(i > 1 /\ Merges(nodes[i - 1], nodes[i])))

\* The clauses are joined from the left, neither operator before the other;
\* the first one's join says nothing, and no clause at all selects every task.
RECURSIVE Selected(_, _)
Clause(nodes, i, nulls) ==
    IF nodes[i].group THEN Selected(nodes[i].nodes, nulls)
    ELSE {t \in StoredTasks : IF IsSubTable(nodes[i])
                              THEN OnSubTable(t, SubSeq(nodes, i, WindowEnd(nodes, i)), nulls)
                              ELSE OnColumn(t, nodes[i], nulls)}
Selected(nodes, nulls) ==
    IF AllDropped(nodes) THEN StoredTasks
    ELSE LET clauses == Clauses(nodes)
             Join(soFar, i) == IF nodes[i].join = "||" THEN soFar \cup Clause(nodes, i, nulls)
                               ELSE soFar \cap Clause(nodes, i, nulls)
         IN  FoldLeft(Join, Clause(nodes, Head(clauses), nulls), Tail(clauses))

\* MUTANT of Combined: the stored filter comes first.
StoredFirst(request, stored) ==
    IF request = <<>> THEN stored
    ELSE <<"(">> \o stored \o <<")", "&&", "(">> \o request \o <<")">>
Combined(request, stored) ==
    IF request = <<>> THEN stored
    ELSE <<"(">> \o request \o <<")", "&&", "(">> \o stored \o <<")">>

-----------------------------------------------------------------------------
FilterInit == text = <<>> /\ typed = 0

\* The user types on; any text may be sent.
Type == \E f \in Fragments :
    /\ typed < MaxFragments
    /\ text' = text \o f /\ typed' = typed + 1

FilterSpec == FilterInit /\ [][Type]_filterVars

-----------------------------------------------------------------------------
(* Properties.                                                             *)

SelectedBy(filter) == Selected(filter.nodes, FALSE)

StoredFilter == [v \in ViewFilters |-> Filter(v)]
StoredSelection == [v \in ViewFilters |-> SelectedBy(StoredFilter[v])]

\* The filter as it is scanned closes what it opens and nothing else, and no quote of it
\* pairs with one of the view's.
Balanced(s) ==
    LET scanned == Preprocess(s)
    IN  /\ \A part \in {s, scanned} : QuotesIn(part, 1, Len(part)) % 2 = 0
        /\ \A n \in DOMAIN scanned : Depth(scanned, n) >= 0
        /\ Depth(scanned, Len(scanned)) = 0

\* A task that a view's filter leaves out is not listed there: _merge_view_filter says
\* that "both are ANDed and each is parenthesised", _with_filter that it ANDs,
\* "parenthesising both sides".
Narrowed ==
    \A v \in ViewFilters :
      LET all == Filter(Combined(text, v)) IN all.ok => SelectedBy(all) \subseteq StoredSelection[v]

\* It is so whatever the request's filter says, even one that does not parse by itself
\* and closes a bracket it did not open; such a one may not hold a comment, though.
ViewNarrows == Balanced(text) \/ "//" \notin ToSet(text) => Narrowed

\* A request's filter and a view's that are each accepted are accepted together, and
\* select the tasks that both select.
ConjunctionExact ==
    LET alone == Filter(text)
    IN  alone.ok /\ Balanced(text) => \A v \in ViewFilters :
          LET all == Filter(Combined(text, v))
          IN  all.ok /\ SelectedBy(all) = SelectedBy(alone) \cap StoredSelection[v]

\* Whatever a request asks for in a view, the view's own filter holds, and two sound
\* filters mean together what they mean apart.
ViewFilterHolds == ViewNarrows /\ ConjunctionExact

\* The last condition of a filter is joined to all that comes before it, except that
\* ranges of one sub-table are met by one row and a dropped condition joins nothing.
LastJoinsAll ==
    LET nodes == Filter(text).nodes IN Filter(text).ok /\ Len(nodes) > 1 =>
      LET front == Selected(Front(nodes), FALSE)
          last == Selected(<<Last(nodes)>>, FALSE)
          all == Selected(nodes, FALSE)
      IN  IF AllDropped(<<Last(nodes)>>) THEN all = front
          ELSE IF AllDropped(Front(nodes)) THEN all = last
          ELSE IF Last(nodes).join = "||" THEN all = front \cup last
          ELSE /\ all \subseteq front \cap last
               /\ all = front \cap last \/ Last(nodes).field = Last(Front(nodes)).field

Negated == [c \in {"=", "!=", "in", "not in"} |->
              CASE c = "=" -> "!=" [] c = "!=" -> "=" [] c = "in" -> "not in" [] c = "not in" -> "in"]

\* A condition and its negation share no task, and between them, with nulls
\* included, leave none out: one row that differs does not make a task differ.
NegationComplements ==
    Filter(text).ok => \A i \in DOMAIN Filter(text).nodes :
      LET c == Filter(text).nodes[i]
          Both(nulls) == <<Selected(<<c>>, nulls), Selected(<<[c EXCEPT !.cmp = Negated[@]]>>, nulls)>>
      IN  c.cmp \in DOMAIN Negated =>
            /\ Both(FALSE)[1] \cap Both(FALSE)[2] = {}
            /\ Both(TRUE)[1] \cup Both(TRUE)[2] = StoredTasks

RECURSIVE ValuesIn(_)
ValuesIn(nodes) == UNION {IF nodes[i].group THEN ValuesIn(nodes[i].nodes) ELSE {nodes[i].value} :
                            i \in DOMAIN nodes}

\* A value that was typed in quotes reaches its condition as it was typed, words that
\* are operators elsewhere included, if no quote before it is left open and no comment
\* begun.
Keeps(i, j) == \E v \in ValuesIn(Filter(text).nodes) : SubSeq(text, i + 1, j - 1) \in SubSeqs(v)
QuotedRun(i, j) ==
    /\ 2 < i /\ i < j /\ text[i] = "'" /\ text[j] = "'" /\ QuotesIn(text, i + 1, j - 1) = 0
    /\ text[i - 1] \in Signs \cup DOMAIN HumanOperators /\ (i > 3 => text[i - 3] \in Boundaries)
QuotedKept ==
    Filter(text).ok => \A i, j \in DOMAIN text :
      /\ QuotedRun(i, j) /\ QuotesIn(text, 1, i - 1) % 2 = 0
      /\ "//" \notin ToSet(SubSeq(text, 1, i - 1))
      => Keeps(i, j)

=============================================================================
