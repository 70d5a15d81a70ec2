---------------------------- MODULE CollectionsMC ----------------------------
(***************************************************************************)
(* Values of the constants of Collections: two tasks share a title, and    *)
(* the positions go against the ids and the titles.                        *)
(***************************************************************************)
EXTENDS Collections, TLC

TitlesWithTies == [t \in Tasks |-> t \div 2]
SomePositions == [t \in Tasks |-> 4 - t]

\* Those through a pseudo view sort by positions, which are dropped.  A page holds one
\* task, or as many as there may be.
SomeQueries ==
    {q \in [sort : {<<>>, <<"title">>, <<"position", "title">>}, orders : {<<>>, <<"desc">>},
            view : {NoView, 1, -1}, page : {1}, perPage : {0, 1}, expand : BOOLEAN] :
       q.view < 0 => q.sort = <<"position", "title">>}

LinkersAlike == Permutations(Linkers)
=============================================================================
