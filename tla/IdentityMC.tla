----------------------------- MODULE IdentityMC -----------------------------
(***************************************************************************)
(* Who is who and may do what, checked in one run: accounts, shares, rows  *)
(* that are somebody's, and the keys of API tokens.  None writes what      *)
(* another decides on, so that mixing them would show nothing more; a      *)
(* behaviour is one of theirs while the others rest.                       *)
(***************************************************************************)
EXTENDS Access, Accounts, OwnedRows, RouteKeys, RouteLists

AccessRest == AccessInit /\ UNCHANGED accessVars
AccountsRest == AccountsInit /\ UNCHANGED accountVars
OwnedRest == OwnedInit /\ UNCHANGED ownedVars
RoutesRest == RoutesInit /\ UNCHANGED routeVars

IdentityInit == AccessInit /\ AccountsInit /\ OwnedInit /\ RoutesInit

IdentityNext ==
    \/ AccountsRest /\ OwnedRest /\ RoutesRest /\ AccessNext
    \/ AccessRest /\ OwnedRest /\ RoutesRest /\ AccountsNext
    \/ AccessRest /\ AccountsRest /\ RoutesRest /\ OwnedNext
    \/ AccessRest /\ AccountsRest /\ OwnedRest /\ RoutesNext

IdentitySpec == IdentityInit /\ [][IdentityNext]_<<accessVars, accountVars, ownedVars, routeVars>>

-----------------------------------------------------------------------------
(* Values of the constants.                                                *)

OneBelow == [p \in Projects |-> p - 1]
OwnersApart == [p \in Projects |-> p]

ApartRights == [u \in Makers |-> [p \in Places |-> CASE u = p -> "admin" [] u < p -> "write" [] u > p -> "read"]]

Route(method, names, param) == [method |-> method, names |-> names, param |-> param]

\* Of the lists REGISTERED_ROUTES: those that share a key, those that share a plain key,
\* bulk and item routes, and some that are alone.
SomeRegistered ==
    {Route("GET", <<"tasks">>, FALSE), Route("GET", <<"tasks", "all">>, FALSE),
     Route("GET", <<"projects", "tasks">>, FALSE), Route("PUT", <<"projects", "tasks">>, FALSE),
     Route("POST", <<"tasks", "bulk">>, FALSE), Route("POST", <<"tasks">>, TRUE),
     Route("GET", <<"projects", "views", "buckets">>, FALSE),
     Route("PUT", <<"projects", "views", "buckets">>, FALSE),
     Route("POST", <<"projects", "views", "buckets">>, TRUE),
     Route("POST", <<"notifications">>, FALSE), Route("GET", <<"users">>, FALSE),
     Route("GET", <<"user">>, FALSE), Route("GET", <<"user", "timezones">>, FALSE)}

\* With the one that reads one notification, the tokens' own and the one that tests a token.
SomeMounted == SomeRegistered \cup {Route("POST", <<"notifications">>, TRUE), Route("GET", <<"tokens">>, FALSE),
                                   Route("GET", <<"token", "test">>, FALSE)}

\* What is assumed of the lists is true of the server's own, some of which are registered.
ASSUME ServerListsFit ==
    /\ ListsFit(RegisteredRoutes)
    /\ SomeRegistered \subseteq RegisteredRoutes
    /\ Cardinality(RegisteredRoutes) = 130

CreateLabels == [group |-> <<"labels">>, action |-> <<"create">>]
=============================================================================
