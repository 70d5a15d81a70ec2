----------------------------- MODULE RouteKeys ------------------------------
(***************************************************************************)
(* What an API token may reach.  Every route registers under a key, a      *)
(* group and an action, derived from its path without the parameters; the  *)
(* registry publishes one route for each key; a token is granted keys, and *)
(* a request made with it is admitted when the key its route resolves to   *)
(* is among them.  Distinct routes may derive one key: the second one gets *)
(* its method appended, or the key is declared to be shared, or the server *)
(* does not start.  Building a second application registers the routes a   *)
(* second time in the same registry.                                       *)
(*                                                                         *)
(* The model lets the routes register in any order.  Names are sequences   *)
(* of their parts, which the code joins with an underscore.                *)
(***************************************************************************)
EXTENDS Naturals, Sequences, SequencesExt, FiniteSetsExt

CONSTANTS
    Mounted,        \* the routes: method, names on the path, and whether a parameter ends it
    Registering,    \* those that are registered
    TokenIds,
    UnknownKey      \* a key that a token may be granted though no route has it

NoKey == [group |-> <<>>, action |-> <<>>]

ASSUME RoutesAssumption == Registering \subseteq Mounted /\ UnknownKey # NoKey

VARIABLES
    published,      \* by key: the route that GET /routes shows
    registered,     \* by route: the key it got
    aborted,        \* whether a registration raised
    apiTokens,      \* by token: the keys granted, or none when there is no token
    calling         \* the request that was admitted: its token's grants and its route

routeVars == <<published, registered, aborted, apiTokens, calling>>

NoCall == [route |-> <<>>, grants |-> {}]

RoutesInit ==
    /\ published = <<>> /\ registered = <<>> /\ aborted = FALSE
    /\ apiTokens = [i \in TokenIds |-> {}] /\ calling = NoCall

-----------------------------------------------------------------------------
(* The tables.                                                             *)

CrudResources ==
    {<<name>> : name \in {"projects", "tasks", "teams", "labels", "filters", "notifications", "webhooks",
                          "reactions", "shares", "buckets", "views", "assignees", "comments",
                          "relations", "attachments", "time_entries"}}
      \cup {<<"projects", name>> : name \in {"views", "teams", "users", "shares", "webhooks", "buckets"}}
      \cup {<<"tasks", name>> : name \in {"attachments", "assignees", "labels", "comments", "relations"}}
      \cup {<<"teams", "members">>, <<"projects", "views", "tasks">>}
GroupRenames == {<<"projects", "tasks">>, <<"tasks", "all">>}   \* to tasks
BulkRenamed == <<"projects", "tasks", "bulk">>                  \* to tasks_bulk
Excluded(group) ==
    \/ group \in {<<"token", "test">>, <<"subscriptions">>, <<"tokens">>, <<"*">>, <<"oauth", "authorize">>}
    \/ Len(group) > 1 /\ group[1] = "user"
Collisions == {[group |-> <<"tasks">>, action |-> <<"read_all">>]}
DeclaredRoute(key) == CHOOSE r \in Mounted : r.names = key.group /\ r.method = "GET" /\ ~r.param
JwtOnly(r) ==
    \/ r.names \in {<<"tokens">>, <<"user", "logout">>}
    \/ IsPrefix(<<"user", "settings", "token", "caldav">>, r.names)
    \/ r.names[1] = "admin" /\ (Len(r.names) > 1 \/ r.param)
\* For any token, whatever it was granted: the route that tells whether it is valid.
Unchecked(r) == r.names = <<"token", "test">> /\ ~r.param

-----------------------------------------------------------------------------
(* Keys.                                                                   *)

GroupOf(r) == IF r.names \in GroupRenames THEN <<"tasks">>
              ELSE IF r.names = BulkRenamed THEN <<"tasks", "bulk">> ELSE r.names

ActionFor(r) == CASE r.method = "PUT" -> "create"
                  [] r.method \in {"POST", "PATCH"} -> "update"
                  [] r.method = "DELETE" -> "delete"
                  [] OTHER -> IF r.param THEN "read_one" ELSE "read_all"

IsBulk(group) == Len(group) > 1 /\ Last(group) = "bulk"
IsCrud(group) == group \in CrudResources \/ (IsBulk(group) /\ Front(group) \in CrudResources)

\* The key of a route whose key its path tells.
CrudKey(r) == LET group == GroupOf(r)
              IN  IF IsBulk(group) THEN [group |-> Front(group), action |-> <<ActionFor(r), "bulk">>]
                  ELSE [group |-> group, action |-> <<ActionFor(r)>>]

\* The others go under their first name, or under "other"; whoever comes second has
\* its method appended.
PlainKey(r) == IF Len(r.names) = 1 THEN [group |-> <<"other">>, action |-> r.names]
               ELSE [group |-> <<Head(r.names)>>, action |-> Tail(r.names)]
KeyWithMethod(r) == [PlainKey(r) EXCEPT !.action = Append(@, r.method)]
FreeKey(r) == IF PlainKey(r) \in DOMAIN published THEN KeyWithMethod(r) ELSE PlainKey(r)

CrudAmong(routes) == {r \in routes : ~Excluded(GroupOf(r)) /\ IsCrud(GroupOf(r))}
PlainAmong(routes) == {r \in routes : ~Excluded(GroupOf(r)) /\ ~IsCrud(GroupOf(r))}

\* The lists of routes themselves: the keys that the tables file routes under are shared
\* only where that is declared, names that two routes share go with different methods,
\* and no names look like another route's key.
ListsFit(routes) ==
    /\ \A r, s \in CrudAmong(routes) : CrudKey(r) = CrudKey(s) => r = s \/ CrudKey(r) \in Collisions
    /\ \A r, s \in PlainAmong(routes) : KeyWithMethod(r) = KeyWithMethod(s) => r = s
    /\ \A r, s \in PlainAmong(routes) : PlainKey(r) # KeyWithMethod(s)
    /\ \A r \in PlainAmong(routes) : {PlainKey(r), KeyWithMethod(r)} \cap Collisions = {}
    /\ \A r \in PlainAmong(routes), s \in CrudAmong(routes) :
         CrudKey(s) \notin {PlainKey(r), KeyWithMethod(r)}

\* RouteLists holds the server's own lists; IdentityMC states that they fit, too.
ASSUME ListsAssumption == ListsFit(Registering)

CrudRoutes == CrudAmong(Registering)
PlainRoutes == PlainAmong(Registering)

\* MUTANT of Lookup: derived for every route, remembered for none.
LookupDerived(r) == IF Excluded(GroupOf(r)) THEN NoKey
                    ELSE IF IsCrud(GroupOf(r)) THEN CrudKey(r) ELSE PlainKey(r)
\* The key that a token has to be granted for a route.
Lookup(r) == IF Excluded(GroupOf(r)) THEN NoKey
             ELSE IF IsCrud(GroupOf(r)) THEN CrudKey(r)
             ELSE IF r \in DOMAIN registered THEN registered[r] ELSE NoKey

-----------------------------------------------------------------------------
(* Registering.                                                            *)

Publish(key, r) == published' = [k \in DOMAIN published \cup {key} |-> IF k = key THEN r ELSE published[k]]
Remember(key, r) == registered' = [s \in DOMAIN registered \cup {r} |-> IF s = r THEN key ELSE registered[s]]

RegisterCrud(r) ==
    LET key == CrudKey(r)
        free == key \notin DOMAIN published \/ published[key] = r
    IN  IF free \/ key \in Collisions
        THEN Publish(key, IF free THEN r ELSE DeclaredRoute(key)) /\ Remember(key, r) /\ UNCHANGED aborted
        ELSE aborted' = TRUE /\ UNCHANGED <<published, registered>>

RegisterOther(r) == Publish(FreeKey(r), r) /\ Remember(FreeKey(r), r) /\ UNCHANGED aborted

Known(r) == r \in DOMAIN registered

\* Once more changes nothing; without keys neither does the first time.
Register(r) ==
    /\ ~aborted
    /\ IF Known(r) \/ Excluded(GroupOf(r)) THEN UNCHANGED <<published, registered, aborted>>
       ELSE IF IsCrud(GroupOf(r)) THEN RegisterCrud(r) ELSE RegisterOther(r)
    /\ UNCHANGED <<apiTokens, calling>>

Serving == ~aborted /\ \A r \in Registering : r \in DOMAIN registered \/ Excluded(GroupOf(r))

-----------------------------------------------------------------------------
(* Tokens, once the server serves.                                         *)

\* Any keys: a grant is not looked up in the registry.
CreateToken(i) ==
    /\ Serving /\ apiTokens[i] = {}
    /\ \E key \in DOMAIN published \cup {UnknownKey} : apiTokens' = [apiTokens EXCEPT ![i] = {key}]
    /\ UNCHANGED <<published, registered, aborted, calling>>

\* Deleted, or past its time.
EndToken(i) ==
    /\ apiTokens[i] # {} /\ apiTokens' = [apiTokens EXCEPT ![i] = {}]
    /\ UNCHANGED <<published, registered, aborted, calling>>

\* MUTANT of Authorises: the group alone.
AuthorisesGroup(grants, key) == \E granted \in grants : granted.group = key.group
Authorises(grants, key) == key \in grants

\* The request goes on, whatever becomes of the token.
Admit(i, r) ==
    /\ Serving /\ calling = NoCall /\ apiTokens[i] # {}
    /\ ~JwtOnly(r)
    /\ Unchecked(r) \/ (Lookup(r) # NoKey /\ Authorises(apiTokens[i], Lookup(r)))
    /\ calling' = [route |-> r, grants |-> apiTokens[i]]
    /\ UNCHANGED <<published, registered, aborted, apiTokens>>

ServeCall ==
    /\ calling # NoCall /\ calling' = NoCall
    /\ UNCHANGED <<published, registered, aborted, apiTokens>>

RoutesNext ==
    \/ \E r \in Registering : Register(r)
    \/ \E i \in TokenIds : CreateToken(i) \/ EndToken(i) \/ \E r \in Mounted : Admit(i, r)
    \/ ServeCall

RoutesSpec == RoutesInit /\ [][RoutesNext]_routeVars

-----------------------------------------------------------------------------
(* Properties.                                                             *)

\* In whatever order and however often the routes register, the server starts, no two of
\* them share a key unless the sharing is declared, and the key that a request is held
\* to is the one that is published for its route.
RoutesToldApart ==
    /\ ~aborted
    /\ \A r \in DOMAIN registered :
         /\ Lookup(r) \in DOMAIN published
         /\ published[Lookup(r)] = r \/ Lookup(r) \in Collisions
         /\ \A s \in DOMAIN registered \ {r} : Lookup(s) = Lookup(r) => Lookup(r) \in Collisions

\* A request that a token got through is for a route that was published under a key the
\* token was granted, or for one that is declared to share it; the routes nobody registers
\* (see UnregisteredRefused) and the one that tests a token aside.
AdmittedAsGranted ==
    calling # NoCall /\ calling.route \in Registering /\ ~Unchecked(calling.route) =>
      \E key \in calling.grants \cap DOMAIN published :
        published[key] = calling.route \/ (key \in Collisions /\ CrudKey(calling.route) = key)

\* "A path absent from the registry is refused to every token" (api/v1/notifications.py).
UnregisteredRefused ==
    calling # NoCall => calling.route \in Registering \/ Unchecked(calling.route)
=============================================================================
