--------------------------- MODULE IdentityProofs ---------------------------
(***************************************************************************)
(* Proofs about OwnedRows, Accounts, Access and RouteKeys: who reaches     *)
(* which rows, what a request that nothing overtakes leaves as it was, and *)
(* what a token's keys let through; for any number of people, projects,    *)
(* teams, rows and routes.                                                 *)
(***************************************************************************)
EXTENDS OwnedRows, Accounts, Access, RouteKeys, FiniteSetTheorems, TLAPS

-----------------------------------------------------------------------------
(* Owned rows: a request reaches the rows of its user and no others.       *)

\* Ids are those that were handed out.
KeysInv ==
    /\ handedOut \in [OwnedTables -> Nat]
    /\ \A k \in DOMAIN owned : \E t \in OwnedTables : \E i \in 1..handedOut[t] : k = <<t, i>>

\* A filter's project id: that of a filter there is or was.
FilterPlaces == {FilterProject(f) : f \in 1..handedOut["saved_filters"]}
PlaceFits(k) ==
    /\ k[1] = "project_views" => owned[k].place \in Places \cup FilterPlaces
    /\ k[1] = "task_comments" => owned[k].place \in Places
    /\ k[1] = "webhooks" => owned[k].place \in Places \cup {NoPlace}

\* The views of a filter that is there were made by its owner.
FilterKey(p) == <<"saved_filters", FilterOf(p)>>
MakerFits(k) ==
    k[1] = "project_views" /\ owned[k].place \in FilterPlaces /\ FilterKey(owned[k].place) \in DOMAIN owned
    => owned[FilterKey(owned[k].place)].maker = owned[k].maker

OwnedInv == KeysInv /\ \A k \in DOMAIN owned : PlaceFits(k) /\ MakerFits(k)

-----------------------------------------------------------------------------
(* Pseudo project ids.                                                     *)

LEMMA FilterIds ==
    ASSUME NEW f \in Nat \ {0}
    PROVE  /\ FilterProject(f) \in Int /\ FilterProject(f) < -1
           /\ FilterOf(FilterProject(f)) = f /\ Kind(FilterProject(f)) = "filter"
BY DEF FilterProject, FilterOf, Kind, FavoritesProject

LEMMA ProjectIdsAreReal ==
    ASSUME NEW p \in Places
    PROVE  p \in Int /\ p > 0 /\ Kind(p) = "project"
BY OwnedAssumption DEF FilterOf, Kind, FavoritesProject

\* Whose a filter is, is looked up under its id.
LEMMA OwnerOfFilter ==
    ASSUME KeysInv, NEW u, NEW f
    PROVE  OwnsFilter(u, f) <=>
             <<"saved_filters", f>> \in DOMAIN owned /\ owned[<<"saved_filters", f>>].maker = u
<1>1. ASSUME NEW k \in DOMAIN owned, k[1] = "saved_filters", k[2] = f
      PROVE  k = <<"saved_filters", f>>
  BY <1>1 DEF KeysInv
<1> QED
  BY <1>1 DEF OwnsFilter, In, Id

\* Administering the project of a view is being entitled to it.
LEMMA AdminIsEntitled ==
    ASSUME OwnedInv, NEW u, NEW k \in DOMAIN owned, k[1] = "project_views"
    PROVE  IsAdminAt(u, owned[k].place) <=> Entitled(u, owned[k], k[1]) /\ ~Orphan(k)
<1>1. CASE owned[k].place \in Places
  <2>1. Kind(owned[k].place) = "project" /\ owned[k].place > 0
    BY <1>1, ProjectIdsAreReal
  <2> QED
    BY <2>1 DEF IsAdminAt, Entitled, Orphan
<1>2. CASE owned[k].place \in FilterPlaces
  <2>1. PICK f \in 1..handedOut["saved_filters"] : owned[k].place = FilterProject(f)
    BY <1>2 DEF FilterPlaces
  <2>2. f \in Nat \ {0}
    BY DEF OwnedInv, KeysInv, OwnedTables
  <2>3. Kind(owned[k].place) = "filter" /\ FilterOf(owned[k].place) = f /\ ~(owned[k].place > 0)
    BY <2>1, <2>2, FilterIds
  <2>4. Entitled(u, owned[k], k[1]) <=> owned[k].maker = u
    BY <2>3 DEF Entitled
  <2>5. OwnsFilter(u, f) <=>
             <<"saved_filters", f>> \in DOMAIN owned /\ owned[<<"saved_filters", f>>].maker = u
    BY OwnerOfFilter DEF OwnedInv
  <2>6. <<"saved_filters", f>> \in DOMAIN owned => owned[<<"saved_filters", f>>].maker = owned[k].maker
    BY <1>2, <2>3 DEF OwnedInv, MakerFits, FilterKey
  <2> QED
    BY <2>3, <2>4, <2>5, <2>6 DEF IsAdminAt, Orphan
<1> QED
  BY <1>1, <1>2 DEF OwnedInv, PlaceFits

-----------------------------------------------------------------------------
(* What requests reach, table by table.                                    *)

Theirs(u, table) == {k \in In(table) : Entitled(u, owned[k], k[1]) /\ ~Orphan(k)}

LEMMA KeyParts ==
    ASSUME OwnedInv, NEW k \in DOMAIN owned
    PROVE  k[1] \in OwnedTables /\ Id(k) \in RowIdsOf(k[1]) /\ k = <<k[1], Id(k)>>
BY DEF OwnedInv, KeysInv, Id, RowIdsOf

LEMMA ViewsReached ==
    ASSUME OwnedInv, NEW u
    PROVE  ViewRequests(u) = Theirs(u, "project_views")
<1>1. ASSUME NEW k \in ViewRequests(u) PROVE k \in Theirs(u, "project_views")
  <2>1. PICK path \in ViewNames, body \in ViewBodies : k \in ViewsOpen(u, path, body)
    BY DEF ViewRequests
  <2>2. /\ k \in In("project_views") /\ [place |-> owned[k].place, id |-> Id(k)] = Effective(path, body)
        /\ IsAdminAt(u, Gate(path, body))
    BY <2>1 DEF ViewsOpen
  <2>3. Gate(path, body) = owned[k].place
    BY <2>2 DEF Gate
  <2>4. k \in DOMAIN owned /\ k[1] = "project_views"
    BY <2>2 DEF In
  <2> QED
    BY <2>2, <2>3, <2>4, AdminIsEntitled DEF Theirs
<1>2. ASSUME NEW k \in Theirs(u, "project_views") PROVE k \in ViewRequests(u)
  <2> DEFINE path == [place |-> owned[k].place, id |-> Id(k)]
             body == [place |-> <<>>, id |-> <<>>]
  <2>1. k \in DOMAIN owned /\ k[1] = "project_views" /\ k \in In("project_views")
    BY DEF Theirs, In
  <2>2. IsAdminAt(u, owned[k].place)
    BY <2>1, AdminIsEntitled DEF Theirs
  <2>3. owned[k].place \in PlaceIds /\ Id(k) \in RowIdsOf("project_views")
    BY <2>1, KeyParts DEF OwnedInv, PlaceFits, PlaceIds, FilterPlaces
  <2>4. path \in ViewNames
    BY <2>3 DEF ViewNames
  <2>5. body \in ViewBodies
    BY DEF ViewBodies, Sendable
  <2>6. Effective(path, body) = path
    BY DEF Effective, Preferred
  <2>7. k \in ViewsOpen(u, path, body)
    BY <2>1, <2>2, <2>6 DEF ViewsOpen, Gate
  <2> HIDE DEF path, body
  <2> QED
    BY <2>4, <2>5, <2>7 DEF ViewRequests
<1> QED
  BY <1>1, <1>2

LEMMA FiltersReached ==
    ASSUME OwnedInv, NEW u
    PROVE  FilterRequests(u) = Theirs(u, "saved_filters")
<1>0. ASSUME NEW k \in In("saved_filters")
      PROVE  (Entitled(u, owned[k], k[1]) <=> owned[k].maker = u) /\ ~Orphan(k)
  BY <1>0 DEF In, Entitled, Orphan
<1>1. ASSUME NEW k \in FilterRequests(u) PROVE k \in Theirs(u, "saved_filters")
  <2>1. PICK path, sent : k \in FiltersOpen(u, Preferred(sent, path))
    BY DEF FilterRequests
  <2> QED
    BY <1>0, <2>1 DEF FiltersOpen, Theirs
<1>2. ASSUME NEW k \in Theirs(u, "saved_filters") PROVE k \in FilterRequests(u)
  <2>1. k \in In("saved_filters") /\ owned[k].maker = u
    BY <1>0 DEF Theirs
  <2>2. Id(k) \in RowIdsOf("saved_filters")
    BY <2>1, KeyParts DEF In
  <2>3. <<>> \in Sendable(RowIdsOf("saved_filters"))
    BY DEF Sendable
  <2>4. k \in FiltersOpen(u, Preferred(<<>>, Id(k)))
    BY <2>1 DEF FiltersOpen, Preferred
  <2> QED
    BY <2>2, <2>3, <2>4 DEF FilterRequests
<1> QED
  BY <1>1, <1>2

LEMMA CommentsReached ==
    ASSUME OwnedInv, NEW u
    PROVE  CommentRequests(u) = Theirs(u, "task_comments")
<1>0. ASSUME NEW k \in In("task_comments")
      PROVE  /\ Entitled(u, owned[k], k[1]) <=> owned[k].maker = u /\ MayWriteIn(u, owned[k].place)
             /\ ~Orphan(k)
  BY <1>0 DEF In, Entitled, Orphan
<1>1. ASSUME NEW k \in CommentRequests(u) PROVE k \in Theirs(u, "task_comments")
  <2>1. PICK task, path, sent : k \in CommentsOpen(u, task, Preferred(sent, path))
    BY DEF CommentRequests
  <2> QED
    BY <1>0, <2>1 DEF CommentsOpen, Theirs
<1>2. ASSUME NEW k \in Theirs(u, "task_comments") PROVE k \in CommentRequests(u)
  <2>1. k \in In("task_comments") /\ owned[k].maker = u /\ MayWriteIn(u, owned[k].place)
    BY <1>0 DEF Theirs
  <2>2. Id(k) \in RowIdsOf("task_comments") /\ owned[k].place \in Places
    BY <2>1, KeyParts DEF In, OwnedInv, PlaceFits
  <2>3. <<>> \in Sendable(RowIdsOf("task_comments"))
    BY DEF Sendable
  <2>4. k \in CommentsOpen(u, owned[k].place, Preferred(<<>>, Id(k)))
    BY <2>1 DEF CommentsOpen, Preferred
  <2> QED
    BY <2>2, <2>3, <2>4 DEF CommentRequests
<1> QED
  BY <1>1, <1>2

LEMMA HooksReached ==
    ASSUME OwnedInv, NEW u
    PROVE  HookRequests(u) = Theirs(u, "webhooks")
<1>0. ASSUME NEW k \in In("webhooks")
      PROVE  /\ ~Orphan(k)
             /\ owned[k].place \in Places =>
                  (Entitled(u, owned[k], k[1]) <=> MayWriteIn(u, owned[k].place)) /\ owned[k].place # NoPlace
             /\ owned[k].place = NoPlace =>
                  (Entitled(u, owned[k], k[1]) <=> owned[k].maker = u) /\ ~MayWriteIn(u, owned[k].place)
  <2>1. \A p \in Places : p > 0 /\ p # NoPlace
    BY ProjectIdsAreReal DEF NoPlace
  <2>2. NoPlace \notin Places /\ ~(NoPlace > 0)
    BY <2>1 DEF NoPlace
  <2> QED
    BY <1>0, <2>1, <2>2 DEF In, Entitled, Orphan, MayWriteIn, Rank
<1>1. ASSUME NEW k \in HookRequests(u) PROVE k \in Theirs(u, "webhooks")
  <2>1. PICK id : k \in HooksOpen(u, id) \cup OwnHooksOpen(u, id)
    BY DEF HookRequests
  <2>2. k \in In("webhooks")
    BY <2>1 DEF HooksOpen, OwnHooksOpen, WebhookOf
  <2>3. owned[k].place \in Places \cup {NoPlace}
    BY <2>2 DEF In, OwnedInv, PlaceFits
  <2> QED
    BY <1>0, <2>1, <2>2, <2>3 DEF HooksOpen, OwnHooksOpen, Theirs
<1>2. ASSUME NEW k \in Theirs(u, "webhooks") PROVE k \in HookRequests(u)
  <2>1. k \in In("webhooks") /\ owned[k].place \in Places \cup {NoPlace}
    BY DEF In, OwnedInv, PlaceFits, Theirs
  <2>2. Id(k) \in RowIdsOf("webhooks") /\ k \in WebhookOf(Id(k))
    BY <2>1, KeyParts DEF In, WebhookOf
  <2>3. k \in HooksOpen(u, Id(k)) \cup OwnHooksOpen(u, Id(k))
    BY <1>0, <2>1, <2>2 DEF HooksOpen, OwnHooksOpen, Theirs
  <2> QED
    BY <2>2, <2>3 DEF HookRequests
<1> QED
  BY <1>1, <1>2

LEMMA InvImpliesTheirs == OwnedInv => OnlyTheirs
<1> SUFFICES ASSUME OwnedInv, NEW u \in Makers
             PROVE  Open(u) = {k \in DOMAIN owned : Entitled(u, owned[k], k[1]) /\ ~Orphan(k)}
  BY DEF OnlyTheirs
<1>1. Open(u) = Theirs(u, "project_views") \cup Theirs(u, "saved_filters")
                \cup Theirs(u, "task_comments") \cup Theirs(u, "webhooks")
  BY ViewsReached, FiltersReached, CommentsReached, HooksReached DEF Open
<1>2. \A k \in DOMAIN owned : \E t \in OwnedTables : k \in In(t)
  BY KeyParts DEF In
<1>3. \A t \in OwnedTables : In(t) \subseteq DOMAIN owned
  BY DEF In
<1> QED
  BY <1>1, <1>2, <1>3 DEF Theirs, OwnedTables

-----------------------------------------------------------------------------
(* Steps.                                                                  *)

\* What a creation adds, at places that suit the table, with the maker of the filter
\* that a view is put under.
LEMMA MakeKeepsInv ==
    ASSUME OwnedInv, NEW u, NEW places, DOMAIN places \subseteq OwnedTables, Make(u, places),
           "task_comments" \in DOMAIN places => places["task_comments"] \in Places,
           "webhooks" \in DOMAIN places => places["webhooks"] \in Places \cup {NoPlace},
           "project_views" \in DOMAIN places =>
             \/ places["project_views"] \in Places
             \/ /\ places["project_views"] \in FilterPlaces
                /\ OwnsFilter(u, FilterOf(places["project_views"])) /\ "saved_filters" \notin DOMAIN places
             \/ /\ places["project_views"] = FilterProject(handedOut["saved_filters"] + 1)
                /\ "saved_filters" \in DOMAIN places
    PROVE  OwnedInv'
<1> DEFINE new == {<<t, NextIn(t)>> : t \in DOMAIN places}
<1>1. /\ DOMAIN owned' = DOMAIN owned \cup new
      /\ \A k \in new : owned'[k] = [place |-> places[k[1]], maker |-> u]
      /\ \A k \in DOMAIN owned \ new : owned'[k] = owned[k]
  BY DEF Make
<1>2. /\ handedOut' \in [OwnedTables -> Nat]
      /\ \A t \in OwnedTables : handedOut'[t] = IF t \in DOMAIN places THEN handedOut[t] + 1 ELSE handedOut[t]
  BY DEF Make, OwnedInv, KeysInv, NextIn
<1>3. \A t \in OwnedTables : 1..handedOut[t] \subseteq 1..handedOut'[t]
  BY <1>2 DEF OwnedInv, KeysInv
<1>4. \A t \in DOMAIN places : NextIn(t) \in 1..handedOut'[t] /\ NextIn(t) \notin 1..handedOut[t]
  BY <1>2 DEF OwnedInv, KeysInv, NextIn
<1>5. \A k \in new : k[1] \in DOMAIN places /\ k = <<k[1], NextIn(k[1])>> /\ k \notin DOMAIN owned
  BY <1>4, KeyParts DEF RowIdsOf, Id
<1>6. KeysInv'
  <2>1. ASSUME NEW k \in DOMAIN owned' PROVE \E t \in OwnedTables : \E i \in 1..handedOut'[t] : k = <<t, i>>
    <3>1. CASE k \in DOMAIN owned
      BY <1>3, <3>1 DEF OwnedInv, KeysInv
    <3>2. CASE k \in new
      BY <1>4, <1>5, <3>2
    <3> QED
      BY <1>1, <3>1, <3>2
  <2> QED
    BY <1>2, <2>1 DEF KeysInv
<1> HIDE DEF new
<1>7. FilterPlaces \subseteq FilterPlaces'
  BY <1>3 DEF FilterPlaces, OwnedTables
<1>8. handedOut["saved_filters"] \in Nat
  BY DEF OwnedInv, KeysInv, OwnedTables
<1>9. \A k \in DOMAIN owned' : k \notin new => k \in DOMAIN owned /\ owned'[k] = owned[k]
  BY <1>1
<1>10. \A f \in 1..handedOut["saved_filters"] :
         <<"saved_filters", f>> \in DOMAIN owned' => <<"saved_filters", f>> \in DOMAIN owned
  <2>1. \A k \in new : k[1] = "saved_filters" => k[2] \notin 1..handedOut["saved_filters"]
    BY <1>4, <1>5
  <2> QED
    BY <1>1, <2>1
<1>11. ASSUME NEW k \in DOMAIN owned, k \notin new
       PROVE  PlaceFits(k)' /\ MakerFits(k)'
  <2>1. owned'[k] = owned[k] /\ PlaceFits(k) /\ MakerFits(k)
    BY <1>1, <1>11 DEF OwnedInv
  <2>2. PlaceFits(k)'
    BY <1>7, <2>1 DEF PlaceFits
  <2>3. ASSUME k[1] = "project_views", owned'[k].place \in FilterPlaces'
        PROVE  FilterKey(owned[k].place) \in DOMAIN owned' =>
                 owned'[FilterKey(owned[k].place)].maker = owned[k].maker
    <3>1. owned[k].place \in Places \cup FilterPlaces
      BY <2>1, <2>3 DEF PlaceFits
    <3>2. owned[k].place \notin Places
      <4>1. \A p \in FilterPlaces' : Kind(p) = "filter"
        BY <1>2, FilterIds DEF FilterPlaces, OwnedTables
      <4> QED
        BY <2>1, <2>3, <4>1, ProjectIdsAreReal
    <3>3. PICK f \in 1..handedOut["saved_filters"] : owned[k].place = FilterProject(f)
      BY <3>1, <3>2 DEF FilterPlaces
    <3>4. FilterKey(owned[k].place) = <<"saved_filters", f>>
      BY <1>8, <3>3, FilterIds DEF FilterKey
    <3>5. FilterKey(owned[k].place) \in DOMAIN owned' => FilterKey(owned[k].place) \in DOMAIN owned
      BY <1>10, <3>4
    <3>6. FilterKey(owned[k].place) \in DOMAIN owned =>
            owned'[FilterKey(owned[k].place)] = owned[FilterKey(owned[k].place)]
      BY <1>1, <1>5
    <3> QED
      BY <2>1, <2>3, <3>1, <3>2, <3>5, <3>6 DEF MakerFits
  <2>4. MakerFits(k)'
    BY <2>1, <2>3 DEF MakerFits, FilterKey
  <2> QED
    BY <2>2, <2>4
<1>12. ASSUME NEW k \in new
       PROVE  PlaceFits(k)' /\ MakerFits(k)'
  <2>1. k[1] \in DOMAIN places /\ owned'[k].place = places[k[1]] /\ owned'[k].maker = u
    BY <1>1, <1>5
  <2>2. ASSUME k[1] = "project_views", places["project_views"] \notin Places
        PROVE  \E f \in 1..handedOut'["saved_filters"] :
                 /\ places["project_views"] = FilterProject(f)
                 /\ <<"saved_filters", f>> \in DOMAIN owned' => owned'[<<"saved_filters", f>>].maker = u
    <3>1. CASE /\ places["project_views"] \in FilterPlaces
               /\ OwnsFilter(u, FilterOf(places["project_views"]))
      <4>1. PICK f \in 1..handedOut["saved_filters"] : places["project_views"] = FilterProject(f)
        BY <3>1 DEF FilterPlaces
      <4>2. OwnsFilter(u, f)
        BY <1>8, <3>1, <4>1, FilterIds
      <4>3. <<"saved_filters", f>> \in DOMAIN owned /\ owned[<<"saved_filters", f>>].maker = u
        BY <4>2, OwnerOfFilter DEF OwnedInv
      <4>4. owned'[<<"saved_filters", f>>] = owned[<<"saved_filters", f>>]
        BY <1>1, <1>5, <4>3
      <4> QED
        BY <1>3, <4>1, <4>3, <4>4 DEF OwnedTables
    <3>2. CASE /\ places["project_views"] = FilterProject(handedOut["saved_filters"] + 1)
               /\ "saved_filters" \in DOMAIN places
      <4>1. <<"saved_filters", handedOut["saved_filters"] + 1>> \in new
        BY <3>2 DEF new, NextIn
      <4>2. owned'[<<"saved_filters", handedOut["saved_filters"] + 1>>].maker = u
        BY <1>1, <4>1
      <4>3. handedOut["saved_filters"] + 1 \in 1..handedOut'["saved_filters"]
        BY <1>4, <3>2 DEF NextIn
      <4> QED
        BY <3>2, <4>2, <4>3
    <3> QED
      BY <2>1, <2>2, <3>1, <3>2
  <2>3. PlaceFits(k)'
    <3>1. k[1] = "project_views" => owned'[k].place \in Places \cup FilterPlaces'
      BY <2>1, <2>2 DEF FilterPlaces
    <3> QED
      BY <2>1, <3>1 DEF PlaceFits
  <2>4. MakerFits(k)'
    <3> SUFFICES ASSUME k[1] = "project_views", places["project_views"] \in FilterPlaces',
                        FilterKey(places["project_views"]) \in DOMAIN owned'
                 PROVE  owned'[FilterKey(places["project_views"])].maker = u
      BY <2>1 DEF MakerFits, FilterKey
    <3>1. places["project_views"] \notin Places
      <4>1. \A p \in FilterPlaces' : Kind(p) = "filter"
        BY <1>2, FilterIds DEF FilterPlaces, OwnedTables
      <4> QED
        BY <4>1, ProjectIdsAreReal
    <3>2. PICK f \in 1..handedOut'["saved_filters"] :
                 /\ places["project_views"] = FilterProject(f)
                 /\ <<"saved_filters", f>> \in DOMAIN owned' => owned'[<<"saved_filters", f>>].maker = u
      BY <2>2, <3>1
    <3>3. FilterKey(places["project_views"]) = <<"saved_filters", f>>
      <4>1. f \in Nat \ {0}
        BY <1>2 DEF OwnedTables
      <4> QED
        BY <3>2, <4>1, FilterIds DEF FilterKey
    <3> QED
      BY <3>2, <3>3
  <2> QED
    BY <2>3, <2>4
<1> QED
  BY <1>6, <1>9, <1>11, <1>12 DEF OwnedInv

LEMMA RemoveKeepsInv ==
    ASSUME OwnedInv, NEW u, RemoveRow(u)
    PROVE  OwnedInv'
<1>1. PICK gone : owned' = [k \in DOMAIN owned \ {gone} |-> owned[k]] /\ UNCHANGED handedOut
  BY DEF RemoveRow
<1>2. DOMAIN owned' \subseteq DOMAIN owned /\ \A k \in DOMAIN owned' : owned'[k] = owned[k]
  BY <1>1
<1>3. KeysInv'
  BY <1>1, <1>2 DEF OwnedInv, KeysInv
<1>4. \A k \in DOMAIN owned' : PlaceFits(k)' /\ MakerFits(k)'
  BY <1>1, <1>2 DEF OwnedInv, PlaceFits, MakerFits, FilterKey, FilterPlaces
<1> QED
  BY <1>3, <1>4 DEF OwnedInv

LEMMA UnchangedRowsKeepInv ==
    ASSUME OwnedInv, UNCHANGED <<owned, handedOut>>
    PROVE  OwnedInv'
BY DEF OwnedInv, KeysInv, PlaceFits, MakerFits, FilterKey, FilterPlaces

LEMMA OwnedAtFirst == OwnedInit => OwnedInv
BY DEF OwnedInit, OwnedInv, KeysInv

\* A person may administer an id: it is a project, or a filter of theirs.
LEMMA AdminPlaces ==
    ASSUME OwnedInv, NEW u, NEW p \in PlaceIds, IsAdminAt(u, p)
    PROVE  p \in Places \/ (p \in FilterPlaces /\ OwnsFilter(u, FilterOf(p)))
<1>1. \A f \in 1..handedOut["saved_filters"] : Kind(FilterProject(f)) = "filter"
  BY FilterIds DEF OwnedInv, KeysInv, OwnedTables
<1>2. Kind(FavoritesProject) = "favorites"
  BY DEF Kind
<1>3. p \in Places \/ p = FavoritesProject \/ p \in FilterPlaces
  BY DEF PlaceIds, FilterPlaces
<1>4. p # FavoritesProject
  BY <1>2 DEF IsAdminAt
<1>5. p \in FilterPlaces => Kind(p) = "filter"
  BY <1>1 DEF FilterPlaces
<1>6. Kind(p) = "filter" => OwnsFilter(u, FilterOf(p))
  BY DEF IsAdminAt
<1> QED
  BY <1>3, <1>4, <1>5, <1>6

LEMMA StepKeepsOwned == OwnedInv /\ [OwnedNext]_ownedVars => OwnedInv'
<1> SUFFICES ASSUME OwnedInv, OwnedNext PROVE OwnedInv'
  BY UnchangedRowsKeepInv DEF ownedVars
<1>1. PICK u \in Makers :
        \/ CreateFilter(u) \/ CreateOwnWebhook(u) \/ RemoveRow(u) \/ Share(u)
        \/ \E p \in PlaceIds : CreateView(u, p) \/ CreateComment(u, p) \/ CreateWebhook(u, p)
  BY DEF OwnedNext
<1>2. ASSUME NEW p, MayWriteIn(u, p) PROVE p \in Places
  BY <1>2 DEF MayWriteIn, Rank
<1>3. CASE CreateFilter(u)
  <2> DEFINE places == [t \in {"saved_filters", "project_views"} |->
               IF t = "saved_filters" THEN NoPlace ELSE FilterProject(NextIn("saved_filters"))]
  <2>1. Make(u, places)
    BY <1>3 DEF CreateFilter
  <2>2. /\ DOMAIN places = {"saved_filters", "project_views"}
        /\ places["project_views"] = FilterProject(handedOut["saved_filters"] + 1)
    BY DEF NextIn
  <2> HIDE DEF places
  <2> QED
    BY <2>1, <2>2, MakeKeepsInv DEF OwnedTables
<1>4. CASE CreateOwnWebhook(u)
  BY <1>4, MakeKeepsInv DEF CreateOwnWebhook, OwnedTables
<1>5. CASE RemoveRow(u)
  BY <1>5, RemoveKeepsInv
<1>6. CASE Share(u)
  BY <1>6, UnchangedRowsKeepInv DEF Share
<1>7. ASSUME NEW p \in PlaceIds, CreateView(u, p) PROVE OwnedInv'
  <2> DEFINE places == [t \in {"project_views"} |-> p]
  <2>1. Make(u, places) /\ IsAdminAt(u, p)
    BY <1>7 DEF CreateView
  <2>2. DOMAIN places = {"project_views"} /\ places["project_views"] = p
    OBVIOUS
  <2>3. p \in Places \/ (p \in FilterPlaces /\ OwnsFilter(u, FilterOf(p)))
    BY <2>1, AdminPlaces
  <2> HIDE DEF places
  <2> QED
    BY <2>1, <2>2, <2>3, MakeKeepsInv DEF OwnedTables
<1>8. ASSUME NEW p \in PlaceIds, CreateComment(u, p) PROVE OwnedInv'
  BY <1>2, <1>8, MakeKeepsInv DEF CreateComment, OwnedTables
<1>9. ASSUME NEW p \in PlaceIds, CreateWebhook(u, p) PROVE OwnedInv'
  BY <1>2, <1>9, MakeKeepsInv DEF CreateWebhook, OwnedTables
<1> QED
  BY <1>1, <1>3, <1>4, <1>5, <1>6, <1>7, <1>8, <1>9

\* Whatever was shared, created and removed before, and however a request mixes the ids
\* on its path and in its body: it reaches all rows of its user and no others, and what
\* an earlier filter left behind comes to nobody.
THEOREM ReachesOwnRowsOnly == OwnedSpec => []OnlyTheirs
BY OwnedAtFirst, StepKeepsOwned, InvImpliesTheirs, PTL DEF OwnedSpec

-----------------------------------------------------------------------------
(* Accounts: what a request decides.                                       *)

Columns == {"name", "mail", "admin", "status", "leaving", "language"}

RowFits(row) == /\ DOMAIN row = Columns /\ row.admin \in BOOLEAN
                /\ row.name \notin Dotted /\ row.mail \in Mails

\* Users are numbered as they come, and a login name is never an address.
UsersFit(all) ==
    /\ \E n \in Nat : DOMAIN all = 1..n
    /\ \A u \in DOMAIN all : RowFits(all[u])
TablesFit(d) ==
    /\ d = [users |-> d.users, resets |-> d.resets, totp |-> d.totp, generated |-> d.generated]
    /\ UsersFit(d.users)
    /\ \A k \in DOMAIN d.resets : d.resets[k] \in DOMAIN d.users
    /\ \A u \in DOMAIN d.totp : DOMAIN d.totp[u] = {"secret", "enabled"}

\* What may be decided, but for what was checked; people are those of `there`.
SetFits(w, there) ==
    /\ w.do = "set" /\ w.id \in there
    /\ DOMAIN w.columns \subseteq Columns \ {"name", "mail"}
    /\ "admin" \in DOMAIN w.columns => w.columns["admin"] \in BOOLEAN
PasscodeFits(w) == /\ w = [do |-> "totp", id |-> w.id, row |-> w.row]
                   /\ w.row = [secret |-> w.row.secret, enabled |-> FALSE]
ChangeFits(w, there) ==
    \/ w.do = "insert" /\ RowFits(w.user)
    \/ SetFits(w, there)
    \/ w.do = "token" /\ w.id \in there
    \/ w.do \in {"redeem", "enable", "disable"}
    \/ PasscodeFits(w)

\* What the request has checked on the tables d.
Checked(d, w) ==
    /\ w.do = "insert" => Named(d, w.user.name) = {} /\ WithMail(d, w.user.mail) = {}
    /\ w.do = "set" /\ "admin" \in DOMAIN w.columns /\ d.users[w.id].admin /\ ~w.columns["admin"] =>
         ~IsLastAdmin(d)
    /\ w.do = "enable" => w.id \in DOMAIN d.totp /\ w.secret = d.totp[w.id].secret

LEMMA OneColumn ==
    ASSUME NEW d, NEW there, NEW u \in there, NEW column \in Columns \ {"name", "mail"}, NEW value,
           column = "admin" => value \in BOOLEAN /\ (d.users[u].admin /\ ~value => ~IsLastAdmin(d)),
           NEW w \in Changed(d, u, column, value)
    PROVE  ChangeFits(w, there) /\ Checked(d, w)
<1>1. w = Set(u, [c \in {column} |-> value])
  BY DEF Changed
<1>2. w.do = "set" /\ w.id = u /\ DOMAIN w.columns = {column} /\ w.columns[column] = value
  BY <1>1 DEF Set
<1>3. SetFits(w, there)
  BY <1>2 DEF SetFits
<1>4. Checked(d, w)
  BY <1>2 DEF Checked
<1> QED
  BY <1>3, <1>4 DEF ChangeFits

LEMMA RegistrationDecides ==
    ASSUME NEW d, NEW there, NEW name \in Words, NEW mail \in Words, NEW admin \in BOOLEAN,
           NEW w \in RegisterUser(d, name, mail, admin)
    PROVE  ChangeFits(w, there) /\ Checked(d, w)
<1>1. w = Adding(NewUser(name, mail, admin)) /\ NameAllowed(name) /\ mail \in Mails
      /\ Named(d, name) = {} /\ WithMail(d, mail) = {}
  BY DEF RegisterUser
<1>2. w.do = "insert" /\ w.user = NewUser(name, mail, admin)
  BY <1>1 DEF Adding
<1>3. RowFits(w.user) /\ w.user.name = name /\ w.user.mail = mail
  <2>1. PICK v : v = CHOOSE x \in Values : TRUE
    OBVIOUS
  <2>2. w.user = [name |-> name, mail |-> mail, admin |-> admin, status |-> Active, leaving |-> FALSE, language |-> v]
    BY <1>2, <2>1 DEF NewUser
  <2> QED
    BY <1>1, <2>2 DEF RowFits, Columns, NameAllowed
<1> QED
  BY <1>1, <1>2, <1>3 DEF ChangeFits, Checked

LEMMA AnybodyDecides ==
    ASSUME NEW d, TablesFit(d), NEW w \in Anybody(d)
    PROVE  ChangeFits(w, DOMAIN d.users) /\ Checked(d, w)
<1>1. ASSUME NEW n \in Words, NEW m \in Words, w \in RegisterUser(d, n, m, FALSE)
      PROVE  ChangeFits(w, DOMAIN d.users) /\ Checked(d, w)
  BY <1>1, RegistrationDecides
<1>2. ASSUME NEW l \in Words, w \in RequestReset(d, l)
      PROVE  ChangeFits(w, DOMAIN d.users) /\ Checked(d, w)
  <2>1. PICK u \in Found(d, l) : w = [do |-> "token", id |-> u]
    BY <1>2 DEF RequestReset
  <2>2. u \in DOMAIN d.users
    BY DEF Found, Named, WithMail
  <2> QED
    BY <2>1, <2>2 DEF ChangeFits, Checked
<1>3. ASSUME NEW k \in DOMAIN d.resets, w \in ResetPassword(d, k)
      PROVE  ChangeFits(w, DOMAIN d.users) /\ Checked(d, w)
  BY <1>3 DEF ResetPassword, ChangeFits, Checked
<1> QED
  <2> DEFINE Newcomer(n, m) == RegisterUser(d, n, m, FALSE)
             newcomers == {Newcomer(n, m) : n \in Words, m \in Words}
             resetters == {RequestReset(d, l) : l \in Words}
             redeemers == {ResetPassword(d, k) : k \in DOMAIN d.resets}
  <2>1. Anybody(d) = (UNION newcomers) \cup (UNION resetters) \cup UNION redeemers
    BY DEF Anybody
  <2>2. \A n, m : Newcomer(n, m) = RegisterUser(d, n, m, FALSE)
    OBVIOUS
  <2>3. /\ w \in UNION resetters => \E l \in Words : w \in RequestReset(d, l)
        /\ w \in UNION redeemers => \E k \in DOMAIN d.resets : w \in ResetPassword(d, k)
    OBVIOUS
  <2> HIDE DEF Newcomer
  <2>4. w \in UNION newcomers => \E n \in Words, m \in Words : w \in Newcomer(n, m)
    OBVIOUS
  <2> HIDE DEF newcomers, resetters, redeemers
  <2>5. w \in UNION newcomers \/ w \in UNION resetters \/ w \in UNION redeemers
    BY <2>1
  <2> QED
    BY <1>1, <1>2, <1>3, <2>2, <2>3, <2>4, <2>5

LEMMA OneselfDecides ==
    ASSUME NEW d, NEW by \in DOMAIN d.users, NEW w \in OnHimself(d, by)
    PROVE  ChangeFits(w, DOMAIN d.users) /\ Checked(d, w)
<1>1. ASSUME NEW columns, w = Set(by, columns), DOMAIN columns \subseteq {"leaving", "status"}
      PROVE  ChangeFits(w, DOMAIN d.users) /\ Checked(d, w)
  <2>1. w.do = "set" /\ w.id = by /\ w.columns = columns
    BY <1>1 DEF Set
  <2>2. SetFits(w, DOMAIN d.users)
    BY <1>1, <2>1 DEF SetFits, Columns
  <2>3. Checked(d, w)
    BY <1>1, <2>1 DEF Checked
  <2> QED
    BY <2>2, <2>3 DEF ChangeFits
<1>2. CASE w \in RequestDeletion(d, by) \cup CancelDeletion(d, by) \cup ConfirmDeletion(d, by)
  <2>1. \/ w = Set(by, [leaving |-> TRUE]) \/ w = Set(by, [leaving |-> FALSE])
        \/ w = Set(by, [leaving |-> FALSE, status |-> Disabled])
    BY <1>2 DEF RequestDeletion, CancelDeletion, ConfirmDeletion
  <2>2. /\ DOMAIN [leaving |-> TRUE] = {"leaving"} /\ DOMAIN [leaving |-> FALSE] = {"leaving"}
        /\ DOMAIN [leaving |-> FALSE, status |-> Disabled] = {"leaving", "status"}
    OBVIOUS
  <2> QED
    BY <1>1, <2>1, <2>2
<1>3. CASE w \in UpdateGeneral(d, by)
  <2>1. PICK v \in Values : w \in Changed(d, by, "language", v)
    BY <1>3 DEF UpdateGeneral
  <2> QED
    BY <2>1, OneColumn DEF Columns
<1>4. CASE w \in Enroll(d, by)
  BY <1>4 DEF Enroll, ChangeFits, PasscodeFits, Checked
<1>5. CASE w \in Enable(d, by) \cup Disable(d, by)
  BY <1>5 DEF Enable, Disable, ChangeFits, Checked
<1> QED
  BY <1>2, <1>3, <1>4, <1>5 DEF OnHimself

LEMMA AdminDecides ==
    ASSUME NEW d, NEW by \in DOMAIN d.users, NEW w \in AsAdmin(d, by)
    PROVE  ChangeFits(w, DOMAIN d.users) /\ Checked(d, w)
<1>1. ASSUME NEW u \in DOMAIN d.users, NEW a \in BOOLEAN, w \in SetAdmin(d, u, a)
      PROVE  ChangeFits(w, DOMAIN d.users) /\ Checked(d, w)
  BY <1>1, OneColumn DEF SetAdmin, Columns
<1>2. ASSUME NEW u \in DOMAIN d.users, NEW s, w \in Changed(d, u, "status", s)
      PROVE  ChangeFits(w, DOMAIN d.users) /\ Checked(d, w)
  BY <1>2, OneColumn DEF Columns
<1>3. ASSUME NEW n \in Words, NEW m \in Words, w \in RegisterUser(d, n, m, TRUE)
      PROVE  ChangeFits(w, DOMAIN d.users) /\ Checked(d, w)
  BY <1>3, RegistrationDecides
<1>4. \/ \E u \in DOMAIN d.users, a \in BOOLEAN : w \in SetAdmin(d, u, a) \/ w \in DeleteUser(d, u)
      \/ \E u \in DOMAIN d.users, s \in {Active, Disabled} : w \in SetStatus(d, u, s)
      \/ \E n \in Words, m \in Words : w \in RegisterUser(d, n, m, TRUE)
  <2> DEFINE OnUser(u, a) == UNION {SetAdmin(d, u, a), DeleteUser(d, u)}
             Newcomer(n, m) == RegisterUser(d, n, m, TRUE)
             onUsers == {OnUser(u, a) : u \in DOMAIN d.users, a \in BOOLEAN}
             statuses == {SetStatus(d, u, s) : u \in DOMAIN d.users, s \in {Active, Disabled}}
             newcomers == {Newcomer(n, m) : n \in Words, m \in Words}
             all == (UNION onUsers) \cup (UNION statuses) \cup UNION newcomers
  <2>1. AsAdmin(d, by) = IF ~d.users[by].admin THEN {} ELSE all
    BY DEF AsAdmin
  <2>2. \A n, m : Newcomer(n, m) = RegisterUser(d, n, m, TRUE)
    OBVIOUS
  <2>3. \A u, a : w \in OnUser(u, a) => w \in SetAdmin(d, u, a) \/ w \in DeleteUser(d, u)
    OBVIOUS
  <2>4. w \in UNION statuses => \E u \in DOMAIN d.users, s \in {Active, Disabled} : w \in SetStatus(d, u, s)
    OBVIOUS
  <2> HIDE DEF Newcomer, OnUser
  <2>5. w \in UNION newcomers => \E n \in Words, m \in Words : w \in Newcomer(n, m)
    OBVIOUS
  <2>6. w \in UNION onUsers => \E u \in DOMAIN d.users, a \in BOOLEAN : w \in OnUser(u, a)
    OBVIOUS
  <2> HIDE DEF newcomers, statuses, onUsers
  <2>7. w \in all => w \in UNION onUsers \/ w \in UNION statuses \/ w \in UNION newcomers
    OBVIOUS
  <2> HIDE DEF all
  <2>8. w \in all
    BY <2>1
  <2> QED
    BY <2>2, <2>3, <2>4, <2>5, <2>6, <2>7, <2>8
<1>5. \A u : w \in DeleteUser(d, u) => w \in Changed(d, u, "status", Disabled)
  BY DEF DeleteUser
<1> QED
  BY <1>1, <1>2, <1>3, <1>4, <1>5 DEF SetStatus

LEMMA ChangesDecided ==
    ASSUME NEW d, TablesFit(d), NEW w \in Changes(d)
    PROVE  ChangeFits(w, DOMAIN d.users) /\ Checked(d, w)
<1>1. w \in Anybody(d) \/ \E by \in DOMAIN d.users : w \in OnHimself(d, by) \/ w \in AsAdmin(d, by)
  BY DEF Changes
<1> QED
  BY <1>1, AnybodyDecides, OneselfDecides, AdminDecides

-----------------------------------------------------------------------------
(* Accounts: what the writes do.                                           *)

TablesOf(u, r, t, g) == [users |-> u, resets |-> r, totp |-> t, generated |-> g]

LEMMA TablesWritten ==
    ASSUME NEW d, TablesFit(d), NEW w
    PROVE  /\ w.do = "insert" /\ Named(d, w.user.name) = {} => AfterWrite(d, w) =
                TablesOf(With(d.users, Cardinality(DOMAIN d.users) + 1, w.user), d.resets, d.totp, d.generated)
           /\ w.do = "insert" /\ Named(d, w.user.name) # {} => AfterWrite(d, w) = d
           /\ w.do = "set" => AfterWrite(d, w) =
                TablesOf([d.users EXCEPT ![w.id] = Merged(@, w.columns)], d.resets, d.totp, d.generated)
           /\ w.do = "token" => AfterWrite(d, w) =
                TablesOf(d.users, With(d.resets, d.generated + 1, w.id), d.totp, d.generated + 1)
           /\ w.do = "redeem" => AfterWrite(d, w) =
                TablesOf(d.users, Removed(d.resets, w.token), d.totp, d.generated)
           /\ w.do = "totp" => AfterWrite(d, w) =
                TablesOf(d.users, d.resets, With(d.totp, w.id, w.row), d.generated + 1)
           /\ w.do = "enable" /\ w.id \in DOMAIN d.totp => AfterWrite(d, w) =
                TablesOf(d.users, d.resets, [d.totp EXCEPT ![w.id].enabled = TRUE], d.generated)
           /\ w.do = "enable" /\ w.id \notin DOMAIN d.totp => AfterWrite(d, w) = d
           /\ w.do = "disable" => AfterWrite(d, w) =
                TablesOf(d.users, d.resets, Removed(d.totp, w.id), d.generated)
<1>1. PICK u, r, t, g : d = [users |-> u, resets |-> r, totp |-> t, generated |-> g]
  BY DEF TablesFit
<1>2. CASE w.do = "insert"
  BY <1>1, <1>2 DEF AfterWrite, TablesOf
<1>3. CASE w.do = "set"
  BY <1>1, <1>3 DEF AfterWrite, TablesOf
<1>4. CASE w.do = "token" \/ w.do = "redeem"
  BY <1>1, <1>4 DEF AfterWrite, TablesOf
<1>5. CASE w.do = "totp" \/ w.do = "disable"
  BY <1>1, <1>5 DEF AfterWrite, TablesOf
<1>6. CASE w.do = "enable"
  BY <1>1, <1>6 DEF AfterWrite, TablesOf
<1> QED
  BY <1>2, <1>3, <1>4, <1>5, <1>6

LEMMA PasscodesWritten ==
    ASSUME NEW d, TablesFit(d), NEW w
    PROVE  LET e == AfterWrite(d, w)
           IN  /\ w.do \in {"token", "redeem", "totp", "enable", "disable"} => e.users = d.users
               /\ w.do \in {"insert", "set", "token", "redeem"} => e.totp = d.totp
               /\ w.do = "totp" => e.totp = With(d.totp, w.id, w.row)
               /\ w.do = "disable" => e.totp = Removed(d.totp, w.id)
               /\ w.do = "enable" => e.totp = d.totp \/ e.totp = [d.totp EXCEPT ![w.id].enabled = TRUE]
<1>1. PICK e : e = AfterWrite(d, w)
  OBVIOUS
<1>2. \A u, r, t, g : TablesOf(u, r, t, g).users = u /\ TablesOf(u, r, t, g).totp = t
  BY DEF TablesOf
<1>3. CASE w.do = "insert"
  <2>1. e = d \/ \E u : e = TablesOf(u, d.resets, d.totp, d.generated)
    BY <1>1, <1>3, TablesWritten
  <2> QED
    BY <1>1, <1>2, <1>3, <2>1
<1>4. CASE w.do = "set"
  <2>1. \E u : e = TablesOf(u, d.resets, d.totp, d.generated)
    BY <1>1, <1>4, TablesWritten
  <2> QED
    BY <1>1, <1>2, <1>4, <2>1
<1>5. CASE w.do = "token"
  <2>1. e = TablesOf(d.users, With(d.resets, d.generated + 1, w.id), d.totp, d.generated + 1)
    BY <1>1, <1>5, TablesWritten
  <2> QED
    BY <1>1, <1>2, <1>5, <2>1
<1>6. CASE w.do = "redeem"
  <2>1. e = TablesOf(d.users, Removed(d.resets, w.token), d.totp, d.generated)
    BY <1>1, <1>6, TablesWritten
  <2> QED
    BY <1>1, <1>2, <1>6, <2>1
<1>7. CASE w.do = "totp"
  <2>1. e = TablesOf(d.users, d.resets, With(d.totp, w.id, w.row), d.generated + 1)
    BY <1>1, <1>7, TablesWritten
  <2> QED
    BY <1>1, <1>2, <1>7, <2>1
<1>8. CASE w.do = "enable"
  <2>1. e = d \/ e = TablesOf(d.users, d.resets, [d.totp EXCEPT ![w.id].enabled = TRUE], d.generated)
    BY <1>1, <1>8, TablesWritten
  <2> QED
    BY <1>1, <1>2, <1>8, <2>1
<1>9. CASE w.do = "disable"
  <2>1. e = TablesOf(d.users, d.resets, Removed(d.totp, w.id), d.generated)
    BY <1>1, <1>9, TablesWritten
  <2> QED
    BY <1>1, <1>2, <1>9, <2>1
<1> QED
  BY <1>3, <1>4, <1>5, <1>6, <1>7, <1>8, <1>9

\* A new user takes the next number.
LEMMA UserAdded ==
    ASSUME NEW d, TablesFit(d), NEW row, RowFits(row),
           NEW next, next = Cardinality(DOMAIN d.users) + 1,
           NEW after, after = With(d.users, next, row)
    PROVE  /\ next \notin DOMAIN d.users /\ DOMAIN after = DOMAIN d.users \cup {next}
           /\ after[next] = row /\ \A u \in DOMAIN d.users : after[u] = d.users[u]
           /\ UsersFit(after)
<1>1. PICK n \in Nat : DOMAIN d.users = 1..n
  BY DEF TablesFit, UsersFit
<1>2. Cardinality(DOMAIN d.users) = n
  BY <1>1, FS_Interval
<1>3. 1..(n + 1) = (1..n) \cup {n + 1} /\ n + 1 \notin 1..n /\ n + 1 \in Nat
  OBVIOUS
<1>4. /\ DOMAIN after = 1..(n + 1) /\ after[n + 1] = row
      /\ \A u \in DOMAIN d.users : after[u] = d.users[u]
  BY <1>1, <1>2, <1>3 DEF With
<1>5. UsersFit(after)
  <2>1. \A u \in DOMAIN after : RowFits(after[u])
    BY <1>1, <1>3, <1>4 DEF TablesFit, UsersFit
  <2> QED
    BY <1>3, <1>4, <2>1 DEF UsersFit
<1> QED
  BY <1>1, <1>2, <1>3, <1>4, <1>5

\* Of a user, only the columns named are written.
LEMMA UserChanged ==
    ASSUME NEW d, TablesFit(d), NEW w, SetFits(w, DOMAIN d.users),
           NEW after, after = [d.users EXCEPT ![w.id] = Merged(@, w.columns)]
    PROVE  /\ DOMAIN after = DOMAIN d.users
           /\ \A u \in DOMAIN d.users \ {w.id} : after[u] = d.users[u]
           /\ \A c \in Columns : after[w.id][c] = IF c \in DOMAIN w.columns THEN w.columns[c]
                                                ELSE d.users[w.id][c]
           /\ UsersFit(after)
<1>1. w.id \in DOMAIN d.users /\ RowFits(d.users[w.id])
  BY DEF SetFits, TablesFit, UsersFit
<1>2. /\ DOMAIN after = DOMAIN d.users /\ after[w.id] = Merged(d.users[w.id], w.columns)
      /\ \A u \in DOMAIN d.users \ {w.id} : after[u] = d.users[u]
  BY <1>1
<1>3. /\ DOMAIN after[w.id] = Columns
      /\ \A c \in Columns : after[w.id][c] = IF c \in DOMAIN w.columns THEN w.columns[c]
                                           ELSE d.users[w.id][c]
  BY <1>1, <1>2 DEF Merged, RowFits
<1>4. RowFits(after[w.id])
  <2>1. /\ after[w.id]["name"] = d.users[w.id]["name"] /\ after[w.id]["mail"] = d.users[w.id]["mail"]
        /\ after[w.id]["admin"] \in BOOLEAN
    BY <1>1, <1>3 DEF SetFits, Columns, RowFits
  <2> QED
    BY <1>1, <1>3, <2>1 DEF RowFits
<1>5. UsersFit(after)
  BY <1>2, <1>4 DEF TablesFit, UsersFit
<1> QED
  BY <1>2, <1>3, <1>5

LEMMA TablesStayFit ==
    ASSUME NEW d, TablesFit(d), NEW w, ChangeFits(w, DOMAIN d.users)
    PROVE  /\ TablesFit(AfterWrite(d, w))
           /\ DOMAIN d.users \subseteq DOMAIN AfterWrite(d, w).users
<1> DEFINE Passcodes(t) == \A u \in DOMAIN t : DOMAIN t[u] = {"secret", "enabled"}
<1>1. ASSUME NEW u, NEW r, NEW t, NEW g, UsersFit(u), \A k \in DOMAIN r : r[k] \in DOMAIN u, Passcodes(t)
      PROVE  TablesFit(TablesOf(u, r, t, g)) /\ TablesOf(u, r, t, g).users = u
  <2>1. PICK e : e = TablesOf(u, r, t, g)
    OBVIOUS
  <2>2. e = [users |-> u, resets |-> r, totp |-> t, generated |-> g]
    BY <2>1 DEF TablesOf
  <2>3. e.users = u /\ e.resets = r /\ e.totp = t /\ e.generated = g
    BY <2>2
  <2> QED
    BY <1>1, <2>1, <2>2, <2>3 DEF TablesFit
<1>2. UsersFit(d.users) /\ Passcodes(d.totp) /\ \A k \in DOMAIN d.resets : d.resets[k] \in DOMAIN d.users
  BY DEF TablesFit
<1> HIDE DEF Passcodes
<1>3. CASE w.do = "insert"
  <2>1. CASE Named(d, w.user.name) # {}
    BY <1>3, <2>1, TablesWritten
  <2>2. CASE Named(d, w.user.name) = {}
    <3>1. RowFits(w.user)
      BY <1>3 DEF ChangeFits, SetFits, PasscodeFits
    <3>2. PICK n, all : n = Cardinality(DOMAIN d.users) + 1 /\ all = With(d.users, n, w.user)
      OBVIOUS
    <3>3. UsersFit(all) /\ DOMAIN d.users \subseteq DOMAIN all
      <4>1. UsersFit(all) /\ DOMAIN all = DOMAIN d.users \cup {n}
        BY <3>1, <3>2, UserAdded
      <4> QED
        BY <4>1
    <3>4. \A k \in DOMAIN d.resets : d.resets[k] \in DOMAIN all
      BY <1>2, <3>3
    <3>5. AfterWrite(d, w) = TablesOf(all, d.resets, d.totp, d.generated)
      BY <1>3, <2>2, <3>2, TablesWritten
    <3> QED
      BY <1>1, <1>2, <3>3, <3>4, <3>5
  <2> QED
    BY <2>1, <2>2
<1>4. CASE w.do = "set"
  <2>1. SetFits(w, DOMAIN d.users)
    BY <1>4 DEF ChangeFits, PasscodeFits
  <2>2. PICK all : all = [d.users EXCEPT ![w.id] = Merged(@, w.columns)]
    OBVIOUS
  <2>3. UsersFit(all) /\ DOMAIN all = DOMAIN d.users
    BY <2>1, <2>2, UserChanged
  <2>4. AfterWrite(d, w) = TablesOf(all, d.resets, d.totp, d.generated)
    BY <1>4, <2>2, TablesWritten
  <2> QED
    BY <1>1, <1>2, <2>3, <2>4
<1>5. CASE w.do = "token"
  <2>1. w.id \in DOMAIN d.users
    BY <1>5 DEF ChangeFits, SetFits, PasscodeFits
  <2>2. PICK r : r = With(d.resets, d.generated + 1, w.id)
    OBVIOUS
  <2>3. \A k \in DOMAIN r : r[k] \in DOMAIN d.users
    BY <1>2, <2>1, <2>2 DEF With
  <2>4. AfterWrite(d, w) = TablesOf(d.users, r, d.totp, d.generated + 1)
    BY <1>5, <2>2, TablesWritten
  <2> QED
    BY <1>1, <1>2, <2>3, <2>4
<1>6. CASE w.do = "redeem"
  <2>1. PICK r : r = Removed(d.resets, w.token)
    OBVIOUS
  <2>2. \A k \in DOMAIN r : r[k] \in DOMAIN d.users
    BY <1>2, <2>1 DEF Removed
  <2>3. AfterWrite(d, w) = TablesOf(d.users, r, d.totp, d.generated)
    BY <1>6, <2>1, TablesWritten
  <2> QED
    BY <1>1, <1>2, <2>2, <2>3
<1>7. CASE w.do = "totp"
  <2>1. DOMAIN w.row = {"secret", "enabled"}
    BY <1>7 DEF ChangeFits, SetFits, PasscodeFits
  <2>2. PICK t : t = With(d.totp, w.id, w.row)
    OBVIOUS
  <2>3. Passcodes(t)
    BY <1>2, <2>1, <2>2 DEF With, Passcodes
  <2>4. AfterWrite(d, w) = TablesOf(d.users, d.resets, t, d.generated + 1)
    BY <1>7, <2>2, TablesWritten
  <2> QED
    BY <1>1, <1>2, <2>3, <2>4
<1>8. CASE w.do = "enable"
  <2>1. CASE w.id \in DOMAIN d.totp
    <3>1. PICK t : t = [d.totp EXCEPT ![w.id].enabled = TRUE]
      OBVIOUS
    <3>2. Passcodes(t)
      BY <1>2, <2>1, <3>1 DEF Passcodes
    <3>3. AfterWrite(d, w) = TablesOf(d.users, d.resets, t, d.generated)
      BY <1>8, <2>1, <3>1, TablesWritten
    <3> QED
      BY <1>1, <1>2, <3>2, <3>3
  <2>2. CASE w.id \notin DOMAIN d.totp
    BY <1>8, <2>2, TablesWritten
  <2> QED
    BY <2>1, <2>2
<1>9. CASE w.do = "disable"
  <2>1. PICK t : t = Removed(d.totp, w.id)
    OBVIOUS
  <2>2. Passcodes(t)
    BY <1>2, <2>1 DEF Removed, Passcodes
  <2>3. AfterWrite(d, w) = TablesOf(d.users, d.resets, t, d.generated)
    BY <1>9, <2>1, TablesWritten
  <2> QED
    BY <1>1, <1>2, <2>2, <2>3
<1> QED
  BY <1>3, <1>4, <1>5, <1>6, <1>7, <1>8, <1>9 DEF ChangeFits, SetFits, PasscodeFits

AccountsInv ==
    /\ TablesFit(Tables)
    /\ change = NoChange \/ ChangeFits(change, DOMAIN users)

LEMMA AccountsAtFirst == AccountsInit => AccountsInv
<1> SUFFICES ASSUME AccountsInit PROVE AccountsInv
  OBVIOUS
<1>1. PICK w, m : w = (CHOOSE x \in Words : x \notin Dotted) /\ m = (CHOOSE x \in Mails : TRUE)
  OBVIOUS
<1>2. w \notin Dotted /\ m \in Mails
  BY <1>1, AccountsAssumption
<1>3. PICK first : first = NewUser(w, m, TRUE)
  OBVIOUS
<1>4. RowFits(first)
  <2>1. PICK v : v = CHOOSE x \in Values : TRUE
    OBVIOUS
  <2> QED
    BY <1>2, <1>3, <2>1 DEF RowFits, NewUser, Columns
<1>5. users = [u \in {1} |-> first]
  BY <1>1, <1>3 DEF AccountsInit
<1>6. UsersFit(users)
  <2>1. {1} = 1..1 /\ 1 \in Nat
    OBVIOUS
  <2> QED
    BY <1>4, <1>5, <2>1 DEF UsersFit
<1>7. DOMAIN resets = {} /\ DOMAIN totp = {} /\ change = NoChange
  BY DEF AccountsInit
<1>8. PICK d : d = Tables
  OBVIOUS
<1>9. /\ d = [users |-> d.users, resets |-> d.resets, totp |-> d.totp, generated |-> d.generated]
      /\ d.users = users /\ d.resets = resets /\ d.totp = totp
  BY <1>8 DEF Tables
<1>10. TablesFit(d)
  BY <1>6, <1>7, <1>9 DEF TablesFit
<1> QED
  BY <1>7, <1>8, <1>10 DEF AccountsInv

\* A secret is renumbered as it is written, and nothing else.
LEMMA FreshFits ==
    ASSUME NEW w, NEW there, ChangeFits(w, there)
    PROVE  /\ ChangeFits(Fresh(w), there) /\ Fresh(w).do = w.do
           /\ w.do # "totp" => Fresh(w) = w
<1>1. CASE w.do # "totp"
  BY <1>1 DEF Fresh
<1>2. CASE w.do = "totp"
  <2>1. w = [do |-> "totp", id |-> w.id, row |-> w.row]
        /\ w.row = [secret |-> w.row.secret, enabled |-> FALSE]
    BY <1>2 DEF ChangeFits, SetFits, PasscodeFits
  <2>2. PICK i, x : w = [do |-> "totp", id |-> i, row |-> [secret |-> x, enabled |-> FALSE]]
    BY <2>1
  <2>3. Fresh(w) = [do |-> "totp", id |-> i, row |-> [secret |-> generated + 1, enabled |-> FALSE]]
    BY <2>2 DEF Fresh
  <2>4. PICK f : f = Fresh(w)
    OBVIOUS
  <2>5. f = [do |-> "totp", id |-> i, row |-> [secret |-> generated + 1, enabled |-> FALSE]]
    BY <2>3, <2>4
  <2>6. f.do = "totp" /\ f.id = i /\ f.row = [secret |-> generated + 1, enabled |-> FALSE]
    BY <2>5
  <2>7. f.row.secret = generated + 1
    BY <2>6
  <2>8. PasscodeFits(f)
    BY <2>5, <2>6, <2>7 DEF PasscodeFits
  <2> QED
    BY <1>2, <2>4, <2>6, <2>8 DEF ChangeFits
<1> QED
  BY <1>1, <1>2

LEMMA CommitKeepsAccounts ==
    ASSUME AccountsInv, NEW w, ChangeFits(w, DOMAIN users), CommitChange(w)
    PROVE  TablesFit(Tables') /\ Tables' = AfterWrite(Tables, Fresh(w)) /\ DOMAIN users \subseteq DOMAIN users'
<1>1. PICK after : after = AfterWrite(Tables, Fresh(w))
  OBVIOUS
<1>2. Tables.users = users
  BY DEF Tables
<1>3. TablesFit(after) /\ DOMAIN users \subseteq DOMAIN after.users
  BY <1>1, <1>2, FreshFits, TablesStayFit DEF AccountsInv
<1>4. /\ users' = after.users /\ resets' = after.resets /\ totp' = after.totp
      /\ generated' = after.generated
  BY <1>1 DEF CommitChange
<1>5. Tables' = after
  BY <1>3, <1>4 DEF Tables, TablesFit
<1> QED
  BY <1>1, <1>3, <1>4, <1>5

LEMMA StepKeepsAccounts ==
    ASSUME AccountsInv, [AccountsNext]_accountVars
    PROVE  AccountsInv'
<1>1. \A w \in Changes(Tables) : ChangeFits(w, DOMAIN users)
  BY ChangesDecided DEF AccountsInv, Tables
<1>2. \A w : \A there, more : ChangeFits(w, there) /\ there \subseteq more => ChangeFits(w, more)
  BY DEF ChangeFits, SetFits
<1>3. CASE ServeAccount
  <2>1. PICK w \in Changes(Tables) : CommitChange(w) /\ UNCHANGED change
    BY <1>3 DEF ServeAccount
  <2>2. TablesFit(Tables') /\ DOMAIN users \subseteq DOMAIN users'
    BY <1>1, <2>1, CommitKeepsAccounts
  <2>3. change = NoChange \/ ChangeFits(change, DOMAIN users')
    BY <1>2, <2>2 DEF AccountsInv
  <2> QED
    BY <2>1, <2>2, <2>3 DEF AccountsInv
<1>4. CASE ReadAccount
  <2>1. PICK w \in Changes(Tables) : change' = w
    BY <1>4 DEF ReadAccount
  <2>2. UNCHANGED <<users, Tables>>
    BY <1>4 DEF ReadAccount, Tables
  <2>3. ChangeFits(w, DOMAIN users')
    BY <1>1, <2>2
  <2> QED
    BY <2>1, <2>2, <2>3 DEF AccountsInv
<1>5. CASE WriteAccount
  <2>1. ChangeFits(change, DOMAIN users) /\ CommitChange(change) /\ change' = NoChange
    BY <1>5 DEF WriteAccount, AccountsInv
  <2>2. TablesFit(Tables')
    BY <2>1, CommitKeepsAccounts
  <2> QED
    BY <2>1, <2>2 DEF AccountsInv
<1>6. CASE UNCHANGED accountVars
  BY <1>6 DEF accountVars, AccountsInv, Tables
<1> QED
  BY <1>3, <1>4, <1>5, <1>6 DEF AccountsNext

-----------------------------------------------------------------------------
(* Accounts: what a request alone leaves, and what a slow one takes back.  *)

\* A login finds one user at most when nobody shares a name, nobody an address, and no
\* name is an address.
LEMMA AddedIsFound ==
    ASSUME NEW d, TablesFit(d), LookupsSingle(d), NEW row, RowFits(row),
           Named(d, row.name) = {}, WithMail(d, row.mail) = {},
           NEW e, NEW n, n \notin DOMAIN d.users, DOMAIN e.users = DOMAIN d.users \cup {n},
           e.users[n] = row, \A u \in DOMAIN d.users : e.users[u] = d.users[u]
    PROVE  LookupsSingle(e)
<1>1. ASSUME NEW l \in Words PROVE LookupSucceeds(Found(e, l))
  <2>1. row.name \notin Dotted /\ row.mail \in Dotted
    BY AccountsAssumption DEF RowFits
  <2>2. \A u \in DOMAIN d.users : d.users[u].name \notin Dotted /\ d.users[u].mail \in Dotted
    BY AccountsAssumption DEF TablesFit, UsersFit, RowFits
  <2>3. CASE l = row.name \/ l = row.mail
    <3>1. \A u \in DOMAIN d.users : d.users[u].name # row.name /\ d.users[u].mail # row.mail
      BY DEF Named, WithMail
    <3>2. Found(d, l) = {}
      BY <2>1, <2>2, <2>3, <3>1 DEF Found, Named, WithMail
    <3>3. Found(e, l) = {n}
      BY <2>3, <3>2 DEF Found, Named, WithMail
    <3>4. Cardinality({n}) = 1
      BY FS_Singleton
    <3> QED
      BY <3>3, <3>4 DEF LookupSucceeds
  <2>4. CASE l # row.name /\ l # row.mail
    <3>1. Found(e, l) = Found(d, l)
      BY <2>4 DEF Found, Named, WithMail
    <3> QED
      BY <3>1 DEF LookupsSingle
  <2> QED
    BY <2>3, <2>4
<1> QED
  BY <1>1 DEF LookupsSingle

LEMMA SameLookups ==
    ASSUME NEW d, NEW e, LookupsSingle(d), DOMAIN e.users = DOMAIN d.users,
           \A u \in DOMAIN d.users : e.users[u].name = d.users[u].name /\ e.users[u].mail = d.users[u].mail
    PROVE  LookupsSingle(e)
<1>1. \A l : Found(e, l) = Found(d, l)
  BY DEF Found, Named, WithMail
<1> QED
  BY <1>1 DEF LookupsSingle

\* Taking its rights from one of several administrators leaves another.
LEMMA AnAdminStays ==
    ASSUME NEW d, Admins(d) # {}, NEW e, NEW id, DOMAIN e.users = DOMAIN d.users,
           \A u \in DOMAIN d.users \ {id} : e.users[u] = d.users[u],
           id \in Admins(d) => e.users[id].admin \/ ~IsLastAdmin(d)
    PROVE  Admins(e) # {}
<1>1. CASE Admins(d) \ {id} # {}
  <2>1. PICK a \in Admins(d) : a # id
    BY <1>1
  <2>2. a \in Admins(e)
    BY <2>1 DEF Admins
  <2> QED
    BY <2>2
<1>2. CASE Admins(d) \ {id} = {}
  <2>1. Admins(d) = {id}
    BY <1>2
  <2>2. Cardinality({id}) = 1
    BY FS_Singleton
  <2>3. e.users[id].admin
    BY <2>1, <2>2 DEF IsLastAdmin
  <2>4. id \in Admins(e)
    BY <2>1, <2>3 DEF Admins
  <2> QED
    BY <2>4
<1> QED
  BY <1>1, <1>2

LEMMA SetKeepsSound ==
    ASSUME NEW d, TablesFit(d), NEW shown, Sound(d, shown),
           NEW w, SetFits(w, DOMAIN d.users), Checked(d, w)
    PROVE  Sound(AfterWrite(d, w), shown)
<1>1. PICK e : e = AfterWrite(d, w)
  OBVIOUS
<1>2. PICK all : all = [d.users EXCEPT ![w.id] = Merged(@, w.columns)]
  OBVIOUS
<1>3. w.do = "set" /\ w.id \in DOMAIN d.users
  BY DEF SetFits
<1>4. e = TablesOf(all, d.resets, d.totp, d.generated)
  BY <1>1, <1>2, <1>3, TablesWritten
<1>5. e.users = all /\ e.totp = d.totp
  BY <1>4 DEF TablesOf
<1>6. /\ DOMAIN all = DOMAIN d.users
      /\ \A u \in DOMAIN d.users \ {w.id} : all[u] = d.users[u]
      /\ \A c \in Columns : all[w.id][c] = IF c \in DOMAIN w.columns THEN w.columns[c]
                                         ELSE d.users[w.id][c]
      /\ UsersFit(all)
  BY <1>2, UserChanged DEF SetFits
<1>7. /\ all[w.id]["name"] = d.users[w.id]["name"] /\ all[w.id]["mail"] = d.users[w.id]["mail"]
  BY <1>6 DEF SetFits, Columns
<1>8. \A u \in DOMAIN d.users : all[u].name = d.users[u].name /\ all[u].mail = d.users[u].mail
  BY <1>6, <1>7
<1>9. LookupsSingle(e)
  BY <1>5, <1>6, <1>8, SameLookups DEF Sound
<1>10. w.id \in Admins(d) => e.users[w.id].admin \/ ~IsLastAdmin(d)
  <2>1. all[w.id]["admin"] = IF "admin" \in DOMAIN w.columns THEN w.columns["admin"]
                             ELSE d.users[w.id]["admin"]
    BY <1>6 DEF Columns
  <2> QED
    BY <1>3, <1>5, <2>1 DEF Admins, Checked
<1>11. Admins(e) # {}
  <2>1. DOMAIN e.users = DOMAIN d.users /\ \A u \in DOMAIN d.users \ {w.id} : e.users[u] = d.users[u]
    BY <1>5, <1>6
  <2>2. Admins(d) # {}
    BY DEF Sound
  <2> QED
    BY <1>10, <2>1, <2>2, AnAdminStays
<1>12. Enabled(e) = Enabled(d)
  BY <1>5 DEF Enabled
<1> QED
  BY <1>1, <1>9, <1>11, <1>12 DEF Sound

LEMMA InsertKeepsSound ==
    ASSUME NEW d, TablesFit(d), NEW shown, Sound(d, shown),
           NEW w, w.do = "insert", RowFits(w.user), Checked(d, w)
    PROVE  Sound(AfterWrite(d, w), shown)
<1>1. PICK e : e = AfterWrite(d, w)
  OBVIOUS
<1>2. PICK n, all : n = Cardinality(DOMAIN d.users) + 1 /\ all = With(d.users, n, w.user)
  OBVIOUS
<1>3. Named(d, w.user.name) = {} /\ WithMail(d, w.user.mail) = {}
  BY DEF Checked
<1>4. e = TablesOf(all, d.resets, d.totp, d.generated)
  BY <1>1, <1>2, <1>3, TablesWritten
<1>5. e.users = all /\ e.totp = d.totp
  BY <1>4 DEF TablesOf
<1>6. /\ n \notin DOMAIN d.users /\ DOMAIN all = DOMAIN d.users \cup {n}
      /\ all[n] = w.user /\ \A u \in DOMAIN d.users : all[u] = d.users[u]
  BY <1>2, UserAdded
<1>7. LookupsSingle(e)
  BY <1>3, <1>5, <1>6, AddedIsFound DEF Sound
<1>8. Admins(d) \subseteq Admins(e)
  BY <1>5, <1>6 DEF Admins
<1>9. Enabled(e) = Enabled(d)
  BY <1>5 DEF Enabled
<1> QED
  BY <1>1, <1>7, <1>8, <1>9 DEF Sound

LEMMA OthersKeepSound ==
    ASSUME NEW d, TablesFit(d), NEW shown, Sound(d, shown),
           NEW w, ChangeFits(w, DOMAIN d.users), Checked(d, w), w.do \notin {"insert", "set"}
    PROVE  Sound(AfterWrite(d, w), shown \cup Shown(w))
<1>1. PICK e : e = AfterWrite(d, w)
  OBVIOUS
<1>2. e.users = d.users
  BY <1>1, PasscodesWritten DEF ChangeFits, SetFits, PasscodeFits
<1>3. Admins(e) = Admins(d) /\ LookupsSingle(e)
  BY <1>2, SameLookups DEF Admins, Sound
<1>4. Enabled(e) \subseteq Enabled(d) \cup Shown(w)
  <2>1. CASE w.do = "token" \/ w.do = "redeem"
    <3>1. e.totp = d.totp
      BY <1>1, <2>1, PasscodesWritten
    <3> QED
      BY <3>1 DEF Enabled
  <2>2. CASE w.do = "totp"
    <3>1. e.totp = With(d.totp, w.id, w.row)
      BY <1>1, <2>2, PasscodesWritten
    <3>2. w.row.enabled = FALSE
      BY <2>2 DEF ChangeFits, SetFits, PasscodeFits
    <3>3. \A u \in DOMAIN e.totp : e.totp[u].enabled => u \in DOMAIN d.totp /\ e.totp[u] = d.totp[u]
      BY <3>1, <3>2 DEF With
    <3> QED
      BY <3>3 DEF Enabled
  <2>3. CASE w.do = "disable"
    <3>1. e.totp = Removed(d.totp, w.id)
      BY <1>1, <2>3, PasscodesWritten
    <3> QED
      BY <3>1 DEF Removed, Enabled
  <2>4. CASE w.do = "enable"
    <3>1. w.id \in DOMAIN d.totp /\ w.secret = d.totp[w.id].secret /\ "secret" \in DOMAIN d.totp[w.id]
      BY <2>4 DEF Checked, TablesFit
    <3>2. e.totp = d.totp \/ e.totp = [d.totp EXCEPT ![w.id].enabled = TRUE]
      BY <1>1, <2>4, PasscodesWritten
    <3>3. /\ DOMAIN e.totp = DOMAIN d.totp /\ e.totp[w.id].secret = d.totp[w.id].secret
          /\ \A u \in DOMAIN d.totp \ {w.id} : e.totp[u] = d.totp[u]
      BY <3>1, <3>2
    <3>4. Shown(w) = {w.secret}
      BY <2>4 DEF Shown
    <3> QED
      BY <3>1, <3>3, <3>4 DEF Enabled
  <2> QED
    BY <2>1, <2>2, <2>3, <2>4 DEF ChangeFits, SetFits, PasscodeFits
<1> QED
  BY <1>1, <1>3, <1>4 DEF Sound

\* Of all that a request may do alone, registering, resetting, setting and deleting
\* included: an administrator stays, a login finds one user at most, and no secret is
\* live that no passcode was given for.
THEOREM LoneRequestKeepsAccounts == AccountsSpec => []AloneKeepsSound
<1>1. AccountsInv /\ [AccountsNext]_accountVars => AccountsInv'
  BY StepKeepsAccounts
<1>2. AccountsInv => AloneKeepsSound
  <2> SUFFICES ASSUME AccountsInv, Sound(Tables, proven), NEW w \in Changes(Tables)
               PROVE  Sound(AfterWrite(Tables, w), proven \cup Shown(w))
    BY DEF AloneKeepsSound
  <2>1. TablesFit(Tables)
    BY DEF AccountsInv
  <2>2. ChangeFits(w, DOMAIN Tables.users) /\ Checked(Tables, w)
    BY <2>1, ChangesDecided
  <2>3. CASE w.do = "insert"
    <3>1. RowFits(w.user)
      BY <2>2, <2>3 DEF ChangeFits, SetFits, PasscodeFits
    <3>2. Sound(AfterWrite(Tables, w), proven)
      BY <2>1, <2>2, <2>3, <3>1, InsertKeepsSound
    <3> QED
      BY <3>2 DEF Sound
  <2>4. CASE w.do = "set"
    <3>1. SetFits(w, DOMAIN Tables.users)
      BY <2>2, <2>4 DEF ChangeFits, PasscodeFits
    <3>2. Sound(AfterWrite(Tables, w), proven)
      BY <2>1, <2>2, <3>1, SetKeepsSound
    <3> QED
      BY <3>2 DEF Sound
  <2> QED
    BY <2>1, <2>2, <2>3, <2>4, OthersKeepSound
<1> QED
  BY <1>1, <1>2, AccountsAtFirst, PTL DEF AccountsSpec

LEMMA OnlyNamedColumns ==
    ASSUME NEW d, TablesFit(d), NEW w, ChangeFits(w, DOMAIN d.users),
           NEW e, e = AfterWrite(d, w),
           NEW u \in DOMAIN d.users, NEW c \in DOMAIN d.users[u]
    PROVE  e.users[u][c] = d.users[u][c] \/ (w.do = "set" /\ c \in DOMAIN w.columns)
<1>1. CASE w.do = "insert"
  <2>1. RowFits(w.user)
    BY <1>1 DEF ChangeFits, SetFits, PasscodeFits
  <2>2. PICK n, all : n = Cardinality(DOMAIN d.users) + 1 /\ all = With(d.users, n, w.user)
    OBVIOUS
  <2>3. /\ n \notin DOMAIN d.users /\ DOMAIN all = DOMAIN d.users \cup {n}
        /\ all[n] = w.user /\ \A x \in DOMAIN d.users : all[x] = d.users[x]
        /\ UsersFit(all)
    BY <2>1, <2>2, UserAdded
  <2>4. e = d \/ e = TablesOf(all, d.resets, d.totp, d.generated)
    BY <1>1, <2>2, TablesWritten
  <2>5. e.users[u] = d.users[u]
    BY <2>3, <2>4 DEF TablesOf
  <2> QED
    BY <2>5
<1>2. CASE w.do = "set"
  <2>1. SetFits(w, DOMAIN d.users)
    BY <1>2 DEF ChangeFits, PasscodeFits
  <2>2. PICK all : all = [d.users EXCEPT ![w.id] = Merged(@, w.columns)]
    OBVIOUS
  <2>3. /\ DOMAIN all = DOMAIN d.users
        /\ \A x \in DOMAIN d.users \ {w.id} : all[x] = d.users[x]
        /\ \A x \in Columns : all[w.id][x] = IF x \in DOMAIN w.columns THEN w.columns[x]
                                           ELSE d.users[w.id][x]
        /\ UsersFit(all)
    BY <2>1, <2>2, UserChanged DEF SetFits
  <2>4. e = TablesOf(all, d.resets, d.totp, d.generated)
    BY <1>2, <2>2, TablesWritten
  <2>5. e.users = all /\ c \in Columns
    BY <2>4 DEF TablesOf, TablesFit, UsersFit, RowFits
  <2> QED
    BY <1>2, <2>3, <2>5
<1>3. CASE w.do \notin {"insert", "set"}
  <2>1. e.users = d.users
    BY <1>3, PasscodesWritten DEF ChangeFits, SetFits, PasscodeFits
  <2> QED
    BY <2>1
<1> QED
  BY <1>1, <1>2, <1>3

\* However many others commit between what a slow request reads and what it writes, it
\* changes nothing of a user but the columns it names.
THEOREM SlowRequestTakesNothingBack == AccountsSpec => NothingTakenBack
<1> DEFINE Back(u, c) == users'[u][c] # users[u][c] /\ change # NoChange /\ change' = NoChange
<1> DEFINE Kept == \A u \in DOMAIN users : \A c \in DOMAIN users[u] :
                     Back(u, c) => change.do = "set" /\ c \in DOMAIN change.columns
<1>1. ASSUME AccountsInv, AccountsNext, NEW u \in DOMAIN users, NEW c \in DOMAIN users[u], Back(u, c)
      PROVE  change.do = "set" /\ c \in DOMAIN change.columns
  <2>1. ChangeFits(change, DOMAIN users) /\ CommitChange(change)
    BY <1>1 DEF AccountsInv, AccountsNext, ServeAccount, ReadAccount, WriteAccount
  <2>2. Tables' = AfterWrite(Tables, Fresh(change)) /\ TablesFit(Tables)
    BY <1>1, <2>1, CommitKeepsAccounts DEF AccountsInv
  <2>3. PICK d, e, f : d = Tables /\ e = Tables' /\ f = Fresh(change)
    OBVIOUS
  <2>4. d.users = users /\ e.users = users' /\ e = AfterWrite(d, f) /\ TablesFit(d)
    BY <2>2, <2>3 DEF Tables
  <2>5. ChangeFits(f, DOMAIN d.users) /\ f.do = change.do /\ (f.do # "totp" => f = change)
    BY <2>1, <2>3, <2>4, FreshFits
  <2>6. f.do = "set" /\ c \in DOMAIN f.columns
    BY <1>1, <2>4, <2>5, OnlyNamedColumns
  <2> QED
    BY <2>5, <2>6
<1>2. AccountsInv /\ [AccountsNext]_accountVars => [Kept]_accountVars
  BY <1>1
<1>3. AccountsInv /\ [AccountsNext]_accountVars => AccountsInv'
  BY StepKeepsAccounts
<1> QED
  BY <1>2, <1>3, AccountsAtFirst, PTL DEF AccountsSpec, NothingTakenBack

-----------------------------------------------------------------------------
(* Access: the rows, and what may be written to them.                      *)

Tabled(x) ==
    /\ "table" \in DOMAIN x
    /\ x.table \in {"users_projects", "team_projects", "teams", "team_members"}
    /\ x.table = "users_projects" => DOMAIN x = {"table", "user", "project", "level"}
    /\ x.table = "team_projects" => DOMAIN x = {"table", "team", "project", "level"}
    /\ x.table = "team_members" => DOMAIN x = {"table", "team", "user", "admin"}

RowsTabled(d, last) ==
    last \in Nat /\ DOMAIN d \subseteq 1..last /\ \A r \in DOMAIN d : Tabled(d[r])

AddsOne(w, x) == w.do = "insert" /\ w.rows = <<x>> /\ x.table # "teams"
AddsTeam(w, x) == w.do = "insert" /\ w.rows = <<Team, x>> /\ x.table = "team_members"
Leaves(d, last, w, e) == e = Written(d, last, w)

WriteFits(w) ==
    \/ \E x : Tabled(x) /\ (AddsOne(w, x) \/ AddsTeam(w, x))
    \/ w.do = "update" /\ Tabled(w.to)
    \/ w.do \in {"delete", "drop"}

\* What a request checked before it decided on w.
NewRow(d, x) ==
    /\ x.table = "users_projects" => GrantsTo(d, x.user, x.project) = {}
    /\ x.table = "team_projects" => x.team \in Teams(d) /\ TeamGrantsTo(d, x.team, x.project) = {}
    /\ x.table = "team_members" => MembersOf(d, x.team) # {} /\ Membership(d, x.team, x.user) = {}
SameKey(x, y) ==
    /\ x.table = y.table /\ DOMAIN x = DOMAIN y
    /\ \A c \in DOMAIN x \ {"level", "admin"} : x[c] = y[c]
MayGo(d, r) == r \in Rows(d, "team_members") => Cardinality(MembersOf(d, d[r].team)) # 1

AddsNew(d, w) == \E x : Tabled(x) /\ AddsOne(w, x) /\ NewRow(d, x)
AddsATeam(w) == \E x : Tabled(x) /\ AddsTeam(w, x)
Alters(d, w) == w.do = "update" /\ Tabled(w.to) /\ w.row \in DOMAIN d /\ SameKey(d[w.row], w.to)
Removes(d, w) == w.do = "delete" /\ \E r \in DOMAIN d : w.rows = {r} /\ MayGo(d, r) /\ r \notin Teams(d)
Drops(d, w) == w.do = "drop" /\ w.team \in Teams(d)

Warranted(d, w) == AddsNew(d, w) \/ AddsATeam(w) \/ Alters(d, w) \/ Removes(d, w) \/ Drops(d, w)

AccessInv == RowsTabled(db, issued) /\ (pending = Nothing \/ WriteFits(pending))

OneMore(d, last, x, e) ==
    /\ DOMAIN e = DOMAIN d \cup {last + 1} /\ last + 1 \notin DOMAIN d
    /\ e[last + 1] = x /\ \A r \in DOMAIN d : e[r] = d[r]
TeamMore(d, last, x, e) ==
    /\ DOMAIN e = DOMAIN d \cup {last + 1, last + 2}
    /\ last + 1 \notin DOMAIN d /\ last + 2 \notin DOMAIN d
    /\ e[last + 1] = Team /\ e[last + 2] = [x EXCEPT !.team = last + 1]
    /\ \A r \in DOMAIN d : e[r] = d[r]

\* What the writes leave.
LEMMA OneRowWritten ==
    ASSUME NEW d, NEW last, RowsTabled(d, last), NEW w, NEW x, AddsOne(w, x),
           NEW e, Leaves(d, last, w, e)
    PROVE  OneMore(d, last, x, e)
<1>1. last \in Nat /\ DOMAIN d \subseteq 1..last
  BY DEF RowsTabled
<1>2. w.do = "insert" /\ w.rows = <<x>> /\ x # Team
  BY DEF AddsOne, Team
<1>3. Renumbered(w.rows, last) = <<x>>
  BY <1>2 DEF Renumbered
<1>4. e = [r \in DOMAIN d \cup {last + i : i \in DOMAIN <<x>>} |-> IF r > last THEN <<x>>[r - last] ELSE d[r]]
  BY <1>2, <1>3 DEF Written, Leaves
<1>5. {last + i : i \in DOMAIN <<x>>} = {last + 1}
  BY <1>1
<1>6. DOMAIN e = DOMAIN d \cup {last + 1}
  BY <1>4, <1>5
<1>7. e[last + 1] = x
  <2>1. last + 1 > last /\ (last + 1) - last = 1
    BY <1>1
  <2>2. e[last + 1] = <<x>>[(last + 1) - last]
    BY <1>4, <1>5, <2>1
  <2> QED
    BY <2>1, <2>2
<1>8. \A r \in DOMAIN d : e[r] = d[r]
  BY <1>1, <1>4
<1> QED
  BY <1>1, <1>6, <1>7, <1>8 DEF OneMore

LEMMA TeamWritten ==
    ASSUME NEW d, NEW last, RowsTabled(d, last), NEW w, NEW x, AddsTeam(w, x),
           NEW e, Leaves(d, last, w, e)
    PROVE  TeamMore(d, last, x, e)
<1>1. last \in Nat /\ DOMAIN d \subseteq 1..last
  BY DEF RowsTabled
<1>2. PICK y : y = [x EXCEPT !.team = last + 1]
  OBVIOUS
<1>3. w.do = "insert" /\ Renumbered(w.rows, last) = <<Team, y>>
  BY <1>2 DEF Renumbered, AddsTeam
<1>4. e = [r \in DOMAIN d \cup {last + i : i \in DOMAIN <<Team, y>>} |->
             IF r > last THEN <<Team, y>>[r - last] ELSE d[r]]
  BY <1>3 DEF Written, Leaves
<1>5. {last + i : i \in DOMAIN <<Team, y>>} = {last + 1, last + 2}
  BY <1>1
<1>6. DOMAIN e = DOMAIN d \cup {last + 1, last + 2}
  BY <1>4, <1>5
<1>7. e[last + 1] = Team /\ e[last + 2] = y
  <2>1. /\ last + 1 > last /\ (last + 1) - last = 1
        /\ last + 2 > last /\ (last + 2) - last = 2
    BY <1>1
  <2>2. e[last + 1] = <<Team, y>>[(last + 1) - last] /\ e[last + 2] = <<Team, y>>[(last + 2) - last]
    BY <1>4, <1>5, <2>1
  <2> QED
    BY <2>1, <2>2
<1>8. \A r \in DOMAIN d : e[r] = d[r]
  BY <1>1, <1>4
<1> QED
  BY <1>1, <1>2, <1>6, <1>7, <1>8 DEF TeamMore

\* The other writes add no row.
LEMMA OthersWritten ==
    ASSUME NEW d, NEW last, NEW w, NEW e, Leaves(d, last, w, e)
    PROVE  /\ w.do = "update" /\ w.row \in DOMAIN d => e = [d EXCEPT ![w.row] = w.to]
           /\ w.do = "update" /\ w.row \notin DOMAIN d => e = d
           /\ w.do = "delete" => e = Without(d, w.rows)
           /\ w.do = "drop" => e = DropTeam(d, w.team)
BY DEF Written, Leaves

\* The ids that a write takes.
LEMMA RowsTaken ==
    ASSUME NEW w
    PROVE  /\ \A x : AddsOne(w, x) => Taken(w) = 1
           /\ \A x : AddsTeam(w, x) => Taken(w) = 2
           /\ w.do # "insert" => Taken(w) = 0
<1>1. ASSUME NEW x, AddsOne(w, x) PROVE Taken(w) = 1
  <2>1. w.do = "insert" /\ DOMAIN w.rows = {1}
    BY <1>1 DEF AddsOne
  <2>2. Cardinality({1}) = 1
    BY FS_Singleton
  <2> QED
    BY <2>1, <2>2 DEF Taken
<1>2. ASSUME NEW x, AddsTeam(w, x) PROVE Taken(w) = 2
  <2>1. w.do = "insert" /\ DOMAIN w.rows = 1..2
    BY <1>2 DEF AddsTeam
  <2>2. Cardinality(1..2) = IF 1 > 2 THEN 0 ELSE (2 - 1) + 1
    <3>1. 1 \in Int /\ 2 \in Int
      OBVIOUS
    <3> QED
      BY <3>1, FS_Interval, Zenon
  <2> QED
    BY <2>1, <2>2 DEF Taken
<1>3. w.do # "insert" => Taken(w) = 0
  BY DEF Taken
<1> QED
  BY <1>1, <1>2, <1>3

LEMMA RowsStayTabled ==
    ASSUME NEW d, NEW last, RowsTabled(d, last), NEW w, WriteFits(w), NEW e, Leaves(d, last, w, e)
    PROVE  RowsTabled(e, last + Taken(w))
<1>1. last \in Nat /\ DOMAIN d \subseteq 1..last /\ \A r \in DOMAIN d : Tabled(d[r])
  BY DEF RowsTabled
<1>2. ASSUME NEW x, Tabled(x), AddsOne(w, x) PROVE RowsTabled(e, last + Taken(w))
  <2>2. /\ DOMAIN e = DOMAIN d \cup {last + 1} /\ last + 1 \notin DOMAIN d
        /\ e[last + 1] = x /\ \A r \in DOMAIN d : e[r] = d[r]
    <3>1. OneMore(d, last, x, e)
      BY <1>2, OneRowWritten
    <3> QED
      BY <3>1 DEF OneMore
  <2>3. Taken(w) = 1
    BY <1>2, RowsTaken
  <2>4. DOMAIN e \subseteq 1..(last + 1) /\ last + 1 \in Nat
    BY <1>1, <2>2
  <2>5. \A r \in DOMAIN e : Tabled(e[r])
    BY <1>1, <1>2, <2>2
  <2> QED
    BY <2>3, <2>4, <2>5 DEF RowsTabled
<1>3. ASSUME NEW x, Tabled(x), AddsTeam(w, x) PROVE RowsTabled(e, last + Taken(w))
  <2>2. /\ DOMAIN e = DOMAIN d \cup {last + 1, last + 2}
        /\ last + 1 \notin DOMAIN d /\ last + 2 \notin DOMAIN d
        /\ e[last + 1] = Team /\ e[last + 2] = [x EXCEPT !.team = last + 1]
        /\ \A r \in DOMAIN d : e[r] = d[r]
    <3>1. TeamMore(d, last, x, e)
      BY <1>3, TeamWritten
    <3> QED
      BY <3>1 DEF TeamMore
  <2>3. Taken(w) = 2
    BY <1>3, RowsTaken
  <2>4. DOMAIN e \subseteq 1..(last + 2) /\ last + 2 \in Nat
    BY <1>1, <2>2
  <2>5. Tabled([x EXCEPT !.team = last + 1])
    BY <1>3 DEF Tabled, AddsTeam
  <2>6. Tabled(Team)
    BY DEF Tabled, Team
  <2>7. \A r \in DOMAIN e : Tabled(e[r])
    BY <1>1, <2>2, <2>5, <2>6
  <2> QED
    BY <2>3, <2>4, <2>7 DEF RowsTabled
<1>4. ASSUME w.do # "insert" PROVE Taken(w) = 0 /\ last + Taken(w) = last
  BY <1>1, <1>4 DEF Taken
<1>5. CASE w.do = "update"
  <2>1. Tabled(w.to)
    BY <1>5 DEF WriteFits, AddsOne, AddsTeam
  <2>2. e = d \/ (w.row \in DOMAIN d /\ e = [d EXCEPT ![w.row] = w.to])
    BY <1>5, OthersWritten
  <2>3. DOMAIN e = DOMAIN d /\ \A r \in DOMAIN d : e[r] = d[r] \/ e[r] = w.to
    BY <2>2
  <2> QED
    BY <1>1, <1>4, <1>5, <2>1, <2>3 DEF RowsTabled
<1>6. CASE w.do \in {"delete", "drop"}
  <2>1. DOMAIN e \subseteq DOMAIN d /\ \A r \in DOMAIN e : e[r] = d[r]
    <3>1. \A gone : DOMAIN Without(d, gone) \subseteq DOMAIN d
                    /\ \A r \in DOMAIN Without(d, gone) : Without(d, gone)[r] = d[r]
      BY DEF Without
    <3>2. \E gone : e = Without(d, gone)
      <4>1. CASE w.do = "delete"
        BY <4>1, OthersWritten
      <4>2. CASE w.do = "drop"
        <5>1. e = DropTeam(d, w.team)
          BY <4>2, OthersWritten
        <5> QED
          BY <5>1 DEF DropTeam
      <4> QED
        BY <1>6, <4>1, <4>2
    <3> QED
      BY <3>1, <3>2
  <2> QED
    BY <1>1, <1>4, <1>6, <2>1 DEF RowsTabled
<1> QED
  BY <1>2, <1>3, <1>5, <1>6 DEF WriteFits

\* What each kind of request decides.
LEMMA GrantsDecided ==
    ASSUME NEW d, NEW u, NEW p, NEW l, NEW w
    PROVE  /\ w \in GrantToUser(d, u, p, l) => AddsNew(d, w)
           /\ \A t \in Teams(d) : w \in GrantToTeam(d, t, p, l) => AddsNew(d, w)
<1>1. ASSUME w \in GrantToUser(d, u, p, l) PROVE AddsNew(d, w)
  <2>1. PICK x : x = [table |-> "users_projects", user |-> u, project |-> p, level |-> l]
    OBVIOUS
  <2>2. w = Insert(<<x>>) /\ GrantsTo(d, u, p) = {}
    BY <1>1, <2>1 DEF GrantToUser
  <2>3. x.table = "users_projects" /\ x.user = u /\ x.project = p /\ Tabled(x)
    BY <2>1 DEF Tabled
  <2>4. NewRow(d, x)
    BY <2>2, <2>3 DEF NewRow
  <2>5. AddsOne(w, x)
    BY <2>2, <2>3 DEF Insert, AddsOne
  <2> QED
    BY <2>3, <2>4, <2>5 DEF AddsNew
<1>2. ASSUME NEW t \in Teams(d), w \in GrantToTeam(d, t, p, l) PROVE AddsNew(d, w)
  <2>1. PICK x : x = [table |-> "team_projects", team |-> t, project |-> p, level |-> l]
    OBVIOUS
  <2>2. w = Insert(<<x>>) /\ TeamGrantsTo(d, t, p) = {}
    BY <1>2, <2>1 DEF GrantToTeam
  <2>3. x.table = "team_projects" /\ x.team = t /\ x.project = p /\ Tabled(x)
    BY <2>1 DEF Tabled
  <2>4. NewRow(d, x)
    BY <2>2, <2>3 DEF NewRow
  <2>5. AddsOne(w, x)
    BY <2>2, <2>3 DEF Insert, AddsOne
  <2> QED
    BY <2>3, <2>4, <2>5 DEF AddsNew
<1> QED
  BY <1>1, <1>2

LEMMA GrantsChanged ==
    ASSUME NEW d, NEW last, RowsTabled(d, last), NEW p, NEW r \in GrantsOn(d, p), NEW l, NEW w
    PROVE  /\ w = ChangeGrant(d, r, l) => Alters(d, w)
           /\ w = RevokeGrant(r) => Removes(d, w)
<1>1. r \in DOMAIN d /\ Tabled(d[r]) /\ d[r].table \in {"users_projects", "team_projects"}
  BY DEF GrantsOn, Rows, RowsTabled
<1>2. ASSUME w = ChangeGrant(d, r, l) PROVE Alters(d, w)
  <2>1. PICK y : y = [d[r] EXCEPT !.level = l]
    OBVIOUS
  <2>2. w.do = "update" /\ w.row = r /\ w.to = y
    BY <1>2, <2>1 DEF ChangeGrant, Update
  <2>3. DOMAIN y = DOMAIN d[r] /\ \A c \in DOMAIN d[r] \ {"level"} : y[c] = d[r][c]
    BY <2>1
  <2>4. "table" \in DOMAIN d[r]
    BY <1>1 DEF Tabled
  <2>5. y.table = d[r].table
    BY <2>3, <2>4
  <2>6. Tabled(y)
    BY <1>1, <2>3, <2>5 DEF Tabled
  <2>7. SameKey(d[r], y)
    BY <2>3, <2>5 DEF SameKey
  <2> QED
    BY <1>1, <2>2, <2>6, <2>7 DEF Alters
<1>3. ASSUME w = RevokeGrant(r) PROVE Removes(d, w)
  <2>1. w.do = "delete" /\ w.rows = {r}
    BY <1>3 DEF RevokeGrant, Delete
  <2>2. MayGo(d, r) /\ r \notin Teams(d)
    BY <1>1 DEF MayGo, Teams, Rows
  <2> QED
    BY <1>1, <2>1, <2>2 DEF Removes
<1> QED
  BY <1>2, <1>3

LEMMA SharingDecides ==
    ASSUME NEW d, NEW last, RowsTabled(d, last), NEW by, NEW w \in Sharing(d, by)
    PROVE  Warranted(d, w)
<1> DEFINE ToUsers(p) == {GrantToUser(d, u, p, l) : u \in Users, l \in Levels}
           ToTeams(p) == {GrantToTeam(d, t, p, l) : t \in Teams(d), l \in Levels}
           Change(r, l) == ChangeGrant(d, r, l)
           Changed_(p) == {Change(r, l) : r \in GrantsOn(d, p), l \in Levels}
           Revoked(p) == {RevokeGrant(r) : r \in GrantsOn(d, p)}
<1>1. ASSUME NEW p, w \in UNION ToUsers(p) PROVE Warranted(d, w)
  <2>1. PICK u \in Users, l \in Levels : w \in GrantToUser(d, u, p, l)
    BY <1>1
  <2> QED
    BY <2>1, GrantsDecided DEF Warranted
<1>2. ASSUME NEW p, w \in UNION ToTeams(p) PROVE Warranted(d, w)
  <2>1. PICK t \in Teams(d), l \in Levels : w \in GrantToTeam(d, t, p, l)
    BY <1>2
  <2> QED
    BY <2>1, GrantsDecided DEF Warranted
<1>3. ASSUME NEW p, w \in Changed_(p) PROVE Warranted(d, w)
  <2> HIDE DEF Change
  <2>1. PICK r \in GrantsOn(d, p), l \in Levels : w = Change(r, l)
    BY <1>3
  <2> USE DEF Change
  <2> QED
    BY <2>1, GrantsChanged DEF Warranted
<1>4. ASSUME NEW p, w \in Revoked(p) PROVE Warranted(d, w)
  <2>1. PICK r \in GrantsOn(d, p) : w = RevokeGrant(r)
    BY <1>4
  <2> QED
    BY <2>1, GrantsChanged DEF Warranted
<1>5. PICK p : w \in (UNION ToUsers(p)) \cup (UNION ToTeams(p)) \cup Changed_(p) \cup Revoked(p)
  BY DEF Sharing
<1> HIDE DEF ToUsers, ToTeams, Changed_, Revoked
<1> QED
  BY <1>1, <1>2, <1>3, <1>4, <1>5

LEMMA NewTeamDecided ==
    ASSUME NEW by, NEW last, NEW w, w = CreateTeam(by, last)
    PROVE  AddsATeam(w)
<1>1. PICK x : x = [table |-> "team_members", team |-> last + 1, user |-> by, admin |-> TRUE]
  OBVIOUS
<1>2. w.do = "insert" /\ w.rows = <<Team, x>>
  BY <1>1 DEF CreateTeam, Insert
<1>3. Tabled(x) /\ x.table = "team_members"
  BY <1>1 DEF Tabled
<1> QED
  BY <1>2, <1>3 DEF AddsTeam, AddsATeam

LEMMA MembersDecided ==
    ASSUME NEW d, NEW last, RowsTabled(d, last), NEW by, NEW t, NEW u,
           NEW w \in AddMember(d, by, t, u) \cup RemoveMember(d, by, t, u)
                       \cup ToggleAdmin(d, by, t, u) \cup DeleteTeam(d, by, t)
    PROVE  Warranted(d, w)
<1>1. \A v : Membership(d, t, v) \subseteq MembersOf(d, t)
  BY DEF Membership
<1>2. \A r \in MembersOf(d, t) :
        r \in Rows(d, "team_members") /\ r \in DOMAIN d /\ d[r].table = "team_members" /\ d[r].team = t
        /\ Tabled(d[r])
  BY DEF MembersOf, Rows, RowsTabled
<1>3. ASSUME w \in AddMember(d, by, t, u) PROVE AddsNew(d, w)
  <2>1. PICK x : x = [table |-> "team_members", team |-> t, user |-> u, admin |-> FALSE]
    OBVIOUS
  <2>2. w = Insert(<<x>>) /\ Membership(d, t, u) = {} /\ IsTeamAdmin(d, by, t)
    BY <1>3, <2>1 DEF AddMember
  <2>3. x.table = "team_members" /\ x.team = t /\ x.user = u /\ Tabled(x)
    BY <2>1 DEF Tabled
  <2>4. MembersOf(d, t) # {}
    BY <1>1, <2>2 DEF IsTeamAdmin
  <2>5. NewRow(d, x)
    BY <2>2, <2>3, <2>4 DEF NewRow
  <2>6. AddsOne(w, x)
    BY <2>2, <2>3 DEF Insert, AddsOne
  <2> QED
    BY <2>3, <2>5, <2>6 DEF AddsNew
<1>4. ASSUME w \in RemoveMember(d, by, t, u) PROVE Removes(d, w)
  <2>1. PICK r \in Membership(d, t, u) : w = Delete(r) /\ Cardinality(MembersOf(d, t)) # 1
    BY <1>4 DEF RemoveMember
  <2>2. r \in DOMAIN d /\ d[r].table = "team_members" /\ d[r].team = t
    BY <1>1, <1>2
  <2>3. MayGo(d, r) /\ r \notin Teams(d)
    BY <2>1, <2>2 DEF MayGo, Teams, Rows
  <2> QED
    BY <2>1, <2>2, <2>3 DEF Delete, Removes
<1>5. ASSUME w \in ToggleAdmin(d, by, t, u) PROVE Alters(d, w)
  <2>1. PICK r \in Membership(d, t, u) : w = Update(r, [d[r] EXCEPT !.admin = ~@])
    BY <1>5 DEF ToggleAdmin
  <2>2. r \in DOMAIN d /\ Tabled(d[r])
    BY <1>1, <1>2
  <2>3. PICK y : y = [d[r] EXCEPT !.admin = ~@]
    OBVIOUS
  <2>4. w.do = "update" /\ w.row = r /\ w.to = y
    BY <2>1, <2>3 DEF Update
  <2>5. DOMAIN y = DOMAIN d[r] /\ \A c \in DOMAIN d[r] \ {"admin"} : y[c] = d[r][c]
    BY <2>3
  <2>6. y.table = d[r].table
    BY <2>2, <2>5 DEF Tabled
  <2>7. Tabled(y)
    BY <2>2, <2>5, <2>6 DEF Tabled
  <2>8. SameKey(d[r], y)
    BY <2>5, <2>6 DEF SameKey
  <2> QED
    BY <2>2, <2>4, <2>7, <2>8 DEF Alters
<1>6. ASSUME w \in DeleteTeam(d, by, t) PROVE Drops(d, w)
  BY <1>6 DEF DeleteTeam, Drops
<1> QED
  BY <1>3, <1>4, <1>5, <1>6 DEF Warranted

LEMMA AllDecided ==
    ASSUME NEW d, NEW last, RowsTabled(d, last), NEW by, NEW w \in Decisions(d, by, last)
    PROVE  Warranted(d, w)
<1> DEFINE OfTeam(t, u) == UNION {AddMember(d, by, t, u), RemoveMember(d, by, t, u),
                                  ToggleAdmin(d, by, t, u), DeleteTeam(d, by, t)}
           teams == Teams(d) \cup {d[r].team : r \in Rows(d, "team_members")}
           ofTeams == {OfTeam(t, u) : t \in teams, u \in Users}
<1>1. w \in Sharing(d, by) \/ w = CreateTeam(by, last) \/ w \in UNION ofTeams
  BY DEF Decisions
<1>2. ASSUME w \in UNION ofTeams PROVE Warranted(d, w)
  <2> HIDE DEF OfTeam, teams
  <2>1. PICK t, u : w \in OfTeam(t, u)
    BY <1>2
  <2> USE DEF OfTeam
  <2>2. w \in AddMember(d, by, t, u) \cup RemoveMember(d, by, t, u)
              \cup ToggleAdmin(d, by, t, u) \cup DeleteTeam(d, by, t)
    BY <2>1
  <2> QED
    BY <2>2, MembersDecided
<1> HIDE DEF ofTeams
<1>3. ASSUME w = CreateTeam(by, last) PROVE Warranted(d, w)
  BY <1>3, NewTeamDecided DEF Warranted
<1> QED
  BY <1>1, <1>2, <1>3, SharingDecides

LEMMA WarrantedFits ==
    ASSUME NEW d, NEW w, Warranted(d, w)
    PROVE  WriteFits(w)
<1>1. AddsNew(d, w) => WriteFits(w)
  BY DEF AddsNew, WriteFits
<1>2. AddsATeam(w) => WriteFits(w)
  BY DEF AddsATeam, WriteFits
<1>3. Alters(d, w) => WriteFits(w)
  BY DEF Alters, WriteFits
<1>4. Removes(d, w) => WriteFits(w)
  BY DEF Removes, WriteFits
<1>5. Drops(d, w) => WriteFits(w)
  BY DEF Drops, WriteFits
<1> QED
  BY <1>1, <1>2, <1>3, <1>4, <1>5 DEF Warranted

LEMMA AccessAtFirst == AccessInit => AccessInv
BY AccessAssumption DEF AccessInit, AccessInv, RowsTabled

LEMMA CommitKeepsAccess ==
    ASSUME RowsTabled(db, issued), NEW w, WriteFits(w), Commit(w)
    PROVE  RowsTabled(db', issued')
<1>1. PICK e, n : e = db' /\ n = issued'
  OBVIOUS
<1>2. Leaves(db, issued, w, e) /\ n = issued + Taken(w)
  BY <1>1 DEF Commit, Leaves
<1>3. RowsTabled(e, issued + Taken(w))
  BY <1>2, RowsStayTabled
<1> QED
  BY <1>1, <1>2, <1>3

LEMMA StepKeepsAccess == AccessInv /\ [AccessNext]_accessVars => AccessInv'
<1> SUFFICES ASSUME AccessInv, [AccessNext]_accessVars PROVE AccessInv'
  OBVIOUS
<1>1. RowsTabled(db, issued) /\ (pending = Nothing \/ WriteFits(pending))
  BY DEF AccessInv
<1>2. ASSUME NEW by \in Users, Serve(by) PROVE AccessInv'
  <2>1. PICK w \in Decisions(db, by, issued) : Commit(w) /\ UNCHANGED pending
    BY <1>2 DEF Serve
  <2>2. WriteFits(w)
    BY <1>1, AllDecided, WarrantedFits
  <2>3. RowsTabled(db', issued')
    BY <1>1, <2>1, <2>2, CommitKeepsAccess
  <2> QED
    BY <1>1, <2>1, <2>3 DEF AccessInv
<1>3. ASSUME NEW by \in Users, Read(by) PROVE AccessInv'
  <2>1. PICK w \in Decisions(db, by, issued) : pending' = w
    BY <1>3 DEF Read
  <2>2. WriteFits(w)
    BY <1>1, AllDecided, WarrantedFits
  <2>3. UNCHANGED <<db, issued>>
    BY <1>3 DEF Read
  <2> QED
    BY <1>1, <2>1, <2>2, <2>3 DEF AccessInv
<1>4. ASSUME Write PROVE AccessInv'
  <2>1. Commit(pending) /\ pending # Nothing /\ pending' = Nothing
    BY <1>4 DEF Write
  <2>2. RowsTabled(db', issued')
    BY <1>1, <2>1, CommitKeepsAccess
  <2> QED
    BY <2>1, <2>2 DEF AccessInv
<1>5. ASSUME UNCHANGED accessVars PROVE AccessInv'
  BY <1>1, <1>5 DEF accessVars, AccessInv
<1> QED
  BY <1>2, <1>3, <1>4, <1>5 DEF AccessNext

-----------------------------------------------------------------------------
(* Access: what a request that nothing overtakes keeps.                    *)

Manned(d) == \A t \in Teams(d) : MembersOf(d, t) # {}
Teamed(d) == \A r \in DOMAIN d : d[r].table \in {"team_members", "team_projects"} => d[r].team \in Teams(d)
TwinRows(x, y) ==
    /\ x.table = y.table
    /\ \/ x.table = "team_members" /\ x.team = y.team /\ x.user = y.user
       \/ x.table = "team_projects" /\ x.team = y.team /\ x.project = y.project
       \/ x.table = "users_projects" /\ x.user = y.user /\ x.project = y.project
NoTwins(d) == \A r, s \in DOMAIN d : TwinRows(d[r], d[s]) => r = s

LEMMA KeptInParts ==
    ASSUME NEW d
    PROVE  WellKept(d) <=> Manned(d) /\ Teamed(d) /\ NoTwins(d)
<1>1. \A r \in DOMAIN d : /\ r \in Rows(d, "team_members") <=> d[r].table = "team_members"
                          /\ r \in Rows(d, "team_projects") <=> d[r].table = "team_projects"
                          /\ r \in Rows(d, "users_projects") <=> d[r].table = "users_projects"
  BY DEF Rows
<1>2. /\ Rows(d, "team_members") \subseteq DOMAIN d /\ Rows(d, "team_projects") \subseteq DOMAIN d
      /\ Rows(d, "users_projects") \subseteq DOMAIN d
  BY DEF Rows
<1>3. (\A r \in Rows(d, "team_members") \cup Rows(d, "team_projects") : d[r].team \in Teams(d)) <=> Teamed(d)
  BY <1>1, <1>2 DEF Teamed
<1>4. NoTwins(d) <=>
        /\ \A r, s \in Rows(d, "team_members") : d[r].team = d[s].team /\ d[r].user = d[s].user => r = s
        /\ \A r, s \in Rows(d, "team_projects") : d[r].team = d[s].team /\ d[r].project = d[s].project => r = s
        /\ \A r, s \in Rows(d, "users_projects") : d[r].user = d[s].user /\ d[r].project = d[s].project => r = s
  BY <1>1, <1>2 DEF NoTwins, TwinRows
<1> QED
  BY <1>3, <1>4 DEF WellKept, Manned

LEMMA OneMoreIsKept ==
    ASSUME NEW d, NEW last, RowsTabled(d, last), WellKept(d),
           NEW x, Tabled(x), x.table # "teams", NewRow(d, x), NEW e, OneMore(d, last, x, e)
    PROVE  WellKept(e)
<1>1. Manned(d) /\ Teamed(d) /\ NoTwins(d)
  BY KeptInParts
<1>2. /\ DOMAIN e = DOMAIN d \cup {last + 1} /\ last + 1 \notin DOMAIN d
      /\ e[last + 1] = x /\ \A r \in DOMAIN d : e[r] = d[r]
  BY DEF OneMore
<1>3. Teams(e) = Teams(d)
  BY <1>2 DEF Teams, Rows
<1>4. Manned(e)
  <2>1. \A t : MembersOf(d, t) \subseteq MembersOf(e, t)
    BY <1>2 DEF MembersOf, Rows
  <2> QED
    BY <1>1, <1>3, <2>1 DEF Manned
<1>5. x.table \in {"team_members", "team_projects"} => x.team \in Teams(d)
  <2>1. CASE x.table = "team_members"
    <3>1. PICK r \in MembersOf(d, x.team) : TRUE
      BY <2>1 DEF NewRow
    <3>2. r \in DOMAIN d /\ d[r].table = "team_members" /\ d[r].team = x.team
      BY DEF MembersOf, Rows
    <3> QED
      BY <1>1, <3>2 DEF Teamed
  <2> QED
    BY <2>1 DEF NewRow
<1>6. Teamed(e)
  BY <1>1, <1>2, <1>3, <1>5 DEF Teamed
<1>7. \A r \in DOMAIN d : ~TwinRows(d[r], x) /\ ~TwinRows(x, d[r])
  <2> SUFFICES ASSUME NEW r \in DOMAIN d, TwinRows(d[r], x) \/ TwinRows(x, d[r]) PROVE FALSE
    OBVIOUS
  <2>1. CASE x.table = "team_members"
    <3>1. r \in Membership(d, x.team, x.user)
      BY <2>1 DEF TwinRows, Membership, MembersOf, Rows
    <3> QED
      BY <2>1, <3>1 DEF NewRow
  <2>2. CASE x.table = "team_projects"
    <3>1. r \in TeamGrantsTo(d, x.team, x.project)
      BY <2>2 DEF TwinRows, TeamGrantsTo, Rows
    <3> QED
      BY <2>2, <3>1 DEF NewRow
  <2>3. CASE x.table = "users_projects"
    <3>1. r \in GrantsTo(d, x.user, x.project)
      BY <2>3 DEF TwinRows, GrantsTo, Rows
    <3> QED
      BY <2>3, <3>1 DEF NewRow
  <2> QED
    BY <2>1, <2>2, <2>3 DEF TwinRows
<1>8. NoTwins(e)
  BY <1>1, <1>2, <1>7 DEF NoTwins
<1> QED
  BY <1>4, <1>6, <1>8, KeptInParts

LEMMA TeamMoreIsKept ==
    ASSUME NEW d, NEW last, RowsTabled(d, last), WellKept(d),
           NEW x, Tabled(x), x.table = "team_members", NEW e, TeamMore(d, last, x, e)
    PROVE  WellKept(e)
<1>1. Manned(d) /\ Teamed(d) /\ NoTwins(d)
  BY KeptInParts
<1>2. PICK y : y = [x EXCEPT !.team = last + 1]
  OBVIOUS
<1>3. /\ DOMAIN e = DOMAIN d \cup {last + 1, last + 2}
      /\ last + 1 \notin DOMAIN d /\ last + 2 \notin DOMAIN d
      /\ e[last + 1] = Team /\ e[last + 2] = y
      /\ \A r \in DOMAIN d : e[r] = d[r]
  BY <1>2 DEF TeamMore
<1>4. y.table = "team_members" /\ y.team = last + 1
  BY <1>2 DEF Tabled
<1>5. last \in Nat /\ last + 1 # last + 2 /\ DOMAIN d \subseteq 1..last
  BY DEF RowsTabled
<1>6. Teams(e) = Teams(d) \cup {last + 1} /\ last + 1 \notin Teams(d)
  BY <1>3, <1>4 DEF Teams, Rows, Team
<1>7. Manned(e)
  <2>1. \A t : MembersOf(d, t) \subseteq MembersOf(e, t)
    BY <1>3 DEF MembersOf, Rows
  <2>2. last + 2 \in MembersOf(e, last + 1)
    BY <1>3, <1>4 DEF MembersOf, Rows
  <2> QED
    BY <1>1, <1>6, <2>1, <2>2 DEF Manned
<1>8. Team.table = "teams"
  BY DEF Team
<1>9. Teamed(e)
  BY <1>1, <1>3, <1>4, <1>6, <1>8 DEF Teamed
<1>10. \A r \in DOMAIN d : ~TwinRows(d[r], y) /\ ~TwinRows(y, d[r])
  BY <1>1, <1>4, <1>6 DEF Teamed, TwinRows
<1>11. \A z : ~TwinRows(z, Team) /\ ~TwinRows(Team, z)
  BY <1>8 DEF TwinRows
<1>12. NoTwins(e)
  BY <1>1, <1>3, <1>10, <1>11 DEF NoTwins
<1> QED
  BY <1>7, <1>9, <1>12, KeptInParts

LEMMA ChangedIsKept ==
    ASSUME NEW d, WellKept(d), NEW r \in DOMAIN d, NEW x, SameKey(d[r], x), Tabled(x), Tabled(d[r]),
           NEW e, e = [d EXCEPT ![r] = x]
    PROVE  WellKept(e)
<1>1. Manned(d) /\ Teamed(d) /\ NoTwins(d)
  BY KeptInParts
<1>2. DOMAIN e = DOMAIN d /\ e[r] = x /\ \A s \in DOMAIN d \ {r} : e[s] = d[s]
  OBVIOUS
<1>3. /\ x.table = d[r].table
      /\ x.table \in {"team_members", "team_projects"} => x.team = d[r].team
      /\ x.table \in {"team_members", "users_projects"} => x.user = d[r].user
      /\ x.table \in {"team_projects", "users_projects"} => x.project = d[r].project
  BY DEF SameKey, Tabled
<1>4. \A s \in DOMAIN d :
        /\ e[s].table = d[s].table
        /\ e[s].table \in {"team_members", "team_projects"} => e[s].team = d[s].team
        /\ e[s].table \in {"team_members", "users_projects"} => e[s].user = d[s].user
        /\ e[s].table \in {"team_projects", "users_projects"} => e[s].project = d[s].project
  BY <1>2, <1>3
<1>5. Teams(e) = Teams(d) /\ \A t : MembersOf(e, t) = MembersOf(d, t)
  BY <1>2, <1>4 DEF Teams, MembersOf, Rows
<1>6. Manned(e)
  BY <1>1, <1>5 DEF Manned
<1>7. Teamed(e)
  BY <1>1, <1>2, <1>4, <1>5 DEF Teamed
<1>8. NoTwins(e)
  BY <1>1, <1>2, <1>4 DEF NoTwins, TwinRows
<1> QED
  BY <1>6, <1>7, <1>8, KeptInParts

\* Rows may go when each team keeps a member and each row keeps its team.
LEMMA LessIsKept ==
    ASSUME NEW d, WellKept(d), NEW gone, NEW e, e = Without(d, gone),
           \A t \in Teams(e) : MembersOf(d, t) \ gone # {},
           \A r \in DOMAIN e : d[r].table \in {"team_members", "team_projects"} => d[r].team \notin gone
    PROVE  WellKept(e)
<1>1. Manned(d) /\ Teamed(d) /\ NoTwins(d)
  BY KeptInParts
<1>2. DOMAIN e = DOMAIN d \ gone /\ \A r \in DOMAIN e : e[r] = d[r]
  BY DEF Without
<1>3. Teams(e) = Teams(d) \ gone /\ \A t : MembersOf(e, t) = MembersOf(d, t) \ gone
  BY <1>2 DEF Teams, MembersOf, Rows
<1>4. Manned(e)
  BY <1>3 DEF Manned
<1>5. Teamed(e)
  BY <1>1, <1>2, <1>3 DEF Teamed
<1>6. NoTwins(e)
  BY <1>1, <1>2 DEF NoTwins
<1> QED
  BY <1>4, <1>5, <1>6, KeptInParts

LEMMA RemovalIsKept ==
    ASSUME NEW d, WellKept(d), NEW r \in DOMAIN d, MayGo(d, r), r \notin Teams(d),
           NEW e, e = Without(d, {r})
    PROVE  WellKept(e)
<1>1. Manned(d) /\ Teamed(d)
  BY KeptInParts
<1>2. Teams(e) \subseteq Teams(d) /\ DOMAIN e \subseteq DOMAIN d
  BY DEF Teams, Rows, Without
<1>3. ASSUME NEW t \in Teams(e) PROVE MembersOf(d, t) \ {r} # {}
  <2> SUFFICES ASSUME MembersOf(d, t) \ {r} = {} PROVE FALSE
    OBVIOUS
  <2>1. MembersOf(d, t) # {}
    BY <1>1, <1>2 DEF Manned
  <2>2. MembersOf(d, t) = {r}
    BY <2>1
  <2>3. r \in Rows(d, "team_members") /\ d[r].team = t
    BY <2>2 DEF MembersOf
  <2>4. Cardinality(MembersOf(d, t)) # 1
    BY <2>3 DEF MayGo
  <2>5. Cardinality({r}) = 1
    BY FS_Singleton
  <2> QED
    BY <2>2, <2>4, <2>5
<1>4. \A s \in DOMAIN e : d[s].table \in {"team_members", "team_projects"} => d[s].team \notin {r}
  BY <1>1, <1>2 DEF Teamed
<1> QED
  BY <1>3, <1>4, LessIsKept

LEMMA DropIsKept ==
    ASSUME NEW d, WellKept(d), NEW t \in Teams(d), NEW e, e = DropTeam(d, t)
    PROVE  WellKept(e)
<1>1. Manned(d) /\ Teamed(d)
  BY KeptInParts
<1>2. PICK gone : gone = {t} \cup MembersOf(d, t) \cup {r \in Rows(d, "team_projects") : d[r].team = t}
  OBVIOUS
<1>3. e = Without(d, gone)
  BY <1>2 DEF DropTeam
<1>4. Teams(e) \subseteq Teams(d) \ {t} /\ DOMAIN e = DOMAIN d \ gone
  BY <1>2, <1>3 DEF Teams, Rows, Without
<1>5. \A r \in Teams(d) : d[r].table = "teams" /\ r \in DOMAIN d
  BY DEF Teams, Rows
<1>6. \A r \in gone : r = t \/ (d[r].table \in {"team_members", "team_projects"} /\ d[r].team = t)
  BY <1>2 DEF MembersOf, Rows
<1>7. ASSUME NEW s \in Teams(e) PROVE MembersOf(d, s) \ gone # {}
  <2>1. PICK r \in MembersOf(d, s) : TRUE
    BY <1>1, <1>4 DEF Manned
  <2>2. r \in DOMAIN d /\ d[r].table = "team_members" /\ d[r].team = s /\ s # t
    BY <1>4 DEF MembersOf, Rows
  <2>3. r \notin gone
    BY <1>5, <1>6, <2>2
  <2> QED
    BY <2>3
<1>8. ASSUME NEW r \in DOMAIN e, d[r].table \in {"team_members", "team_projects"} PROVE d[r].team \notin gone
  <2>1. r \in DOMAIN d /\ r \notin gone
    BY <1>4
  <2>2. d[r].team \in Teams(d)
    BY <1>1, <1>8, <2>1 DEF Teamed
  <2>3. d[r].team # t
    <3> SUFFICES ASSUME d[r].team = t PROVE r \in gone
      BY <2>1
    <3> QED
      BY <1>2, <1>8, <2>1 DEF MembersOf, Rows
  <2> QED
    BY <1>5, <1>6, <2>2, <2>3
<1> QED
  BY <1>3, <1>7, <1>8, LessIsKept

LEMMA WarrantedIsKept ==
    ASSUME NEW d, NEW last, RowsTabled(d, last), WellKept(d), NEW w, Warranted(d, w),
           NEW e, Leaves(d, last, w, e)
    PROVE  WellKept(e)
<1>1. CASE AddsNew(d, w)
  <2>1. PICK x : Tabled(x) /\ AddsOne(w, x) /\ NewRow(d, x)
    BY <1>1 DEF AddsNew
  <2>2. OneMore(d, last, x, e) /\ x.table # "teams"
    <3>1. OneMore(d, last, x, e)
      BY <2>1, OneRowWritten
    <3> QED
      BY <2>1, <3>1 DEF AddsOne
  <2> QED
    BY <2>1, <2>2, OneMoreIsKept
<1>2. CASE AddsATeam(w)
  <2>1. PICK x : Tabled(x) /\ AddsTeam(w, x)
    BY <1>2 DEF AddsATeam
  <2>2. TeamMore(d, last, x, e)
    BY <2>1, TeamWritten
  <2>3. x.table = "team_members"
    BY <2>1 DEF AddsTeam
  <2> QED
    BY <2>1, <2>2, <2>3, TeamMoreIsKept
<1>3. CASE Alters(d, w)
  <2>1. PICK r, x : r = w.row /\ x = w.to
    OBVIOUS
  <2>2. w.do = "update" /\ w.row \in DOMAIN d
    BY <1>3 DEF Alters
  <2>3. e = [d EXCEPT ![w.row] = w.to]
    BY <2>2, OthersWritten
  <2>4. r \in DOMAIN d /\ SameKey(d[r], x) /\ Tabled(x) /\ Tabled(d[r]) /\ e = [d EXCEPT ![r] = x]
    BY <1>3, <2>1, <2>3 DEF Alters, RowsTabled
  <2> QED
    BY <2>4, ChangedIsKept
<1>4. CASE Removes(d, w)
  <2>1. PICK r \in DOMAIN d : w.rows = {r} /\ MayGo(d, r) /\ r \notin Teams(d)
    BY <1>4 DEF Removes
  <2>2. w.do = "delete"
    BY <1>4 DEF Removes
  <2>3. e = Without(d, w.rows)
    BY <2>2, OthersWritten
  <2>4. e = Without(d, {r})
    BY <2>1, <2>3
  <2> QED
    BY <2>1, <2>4, RemovalIsKept
<1>5. CASE Drops(d, w)
  <2>1. w.do = "drop" /\ w.team \in Teams(d)
    BY <1>5 DEF Drops
  <2>2. e = DropTeam(d, w.team)
    BY <2>1, OthersWritten
  <2> QED
    BY <2>1, <2>2, DropIsKept
<1> QED
  BY <1>1, <1>2, <1>3, <1>4, <1>5 DEF Warranted

\* Sharing, leaving and deleting check what no constraint of the database does: a
\* request that none overtakes leaves no team without a member, no row without its
\* team and no two rows for one grant or membership.
THEOREM LoneRequestKeepsShares == AccessSpec => []AloneKeepsRows
<1>1. AccessInv => AloneKeepsRows
  <2> SUFFICES ASSUME AccessInv, WellKept(db), NEW by \in Users, NEW w \in Decisions(db, by, issued)
               PROVE  WellKept(Written(db, issued, w))
    BY DEF AloneKeepsRows
  <2>1. RowsTabled(db, issued)
    BY DEF AccessInv
  <2>2. Warranted(db, w)
    BY <2>1, AllDecided
  <2>3. PICK e : e = Written(db, issued, w)
    OBVIOUS
  <2>4. Leaves(db, issued, w, e)
    BY <2>3 DEF Leaves
  <2>5. WellKept(e)
    BY <2>1, <2>2, <2>4, WarrantedIsKept
  <2> QED
    BY <2>3, <2>5
<1> QED
  BY <1>1, AccessAtFirst, StepKeepsAccess, PTL DEF AccessSpec

-----------------------------------------------------------------------------
(* Access: the way up from a project.                                      *)

GoesUp(S) == \A x \in S : Parent[x] # 0 => Parent[x] \in S

\* The way up is closed, and the least closed set that has the project.
LEMMA WayIsClosed ==
    ASSUME NEW p \in Projects
    PROVE  /\ Hierarchy(p) \in SUBSET Projects /\ p \in Hierarchy(p) /\ GoesUp(Hierarchy(p))
           /\ IsFiniteSet(Hierarchy(p))
<1>1. Hierarchy(p) = {a \in Projects : \A S \in SUBSET Projects : p \in S /\ GoesUp(S) => a \in S}
  BY DEF Hierarchy, Way, GoesUp
<1>2. \A x \in Hierarchy(p) : Parent[x] # 0 => Parent[x] \in Projects
  BY <1>1, AccessAssumption
<1>3. GoesUp(Hierarchy(p))
  BY <1>1, <1>2 DEF GoesUp
<1>4. Hierarchy(p) \in SUBSET Projects /\ p \in Hierarchy(p)
  BY <1>1
<1> QED
  BY <1>3, <1>4, FS_Subset, AccessAssumption

LEMMA WayIsLeast ==
    ASSUME NEW p \in Projects, NEW S \in SUBSET Projects, p \in S, GoesUp(S)
    PROVE  Hierarchy(p) \subseteq S
BY DEF Hierarchy, Way, GoesUp

LEMMA WayNests ==
    ASSUME NEW p \in Projects, NEW a \in Hierarchy(p)
    PROVE  a \in Projects /\ Hierarchy(a) \subseteq Hierarchy(p)
<1>1. a \in Projects
  BY WayIsClosed
<1> QED
  BY <1>1, WayIsClosed, WayIsLeast

LEMMA WayGoesOn ==
    ASSUME NEW p \in Projects, NEW a \in Hierarchy(p), a # p
    PROVE  Parent[p] # 0 /\ Parent[p] \in Projects /\ a \in Hierarchy(Parent[p])
<1>1. CASE Parent[p] = 0
  <2>1. GoesUp({p})
    BY <1>1 DEF GoesUp
  <2> QED
    BY <2>1, WayIsLeast
<1>2. CASE Parent[p] # 0
  <2>1. Parent[p] \in Projects
    BY <1>2, AccessAssumption
  <2>2. PICK H : H = Hierarchy(Parent[p])
    OBVIOUS
  <2>3. H \in SUBSET Projects /\ Parent[p] \in H /\ GoesUp(H)
    BY <2>1, <2>2, WayIsClosed
  <2>4. GoesUp({p} \cup H)
    BY <2>3 DEF GoesUp
  <2>5. Hierarchy(p) \subseteq {p} \cup H
    BY <2>3, <2>4, WayIsLeast
  <2> QED
    BY <1>2, <2>1, <2>2, <2>5
<1> QED
  BY <1>1, <1>2

\* Of two projects on one way up, one is above the other.
LEMMA WayIsALine ==
    ASSUME NEW p \in Projects, NEW a \in Hierarchy(p), NEW b \in Hierarchy(p)
    PROVE  a \in Hierarchy(b) \/ b \in Hierarchy(a)
<1> DEFINE S == {x \in Projects : a \in Hierarchy(x) \/ x \in Hierarchy(a)}
<1>1. a \in Projects /\ b \in Projects
  BY WayIsClosed
<1>2. S \in SUBSET Projects /\ p \in S
  OBVIOUS
<1>3. ASSUME NEW x \in S, Parent[x] # 0 PROVE Parent[x] \in S
  <2>1. x \in Projects /\ Parent[x] \in Projects
    BY <1>3, AccessAssumption
  <2>2. CASE x \in Hierarchy(a)
    <3>1. Parent[x] \in Hierarchy(a)
      BY <1>1, <1>3, <2>2, WayIsClosed DEF GoesUp
    <3> QED
      BY <2>1, <3>1
  <2>3. CASE a \in Hierarchy(x) /\ x # a
    <3>1. a \in Hierarchy(Parent[x])
      BY <2>1, <2>3, WayGoesOn
    <3> QED
      BY <2>1, <3>1
  <2>4. a \in Hierarchy(a)
    BY <1>1, WayIsClosed
  <2> QED
    BY <1>3, <2>2, <2>3, <2>4
<1>4. GoesUp(S)
  BY <1>3 DEF GoesUp
<1>5. Hierarchy(p) \subseteq S
  <2> HIDE DEF S
  <2> QED
    BY <1>2, <1>4, WayIsLeast
<1> QED
  BY <1>5

LEMMA NotAboveEachOther ==
    ASSUME NEW a \in Projects, NEW b \in Hierarchy(a), a \in Hierarchy(b)
    PROVE  a = b
<1> SUFFICES ASSUME a # b PROVE FALSE
  OBVIOUS
<1>1. Parent[a] # 0 /\ Parent[a] \in Projects /\ b \in Hierarchy(Parent[a])
  BY WayGoesOn
<1>2. Hierarchy(b) \subseteq Hierarchy(Parent[a])
  BY <1>1, WayNests
<1> QED
  BY <1>1, <1>2, AccessAssumption

\* The distance tells the projects of a way up apart.
LEMMA LevelsApart ==
    ASSUME NEW p \in Projects
    PROVE  /\ \A a \in Hierarchy(p) : Level(p, a) \in Nat
           /\ Level(p, p) = 0
           /\ \A a, b \in Hierarchy(p) : Level(p, a) = Level(p, b) => a = b
<1>1. Hierarchy(p) \in SUBSET Projects /\ IsFiniteSet(Hierarchy(p)) /\ p \in Hierarchy(p)
  BY WayIsClosed
<1>2. \A a : Level(p, a) = Cardinality(Hierarchy(p) \ Hierarchy(a))
  BY DEF Level, Hierarchy
<1>3. \A a : IsFiniteSet(Hierarchy(p) \ Hierarchy(a))
  BY <1>1, FS_Subset
<1>4. \A a : Level(p, a) \in Nat
  BY <1>2, <1>3, FS_CardinalityType
<1>5. Level(p, p) = 0
  <2>1. Hierarchy(p) \ Hierarchy(p) = {}
    OBVIOUS
  <2> QED
    BY <1>2, <2>1, FS_EmptySet
<1>6. ASSUME NEW a \in Hierarchy(p), NEW b \in Hierarchy(p), a \in Hierarchy(b), a # b
      PROVE  Level(p, a) # Level(p, b)
  <2>1. a \in Projects /\ b \in Projects /\ Hierarchy(a) \subseteq Hierarchy(b) /\ b \notin Hierarchy(a)
    BY <1>1, <1>6, WayNests, NotAboveEachOther
  <2>2. PICK A, B : A = Hierarchy(p) \ Hierarchy(a) /\ B = Hierarchy(p) \ Hierarchy(b)
    OBVIOUS
  <2>3. b \in Hierarchy(b)
    BY <2>1, WayIsClosed
  <2>4. B \subseteq A /\ B # A
    BY <1>6, <2>1, <2>2, <2>3
  <2>5. IsFiniteSet(A)
    BY <1>3, <2>2
  <2>6. Cardinality(A) # Cardinality(B)
    BY <2>4, <2>5, FS_Subset
  <2> QED
    BY <1>2, <2>2, <2>6
<1> QED
  BY <1>4, <1>5, <1>6, WayIsALine

-----------------------------------------------------------------------------
(* Access: what the query resolves to.                                     *)

Priority(u, p, a) == IF Owner[a] = u THEN 1 ELSE Level(p, a) + 1
At(d, u, p, a) == [at : {a}, level : Held(d, u, a), priority : {Priority(u, p, a)}]

LEMMA CandidatesAre ==
    ASSUME NEW d, NEW u, NEW p, NEW c
    PROVE  c \in Candidates(d, u, p) <=>
             \E a \in Hierarchy(p) : \E l \in Held(d, u, a) :
               c = [at |-> a, level |-> l, priority |-> Priority(u, p, a)]
<1>1. Candidates(d, u, p) = UNION {At(d, u, p, a) : a \in Hierarchy(p)}
  BY DEF Candidates, At, Priority
<1>2. \A a : c \in At(d, u, p, a) <=>
        \E l \in Held(d, u, a) : c = [at |-> a, level |-> l, priority |-> Priority(u, p, a)]
  BY DEF At
<1> HIDE DEF At
<1> QED
  BY <1>1, <1>2

\* A nonempty set of naturals has a least.
LEMMA LeastOf ==
    ASSUME NEW T \in SUBSET Nat, T # {}
    PROVE  \E m \in T : \A x \in T : m <= x
<1> DEFINE R == OpToRel(<, Nat)
<1>1. \E m \in T : \A y \in T : ~(<<y, m>> \in R)
  <2> HIDE DEF R
  <2>1. IsWellFoundedOn(R, Nat)
    BY NatLessThanWellFounded DEF R
  <2> QED
    BY <2>1, WFMin
<1>2. PICK m \in T : \A y \in T : ~(y < m)
  BY <1>1 DEF OpToRel
<1> QED
  BY <1>2

LEMMA PrioritiesAre ==
    ASSUME NEW u, NEW p \in Projects, NEW a \in Hierarchy(p)
    PROVE  /\ Priority(u, p, a) \in Nat /\ Priority(u, p, a) >= 1
           /\ Owner[a] # u => Priority(u, p, a) = Level(p, a) + 1
           /\ Priority(u, p, a) = 1 <=> a = p \/ Owner[a] = u
<1>1. Level(p, a) \in Nat /\ Level(p, p) = 0 /\ (Level(p, a) = Level(p, p) => a = p)
  BY LevelsApart, WayIsClosed
<1> QED
  BY <1>1 DEF Priority

\* There is a winner where there is a candidate, and it is of least priority.
LEMMA GrantedIsLeast ==
    ASSUME NEW d, NEW u, NEW p \in Projects
    PROVE  /\ Granted(d, u, p) = {} <=> \A a \in Hierarchy(p) : Held(d, u, a) = {}
           /\ \A c : c \in Granted(d, u, p) <=>
                /\ c \in Candidates(d, u, p)
                /\ \A o \in Candidates(d, u, p) : c.priority <= o.priority
<1> DEFINE All == Candidates(d, u, p)
           T == {c.priority : c \in All}
<1>1. \A c : c \in Granted(d, u, p) <=> c \in All /\ \A o \in All : c.priority <= o.priority
  BY DEF Granted
<1>2. All = {} <=> \A a \in Hierarchy(p) : Held(d, u, a) = {}
  <2>1. ASSUME NEW a \in Hierarchy(p), NEW l \in Held(d, u, a) PROVE All # {}
    <3>1. PICK c : c = [at |-> a, level |-> l, priority |-> Priority(u, p, a)]
      OBVIOUS
    <3>2. c \in All
      BY <3>1, CandidatesAre
    <3> QED
      BY <3>2
  <2>2. ASSUME NEW c \in All PROVE \E a \in Hierarchy(p) : Held(d, u, a) # {}
    BY CandidatesAre
  <2> QED
    BY <2>1, <2>2
<1>3. ASSUME All # {} PROVE Granted(d, u, p) # {}
  <2>1. \A c \in All : c.priority \in Nat
    <3> TAKE c \in All
    <3>1. PICK a, l : a \in Hierarchy(p) /\ c = [at |-> a, level |-> l, priority |-> Priority(u, p, a)]
      BY CandidatesAre
    <3> QED
      BY <3>1, PrioritiesAre
  <2>2. T \in SUBSET Nat /\ T # {}
    BY <1>3, <2>1
  <2>3. PICK m \in T : \A x \in T : m <= x
    <3> HIDE DEF T
    <3> QED
      BY <2>2, LeastOf
  <2>4. PICK c \in All : c.priority = m
    OBVIOUS
  <2> HIDE DEF All
  <2> QED
    BY <1>1, <2>3, <2>4
<1> HIDE DEF All
<1> QED
  BY <1>1, <1>2, <1>3 DEF All

\* The levels of the winners, by project.
LEMMA PermissionIs ==
    ASSUME NEW d, NEW u, NEW p \in Projects
    PROVE  /\ (\A a \in Hierarchy(p) : Held(d, u, a) = {}) => MaxPermission(d, u, p) = {NoPermission}
           /\ (\E a \in Hierarchy(p) : Held(d, u, a) # {}) =>
                \A l : l \in MaxPermission(d, u, p) <=>
                  \E a \in Hierarchy(p) : /\ l \in Held(d, u, a)
                    /\ \A b \in Hierarchy(p) : Held(d, u, b) # {} => Priority(u, p, a) <= Priority(u, p, b)
<1>1. ASSUME \A a \in Hierarchy(p) : Held(d, u, a) = {} PROVE MaxPermission(d, u, p) = {NoPermission}
  BY <1>1, GrantedIsLeast DEF MaxPermission
<1>2. ASSUME NEW o \in Hierarchy(p), Held(d, u, o) # {}, NEW l
      PROVE  l \in MaxPermission(d, u, p) <=>
               \E a \in Hierarchy(p) : /\ l \in Held(d, u, a)
                 /\ \A b \in Hierarchy(p) : Held(d, u, b) # {} => Priority(u, p, a) <= Priority(u, p, b)
  <2>1. MaxPermission(d, u, p) = {c.level : c \in Granted(d, u, p)}
    BY <1>2, GrantedIsLeast DEF MaxPermission
  <2>2. ASSUME l \in MaxPermission(d, u, p)
        PROVE  \E a \in Hierarchy(p) : /\ l \in Held(d, u, a)
                 /\ \A b \in Hierarchy(p) : Held(d, u, b) # {} => Priority(u, p, a) <= Priority(u, p, b)
    <3>1. PICK c \in Granted(d, u, p) : l = c.level
      BY <2>1, <2>2
    <3>2. c \in Candidates(d, u, p) /\ \A x \in Candidates(d, u, p) : c.priority <= x.priority
      BY GrantedIsLeast
    <3>3. PICK a, k : /\ a \in Hierarchy(p) /\ k \in Held(d, u, a)
                      /\ c = [at |-> a, level |-> k, priority |-> Priority(u, p, a)]
      BY <3>2, CandidatesAre
    <3>4. ASSUME NEW b \in Hierarchy(p), NEW j \in Held(d, u, b) PROVE Priority(u, p, a) <= Priority(u, p, b)
      <4>1. PICK x : x = [at |-> b, level |-> j, priority |-> Priority(u, p, b)]
        OBVIOUS
      <4>2. x \in Candidates(d, u, p)
        BY <4>1, CandidatesAre
      <4> QED
        BY <3>2, <3>3, <4>1, <4>2
    <3> QED
      BY <3>1, <3>3, <3>4
  <2>3. ASSUME NEW a \in Hierarchy(p), l \in Held(d, u, a),
               \A b \in Hierarchy(p) : Held(d, u, b) # {} => Priority(u, p, a) <= Priority(u, p, b)
        PROVE  l \in MaxPermission(d, u, p)
    <3>1. PICK c : c = [at |-> a, level |-> l, priority |-> Priority(u, p, a)]
      OBVIOUS
    <3>2. c \in Candidates(d, u, p)
      BY <2>3, <3>1, CandidatesAre
    <3>3. ASSUME NEW x \in Candidates(d, u, p) PROVE c.priority <= x.priority
      <4>1. PICK b, j : /\ b \in Hierarchy(p) /\ j \in Held(d, u, b)
                        /\ x = [at |-> b, level |-> j, priority |-> Priority(u, p, b)]
        BY CandidatesAre
      <4> QED
        BY <2>3, <3>1, <4>1
    <3>4. c \in Granted(d, u, p)
      BY <3>2, <3>3, GrantedIsLeast
    <3> QED
      BY <2>1, <3>1, <3>4
  <2> QED
    BY <2>2, <2>3
<1> QED
  BY <1>1, <1>2

LEMMA OwnersHold ==
    ASSUME NEW d, NEW u, NEW a, Owner[a] = u
    PROVE  Held(d, u, a) = {ADMIN}
BY DEF Held

NearestOf(p, granted) == CHOOSE a \in granted : \A b \in granted : Level(p, a) <= Level(p, b)

LEMMA NearestIs ==
    ASSUME NEW p \in Projects, NEW granted \in SUBSET Hierarchy(p), granted # {},
           NEW nearest, nearest = NearestOf(p, granted)
    PROVE  nearest \in granted /\ \A b \in granted : Level(p, nearest) <= Level(p, b)
<1> DEFINE T == {Level(p, a) : a \in granted}
<1>1. T \in SUBSET Nat /\ T # {}
  BY LevelsApart
<1>2. PICK m \in T : \A x \in T : m <= x
  <2> HIDE DEF T
  <2> QED
    BY <1>1, LeastOf
<1>3. \E a \in granted : \A b \in granted : Level(p, a) <= Level(p, b)
  BY <1>2
<1> QED
  BY <1>3 DEF NearestOf

\* Whatever was granted: an owner on the way up is an administrator, and otherwise the
\* nearest grant decides.
GrantedOn(d, u, p) == {a \in Hierarchy(p) : Held(d, u, a) # {}}
OwnsAbove(u, p) == \E a \in Hierarchy(p) : Owner[a] = u

LEMMA ResolvedByTheNearest ==
    ASSUME NEW d, NEW u, NEW p \in Projects
    PROVE  /\ OwnsAbove(u, p) => MaxPermission(d, u, p) = {ADMIN} \cup Held(d, u, p)
           /\ ~OwnsAbove(u, p) /\ GrantedOn(d, u, p) # {} =>
                MaxPermission(d, u, p) = Held(d, u, NearestOf(p, GrantedOn(d, u, p)))
           /\ GrantedOn(d, u, p) = {} => MaxPermission(d, u, p) = {NoPermission}
           /\ OwnsAbove(u, p) => GrantedOn(d, u, p) # {}
<1> SUFFICES ASSUME NEW granted, granted = GrantedOn(d, u, p), NEW nearest, nearest = NearestOf(p, granted)
             PROVE  /\ OwnsAbove(u, p) => MaxPermission(d, u, p) = {ADMIN} \cup Held(d, u, p)
                    /\ ~OwnsAbove(u, p) /\ granted # {} => MaxPermission(d, u, p) = Held(d, u, nearest)
                    /\ granted = {} => MaxPermission(d, u, p) = {NoPermission}
                    /\ OwnsAbove(u, p) => granted # {}
  OBVIOUS
<1> USE DEF GrantedOn
<1>0. p \in Hierarchy(p)
  BY WayIsClosed
<1>1. ASSUME NEW o \in Hierarchy(p), Owner[o] = u
      PROVE  MaxPermission(d, u, p) = {ADMIN} \cup Held(d, u, p)
  <2>1. Held(d, u, o) = {ADMIN} /\ Priority(u, p, o) = 1
    BY <1>1, OwnersHold, PrioritiesAre
  <2>2. ASSUME NEW a \in Hierarchy(p)
        PROVE  (\A b \in Hierarchy(p) : Held(d, u, b) # {} => Priority(u, p, a) <= Priority(u, p, b))
               <=> (a = p \/ Owner[a] = u)
    <3>1. Priority(u, p, a) = 1 <=> a = p \/ Owner[a] = u
      BY PrioritiesAre
    <3>2. \A b \in Hierarchy(p) : Priority(u, p, b) \in Nat /\ Priority(u, p, b) >= 1
      BY PrioritiesAre
    <3>3. o \in Hierarchy(p) /\ Held(d, u, o) # {}
      BY <1>1, <2>1
    <3> QED
      BY <2>1, <3>1, <3>2, <3>3
  <2>3. \A l : l \in MaxPermission(d, u, p) <=>
          \E a \in Hierarchy(p) : l \in Held(d, u, a) /\ (a = p \/ Owner[a] = u)
    BY <1>1, <2>1, <2>2, PermissionIs
  <2>4. \A a : Owner[a] = u => Held(d, u, a) = {ADMIN}
    BY OwnersHold
  <2>5. \A l : l \in MaxPermission(d, u, p) <=> l \in {ADMIN} \cup Held(d, u, p)
    BY <1>0, <1>1, <2>3, <2>4
  <2> QED
    BY <2>5
<1>2. ASSUME ~\E a \in Hierarchy(p) : Owner[a] = u, granted # {}
      PROVE  MaxPermission(d, u, p) = Held(d, u, nearest)
  <2>1. nearest \in granted /\ \A b \in granted : Level(p, nearest) <= Level(p, b)
    BY <1>2, NearestIs
  <2>2. \A a \in Hierarchy(p) : Priority(u, p, a) = Level(p, a) + 1 /\ Level(p, a) \in Nat
    BY <1>2, PrioritiesAre, LevelsApart
  <2>3. ASSUME NEW a \in granted
        PROVE  (\A b \in granted : Priority(u, p, a) <= Priority(u, p, b)) <=> a = nearest
    <3>1. (\A b \in granted : Priority(u, p, a) <= Priority(u, p, b))
           <=> \A b \in granted : Level(p, a) <= Level(p, b)
      BY <2>2
    <3>2. (\A b \in granted : Level(p, a) <= Level(p, b)) => Level(p, a) = Level(p, nearest)
      BY <2>1, <2>2
    <3>3. Level(p, a) = Level(p, nearest) => a = nearest
      BY <2>1, LevelsApart
    <3> QED
      BY <2>1, <3>1, <3>2, <3>3
  <2>4. \A l : l \in MaxPermission(d, u, p) <=>
          \E a \in granted : l \in Held(d, u, a) /\ \A b \in granted : Priority(u, p, a) <= Priority(u, p, b)
    BY <1>2, PermissionIs
  <2>5. \A l : l \in MaxPermission(d, u, p) <=> l \in Held(d, u, nearest)
    BY <2>1, <2>3, <2>4
  <2> QED
    BY <2>5
<1>3. ASSUME granted = {} PROVE MaxPermission(d, u, p) = {NoPermission}
  BY <1>3, PermissionIs
<1>4. OwnsAbove(u, p) => granted # {}
  BY OwnersHold DEF OwnsAbove
<1> QED
  BY <1>1, <1>2, <1>3, <1>4 DEF OwnsAbove

\* Whatever is granted, joined and left: an owner on the way up is an administrator, and
\* for everybody else the nearest grant decides, on a way up of any length.
THEOREM NearestGrantDecides == AccessSpec => []NearestDecides
<1>1. NearestDecides
  <2>1. ASSUME NEW u \in Users, NEW p \in Projects
        PROVE  LET owns == \E a \in Hierarchy(p) : Owner[a] = u
                   granted == {a \in Hierarchy(p) : Held(db, u, a) # {}}
                   nearest == CHOOSE a \in granted : \A b \in granted : Level(p, a) <= Level(p, b)
               IN  MaxPermission(db, u, p) =
                     CASE owns -> {ADMIN} \cup Held(db, u, p)
                       [] ~owns /\ granted # {} -> Held(db, u, nearest)
                       [] granted = {} -> {NoPermission}
    <3>1. PICK owning, granted, nearest :
            owning = OwnsAbove(u, p) /\ granted = GrantedOn(db, u, p) /\ nearest = NearestOf(p, granted)
      OBVIOUS
    <3>2. /\ owning => MaxPermission(db, u, p) = {ADMIN} \cup Held(db, u, p)
          /\ ~owning /\ granted # {} => MaxPermission(db, u, p) = Held(db, u, nearest)
          /\ granted = {} => MaxPermission(db, u, p) = {NoPermission}
          /\ owning => granted # {}
      BY <3>1, ResolvedByTheNearest
    <3>3. MaxPermission(db, u, p) =
            CASE owning -> {ADMIN} \cup Held(db, u, p)
              [] ~owning /\ granted # {} -> Held(db, u, nearest)
              [] granted = {} -> {NoPermission}
      <4>1. CASE owning
        <5>1. granted # {} /\ MaxPermission(db, u, p) = {ADMIN} \cup Held(db, u, p)
          BY <3>2, <4>1
        <5> QED
          BY <4>1, <5>1, Zenon
      <4>2. CASE ~owning /\ granted # {}
        <5>1. MaxPermission(db, u, p) = Held(db, u, nearest)
          BY <3>2, <4>2
        <5> QED
          BY <4>2, <5>1, Zenon
      <4>3. CASE ~owning /\ granted = {}
        <5>1. MaxPermission(db, u, p) = {NoPermission}
          BY <3>2, <4>3
        <5> QED
          BY <4>3, <5>1, Zenon
      <4> QED
        BY <4>1, <4>2, <4>3, Zenon
    <3> QED
      BY <3>1, <3>3, Zenon DEF NearestOf, GrantedOn, OwnsAbove
  <2> QED
    BY <2>1, Zenon DEF NearestDecides
<1> QED
  BY <1>1, PTL

-----------------------------------------------------------------------------
(* Access: what somebody holds.                                            *)

Levelled(d) == \A r \in DOMAIN d : d[r].table \in {"users_projects", "team_projects"} => d[r].level \in Levels

\* What u was given on a: by a row of u's own, or by one of a team of u's.
Given(d, u, a) == {d[r].level : r \in GrantsTo(d, u, a)} \cup TeamLevels(d, u, a)

LEMMA HighestLevel ==
    ASSUME NEW S \in SUBSET (Levels \cup {NoPermission}), S # {}
    PROVE  Max(S) \in S /\ \A x \in S : x <= Max(S)
<1>1. \A y \in S : y = -1 \/ y = 0 \/ y = 1 \/ y = 2
  BY DEF Levels, NoPermission
<1>2. \E x \in S : \A y \in S : x >= y
  <2>1. CASE 2 \in S
    BY <1>1, <2>1
  <2>2. CASE 2 \notin S /\ 1 \in S
    BY <1>1, <2>2
  <2>3. CASE 2 \notin S /\ 1 \notin S /\ 0 \in S
    BY <1>1, <2>3
  <2>4. CASE 2 \notin S /\ 1 \notin S /\ 0 \notin S
    BY <1>1, <2>4
  <2> QED
    BY <2>1, <2>2, <2>3, <2>4
<1>3. Max(S) \in S /\ \A y \in S : Max(S) >= y
  BY <1>2 DEF Max
<1> QED
  BY <1>1, <1>3

LEMMA GivenAreLevels ==
    ASSUME NEW d, Levelled(d), NEW u, NEW a
    PROVE  {d[r].level : r \in GrantsTo(d, u, a)} \subseteq Levels /\ TeamLevels(d, u, a) \subseteq Levels
<1>1. \A r \in GrantsTo(d, u, a) : r \in DOMAIN d /\ d[r].table = "users_projects"
  BY DEF GrantsTo, Rows
<1>2. \A r \in Rows(d, "team_projects") : r \in DOMAIN d /\ d[r].table = "team_projects"
  BY DEF Rows
<1>3. TeamLevels(d, u, a) \subseteq Levels
  BY <1>2 DEF TeamLevels, Levelled
<1> QED
  BY <1>1, <1>3 DEF Levelled

\* What is held is the owner's level, or one that was given and not below any that was.
LEMMA HeldAreGiven ==
    ASSUME NEW d, Levelled(d), NEW u, NEW a
    PROVE  /\ Held(d, u, a) \subseteq Levels
           /\ Owner[a] # u => Held(d, u, a) \subseteq Given(d, u, a)
           /\ \A c \in Given(d, u, a) : \E h \in Held(d, u, a) : h >= c
           /\ Held(d, u, a) # {} <=> Owner[a] = u \/ Given(d, u, a) # {}
<1> DEFINE Mine == {d[r].level : r \in GrantsTo(d, u, a)}
           Ours == TeamLevels(d, u, a)
<1>1. PICK own, team : own = Mine /\ team = IF Ours = {} THEN 0 ELSE Max(Ours)
  OBVIOUS
<1>2. own \subseteq Levels /\ Ours \subseteq Levels
  BY <1>1, GivenAreLevels
<1>3. team \in Levels /\ (Ours # {} => team \in Ours) /\ \A x \in Ours : x <= team
  <2> HIDE DEF Ours
  <2>1. CASE Ours = {}
    BY <1>1, <2>1 DEF Levels
  <2>2. CASE Ours # {}
    <3>1. Max(Ours) \in Ours /\ \A x \in Ours : x <= Max(Ours)
      BY <1>2, <2>2, HighestLevel
    <3> QED
      BY <1>1, <1>2, <2>2, <3>1
  <2> QED
    BY <2>1, <2>2
<1>4. Held(d, u, a) = IF Owner[a] = u THEN {ADMIN}
                      ELSE IF own # {} THEN {IF l > team THEN l ELSE team : l \in own}
                      ELSE IF Ours # {} THEN {team} ELSE {}
  BY <1>1 DEF Held
<1>5. Given(d, u, a) = own \cup Ours
  BY <1>1 DEF Given
<1> HIDE DEF Mine, Ours
<1>6. CASE Owner[a] = u
  <2>1. Held(d, u, a) = {2}
    BY <1>4, <1>6 DEF ADMIN
  <2>2. \A c \in own \cup Ours : c \in {0, 1, 2}
    BY <1>2 DEF Levels
  <2>3. \A c \in {0, 1, 2} : 2 >= c
    OBVIOUS
  <2> QED
    BY <1>5, <1>6, <2>1, <2>2, <2>3 DEF Levels
<1>7. CASE Owner[a] # u /\ own # {}
  <2>1. Held(d, u, a) = {IF l > team THEN l ELSE team : l \in own}
    BY <1>4, <1>7
  <2>2. ASSUME NEW h \in Held(d, u, a) PROVE h \in Levels /\ h \in own \cup Ours
    <3>1. PICK l \in own : h = IF l > team THEN l ELSE team
      BY <2>1
    <3>2. Ours = {} => team = 0
      BY <1>1
    <3> QED
      BY <1>2, <1>3, <3>1, <3>2 DEF Levels
  <2>3. ASSUME NEW c \in own \cup Ours PROVE \E h \in Held(d, u, a) : h >= c
    <3>1. PICK l \in own : c \in own => l = c
      BY <1>7
    <3>2. PICK h : h = IF l > team THEN l ELSE team
      OBVIOUS
    <3>3. h \in Held(d, u, a)
      BY <2>1, <3>2
    <3>4. h >= c
      BY <1>2, <1>3, <3>1, <3>2 DEF Levels
    <3> QED
      BY <3>3, <3>4
  <2>4. Held(d, u, a) # {}
    BY <1>7, <2>1
  <2> QED
    BY <1>5, <1>7, <2>2, <2>3, <2>4
<1>8. CASE Owner[a] # u /\ own = {}
  <2>1. Held(d, u, a) = IF Ours # {} THEN {team} ELSE {}
    BY <1>4, <1>8
  <2> QED
    BY <1>2, <1>3, <1>5, <1>8, <2>1 DEF Levels
<1> QED
  BY <1>6, <1>7, <1>8

LEMMA ResolvedAreHeld ==
    ASSUME NEW d, Levelled(d), NEW u, NEW p \in Projects
    PROVE  /\ \A l \in MaxPermission(d, u, p) : l = NoPermission \/ \E a \in Hierarchy(p) : l \in Held(d, u, a)
           /\ MaxPermission(d, u, p) # {}
           /\ \A c \in Granted(d, u, p) : c.at \in Hierarchy(p) /\ c.level \in Held(d, u, c.at)
<1>1. \A c \in Granted(d, u, p) : c.at \in Hierarchy(p) /\ c.level \in Held(d, u, c.at)
  <2> TAKE c \in Granted(d, u, p)
  <2>1. PICK a, l : /\ a \in Hierarchy(p) /\ l \in Held(d, u, a)
                    /\ c = [at |-> a, level |-> l, priority |-> Priority(u, p, a)]
    BY GrantedIsLeast, CandidatesAre
  <2> QED
    BY <2>1
<1>2. MaxPermission(d, u, p) =
        IF Granted(d, u, p) = {} THEN {NoPermission} ELSE {c.level : c \in Granted(d, u, p)}
  BY DEF MaxPermission
<1> QED
  BY <1>1, <1>2

-----------------------------------------------------------------------------
(* Access: the projects that are listed.                                   *)

LEMMA DirectlySeen ==
    ASSUME NEW d, Levelled(d), NEW u, NEW p \in Projects
    PROVE  p \in DirectlyVisible(d, u) <=> Held(d, u, p) # {}
<1>1. Held(d, u, p) # {} <=> Owner[p] = u \/ Given(d, u, p) # {}
  BY HeldAreGiven
<1>2. Given(d, u, p) # {} <=> GrantsTo(d, u, p) # {} \/ TeamLevels(d, u, p) # {}
  BY DEF Given
<1> QED
  BY <1>1, <1>2 DEF DirectlyVisible

\* The walk down from what is visible comes to what has something visible above.
LEMMA SeenFromAbove ==
    ASSUME NEW d, Levelled(d), NEW u, NEW p \in Projects
    PROVE  p \in VisibleProjects(d, u) <=> \E a \in Hierarchy(p) : Held(d, u, a) # {}
<1> DEFINE D == DirectlyVisible(d, u)
           GoesDown(S) == D \subseteq S /\ \A c \in Projects : Parent[c] \in S => c \in S
           Below == {q \in Projects : \E a \in Hierarchy(q) : Held(d, u, a) # {}}
<1>0. D \subseteq Projects
  BY DEF DirectlyVisible
<1>1. p \in VisibleProjects(d, u) <=> \A S \in SUBSET Projects : GoesDown(S) => p \in S
  BY DEF VisibleProjects
<1>2. GoesDown(Below)
  <2>1. \A q \in D : q \in Below
    BY <1>0, DirectlySeen, WayIsClosed
  <2>2. ASSUME NEW c \in Projects, Parent[c] \in Below PROVE c \in Below
    <3>1. PICK a \in Hierarchy(Parent[c]) : Held(d, u, a) # {}
      BY <2>2
    <3>2. Parent[c] \in Hierarchy(c)
      <4>1. Parent[c] # 0
        BY <2>2, AccessAssumption
      <4> QED
        BY <4>1, WayIsClosed DEF GoesUp
    <3>3. a \in Hierarchy(c)
      BY <3>2, WayNests
    <3> QED
      BY <3>1, <3>3
  <2> QED
    BY <2>1, <2>2
<1>3. ASSUME NEW S \in SUBSET Projects, GoesDown(S), NEW a \in Hierarchy(p), Held(d, u, a) # {} PROVE p \in S
  <2> DEFINE T == {q \in Hierarchy(p) : q \in S => p \in S}
  <2>1. p \in T /\ T \in SUBSET Projects
    BY WayIsClosed
  <2>2. ASSUME NEW x \in T, Parent[x] # 0 PROVE Parent[x] \in T
    <3>1. x \in Hierarchy(p) /\ x \in Projects
      BY WayIsClosed
    <3>2. Parent[x] \in Hierarchy(p)
      BY <2>2, <3>1, WayIsClosed DEF GoesUp
    <3>3. Parent[x] \in S => x \in S
      BY <1>3, <3>1
    <3> QED
      BY <3>2, <3>3
  <2>3. GoesUp(T)
    BY <2>2 DEF GoesUp
  <2>4. Hierarchy(p) \subseteq T
    <3> HIDE DEF T
    <3> QED
      BY <2>1, <2>3, WayIsLeast
  <2>5. a \in D
    BY <1>3, DirectlySeen, WayIsClosed
  <2> QED
    BY <1>3, <2>4, <2>5
<1>4. Below \in SUBSET Projects
  OBVIOUS
<1> HIDE DEF GoesDown
<1> QED
  BY <1>1, <1>2, <1>3, <1>4

-----------------------------------------------------------------------------
(* Access: what a pending write still is when others have committed.       *)

GrantTables == {"users_projects", "team_projects"}

\* Grants have a level, and are to teams that there are or were.
RightsFit(x, last) ==
    /\ x.table \in GrantTables => x.level \in Levels
    /\ x.table = "team_projects" => x.team \in 1..last
AllFit(d, last) == \A r \in DOMAIN d : RightsFit(d[r], last)

\* Only members of a team that is there are its administrators.
AdminsTeamed(d) == \A r \in Rows(d, "team_members") : d[r].admin => d[r].team \in Teams(d)

AddsFitting(w, last) == \E x : /\ Tabled(x) /\ AddsOne(w, x) /\ RightsFit(x, last)
                               /\ x.table = "team_members" => ~x.admin
AltersFitting(d, last, w) ==
    /\ w.do = "update" /\ Tabled(w.to) /\ RightsFit(w.to, last) /\ w.row \in 1..last
    /\ w.row \in DOMAIN d => /\ SameKey(d[w.row], w.to)
                             /\ w.to.table = "team_members" => w.to.team \in Teams(d)
RemovesFitting(d, last, w) == w.do = "delete" /\ \E r \in 1..last : w.rows = {r} /\ r \notin Teams(d)
StillFits(d, last, w) ==
    \/ AddsFitting(w, last) \/ AddsATeam(w)
    \/ AltersFitting(d, last, w) \/ RemovesFitting(d, last, w) \/ w.do = "drop"

SharesInv ==
    /\ RowsTabled(db, issued) /\ AllFit(db, issued) /\ AdminsTeamed(db)
    /\ pending = Nothing \/ StillFits(db, issued, pending)

\* What a commit makes of the rows: they keep their keys, new ones have new ids, and a
\* team goes with its members.
Follows(d, last, e, top) ==
    /\ last \in Nat /\ top \in Nat /\ last <= top
    /\ \A r \in DOMAIN e : IF r \in DOMAIN d THEN SameKey(d[r], e[r]) ELSE r \in (last + 1)..top
    /\ \A t \in Teams(d) : t \notin DOMAIN e => MembersOf(d, t) \cap DOMAIN e = {}

LEMMA KeysCompare ==
    /\ \A x : SameKey(x, x)
    /\ \A x, y, z : SameKey(x, y) /\ SameKey(x, z) => SameKey(y, z)
    /\ \A x, y : SameKey(x, y) => y.table = x.table
    /\ \A x, y : Tabled(y) /\ SameKey(x, y) =>
         /\ y.table \in {"team_members", "team_projects"} => y.team = x.team
         /\ y.table \in {"team_members", "users_projects"} => y.user = x.user
         /\ y.table \in {"team_projects", "users_projects"} => y.project = x.project
BY DEF SameKey, Tabled

LEMMA TeamsFollow ==
    ASSUME NEW d, NEW last, RowsTabled(d, last), NEW e, NEW top, Follows(d, last, e, top)
    PROVE  /\ \A t \in Teams(d) : t \in DOMAIN e => t \in Teams(e)
           /\ \A r \in 1..last : r \in Teams(e) => r \in Teams(d)
<1>1. \A r \in DOMAIN e : r \in DOMAIN d => e[r].table = d[r].table
  BY KeysCompare DEF Follows
<1>2. \A r \in 1..last : r \in DOMAIN e => r \in DOMAIN d
  BY DEF Follows
<1> QED
  BY <1>1, <1>2 DEF Teams, Rows

LEMMA FitsWithMore ==
    ASSUME NEW x, NEW last \in Nat, NEW top \in Nat, last <= top, RightsFit(x, last)
    PROVE  RightsFit(x, top)
BY DEF RightsFit

LEMMA PendingStillFits ==
    ASSUME NEW d, NEW last, RowsTabled(d, last), NEW w, StillFits(d, last, w),
           NEW e, NEW top, Follows(d, last, e, top)
    PROVE  StillFits(e, top, w)
<1>1. last \in Nat /\ top \in Nat /\ last <= top
  BY DEF Follows
<1>2. ASSUME AddsFitting(w, last) PROVE AddsFitting(w, top)
  BY <1>1, <1>2, FitsWithMore DEF AddsFitting
<1>3. ASSUME AltersFitting(d, last, w) PROVE AltersFitting(e, top, w)
  <2>1. PICK r, x : r = w.row /\ x = w.to
    OBVIOUS
  <2>2. /\ w.do = "update" /\ Tabled(x) /\ RightsFit(x, last) /\ r \in 1..last
        /\ r \in DOMAIN d => SameKey(d[r], x) /\ (x.table = "team_members" => x.team \in Teams(d))
    BY <1>3, <2>1 DEF AltersFitting
  <2>3. RightsFit(x, top) /\ r \in 1..top
    BY <1>1, <2>2, FitsWithMore
  <2>4. ASSUME r \in DOMAIN e
        PROVE  SameKey(e[r], x) /\ (x.table = "team_members" => x.team \in Teams(e))
    <3>1. r \in DOMAIN d /\ SameKey(d[r], e[r])
      BY <1>1, <2>2, <2>4 DEF Follows
    <3>2. SameKey(e[r], x)
      BY <2>2, <3>1, KeysCompare
    <3>3. ASSUME x.table = "team_members" PROVE x.team \in Teams(e)
      <4>1. d[r].table = "team_members" /\ d[r].team = x.team
        BY <2>2, <3>1, <3>3, KeysCompare
      <4>2. r \in MembersOf(d, x.team)
        BY <3>1, <4>1 DEF MembersOf, Rows
      <4>3. x.team \in DOMAIN e
        BY <2>2, <2>4, <3>1, <3>3, <4>2 DEF Follows
      <4> QED
        BY <2>2, <3>1, <3>3, <4>3, TeamsFollow
    <3> QED
      BY <3>2, <3>3
  <2> QED
    BY <2>1, <2>2, <2>3, <2>4 DEF AltersFitting
<1>4. ASSUME RemovesFitting(d, last, w) PROVE RemovesFitting(e, top, w)
  BY <1>1, <1>4, TeamsFollow DEF RemovesFitting
<1> QED
  BY <1>2, <1>3, <1>4 DEF StillFits

\* What each kind of write leaves.
LEMMA AddedFits ==
    ASSUME NEW d, NEW last, RowsTabled(d, last), AllFit(d, last), AdminsTeamed(d),
           NEW x, Tabled(x), x.table # "teams", RightsFit(x, last), x.table = "team_members" => ~x.admin,
           NEW e, OneMore(d, last, x, e)
    PROVE  Follows(d, last, e, last + 1) /\ AllFit(e, last + 1) /\ AdminsTeamed(e)
<1>1. /\ DOMAIN e = DOMAIN d \cup {last + 1} /\ last + 1 \notin DOMAIN d
      /\ e[last + 1] = x /\ \A r \in DOMAIN d : e[r] = d[r]
  BY DEF OneMore
<1>2. last \in Nat /\ last + 1 \in Nat /\ last <= last + 1 /\ DOMAIN d \subseteq 1..last
  BY DEF RowsTabled
<1>3. Follows(d, last, e, last + 1)
  <2>1. \A r \in DOMAIN e : IF r \in DOMAIN d THEN SameKey(d[r], e[r]) ELSE r \in (last + 1)..(last + 1)
    BY <1>1, <1>2, KeysCompare
  <2>2. \A t \in Teams(d) : t \in DOMAIN e
    BY <1>1 DEF Teams, Rows
  <2> QED
    BY <1>2, <2>1, <2>2 DEF Follows
<1>4. AllFit(e, last + 1)
  BY <1>1, <1>2, FitsWithMore DEF AllFit
<1>5. AdminsTeamed(e)
  BY <1>1 DEF AdminsTeamed, Rows, Teams
<1> QED
  BY <1>3, <1>4, <1>5

LEMMA TeamAddedFits ==
    ASSUME NEW d, NEW last, RowsTabled(d, last), AllFit(d, last), AdminsTeamed(d),
           NEW x, Tabled(x), x.table = "team_members", NEW e, TeamMore(d, last, x, e)
    PROVE  Follows(d, last, e, last + 2) /\ AllFit(e, last + 2) /\ AdminsTeamed(e)
<1>1. PICK y : y = [x EXCEPT !.team = last + 1]
  OBVIOUS
<1>2. /\ DOMAIN e = DOMAIN d \cup {last + 1, last + 2}
      /\ last + 1 \notin DOMAIN d /\ last + 2 \notin DOMAIN d
      /\ e[last + 1] = Team /\ e[last + 2] = y
      /\ \A r \in DOMAIN d : e[r] = d[r]
  BY <1>1 DEF TeamMore
<1>3. last \in Nat /\ last + 2 \in Nat /\ last <= last + 2 /\ DOMAIN d \subseteq 1..last
  BY DEF RowsTabled
<1>4. y.table = "team_members" /\ y.team = last + 1 /\ Team.table = "teams"
  BY <1>1 DEF Tabled, Team
<1>5. Follows(d, last, e, last + 2)
  <2>1. \A r \in DOMAIN e : IF r \in DOMAIN d THEN SameKey(d[r], e[r]) ELSE r \in (last + 1)..(last + 2)
    BY <1>2, <1>3, KeysCompare
  <2>2. \A t \in Teams(d) : t \in DOMAIN e
    BY <1>2 DEF Teams, Rows
  <2> QED
    BY <1>3, <2>1, <2>2 DEF Follows
<1>6. AllFit(e, last + 2)
  <2>1. RightsFit(y, last + 2) /\ RightsFit(Team, last + 2)
    BY <1>4 DEF RightsFit, GrantTables
  <2> QED
    BY <1>2, <1>3, <2>1, FitsWithMore DEF AllFit
<1>7. AdminsTeamed(e)
  BY <1>2, <1>4 DEF AdminsTeamed, Rows, Teams
<1> QED
  BY <1>5, <1>6, <1>7

LEMMA AlteredFits ==
    ASSUME NEW d, NEW last, RowsTabled(d, last), AllFit(d, last), AdminsTeamed(d),
           NEW r \in DOMAIN d, NEW x, Tabled(x), RightsFit(x, last), SameKey(d[r], x),
           x.table = "team_members" => x.team \in Teams(d), NEW e, e = [d EXCEPT ![r] = x]
    PROVE  Follows(d, last, e, last) /\ AllFit(e, last) /\ AdminsTeamed(e)
<1>1. DOMAIN e = DOMAIN d /\ e[r] = x /\ \A s \in DOMAIN d \ {r} : e[s] = d[s]
  OBVIOUS
<1>2. last \in Nat /\ x.table = d[r].table
  BY KeysCompare DEF RowsTabled
<1>3. Teams(e) = Teams(d)
  BY <1>1, <1>2 DEF Teams, Rows
<1>4. Follows(d, last, e, last)
  <2>1. \A s \in DOMAIN e : SameKey(d[s], e[s])
    BY <1>1, KeysCompare
  <2>2. \A t \in Teams(d) : t \in DOMAIN e
    BY <1>1 DEF Teams, Rows
  <2> QED
    BY <1>1, <1>2, <2>1, <2>2 DEF Follows
<1>5. AllFit(e, last)
  BY <1>1 DEF AllFit
<1>6. AdminsTeamed(e)
  <2> SUFFICES ASSUME NEW s \in Rows(e, "team_members"), e[s].admin PROVE e[s].team \in Teams(d)
    BY <1>3 DEF AdminsTeamed
  <2>1. s \in DOMAIN d /\ e[s].table = "team_members"
    BY <1>1 DEF Rows
  <2> QED
    BY <1>1, <2>1 DEF AdminsTeamed, Rows
<1> QED
  BY <1>4, <1>5, <1>6

LEMMA LessFits ==
    ASSUME NEW d, NEW last, RowsTabled(d, last), AllFit(d, last), AdminsTeamed(d),
           NEW gone, NEW e, e = Without(d, gone),
           \A t \in Teams(d) : t \in gone => MembersOf(d, t) \subseteq gone
    PROVE  Follows(d, last, e, last) /\ AllFit(e, last) /\ AdminsTeamed(e)
<1>1. DOMAIN e = DOMAIN d \ gone /\ \A r \in DOMAIN e : e[r] = d[r]
  BY DEF Without
<1>2. last \in Nat
  BY DEF RowsTabled
<1>3. Follows(d, last, e, last)
  <2>1. \A s \in DOMAIN e : s \in DOMAIN d /\ SameKey(d[s], e[s])
    BY <1>1, KeysCompare
  <2>2. \A t \in Teams(d) : t \notin DOMAIN e => MembersOf(d, t) \cap DOMAIN e = {}
    BY <1>1 DEF Teams, Rows
  <2> QED
    BY <1>2, <2>1, <2>2 DEF Follows
<1>4. AllFit(e, last)
  BY <1>1 DEF AllFit
<1>5. AdminsTeamed(e)
  <2> SUFFICES ASSUME NEW s \in Rows(e, "team_members"), e[s].admin PROVE e[s].team \in Teams(e)
    BY DEF AdminsTeamed
  <2>1. s \in DOMAIN d /\ s \notin gone /\ d[s].table = "team_members" /\ e[s] = d[s]
    BY <1>1 DEF Rows
  <2>2. d[s].team \in Teams(d) /\ s \in MembersOf(d, d[s].team)
    BY <2>1 DEF AdminsTeamed, Rows, MembersOf
  <2>3. d[s].team \notin gone
    BY <2>1, <2>2
  <2> QED
    BY <1>1, <2>1, <2>2, <2>3 DEF Teams, Rows
<1> QED
  BY <1>3, <1>4, <1>5

\* What a commit leaves.
LEMMA CommitFits ==
    ASSUME NEW d, NEW last, RowsTabled(d, last), AllFit(d, last), AdminsTeamed(d),
           NEW w, StillFits(d, last, w), NEW e, Leaves(d, last, w, e)
    PROVE  Follows(d, last, e, last + Taken(w)) /\ AllFit(e, last + Taken(w)) /\ AdminsTeamed(e)
<1>1. last \in Nat /\ (w.do # "insert" => last + Taken(w) = last)
  <2>1. last \in Nat /\ (w.do # "insert" => Taken(w) = 0)
    BY RowsTaken DEF RowsTabled
  <2> QED
    BY <2>1
<1>2. ASSUME AddsFitting(w, last)
      PROVE  Follows(d, last, e, last + Taken(w)) /\ AllFit(e, last + Taken(w)) /\ AdminsTeamed(e)
  <2>1. PICK x : /\ Tabled(x) /\ AddsOne(w, x) /\ RightsFit(x, last)
                 /\ x.table = "team_members" => ~x.admin
    BY <1>2 DEF AddsFitting
  <2>2. x.table # "teams" /\ Taken(w) = 1 /\ OneMore(d, last, x, e)
    BY <2>1, RowsTaken, OneRowWritten DEF AddsOne
  <2> QED
    BY <2>1, <2>2, AddedFits
<1>3. ASSUME AddsATeam(w)
      PROVE  Follows(d, last, e, last + Taken(w)) /\ AllFit(e, last + Taken(w)) /\ AdminsTeamed(e)
  <2>1. PICK x : Tabled(x) /\ AddsTeam(w, x)
    BY <1>3 DEF AddsATeam
  <2>2. x.table = "team_members" /\ Taken(w) = 2 /\ TeamMore(d, last, x, e)
    BY <2>1, RowsTaken, TeamWritten DEF AddsTeam
  <2> QED
    BY <2>1, <2>2, TeamAddedFits
<1>4. Follows(d, last, d, last)
  BY <1>1, KeysCompare DEF Follows, Teams, Rows
<1>5. ASSUME AltersFitting(d, last, w) PROVE Follows(d, last, e, last) /\ AllFit(e, last) /\ AdminsTeamed(e)
  <2>1. PICK r, x : r = w.row /\ x = w.to
    OBVIOUS
  <2>2. /\ w.do = "update" /\ Tabled(x) /\ RightsFit(x, last)
        /\ r \in DOMAIN d => SameKey(d[r], x) /\ (x.table = "team_members" => x.team \in Teams(d))
    BY <1>5, <2>1 DEF AltersFitting
  <2>3. CASE r \in DOMAIN d
    <3>1. e = [d EXCEPT ![r] = x]
      BY <2>1, <2>2, <2>3, OthersWritten
    <3> QED
      BY <2>2, <2>3, <3>1, AlteredFits
  <2>4. CASE r \notin DOMAIN d
    <3>1. e = d
      BY <2>1, <2>2, <2>4, OthersWritten
    <3> QED
      BY <1>4, <3>1
  <2> QED
    BY <2>3, <2>4
<1>6. ASSUME RemovesFitting(d, last, w) PROVE Follows(d, last, e, last) /\ AllFit(e, last) /\ AdminsTeamed(e)
  <2>1. PICK r \in 1..last : w.do = "delete" /\ w.rows = {r} /\ r \notin Teams(d)
    BY <1>6 DEF RemovesFitting
  <2>2. PICK gone : gone = {r}
    OBVIOUS
  <2>3. e = Without(d, gone)
    BY <2>1, <2>2, OthersWritten
  <2>4. \A t \in Teams(d) : t \in gone => MembersOf(d, t) \subseteq gone
    BY <2>1, <2>2
  <2> QED
    BY <2>3, <2>4, LessFits
<1>7. ASSUME w.do = "drop" PROVE Follows(d, last, e, last) /\ AllFit(e, last) /\ AdminsTeamed(e)
  <2>1. PICK t, gone : t = w.team
                       /\ gone = {t} \cup MembersOf(d, t) \cup {r \in Rows(d, "team_projects") : d[r].team = t}
    OBVIOUS
  <2>2. e = Without(d, gone)
    BY <1>7, <2>1, OthersWritten DEF DropTeam
  <2>3. \A s \in Teams(d) : s \in gone => s = t
    BY <2>1 DEF Teams, MembersOf, Rows
  <2>4. \A s \in Teams(d) : s \in gone => MembersOf(d, s) \subseteq gone
    BY <2>1, <2>3
  <2> QED
    BY <2>2, <2>4, LessFits
<1>8. CASE AltersFitting(d, last, w) \/ RemovesFitting(d, last, w) \/ w.do = "drop"
  <2>1. w.do # "insert"
    BY <1>8 DEF AltersFitting, RemovesFitting
  <2> QED
    BY <1>1, <1>5, <1>6, <1>7, <1>8, <2>1
<1> QED
  BY <1>2, <1>3, <1>8 DEF StillFits

-----------------------------------------------------------------------------
(* Access: who may decide on what.                                         *)

Grants(d, by, last, w) ==
    \E x : /\ Tabled(x) /\ AddsOne(w, x) /\ x.table \in GrantTables /\ RightsFit(x, last)
           /\ x.project \in Projects /\ IsAdmin(d, by, x.project)
Joins(d, by, w) ==
    \E x : /\ Tabled(x) /\ AddsOne(w, x) /\ x.table = "team_members" /\ ~x.admin
           /\ IsTeamAdmin(d, by, x.team) /\ Membership(d, x.team, x.user) = {}
Regrants(d, by, last, w) ==
    /\ Alters(d, w) /\ w.to.table \in GrantTables /\ RightsFit(w.to, last)
    /\ w.to.project \in Projects /\ IsAdmin(d, by, w.to.project)
Promotes(d, by, w) ==
    Alters(d, w) /\ w.to.table = "team_members" /\ IsTeamAdmin(d, by, w.to.team)

Rightful(d, by, last, w) ==
    \/ Grants(d, by, last, w) \/ Joins(d, by, w) \/ AddsATeam(w)
    \/ Regrants(d, by, last, w) \/ Promotes(d, by, w) \/ Removes(d, w) \/ Drops(d, w)

LEMMA AdminsShare ==
    ASSUME NEW d, NEW last, RowsTabled(d, last), AllFit(d, last),
           NEW by, NEW p \in Projects, IsAdmin(d, by, p), NEW l \in Levels, NEW w
    PROVE  /\ \A u : w \in GrantToUser(d, u, p, l) => Grants(d, by, last, w)
           /\ \A t \in Teams(d) : w \in GrantToTeam(d, t, p, l) => Grants(d, by, last, w)
           /\ \A r \in GrantsOn(d, p) : w = ChangeGrant(d, r, l) => Regrants(d, by, last, w)
<1>1. ASSUME NEW u, w \in GrantToUser(d, u, p, l) PROVE Grants(d, by, last, w)
  <2>1. PICK x : x = [table |-> "users_projects", user |-> u, project |-> p, level |-> l]
    OBVIOUS
  <2>2. w = Insert(<<x>>)
    BY <1>1, <2>1 DEF GrantToUser
  <2>3. x.table = "users_projects" /\ x.project = p /\ Tabled(x) /\ RightsFit(x, last)
    BY <2>1 DEF Tabled, RightsFit
  <2>4. AddsOne(w, x)
    BY <2>2, <2>3 DEF Insert, AddsOne
  <2> QED
    BY <2>3, <2>4 DEF Grants, GrantTables
<1>2. ASSUME NEW t \in Teams(d), w \in GrantToTeam(d, t, p, l) PROVE Grants(d, by, last, w)
  <2>1. PICK x : x = [table |-> "team_projects", team |-> t, project |-> p, level |-> l]
    OBVIOUS
  <2>2. w = Insert(<<x>>)
    BY <1>2, <2>1 DEF GrantToTeam
  <2>3. t \in 1..last
    BY DEF Teams, Rows, RowsTabled
  <2>4. x.table = "team_projects" /\ x.project = p /\ Tabled(x) /\ RightsFit(x, last)
    BY <2>1, <2>3 DEF Tabled, RightsFit
  <2>5. AddsOne(w, x)
    BY <2>2, <2>4 DEF Insert, AddsOne
  <2> QED
    BY <2>4, <2>5 DEF Grants, GrantTables
<1>3. ASSUME NEW r \in GrantsOn(d, p), w = ChangeGrant(d, r, l) PROVE Regrants(d, by, last, w)
  <2>1. r \in DOMAIN d /\ Tabled(d[r]) /\ d[r].table \in GrantTables /\ d[r].project = p /\ RightsFit(d[r], last)
    BY DEF GrantsOn, Rows, RowsTabled, AllFit, GrantTables
  <2>2. Alters(d, w)
    BY <1>3, GrantsChanged
  <2>3. PICK y : y = [d[r] EXCEPT !.level = l]
    OBVIOUS
  <2>4. w.to = y
    BY <1>3, <2>3 DEF ChangeGrant, Update
  <2>5. /\ y.table = d[r].table /\ y.project = p /\ y.level = l
        /\ y.table = "team_projects" => y.team = d[r].team
    BY <2>1, <2>3 DEF Tabled, GrantTables
  <2>6. RightsFit(y, last)
    BY <2>1, <2>5 DEF RightsFit
  <2> QED
    BY <2>1, <2>2, <2>4, <2>5, <2>6 DEF Regrants
<1> QED
  BY <1>1, <1>2, <1>3

LEMMA SharingIsRightful ==
    ASSUME NEW d, NEW last, RowsTabled(d, last), AllFit(d, last), NEW by, NEW w \in Sharing(d, by)
    PROVE  Rightful(d, by, last, w)
<1> DEFINE ToUsers(p) == {GrantToUser(d, u, p, l) : u \in Users, l \in Levels}
           ToTeams(p) == {GrantToTeam(d, t, p, l) : t \in Teams(d), l \in Levels}
           Change(r, l) == ChangeGrant(d, r, l)
           Changed_(p) == {Change(r, l) : r \in GrantsOn(d, p), l \in Levels}
           Revoked(p) == {RevokeGrant(r) : r \in GrantsOn(d, p)}
           Mine == {x \in Projects : IsAdmin(d, by, x)}
<1>1. ASSUME NEW p \in Mine, w \in UNION ToUsers(p) PROVE Rightful(d, by, last, w)
  <2>1. PICK u \in Users, l \in Levels : w \in GrantToUser(d, u, p, l)
    BY <1>1
  <2> QED
    BY <2>1, AdminsShare DEF Rightful
<1>2. ASSUME NEW p \in Mine, w \in UNION ToTeams(p) PROVE Rightful(d, by, last, w)
  <2>1. PICK t \in Teams(d), l \in Levels : w \in GrantToTeam(d, t, p, l)
    BY <1>2
  <2> QED
    BY <2>1, AdminsShare DEF Rightful
<1>3. ASSUME NEW p \in Mine, w \in Changed_(p) PROVE Rightful(d, by, last, w)
  <2> HIDE DEF Change
  <2>1. PICK r \in GrantsOn(d, p), l \in Levels : w = Change(r, l)
    BY <1>3
  <2> USE DEF Change
  <2> QED
    BY <2>1, AdminsShare DEF Rightful
<1>4. ASSUME NEW p \in Mine, w \in Revoked(p) PROVE Rightful(d, by, last, w)
  <2>1. PICK r \in GrantsOn(d, p) : w = RevokeGrant(r)
    BY <1>4
  <2> QED
    BY <2>1, GrantsChanged DEF Rightful
<1>5. PICK p \in Mine : w \in (UNION ToUsers(p)) \cup (UNION ToTeams(p)) \cup Changed_(p) \cup Revoked(p)
  BY DEF Sharing
<1> HIDE DEF ToUsers, ToTeams, Changed_, Revoked, Mine
<1> QED
  BY <1>1, <1>2, <1>3, <1>4, <1>5

LEMMA MembersRightful ==
    ASSUME NEW d, NEW last, RowsTabled(d, last), NEW by, NEW t, NEW u,
           NEW w \in AddMember(d, by, t, u) \cup RemoveMember(d, by, t, u)
                       \cup ToggleAdmin(d, by, t, u) \cup DeleteTeam(d, by, t)
    PROVE  Rightful(d, by, last, w)
<1>1. \A r \in Membership(d, t, u) :
        r \in DOMAIN d /\ d[r].table = "team_members" /\ d[r].team = t /\ Tabled(d[r])
  BY DEF Membership, MembersOf, Rows, RowsTabled
<1>2. ASSUME w \in AddMember(d, by, t, u) PROVE Joins(d, by, w)
  <2>1. PICK x : x = [table |-> "team_members", team |-> t, user |-> u, admin |-> FALSE]
    OBVIOUS
  <2>2. w = Insert(<<x>>) /\ Membership(d, t, u) = {} /\ IsTeamAdmin(d, by, t)
    BY <1>2, <2>1 DEF AddMember
  <2>3. x.table = "team_members" /\ x.team = t /\ x.user = u /\ ~x.admin /\ Tabled(x)
    BY <2>1 DEF Tabled
  <2>4. AddsOne(w, x)
    BY <2>2, <2>3 DEF Insert, AddsOne
  <2> QED
    BY <2>2, <2>3, <2>4 DEF Joins
<1>3. ASSUME w \in ToggleAdmin(d, by, t, u) PROVE Promotes(d, by, w)
  <2>1. PICK r \in Membership(d, t, u) : w = Update(r, [d[r] EXCEPT !.admin = ~@])
    BY <1>3 DEF ToggleAdmin
  <2>2. IsTeamAdmin(d, by, t)
    BY <1>3 DEF ToggleAdmin
  <2>3. r \in DOMAIN d /\ Tabled(d[r]) /\ d[r].table = "team_members" /\ d[r].team = t
    BY <1>1
  <2>4. PICK y : y = [d[r] EXCEPT !.admin = ~@]
    OBVIOUS
  <2>5. w.do = "update" /\ w.row = r /\ w.to = y
    BY <2>1, <2>4 DEF Update
  <2>6. DOMAIN y = DOMAIN d[r] /\ \A c \in DOMAIN d[r] \ {"admin"} : y[c] = d[r][c]
    BY <2>4
  <2>7. y.table = d[r].table /\ y.team = t
    BY <2>3, <2>6 DEF Tabled
  <2>8. Tabled(y)
    BY <2>3, <2>6, <2>7 DEF Tabled
  <2>9. SameKey(d[r], y)
    BY <2>6, <2>7 DEF SameKey
  <2> QED
    BY <2>2, <2>3, <2>5, <2>7, <2>8, <2>9 DEF Promotes, Alters
<1>4. ASSUME w \in RemoveMember(d, by, t, u) PROVE Removes(d, w)
  <2>1. PICK r \in Membership(d, t, u) : w = Delete(r) /\ Cardinality(MembersOf(d, t)) # 1
    BY <1>4 DEF RemoveMember
  <2>2. r \in DOMAIN d /\ d[r].table = "team_members" /\ d[r].team = t
    BY <1>1
  <2>3. MayGo(d, r) /\ r \notin Teams(d)
    BY <2>1, <2>2 DEF MayGo, Teams, Rows
  <2> QED
    BY <2>1, <2>2, <2>3 DEF Delete, Removes
<1>5. ASSUME w \in DeleteTeam(d, by, t) PROVE Drops(d, w)
  BY <1>5 DEF DeleteTeam, Drops
<1> QED
  BY <1>2, <1>3, <1>4, <1>5 DEF Rightful

LEMMA DecisionsRightful ==
    ASSUME NEW d, NEW last, RowsTabled(d, last), AllFit(d, last), NEW by, NEW w \in Decisions(d, by, last)
    PROVE  Rightful(d, by, last, w)
<1> DEFINE OfTeam(t, u) == UNION {AddMember(d, by, t, u), RemoveMember(d, by, t, u),
                                  ToggleAdmin(d, by, t, u), DeleteTeam(d, by, t)}
           teams == Teams(d) \cup {d[r].team : r \in Rows(d, "team_members")}
           ofTeams == {OfTeam(t, u) : t \in teams, u \in Users}
<1>1. w \in Sharing(d, by) \/ w = CreateTeam(by, last) \/ w \in UNION ofTeams
  BY DEF Decisions
<1>2. ASSUME w \in UNION ofTeams PROVE Rightful(d, by, last, w)
  <2> HIDE DEF OfTeam, teams
  <2>1. PICK t, u : w \in OfTeam(t, u)
    BY <1>2
  <2> USE DEF OfTeam
  <2>2. w \in AddMember(d, by, t, u) \cup RemoveMember(d, by, t, u)
              \cup ToggleAdmin(d, by, t, u) \cup DeleteTeam(d, by, t)
    BY <2>1
  <2> QED
    BY <2>2, MembersRightful
<1> HIDE DEF ofTeams
<1>3. ASSUME w = CreateTeam(by, last) PROVE Rightful(d, by, last, w)
  BY <1>3, NewTeamDecided DEF Rightful
<1> QED
  BY <1>1, <1>2, <1>3, SharingIsRightful

LEMMA RightfulFits ==
    ASSUME NEW d, NEW last, RowsTabled(d, last), AdminsTeamed(d), NEW by, NEW w, Rightful(d, by, last, w)
    PROVE  StillFits(d, last, w)
<1>1. ASSUME Grants(d, by, last, w) PROVE AddsFitting(w, last)
  BY <1>1 DEF Grants, AddsFitting, GrantTables
<1>2. ASSUME Joins(d, by, w) PROVE AddsFitting(w, last)
  BY <1>2 DEF Joins, AddsFitting, RightsFit, GrantTables
<1>3. DOMAIN d \subseteq 1..last
  BY DEF RowsTabled
<1>4. ASSUME Regrants(d, by, last, w) PROVE AltersFitting(d, last, w)
  <2>1. w.to.table # "team_members" /\ RightsFit(w.to, last)
    BY <1>4 DEF Regrants, GrantTables
  <2>2. w.do = "update" /\ Tabled(w.to) /\ w.row \in DOMAIN d /\ SameKey(d[w.row], w.to)
    BY <1>4 DEF Regrants, Alters
  <2> QED
    BY <1>3, <2>1, <2>2 DEF AltersFitting
<1>5. ASSUME Promotes(d, by, w) PROVE AltersFitting(d, last, w)
  <2>1. PICK x : x = w.to
    OBVIOUS
  <2>2. w.do = "update" /\ Tabled(x) /\ w.row \in DOMAIN d /\ SameKey(d[w.row], x) /\ x.table = "team_members"
    BY <1>5, <2>1 DEF Promotes, Alters
  <2>3. PICK m \in Membership(d, x.team, by) : d[m].admin
    BY <1>5, <2>1 DEF Promotes, IsTeamAdmin
  <2>4. x.team \in Teams(d)
    BY <2>3 DEF AdminsTeamed, Membership, MembersOf
  <2>5. RightsFit(x, last)
    BY <2>2 DEF RightsFit, GrantTables
  <2> QED
    BY <1>3, <2>1, <2>2, <2>4, <2>5 DEF AltersFitting
<1>6. ASSUME Removes(d, w) PROVE RemovesFitting(d, last, w)
  BY <1>3, <1>6 DEF Removes, RemovesFitting
<1> QED
  BY <1>1, <1>2, <1>4, <1>5, <1>6 DEF Rightful, StillFits, Drops

-----------------------------------------------------------------------------
(* Access: the invariant of the shares.                                    *)

LEMMA SharesAtFirst == AccessInit => SharesInv
BY AccessAssumption DEF AccessInit, SharesInv, RowsTabled, AllFit, AdminsTeamed, Rows

LEMMA CommitKeepsShares ==
    ASSUME RowsTabled(db, issued), AllFit(db, issued), AdminsTeamed(db),
           NEW w, StillFits(db, issued, w), Commit(w)
    PROVE  /\ RowsTabled(db', issued') /\ AllFit(db', issued') /\ AdminsTeamed(db')
           /\ Follows(db, issued, db', issued')
<1>1. PICK e, n : e = db' /\ n = issued'
  OBVIOUS
<1>2. Leaves(db, issued, w, e) /\ n = issued + Taken(w)
  BY <1>1 DEF Commit, Leaves
<1>3. WriteFits(w)
  <2>1. AddsFitting(w, issued) => WriteFits(w)
    BY DEF AddsFitting, WriteFits
  <2>2. AddsATeam(w) => WriteFits(w)
    BY DEF AddsATeam, WriteFits
  <2>3. AltersFitting(db, issued, w) => WriteFits(w)
    BY DEF AltersFitting, WriteFits
  <2>4. RemovesFitting(db, issued, w) \/ w.do = "drop" => WriteFits(w)
    BY DEF RemovesFitting, WriteFits
  <2> QED
    BY <2>1, <2>2, <2>3, <2>4 DEF StillFits
<1>4. RowsTabled(e, n)
  BY <1>2, <1>3, RowsStayTabled
<1>5. Follows(db, issued, e, n) /\ AllFit(e, n) /\ AdminsTeamed(e)
  BY <1>2, CommitFits
<1> QED
  BY <1>1, <1>4, <1>5

LEMMA StepKeepsShares == SharesInv /\ [AccessNext]_accessVars => SharesInv'
<1> SUFFICES ASSUME SharesInv, [AccessNext]_accessVars PROVE SharesInv'
  OBVIOUS
<1>1. /\ RowsTabled(db, issued) /\ AllFit(db, issued) /\ AdminsTeamed(db)
      /\ pending = Nothing \/ StillFits(db, issued, pending)
  BY DEF SharesInv
<1>2. \A by : \A w \in Decisions(db, by, issued) : StillFits(db, issued, w)
  BY <1>1, DecisionsRightful, RightfulFits
<1>3. ASSUME NEW by \in Users, Serve(by) PROVE SharesInv'
  <2>1. PICK w \in Decisions(db, by, issued) : Commit(w) /\ UNCHANGED pending
    BY <1>3 DEF Serve
  <2>2. /\ RowsTabled(db', issued') /\ AllFit(db', issued') /\ AdminsTeamed(db')
        /\ Follows(db, issued, db', issued')
    BY <1>1, <1>2, <2>1, CommitKeepsShares
  <2>3. pending = Nothing \/ StillFits(db', issued', pending)
    BY <1>1, <2>2, PendingStillFits
  <2> QED
    BY <2>1, <2>2, <2>3 DEF SharesInv
<1>4. ASSUME NEW by \in Users, Read(by) PROVE SharesInv'
  <2>1. PICK w \in Decisions(db, by, issued) : pending' = w
    BY <1>4 DEF Read
  <2>2. StillFits(db, issued, w) /\ UNCHANGED <<db, issued>>
    BY <1>2, <1>4 DEF Read
  <2> QED
    BY <1>1, <2>1, <2>2 DEF SharesInv
<1>5. ASSUME Write PROVE SharesInv'
  <2>1. Commit(pending) /\ pending # Nothing /\ pending' = Nothing
    BY <1>5 DEF Write
  <2>2. RowsTabled(db', issued') /\ AllFit(db', issued') /\ AdminsTeamed(db')
    BY <1>1, <2>1, CommitKeepsShares
  <2> QED
    BY <2>1, <2>2 DEF SharesInv
<1>6. ASSUME UNCHANGED accessVars PROVE SharesInv'
  BY <1>1, <1>6 DEF accessVars, SharesInv
<1> QED
  BY <1>3, <1>4, <1>5, <1>6 DEF AccessNext

LEMMA SharesAreLevelled ==
    ASSUME SharesInv
    PROVE  Levelled(db)
BY DEF SharesInv, AllFit, RightsFit, GrantTables, Levelled

-----------------------------------------------------------------------------
(* Access: what is listed, and what may be read.                           *)

SeesAbove(d, u, p) == \E a \in Hierarchy(p) : Held(d, u, a) # {}

LEMMA OneIsReadable ==
    ASSUME NEW d, Levelled(d), NEW u, NEW p \in Projects
    PROVE  ProjectScope(d, u, p) = {VisibleProjects(d, u) \cap {p}}
<1>1. PICK levels : levels = MaxPermission(d, u, p)
  OBVIOUS
<1>2. ProjectScope(d, u, p) = {IF level > NoPermission THEN {p} ELSE {} : level \in levels}
  BY <1>1, AccessAssumption DEF ProjectScope
<1>3. levels # {}
  BY <1>1, ResolvedAreHeld
<1>4. p \in VisibleProjects(d, u) <=> SeesAbove(d, u, p)
  BY SeenFromAbove DEF SeesAbove
<1>5. CASE SeesAbove(d, u, p)
  <2>1. \A l \in levels : l \in Levels
    <3> TAKE l \in levels
    <3>1. PICK a \in Hierarchy(p) : l \in Held(d, u, a)
      BY <1>1, <1>5, PermissionIs DEF SeesAbove
    <3> QED
      BY <3>1, HeldAreGiven
  <2>2. \A l \in Levels : l > NoPermission
    BY DEF Levels, NoPermission
  <2>3. VisibleProjects(d, u) \cap {p} = {p}
    BY <1>4, <1>5
  <2> QED
    BY <1>2, <1>3, <2>1, <2>2, <2>3
<1>6. CASE ~SeesAbove(d, u, p)
  <2>1. levels = {NoPermission}
    BY <1>1, <1>6, PermissionIs DEF SeesAbove
  <2>2. ~(NoPermission > NoPermission)
    BY DEF NoPermission
  <2>3. VisibleProjects(d, u) \cap {p} = {}
    BY <1>4, <1>6
  <2> QED
    BY <1>2, <2>1, <2>2, <2>3
<1> QED
  BY <1>5, <1>6

\* A winner joins for exactly the projects with something granted above.
LEMMA WinnersJoin ==
    ASSUME NEW d, Levelled(d), NEW u, NEW w \in Winners(d, u, Projects), NEW p \in Projects
    PROVE  Joined(w, p) \subseteq Levels /\ (Joined(w, p) # {} <=> SeesAbove(d, u, p))
<1>1. /\ DOMAIN w = Projects
      /\ \A x \in Projects : IF Granted(d, u, x) = {} THEN w[x] = Nothing ELSE w[x] \in Granted(d, u, x)
  BY DEF Winners
<1>2. \A x \in Projects : \A c \in Granted(d, u, x) :
        c.at \in Hierarchy(x) /\ c.level \in Held(d, u, c.at) /\ c # Nothing
  <2> TAKE x \in Projects
  <2> TAKE c \in Granted(d, u, x)
  <2>1. PICK a, l : a \in Hierarchy(x) /\ c = [at |-> a, level |-> l, priority |-> Priority(u, x, a)]
    BY GrantedIsLeast, CandidatesAre
  <2>2. "at" \in DOMAIN c /\ "at" \notin DOMAIN Nothing
    BY <2>1 DEF Nothing
  <2> QED
    BY <2>2, ResolvedAreHeld
<1>3. \A l : l \in Joined(w, p) <=>
               \E o \in Projects : w[o] # Nothing /\ w[o].at \in Hierarchy(p) /\ l = w[o].level
  BY <1>1 DEF Joined
<1>4. ASSUME NEW l \in Joined(w, p) PROVE l \in Levels /\ SeesAbove(d, u, p)
  <2>1. PICK o \in Projects : w[o] # Nothing /\ w[o].at \in Hierarchy(p) /\ l = w[o].level
    BY <1>3
  <2>2. l \in Held(d, u, w[o].at)
    BY <1>1, <1>2, <2>1
  <2> QED
    BY <2>1, <2>2, HeldAreGiven DEF SeesAbove
<1>5. ASSUME SeesAbove(d, u, p) PROVE Joined(w, p) # {}
  <2>1. Granted(d, u, p) # {}
    BY <1>5, GrantedIsLeast DEF SeesAbove
  <2>2. PICK c : c = w[p]
    OBVIOUS
  <2>3. c \in Granted(d, u, p)
    BY <1>1, <2>1, <2>2
  <2>4. c # Nothing /\ c.at \in Hierarchy(p)
    BY <1>2, <2>3
  <2> QED
    BY <1>3, <2>2, <2>4
<1> QED
  BY <1>4, <1>5

LEMMA SomeWin ==
    ASSUME NEW d, NEW u, NEW S
    PROVE  Winners(d, u, S) # {}
<1> DEFINE pick(p) == CHOOSE c : c \in Granted(d, u, p)
           all == UNION {Granted(d, u, p) : p \in S}
<1>1. PICK w : w = [p \in S |-> IF Granted(d, u, p) = {} THEN Nothing ELSE pick(p)]
  OBVIOUS
<1>2. \A p \in S : Granted(d, u, p) # {} => pick(p) \in Granted(d, u, p)
  OBVIOUS
<1> HIDE DEF pick
<1>3. \A p \in S : IF Granted(d, u, p) = {} THEN w[p] = Nothing ELSE w[p] \in Granted(d, u, p)
  BY <1>1, <1>2
<1>4. \A p \in S : w[p] \in {Nothing} \cup all
  BY <1>3
<1>5. w \in [S -> {Nothing} \cup all]
  <2> HIDE DEF all
  <2> QED
    BY <1>1, <1>4
<1> QED
  BY <1>3, <1>5 DEF Winners

LEMMA AllAreReadable ==
    ASSUME NEW d, Levelled(d), NEW u
    PROVE  ReadableProjects(d, u) = {VisibleProjects(d, u)}
<1> DEFINE Answer(w) == [p \in Projects |-> IF Joined(w, p) = {} THEN NoPermission ELSE Max(Joined(w, p))]
           Read_(answer) == {p \in Projects : answer[p] > NoPermission}
<1>1. MaxPermissions(d, u, Projects) = {Answer(w) : w \in Winners(d, u, Projects)}
  BY DEF MaxPermissions
<1>2. ASSUME NEW w \in Winners(d, u, Projects) PROVE Read_(Answer(w)) = VisibleProjects(d, u)
  <2>1. ASSUME NEW p \in Projects PROVE Answer(w)[p] > NoPermission <=> SeesAbove(d, u, p)
    <3>1. PICK joined : joined = Joined(w, p)
      OBVIOUS
    <3>2. joined \subseteq Levels /\ (joined # {} <=> SeesAbove(d, u, p))
      BY <3>1, WinnersJoin
    <3>3. Answer(w)[p] = IF joined = {} THEN NoPermission ELSE Max(joined)
      BY <3>1
    <3>4. CASE joined = {}
      <4>1. Answer(w)[p] = NoPermission
        BY <3>3, <3>4
      <4>2. ~(NoPermission > NoPermission)
        BY DEF NoPermission
      <4> HIDE DEF Answer
      <4> QED
        BY <3>2, <3>4, <4>1, <4>2
    <3>5. CASE joined # {}
      <4>1. Max(joined) \in joined
        BY <3>2, <3>5, HighestLevel
      <4>2. Answer(w)[p] \in Levels
        BY <3>2, <3>3, <3>5, <4>1
      <4>3. \A l \in Levels : l > NoPermission
        BY DEF Levels, NoPermission
      <4> HIDE DEF Answer
      <4> QED
        BY <3>2, <3>5, <4>2, <4>3
    <3> QED
      BY <3>4, <3>5
  <2>2. \A p \in Projects : p \in VisibleProjects(d, u) <=> SeesAbove(d, u, p)
    BY SeenFromAbove DEF SeesAbove
  <2>3. VisibleProjects(d, u) \subseteq Projects
    BY DEF VisibleProjects
  <2> HIDE DEF Answer
  <2> QED
    BY <2>1, <2>2, <2>3
<1>3. ReadableProjects(d, u) = {Read_(answer) : answer \in MaxPermissions(d, u, Projects)}
  BY DEF ReadableProjects
<1> HIDE DEF Answer, Read_
<1>4. ReadableProjects(d, u) = {Read_(Answer(w)) : w \in Winners(d, u, Projects)}
  BY <1>1, <1>3
<1> QED
  BY <1>2, <1>4, SomeWin

\* The three queries that find what somebody may read find the same projects, whatever
\* was granted and however deep the projects lie.
THEOREM ListsAreReadable == AccessSpec => []ListedIsReadable
<1>1. SharesInv => ListedIsReadable
  <2> SUFFICES ASSUME SharesInv PROVE ListedIsReadable
    OBVIOUS
  <2>1. Levelled(db)
    BY SharesAreLevelled
  <2>2. ASSUME NEW u \in Users
        PROVE  /\ ProjectScope(db, u, 0) = {VisibleProjects(db, u)}
               /\ \A p \in Projects : ProjectScope(db, u, p) = {VisibleProjects(db, u) \cap {p}}
    <3>1. ProjectScope(db, u, 0) = ReadableProjects(db, u)
      BY DEF ProjectScope
    <3> QED
      BY <2>1, <3>1, AllAreReadable, OneIsReadable
  <2> QED
    BY <2>2 DEF ListedIsReadable
<1> QED
  BY <1>1, SharesAtFirst, StepKeepsShares, PTL DEF AccessSpec

-----------------------------------------------------------------------------
(* Access: who raises what.                                                *)

\* Row r gives u its level on a: it is u's own, or a team's with u among its members.
Belongs(d, t, u) == \E m \in DOMAIN d : d[m].table = "team_members" /\ d[m].team = t /\ d[m].user = u
Gives(d, u, a, r) ==
    \/ d[r].table = "users_projects" /\ d[r].project = a /\ d[r].user = u
    \/ d[r].table = "team_projects" /\ d[r].project = a /\ Belongs(d, d[r].team, u)

LEMMA GivenByRows ==
    ASSUME NEW d, NEW u, NEW a, NEW c
    PROVE  /\ c \in Given(d, u, a) <=> \E r \in DOMAIN d : Gives(d, u, a, r) /\ d[r].level = c
           /\ \A r \in DOMAIN d : d[r].table = "team_projects" /\ d[r].project = a /\ Belongs(d, d[r].team, u)
                => d[r].level \in TeamLevels(d, u, a)
<1>1. \A r : r \in GrantsTo(d, u, a) <=>
        r \in DOMAIN d /\ d[r].table = "users_projects" /\ d[r].project = a /\ d[r].user = u
  BY DEF GrantsTo, Rows
<1>2. \A t : Membership(d, t, u) # {} <=> Belongs(d, t, u)
  BY DEF Membership, MembersOf, Rows, Belongs
<1>3. \A x : x \in TeamLevels(d, u, a) <=>
        \E r \in DOMAIN d : /\ d[r].table = "team_projects" /\ d[r].project = a
                            /\ Belongs(d, d[r].team, u) /\ d[r].level = x
  BY <1>2 DEF TeamLevels, Rows
<1>4. c \in Given(d, u, a) <=> (\E r \in GrantsTo(d, u, a) : d[r].level = c) \/ c \in TeamLevels(d, u, a)
  BY DEF Given
<1> QED
  BY <1>1, <1>3, <1>4 DEF Gives

\* A ceiling is held somewhere on the way up, and nothing held there is above it.
LEMMA CeilingIs ==
    ASSUME NEW d, Levelled(d), NEW u, NEW p \in Projects
    PROVE  /\ Ceiling(d, u, p) = NoPermission \/ \E a \in Hierarchy(p) : Ceiling(d, u, p) \in Held(d, u, a)
           /\ Ceiling(d, u, p) \in Levels \cup {NoPermission}
           /\ NoPermission <= Ceiling(d, u, p)
           /\ \A a \in Hierarchy(p) : \A l \in Held(d, u, a) : l <= Ceiling(d, u, p)
<1>1. PICK S : S = {NoPermission} \cup UNION {Held(d, u, a) : a \in Hierarchy(p)}
  OBVIOUS
<1>2. \A a : Held(d, u, a) \subseteq Levels
  BY HeldAreGiven
<1>3. S \in SUBSET (Levels \cup {NoPermission}) /\ S # {}
  BY <1>1, <1>2
<1>4. Ceiling(d, u, p) = Max(S)
  BY <1>1 DEF Ceiling
<1>5. Max(S) \in S /\ \A x \in S : x <= Max(S)
  BY <1>3, HighestLevel
<1> QED
  BY <1>1, <1>3, <1>4, <1>5

LEMMA AdminsAtTheTop ==
    ASSUME NEW d, Levelled(d), NEW by, NEW p \in Projects, NEW a \in Hierarchy(p), IsAdmin(d, by, a)
    PROVE  Ceiling(d, by, p) = ADMIN
<1>1. a \in Projects /\ Hierarchy(a) \subseteq Hierarchy(p)
  BY WayNests
<1>2. ADMIN \in MaxPermission(d, by, a)
  BY DEF IsAdmin
<1>3. PICK b \in Hierarchy(a) : ADMIN \in Held(d, by, b)
  BY <1>1, <1>2, ResolvedAreHeld DEF ADMIN, NoPermission
<1>4. ADMIN <= Ceiling(d, by, p) /\ Ceiling(d, by, p) \in Levels \cup {NoPermission}
  BY <1>1, <1>3, CeilingIs
<1> QED
  BY <1>4 DEF ADMIN, Levels, NoPermission

\* by is an administrator of a itself, or gives another no more than by's own team has there.
RaisedRightly(d, by, u, a, c) ==
    \/ IsAdmin(d, by, a)
    \/ u # by /\ c \in TeamLevels(d, by, a) /\ \E t \in Teams(d) : IsTeamAdmin(d, by, t)

LEMMA GrantsRaise ==
    ASSUME NEW d, NEW last, RowsTabled(d, last), NEW by, NEW w, Grants(d, by, last, w),
           NEW e, Leaves(d, last, w, e), NEW u, NEW a, NEW c \in Given(e, u, a), c \notin Given(d, u, a)
    PROVE  IsAdmin(d, by, a)
<1>1. PICK x : /\ Tabled(x) /\ AddsOne(w, x) /\ x.table \in GrantTables
               /\ x.project \in Projects /\ IsAdmin(d, by, x.project)
  BY DEF Grants
<1>2. OneMore(d, last, x, e)
  BY <1>1, OneRowWritten
<1>3. /\ DOMAIN e = DOMAIN d \cup {last + 1} /\ last + 1 \notin DOMAIN d
      /\ e[last + 1] = x /\ \A r \in DOMAIN d : e[r] = d[r]
  BY <1>2 DEF OneMore
<1>4. \A t : Belongs(e, t, u) => Belongs(d, t, u)
  BY <1>1, <1>3 DEF Belongs, GrantTables
<1>5. PICK r \in DOMAIN e : Gives(e, u, a, r) /\ e[r].level = c
  BY GivenByRows
<1>6. r \in DOMAIN d => Gives(d, u, a, r) /\ d[r].level = c
  BY <1>3, <1>4, <1>5 DEF Gives
<1>7. r = last + 1
  BY <1>3, <1>5, <1>6, GivenByRows
<1> QED
  BY <1>1, <1>3, <1>5, <1>7 DEF Gives

LEMMA JoinsRaise ==
    ASSUME NEW d, NEW last, RowsTabled(d, last), AdminsTeamed(d), NEW by, NEW w, Joins(d, by, w),
           NEW e, Leaves(d, last, w, e), NEW u, NEW a, NEW c \in Given(e, u, a), c \notin Given(d, u, a)
    PROVE  u # by /\ c \in TeamLevels(d, by, a) /\ \E t \in Teams(d) : IsTeamAdmin(d, by, t)
<1>1. PICK x : /\ Tabled(x) /\ AddsOne(w, x) /\ x.table = "team_members"
               /\ IsTeamAdmin(d, by, x.team) /\ Membership(d, x.team, x.user) = {}
  BY DEF Joins
<1>2. OneMore(d, last, x, e)
  BY <1>1, OneRowWritten
<1>3. /\ DOMAIN e = DOMAIN d \cup {last + 1} /\ last + 1 \notin DOMAIN d
      /\ e[last + 1] = x /\ \A r \in DOMAIN d : e[r] = d[r]
  BY <1>2 DEF OneMore
<1>4. \A t : Belongs(e, t, u) => Belongs(d, t, u) \/ (t = x.team /\ u = x.user)
  BY <1>3 DEF Belongs
<1>5. PICK r \in DOMAIN e : Gives(e, u, a, r) /\ e[r].level = c
  BY GivenByRows
<1>6. r \in DOMAIN d /\ Gives(e, u, a, r) /\ d[r].level = c /\ e[r] = d[r]
  BY <1>1, <1>3, <1>5 DEF Gives
<1>7. ~Gives(d, u, a, r)
  BY <1>6, GivenByRows
<1>8. d[r].table = "team_projects" /\ d[r].project = a /\ d[r].team = x.team /\ u = x.user
  BY <1>4, <1>6, <1>7 DEF Gives
<1>9. PICK m \in Membership(d, x.team, by) : d[m].admin
  BY <1>1 DEF IsTeamAdmin
<1>10. Belongs(d, x.team, by) /\ x.team \in Teams(d)
  BY <1>9 DEF Membership, MembersOf, Rows, Belongs, AdminsTeamed
<1>11. c \in TeamLevels(d, by, a)
  BY <1>6, <1>8, <1>10, GivenByRows
<1> QED
  BY <1>1, <1>8, <1>9, <1>10, <1>11

\* A new team has been granted nothing: no grant names an id that was not handed out.
LEMMA NewTeamsRaiseNothing ==
    ASSUME NEW d, NEW last, RowsTabled(d, last), AllFit(d, last), NEW w, AddsATeam(w),
           NEW e, Leaves(d, last, w, e), NEW u, NEW a, NEW c \in Given(e, u, a)
    PROVE  c \in Given(d, u, a)
<1>1. PICK x : Tabled(x) /\ AddsTeam(w, x)
  BY DEF AddsATeam
<1>2. x.table = "team_members" /\ TeamMore(d, last, x, e)
  BY <1>1, TeamWritten DEF AddsTeam
<1>3. PICK y : y = [x EXCEPT !.team = last + 1]
  OBVIOUS
<1>4. /\ DOMAIN e = DOMAIN d \cup {last + 1, last + 2}
      /\ last + 1 \notin DOMAIN d /\ last + 2 \notin DOMAIN d
      /\ e[last + 1] = Team /\ e[last + 2] = y
      /\ \A r \in DOMAIN d : e[r] = d[r]
  BY <1>2, <1>3 DEF TeamMore
<1>5. y.table = "team_members" /\ y.team = last + 1 /\ Team.table = "teams"
  BY <1>1, <1>2, <1>3 DEF Tabled, Team
<1>6. \A t : Belongs(e, t, u) => Belongs(d, t, u) \/ t = last + 1
  BY <1>4, <1>5 DEF Belongs
<1>7. PICK r \in DOMAIN e : Gives(e, u, a, r) /\ e[r].level = c
  BY GivenByRows
<1>8. r \in DOMAIN d /\ e[r] = d[r] /\ d[r].level = c
  BY <1>4, <1>5, <1>7 DEF Gives
<1>9. d[r].table = "team_projects" => d[r].team # last + 1
  <2>1. last \in Nat /\ RightsFit(d[r], last)
    BY <1>8 DEF AllFit, RowsTabled
  <2> QED
    BY <2>1 DEF RightsFit
<1>10. Gives(d, u, a, r)
  BY <1>6, <1>7, <1>8, <1>9 DEF Gives
<1> QED
  BY <1>8, <1>10, GivenByRows

LEMMA AlteredRaise ==
    ASSUME NEW d, NEW w, Alters(d, w), NEW last, NEW e, Leaves(d, last, w, e),
           NEW u, NEW a, NEW c \in Given(e, u, a), c \notin Given(d, u, a)
    PROVE  w.to.table \in GrantTables /\ w.to.project = a
<1>1. PICK s, x : s = w.row /\ x = w.to
  OBVIOUS
<1>2. w.do = "update" /\ s \in DOMAIN d /\ SameKey(d[s], x) /\ Tabled(x)
  BY <1>1 DEF Alters
<1>3. e = [d EXCEPT ![s] = x]
  BY <1>1, <1>2, OthersWritten
<1>4. DOMAIN e = DOMAIN d /\ e[s] = x /\ \A r \in DOMAIN d \ {s} : e[r] = d[r]
  BY <1>2, <1>3
<1>5. /\ x.table = d[s].table
      /\ x.table \in {"team_members", "team_projects"} => x.team = d[s].team
      /\ x.table \in {"team_members", "users_projects"} => x.user = d[s].user
  BY <1>2, KeysCompare
<1>6. \A t : Belongs(e, t, u) => Belongs(d, t, u)
  <2> SUFFICES ASSUME NEW m \in DOMAIN e, e[m].table = "team_members"
               PROVE  d[m].table = "team_members" /\ d[m].team = e[m].team /\ d[m].user = e[m].user
    BY <1>4 DEF Belongs
  <2> QED
    BY <1>4, <1>5
<1>7. PICK r \in DOMAIN e : Gives(e, u, a, r) /\ e[r].level = c
  BY GivenByRows
<1>8. r # s => Gives(d, u, a, r) /\ d[r].level = c
  BY <1>4, <1>6, <1>7 DEF Gives
<1>9. r = s
  BY <1>4, <1>7, <1>8, GivenByRows
<1> QED
  BY <1>1, <1>4, <1>7, <1>9 DEF Gives, GrantTables

LEMMA LessRaisesNothing ==
    ASSUME NEW d, NEW gone, NEW e, e = Without(d, gone), NEW u, NEW a, NEW c \in Given(e, u, a)
    PROVE  c \in Given(d, u, a)
<1>1. DOMAIN e \subseteq DOMAIN d /\ \A r \in DOMAIN e : e[r] = d[r]
  BY DEF Without
<1>2. \A t : Belongs(e, t, u) => Belongs(d, t, u)
  BY <1>1 DEF Belongs
<1>3. PICK r \in DOMAIN e : Gives(e, u, a, r) /\ e[r].level = c
  BY GivenByRows
<1>4. Gives(d, u, a, r) /\ r \in DOMAIN d /\ d[r].level = c
  BY <1>1, <1>2, <1>3 DEF Gives
<1> QED
  BY <1>4, GivenByRows

LEMMA NewlyGiven ==
    ASSUME NEW d, NEW last, RowsTabled(d, last), AllFit(d, last), AdminsTeamed(d),
           NEW by, NEW w, Rightful(d, by, last, w), NEW e, Leaves(d, last, w, e),
           NEW u, NEW a, NEW c \in Given(e, u, a), c \notin Given(d, u, a)
    PROVE  RaisedRightly(d, by, u, a, c)
<1>1. ASSUME Grants(d, by, last, w) PROVE IsAdmin(d, by, a)
  BY <1>1, GrantsRaise
<1>2. ASSUME Joins(d, by, w) PROVE RaisedRightly(d, by, u, a, c)
  BY <1>2, JoinsRaise DEF RaisedRightly
<1>3. ~AddsATeam(w)
  BY NewTeamsRaiseNothing
<1>4. ASSUME Regrants(d, by, last, w) PROVE IsAdmin(d, by, a)
  <2>1. Alters(d, w) /\ IsAdmin(d, by, w.to.project)
    BY <1>4 DEF Regrants
  <2>2. w.to.project = a
    BY <2>1, AlteredRaise
  <2> QED
    BY <2>1, <2>2
<1>5. ~Promotes(d, by, w)
  <2> SUFFICES ASSUME Promotes(d, by, w) PROVE FALSE
    OBVIOUS
  <2>1. Alters(d, w) /\ w.to.table = "team_members"
    BY DEF Promotes
  <2>2. w.to.table \in GrantTables
    BY <2>1, AlteredRaise
  <2> QED
    BY <2>1, <2>2 DEF GrantTables
<1>6. ~Removes(d, w)
  <2>1. w.do = "delete" => \E gone : e = Without(d, gone)
    BY OthersWritten
  <2> QED
    BY <2>1, LessRaisesNothing DEF Removes
<1>7. ~Drops(d, w)
  <2>1. w.do = "drop" => e = DropTeam(d, w.team)
    BY OthersWritten
  <2>2. \A t : \E gone : DropTeam(d, t) = Without(d, gone)
    BY DEF DropTeam
  <2> QED
    BY <2>1, <2>2, LessRaisesNothing DEF Drops
<1> QED
  BY <1>1, <1>2, <1>3, <1>4, <1>5, <1>6, <1>7 DEF Rightful, RaisedRightly

\* A ceiling that is higher afterwards was raised by somebody with the right to.
LEMMA RaisedCeilings ==
    ASSUME NEW d, NEW last, RowsTabled(d, last), AllFit(d, last), AdminsTeamed(d),
           NEW by, NEW w, Rightful(d, by, last, w), NEW e, Leaves(d, last, w, e),
           NEW u, NEW p \in Projects, Ceiling(e, u, p) > Ceiling(d, u, p)
    PROVE  /\ u # by
           /\ \/ Ceiling(d, by, p) = ADMIN
              \/ \E a \in Hierarchy(p), t \in Teams(d) :
                   IsTeamAdmin(d, by, t) /\ Ceiling(e, u, p) \in TeamLevels(d, by, a)
<1>1. Levelled(d) /\ Levelled(e)
  <2>1. AllFit(e, last + Taken(w))
    BY RightfulFits, CommitFits
  <2> QED
    BY <2>1 DEF AllFit, RightsFit, GrantTables, Levelled
<1>2. PICK c, before : c = Ceiling(e, u, p) /\ before = Ceiling(d, u, p)
  OBVIOUS
<1>3. /\ before \in {-1, 0, 1, 2} /\ c \in {-1, 0, 1, 2} /\ c > before
      /\ c = NoPermission \/ \E a \in Hierarchy(p) : c \in Held(e, u, a)
      /\ NoPermission <= before
      /\ \A a \in Hierarchy(p) : \A l \in Held(d, u, a) : l <= before
  <2>1. before \in Levels \cup {NoPermission} /\ c \in Levels \cup {NoPermission}
    BY <1>1, <1>2, CeilingIs
  <2>2. before \in {-1, 0, 1, 2} /\ c \in {-1, 0, 1, 2}
    BY <2>1 DEF Levels, NoPermission
  <2> QED
    BY <1>1, <1>2, <2>2, CeilingIs
<1>4. c # NoPermission
  BY <1>3 DEF NoPermission
<1>5. PICK a \in Hierarchy(p) : c \in Held(e, u, a)
  BY <1>3, <1>4
<1>6. Owner[a] # u
  <2> SUFFICES ASSUME Owner[a] = u PROVE FALSE
    OBVIOUS
  <2>1. ADMIN <= before
    BY <1>3, OwnersHold
  <2> QED
    BY <1>3, <2>1 DEF ADMIN
<1>7. c \in Given(e, u, a)
  BY <1>1, <1>5, <1>6, HeldAreGiven
<1>8. c \notin Given(d, u, a)
  <2> SUFFICES ASSUME c \in Given(d, u, a) PROVE FALSE
    OBVIOUS
  <2>1. PICK h \in Held(d, u, a) : h >= c
    BY <1>1, HeldAreGiven
  <2>2. h \in Levels /\ h <= before
    BY <1>1, <1>3, HeldAreGiven
  <2> QED
    BY <1>3, <2>1, <2>2 DEF Levels
<1>9. RaisedRightly(d, by, u, a, c)
  BY <1>7, <1>8, NewlyGiven
<1>10. CASE IsAdmin(d, by, a)
  <2>1. Ceiling(d, by, p) = ADMIN
    BY <1>1, <1>10, AdminsAtTheTop
  <2>2. u # by
    BY <1>2, <1>3, <2>1 DEF ADMIN
  <2> QED
    BY <2>1, <2>2
<1>11. CASE u # by /\ c \in TeamLevels(d, by, a) /\ \E t \in Teams(d) : IsTeamAdmin(d, by, t)
  BY <1>2, <1>11
<1> QED
  BY <1>9, <1>10, <1>11 DEF RaisedRightly

\* What somebody may come to hold is raised by administrators alone, of the project or of a
\* team, and by nobody for himself; in any tree and with any number of teams.
THEOREM NobodyRaisesHimself == AccessSpec => []RaisedByAdminsOnly
<1>1. SharesInv => RaisedByAdminsOnly
  <2> SUFFICES ASSUME SharesInv, NEW by \in Users, NEW w \in Decisions(db, by, issued),
                      NEW u \in Users, NEW p \in Projects,
                      NEW after, after = Written(db, issued, w), Ceiling(after, u, p) > Ceiling(db, u, p)
               PROVE  /\ u # by
                      /\ \/ Ceiling(db, by, p) = ADMIN
                         \/ \E a \in Hierarchy(p), t \in Teams(db) :
                              IsTeamAdmin(db, by, t) /\ Ceiling(after, u, p) \in TeamLevels(db, by, a)
    BY Zenon DEF RaisedByAdminsOnly
  <2>1. RowsTabled(db, issued) /\ AllFit(db, issued) /\ AdminsTeamed(db)
    BY DEF SharesInv
  <2>2. Rightful(db, by, issued, w)
    BY <2>1, DecisionsRightful
  <2>3. Leaves(db, issued, w, after)
    BY DEF Leaves
  <2> QED
    BY <2>1, <2>2, <2>3, RaisedCeilings
<1> QED
  BY <1>1, SharesAtFirst, StepKeepsShares, PTL DEF AccessSpec

-----------------------------------------------------------------------------
(* Routes and their keys, whatever the order in which they register.       *)

\* The key of each registered route is that of its kind; and apart from the keys that
\* are declared to be shared, what is published and what is remembered say the same.
FiledInv ==
    /\ ~aborted
    /\ DOMAIN registered \subseteq CrudRoutes \cup PlainRoutes
    /\ \A r \in DOMAIN registered :
         /\ r \in CrudRoutes => registered[r] = CrudKey(r)
         /\ r \in PlainRoutes => registered[r] \in {PlainKey(r), KeyWithMethod(r)}
         /\ registered[r] \in DOMAIN published
         /\ published[registered[r]] = r \/ registered[r] \in Collisions
    /\ \A k \in DOMAIN published \ Collisions :
         published[k] \in DOMAIN registered /\ registered[published[k]] = k

LEMMA KindsApart ==
    /\ CrudRoutes \cap PlainRoutes = {}
    /\ \A r \in CrudRoutes : IsCrud(GroupOf(r)) /\ ~Excluded(GroupOf(r)) /\ r \in Registering
    /\ \A r \in PlainRoutes : ~IsCrud(GroupOf(r)) /\ ~Excluded(GroupOf(r)) /\ r \in Registering
    /\ \A r \in Registering : Excluded(GroupOf(r)) \/ r \in CrudRoutes \/ r \in PlainRoutes
BY DEF CrudRoutes, PlainRoutes, CrudAmong, PlainAmong

LEMMA FittedLists ==
    /\ \A r, s \in CrudRoutes : CrudKey(r) = CrudKey(s) => r = s \/ CrudKey(r) \in Collisions
    /\ \A r, s \in PlainRoutes : KeyWithMethod(r) = KeyWithMethod(s) => r = s
    /\ \A r, s \in PlainRoutes : PlainKey(r) # KeyWithMethod(s)
    /\ \A r \in PlainRoutes : {PlainKey(r), KeyWithMethod(r)} \cap Collisions = {}
    /\ \A r \in PlainRoutes, s \in CrudRoutes : CrudKey(s) \notin {PlainKey(r), KeyWithMethod(r)}
BY ListsAssumption DEF ListsFit, CrudRoutes, PlainRoutes

LEMMA LookupIs ==
    ASSUME FiledInv, NEW r \in DOMAIN registered
    PROVE  Lookup(r) = registered[r]
BY KindsApart DEF FiledInv, Lookup

\* A key that is free, filed and remembered keeps the two in step.
LEMMA FilingKeeps ==
    ASSUME FiledInv, NEW r \in CrudRoutes \cup PlainRoutes, r \notin DOMAIN registered, NEW key,
           key \notin Collisions => key \notin DOMAIN published,
           r \in CrudRoutes => key = CrudKey(r),
           r \in PlainRoutes => key \in {PlainKey(r), KeyWithMethod(r)},
           NEW shown, key \notin Collisions => shown = r,
           Publish(key, shown), Remember(key, r), UNCHANGED aborted
    PROVE  FiledInv'
<1>1. /\ DOMAIN registered' = DOMAIN registered \cup {r} /\ registered'[r] = key
      /\ \A s \in DOMAIN registered : registered'[s] = registered[s]
  BY DEF Remember
<1>2. /\ DOMAIN published' = DOMAIN published \cup {key} /\ published'[key] = shown
      /\ \A k \in DOMAIN published : k # key => published'[k] = published[k]
  BY DEF Publish
<1>3. ~aborted' /\ DOMAIN registered' \subseteq CrudRoutes \cup PlainRoutes
  BY <1>1 DEF FiledInv
<1>4. ASSUME NEW s \in DOMAIN registered'
      PROVE  /\ s \in CrudRoutes => registered'[s] = CrudKey(s)
             /\ s \in PlainRoutes => registered'[s] \in {PlainKey(s), KeyWithMethod(s)}
             /\ registered'[s] \in DOMAIN published'
             /\ published'[registered'[s]] = s \/ registered'[s] \in Collisions
  <2>1. CASE s = r
    BY <1>1, <1>2, <2>1
  <2>2. CASE s # r
    <3>1. s \in DOMAIN registered /\ registered'[s] = registered[s]
      BY <1>1, <1>4, <2>2
    <3>2. /\ s \in CrudRoutes => registered[s] = CrudKey(s)
          /\ s \in PlainRoutes => registered[s] \in {PlainKey(s), KeyWithMethod(s)}
          /\ registered[s] \in DOMAIN published
          /\ published[registered[s]] = s \/ registered[s] \in Collisions
      BY <3>1 DEF FiledInv
    <3>3. registered[s] \in Collisions \/ registered[s] # key
      BY <3>2
    <3> QED
      BY <1>2, <3>1, <3>2, <3>3
  <2> QED
    BY <2>1, <2>2
<1>5. ASSUME NEW k \in DOMAIN published' \ Collisions
      PROVE  published'[k] \in DOMAIN registered' /\ registered'[published'[k]] = k
  <2>1. CASE k = key
    BY <1>1, <1>2, <1>5, <2>1
  <2>2. CASE k # key
    <3>1. k \in DOMAIN published \ Collisions /\ published'[k] = published[k]
      BY <1>2, <1>5, <2>2
    <3>2. published[k] \in DOMAIN registered /\ registered[published[k]] = k
      BY <3>1 DEF FiledInv
    <3> QED
      BY <1>1, <3>1, <3>2
  <2> QED
    BY <2>1, <2>2
<1> QED
  BY <1>3, <1>4, <1>5 DEF FiledInv

\* Who holds a key that is published and not declared to be shared.
LEMMA Holder ==
    ASSUME FiledInv, NEW key \in DOMAIN published, key \notin Collisions
    PROVE  \E s \in DOMAIN registered :
             \/ s \in CrudRoutes /\ key = CrudKey(s)
             \/ s \in PlainRoutes /\ key \in {PlainKey(s), KeyWithMethod(s)}
BY DEF FiledInv

LEMMA CrudKeyIsFree ==
    ASSUME FiledInv, NEW r \in CrudRoutes, r \notin DOMAIN registered, CrudKey(r) \notin Collisions
    PROVE  CrudKey(r) \notin DOMAIN published
<1> SUFFICES ASSUME CrudKey(r) \in DOMAIN published PROVE FALSE
  OBVIOUS
<1>1. PICK s \in DOMAIN registered :
        \/ s \in CrudRoutes /\ CrudKey(r) = CrudKey(s)
        \/ s \in PlainRoutes /\ CrudKey(r) \in {PlainKey(s), KeyWithMethod(s)}
  BY Holder
<1> QED
  BY <1>1, FittedLists

LEMMA FreeKeyIsFree ==
    ASSUME FiledInv, NEW r \in PlainRoutes, r \notin DOMAIN registered
    PROVE  FreeKey(r) \in {PlainKey(r), KeyWithMethod(r)} /\ FreeKey(r) \notin DOMAIN published
<1>1. CASE PlainKey(r) \notin DOMAIN published
  BY <1>1 DEF FreeKey
<1>2. CASE PlainKey(r) \in DOMAIN published
  <2>1. FreeKey(r) = KeyWithMethod(r)
    BY <1>2 DEF FreeKey
  <2> SUFFICES ASSUME KeyWithMethod(r) \in DOMAIN published PROVE FALSE
    BY <2>1
  <2>2. KeyWithMethod(r) \notin Collisions
    BY FittedLists
  <2>3. PICK s \in DOMAIN registered :
          \/ s \in CrudRoutes /\ KeyWithMethod(r) = CrudKey(s)
          \/ s \in PlainRoutes /\ KeyWithMethod(r) \in {PlainKey(s), KeyWithMethod(s)}
    BY <2>2, Holder
  <2> QED
    BY <2>3, FittedLists
<1> QED
  BY <1>1, <1>2

LEMMA RegisterKeepsFiled ==
    ASSUME FiledInv, NEW r \in Registering, Register(r)
    PROVE  FiledInv'
<1>1. CASE Known(r) \/ Excluded(GroupOf(r))
  BY <1>1 DEF Register, FiledInv
<1>2. CASE ~Known(r) /\ r \in CrudRoutes
  <2>1. RegisterCrud(r) /\ r \notin DOMAIN registered
    BY <1>2, KindsApart DEF Register, Known
  <2> DEFINE key == CrudKey(r)
             free == key \notin DOMAIN published \/ published[key] = r
             shown == IF free THEN r ELSE DeclaredRoute(key)
  <2>2. key \notin Collisions => key \notin DOMAIN published
    BY <1>2, <2>1, CrudKeyIsFree
  <2>3. Publish(key, shown) /\ Remember(key, r) /\ UNCHANGED aborted
    BY <2>1, <2>2 DEF RegisterCrud
  <2>4. key \notin Collisions => shown = r
    BY <2>2
  <2> HIDE DEF shown
  <2> QED
    BY <1>2, <2>1, <2>2, <2>3, <2>4, KindsApart, FilingKeeps
<1>3. CASE ~Known(r) /\ r \in PlainRoutes
  <2>1. RegisterOther(r) /\ r \notin DOMAIN registered
    BY <1>3, KindsApart DEF Register, Known
  <2>2. FreeKey(r) \in {PlainKey(r), KeyWithMethod(r)} /\ FreeKey(r) \notin DOMAIN published
    BY <1>3, <2>1, FreeKeyIsFree
  <2>3. Publish(FreeKey(r), r) /\ Remember(FreeKey(r), r) /\ UNCHANGED aborted
    BY <2>1 DEF RegisterOther
  <2> QED
    BY <1>3, <2>1, <2>2, <2>3, KindsApart, FilingKeeps
<1> QED
  BY <1>1, <1>2, <1>3, KindsApart

LEMMA FiledAtFirst == RoutesInit => FiledInv
BY DEF RoutesInit, FiledInv

LEMMA StepKeepsFiled == FiledInv /\ [RoutesNext]_routeVars => FiledInv'
<1> SUFFICES ASSUME FiledInv, [RoutesNext]_routeVars PROVE FiledInv'
  OBVIOUS
<1>1. CASE \E r \in Registering : Register(r)
  BY <1>1, RegisterKeepsFiled
<1>2. CASE UNCHANGED <<published, registered, aborted>>
  BY <1>2 DEF FiledInv
<1> QED
  BY <1>1, <1>2 DEF RoutesNext, routeVars, CreateToken, EndToken, Admit, ServeCall

LEMMA FiledTellsApart ==
    ASSUME FiledInv
    PROVE  RoutesToldApart
<1>1. \A r \in DOMAIN registered : Lookup(r) = registered[r]
  BY LookupIs
<1> QED
  BY <1>1 DEF FiledInv, RoutesToldApart

\* Keys of API tokens (route_registry.register, lookup): in whatever order and however
\* often the routes of any lists without an undeclared collision register, the server
\* starts and every route is published under the one key that requests for it need.
THEOREM KeysTellRoutesApart == RoutesSpec => []RoutesToldApart
<1>1. FiledInv => RoutesToldApart
  BY FiledTellsApart
<1> QED
  BY <1>1, FiledAtFirst, StepKeepsFiled, PTL DEF RoutesSpec

-----------------------------------------------------------------------------
(* What a token's request got through with.                                *)

AdmittedInv == (calling # NoCall => Serving) /\ AdmittedAsGranted

LEMMA ServingIsLasting ==
    ASSUME Serving, [RoutesNext]_routeVars
    PROVE  Serving' /\ UNCHANGED <<published, registered, aborted>>
<1>1. ASSUME NEW r \in Registering, Register(r)
      PROVE  UNCHANGED <<published, registered, aborted>>
  BY <1>1 DEF Serving, Register, Known
<1>2. UNCHANGED <<published, registered, aborted>>
  BY <1>1 DEF RoutesNext, routeVars, CreateToken, EndToken, Admit, ServeCall
<1> QED
  BY <1>2 DEF Serving

LEMMA AdmitGrants ==
    ASSUME FiledInv, NEW i, NEW r, Admit(i, r)
    PROVE  AdmittedInv'
<1>1. /\ Serving
      /\ Unchecked(r) \/ (Lookup(r) # NoKey /\ Lookup(r) \in apiTokens[i])
      /\ calling' = [route |-> r, grants |-> apiTokens[i]]
      /\ UNCHANGED <<published, registered, aborted>>
  BY DEF Admit, Authorises
<1>2. Serving'
  BY <1>1 DEF Serving
<1>3. ASSUME r \in Registering, ~Unchecked(r)
      PROVE  \E key \in apiTokens[i] \cap DOMAIN published :
               published[key] = r \/ (key \in Collisions /\ CrudKey(r) = key)
  <2>1. ~Excluded(GroupOf(r))
    BY <1>1, <1>3 DEF Lookup
  <2>2. r \in DOMAIN registered
    BY <1>1, <1>3, <2>1 DEF Serving
  <2>3. Lookup(r) = registered[r]
    BY <2>2, LookupIs
  <2>4. registered[r] \in DOMAIN published /\ (published[registered[r]] = r \/ registered[r] \in Collisions)
    BY <2>2 DEF FiledInv
  <2>5. registered[r] \in Collisions => CrudKey(r) = registered[r]
    BY <2>2, FittedLists DEF FiledInv
  <2> QED
    BY <1>1, <1>3, <2>3, <2>4, <2>5
<1>4. AdmittedAsGranted'
  BY <1>1, <1>3 DEF AdmittedAsGranted, Unchecked
<1> QED
  BY <1>2, <1>4 DEF AdmittedInv

LEMMA StepKeepsAdmitted == FiledInv /\ AdmittedInv /\ [RoutesNext]_routeVars => AdmittedInv'
<1> SUFFICES ASSUME FiledInv, AdmittedInv, [RoutesNext]_routeVars PROVE AdmittedInv'
  OBVIOUS
<1>1. CASE \E i \in TokenIds : \E r \in Mounted : Admit(i, r)
  BY <1>1, AdmitGrants
<1>2. CASE ServeCall
  BY <1>2 DEF ServeCall, AdmittedInv, AdmittedAsGranted
<1>3. CASE UNCHANGED calling
  <2>1. CASE calling = NoCall
    BY <1>3, <2>1 DEF AdmittedInv, AdmittedAsGranted
  <2>2. CASE calling # NoCall
    <3>1. Serving' /\ UNCHANGED <<published, registered, aborted>>
      BY <2>2, ServingIsLasting DEF AdmittedInv
    <3> QED
      BY <1>3, <3>1 DEF AdmittedInv, AdmittedAsGranted
  <2> QED
    BY <2>1, <2>2
<1> QED
  BY <1>1, <1>2, <1>3 DEF RoutesNext, routeVars, Register, CreateToken, EndToken

\* Requests made with an API token (auth/deps._resolve_api_token): one that got through
\* is for a route that is published under a key the token was granted, or that is
\* declared to share one, whatever becomes of the token in the meantime.
THEOREM TokensReachWhatTheyGrant == RoutesSpec => []AdmittedAsGranted
<1>1. RoutesInit => AdmittedInv
  BY DEF RoutesInit, AdmittedInv, AdmittedAsGranted
<1>2. AdmittedInv => AdmittedAsGranted
  BY DEF AdmittedInv
<1> QED
  BY <1>1, <1>2, FiledAtFirst, StepKeepsFiled, StepKeepsAdmitted, PTL DEF RoutesSpec
=============================================================================
