------------------------- MODULE PolicyBrowserProofs -------------------------
(***************************************************************************)
(* What the listing of the server's policies says of the server, and which *)
(* policy is highlighted in it, for any policies and filters, any other    *)
(* clients and any number of late requests.                                *)
(***************************************************************************)
EXTENDS PolicyBrowser, SelectionProofs

-----------------------------------------------------------------------------
(* The inductive invariant *)

\* The policies that are listed or on the server, but not both; and the one
\* that an answer still under way is about.
Unlike(list, there) == (ToSet(list) \ there) \cup (there \ ToSet(list))
Pending == IF op # None /\ Done(op) THEN {op.name} ELSE {}

\* A request that concerns one policy names one.
Named ==
  /\ op # None /\ op.kind \in {"open", "create", "update", "delete"} => op.name \in Names
  /\ \A r \in late : Changes(r) /\ r.name \in Names
  /\ IsFiniteSet(late)

\* While a deletion is in question or under way, its policy is highlighted.
DeletesCurrent ==
  /\ target # None => op = None /\ target = Current
  /\ op # None /\ op.kind = "delete" => op.name = Current

\* What the answer to a request will tell: the listing differs from the server
\* only in what has changed since, and so does the one policy that was created
\* or deleted.
Tells(r) ==
  /\ ~Seen(r) => r.since = {}
  /\ r.since \subseteq untold
  /\ r.answer = "done" =>
       /\ r.kind \in {"connect", "list"} =>
            Unlike(r.list, server) \subseteq r.since
       /\ r.kind = "create" => r.name \in server \cup r.since
       /\ r.kind = "delete" => r.name \notin server \/ r.name \in r.since

IInv ==
  /\ TypeOK
  /\ Named
  /\ DeletesCurrent
  /\ op # None => Tells(op)
  /\ ListingIsWhatWasTold

-----------------------------------------------------------------------------
(* The listing *)

\* The places of a list, and what is there.
LEMMA PlacesOf ==
  ASSUME NEW S, NEW list \in Seq(S)
  PROVE  /\ Len(list) \in Nat /\ DOMAIN list = 1..Len(list)
         /\ \A i \in 1..Len(list) : list[i] \in S /\ list[i] \in ToSet(list)
         /\ \A e \in ToSet(list) : \E i \in 1..Len(list) : list[i] = e
         /\ ToSet(list) \subseteq S
         /\ ToSet(list) = Range(list)
BY LenProperties, ElementOfSeq DEF ToSet, Range

Listings == {Sorted(s) : s \in SUBSET Names}

\* A listing is of the policies it was made of, in their order.
LEMMA ListingOf ==
  ASSUME NEW s \in SUBSET Names
  PROVE  Sorted(s) \in Listings /\ Sorted(s) \in Seq(Names) /\ ToSet(Sorted(s)) = s
<1>1. Order \in Seq(Names) /\ Range(Order) = Names
  BY PolicyBrowserAssumption DEF Names, ToSet, Range
<1>2. Only(Order, s) \in Seq(Names) /\ Range(Only(Order, s)) = Names \cap s
  BY <1>1, OnlyType, RangeOfOnly
<1>3. Sorted(s) \in Seq(Names) /\ Range(Sorted(s)) = s
  BY <1>2 DEF Sorted
<1> QED BY <1>3, PlacesOf DEF Listings

\* A listing is determined by its policies.
LEMMA ListingIs ==
  ASSUME NEW list \in Listings
  PROVE  /\ list \in Seq(Names) /\ ToSet(list) \in SUBSET Names
         /\ list = Sorted(ToSet(list))
<1>1. PICK s \in SUBSET Names : list = Sorted(s)
  BY DEF Listings
<1> QED BY <1>1, ListingOf

\* The empty listing is one.
LEMMA EmptyListing == <<>> \in Listings
<1>1. Sorted({}) \in Listings /\ Sorted({}) \in Seq(Names) /\ ToSet(Sorted({})) = {}
  BY ListingOf
<1>2. Sorted({}) = <<>>
  BY <1>1, PlacesOf, RangeOfEmpty
<1> QED BY <1>1, <1>2

\* What a filter leaves of a listing.
LEMMA VisibleOf ==
  ASSUME NEW list \in Listings, NEW text
  PROVE  /\ Through(text, list) \in Seq(Names)
         /\ ToSet(Through(text, list)) = ToSet(list) \cap Matches[text]
<1>1. list \in Seq(Names)
  BY ListingIs
<1>2. Through(text, list) \in Seq(Names) /\ Range(Through(text, list)) = Range(list) \cap Matches[text]
  BY <1>1, OnlyType, RangeOfOnly DEF Through
<1> QED BY <1>1, <1>2, PlacesOf

\* A policy added to a listing, and one removed from it.
LEMMA Changed ==
  ASSUME names \in Listings, NEW name \in Names
  PROVE  /\ Added(name) \in Listings /\ ToSet(Added(name)) = ToSet(names) \cup {name}
         /\ Removed(name) \in Listings /\ ToSet(Removed(name)) = ToSet(names) \ {name}
         /\ \A text : Len(Through(text, names)) <= Len(Through(text, Added(name)))
<1> DEFINE s == ToSet(names)
<1>1. names \in Seq(Names) /\ s \in SUBSET Names /\ names = Sorted(s)
  BY ListingIs
<1>2. Order \in Seq(Names)
  BY PolicyBrowserAssumption
<1> HIDE DEF s
<1>3. Added(name) \in Listings /\ ToSet(Added(name)) = s \cup {name}
  BY <1>1, ListingOf DEF Added, s
<1>4. Removed(name) = Sorted(s \ {name})
  <2>1. Removed(name) = Only(Only(Order, s), Names \ {name})
    BY <1>1 DEF Removed, Sorted
  <2>2. Removed(name) = Only(Order, s \cap (Names \ {name}))
    BY <1>2, <2>1, OnlyOfOnly
  <2>3. s \cap (Names \ {name}) = s \ {name}
    BY <1>1
  <2> QED BY <2>2, <2>3 DEF Sorted
<1>5. Removed(name) \in Listings /\ ToSet(Removed(name)) = s \ {name}
  BY <1>1, <1>4, ListingOf
<1>6. ASSUME NEW text PROVE Len(Through(text, names)) <= Len(Through(text, Added(name)))
  <2>1. /\ Through(text, names) = Only(Order, s \cap Matches[text])
        /\ Through(text, Added(name)) = Only(Order, (s \cup {name}) \cap Matches[text])
    BY <1>1, <1>2, OnlyOfOnly DEF Through, Added, Sorted, s
  <2> QED BY <1>2, <2>1, WiderIsLonger
<1> QED BY <1>3, <1>5, <1>6 DEF s

-----------------------------------------------------------------------------
(* The highlight *)

\* TypeOK, with the listings by their name.
LEMMA Types ==
  TypeOK => /\ server \subseteq Names /\ names \in Listings
            /\ Len(Visible) \in Nat /\ Visible \in Seq(Names)
            /\ selected \in Nat /\ (selected < Len(Visible) \/ selected = 0)
            /\ untold \subseteq Names /\ IsFiniteSet(late) => Cardinality(late) \in Nat
<1> SUFFICES ASSUME TypeOK PROVE
      /\ Len(Visible) \in Nat /\ Visible \in Seq(Names)
      /\ selected \in Nat /\ (selected < Len(Visible) \/ selected = 0)
      /\ IsFiniteSet(late) => Cardinality(late) \in Nat
  BY DEF TypeOK, Listings
<1>1. Visible \in Seq(Names) /\ Len(Visible) \in Nat
  BY VisibleOf, LenProperties DEF TypeOK, Listings, Visible
<1>2. Max({0, Len(Visible) - 1}) = IF 0 >= Len(Visible) - 1 THEN 0 ELSE Len(Visible) - 1
  BY <1>1, MaxOfTwo
<1>3. selected \in 0 .. Max({0, Len(Visible) - 1})
  BY DEF TypeOK
<1> QED BY <1>1, <1>2, <1>3, FS_CardinalityType

\* A highlight that has to fit a shorter listing does.
LEMMA ClampFits ==
  ASSUME TypeOK, NEW list \in Seq(Names)
  PROVE  Clamp(list) \in 0 .. Max({0, Len(list) - 1})
<1>1. Len(list) \in Nat /\ selected \in Nat
  BY Types, LenProperties
<1> DEFINE m == Max({0, Len(list) - 1})
<1>2. m \in Nat
  BY <1>1, MaxOfTwo
<1> HIDE DEF m
<1>3. Min({selected, m}) \in 0 .. m
  BY <1>1, <1>2, MinOfTwo
<1> QED BY <1>3 DEF Clamp, m

\* What is highlighted is visible; or nothing is.
LEMMA CurrentIsVisible ==
  ASSUME TypeOK
  PROVE  /\ Current = None \/ Current \in ToSet(Visible)
         /\ Current # None => Current \in Names /\ Current = Visible[selected + 1]
<1>1. /\ Len(Visible) \in Nat /\ Visible \in Seq(Names) /\ selected \in Nat
  BY Types
<1>2. CASE selected < Len(Visible)
  <2>1. selected + 1 \in 1 .. Len(Visible)
    BY <1>1, <1>2
  <2>2. Visible[selected + 1] \in Names /\ Visible[selected + 1] \in ToSet(Visible)
    BY <1>1, <2>1, PlacesOf
  <2> QED BY <1>2, <2>2 DEF Current
<1>3. CASE ~(selected < Len(Visible))
  BY <1>3 DEF Current
<1> QED BY <1>2, <1>3

\* The highlight follows its policy to the row it has in another listing.
LEMMA FollowFinds ==
  ASSUME TypeOK, NEW fresh \in Listings
  PROVE  LET list == Through(filter, fresh)
             row == Follow(fresh)
         IN  /\ row \in 0 .. Max({0, Len(list) - 1})
             /\ Current \in ToSet(list) => row < Len(list) /\ list[row + 1] = Current
<1> DEFINE list == Through(filter, fresh)
           row == Follow(fresh)
<1>1. list \in Seq(Names) /\ Len(list) \in Nat
  BY VisibleOf, LenProperties
<1>2. CASE Current \in ToSet(list)
  <2>1. row = Index(list, Current)
    BY <1>2 DEF Follow
  <2>2. PICK i \in 1 .. Len(list) : list[i] = Current
    BY <1>1, <1>2, PlacesOf
  <2> HIDE DEF list, row
  <2>3. i - 1 \in 0 .. Len(list) - 1 /\ list[(i - 1) + 1] = Current
    BY <1>1, <2>2
  <2>4. row \in 0 .. Len(list) - 1 /\ list[row + 1] = Current
    BY <2>1, <2>3 DEF Index
  <2>5. row \in Nat /\ row < Len(list)
    BY <1>1, <2>4
  <2> QED BY <1>1, <2>4, <2>5, RowFits DEF list, row
<1>3. CASE Current \notin ToSet(list)
  <2>1. row = 0
    BY <1>3 DEF Follow
  <2> QED BY <1>1, <1>3, <2>1, RowFits
<1> QED BY <1>2, <1>3

-----------------------------------------------------------------------------
(* Every step keeps the invariant *)

\* ListingIsWhatWasTold, by its parts.
LEMMA ToldOfListing ==
  ListingIsWhatWasTold <=> (connected => Unlike(names, server) \subseteq untold \cup Pending)
BY Zenon DEF ListingIsWhatWasTold, Unlike, Pending

\* Before anything is asked of a server nothing is listed.
LEMMA InitInv == Init => IInv
<1> SUFFICES ASSUME Init PROVE IInv
  OBVIOUS
<1>1. <<>> \in Listings /\ None \notin Names \cup {"done"} /\ Blank \in Filters /\ MaxLate \in Nat
  BY EmptyListing, PolicyBrowserAssumption
<1>2. Visible \in Seq(Names) /\ Len(Visible) \in Nat
  BY <1>1, VisibleOf, LenProperties DEF Init, Visible
<1>3. selected \in 0 .. Max({0, Len(Visible) - 1})
  BY <1>2, RowFits DEF Init
<1>4. IsFiniteSet({}) /\ Cardinality({}) = 0
  BY FS_EmptySet
<1>5. TypeOK
  <2>1. late \subseteq Requests /\ Cardinality(late) <= MaxLate
    BY <1>1, <1>4 DEF Init
  <2>2. names \in {Sorted(s) : s \in SUBSET Names}
    BY <1>1 DEF Init, Listings
  <2>3. session \in [name : Names \cup {None}, exists : BOOLEAN, dirty : BOOLEAN]
    BY DEF Init
  <2> QED BY <1>1, <1>3, <2>1, <2>2, <2>3 DEF Init, TypeOK
<1> QED BY <1>4, <1>5 DEF Init, IInv, Named, DeletesCurrent, ListingIsWhatWasTold

\* What is shown stays as it is when nothing of the browser changes.
LEMMA ShownIsKept ==
  UNCHANGED listing /\ UNCHANGED filters => Visible' = Visible /\ Current' = Current
BY DEF listing, filters, Visible, Through, Current

\* The same, when the whole model of the program is kept.
LEMMA ModelIsKept ==
  UNCHANGED model =>
    /\ UNCHANGED <<connected, names, selected, filter, filtering, screen, target, session>>
    /\ Visible' = Visible /\ Current' = Current
BY ShownIsKept DEF model, listing, filters

\* A request is one until its answer, and so is what its answer will say.
LEMMA RequestType ==
  ASSUME NEW kind \in Kinds, NEW name \in Names \cup {None}
  PROVE  LET r == Request(kind, name)
         IN  /\ r \in Requests /\ r.kind = kind /\ r.name = name /\ r.answer = None
             /\ r.since = {} /\ ~Seen(r)
BY EmptyListing DEF Request, Requests, Listings, Seen

\* TypeOK, of what the program holds and of what is under way.
ModelTypes ==
  /\ connected \in BOOLEAN
  /\ names \in Listings
  /\ selected \in 0 .. Max({0, Len(Visible) - 1})
  /\ filter \in Filters /\ filtering \in BOOLEAN
  /\ screen \in {"editor", "connect", "browse", "name"}
  /\ target \in Names \cup {None}
  /\ session \in [name : Names \cup {None}, exists : BOOLEAN, dirty : BOOLEAN]

\* TypeOK says no more and no less.
LEMMA TypesByParts ==
  TypeOK <=> /\ ModelTypes
             /\ server \subseteq Names /\ untold \subseteq Names
             /\ op # None => op \in Requests
             /\ late \subseteq Requests /\ Cardinality(late) <= MaxLate
BY DEF TypeOK, ModelTypes, Listings

\* The model's types hold as long as nothing of it changes.
LEMMA ModelTypesKept == ModelTypes /\ UNCHANGED model => ModelTypes'
<1> SUFFICES ASSUME ModelTypes, UNCHANGED model PROVE ModelTypes'
  OBVIOUS
<1>1. /\ UNCHANGED <<connected, names, selected, filter, filtering, screen, target, session>>
      /\ Visible' = Visible
  BY ModelIsKept
<1> QED BY <1>1 DEF ModelTypes

\* The server does what it is asked, or refuses to.
LEMMA ServeInv == IInv /\ Serve => IInv'
<1> SUFFICES ASSUME IInv, Serve PROVE IInv'
  OBVIOUS
<1>1. /\ op # None /\ op.answer = None /\ op \in Requests /\ op.since = {}
      /\ UNCHANGED model /\ UNCHANGED late /\ UNCHANGED untold
  BY DEF Serve, IInv, TypeOK, Tells, Seen
<1>2. TypeOK /\ server \subseteq Names
  BY DEF IInv, TypeOK
<1> DEFINE answered == Possible(op) /\ server' = After(op)
                       /\ op' = [op EXCEPT !.answer = "done",
                              !.list = IF op.kind \in {"connect", "list"} THEN Sorted(server) ELSE <<>>]
           refused == op' = [op EXCEPT !.answer = "refused"] /\ UNCHANGED server
<1>3. answered \/ refused
  BY DEF Serve
<1>4. <<>> \in Listings /\ Sorted(server) \in Listings /\ ToSet(Sorted(server)) = server
  BY <1>2, EmptyListing, ListingOf
<1>5. /\ op' \in Requests /\ op' # None
      /\ op'.kind = op.kind /\ op'.name = op.name /\ op'.since = {}
      /\ answered => op'.answer = "done"
                     /\ (op.kind \in {"connect", "list"} => op'.list = Sorted(server))
      /\ refused => op'.answer = "refused"
  <2>1. op' \in Requests
    BY <1>1, <1>3, <1>4 DEF Requests, Listings
  <2>2. /\ op'.kind = op.kind /\ op'.name = op.name /\ op'.since = {}
        /\ answered => op'.answer = "done"
                       /\ (op.kind \in {"connect", "list"} => op'.list = Sorted(server))
        /\ refused => op'.answer = "refused"
    BY <1>1, <1>3 DEF Requests
  <2> QED BY <2>1, <2>2, NoneIsNothing
<1>6. /\ answered /\ op.kind = "create" => op.name \in Names /\ server' = server \cup {op.name}
      /\ answered /\ op.kind = "delete" => op.name \in Names /\ server' = server \ {op.name}
      /\ answered /\ ~Changes(op) => server' = server
  BY <1>1 DEF After, Changes, IInv, Named
<1>7. "refused" # "done" /\ None # "done"
  BY PolicyBrowserAssumption
<1> HIDE DEF answered, refused
<1>8. TypeOK'
  <2>1. server' \subseteq Names
    BY <1>2, <1>3, <1>6 DEF refused, Changes
  <2>2. ModelTypes'
    BY <1>1, <1>2, TypesByParts, ModelTypesKept
  <2> QED BY <1>1, <1>2, <1>5, <2>1, <2>2, TypesByParts DEF TypeOK, ModelTypes, Listings
<1>9. Named'
  BY <1>1, <1>5 DEF IInv, Named
<1>10. DeletesCurrent'
  BY <1>1, <1>5, ModelIsKept DEF IInv, DeletesCurrent
<1>11. Tells(op)'
  <2>1. refused => op'.answer # "done"
    BY <1>5
  <2>2. op'.answer = "done" => answered
    BY <1>3, <2>1
  <2>3. op'.since = {} /\ op'.since \subseteq untold'
    BY <1>5
  <2>4. op'.answer = "done" /\ op'.kind \in {"connect", "list"}
          => Unlike(op'.list, server') \subseteq op'.since
    BY <1>4, <1>5, <1>6, <2>2 DEF Unlike, Changes
  <2>5. op'.answer = "done" /\ op'.kind = "create" => op'.name \in server' \cup op'.since
    BY <1>5, <1>6, <2>2
  <2>6. op'.answer = "done" /\ op'.kind = "delete" => op'.name \notin server'
    BY <1>5, <1>6, <2>2
  <2> QED BY <2>3, <2>4, <2>5, <2>6 DEF Tells
<1>12. ListingIsWhatWasTold'
  <2>1. Pending = {}
    BY <1>1, <1>7 DEF Pending, Done
  <2>2. connected' = connected /\ names' = names /\ untold' = untold
    BY <1>1, ModelIsKept
  <2>3. connected => Unlike(names, server) \subseteq untold
    BY <2>1, ToldOfListing DEF IInv
  <2>4. refused => server' = server
    BY DEF refused
  <2>5. answered /\ Changes(op) => Pending' = {op.name}
    BY <1>5 DEF Pending, Done, Changes
  <2>6. connected' => Unlike(names', server') \subseteq untold' \cup Pending'
    <3> HIDE DEF Pending
    <3>1. CASE refused
      BY <2>2, <2>3, <2>4, <3>1
    <3>2. CASE answered /\ ~Changes(op)
      BY <1>6, <2>2, <2>3, <3>2
    <3>3. CASE answered /\ Changes(op)
      BY <1>6, <2>2, <2>3, <2>5, <3>3 DEF Changes, Unlike
    <3> QED BY <1>3, <3>1, <3>2, <3>3
  <2> QED BY <2>6, Zenon DEF Unlike, Pending, ListingIsWhatWasTold
<1> QED BY <1>5, <1>8, <1>9, <1>10, <1>11, <1>12 DEF IInv

\* A change the browser is not told of, whoever makes it.
LEMMA UntoldInv ==
  ASSUME IInv, NEW name \in Names, Untold(name), UNCHANGED model,
         server' \in {server \cup {name}, server \ {name}},
         late' \subseteq late
  PROVE  IInv'
<1>1. IsFiniteSet(late) /\ IsFiniteSet(late') /\ Cardinality(late') <= MaxLate
  <2>1. IsFiniteSet(late) /\ Cardinality(late) <= MaxLate /\ MaxLate \in Nat
    BY PolicyBrowserAssumption DEF IInv, Named, TypeOK
  <2>2. IsFiniteSet(late') /\ Cardinality(late') <= Cardinality(late)
    BY <2>1, FS_Subset
  <2> QED BY <2>1, <2>2, FS_CardinalityType
<1>2. ModelTypes'
  BY TypesByParts, ModelTypesKept DEF IInv
<1>3. TypeOK /\ server \subseteq Names
  BY DEF IInv, TypeOK
<1>4. op # None => /\ op \in Requests /\ op' \in Requests
                   /\ op'.kind = op.kind /\ op'.name = op.name /\ op'.answer = op.answer
                   /\ op'.list = op.list /\ Tells(op)
                   /\ op'.since = IF Seen(op) THEN op.since \cup {name} ELSE op.since
  BY <1>3 DEF Untold, IInv, TypeOK, Requests
<1>5. op = None <=> op' = None
  BY <1>4, NoneIsNothing DEF Untold
<1>6. untold' = untold \cup {name}
  BY DEF Untold
<1>7. TypeOK'
  <2>1. untold' \subseteq Names /\ server' \in SUBSET Names /\ (op' # None => op' \in Requests)
    BY <1>3, <1>4, <1>5, <1>6 DEF TypeOK
  <2> QED BY <1>1, <1>2, <1>3, <2>1, TypesByParts DEF TypeOK, ModelTypes, Listings
<1>8. Named'
  BY <1>1, <1>4, <1>5 DEF IInv, Named
<1>9. DeletesCurrent'
  BY <1>4, <1>5, ModelIsKept DEF IInv, DeletesCurrent
<1>10. ASSUME op' # None PROVE Tells(op)'
  <2>1. op # None
    BY <1>5, <1>10
  <2>2. Seen(op)' <=> Seen(op)
    BY <1>4, <2>1 DEF Seen
  <2>3. op'.answer = "done" => Seen(op)
    BY <1>4, <2>1, PolicyBrowserAssumption DEF Seen
  <2>4. server \subseteq server' \cup {name} /\ server' \subseteq server \cup {name}
    OBVIOUS
  <2>5. op'.since \subseteq untold'
    BY <1>4, <1>6, <2>1 DEF Tells
  <2>6. ~Seen(op)' => op'.since = {}
    BY <1>4, <2>1, <2>2 DEF Tells
  <2>7. ASSUME op'.answer = "done", op'.kind \in {"connect", "list"}
        PROVE  Unlike(op'.list, server') \subseteq op'.since
    <3>1. Unlike(op.list, server) \subseteq op.since
      BY <1>4, <2>1, <2>7 DEF Tells
    <3> QED BY <1>4, <2>1, <2>3, <2>4, <2>7, <3>1 DEF Unlike
  <2>8. op'.answer = "done" /\ op'.kind = "create" => op'.name \in server' \cup op'.since
    BY <1>4, <2>1, <2>3, <2>4 DEF Tells
  <2>9. op'.answer = "done" /\ op'.kind = "delete" => op'.name \notin server' \/ op'.name \in op'.since
    BY <1>4, <2>1, <2>3, <2>4 DEF Tells
  <2> QED BY <2>5, <2>6, <2>7, <2>8, <2>9 DEF Tells
<1>11. ListingIsWhatWasTold'
  <2>1. Pending' = Pending
    BY <1>4, <1>5 DEF Pending, Done, Changes
  <2>2. connected' = connected /\ names' = names
    BY ModelIsKept
  <2>3. connected => Unlike(names, server) \subseteq untold \cup Pending
    BY ToldOfListing DEF IInv
  <2> HIDE DEF Pending
  <2>4. connected' => Unlike(names', server') \subseteq untold' \cup Pending'
    BY <1>6, <2>1, <2>2, <2>3 DEF Unlike
  <2> QED BY <2>4 DEF Unlike, Pending, ListingIsWhatWasTold
<1> QED BY <1>7, <1>8, <1>9, <1>10, <1>11 DEF IInv

\* Another client, or a request that was given up, changes a policy.
LEMMA OthersInv == IInv /\ (OtherClient \/ ServeLate) => IInv'
<1> SUFFICES ASSUME IInv, OtherClient \/ ServeLate PROVE IInv'
  OBVIOUS
<1>1. CASE OtherClient
  BY <1>1, UntoldInv DEF OtherClient
<1>2. CASE ServeLate
  <2>1. PICK r \in late :
          /\ late' = late \ {r}
          /\ \/ Possible(r) /\ server' = After(r) /\ Untold(r.name)
             \/ UNCHANGED <<server, op, untold>>
    BY <1>2 DEF ServeLate
  <2>2. UNCHANGED model
    BY <1>2 DEF ServeLate
  <2>3. Changes(r) /\ r.name \in Names
    BY DEF IInv, Named
  <2>4. CASE Possible(r) /\ server' = After(r) /\ Untold(r.name)
    <3>1. server' \in {server \cup {r.name}, server \ {r.name}}
      BY <2>3, <2>4 DEF After, Changes
    <3> QED BY <2>1, <2>2, <2>3, <2>4, <3>1, UntoldInv
  <2>5. CASE UNCHANGED <<server, op, untold>>
    <3>1. IsFiniteSet(late') /\ Cardinality(late') <= MaxLate /\ late' \subseteq late
      <4>1. IsFiniteSet(late) /\ Cardinality(late) <= MaxLate /\ MaxLate \in Nat
        BY PolicyBrowserAssumption DEF IInv, Named, TypeOK
      <4>2. IsFiniteSet(late') /\ Cardinality(late') <= Cardinality(late)
        BY <2>1, <4>1, FS_Subset
      <4> QED BY <2>1, <4>1, <4>2, FS_CardinalityType
    <3>2. ModelTypes'
      BY <2>2, TypesByParts, ModelTypesKept DEF IInv
    <3>3. TypeOK'
      BY <2>5, <3>1, <3>2, TypesByParts DEF TypeOK, ModelTypes, Listings, IInv
    <3>4. Named' /\ DeletesCurrent'
      BY <2>2, <2>5, <3>1, ModelIsKept DEF IInv, Named, DeletesCurrent
    <3>5. op' # None => Tells(op)'
      BY <2>5 DEF IInv, Tells
    <3>6. ListingIsWhatWasTold'
      <4>1. Pending' = Pending /\ connected' = connected /\ names' = names
        BY <2>2, <2>5, ModelIsKept DEF Pending, Done, Changes
      <4>2. connected => Unlike(names, server) \subseteq untold \cup Pending
        BY ToldOfListing DEF IInv
      <4>3. connected' => Unlike(names', server') \subseteq untold' \cup Pending'
        BY <2>5, <4>1, <4>2
      <4> QED BY <4>3, Zenon DEF Unlike, Pending, ListingIsWhatWasTold
    <3> QED BY <3>3, <3>4, <3>5, <3>6 DEF IInv
  <2> QED BY <2>1, <2>4, <2>5
<1> QED BY <1>1, <1>2

\* A key that sends nothing.
LEMMA QuietInv ==
  ASSUME IInv, op = None, Quiet, ModelTypes', UNCHANGED <<connected, names>>,
         target' # None => target' = Current'
  PROVE  IInv'
<1>1. op' = None /\ UNCHANGED <<server, late, untold>>
  BY DEF Quiet
<1>2. TypeOK'
  BY <1>1 DEF IInv, TypeOK, ModelTypes, Listings
<1>3. Named' /\ DeletesCurrent'
  BY <1>1 DEF IInv, Named, DeletesCurrent
<1>4. ListingIsWhatWasTold'
  <2>1. connected => Unlike(names, server) \subseteq untold
    BY ToldOfListing DEF IInv, Pending
  <2>2. connected' => Unlike(names', server') \subseteq untold' \cup Pending'
    BY <1>1, <2>1
  <2> QED BY <2>2, Zenon DEF Unlike, Pending, ListingIsWhatWasTold
<1> QED BY <1>1, <1>2, <1>3, <1>4 DEF IInv

\* A key that sends a request; one to delete is for the highlighted policy.
LEMMA BeginInv ==
  ASSUME IInv, op = None, NEW kind \in Kinds, NEW name \in Names \cup {None}, Begin(kind, name),
         kind \in {"open", "create", "update", "delete"} => name \in Names,
         ModelTypes', UNCHANGED <<connected, names>>,
         target' = None, kind = "delete" => name = Current'
  PROVE  IInv'
<1>1. op' = Request(kind, name) /\ UNCHANGED <<server, late, untold>>
  BY DEF Begin
<1>2. /\ op' \in Requests /\ op'.kind = kind /\ op'.name = name /\ op'.answer = None
      /\ op'.since = {}
  BY <1>1, RequestType
<1>3. TypeOK'
  BY <1>1, <1>2 DEF IInv, TypeOK, ModelTypes, Listings
<1>4. Named' /\ DeletesCurrent'
  BY <1>1, <1>2 DEF IInv, Named, DeletesCurrent
<1>5. Tells(op)'
  BY <1>2, PolicyBrowserAssumption DEF Tells
<1>6. ListingIsWhatWasTold'
  <2>1. connected => Unlike(names, server) \subseteq untold
    BY ToldOfListing DEF IInv, Pending
  <2>2. connected' => Unlike(names', server') \subseteq untold' \cup Pending'
    BY <1>1, <2>1
  <2> QED BY <2>2, Zenon DEF Unlike, Pending, ListingIsWhatWasTold
<1> QED BY <1>3, <1>4, <1>5, <1>6 DEF IInv

\* A request that is no longer awaited, for whatever reason.
LEMMA EndInv ==
  ASSUME IInv, op # None, op' = None, UNCHANGED <<server, target>>, ModelTypes',
         late' \subseteq Requests, IsFiniteSet(late'), Cardinality(late') <= MaxLate,
         \A r \in late' : Changes(r) /\ r.name \in Names,
         untold' \subseteq Names, connected' => Unlike(names', server) \subseteq untold'
  PROVE  IInv'
<1>1. TypeOK'
  BY DEF IInv, TypeOK, ModelTypes, Listings
<1>2. Named' /\ DeletesCurrent'
  BY DEF IInv, Named, DeletesCurrent
<1>3. ListingIsWhatWasTold'
  <2>1. connected' => Unlike(names', server') \subseteq untold' \cup Pending'
    OBVIOUS
  <2> QED BY <2>1, Zenon DEF Unlike, Pending, ListingIsWhatWasTold
<1> QED BY <1>1, <1>2, <1>3 DEF IInv

\* A request that is given up: what it did, or may still do, is not told.
LEMMA GiveUpInv ==
  ASSUME IInv, op # None, Cardinality(late) < MaxLate, GiveUp,
         ModelTypes', UNCHANGED <<connected, names, target>>
  PROVE  IInv'
<1>1. /\ op' = None /\ UNCHANGED server
      /\ late' = IF Changes(op) /\ ~Seen(op) THEN late \cup {op} ELSE late
      /\ untold' = IF Done(op) THEN untold \cup {op.name} ELSE untold
  BY DEF GiveUp
<1>2. /\ op \in Requests /\ late \subseteq Requests /\ IsFiniteSet(late) /\ untold \subseteq Names
      /\ Changes(op) => op.name \in Names
      /\ \A r \in late : Changes(r) /\ r.name \in Names
  BY DEF IInv, TypeOK, Named, Changes
<1>3. IsFiniteSet(late \cup {op}) /\ Cardinality(late \cup {op}) <= Cardinality(late) + 1
  <2>1. Cardinality(late) \in Nat
    BY <1>2, FS_CardinalityType
  <2>2. /\ IsFiniteSet(late \cup {op})
        /\ Cardinality(late \cup {op}) = IF op \in late THEN Cardinality(late) ELSE Cardinality(late) + 1
    BY <1>2, FS_AddElement
  <2> QED BY <2>1, <2>2
<1>4. IsFiniteSet(late') /\ Cardinality(late') <= MaxLate
  BY <1>1, <1>2, <1>3, FS_CardinalityType, PolicyBrowserAssumption
<1>5. \A r \in late' : r \in Requests /\ Changes(r) /\ r.name \in Names
  BY <1>1, <1>2
<1>6. untold' \subseteq Names
  BY <1>1, <1>2 DEF Done
<1>7. connected' => Unlike(names', server) \subseteq untold'
  <2>1. connected => Unlike(names, server) \subseteq untold \cup Pending
    BY ToldOfListing DEF IInv
  <2>2. Pending = IF Done(op) THEN {op.name} ELSE {}
    BY DEF Pending
  <2> QED BY <1>1, <2>1, <2>2
<1> QED BY <1>1, <1>4, <1>5, <1>6, <1>7, EndInv

\* A request that is cancelled or fails.
LEMMA CancelsInv == IInv /\ (Cancel \/ HandleRemoteErr) => IInv'
<1> SUFFICES ASSUME IInv, Cancel \/ HandleRemoteErr PROVE IInv'
  OBVIOUS
<1>1. ModelTypes
  BY TypesByParts DEF IInv
<1>2. CASE Cancel
  <2>1. ModelTypes' /\ UNCHANGED <<connected, names, target>>
    BY <1>1, <1>2, ModelTypesKept, ModelIsKept DEF Cancel
  <2> QED BY <1>2, <2>1, GiveUpInv DEF Cancel
<1>3. CASE HandleRemoteErr
  <2>1. /\ UNCHANGED <<connected, names, selected, filter, filtering, target, session>>
        /\ Visible' = Visible /\ Current' = Current
    BY <1>3, ShownIsKept DEF HandleRemoteErr, listing, filters
  <2>2. ModelTypes'
    <3>1. screen' \in {"editor", "connect", "browse", "name"}
      BY <1>1, <1>3 DEF HandleRemoteErr, ModelTypes
    <3> QED BY <1>1, <2>1, <3>1 DEF ModelTypes
  <2>3. CASE Cardinality(late) < MaxLate /\ GiveUp
    BY <1>3, <2>1, <2>2, <2>3, GiveUpInv DEF HandleRemoteErr
  <2>4. CASE op.answer = "refused" /\ op' = None /\ UNCHANGED <<server, late, untold>>
    <3>1. Pending = {}
      BY <2>4 DEF Pending, Done
    <3>2. connected' => Unlike(names', server) \subseteq untold'
      BY <2>1, <2>4, <3>1, ToldOfListing DEF IInv
    <3> QED BY <1>3, <2>1, <2>2, <2>4, <3>2, EndInv DEF HandleRemoteErr, IInv, TypeOK, Named
  <2> QED BY <1>3, <2>3, <2>4 DEF HandleRemoteErr
<1> QED BY <1>2, <1>3

\* The answers of the server.
LEMMA AnswersInv ==
  IInv /\ (HandleConnected \/ HandleListed \/ HandleOpened \/ HandleWrote \/ HandleDeleted) => IInv'
<1> SUFFICES ASSUME IInv,
                    HandleConnected \/ HandleListed \/ HandleOpened \/ HandleWrote \/ HandleDeleted
             PROVE  IInv'
  OBVIOUS
<1>1. ModelTypes /\ TypeOK /\ late \subseteq Requests /\ Cardinality(late) <= MaxLate
      /\ server \subseteq Names /\ untold \subseteq Names
  BY TypesByParts DEF IInv
<1>2. PICK kind \in Kinds : Answered(kind)
  BY DEF HandleConnected, HandleListed, HandleOpened, HandleWrote, HandleDeleted, Kinds
<1>3. /\ op # None /\ op' = None /\ op.kind = kind /\ op.answer = "done"
      /\ UNCHANGED <<server, late, target>>
      /\ op \in Requests /\ Tells(op) /\ op.since \subseteq untold
      /\ op.list \in Listings
  BY <1>1, <1>2 DEF Answered, IInv, TypeOK, Tells, Requests, Listings
<1>4. connected => Unlike(names, server) \subseteq untold \cup Pending
  BY ToldOfListing DEF IInv
<1>5. SUFFICES /\ ModelTypes' /\ untold' \subseteq Names
               /\ connected' => Unlike(names', server) \subseteq untold'
  <2>1. /\ late' \subseteq Requests /\ IsFiniteSet(late') /\ Cardinality(late') <= MaxLate
        /\ \A r \in late' : Changes(r) /\ r.name \in Names
    BY <1>1, <1>3 DEF IInv, Named
  <2> QED BY <1>3, <1>5, <2>1, EndInv
<1>6. CASE HandleConnected
  <2>1. /\ connected' = TRUE /\ names' = op.list /\ selected' = 0 /\ filter' = Blank
        /\ filtering' = FALSE /\ screen' = "browse" /\ untold' = op.since /\ session' = session
        /\ op.kind = "connect"
    BY <1>6 DEF HandleConnected, Answered
  <2>2. Unlike(op.list, server) \subseteq op.since
    BY <1>3, <2>1 DEF Tells
  <2>3. Visible' \in Seq(Names) /\ Len(Visible') \in Nat
    <3>1. Visible' = Through(filter', names')
      BY DEF Visible, Through
    <3>2. Through(filter', names') \in Seq(Names)
      BY <1>3, <2>1, VisibleOf
    <3> QED BY <3>1, <3>2, LenProperties
  <2>4. selected' \in 0 .. Max({0, Len(Visible') - 1})
    BY <2>1, <2>3, RowFits
  <2>5. ModelTypes'
    BY <1>1, <1>3, <2>1, <2>4, PolicyBrowserAssumption DEF ModelTypes
  <2> QED BY <1>1, <1>3, <2>1, <2>2, <2>5
<1>7. CASE HandleListed
  <2>1. /\ names' = op.list /\ selected' = Follow(op.list)
        /\ screen' = "browse" /\ untold' = op.since
        /\ UNCHANGED <<connected, filter, filtering, session>>
        /\ op.kind = "list"
    BY <1>7 DEF HandleListed, Answered, filters
  <2>2. Unlike(op.list, server) \subseteq op.since
    BY <1>3, <2>1 DEF Tells
  <2>3. Visible' = Through(filter, op.list)
    BY <2>1 DEF Visible, Through
  <2>4. selected' \in 0 .. Max({0, Len(Visible') - 1})
    BY <1>1, <1>3, <2>1, <2>3, FollowFinds
  <2>5. ModelTypes'
    BY <1>1, <1>3, <2>1, <2>4 DEF ModelTypes
  <2> QED BY <1>1, <1>3, <2>1, <2>2, <2>5
<1>8. CASE HandleOpened
  <2>1. /\ session' = [name |-> op.name, exists |-> TRUE, dirty |-> FALSE] /\ screen' = "editor"
        /\ UNCHANGED <<connected, names, selected, filter, filtering, untold>>
        /\ Visible' = Visible /\ op.kind = "open"
    BY <1>8, ShownIsKept DEF HandleOpened, Answered, listing, filters
  <2>2. op.name \in Names \cup {None}
    BY <1>3 DEF Requests
  <2>3. ModelTypes'
    BY <1>1, <1>3, <2>1, <2>2 DEF ModelTypes
  <2>4. Pending = {}
    BY <2>1 DEF Pending, Done, Changes
  <2> QED BY <1>1, <1>4, <2>1, <2>3, <2>4
<1>9. CASE HandleWrote
  <2>1. /\ session' = [session EXCEPT !.exists = TRUE, !.dirty = FALSE]
        /\ screen' = "editor"
        /\ UNCHANGED <<connected, selected, filter, filtering>>
        /\ \/ op.kind = "create" /\ names' = Added(op.name) /\ Told
           \/ op.kind = "update" /\ UNCHANGED <<names, untold>>
    BY <1>9 DEF HandleWrote, Answered, filters
  <2>2. session' \in [name : Names \cup {None}, exists : BOOLEAN, dirty : BOOLEAN]
    BY <1>1, <2>1 DEF ModelTypes
  <2>3. CASE op.kind = "create" /\ names' = Added(op.name) /\ Told
    <3>1. op.name \in Names /\ names \in Listings
      BY <1>1, <1>3, <2>3 DEF IInv, Named, ModelTypes
    <3>2. /\ names' \in Listings /\ ToSet(names') = ToSet(names) \cup {op.name}
          /\ Len(Through(filter, names)) <= Len(Through(filter, names'))
      BY <2>3, <3>1, Changed
    <3>3. selected' \in 0 .. Max({0, Len(Visible') - 1})
      <4>1. Visible' = Through(filter, names') /\ Visible = Through(filter, names)
        BY <2>1 DEF Visible, Through
      <4>2. Visible' \in Seq(Names)
        BY <3>2, <4>1, VisibleOf
      <4>3. Len(Visible') \in Nat
        BY <4>2, LenProperties
      <4>4. /\ selected \in Nat /\ Len(Visible) \in Nat
            /\ (selected < Len(Visible) \/ selected = 0)
        BY <1>1, Types
      <4>5. selected < Len(Visible') \/ selected = 0
        BY <3>2, <4>1, <4>3, <4>4
      <4> QED BY <2>1, <4>3, <4>4, <4>5, RowFits
    <3>4. ModelTypes'
      BY <1>1, <1>3, <2>1, <2>2, <3>2, <3>3 DEF ModelTypes
    <3>5. /\ untold' = untold \ ({op.name} \ op.since)
          /\ op.name \in server \cup op.since
          /\ Pending = {op.name}
      BY <1>3, <2>3 DEF Told, Tells, Pending, Done, Changes
    <3>6. connected' => Unlike(names', server) \subseteq untold'
      BY <1>3, <1>4, <2>1, <3>2, <3>5 DEF Unlike
    <3> QED BY <1>1, <3>4, <3>5, <3>6
  <2>4. CASE op.kind = "update" /\ UNCHANGED <<names, untold>>
    <3>1. Visible' = Visible
      BY <2>1, <2>4, ShownIsKept DEF listing, filters
    <3>2. ModelTypes'
      BY <1>1, <1>3, <2>1, <2>2, <2>4, <3>1 DEF ModelTypes
    <3>3. Pending = {}
      BY <2>4 DEF Pending, Done, Changes
    <3> QED BY <1>1, <1>4, <2>1, <2>4, <3>2, <3>3
  <2> QED BY <2>1, <2>3, <2>4
<1>10. CASE HandleDeleted
  <2>1. /\ names' = Removed(op.name) /\ selected' = Clamp(Through(filter, names')) /\ Told
        /\ session' = IF session.name = op.name THEN [session EXCEPT !.exists = FALSE] ELSE session
        /\ UNCHANGED <<connected, filter, filtering, screen>>
        /\ op.kind = "delete"
    BY <1>10 DEF HandleDeleted, Answered, filters
  <2>2. op.name \in Names /\ names \in Listings
    BY <1>1, <1>3, <2>1 DEF IInv, Named, ModelTypes
  <2>3. names' \in Listings /\ ToSet(names') = ToSet(names) \ {op.name}
    BY <2>1, <2>2, Changed
  <2>4. selected' \in 0 .. Max({0, Len(Visible') - 1})
    <3>1. Visible' = Through(filter, names')
      BY <2>1 DEF Visible, Through
    <3>2. Visible' \in Seq(Names)
      BY <2>3, <3>1, VisibleOf
    <3> QED BY <1>1, <2>1, <3>1, <3>2, ClampFits
  <2>5. ModelTypes'
    <3>1. session' \in [name : Names \cup {None}, exists : BOOLEAN, dirty : BOOLEAN]
      BY <1>1, <2>1 DEF ModelTypes
    <3> QED BY <1>1, <1>3, <2>1, <2>3, <2>4, <3>1 DEF ModelTypes
  <2>6. /\ untold' = untold \ ({op.name} \ op.since)
        /\ op.name \notin server \/ op.name \in op.since
        /\ Pending = {op.name}
    BY <1>3, <2>1 DEF Told, Tells, Pending, Done, Changes
  <2>7. connected' => Unlike(names', server) \subseteq untold'
    BY <1>3, <1>4, <2>1, <2>3, <2>6 DEF Unlike
  <2> QED BY <1>1, <2>5, <2>6, <2>7
<1> QED BY <1>6, <1>7, <1>8, <1>9, <1>10

\* The keys that move the highlight.
LEMMA HighlightInv ==
  ASSUME IInv, NEW row \in Nat, row < Len(Visible) \/ row = 0, Highlight(row)
  PROVE  IInv'
<1>1. /\ op = None /\ target = None /\ target' = None /\ selected' = row /\ Quiet
      /\ UNCHANGED <<connected, names, filter, filtering, screen, target, session>>
  BY DEF Highlight, On, Idle, filters
<1>2. Visible' = Visible
  BY <1>1 DEF Visible, Through
<1>3. ModelTypes /\ Len(Visible) \in Nat
  BY TypesByParts, Types DEF IInv
<1>4. row \in 0 .. Max({0, Len(Visible) - 1})
  BY <1>3, RowFits
<1>5. ModelTypes'
  BY <1>1, <1>2, <1>3, <1>4 DEF ModelTypes
<1> QED BY <1>1, <1>5, QuietInv

\* The keys of the browser.
LEMMA BrowseInv ==
  IInv /\ ((\E delta \in {-1, 1} : Move(delta)) \/ Home \/ End \/ OpenFilter \/ TypeFilter) => IInv'
<1> SUFFICES ASSUME IInv,
                    (\E delta \in {-1, 1} : Move(delta)) \/ Home \/ End \/ OpenFilter \/ TypeFilter
             PROVE  IInv'
  OBVIOUS
<1>1. /\ ModelTypes /\ TypeOK /\ Len(Visible) \in Nat /\ Visible \in Seq(Names)
      /\ selected \in Nat /\ (selected < Len(Visible) \/ selected = 0)
  BY TypesByParts, Types DEF IInv
<1>2. ASSUME NEW delta \in {-1, 1}, Move(delta) PROVE IInv'
  <2>1. CASE Visible = <<>>
    BY <1>2, <2>1, HighlightInv DEF Move
  <2>2. CASE Visible # <<>>
    <3>1. Len(Visible) # 0
      BY <1>1, <2>2, EmptySeq
    <3> DEFINE row == (selected + delta + Len(Visible)) % Len(Visible)
    <3>2. selected + delta + Len(Visible) \in Int
      BY <1>1
    <3>3. row \in Nat /\ row < Len(Visible)
      BY <1>1, <3>1, <3>2, RemainderFits
    <3>4. Highlight(row)
      BY <1>2, <2>2 DEF Move
    <3> HIDE DEF row
    <3> QED BY <3>3, <3>4, HighlightInv
  <2> QED BY <2>1, <2>2
<1>3. CASE Home
  BY <1>3, HighlightInv DEF Home
<1>4. CASE End
  <2> DEFINE row == Max({0, Len(Visible) - 1})
  <2>1. row = IF 0 >= Len(Visible) - 1 THEN 0 ELSE Len(Visible) - 1
    BY <1>1, MaxOfTwo
  <2>2. Highlight(row)
    BY <1>4 DEF End
  <2> HIDE DEF row
  <2>3. row \in Nat /\ (row < Len(Visible) \/ row = 0)
    BY <1>1, <2>1
  <2> QED BY <2>2, <2>3, HighlightInv
<1>5. CASE OpenFilter
  <2>1. /\ op = None /\ target' = None /\ Quiet
        /\ UNCHANGED <<connected, names, selected, filter, screen, target, session>>
        /\ filtering' = TRUE
    BY <1>5 DEF OpenFilter, Filter, On, Idle
  <2>2. Visible' = Visible
    BY <2>1 DEF Visible, Through
  <2>3. ModelTypes'
    BY <1>1, <2>1, <2>2 DEF ModelTypes
  <2> QED BY <2>1, <2>3, QuietInv
<1>6. CASE TypeFilter
  <2>1. PICK text \in Filters, focus \in BOOLEAN :
          selected' = Clamp(Through(text, names)) /\ Filter(text, focus)
    BY <1>6 DEF TypeFilter
  <2>2. /\ op = None /\ target' = None /\ Quiet
        /\ UNCHANGED <<connected, names, screen, target, session>>
        /\ filter' = text /\ filtering' = focus
    BY <1>6, <2>1 DEF TypeFilter, Filter, On, Idle
  <2>3. Visible' = Through(text, names) /\ Visible' \in Seq(Names)
    BY <1>1, <2>2, VisibleOf DEF Visible, Through, ModelTypes
  <2>4. selected' \in 0 .. Max({0, Len(Visible') - 1})
    BY <1>1, <2>1, <2>3, ClampFits
  <2>5. ModelTypes'
    BY <1>1, <2>2, <2>4 DEF ModelTypes
  <2> QED BY <2>2, <2>5, QuietInv
<1> QED BY <1>2, <1>3, <1>4, <1>5, <1>6

\* The types, when a key changes the screen alone.
LEMMA ShowTypes ==
  ASSUME IInv, NEW s \in {"editor", "connect", "browse", "name"}, Show(s)
  PROVE  ModelTypes' /\ UNCHANGED <<connected, names, target>> /\ Current' = Current
<1>1. /\ UNCHANGED <<connected, names, selected, filter, filtering, target, session>>
      /\ screen' = s /\ Visible' = Visible /\ Current' = Current
  BY ShownIsKept DEF Show, listing, filters
<1> QED BY <1>1, TypesByParts DEF IInv, ModelTypes

\* The keys that send a request.
LEMMA AskInv ==
  IInv /\ (EnterRemote \/ Connect \/ Refresh \/ Open \/ Save
             \/ \E typed \in Names : ConfirmDelete(typed)) => IInv'
<1> SUFFICES ASSUME IInv,
                    EnterRemote \/ Connect \/ Refresh \/ Open \/ Save
                      \/ \E typed \in Names : ConfirmDelete(typed)
             PROVE  IInv'
  OBVIOUS
<1>1. ModelTypes /\ TypeOK
  BY TypesByParts DEF IInv
<1>2. UNCHANGED model => ModelTypes' /\ UNCHANGED <<connected, names, target>>
  BY <1>1, ModelTypesKept, ModelIsKept
<1> USE DEF Kinds
<1>3. CASE EnterRemote
  <2>1. op = None /\ target = None
    BY <1>3 DEF EnterRemote, On, Idle
  <2>2. CASE Show("browse") /\ Begin("list", None)
    BY <2>1, <2>2, ShowTypes, BeginInv
  <2>3. CASE Show("connect") /\ Quiet
    BY <2>1, <2>3, ShowTypes, QuietInv
  <2>4. CASE Show("connect") /\ Begin("connect", None)
    BY <2>1, <2>4, ShowTypes, BeginInv
  <2> QED BY <1>3, <2>2, <2>3, <2>4 DEF EnterRemote
<1>4. CASE Connect
  BY <1>2, <1>4, BeginInv DEF Connect, On, Idle
<1>5. CASE Refresh
  BY <1>2, <1>5, BeginInv DEF Refresh, Command, On, Idle
<1>6. CASE Open
  <2>1. Current \in Names
    BY <1>1, <1>6, CurrentIsVisible DEF Open
  <2> QED BY <1>2, <1>6, <2>1, BeginInv DEF Open, Command, On, Idle
<1>7. CASE Save
  <2>1. session.name \in Names
    BY <1>1, <1>7 DEF Save, ModelTypes
  <2>2. CASE session.exists
    BY <1>2, <1>7, <2>1, <2>2, BeginInv DEF Save, On, Idle
  <2>3. CASE ~session.exists
    BY <1>2, <1>7, <2>1, <2>3, BeginInv DEF Save, On, Idle
  <2> QED BY <2>2, <2>3
<1>8. ASSUME NEW typed \in Names, ConfirmDelete(typed) PROVE IInv'
  <2>1. /\ target # None /\ target' = None /\ Begin("delete", target)
        /\ UNCHANGED <<connected, names, selected, filter, filtering, screen, session>>
        /\ Visible' = Visible /\ Current' = Current
    BY <1>8, ShownIsKept DEF ConfirmDelete, LeaveQuestion, listing, filters
  <2>2. op = None /\ target = Current /\ target \in Names
    BY <1>1, <2>1 DEF IInv, DeletesCurrent, ModelTypes
  <2>3. ModelTypes'
    BY <1>1, <2>1 DEF ModelTypes
  <2> QED BY <2>1, <2>2, <2>3, BeginInv
<1> QED BY <1>3, <1>4, <1>5, <1>6, <1>7, <1>8

\* The other keys.
LEMMA KeysInv ==
  IInv /\ (CancelConnect \/ Back \/ New \/ AskDelete \/ DeclineDelete \/ LeaveName \/ NameNew \/ Edit)
    => IInv'
<1> SUFFICES ASSUME IInv,
                    CancelConnect \/ Back \/ New \/ AskDelete \/ DeclineDelete
                      \/ LeaveName \/ NameNew \/ Edit
             PROVE  IInv'
  OBVIOUS
<1>1. ModelTypes /\ TypeOK
  BY TypesByParts DEF IInv
<1>2. CASE CancelConnect
  BY <1>2, ShowTypes, QuietInv DEF CancelConnect, On, Idle
<1>3. CASE Back
  BY <1>3, ShowTypes, QuietInv DEF Back, Command, On, Idle
<1>4. CASE New
  BY <1>4, ShowTypes, QuietInv DEF New, Command, On, Idle
<1>5. CASE LeaveName
  BY <1>5, ShowTypes, QuietInv DEF LeaveName, On, Idle
<1>6. CASE AskDelete
  <2>1. /\ op = None /\ target' = Current /\ Quiet /\ Current \in Names
        /\ UNCHANGED <<connected, names, selected, filter, filtering, screen, session>>
        /\ Visible' = Visible /\ Current' = Current
    BY <1>1, <1>6, CurrentIsVisible, ShownIsKept DEF AskDelete, Command, On, Idle, listing, filters
  <2>2. ModelTypes'
    BY <1>1, <2>1 DEF ModelTypes
  <2> QED BY <2>1, <2>2, QuietInv
<1>7. CASE DeclineDelete
  <2>1. /\ target # None /\ target' = None /\ Quiet
        /\ UNCHANGED <<connected, names, selected, filter, filtering, screen, session>>
        /\ Visible' = Visible
    BY <1>7, ShownIsKept DEF DeclineDelete, LeaveQuestion, listing, filters
  <2>2. op = None
    BY <2>1 DEF IInv, DeletesCurrent
  <2>3. ModelTypes'
    BY <1>1, <2>1 DEF ModelTypes
  <2> QED BY <2>1, <2>2, <2>3, QuietInv
<1>8. CASE NameNew
  <2>1. /\ op = None /\ target = None /\ Quiet /\ screen' = "editor"
        /\ UNCHANGED <<connected, names, selected, filter, filtering, target>>
        /\ Visible' = Visible
        /\ \E name \in Names : session' = [name |-> name, exists |-> FALSE, dirty |-> FALSE]
    BY <1>8, ShownIsKept DEF NameNew, On, Idle, listing, filters
  <2>2. session' \in [name : Names \cup {None}, exists : BOOLEAN, dirty : BOOLEAN]
    BY <2>1
  <2>3. ModelTypes'
    BY <1>1, <2>1, <2>2 DEF ModelTypes
  <2> QED BY <2>1, <2>3, QuietInv
<1>9. CASE Edit
  <2>1. /\ op = None /\ target = None /\ Quiet
        /\ UNCHANGED <<connected, names, selected, filter, filtering, screen, target>>
        /\ Visible' = Visible /\ session' = [session EXCEPT !.dirty = ~@]
    BY <1>9, ShownIsKept DEF Edit, On, Idle, listing, filters
  <2>2. session' \in [name : Names \cup {None}, exists : BOOLEAN, dirty : BOOLEAN]
    BY <1>1, <2>1 DEF ModelTypes
  <2>3. ModelTypes'
    BY <1>1, <2>1, <2>2 DEF ModelTypes
  <2> QED BY <2>1, <2>3, QuietInv
<1> QED BY <1>2, <1>3, <1>4, <1>5, <1>6, <1>7, <1>8, <1>9

\* A step that changes nothing.
LEMMA StutterInv == IInv /\ UNCHANGED vars => IInv'
<1> SUFFICES ASSUME IInv, UNCHANGED vars PROVE IInv'
  OBVIOUS
<1>1. UNCHANGED model /\ UNCHANGED <<server, op, late, untold>>
  BY DEF vars
<1>2. ModelTypes'
  BY <1>1, TypesByParts, ModelTypesKept DEF IInv
<1>3. TypeOK'
  BY <1>1, <1>2 DEF IInv, TypeOK, ModelTypes, Listings
<1>4. Named' /\ DeletesCurrent' /\ (op' # None => Tells(op)')
  BY <1>1, ModelIsKept DEF IInv, Named, DeletesCurrent, Tells
<1>5. ListingIsWhatWasTold'
  <2>1. Pending' = Pending /\ connected' = connected /\ names' = names
    BY <1>1, ModelIsKept DEF Pending, Done, Changes
  <2>2. connected => Unlike(names, server) \subseteq untold \cup Pending
    BY ToldOfListing DEF IInv
  <2>3. connected' => Unlike(names', server') \subseteq untold' \cup Pending'
    BY <1>1, <2>1, <2>2
  <2> QED BY <2>3, Zenon DEF Unlike, Pending, ListingIsWhatWasTold
<1> QED BY <1>3, <1>4, <1>5 DEF IInv

\* Every step.
LEMMA NextInv == IInv /\ [Next]_vars => IInv'
<1>1. IInv /\ Serve => IInv'
  BY ServeInv
<1>2. IInv /\ Next => IInv'
  BY <1>1, OthersInv, CancelsInv, AnswersInv, BrowseInv, AskInv, KeysInv DEF Next
<1> QED BY <1>2, StutterInv

\* The invariant holds in every reachable state.
THEOREM Inductive == Spec => []IInv
BY InitInv, NextInv, PTL DEF Spec

-----------------------------------------------------------------------------
(* What the runs check *)

\* TypeOK: whenever a policy is visible one is highlighted, for any policies
\* and filters, whatever is added, removed, listed again or filtered out.
THEOREM TypeCorrect == Spec => []TypeOK
<1>1. IInv => TypeOK
  BY DEF IInv
<1> QED BY <1>1, Inductive, PTL

\* ListingIsWhatWasTold: however many clients and late requests there are, the
\* listing is wrong only about policies whose fate BPE was not told.
THEOREM ListingIsTold == Spec => []ListingIsWhatWasTold
<1>1. IInv => ListingIsWhatWasTold
  BY DEF IInv
<1> QED BY <1>1, Inductive, PTL

\* HighlightStays: the answer to a refresh, to a deletion or to anything else
\* but a connection or a creation leaves the highlight on its policy, if that
\* is still there, and a policy is deleted only while it is highlighted.
THEOREM HighlightIsKept == Spec => HighlightStays
<1> DEFINE Kept == /\ op # None /\ op' = None /\ op.kind \notin {"connect", "create"} =>
                        Current' = Current \/ Current \notin ToSet(Visible')
                   /\ op # None /\ op.kind = "delete" => op.name = Current
<1>1. IInv /\ Next => Kept
  <2> SUFFICES ASSUME IInv, Next PROVE Kept
    OBVIOUS
  <2>1. op # None /\ op.kind = "delete" => op.name = Current
    BY DEF IInv, DeletesCurrent
  <2>2. SUFFICES ASSUME op # None, op' = None, op.kind \notin {"connect", "create"}
                 PROVE  Current' = Current \/ Current \notin ToSet(Visible')
    BY <2>1
  <2>3. TypeOK /\ names \in Listings /\ op \in Requests
    BY <2>2, Types DEF IInv, TypeOK
  <2>4. CASE UNCHANGED listing /\ UNCHANGED filters
    BY <2>4, ShownIsKept
  <2>5. CASE HandleListed
    <3>1. /\ names' = op.list /\ selected' = Follow(op.list) /\ filter' = filter
          /\ op.list \in Listings
      BY <2>3, <2>5 DEF HandleListed, filters, Requests, Listings
    <3> DEFINE list == Through(filter, op.list)
    <3>2. Visible' = list
      BY <3>1 DEF Visible, Through
    <3>3. Current \in ToSet(list) => selected' < Len(list) /\ list[selected' + 1] = Current
      BY <2>3, <3>1, FollowFinds
    <3>4. Current' = IF selected' < Len(Visible') THEN Visible'[selected' + 1] ELSE None
      BY DEF Current
    <3> HIDE DEF list
    <3> QED BY <3>2, <3>3, <3>4
  <2>6. CASE HandleDeleted
    <3>1. names' = Removed(op.name) /\ filter' = filter /\ op.kind = "delete"
      BY <2>6 DEF HandleDeleted, Answered, filters
    <3>2. op.name \in Names /\ op.name = Current
      BY <2>1, <2>2, <3>1 DEF IInv, Named
    <3>3. names' \in Listings /\ Current \notin ToSet(names')
      BY <2>3, <3>1, <3>2, Changed
    <3>4. Visible' = Through(filter, names')
      BY <3>1 DEF Visible, Through
    <3> QED BY <3>3, <3>4, VisibleOf
  <2>7. CASE HandleWrote
    <3>1. op.kind = "update" /\ UNCHANGED <<names, selected, filter, filtering>>
      BY <2>2, <2>7 DEF HandleWrote, Answered, filters
    <3> QED BY <2>4, <3>1 DEF listing, filters
  <2>8. CASE Cancel \/ HandleRemoteErr \/ HandleOpened
    BY <2>4, <2>8 DEF Cancel, HandleRemoteErr, HandleOpened, model, listing, filters
  <2>9. ~HandleConnected
    BY <2>2 DEF HandleConnected, Answered
  <2>10. CASE OtherClient \/ Serve \/ ServeLate
    BY <2>4, <2>10 DEF OtherClient, Serve, ServeLate, model
  <2>11. Idle => FALSE
    BY <2>2 DEF Idle
  <2>12. ~EnterRemote /\ ~Connect /\ ~CancelConnect /\ ~OpenFilter /\ ~TypeFilter
    BY <2>11 DEF EnterRemote, Connect, CancelConnect, OpenFilter, TypeFilter, On
  <2>13. ~Home /\ ~End /\ \A delta \in {-1, 1} : ~Move(delta)
    BY <2>11 DEF Home, End, Move, Highlight, On
  <2>14. ~Back /\ ~Refresh /\ ~Open /\ ~New /\ ~AskDelete
    BY <2>11 DEF Back, Refresh, Open, New, AskDelete, Command, On
  <2>15. ~LeaveName /\ ~NameNew /\ ~Edit /\ ~Save
    BY <2>11 DEF LeaveName, NameNew, Edit, Save, On
  <2>16. target = None
    BY <2>2 DEF IInv, DeletesCurrent
  <2>17. ~DeclineDelete /\ \A typed \in Names : ~ConfirmDelete(typed)
    BY <2>16 DEF DeclineDelete, ConfirmDelete
  <2> QED BY <2>5, <2>6, <2>7, <2>8, <2>9, <2>10, <2>12, <2>13, <2>14, <2>15, <2>17 DEF Next
<1>2. [Kept]_vars => [/\ op # None /\ op' = None /\ op.kind \notin {"connect", "create"} =>
                           Current' = Current \/ Current \notin ToSet(Visible')
                      /\ op # None /\ op.kind = "delete" => op.name = Current]_vars
  OBVIOUS
<1>3. IInv /\ [Next]_vars => [Kept]_vars
  BY <1>1
<1> HIDE DEF Kept
<1>4. Spec => [][Kept]_vars
  BY <1>3, Inductive, PTL DEF Spec
<1> QED BY <1>2, <1>4, PTL DEF HighlightStays
=============================================================================
