------------------------------ MODULE MCReading ------------------------------
(* What a reader's visit calls on: the beacon of the tab, the rails of the   *)
(* page and an itinerary asked for.  They share no state, so they are        *)
(* examined side by side; each behaviour moves one.                          *)
EXTENDS Beacon, Rails, Itinerary, TLC

VARIABLE shown  \* "page", "rails" or "trip"

-----------------------------------------------------------------------------
(* Rails: one place and one article beside a hotel's page.                   *)

CONSTANTS p1, a1

MCReach == [row1 |-> <<{p1}, {p1}>>, row2 |-> <<{}, {p1}>>, row3 |-> <<{a1}>>]
MCCap == {[items |-> {p1, a1}, most |-> 1]}

Relation(same, rivals, likes) == [same |-> same, rivals |-> rivals, likes |-> likes]
News == Relation(FALSE, {}, {})
Lenient == ("stay" :> Relation(TRUE, {}, {"news"})) @@ ("news" :> News)
Strict == ("stay" :> Relation(TRUE, {"news"}, {"news"})) @@ ("news" :> News)

Beside(place, live, article, flags) ==
    (p1 :> [live |-> live, type |-> place, flags |-> {}])
    @@ (a1 :> [live |-> TRUE, type |-> article, flags |-> flags])
World(m, live, type, items) == [matrix |-> m, live |-> live, type |-> type, item |-> items]

\* The world of the page; its matrix reloaded; its article taken down; the article
\* beside it about a rival; its type lost, and the place taken down; its article
\* retyped, and its neighbours too.
MCWorlds ==
    { World(Lenient, TRUE, "stay", Beside("news", TRUE, "news", {})),
      World(Strict, TRUE, "stay", Beside("news", TRUE, "news", {})),
      World(Lenient, FALSE, "stay", Beside("news", TRUE, "news", {})),
      World(Lenient, TRUE, "stay", Beside("news", TRUE, "news", {"stay"})),
      World(Lenient, TRUE, "none", Beside("stay", FALSE, "news", {"stay"})),
      World(Lenient, TRUE, "news", Beside("stay", TRUE, "none", {})) }

-----------------------------------------------------------------------------
(* Itinerary: two restaurants, one with a split service, and an activity of  *)
(* the same organisation as one of them.                                     *)

CONSTANTS r1, r2, act, chain

Open(from, to) == <<[opens |-> from, closes |-> to]>>
Stop(type, band, dwell, hours, org, partner, meets, rank) ==
    [type |-> type, band |-> band, dwell |-> dwell, hours |-> hours, org |-> org,
     partner |-> partner, meets |-> meets, rank |-> rank]

MCstop ==
    (r1 :> Stop("eat", 1, 1, 0 :> Open(0, 1) \o Open(3, 6), chain, FALSE, {"halal"}, 1))
    @@ (r2 :> Stop("eat", 2, 2, [w \in {} |-> <<>>], NoOrg, TRUE, {"halal"}, 2))
    @@ (act :> Stop("do", 0, 1, (0 :> Open(1, 5)) @@ (1 :> Open(2, 4)), chain, FALSE, {}, 3))
MCLeg == [l \in Place \X Place |-> IF {r1, r2} \subseteq {l[1], l[2]} THEN 2 ELSE 1]

Slot(from, to, types, required) ==
    [opens |-> from, closes |-> to, types |-> types, required |-> required]
Ask(days, ladder) ==
    [days |-> days, weekday |-> 0, ladder |-> ladder, needs |-> {}, maxBand |-> NoLimit,
     budget |-> NoLimit, maxTravel |-> NoLimit, perType |-> 2, perOrg |-> 2, partners |-> 0]

OneDay ==
    {Ask(1, <<Slot(0, 2, {"eat"}, x), Slot(1, 3, {"do"}, FALSE), Slot(3, 5, {"eat"}, y)>>) :
        x, y \in BOOLEAN}
TwoDays ==
    {Ask(2, <<Slot(0, 2, {"eat"}, x), Slot(2, 4, {"eat", "do"}, y)>>) : x, y \in BOOLEAN}

\* Each of them plain, and with one more wish.
MCRequest ==
    OneDay \cup TwoDays \cup {[q EXCEPT !.days = 0] : q \in OneDay}
    \cup UNION {{[q EXCEPT !.needs = {"halal"}], [q EXCEPT !.maxBand = 1],
                 [q EXCEPT !.budget = 2], [q EXCEPT !.maxTravel = 1],
                 [q EXCEPT !.perType = 1], [q EXCEPT !.perOrg = 1],
                 [q EXCEPT !.perType = 1, !.perOrg = 1],
                 [q EXCEPT !.partners = 1], [q EXCEPT !.partners = 2]} : q \in OneDay \cup TwoDays}

-----------------------------------------------------------------------------
ReadingInit ==
    /\ shown \in {"page", "rails", "trip"}
    /\ BeaconInit /\ RailsInit /\ ItineraryInit
    /\ shown # "page" => path = <<CHOOSE p \in Page : TRUE>> /\ beacon.consent
    /\ shown # "rails" => world = CHOOSE w \in Worlds : TRUE
    /\ shown # "trip" => request = CHOOSE q \in Request : TRUE

ReadingNext ==
    \/ shown = "page" /\ BeaconNext /\ UNCHANGED <<railsVars, itineraryVars, shown>>
    \/ shown = "rails" /\ RailsNext /\ UNCHANGED <<beaconVars, itineraryVars, shown>>
    \/ shown = "trip" /\ ItineraryNext /\ UNCHANGED <<beaconVars, railsVars, shown>>

ReadingSpec == ReadingInit /\ [][ReadingNext]_<<beaconVars, railsVars, itineraryVars, shown>>
=============================================================================
