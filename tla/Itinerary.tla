------------------------------- MODULE Itinerary -------------------------------
(* One itinerary request: the arithmetic checks that refuse it with a reason, *)
(* the constraint model that CP-SAT is given, any answer the solver may find  *)
(* to it before its time is up, and the rules the validator checks that       *)
(* answer against from scratch.  A plan's days are numbered from 0, the slots *)
(* of the ladder in the order of the day; times are minutes of the day.       *)
EXTENDS Integers, FiniteSets, FiniteSetsExt, Functions, Sequences

CONSTANTS
    Place, NoPlace,
    NoOrg,         \* org_id of a place without one
    NoLimit,       \* a ceiling the request does not set
    stop,          \* the candidates: type, price_band or 0 (band), dwell, hours of
                   \* the weekdays known, org, partner, needs confirmed (meets), rank by score
    Request,       \* requests: days, weekday of the first, ladder, party's needs, ceilings
                   \* (maxBand, budget, maxTravel), caps (perType, perOrg), partners
    Leg,           \* TravelMatrix.minutes
    MaxCandidates, \* MAX_CANDIDATES_PER_SLOT
    Weekday

ASSUME ItineraryAssumption ==
    /\ IsFiniteSet(Place) /\ NoPlace \notin Place
    /\ Leg \in [Place \X Place -> Int]
    /\ \A p \in Place :
         /\ stop[p].dwell \in Int
         /\ \A w \in DOMAIN stop[p].hours : stop[p].hours[w] \in Seq([opens : Int, closes : Int])
    /\ \A q \in Request :
         /\ q.days \in Int /\ {q.perType, q.perOrg, q.partners} \subseteq Nat
         /\ q.ladder \in Seq(Range(q.ladder))
         /\ \A s \in Range(q.ladder) :
              s.opens \in Int /\ s.closes \in Int /\ s.required \in BOOLEAN

VARIABLES
    request,
    outcome,   \* "asked", "refused", "unsolved" or "planned"
    fills,     \* of a plan: the place of each day and slot, or NoPlace
    arrives    \* of a plan: the arrival of each day and slot, filled or not

itineraryVars == <<request, outcome, fills, arrives>>

Within(n, limit) == limit # NoLimit => n <= limit

\* The days of a request, its slots, and the two together.
DaysOf(q) == 0 .. q.days - 1
Key(q) == DaysOf(q) \X DOMAIN q.ladder
WeekdayOf(q, d) == (q.weekday + d) % Weekday
Filled(q, f) == {k \in Key(q) : f[k] # NoPlace}

HoursOn(p, w) == IF w \in DOMAIN stop[p].hours THEN stop[p].hours[w] ELSE <<>>
HasHours(p) == DOMAIN stop[p].hours # {}

-----------------------------------------------------------------------------
(* _eligible_stops.                                                         *)

Overlap(i, s) == Min({i.closes, s.closes}) - Max({i.opens, s.opens})

\* The opening interval that the slot's window overlaps most, the first of equals.
Best(h, s) ==
    CHOOSE i \in DOMAIN h :
        \A j \in DOMAIN h : \/ Overlap(h[j], s) < Overlap(h[i], s)
                            \/ Overlap(h[j], s) = Overlap(h[i], s) /\ i <= j

\* mutant: room for the visit is asked of the slot, not of the opening hours
TimesUntilClosing(s, h, dwell) ==
    Max({s.opens, h.opens}) .. Min({s.closes - dwell, h.closes})

Times(s, h, dwell) == Max({s.opens, h.opens}) .. Min({s.closes, h.closes}) - dwell

\* When the visitor may arrive at p in slot s: the visit fits the slot, and the
\* opening interval if the hours of p are known.
ArrivalWindow(p, s, w) ==
    LET h == HoursOn(p, w) IN
    IF h # <<>>
    THEN LET i == h[Best(h, s)] IN
         IF Overlap(i, s) > 0 THEN Times(s, i, stop[p].dwell) ELSE {}
    ELSE IF HasHours(p) THEN {} ELSE Times(s, s, stop[p].dwell)

Suits(q, p) == q.needs \subseteq stop[p].meets /\ Within(stop[p].band, q.maxBand)

Eligible(q, k) ==
    LET s == q.ladder[k[2]] IN
    {p \in Place : stop[p].type \in s.types /\ Suits(q, p) /\ ArrivalWindow(p, s, WeekdayOf(q, k[1])) # {}}

\* The best of them; a stop beyond has no variable in the model.
Options(q, k) ==
    LET all == Eligible(q, k) IN
    {p \in all : Cardinality({o \in all : stop[o].rank < stop[p].rank}) < MaxCandidates}

-----------------------------------------------------------------------------
(* What is refused before a search.                                         *)

\* The slots a day cannot leave empty and only one type may fill.
Demanding(q, type) ==
    {i \in DOMAIN q.ladder : q.ladder[i].required /\ q.ladder[i].types = {type}}

Types == {stop[p].type : p \in Place}
Orgs == {stop[p].org : p \in Place} \ {NoOrg}

Suppliers(q, type) == UNION {Options(q, k) : k \in {k \in Key(q) : k[2] \in Demanding(q, type)}}
OfOrg(ps, o) == {p \in ps : stop[p].org = o}

\* How many different places can fill them: those without an organisation, and of
\* each organisation the first ones up to the cap.
Supply(q, type) ==
    Cardinality(OfOrg(Suppliers(q, type), NoOrg))
      + Cardinality({l \in Orgs \X (1 .. q.perOrg) : l[2] <= Cardinality(OfOrg(Suppliers(q, type), l[1]))})

\* mutant: the last place of the supply is not counted
ShortByOne(q, type) ==
    Demanding(q, type) # {} /\ Supply(q, type) <= q.days * Cardinality(Demanding(q, type))

Short(q, type) == Supply(q, type) < q.days * Cardinality(Demanding(q, type))

PartnerPlacements(q) ==
    {l \in Key(q) \X Place : l[2] \in Options(q, l[1]) /\ stop[l[2]].partner}

Diagnosed(q) ==
    \/ q.days < 1
    \/ \E k \in Key(q) : q.ladder[k[2]].required /\ Options(q, k) = {}
    \/ \A k \in Key(q) : Options(q, k) = {}
    \/ \E type \in Types :
         \/ Cardinality(Demanding(q, type)) > q.perType
         \/ Short(q, type)
    \/ Cardinality(PartnerPlacements(q)) < q.partners

-----------------------------------------------------------------------------
(* The model CP-SAT is given.                                               *)

Price(ks, f) == MapThenSumSet(LAMBDA k : stop[f[k]].band, ks)

\* Slots of a day with no slot of the ladder between them.
Neighbours(a, b) == a[1] = b[1] /\ b[2] = a[2] + 1

Reaches(f, t, a, b) == t[b] >= t[a] + stop[f[a]].dwell + Leg[<<f[a], f[b]>>]

\* A slot is filled at most once, from its options; no place twice; the caps and
\* ceilings.
Allowed(q, f) ==
    LET used == Filled(q, f) IN
    /\ \A k \in Key(q) : q.ladder[k[2]].required => k \in used
    /\ \A j, k \in used : f[j] = f[k] => j = k
    /\ \A d \in DaysOf(q), type \in Types :
         Cardinality({k \in used : k[1] = d /\ stop[f[k]].type = type}) <= q.perType
    /\ \A o \in Orgs : Cardinality({k \in used : stop[f[k]].org = o}) <= q.perOrg
    /\ Within(Price(used, f), q.budget)
    /\ Cardinality({k \in used : stop[f[k]].partner}) >= q.partners

\* Arrivals within the windows of the places, and never backwards in a day; the
\* travel between neighbours that are both filled.
Timed(q, f, t) ==
    LET used == Filled(q, f) IN
    /\ \A k \in used : t[k] \in ArrivalWindow(f[k], q.ladder[k[2]], WeekdayOf(q, k[1]))
    /\ \A a, b \in Key(q) : Neighbours(a, b) =>
         /\ t[a] <= t[b]
         /\ a \in used /\ b \in used => Reaches(f, t, a, b)

Fillings(q) == {f \in [Key(q) -> Place \cup {NoPlace}] :
                  \A k \in Key(q) : f[k] \in Options(q, k) \cup {NoPlace}}
Arrivals(q) ==
    LET minutes == [i \in DOMAIN q.ladder |-> q.ladder[i].opens .. q.ladder[i].closes] IN
    {t \in [Key(q) -> UNION Range(minutes)] : \A k \in Key(q) : t[k] \in minutes[k[2]]}

-----------------------------------------------------------------------------
ItineraryInit ==
    /\ request \in Request
    /\ outcome = "asked" /\ fills = <<>> /\ arrives = <<>>

Refuses ==
    /\ outcome = "asked" /\ Diagnosed(request)
    /\ outcome' = "refused"
    /\ UNCHANGED <<request, fills, arrives>>

\* INFEASIBLE, or UNKNOWN when max_solve_seconds are over.
GivesUp ==
    /\ outcome = "asked" /\ ~Diagnosed(request)
    /\ outcome' = "unsolved"
    /\ UNCHANGED <<request, fills, arrives>>

\* OPTIMAL, or FEASIBLE when the time is over: any solution may come back.
Plans ==
    /\ outcome = "asked" /\ ~Diagnosed(request)
    /\ \E f \in Fillings(request) :
         /\ Allowed(request, f)
         /\ fills' = f
         /\ arrives' \in {t \in Arrivals(request) : Timed(request, f, t)}
    /\ outcome' = "planned"
    /\ UNCHANGED request

ItineraryNext == Refuses \/ GivesUp \/ Plans

ItinerarySpec == ItineraryInit /\ [][ItineraryNext]_itineraryVars

-----------------------------------------------------------------------------
(* The validator's rules, of the plan as it was extracted.                  *)

Used == Filled(request, fills)
At(k) == stop[fills[k]]
SlotOf(k) == request.ladder[k[2]]
Leaves(k) == arrives[k] + At(k).dwell

RequiredFilled == \A k \in Key(request) : SlotOf(k).required => k \in Used
NoneTwice == \A j, k \in Used : fills[j] = fills[k] => j = k
TypesFit == \A k \in Used : At(k).type \in SlotOf(k).types

\* No closed venues: the whole visit lies in one opening interval of the day,
\* whichever interval that is.
OpenThroughout ==
    \A k \in Used : HasHours(fills[k]) =>
        LET h == HoursOn(fills[k], WeekdayOf(request, k[1])) IN
        \E i \in DOMAIN h : h[i].opens <= arrives[k] /\ Leaves(k) <= h[i].closes

InWindow == \A k \in Used : arrives[k] \in SlotOf(k).opens .. SlotOf(k).closes
PartySuited == \A k \in Used : Suits(request, fills[k])
TypesCapped ==
    \A d \in DaysOf(request), type \in Types :
        Cardinality({k \in Used : k[1] = d /\ At(k).type = type}) <= request.perType
OrgsCapped == \A o \in Orgs : Cardinality({k \in Used : At(k).org = o}) <= request.perOrg
BudgetKept == Within(Price(Used, fills), request.budget)
PartnersPlaced == Cardinality({k \in Used : At(k).partner}) >= request.partners

\* The stop before k on its day, with or without empty slots between.
Precedes(j, k) ==
    j[1] = k[1] /\ j[2] < k[2] /\ \A i \in Used : i[1] = k[1] => ~(j[2] < i[2] /\ i[2] < k[2])
Legs(d) == {l \in Used \X Used : l[1][1] = d /\ Precedes(l[1], l[2])}
LegMade(j, k) == arrives[k] - Leaves(j) >= Leg[<<fills[j], fills[k]>>]

LegsMade == \A d \in DaysOf(request) : \A l \in Legs(d) : LegMade(l[1], l[2])
TravelKept ==
    \A d \in DaysOf(request) :
        Within(MapThenSumSet(LAMBDA l : Leg[<<fills[l[1]], fills[l[2]]>>], Legs(d)), request.maxTravel)

\* An answer of the solver passes the rules of the validator that its model speaks
\* of, each derived anew from the request and the places: all but the travel budget
\* of a day, and of the legs those between slots next to each other in the ladder.
PlanKeepsRules ==
    outcome = "planned" =>
        /\ RequiredFilled /\ NoneTwice /\ TypesFit /\ OpenThroughout /\ InWindow
        /\ PartySuited /\ TypesCapped /\ OrgsCapped /\ BudgetKept /\ PartnersPlaced
        /\ \A j, k \in Used : Precedes(j, k) /\ k[2] = j[2] + 1 => LegMade(j, k)

\* A request that is refused with a reason has no plan, of one stop or more, that
\* the model would have accepted: the arithmetic never turns away what a search
\* would have found.
PrecheckIsSound ==
    outcome = "refused" =>
        \A f \in Fillings(request) : Filled(request, f) # {} /\ Allowed(request, f) =>
            \A t \in Arrivals(request) : ~Timed(request, f, t)

\* The solver "never returns a partially-valid one" (solver.py:276): its answer
\* passes every rule of the validator.
PlanIsValid == outcome = "planned" => PlanKeepsRules /\ LegsMade /\ TravelKept
=============================================================================
