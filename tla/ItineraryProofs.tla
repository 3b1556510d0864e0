---------------------------- MODULE ItineraryProofs ----------------------------
(***************************************************************************)
(* An itinerary is planned by the rules and refused only for a reason,     *)
(* proved for every set of places, every ladder of slots and every         *)
(* request.                                                                *)
(***************************************************************************)
EXTENDS Itinerary, FiniteSetTheorems, SequenceTheorems, TLAPS

-----------------------------------------------------------------------------
(* Numbers.                                                                *)

(* Min and Max of two numbers bound both.                                  *)
LEMMA MinOfTwo ==
  ASSUME NEW a \in Int, NEW b \in Int
  PROVE  Min({a, b}) \in Int /\ Min({a, b}) <= a /\ Min({a, b}) <= b
<1>1. \E x \in {a, b} : \A y \in {a, b} : x <= y
  <2>1. CASE a <= b
    BY <2>1
  <2>2. CASE ~(a <= b)
    BY <2>2
  <2> QED BY <2>1, <2>2
<1>2. Min({a, b}) \in {a, b} /\ \A y \in {a, b} : Min({a, b}) <= y
  BY <1>1 DEF Min
<1> QED BY <1>2

(* The greater of two numbers, likewise.                                   *)
LEMMA MaxOfTwo ==
  ASSUME NEW a \in Int, NEW b \in Int
  PROVE  Max({a, b}) \in Int /\ Max({a, b}) >= a /\ Max({a, b}) >= b
<1>1. \E x \in {a, b} : \A y \in {a, b} : x >= y
  <2>1. CASE a <= b
    BY <2>1
  <2>2. CASE ~(a <= b)
    BY <2>2
  <2> QED BY <2>1, <2>2
<1>2. Max({a, b}) \in {a, b} /\ \A y \in {a, b} : Max({a, b}) >= y
  BY <1>1 DEF Max
<1> QED BY <1>2

(* A set of numbers with a lower bound has a least one.                    *)
LEMMA LeastNumber ==
  ASSUME NEW S \in SUBSET Int, S # {}, NEW b \in Int, \A s \in S : b <= s
  PROVE  \E n \in S : \A m \in S : n <= m
<1> DEFINE R == {ss \in Nat \X Nat : ss[1] < ss[2]}
           T == {n \in Nat : \E s \in S : n = s - b}
<1>1. IsWellFoundedOn(R, Nat)
  BY NatLessThanWellFounded DEF OpToRel
<1>2. T \in SUBSET Nat /\ \A s \in S : s - b \in T
  OBVIOUS
<1>3. PICK t \in T : \A u \in T : ~(<<u, t>> \in R)
  <2> HIDE DEF R, T
  <2> QED BY <1>1, <1>2, WFMin
<1>4. PICK n \in S : t = n - b
  BY <1>3
<1>5. ASSUME NEW m \in S PROVE n <= m
  <2>1. m - b \in T /\ m - b \in Nat /\ t \in Nat
    BY <1>2, <1>3
  <2> HIDE DEF T
  <2>2. ~(m - b < t)
    BY <1>3, <2>1
  <2> QED BY <2>1, <2>2, <1>4
<1> QED BY <1>5

-----------------------------------------------------------------------------
(* The windows.                                                            *)

(* Of opening hours that are not empty there is one the slot overlaps most. *)
LEMMA BestIsOne ==
  ASSUME NEW h \in Seq([opens : Int, closes : Int]), h # <<>>,
         NEW s, s.opens \in Int, s.closes \in Int
  PROVE  Best(h, s) \in DOMAIN h
<1> DEFINE O(i) == Overlap(h[i], s)
<1>1. DOMAIN h # {} /\ DOMAIN h \subseteq Int
  <2>1. Len(h) \in Nat /\ DOMAIN h = 1 .. Len(h) /\ Len(h) # 0
    BY EmptySeq, LenProperties
  <2>2. 1 \in DOMAIN h /\ \A i \in 1 .. Len(h) : i \in Int
    BY <2>1
  <2> QED BY <2>1, <2>2
<1>0. ASSUME NEW i \in DOMAIN h PROVE h[i].opens \in Int /\ h[i].closes \in Int
  <2>1. h[i] \in [opens : Int, closes : Int]
    BY LenProperties, ElementOfSeq
  <2> QED BY <2>1
<1>2. ASSUME NEW i \in DOMAIN h PROVE O(i) \in Int
  <2>1. Min({h[i].closes, s.closes}) \in Int /\ Max({h[i].opens, s.opens}) \in Int
    BY <1>0, MinOfTwo, MaxOfTwo
  <2> QED BY <2>1 DEF Overlap
<1>3. PICK n \in Int : \E i \in DOMAIN h : n = O(i) /\ \A j \in DOMAIN h : O(j) <= n
  <2> DEFINE N == {- O(i) : i \in DOMAIN h}
             b == - (s.closes - s.opens)
  <2>1. N \in SUBSET Int /\ N # {} /\ b \in Int
    BY <1>1, <1>2
  <2>2. ASSUME NEW i \in DOMAIN h PROVE b <= - O(i)
    <3>1. h[i].opens \in Int /\ h[i].closes \in Int
      BY <1>0
    <3>2. Min({h[i].closes, s.closes}) <= s.closes /\ Max({h[i].opens, s.opens}) >= s.opens
      BY <3>1, MinOfTwo, MaxOfTwo
    <3>3. Min({h[i].closes, s.closes}) \in Int /\ Max({h[i].opens, s.opens}) \in Int
      BY <3>1, MinOfTwo, MaxOfTwo
    <3> QED BY <3>2, <3>3 DEF Overlap
  <2>3. PICK m \in N : \A x \in N : m <= x
    <3>1. \A x \in N : b <= x
      BY <2>2
    <3> HIDE DEF N, b
    <3> QED BY <2>1, <3>1, LeastNumber
  <2>4. PICK i \in DOMAIN h : m = - O(i)
    BY <2>3
  <2>5. ASSUME NEW j \in DOMAIN h PROVE O(j) <= O(i)
    <3>1. - O(i) <= - O(j)
      BY <2>3, <2>4
    <3> HIDE DEF O
    <3> QED BY <3>1, <1>2
  <2> QED BY <2>4, <2>5, <1>2
<1>4. PICK i \in {j \in DOMAIN h : O(j) = n} : \A j \in {j \in DOMAIN h : O(j) = n} : i <= j
  <2>1. \A j \in DOMAIN h : 1 <= j
    <3>1. Len(h) \in Nat /\ DOMAIN h = 1 .. Len(h)
      OBVIOUS
    <3> QED BY <3>1
  <2> DEFINE T == {j \in DOMAIN h : O(j) = n}
  <2>2. T \in SUBSET Int /\ T # {} /\ 1 \in Int /\ \A j \in T : 1 <= j
    BY <1>1, <1>3, <2>1
  <2> HIDE DEF T
  <2>3. \E i \in T : \A j \in T : i <= j
    BY <2>2, LeastNumber
  <2> QED BY <2>3 DEF T
<1>5. ASSUME NEW j \in DOMAIN h PROVE O(j) < O(i) \/ (O(j) = O(i) /\ i <= j)
  BY <1>2, <1>3, <1>4, <1>5
<1>6. i \in DOMAIN h
  BY <1>4
<1> QED BY <1>5, <1>6 DEF Best

(* A visit in its window begins in the slot and lies in one opening        *)
(* interval of the day, where the hours are known.                         *)
LEMMA WindowIsOpen ==
  ASSUME NEW p \in Place, NEW s, s.opens \in Int, s.closes \in Int,
         NEW w, NEW t \in ArrivalWindow(p, s, w)
  PROVE  /\ t \in Int
         /\ HasHours(p) =>
              \E i \in DOMAIN HoursOn(p, w) :
                /\ HoursOn(p, w)[i].opens <= t
                /\ t + stop[p].dwell <= HoursOn(p, w)[i].closes
<1> DEFINE h == HoursOn(p, w)
           d == stop[p].dwell
<1>1. d \in Int /\ h \in Seq([opens : Int, closes : Int])
  BY ItineraryAssumption DEF HoursOn
<1>2. ASSUME NEW x, x.opens \in Int, x.closes \in Int, t \in Times(s, x, d)
      PROVE  t \in Int /\ x.opens <= t /\ t + d <= x.closes
  <2>1. /\ Max({s.opens, x.opens}) \in Int /\ Max({s.opens, x.opens}) >= x.opens
        /\ Min({s.closes, x.closes}) \in Int /\ Min({s.closes, x.closes}) <= x.closes
    BY <1>2, MinOfTwo, MaxOfTwo
  <2> HIDE DEF d
  <2> QED BY <1>1, <1>2, <2>1 DEF Times
<1> HIDE DEF d
<1>3. CASE h # <<>>
  <2>1. Best(h, s) \in DOMAIN h
    BY <1>1, <1>3, BestIsOne
  <2>2. t \in Times(s, h[Best(h, s)], d)
    BY <1>3 DEF ArrivalWindow, d
  <2>3. h[Best(h, s)] \in [opens : Int, closes : Int]
    BY <1>1, <2>1, LenProperties, ElementOfSeq
  <2> HIDE DEF h
  <2> QED BY <1>2, <2>1, <2>2, <2>3 DEF h, d
<1>4. CASE h = <<>>
  <2>1. ~HasHours(p) /\ t \in Times(s, s, d)
    BY <1>4 DEF ArrivalWindow, d
  <2> QED BY <1>2, <2>1
<1> QED BY <1>3, <1>4

-----------------------------------------------------------------------------
(* The plan.                                                               *)

(* What a slot of a day and its filling are: the slot has times, the stop  *)
(* was eligible for it.                                                    *)
LEMMA FilledFromEligible ==
  ASSUME NEW q \in Request, NEW f \in Fillings(q), NEW k \in Filled(q, f)
  PROVE  /\ k \in Key(q) /\ k = <<k[1], k[2]>>
         /\ k[1] \in DaysOf(q) /\ k[2] \in DOMAIN q.ladder
         /\ q.ladder[k[2]].opens \in Int /\ q.ladder[k[2]].closes \in Int
         /\ f[k] \in Options(q, k) /\ f[k] \in Eligible(q, k) /\ f[k] \in Place
<1>1. k \in Key(q) /\ f[k] # NoPlace
  BY DEF Filled
<1>2. k = <<k[1], k[2]>> /\ k[1] \in DaysOf(q) /\ k[2] \in DOMAIN q.ladder
  BY <1>1 DEF Key
<1>3. q.ladder[k[2]] \in Range(q.ladder)
  BY <1>2 DEF Range
<1>4. f[k] \in Options(q, k)
  BY <1>1 DEF Fillings
<1>5. f[k] \in Eligible(q, k)
  BY <1>4 DEF Options
<1>6. f[k] \in Place
  BY <1>5 DEF Eligible
<1> QED BY <1>1, <1>2, <1>3, <1>4, <1>5, <1>6, ItineraryAssumption

(* A filling the model allows, with arrivals it allows, passes the rules.  *)
(* What the model said of the best opening interval the rules ask of any.  *)
LEMMA AllowedKeepsRules ==
  ASSUME request \in Request, fills \in Fillings(request), arrives \in Arrivals(request),
         Allowed(request, fills), Timed(request, fills, arrives)
  PROVE  PlanKeepsRules
<1> DEFINE Window(k) == ArrivalWindow(fills[k], SlotOf(k), WeekdayOf(request, k[1]))
<1>1. ASSUME NEW k \in Used
      PROVE  /\ k \in Key(request) /\ k[2] \in DOMAIN request.ladder
             /\ SlotOf(k).opens \in Int /\ SlotOf(k).closes \in Int
             /\ fills[k] \in Eligible(request, k) /\ fills[k] \in Place
             /\ arrives[k] \in Window(k)
  BY <1>1, FilledFromEligible DEF Used, SlotOf, Timed
<1>2. RequiredFilled /\ NoneTwice /\ TypesCapped /\ OrgsCapped /\ BudgetKept /\ PartnersPlaced
  BY DEF RequiredFilled, NoneTwice, TypesCapped, OrgsCapped, BudgetKept, PartnersPlaced,
         Allowed, Used, SlotOf, At
<1>3. TypesFit /\ PartySuited
  BY <1>1 DEF Eligible, TypesFit, PartySuited, SlotOf, At
<1>4. OpenThroughout
  <2> SUFFICES ASSUME NEW k \in Used, HasHours(fills[k])
               PROVE  \E i \in DOMAIN HoursOn(fills[k], WeekdayOf(request, k[1])) :
                        /\ HoursOn(fills[k], WeekdayOf(request, k[1]))[i].opens <= arrives[k]
                        /\ Leaves(k) <= HoursOn(fills[k], WeekdayOf(request, k[1]))[i].closes
    BY DEF OpenThroughout
  <2> QED BY <1>1, WindowIsOpen DEF Leaves, At
<1>5. InWindow
  <2> SUFFICES ASSUME NEW k \in Used PROVE arrives[k] \in SlotOf(k).opens .. SlotOf(k).closes
    BY DEF InWindow
  <2> QED BY <1>1 DEF Arrivals, SlotOf
<1>6. ASSUME NEW j \in Used, NEW k \in Used, Precedes(j, k), k[2] = j[2] + 1 PROVE LegMade(j, k)
  <2>1. Neighbours(j, k) /\ Reaches(fills, arrives, j, k)
    BY <1>1, <1>6 DEF Neighbours, Precedes, Timed, Used
  <2>2. arrives[j] \in Int /\ arrives[k] \in Int
    BY <1>1, WindowIsOpen
  <2>3. At(j).dwell \in Int /\ Leg[<<fills[j], fills[k]>>] \in Int
    BY <1>1, ItineraryAssumption DEF At
  <2> QED BY <2>1, <2>2, <2>3 DEF LegMade, Leaves, Reaches, At
<1> QED BY <1>2, <1>3, <1>4, <1>5, <1>6 DEF PlanKeepsRules

-----------------------------------------------------------------------------
(* Counting.                                                               *)

(* What can be told apart by members of a finite set is no more than they. *)
LEMMA NoMoreThan ==
  ASSUME NEW S, NEW T, IsFiniteSet(T), NEW g \in [S -> T],
         \A x, y \in S : g[x] = g[y] => x = y
  PROVE  /\ IsFiniteSet(S)
         /\ Cardinality(S) \in Nat /\ Cardinality(T) \in Nat
         /\ Cardinality(S) <= Cardinality(T)
<1>1. g \in Injection(S, T)
  BY DEF Injection, IsInjective
<1> QED BY <1>1, FS_Injection, FS_CardinalityType

(* A part of a finite set is finite and no larger.                         *)
LEMMA PartOf ==
  ASSUME NEW S, IsFiniteSet(S), NEW T, T \subseteq S
  PROVE  /\ IsFiniteSet(T)
         /\ Cardinality(S) \in Nat /\ Cardinality(T) \in Nat
         /\ Cardinality(T) <= Cardinality(S)
  BY FS_Subset, FS_CardinalityType

(* The members of a finite set can be numbered from 1.                     *)
LEMMA Numbering ==
  ASSUME NEW S, IsFiniteSet(S)
  PROVE  \E g \in [S -> 1 .. Cardinality(S)] : \A x, y \in S : g[x] = g[y] => x = y
<1> DEFINE n == Cardinality(S)
<1>1. n \in Nat /\ IsFiniteSet(1 .. n) /\ Cardinality(1 .. n) = n
  BY FS_CardinalityType, FS_Interval
<1>2. ExistsBijection(S, 1 .. n)
  BY <1>1, FS_SameCardinalityBij
<1> QED BY <1>2 DEF ExistsBijection, Bijection, Injection, IsInjective

-----------------------------------------------------------------------------
(* The refusals.                                                           *)

(* A request has finitely many slots, and finitely many of them are filled. *)
LEMMA SlotsAreFinite ==
  ASSUME NEW q \in Request, NEW f
  PROVE  /\ IsFiniteSet(DaysOf(q)) /\ IsFiniteSet(DOMAIN q.ladder)
         /\ IsFiniteSet(Key(q)) /\ IsFiniteSet(Filled(q, f))
         /\ q.days >= 0 => Cardinality(DaysOf(q)) = q.days
<1>1. q.days \in Int /\ q.days - 1 \in Int
  BY ItineraryAssumption
<1>2. IsFiniteSet(DaysOf(q)) /\ (q.days >= 0 => Cardinality(DaysOf(q)) = q.days)
  <2>1. IsFiniteSet(0 .. q.days - 1)
        /\ Cardinality(0 .. q.days - 1) = IF 0 > q.days - 1 THEN 0 ELSE (q.days - 1) - 0 + 1
    <3> HIDE DEF DaysOf
    <3>1. 0 \in Int
      OBVIOUS
    <3> QED BY <1>1, <3>1, FS_Interval
  <2> QED BY <1>1, <2>1 DEF DaysOf
<1>3. Len(q.ladder) \in Nat /\ DOMAIN q.ladder = 1 .. Len(q.ladder)
  <2>1. q.ladder \in Seq(Range(q.ladder))
    BY ItineraryAssumption
  <2> QED BY <2>1, LenProperties
<1>4. IsFiniteSet(DOMAIN q.ladder)
  BY <1>3, FS_Interval
<1>5. IsFiniteSet(Key(q))
  BY <1>2, <1>4, FS_Product DEF Key
<1>6. IsFiniteSet(Filled(q, f))
  BY <1>5, FS_Subset DEF Filled
<1> QED BY <1>2, <1>4, <1>5, <1>6

(* Every demanding slot of every day is filled, with a stop of the one     *)
(* type it takes.                                                          *)
LEMMA DemandIsFilled ==
  ASSUME NEW q \in Request, NEW f \in Fillings(q), Allowed(q, f), NEW type,
         NEW d \in DaysOf(q), NEW i \in Demanding(q, type)
  PROVE  /\ <<d, i>> \in Filled(q, f)
         /\ f[<<d, i>>] \in Suppliers(q, type) /\ f[<<d, i>>] \in Place
         /\ stop[f[<<d, i>>]].type = type
<1> DEFINE k == <<d, i>>
<1>1. k \in Key(q) /\ k[1] = d /\ k[2] = i /\ q.ladder[i].required /\ q.ladder[i].types = {type}
  BY DEF Key, Demanding
<1>2. k \in Filled(q, f)
  BY <1>1 DEF Allowed
<1>3. f[k] \in Options(q, k) /\ f[k] \in Eligible(q, k) /\ f[k] \in Place
  BY <1>2, FilledFromEligible
<1>4. stop[f[k]].type = type
  BY <1>1, <1>3 DEF Eligible
<1>5. f[k] \in Suppliers(q, type)
  BY <1>1, <1>3 DEF Suppliers
<1> QED BY <1>2, <1>3, <1>4, <1>5

(* The demanding slots of one day fit under the cap per type.              *)
LEMMA DemandFitsCap ==
  ASSUME NEW q \in Request, NEW f \in Fillings(q), Allowed(q, f),
         q.days >= 1, NEW type \in Types
  PROVE  Cardinality(Demanding(q, type)) <= q.perType
<1> DEFINE D == Demanding(q, type)
           S == {k \in Filled(q, f) : k[1] = 0 /\ stop[f[k]].type = type}
           g == [i \in D |-> <<0, i>>]
<1>1. 0 \in DaysOf(q)
  BY ItineraryAssumption DEF DaysOf
<1>2. g \in [D -> S] /\ \A x, y \in D : g[x] = g[y] => x = y
  BY <1>1, DemandIsFilled
<1>3. IsFiniteSet(S)
  BY SlotsAreFinite, PartOf
<1>4. Cardinality(S) <= q.perType
  BY <1>1 DEF Allowed
<1>5. q.perType \in Int
  BY ItineraryAssumption
<1> HIDE DEF S, g
<1> QED BY <1>2, <1>3, <1>4, <1>5, NoMoreThan

(* The placements of partners that the options leave are enough.           *)
LEMMA PartnersFit ==
  ASSUME NEW q \in Request, NEW f \in Fillings(q), Allowed(q, f)
  PROVE  ~(Cardinality(PartnerPlacements(q)) < q.partners)
<1> DEFINE S == {k \in Filled(q, f) : stop[f[k]].partner}
           T == PartnerPlacements(q)
           g == [k \in S |-> <<k, f[k]>>]
<1>1. g \in [S -> T] /\ \A x, y \in S : g[x] = g[y] => x = y
  BY FilledFromEligible DEF PartnerPlacements
<1>2. IsFiniteSet(Key(q) \X Place)
  BY SlotsAreFinite, ItineraryAssumption, FS_Product
<1>3. IsFiniteSet(T)
  BY <1>2, PartOf DEF PartnerPlacements
<1>4. Cardinality(S) >= q.partners
  BY DEF Allowed
<1>5. q.partners \in Int
  BY ItineraryAssumption
<1> HIDE DEF S, g, T
<1> QED BY <1>1, <1>3, <1>4, <1>5, NoMoreThan DEF T

(* The stops the supply counts are enough for every demanding slot of the  *)
(* trip.  The slots filled without an organisation have each a stop        *)
(* of their own among those without; of the others each has the number of  *)
(* its slot among those of the same organisation, which is below both the  *)
(* cap and the number of stops that organisation has.                      *)
LEMMA DemandIsSupplied ==
  ASSUME NEW q \in Request, NEW f \in Fillings(q), Allowed(q, f),
         q.days >= 1, NEW type
  PROVE  ~Short(q, type)
<1> DEFINE D == Demanding(q, type)
           U == Suppliers(q, type)
           K == DaysOf(q) \X D
           org(k) == stop[f[k]].org
           Free == {k \in K : org(k) = NoOrg}
           Chain(o) == {k \in K : org(k) = o}
           Tied == {k \in K : org(k) # NoOrg}
           Places == {l \in Orgs \X (1 .. q.perOrg) : l[2] <= Cardinality(OfOrg(U, l[1]))}
<1>1. /\ K \subseteq Filled(q, f) /\ K \subseteq Key(q)
      /\ \A k \in K : f[k] \in U /\ f[k] \in Place
      /\ \A j, k \in K : f[j] = f[k] => j = k
  <2>1. ASSUME NEW k \in K PROVE k \in Filled(q, f) /\ k \in Key(q) /\ f[k] \in U /\ f[k] \in Place
    <3>1. PICK d \in DaysOf(q), i \in D : k = <<d, i>>
      OBVIOUS
    <3>2. k \in Filled(q, f) /\ f[k] \in U /\ f[k] \in Place
      BY <3>1, DemandIsFilled
    <3> QED BY <3>2 DEF Filled
  <2>2. \A j, k \in Filled(q, f) : f[j] = f[k] => j = k
    BY DEF Allowed
  <2> HIDE DEF K, U
  <2> QED BY <2>1, <2>2
<1>2. U \subseteq Place
  BY DEF Suppliers, Options, Eligible
<1>3. IsFiniteSet(D) /\ IsFiniteSet(K) /\ IsFiniteSet(U)
      /\ Cardinality(K) = q.days * Cardinality(D)
  <2>1. IsFiniteSet(D)
    <3>1. D \subseteq DOMAIN q.ladder /\ IsFiniteSet(DOMAIN q.ladder)
      BY SlotsAreFinite DEF Demanding
    <3> HIDE DEF D
    <3> QED BY <3>1, PartOf
  <2>2. IsFiniteSet(DaysOf(q)) /\ Cardinality(DaysOf(q)) = q.days
    <3>1. q.days >= 0
      BY ItineraryAssumption
    <3> QED BY <3>1, SlotsAreFinite
  <2>3. IsFiniteSet(U)
    BY <1>2, ItineraryAssumption, PartOf
  <2> HIDE DEF D, U
  <2> QED BY <2>1, <2>2, <2>3, FS_Product
<1>4. \A o : IsFiniteSet(OfOrg(U, o)) /\ IsFiniteSet(Chain(o))
  BY <1>3, PartOf DEF OfOrg
<1>5. \A o : Cardinality(Chain(o)) \in Nat /\ Cardinality(OfOrg(U, o)) \in Nat
             /\ Cardinality(Chain(o)) <= Cardinality(OfOrg(U, o))
  <2> SUFFICES ASSUME NEW o
               PROVE  /\ Cardinality(Chain(o)) \in Nat /\ Cardinality(OfOrg(U, o)) \in Nat
                      /\ Cardinality(Chain(o)) <= Cardinality(OfOrg(U, o))
    OBVIOUS
  <2> DEFINE g == [k \in Chain(o) |-> f[k]]
             T == OfOrg(U, o)
  <2>1. g \in [Chain(o) -> T] /\ \A x, y \in Chain(o) : g[x] = g[y] => x = y
    BY <1>1 DEF OfOrg
  <2>2. IsFiniteSet(T)
    BY <1>4
  <2> HIDE DEF g, T, Chain
  <2>3. Cardinality(Chain(o)) \in Nat /\ Cardinality(T) \in Nat /\ Cardinality(Chain(o)) <= Cardinality(T)
    BY <2>1, <2>2, NoMoreThan
  <2> QED BY <2>3 DEF T
<1>6. \A o \in Orgs : Cardinality(Chain(o)) <= q.perOrg
  <2> SUFFICES ASSUME NEW o \in Orgs PROVE Cardinality(Chain(o)) <= q.perOrg
    OBVIOUS
  <2> DEFINE S == {k \in Filled(q, f) : stop[f[k]].org = o}
  <2>1. Cardinality(S) <= q.perOrg
    BY DEF Allowed
  <2>2. Chain(o) \subseteq S /\ IsFiniteSet(S)
    BY <1>1, SlotsAreFinite, PartOf
  <2>3. q.perOrg \in Int
    BY ItineraryAssumption
  <2> HIDE DEF S, Chain
  <2> QED BY <2>1, <2>2, <2>3, PartOf
<1> DEFINE Number(o, g) == /\ g \in [Chain(o) -> 1 .. Cardinality(Chain(o))]
                           /\ \A x, y \in Chain(o) : g[x] = g[y] => x = y
           num(o) == CHOOSE g : Number(o, g)
<1>7. \A o : Number(o, num(o))
  <2> SUFFICES ASSUME NEW o PROVE Number(o, num(o))
    OBVIOUS
  <2>1. \E g : Number(o, g)
    <3> HIDE DEF Chain
    <3> QED BY <1>4, Numbering
  <2> HIDE DEF Number
  <2> QED BY <2>1
<1>8. Cardinality(Tied) <= Cardinality(Places) /\ Cardinality(Tied) \in Nat /\ Cardinality(Places) \in Nat
  <2> DEFINE g == [k \in Tied |-> <<org(k), num(org(k))[k]>>]
  <2>1. ASSUME NEW k \in Tied
        PROVE  /\ k \in Chain(org(k)) /\ org(k) \in Orgs
               /\ num(org(k))[k] \in 1 .. q.perOrg
               /\ num(org(k))[k] <= Cardinality(OfOrg(U, org(k)))
    <3>1. k \in Chain(org(k)) /\ org(k) \in Orgs
      BY <1>1 DEF Orgs
    <3>2. num(org(k))[k] \in 1 .. Cardinality(Chain(org(k)))
      <4> HIDE DEF num, Chain
      <4> QED BY <1>7, <3>1
    <3>3. q.perOrg \in Nat
      BY ItineraryAssumption
    <3> HIDE DEF Chain, num, org, U
    <3> QED BY <1>5, <1>6, <3>1, <3>2, <3>3
  <2>2. g \in [Tied -> Places]
    <3> HIDE DEF Chain, num, org, U, Tied
    <3> QED BY <2>1
  <2>3. ASSUME NEW x \in Tied, NEW y \in Tied, g[x] = g[y] PROVE x = y
    <3>1. org(x) = org(y) /\ num(org(x))[x] = num(org(y))[y]
      <4> HIDE DEF Chain, num, org, Tied
      <4> QED BY <2>3
    <3>2. x \in Chain(org(x)) /\ y \in Chain(org(x))
      BY <2>1, <3>1
    <3> HIDE DEF Chain, num, org, Tied, g
    <3> QED BY <1>7, <3>1, <3>2
  <2>4. IsFiniteSet(Places)
    <3>1. IsFiniteSet(Orgs)
      <4>1. Orgs \subseteq {stop[p].org : p \in Place}
        BY DEF Orgs
      <4>2. IsFiniteSet({stop[p].org : p \in Place})
        <5> DEFINE home == [p \in Place |-> stop[p].org]
                   T == {stop[p].org : p \in Place}
        <5>1. home \in Surjection(Place, T)
          BY DEF Surjection
        <5> HIDE DEF home, T
        <5>2. IsFiniteSet(T)
          BY <5>1, ItineraryAssumption, FS_Surjection
        <5> QED BY <5>2 DEF T
      <4> QED BY <4>1, <4>2, PartOf
    <3>2. IsFiniteSet(1 .. q.perOrg)
      <4>1. 1 \in Int /\ q.perOrg \in Int
        BY ItineraryAssumption
      <4> QED BY <4>1, FS_Interval
    <3>3. IsFiniteSet(Orgs \X (1 .. q.perOrg))
      BY <3>1, <3>2, FS_Product
    <3> QED BY <3>3, PartOf
  <2> HIDE DEF g, Tied, Places
  <2> QED BY <2>2, <2>3, <2>4, NoMoreThan
<1>9. Cardinality(K) = Cardinality(Free) + Cardinality(Tied)
  <2>1. Free \cup Tied = K /\ Free \cap Tied = {} /\ Free \subseteq K /\ Tied \subseteq K
    OBVIOUS
  <2> HIDE DEF Free, Tied, K
  <2>2. IsFiniteSet(Free) /\ IsFiniteSet(Tied)
    BY <1>3, <2>1, PartOf
  <2>3. Cardinality(Free \cup Tied) = Cardinality(Free) + Cardinality(Tied) - Cardinality(Free \cap Tied)
    BY <2>2, FS_Union
  <2>4. Cardinality(Free) \in Nat /\ Cardinality(Tied) \in Nat /\ Cardinality({}) = 0
    BY <2>2, FS_CardinalityType, FS_EmptySet
  <2>5. Cardinality(K) = Cardinality(Free) + Cardinality(Tied) - 0
    BY <2>1, <2>3, <2>4
  <2> QED BY <2>4, <2>5
<1>10. /\ Cardinality(Free) \in Nat /\ Cardinality(OfOrg(U, NoOrg)) \in Nat
       /\ Cardinality(Free) <= Cardinality(OfOrg(U, NoOrg))
  BY <1>5
<1>11. Supply(q, type) = Cardinality(OfOrg(U, NoOrg)) + Cardinality(Places)
  BY DEF Supply
<1> HIDE DEF K, D, U, Free, Tied, Places
<1>12. Cardinality(K) = q.days * Cardinality(D)
  BY <1>3
<1>13. ~(Supply(q, type) < Cardinality(K))
  BY <1>8, <1>9, <1>10, <1>11
<1> QED BY <1>12, <1>13 DEF D, Short

(* No plan of a stop or more passes the model when the request was refused *)
(* for a reason.                                                           *)
LEMMA DiagnosedHasNoPlan ==
  ASSUME NEW q \in Request, NEW f \in Fillings(q), Diagnosed(q),
         Filled(q, f) # {}, Allowed(q, f)
  PROVE  FALSE
<1>0. PICK k \in Filled(q, f) : TRUE
  OBVIOUS
<1>1. q.days >= 1
  <2>1. k[1] \in 0 .. q.days - 1 /\ q.days \in Int
    BY FilledFromEligible, ItineraryAssumption DEF DaysOf
  <2> QED BY <2>1
<1>2. ASSUME NEW j \in Key(q), q.ladder[j[2]].required, Options(q, j) = {} PROVE FALSE
  <2>1. j \in Filled(q, f)
    BY <1>2 DEF Allowed
  <2> QED BY <2>1, <1>2, FilledFromEligible
<1>3. Options(q, k) # {} /\ k \in Key(q)
  BY FilledFromEligible
<1>4. ASSUME NEW type \in Types, Cardinality(Demanding(q, type)) > q.perType PROVE FALSE
  <2>1. Cardinality(Demanding(q, type)) <= q.perType
    BY <1>1, DemandFitsCap
  <2>2. IsFiniteSet(Demanding(q, type))
    <3>1. Demanding(q, type) \subseteq DOMAIN q.ladder /\ IsFiniteSet(DOMAIN q.ladder)
      BY SlotsAreFinite DEF Demanding
    <3> QED BY <3>1, PartOf
  <2>3. Cardinality(Demanding(q, type)) \in Int /\ q.perType \in Int
    BY <2>2, FS_CardinalityType, ItineraryAssumption
  <2> QED BY <1>4, <2>1, <2>3
<1>5. ASSUME NEW type \in Types, Short(q, type) PROVE FALSE
  BY <1>1, <1>5, DemandIsSupplied
<1>6. ~(Cardinality(PartnerPlacements(q)) < q.partners)
  BY PartnersFit
<1>7. ~(q.days < 1)
  BY <1>1, ItineraryAssumption
<1> QED BY ONLY <1>2, <1>3, <1>4, <1>5, <1>6, <1>7, Diagnosed(q) DEF Diagnosed

-----------------------------------------------------------------------------
(* The answer to a request.                                                *)

(* A request is answered once: a plan is one the model allows, a refusal   *)
(* is of a request that is over-constrained.                               *)
AnswerInv ==
  /\ request \in Request
  /\ outcome = "planned" =>
       /\ fills \in Fillings(request) /\ arrives \in Arrivals(request)
       /\ Allowed(request, fills) /\ Timed(request, fills, arrives)
  /\ outcome = "refused" => Diagnosed(request)

(* The invariant behind both: nothing changes once a request is answered.  *)
THEOREM AnswerInvariant == ItinerarySpec => []AnswerInv
<1>1. ItineraryInit => AnswerInv
  BY DEF ItineraryInit, AnswerInv
<1>2. AnswerInv /\ [ItineraryNext]_itineraryVars => AnswerInv'
  <2> SUFFICES ASSUME AnswerInv, [ItineraryNext]_itineraryVars PROVE AnswerInv'
    OBVIOUS
  <2> USE DEF AnswerInv
  <2>1. CASE Refuses
    BY <2>1 DEF Refuses
  <2>2. CASE GivesUp
    BY <2>2 DEF GivesUp
  <2>3. CASE Plans
    BY <2>3 DEF Plans
  <2>4. CASE UNCHANGED itineraryVars
    BY <2>4 DEF itineraryVars
  <2> QED BY <2>1, <2>2, <2>3, <2>4 DEF ItineraryNext
<1> QED BY <1>1, <1>2, PTL DEF ItinerarySpec

(* The answer of the solver passes every rule of the validator that its    *)
(* model speaks of, for any places, ladder, caps, ceilings and hours.      *)
THEOREM PlanKeepsRulesForAll == ItinerarySpec => []PlanKeepsRules
<1>1. AnswerInv => PlanKeepsRules
  <2>1. CASE outcome = "planned"
    BY <2>1, AllowedKeepsRules DEF AnswerInv
  <2>2. CASE outcome # "planned"
    BY <2>2 DEF PlanKeepsRules
  <2> QED BY <2>1, <2>2
<1> QED BY <1>1, AnswerInvariant, PTL

(* The arithmetic of _precheck refuses no request a search would have      *)
(* found a plan for.                                                       *)
THEOREM PrecheckIsSoundForAll == ItinerarySpec => []PrecheckIsSound
<1>1. AnswerInv => PrecheckIsSound
  BY DiagnosedHasNoPlan DEF AnswerInv, PrecheckIsSound
<1> QED BY <1>1, AnswerInvariant, PTL
================================================================================
