---------------------------- MODULE PlacesProofs ----------------------------
(***************************************************************************)
(* The catalogue of places proved for any number of places, mentions and   *)
(* presses: what the duplicate run merges had cleared the gate, and what   *)
(* is merged, by the desk or the commands, stays one hop from its survivor *)
(* and can be given back with everything that hung on it.                  *)
(***************************************************************************)
EXTENDS PlaceDesk, Dedupe, SequenceTheorems, WellFoundedInduction, TLAPS

(* A pair that clears the gate as far as the names and marks go.           *)
Gate(l, s) == l # s /\ looks.band[{l, s}] = "same" /\ ~Apart(l, s)

(* Types of the rows and of the plan.                                      *)
DedupeTypeOK ==
  /\ row \in [Listed -> [status : RowStatus, into : 0 .. Rows]]
  /\ plan \in [made : BOOLEAN, merges : SUBSET (Listed \X Listed),
               queued : SUBSET SUBSET Listed]

(* What the run still has to merge was cleared when the plan was made, and *)
(* the names and marks it was cleared by do not change.                    *)
PlanIsCleared == \A m \in plan.merges : Gate(m[1], m[2])

DedupeInv == DedupeTypeOK /\ PlanIsCleared

-----------------------------------------------------------------------------
(* Every set of naturals that is not empty has a least element.            *)
LEMMA LeastElement ==
  ASSUME NEW T \in SUBSET Nat, T # {}
  PROVE  \E n \in T : \A m \in T : n <= m
<1> DEFINE R == {ss \in Nat \X Nat : ss[1] < ss[2]}
<1>1. IsWellFoundedOn(R, Nat)
  BY NatLessThanWellFounded DEF OpToRel
<1>2. PICK n \in T : \A m \in T : ~(<<m, n>> \in R)
  <2> HIDE DEF R
  <2> QED BY <1>1, WFMin
<1>3. \A m \in T : ~(m < n)
  BY <1>2
<1> QED BY <1>3

(* A row belongs to its own cluster.                                       *)
LEMMA ClusterHasItsRow ==
  ASSUME NEW st, NEW r \in Pool(st)
  PROVE  r \in Cluster(st, r) /\ Cluster(st, r) \subseteq Pool(st)
  BY DEF Cluster

(* survivor_key orders the rows of a cluster and one of them is the best:  *)
(* the first approved one, or the first if none is.                        *)
LEMMA SurvivorIsTheBest ==
  ASSUME NEW st \in [Listed -> RowStatus], NEW r \in Pool(st)
  PROVE  /\ Survivor(st, r) \in Cluster(st, r)
         /\ \A b \in Cluster(st, r) : Survivor(st, r) = b \/ Better(st, Survivor(st, r), b)
<1> DEFINE C == Cluster(st, r)
           A == {a \in C : st[a] = "active"}
<1>1. C \in SUBSET Nat /\ C # {} /\ A \in SUBSET Nat
  BY ClusterHasItsRow, DedupeAssumption DEF Pool, Listed
<1>4. \A b \in C : st[b] \in {"pending_review", "active"}
  BY ClusterHasItsRow DEF Pool, RowStatus
<1>2. \E a \in C : \A b \in C : a = b \/ Better(st, a, b)
  <2>1. CASE A # {}
    <3>1. PICK a \in A : \A b \in A : a <= b
      BY <1>1, <2>1, LeastElement
    <3>2. ASSUME NEW b \in C, a # b PROVE Better(st, a, b)
      <4>1. CASE b \in A
        <5>1. a < b
          BY <1>1, <3>1, <3>2, <4>1
        <5> QED BY <5>1, <4>1 DEF Better
      <4>2. CASE b \notin A
        BY <3>2, <4>2 DEF Better
      <4> QED BY <4>1, <4>2
    <3> QED BY <3>1, <3>2
  <2>2. CASE A = {}
    <3>1. PICK a \in C : \A b \in C : a <= b
      BY <1>1, LeastElement
    <3>2. ASSUME NEW b \in C, a # b PROVE a < b
      BY <1>1, <3>1, <3>2
    <3>3. \A b \in C : st[b] = "pending_review"
      BY <1>4, <2>2
    <3> HIDE DEF C, A
    <3> QED BY <3>1, <3>2, <3>3 DEF Better
  <2> QED BY <2>1, <2>2
<1> HIDE DEF C
<1> QED BY <1>2 DEF Survivor, C

(* The plan merges rows of the city into rows of the city, each pair       *)
(* cleared, and queues pairs of rows.                                      *)
LEMMA PlanOfClearedPairs ==
  ASSUME NEW st \in [Listed -> RowStatus]
  PROVE  /\ MergesOf(st) \in SUBSET (Listed \X Listed)
         /\ \A m \in MergesOf(st) : Gate(m[1], m[2])
         /\ QueueOf(st) \in SUBSET SUBSET Listed
<1>1. ASSUME NEW l \in Losers(st) PROVE l \in Listed /\ Survivor(st, l) \in Listed
  BY <1>1, SurvivorIsTheBest, ClusterHasItsRow DEF Losers, Pool
<1>2. \A l \in Losers(st) : Cleared(st, l) => Gate(l, Survivor(st, l))
  <2> SUFFICES ASSUME NEW l \in Losers(st), Cleared(st, l) PROVE Gate(l, Survivor(st, l))
    OBVIOUS
  <2>1. AutoEdge(st, l, Survivor(st, l))
    BY DEF Cleared
  <2>2. l # Survivor(st, l) /\ looks.band[{l, Survivor(st, l)}] = "same"
        /\ ~Guarded(st, l, Survivor(st, l))
    BY <2>1, Zenon DEF AutoEdge
  <2>3. ~Apart(l, Survivor(st, l))
    BY <2>2, Zenon DEF Guarded
  <2> QED BY <2>2, <2>3, Zenon DEF Gate
<1>3. QueueOf(st) \in SUBSET SUBSET Listed
  <2>1. \A p \in Pair : p \in SUBSET Listed
    BY DEF Pair
  <2>2. \A l \in Losers(st) : {l, Survivor(st, l)} \in SUBSET Listed
    BY <1>1
  <2> QED BY <2>1, <2>2 DEF QueueOf
<1> QED
  BY <1>1, <1>2, <1>3 DEF MergesOf

-----------------------------------------------------------------------------
(* One step per action.                                                    *)
LEMMA DedupeStep == DedupeInv /\ [DedupeNext]_dedupeVars => DedupeInv'
<1> SUFFICES ASSUME DedupeInv, [DedupeNext]_dedupeVars PROVE DedupeInv'
  OBVIOUS
<1> USE DEF DedupeInv, DedupeTypeOK, PlanIsCleared, Gate, Apart
<1>1. CASE PlansDedupe
  <2>1. plan' = [made |-> TRUE, merges |-> MergesOf(Statuses), queued |-> QueueOf(Statuses)]
        /\ UNCHANGED <<row, looks>>
    BY <1>1 DEF PlansDedupe
  <2>2a. Statuses \in [Listed -> RowStatus]
    BY DEF Statuses, RowStatus
  <2>2. MergesOf(Statuses) \in SUBSET (Listed \X Listed) /\ QueueOf(Statuses) \in SUBSET SUBSET Listed
        /\ \A m \in MergesOf(Statuses) : Gate(m[1], m[2])
    BY <2>2a, PlanOfClearedPairs
  <2> QED BY <2>1, <2>2
<1>2. CASE AppliesNext
  <2>1. PICK m \in plan.merges :
          /\ plan' = [plan EXCEPT !.merges = @ \ {m}]
          /\ row' = IF row[m[1]].into = 0 /\ row[m[2]].into = 0 /\ row[m[1]].status # "active"
                    THEN [r \in Listed |->
                            IF r = m[1] \/ row[r].into = m[1] THEN [row[r] EXCEPT !.into = m[2]]
                            ELSE row[r]]
                    ELSE row
          /\ UNCHANGED looks
    BY <1>2 DEF AppliesNext
  <2>2. m[2] \in 0 .. Rows
    BY <2>1, DedupeAssumption DEF Listed
  <2>3. row' \in [Listed -> [status : RowStatus, into : 0 .. Rows]]
    BY <2>1, <2>2
  <2>4. plan'.merges \subseteq plan.merges
        /\ plan' \in [made : BOOLEAN, merges : SUBSET (Listed \X Listed), queued : SUBSET SUBSET Listed]
    BY <2>1
  <2> QED BY <2>1, <2>3, <2>4
<1>3. CASE Stops
  BY <1>3 DEF Stops, NoPlan, Listed
<1>4. ASSUME NEW r \in Listed, EditorDecides(r) PROVE DedupeInv'
  <2>1. PICK s \in {"active", "junk"} : row' = [row EXCEPT ![r].status = s]
    BY <1>4 DEF EditorDecides
  <2>2. row' \in [Listed -> [status : RowStatus, into : 0 .. Rows]]
    BY <2>1 DEF RowStatus
  <2> QED BY <1>4, <2>2 DEF EditorDecides
<1>5. CASE UNCHANGED dedupeVars
  BY <1>5 DEF dedupeVars
<1> QED
  BY <1>1, <1>2, <1>3, <1>4, <1>5 DEF DedupeNext

(* Before the run has planned anything there is no plan to distrust.       *)
LEMMA DedupeInitInv == DedupeInit => DedupeInv
  BY DedupeAssumption
     DEF DedupeInit, DedupeInv, DedupeTypeOK, PlanIsCleared, NoPlan

(* The plan in progress holds cleared pairs only.                          *)
THEOREM PlanStaysCleared == DedupeSpec => []DedupeInv
  BY DedupeInitInv, DedupeStep, PTL DEF DedupeSpec

(* However often the run is repeated or cut off and whatever editors       *)
(* decide between its transactions, a row is merged only into a row it     *)
(* clears the gate against itself (plan_dedupe, apply).                    *)
THEOREM MergesClearTheGateForAll == DedupeSpec => MergesClearTheGate
<1> DEFINE Clears ==
      \A r \in Listed : row[r].into = 0 /\ row'[r].into # 0 =>
          looks.band[{r, row'[r].into}] = "same" /\ ~Apart(r, row'[r].into)
<1>1. DedupeInv /\ [DedupeNext]_dedupeVars => [Clears]_dedupeVars
  <2> SUFFICES ASSUME DedupeInv, DedupeNext, NEW r \in Listed, row[r].into = 0, row'[r].into # 0
               PROVE  looks.band[{r, row'[r].into}] = "same" /\ ~Apart(r, row'[r].into)
    OBVIOUS
  <2> USE DEF DedupeInv, DedupeTypeOK
  <2>1. CASE AppliesNext
    <3>1. PICK m \in plan.merges :
            row' = IF row[m[1]].into = 0 /\ row[m[2]].into = 0 /\ row[m[1]].status # "active"
                   THEN [s \in Listed |->
                           IF s = m[1] \/ row[s].into = m[1] THEN [row[s] EXCEPT !.into = m[2]]
                           ELSE row[s]]
                   ELSE row
      BY <2>1 DEF AppliesNext
    <3>2. m[1] \in Listed /\ m[1] # 0
      BY DedupeAssumption DEF Listed
    <3>3. r = m[1] /\ row'[r].into = m[2]
      BY <3>1, <3>2
    <3> QED BY <3>3 DEF PlanIsCleared, Gate
  <2>2. CASE \E s \in Listed : EditorDecides(s)
    BY <2>2 DEF EditorDecides
  <2>3. CASE PlansDedupe \/ Stops
    BY <2>3 DEF PlansDedupe, Stops
  <2> QED BY <2>1, <2>2, <2>3 DEF DedupeNext
<1> QED
  BY <1>1, PlanStaysCleared, PTL DEF DedupeSpec, MergesClearTheGate
-----------------------------------------------------------------------------
(* The desk.  What the survivors' records say, as sets: e names the place  *)
(* that was merged, the places it brought along and the mentions it had.   *)
Recorded(h) == Range(place[h].aliases)
Merged(p) == place[p].into # Nowhere

(* Where a reader who starts at h ends.                                    *)
Root(h) == IF Merged(h) THEN place[h].into ELSE h

Named(p, h) == \E e \in Recorded(h) : e.loser = p \/ p \in e.repointed

(* What a press in flight has read allowed what it is about to do.         *)
PressJudged ==
  /\ DOMAIN press = Press
  /\ \A d \in Press :
       /\ press[d].at = "decide" =>
            press[d].p \in Place /\ press[d].do \in Decision /\ Allowed(press[d].do, press[d].row)
       /\ press[d].at \in {"merge", "commit"} =>
            /\ press[d].l \in Place /\ press[d].s \in Place /\ press[d].l # press[d].s
            /\ press[d].rows[1].into = Nowhere /\ press[d].rows[1].status # "active"
            /\ press[d].rows[2].into = Nowhere /\ press[d].rows[2].aliases \in Seq(Entry)
       /\ press[d].at = "commit" => press[d].entry \in Entry

(* A merged place points at a survivor and is not open to readers.         *)
Pointers == \A p \in Place : Merged(p) => ~Merged(place[p].into) /\ place[p].status # "active"

(* A place has at most one record of its own, and one only while merged.   *)
OneEach ==
  /\ \A h \in Place : \A i, j \in DOMAIN place[h].aliases :
       place[h].aliases[i].loser = place[h].aliases[j].loser => i = j
  /\ \A g, h \in Place : \A e \in Recorded(g), f \in Recorded(h) : e.loser = f.loser => g = h
  /\ \A p \in Place : Merged(p) <=> \E h \in Place : \E e \in Recorded(h) : e.loser = p

(* It ends where the place that holds its record ends.                     *)
SameRoot == \A h \in Place : \A e \in Recorded(h) : place[e.loser].into = Root(h)

(* What a record brought along points where its place points, and is what  *)
(* hangs below it: two records share none of it but when one hangs below   *)
(* the other.                                                              *)
BroughtAlong ==
  \A h \in Place : \A e \in Recorded(h) : \A q \in e.repointed :
    place[q].into = place[e.loser].into /\ Named(q, e.loser)
Nested ==
  \A g, h \in Place : \A e \in Recorded(h), f \in Recorded(g) :
    /\ f.loser \in e.repointed <=> (g = e.loser \/ g \in e.repointed)
    /\ f.loser \in e.repointed => f.repointed \subseteq e.repointed
    /\ e.loser # f.loser /\ e.repointed \cap f.repointed # {}
         => e.loser \in f.repointed \/ f.loser \in e.repointed

(* The survivor's records name everyone who points at it.                  *)
AllNamed == \A p \in Place : Merged(p) => Named(p, place[p].into)

(* What hung on a merged place hangs where it points; a record has what    *)
(* its place had, and two share a mention only if one hangs below.         *)
MentionsFollow ==
  /\ \A p \in Place : Merged(p) => \A m \in parted[p] : hangs[m] = place[p].into
  /\ \A h \in Place : \A e \in Recorded(h) :
       /\ e.mentions = parted[e.loser]
       /\ \A q \in e.repointed : parted[q] \subseteq e.mentions
  /\ \A g, h \in Place : \A e \in Recorded(h), f \in Recorded(g) :
       /\ e.loser # f.loser
       /\ e.mentions \cap f.mentions # {}
       => e.loser \in f.repointed \/ f.loser \in e.repointed

Catalogue ==
  /\ Pointers /\ OneEach /\ SameRoot /\ BroughtAlong /\ Nested /\ AllNamed /\ MentionsFollow

DeskInv == DeskTypeOK /\ PressJudged /\ (~overtaken => Catalogue)

(* Types of the catalogue's rows.                                          *)
LEMMA DeskTypes ==
  ASSUME DeskTypeOK
  PROVE  /\ \A p \in Place : /\ place[p].into \in Place \cup {Nowhere}
                             /\ place[p].aliases \in Seq(Entry)
                             /\ place[p].reviewed \in BOOLEAN
         /\ \A h \in Place : Recorded(h) \subseteq Entry
         /\ \A m \in Mention : hangs[m] \in Place \cup {Nowhere}
         /\ \A p \in Place : parted[p] \subseteq Mention
         /\ Nowhere \notin Place
<1>1. \A p \in Place : /\ place[p].into \in Place \cup {Nowhere}
                       /\ place[p].aliases \in Seq(Entry)
                       /\ place[p].reviewed \in BOOLEAN
  BY DEF DeskTypeOK
<1>2. \A h \in Place : Recorded(h) \subseteq Entry
  BY <1>1, ElementOfSeq DEF Recorded, Range
<1> QED BY <1>1, <1>2, PlaceAssumption DEF DeskTypeOK

(* The entry found for a place is one of its own.                          *)
LEMMA EntryForIsOwn ==
  ASSUME NEW a \in Seq(Entry), NEW l, EntryFor(a, l) # 0
  PROVE  EntryFor(a, l) \in DOMAIN a /\ a[EntryFor(a, l)].loser = l
<1> DEFINE I == {i \in 1 .. Len(a) : a[i].loser = l}
<1>1. EntryFor(a, l) = IF I # {} THEN Max(I) ELSE 0
  BY DEF EntryFor, SelectLastInSeq
<1>2. I # {}
  BY <1>1
<1>3. \E x \in I : \A y \in I : x >= y
  <2> DEFINE J == {Len(a) - i : i \in I}
  <2>1. J \in SUBSET Nat /\ J # {}
    BY <1>2
  <2>2. PICK n \in J : \A m \in J : n <= m
    <3> HIDE DEF J
    <3> QED BY <2>1, LeastElement
  <2>3. PICK x \in I : n = Len(a) - x
    BY <2>2
  <2>4. ASSUME NEW y \in I PROVE x >= y
    <3>1. Len(a) - x <= Len(a) - y
      BY <2>2, <2>3
    <3> QED BY <3>1
  <2> QED BY <2>4
<1>4. Max(I) \in I
  <2> HIDE DEF I
  <2> QED BY <1>3 DEF Max
<1> QED BY <1>1, <1>2, <1>4

(* Without its entry at i a list has the others, each once still.          *)
LEMMA EntryRemoved ==
  ASSUME NEW a \in Seq(Entry), NEW i \in DOMAIN a,
         \A j, k \in DOMAIN a : a[j].loser = a[k].loser => j = k,
         NEW b, b = RemoveAt(a, i)
  PROVE  /\ b \in Seq(Entry)
         /\ Range(b) = Range(a) \ {a[i]}
         /\ \A j, k \in DOMAIN b : b[j].loser = b[k].loser => j = k
<1> DEFINE from(j) == IF j < i THEN j ELSE j + 1
<1>0. DOMAIN a = 1 .. Len(a) /\ Len(a) \in Nat /\ i \in 1 .. Len(a)
  OBVIOUS
<1>1. /\ b \in Seq(Entry)
      /\ Len(b) = Len(a) - 1
      /\ \A j \in 1 .. Len(b) : b[j] = a[from(j)]
  <2> DEFINE u == SubSeq(a, 1, i - 1)
             v == SubSeq(a, i + 1, Len(a))
  <2>1. u \in Seq(Entry) /\ Len(u) = i - 1 /\ \A j \in 1 .. (i - 1) : u[j] = a[j]
    BY <1>0, SubSeqProperties
  <2>2. v \in Seq(Entry) /\ Len(v) = Len(a) - i /\ \A j \in 1 .. (Len(a) - i) : v[j] = a[i + j]
    BY <1>0, SubSeqProperties
  <2>3. b = u \o v
    BY DEF RemoveAt
  <2> HIDE DEF u, v
  <2>4. b \in Seq(Entry) /\ Len(b) = Len(u) + Len(v)
        /\ \A j \in 1 .. (Len(u) + Len(v)) : b[j] = IF j <= Len(u) THEN u[j] ELSE v[j - Len(u)]
    <3>1. u \o v \in Seq(Entry)
      BY <2>1, <2>2
    <3>2. Len(u \o v) = Len(u) + Len(v)
      <4>1. u \in Seq(Entry) /\ v \in Seq(Entry)
        BY <2>1, <2>2
      <4> QED BY ONLY <4>1, ConcatProperties
    <3>3. \A j \in 1 .. (Len(u) + Len(v)) :
            (u \o v)[j] = IF j <= Len(u) THEN u[j] ELSE v[j - Len(u)]
      BY <2>1, <2>2
    <3> QED BY <2>3, <3>1, <3>2, <3>3
  <2>5. ASSUME NEW j \in 1 .. Len(b) PROVE b[j] = a[from(j)]
    <3>0. /\ i \in Nat /\ i >= 1 /\ i <= Len(a) /\ Len(a) \in Nat
          /\ Len(b) = Len(a) - 1 /\ j \in Nat /\ j >= 1 /\ j <= Len(a) - 1
      BY <1>0, <2>1, <2>2, <2>4
    <3>a. b[j] = IF j <= i - 1 THEN u[j] ELSE v[j - (i - 1)]
      BY <2>1, <2>2, <2>4
    <3>1. CASE j < i
      <4>1. b[j] = u[j] /\ j \in 1 .. (i - 1) /\ from(j) = j
        BY <3>0, <3>a, <3>1
      <4> QED BY <4>1, <2>1
    <3>2. CASE ~(j < i)
      <4>1. /\ j - (i - 1) \in 1 .. (Len(a) - i) /\ i + (j - (i - 1)) = j + 1
            /\ from(j) = j + 1 /\ ~(j <= i - 1)
        BY <3>0, <3>2
      <4>2. v[j - (i - 1)] = a[i + (j - (i - 1))]
        BY <4>1, <2>2
      <4> QED BY <3>a, <4>1, <4>2
    <3> QED BY <3>1, <3>2
  <2>6. Len(b) = Len(a) - 1
    BY <1>0, <2>1, <2>2, <2>4
  <2> QED BY <2>4, <2>5, <2>6
<1>2. DOMAIN b = 1 .. Len(b)
  BY <1>1
<1>3. \A j \in DOMAIN b : from(j) \in DOMAIN a /\ from(j) # i
  BY <1>0, <1>1, <1>2
<1>4. \A j \in DOMAIN a : j # i => \E k \in DOMAIN b : from(k) = j
  <2> SUFFICES ASSUME NEW j \in DOMAIN a, j # i
               PROVE  \E k \in DOMAIN b : from(k) = j
    OBVIOUS
  <2>1. CASE j < i
    BY <1>0, <1>1, <1>2, <2>1
  <2>2. CASE j > i
    <3>1. j - 1 \in DOMAIN b /\ from(j - 1) = j
      BY <1>0, <1>1, <1>2, <2>2
    <3> QED BY <3>1
  <2> QED BY <1>0, <2>1, <2>2
<1>5. \A j, k \in DOMAIN b : from(j) = from(k) => j = k
  BY <1>0, <1>1, <1>2
<1> HIDE DEF from
<1>6. /\ \A j \in DOMAIN b : b[j] = a[from(j)]
      /\ \A j, k \in DOMAIN a : a[j].loser = a[k].loser => j = k
  BY <1>1, <1>2
<1>7. Range(b) = Range(a) \ {a[i]}
  <2>1. \A x \in Range(b) : x \in Range(a) \ {a[i]}
    BY ONLY <1>3, <1>6, i \in DOMAIN a DEF Range
  <2>2. \A x \in Range(a) \ {a[i]} : x \in Range(b)
    BY ONLY <1>4, <1>6 DEF Range
  <2> QED BY ONLY <2>1, <2>2
<1>8. \A j, k \in DOMAIN b : b[j].loser = b[k].loser => j = k
  BY ONLY <1>3, <1>5, <1>6
<1> QED BY <1>1, <1>7, <1>8

(* One entry more.                                                         *)
LEMMA EntryAdded ==
  ASSUME NEW a \in Seq(Entry), NEW e \in Entry,
         \A j, k \in DOMAIN a : a[j].loser = a[k].loser => j = k,
         \A j \in DOMAIN a : a[j].loser # e.loser,
         NEW b, b = Append(a, e)
  PROVE  /\ b \in Seq(Entry)
         /\ Range(b) = Range(a) \cup {e}
         /\ \A j, k \in DOMAIN b : b[j].loser = b[k].loser => j = k
<1>1. /\ b \in Seq(Entry) /\ DOMAIN b = 1 .. Len(a) + 1 /\ DOMAIN a = 1 .. Len(a)
      /\ Len(a) \in Nat
      /\ \A j \in 1 .. Len(a) : b[j] = a[j]
      /\ b[Len(a) + 1] = e
  BY AppendProperties
<1>2. \A j \in DOMAIN b : j = Len(a) + 1 \/ j \in DOMAIN a
  BY <1>1
<1>3. Len(a) + 1 \in DOMAIN b /\ \A j \in DOMAIN a : j \in DOMAIN b
  BY <1>1
<1>4. Range(b) = Range(a) \cup {e}
  BY ONLY <1>1, <1>2, <1>3 DEF Range
<1>5. \A j, k \in DOMAIN b : b[j].loser = b[k].loser => j = k
  BY <1>1, <1>2
<1> QED BY <1>1, <1>4, <1>5

(* What one merge changes: l and what pointed at l point at s, and one     *)
(* record of it is added to s.                                             *)
LEMMA MergeEffects ==
  ASSUME DeskTypeOK, Catalogue, NEW l \in Place, NEW s \in Place, NEW desk \in BOOLEAN,
         Mergeable(l, s), Merges(l, s, Record(l), place[s].aliases, desk)
  PROVE  /\ Record(l) \in Entry
         /\ \A q \in Place : /\ place'[q].into = IF q = l \/ place[q].into = l THEN s
                                                 ELSE place[q].into
                             /\ place'[q].status = place[q].status
                             /\ parted'[q] = IF q = l THEN On(l) ELSE parted[q]
         /\ \A h \in Place : Recorded(h)' = IF h = s THEN Recorded(s) \cup {Record(l)}
                                            ELSE Recorded(h)
         /\ \A h \in Place : \A i, j \in DOMAIN place'[h].aliases :
              place'[h].aliases[i].loser = place'[h].aliases[j].loser => i = j
         /\ \A m \in Mention : hangs'[m] = IF hangs[m] = l THEN s ELSE hangs[m]
         /\ \A h \in Place : \A f \in Recorded(h) : f.loser # l
<1> USE DEF Merges, Record
<1>1. Record(l) \in Entry
  BY DEF On, MergedInto, Entry
<1>2. /\ Record(l).loser = l /\ Record(l).mentions = On(l) /\ Record(l).repointed = MergedInto(l)
  OBVIOUS
<1>3. \A h \in Place : \A f \in Recorded(h) : f.loser # l
  BY DEF Catalogue, OneEach, Merged, Mergeable
<1>4. \A q \in Place : q \in MergedInto(l) <=> place[q].into = l
  BY DEF MergedInto
<1>5. \A q \in Place : /\ place'[q].into = IF q = l \/ place[q].into = l THEN s
                                           ELSE place[q].into
                       /\ place'[q].status = place[q].status
                       /\ place'[q].aliases = IF q = s THEN Append(place[s].aliases, Record(l))
                                              ELSE place[q].aliases
  <2> SUFFICES ASSUME NEW q \in Place
               PROVE  /\ place'[q].into = IF q = l \/ place[q].into = l THEN s
                                          ELSE place[q].into
                      /\ place'[q].status = place[q].status
                      /\ place'[q].aliases = IF q = s THEN Append(place[s].aliases, Record(l))
                                             ELSE place[q].aliases
    OBVIOUS
  <2>1. place[s].into # l /\ s # l
    BY PlaceAssumption DEF Mergeable
  <2>2. place[q] \in [status : Status, into : Place \cup {Nowhere}, reviewed : BOOLEAN,
                      typed : BOOLEAN, aliases : Seq(Entry)]
    BY DEF DeskTypeOK
  <2>3. CASE q = s
    BY <2>1, <2>2, <2>3
  <2>4. CASE q # s /\ (q = l \/ place[q].into = l)
    BY <2>2, <2>4, <1>4, <1>2
  <2>5. CASE q # s /\ ~(q = l \/ place[q].into = l)
    BY <2>2, <2>5, <1>4, <1>2
  <2> QED BY <2>3, <2>4, <2>5
<1>6. \A q \in Place : parted'[q] = IF q = l THEN On(l) ELSE parted[q]
  BY DEF DeskTypeOK
<1>7. \A m \in Mention : hangs'[m] = IF hangs[m] = l THEN s ELSE hangs[m]
  BY <1>2 DEF On
<1>8. \A i, j \in DOMAIN place[s].aliases :
        place[s].aliases[i].loser = place[s].aliases[j].loser => i = j
  BY DEF Catalogue, OneEach
<1>9. \A j \in DOMAIN place[s].aliases : place[s].aliases[j].loser # l
  BY <1>3 DEF Recorded, Range
<1>10. /\ Recorded(s)' = Recorded(s) \cup {Record(l)}
       /\ \A i, j \in DOMAIN place'[s].aliases :
            place'[s].aliases[i].loser = place'[s].aliases[j].loser => i = j
  <2>1. place[s].aliases \in Seq(Entry)
    BY DeskTypes
  <2> HIDE DEF Record
  <2>2. place'[s].aliases = Append(place[s].aliases, Record(l))
    BY <1>5
  <2>3. \A j \in DOMAIN place[s].aliases : place[s].aliases[j].loser # Record(l).loser
    BY <1>2, <1>9
  <2>4. /\ Range(place'[s].aliases) = Range(place[s].aliases) \cup {Record(l)}
        /\ \A j, k \in DOMAIN place'[s].aliases :
             place'[s].aliases[j].loser = place'[s].aliases[k].loser => j = k
    BY ONLY <1>1, <1>8, <2>1, <2>2, <2>3, EntryAdded
  <2> QED BY ONLY <2>4 DEF Recorded
<1>11. \A h \in Place \ {s} : /\ Recorded(h)' = Recorded(h)
                              /\ place'[h].aliases = place[h].aliases
  <2>1. \A h \in Place \ {s} : place'[h].aliases = place[h].aliases
    BY <1>5
  <2> QED BY ONLY <2>1 DEF Recorded
<1>12. \A h \in Place : Recorded(h)' = IF h = s THEN Recorded(s) \cup {Record(l)}
                                       ELSE Recorded(h)
  BY <1>10, <1>11
<1>13. \A h \in Place : \A i, j \in DOMAIN place'[h].aliases :
         place'[h].aliases[i].loser = place'[h].aliases[j].loser => i = j
  <2>1. \A h \in Place : \A i, j \in DOMAIN place[h].aliases :
          place[h].aliases[i].loser = place[h].aliases[j].loser => i = j
    BY DEF Catalogue, OneEach
  <2> QED BY ONLY <2>1, <1>10, <1>11
<1> QED BY <1>1, <1>3, <1>5, <1>6, <1>7, <1>12, <1>13

(* A survivor is named by no record: what a record names is merged.        *)
LEMMA NamedAreMerged ==
  ASSUME DeskTypeOK, Catalogue, NEW h \in Place, NEW e \in Recorded(h)
  PROVE  /\ e \in Entry /\ e.loser \in Place /\ Merged(e.loser)
         /\ \A q \in e.repointed : q \in Place /\ Merged(q)
<1>1. e \in Entry /\ e.loser \in Place /\ \A q \in e.repointed : q \in Place
  BY DeskTypes DEF Entry
<1>2. Merged(e.loser)
  BY <1>1 DEF Catalogue, OneEach
<1>3. \A q \in e.repointed : Merged(q)
  BY <1>1, <1>2 DEF Catalogue, BroughtAlong, Merged
<1> QED BY <1>1, <1>2, <1>3

(* A merge of two survivors, by the record of what stands behind the one   *)
(* that is merged, keeps the catalogue whole.                              *)
LEMMA MergeKeeps ==
  ASSUME DeskTypeOK, Catalogue, NEW l \in Place, NEW s \in Place, NEW desk \in BOOLEAN,
         Mergeable(l, s), place[l].status # "active",
         Merges(l, s, Record(l), place[s].aliases, desk)
  PROVE  Catalogue'
<1>1. /\ \A q \in Place : /\ place'[q].into = IF q = l \/ place[q].into = l THEN s
                                              ELSE place[q].into
                          /\ place'[q].status = place[q].status
                          /\ parted'[q] = IF q = l THEN On(l) ELSE parted[q]
      /\ \A h \in Place : Recorded(h)' = IF h = s THEN Recorded(s) \cup {Record(l)}
                                         ELSE Recorded(h)
      /\ \A m \in Mention : hangs'[m] = IF hangs[m] = l THEN s ELSE hangs[m]
      /\ \A h \in Place : \A f \in Recorded(h) : f.loser # l
  BY MergeEffects
<1>1a. \A h \in Place : \A i, j \in DOMAIN place'[h].aliases :
         place'[h].aliases[i].loser = place'[h].aliases[j].loser => i = j
  BY MergeEffects
<1>2. /\ Record(l).loser = l /\ Record(l).mentions = On(l) /\ Record(l).repointed = MergedInto(l)
  BY DEF Record
<1>3. l # s /\ ~Merged(l) /\ ~Merged(s) /\ Nowhere # l /\ Nowhere # s
  BY PlaceAssumption DEF Mergeable, Merged
<1>4. \A q \in Place : /\ Merged(q)' <=> Merged(q) \/ q = l
                       /\ place[q].into \in Place \cup {Nowhere}
  BY <1>1, <1>3, DeskTypes DEF Merged
<1>5. \A q : q \in MergedInto(l) <=> q \in Place /\ place[q].into = l
  BY DEF MergedInto
<1>6. \A h \in Place : \A e \in Recorded(h) :
        /\ e.loser \in Place /\ Merged(e.loser) /\ e.loser # l /\ e.loser # s
        /\ \A q \in e.repointed : q \in Place /\ Merged(q) /\ q # l /\ q # s
  BY <1>3, NamedAreMerged
<1>7. \A h \in Place : \A e \in Recorded(h)' : e \in Recorded(h) \/ (h = s /\ e = Record(l))
  BY <1>1
<1>8. \A p, h \in Place : Named(p, h) => Named(p, h)'
  BY <1>1 DEF Named
<1> HIDE DEF Merges, Record, MergedInto
<1>9. Pointers'
  <2> SUFFICES ASSUME NEW p \in Place, Merged(p)'
               PROVE  ~Merged(place[p].into)' /\ place'[p].status # "active"
    BY DEF Pointers
  <2>1. CASE p = l \/ place[p].into = l
    <3>1. place'[p].into = s /\ ~Merged(s)'
      BY <1>1, <1>3, <1>4, <2>1
    <3>2. place'[p].status # "active"
      BY <1>1, <1>3, <1>4, <2>1 DEF Catalogue, Pointers
    <3> QED BY <3>1, <3>2 DEF Merged
  <2>2. CASE p # l /\ place[p].into # l
    <3>1. Merged(p) /\ place'[p].into = place[p].into
      BY <1>1, <1>4, <2>2
    <3>2. place[p].into \in Place /\ ~Merged(place[p].into)
      BY <3>1, <1>4 DEF Catalogue, Pointers, Merged
    <3>3. place'[place[p].into].into = Nowhere
      BY <1>1, <1>4, <2>2, <3>2 DEF Merged
    <3>4. place'[p].status # "active"
      BY <1>1, <3>1 DEF Catalogue, Pointers
    <3> QED BY <3>1, <3>3, <3>4 DEF Merged
  <2> QED BY <2>1, <2>2
<1>10. OneEach'
  <2>1. \A g, h \in Place : \A e \in Recorded(g)', f \in Recorded(h)' : e.loser = f.loser => g = h
    BY <1>2, <1>6, <1>7 DEF Catalogue, OneEach
  <2>2. \A p \in Place : Merged(p)' <=> \E h \in Place : \E e \in Recorded(h)' : e.loser = p
    <3> SUFFICES ASSUME NEW p \in Place
                 PROVE  Merged(p)' <=> \E h \in Place : \E e \in Recorded(h)' : e.loser = p
      OBVIOUS
    <3>1. Merged(p) <=> \E h \in Place : \E e \in Recorded(h) : e.loser = p
      BY DEF Catalogue, OneEach
    <3>2. CASE p = l
      BY <1>1, <1>2, <1>4, <3>2
    <3>3. CASE p # l
      BY <1>1, <1>2, <1>4, <1>7, <3>1, <3>3
    <3> QED BY <3>2, <3>3
  <2> QED BY <1>1a, <2>1, <2>2 DEF OneEach
<1>11. SameRoot'
  <2> SUFFICES ASSUME NEW h \in Place, NEW e \in Recorded(h)'
               PROVE  place'[e.loser].into = Root(h)'
    BY DEF SameRoot
  <2>1. CASE h = s /\ e = Record(l)
    BY <1>1, <1>2, <1>3, <1>4, <2>1 DEF Root
  <2>2. CASE e \in Recorded(h)
    <3>1. e.loser \in Place /\ e.loser # l /\ place[e.loser].into = Root(h)
      BY <1>6, <2>2 DEF Catalogue, SameRoot
    <3>2. place'[e.loser].into = IF Root(h) = l THEN s ELSE Root(h)
      BY <1>1, <3>1
    <3>3. Root(h)' = IF Root(h) = l THEN s ELSE Root(h)
      BY <1>1, <1>3, <1>4 DEF Root, Merged
    <3> QED BY <3>2, <3>3
  <2> QED BY <2>1, <2>2, <1>7
<1>12. BroughtAlong'
  <2> SUFFICES ASSUME NEW h \in Place, NEW e \in Recorded(h)', NEW q \in e.repointed
               PROVE  place'[q].into = place'[e.loser].into /\ Named(q, e.loser)'
    BY DEF BroughtAlong
  <2>1. CASE h = s /\ e = Record(l)
    <3>1. q \in Place /\ place[q].into = l
      BY <1>2, <1>5, <2>1
    <3>2. Named(q, l)
      BY <1>3, <3>1 DEF Catalogue, AllNamed, Merged
    <3> QED BY <1>1, <1>2, <1>8, <2>1, <3>1, <3>2
  <2>2. CASE e \in Recorded(h)
    <3>1. place[q].into = place[e.loser].into /\ Named(q, e.loser)
      BY <2>2 DEF Catalogue, BroughtAlong
    <3> QED BY <1>1, <1>6, <1>8, <2>2, <3>1
  <2> QED BY <2>1, <2>2, <1>7
<1>13. Nested'
  <2> SUFFICES ASSUME NEW g \in Place, NEW h \in Place,
                      NEW e \in Recorded(h)', NEW f \in Recorded(g)'
               PROVE  /\ f.loser \in e.repointed <=> (g = e.loser \/ g \in e.repointed)
                      /\ f.loser \in e.repointed => f.repointed \subseteq e.repointed
                      /\ e.loser # f.loser /\ e.repointed \cap f.repointed # {}
                           => e.loser \in f.repointed \/ f.loser \in e.repointed
    BY DEF Nested
  <2>1. CASE e \in Recorded(h) /\ f \in Recorded(g)
    BY <2>1 DEF Catalogue, Nested
  <2>2. CASE h = s /\ e = Record(l) /\ f \in Recorded(g)
    <3>1. f.loser \in Place /\ place[f.loser].into = Root(g)
      BY <1>6, <2>2 DEF Catalogue, SameRoot
    <3>2. f.loser \in MergedInto(l) <=> (g = l \/ g \in MergedInto(l))
      BY <1>3, <1>5, <3>1 DEF Root, Merged
    <3>3. \A q \in f.repointed : q \in MergedInto(l) <=> f.loser \in MergedInto(l)
      BY <1>5, <1>6, <2>2, <3>1 DEF Catalogue, BroughtAlong
    <3> QED BY <1>2, <2>2, <3>2, <3>3
  <2>3. CASE e \in Recorded(h) /\ g = s /\ f = Record(l)
    <3>1. l \notin e.repointed /\ s # e.loser /\ s \notin e.repointed
      BY <1>6, <2>3
    <3>2. \A q \in e.repointed : q \in MergedInto(l) => e.loser \in MergedInto(l)
      BY <1>5, <1>6, <2>3 DEF Catalogue, BroughtAlong
    <3> QED BY <1>2, <2>3, <3>1, <3>2
  <2>4. CASE h = s /\ e = Record(l) /\ g = s /\ f = Record(l)
    BY <1>2, <1>3, <1>5, <2>4 DEF Merged
  <2> QED BY <1>7, <2>1, <2>2, <2>3, <2>4
<1>14. AllNamed'
  <2> SUFFICES ASSUME NEW p \in Place, Merged(p)' PROVE Named(p, place[p].into)'
    BY DEF AllNamed
  <2>1. CASE p = l \/ place[p].into = l
    <3>1. place'[p].into = s /\ Record(l) \in Recorded(s)'
      BY <1>1, <2>1
    <3>2. Record(l).loser = p \/ p \in Record(l).repointed
      BY <1>2, <1>5, <2>1
    <3> QED BY <3>1, <3>2 DEF Named
  <2>2. CASE p # l /\ place[p].into # l
    <3>1. Merged(p) /\ place'[p].into = place[p].into /\ place[p].into \in Place
      BY <1>1, <1>4, <2>2 DEF Merged
    <3>2. Named(p, place[p].into)
      BY <3>1 DEF Catalogue, AllNamed
    <3>3. \E r \in Recorded(place[p].into)' : r.loser = p \/ p \in r.repointed
      BY <1>1, <3>1, <3>2 DEF Named
    <3> QED BY <3>1, <3>3 DEF Named, Recorded
  <2> QED BY <2>1, <2>2
<1>15. MentionsFollow'
  <2>0. \A q \in Place : parted[q] \subseteq Mention
    BY DeskTypes
  <2>00. \A q \in Place : Merged(q) => \A m \in parted[q] : hangs[m] = place[q].into
    BY DEF Catalogue, MentionsFollow
  <2>01. \A m : m \in On(l) <=> m \in Mention /\ hangs[m] = l
    BY DEF On
  <2>1. \A p \in Place : Merged(p)' => \A m \in parted'[p] : hangs'[m] = place'[p].into
    <3> SUFFICES ASSUME NEW p \in Place, Merged(p)', NEW m \in parted'[p]
                 PROVE  hangs'[m] = place'[p].into
      OBVIOUS
    <3>1. CASE p = l
      BY <1>1, <2>01, <3>1
    <3>2. CASE p # l
      BY <1>1, <1>4, <2>0, <2>00, <3>2
    <3> QED BY <3>1, <3>2
  <2>2. ASSUME NEW h \in Place, NEW e \in Recorded(h)'
        PROVE  /\ e.mentions = parted'[e.loser]
               /\ \A q \in e.repointed : parted'[q] \subseteq e.mentions
    <3>1. CASE e \in Recorded(h)
      BY <1>1, <1>6, <3>1 DEF Catalogue, MentionsFollow
    <3>2. CASE h = s /\ e = Record(l)
      BY <1>1, <1>2, <1>3, <1>5, <2>0, <2>00, <2>01, <3>2 DEF Merged
    <3> QED BY <1>7, <3>1, <3>2
  <2>3. ASSUME NEW g \in Place, NEW h \in Place, NEW e \in Recorded(h)', NEW f \in Recorded(g)',
               e.loser # f.loser, e.mentions \cap f.mentions # {}
        PROVE  e.loser \in f.repointed \/ f.loser \in e.repointed
    <3>1. CASE e \in Recorded(h) /\ f \in Recorded(g)
      BY <2>3, <3>1 DEF Catalogue, MentionsFollow
    <3>2. ASSUME NEW k \in Place, NEW r \in Recorded(k), r.mentions \cap On(l) # {}
          PROVE  r.loser \in MergedInto(l)
      <4>1. r.mentions = parted[r.loser] /\ r.loser \in Place /\ Merged(r.loser)
        BY <1>6 DEF Catalogue, MentionsFollow
      <4>2. PICK m \in r.mentions : m \in On(l)
        BY <3>2
      <4>3. place[r.loser].into = l
        BY <4>1, <4>2, <2>00, <2>01
      <4> QED BY <1>5, <4>1, <4>3
    <3>3. CASE h = s /\ e = Record(l) /\ f \in Recorded(g)
      BY <1>2, <2>3, <3>2, <3>3
    <3>4. CASE e \in Recorded(h) /\ g = s /\ f = Record(l)
      BY <1>2, <2>3, <3>2, <3>4
    <3> QED BY <1>7, <2>3, <3>1, <3>3, <3>4
  <2> QED BY <2>1, <2>2, <2>3 DEF MentionsFollow
<1> QED BY <1>9, <1>10, <1>11, <1>12, <1>13, <1>14, <1>15 DEF Catalogue

(* What one reversal changes: l stands for itself again, what its record   *)
(* brought along points at l, its mentions hang on l, and the record goes. *)
LEMMA UnmergeEffects ==
  ASSUME DeskTypeOK, Catalogue, NEW l \in Place, Unmerges(l)
  PROVE  /\ \E h \in Place : \E e \in Recorded(h) :
              /\ h = place[l].into /\ ~Merged(h) /\ h # l
              /\ e.loser = l
              /\ l \notin e.repointed
              /\ \A q \in Place : /\ place'[q].into = IF q = l THEN Nowhere
                                                      ELSE IF q \in e.repointed THEN l
                                                      ELSE place[q].into
                                  /\ place'[q].status = place[q].status
                                  /\ parted'[q] = IF q = l THEN {} ELSE parted[q]
              /\ \A g \in Place : Recorded(g)' = IF g = h THEN Recorded(h) \ {e} ELSE Recorded(g)
              /\ \A m \in Mention : hangs'[m] = IF m \in e.mentions THEN l ELSE hangs[m]
         /\ \A g \in Place : /\ place'[g].aliases \in Seq(Entry)
                             /\ \A j, k \in DOMAIN place'[g].aliases :
                                  place'[g].aliases[j].loser = place'[g].aliases[k].loser => j = k
<1>0. PICK h \in Place : h = place[l].into
  BY DeskTypes DEF Unmerges
<1> DEFINE i == EntryFor(place[h].aliases, l)
           e == place[h].aliases[i]
<1>1. ~Merged(h) /\ i # 0 /\ Merged(l) /\ h # l
  BY <1>0 DEF Unmerges, Merged
<1>2. place[h].aliases \in Seq(Entry)
  BY <1>1, DeskTypes
<1>3. i \in DOMAIN place[h].aliases /\ e.loser = l
  BY <1>1, <1>2, EntryForIsOwn DEF i
<1>4. /\ place' = [q \in Place |->
                 CASE q = l -> [place[q] EXCEPT !.into = Nowhere]
                   [] q = h -> [place[q] EXCEPT !.aliases = RemoveAt(@, i)]
                   [] q \in e.repointed /\ place[q].into = h -> [place[q] EXCEPT !.into = l]
                   [] OTHER -> place[q]]
      /\ hangs' = [m \in Mention |-> IF m \in e.mentions /\ hangs[m] = h
                                     THEN l ELSE hangs[m]]
      /\ parted' = [parted EXCEPT ![l] = {}]
  BY <1>0 DEF Unmerges
<1> HIDE DEF i, e
<1>5. e \in Recorded(h)
  BY <1>3 DEF Recorded, Range, e
<1>6. \A q \in e.repointed : q \in Place /\ Merged(q) /\ q # h /\ place[q].into = h
  BY <1>0, <1>1, <1>3, <1>5, NamedAreMerged DEF Catalogue, BroughtAlong
<1>7. l \notin e.repointed
  BY <1>1, <1>3, <1>5, <1>6 DEF Catalogue, Nested
<1>8. \A m \in e.mentions : m \in Mention /\ hangs[m] = h
  <2>1. e.mentions = parted[l] /\ parted[l] \subseteq Mention
    BY <1>1, <1>3, <1>5, DeskTypes DEF Catalogue, MentionsFollow
  <2> QED BY <1>0, <1>1, <2>1 DEF Catalogue, MentionsFollow
<1>9. \A q \in Place : /\ place'[q].into = IF q = l THEN Nowhere
                                           ELSE IF q \in e.repointed THEN l
                                           ELSE place[q].into
                       /\ place'[q].status = place[q].status
                       /\ place'[q].aliases = IF q = h THEN RemoveAt(place[h].aliases, i)
                                              ELSE place[q].aliases
  <2> SUFFICES ASSUME NEW q \in Place
               PROVE  /\ place'[q].into = IF q = l THEN Nowhere
                                          ELSE IF q \in e.repointed THEN l
                                          ELSE place[q].into
                      /\ place'[q].status = place[q].status
                      /\ place'[q].aliases = IF q = h THEN RemoveAt(place[h].aliases, i)
                                             ELSE place[q].aliases
    OBVIOUS
  <2>1. place[q] \in [status : Status, into : Place \cup {Nowhere}, reviewed : BOOLEAN,
                      typed : BOOLEAN, aliases : Seq(Entry)]
    BY DEF DeskTypeOK
  <2>2. CASE q = l
    <3>1. place'[q] = [place[q] EXCEPT !.into = Nowhere]
      BY <1>1, <1>4, <1>7, <2>2
    <3> QED BY <1>1, <2>1, <2>2, <3>1
  <2>3. CASE q # l /\ q = h
    <3>1. place'[q] = [place[q] EXCEPT !.aliases = RemoveAt(@, i)]
      BY <1>4, <1>6, <2>3
    <3> QED BY <1>6, <2>1, <2>3, <3>1
  <2>4. CASE q # l /\ q # h /\ q \in e.repointed
    <3>1. place'[q] = [place[q] EXCEPT !.into = l]
      BY <1>4, <1>6, <2>4
    <3> QED BY <2>1, <2>4, <3>1
  <2>5. CASE q # l /\ q # h /\ q \notin e.repointed
    <3>1. place'[q] = place[q]
      BY <1>4, <2>5
    <3> QED BY <2>1, <2>5, <3>1
  <2> QED BY <2>2, <2>3, <2>4, <2>5
<1>10. \A q \in Place : parted'[q] = IF q = l THEN {} ELSE parted[q]
  BY <1>4 DEF DeskTypeOK
<1>11. \A m \in Mention : hangs'[m] = IF m \in e.mentions THEN l ELSE hangs[m]
  BY <1>4, <1>8
<1>12. \A j, k \in DOMAIN place[h].aliases :
         place[h].aliases[j].loser = place[h].aliases[k].loser => j = k
  BY <1>1 DEF Catalogue, OneEach
<1>13. place'[h].aliases = RemoveAt(place[h].aliases, i)
  BY <1>1, <1>9
<1>14. /\ place'[h].aliases \in Seq(Entry)
       /\ Range(place'[h].aliases) = Range(place[h].aliases) \ {place[h].aliases[i]}
       /\ \A j, k \in DOMAIN place'[h].aliases :
            place'[h].aliases[j].loser = place'[h].aliases[k].loser => j = k
  BY ONLY <1>2, <1>3, <1>12, <1>13, EntryRemoved
<1>15. Recorded(h)' = Recorded(h) \ {e}
  <2>1. /\ Recorded(h) = Range(place[h].aliases)
        /\ Range(place'[h].aliases) = Range(place[h].aliases) \ {e}
    BY <1>14 DEF Recorded, e
  <2> QED BY <2>1 DEF Recorded
<1>16. \A g \in Place \ {h} : Recorded(g)' = Recorded(g) /\ place'[g].aliases = place[g].aliases
  <2>1. \A g \in Place \ {h} : place'[g].aliases = place[g].aliases
    BY <1>9
  <2> QED BY ONLY <2>1 DEF Recorded
<1>17. \A g \in Place : Recorded(g)' = IF g = h THEN Recorded(h) \ {e} ELSE Recorded(g)
  BY <1>15, <1>16
<1>18. \A g \in Place : /\ place'[g].aliases \in Seq(Entry)
                        /\ \A j, k \in DOMAIN place'[g].aliases :
                             place'[g].aliases[j].loser = place'[g].aliases[k].loser => j = k
  <2>1. \A g \in Place : \A j, k \in DOMAIN place[g].aliases :
          place[g].aliases[j].loser = place[g].aliases[k].loser => j = k
    BY DEF Catalogue, OneEach
  <2>2. \A g \in Place : place[g].aliases \in Seq(Entry)
    BY DeskTypes
  <2> QED BY ONLY <2>1, <2>2, <1>14, <1>16
<1>19. \E f \in Recorded(h) :
         /\ h = place[l].into /\ ~Merged(h) /\ h # l
         /\ f.loser = l
         /\ l \notin f.repointed
         /\ \A q \in Place : /\ place'[q].into = IF q = l THEN Nowhere
                                                 ELSE IF q \in f.repointed THEN l
                                                 ELSE place[q].into
                             /\ place'[q].status = place[q].status
                             /\ parted'[q] = IF q = l THEN {} ELSE parted[q]
         /\ \A g \in Place : Recorded(g)' = IF g = h THEN Recorded(h) \ {f} ELSE Recorded(g)
         /\ \A m \in Mention : hangs'[m] = IF m \in f.mentions THEN l ELSE hangs[m]
  <2> WITNESS e \in Recorded(h)
  <2> QED BY <1>0, <1>1, <1>3, <1>7, <1>9, <1>10, <1>11, <1>17
<1> QED BY <1>18, <1>19

(* Reversing the merge of l keeps the catalogue whole: what l's record     *)
(* brought along stands behind l again, everyone else where they stood.    *)
LEMMA UnmergeKeeps ==
  ASSUME DeskTypeOK, Catalogue, NEW l \in Place, Unmerges(l)
  PROVE  Catalogue'
<1>0. PICK h \in Place : h = place[l].into
  BY DeskTypes DEF Unmerges
<1>1. PICK e \in Recorded(h) :
        /\ h = place[l].into /\ ~Merged(h) /\ h # l
        /\ e.loser = l
        /\ l \notin e.repointed
        /\ \A q \in Place : /\ place'[q].into = IF q = l THEN Nowhere
                                                ELSE IF q \in e.repointed THEN l
                                                ELSE place[q].into
                            /\ place'[q].status = place[q].status
                            /\ parted'[q] = IF q = l THEN {} ELSE parted[q]
        /\ \A g \in Place : Recorded(g)' = IF g = h THEN Recorded(h) \ {e} ELSE Recorded(g)
        /\ \A m \in Mention : hangs'[m] = IF m \in e.mentions THEN l ELSE hangs[m]
  BY <1>0, UnmergeEffects
<1>2. \A g \in Place : \A i, j \in DOMAIN place'[g].aliases :
        place'[g].aliases[i].loser = place'[g].aliases[j].loser => i = j
  BY UnmergeEffects
<1>3. /\ Merged(l) /\ l # Nowhere
      /\ \A q \in e.repointed : q \in Place /\ Merged(q) /\ q # h /\ q # l /\ place[q].into = h
  BY <1>1, NamedAreMerged, PlaceAssumption DEF Catalogue, BroughtAlong
<1>4. \A q \in Place : Merged(q)' <=> Merged(q) /\ q # l
  BY <1>1, <1>3 DEF Merged
<1>5. \A g \in Place : \A f \in Recorded(g)' :
        /\ f \in Recorded(g) /\ f # e
        /\ f \in Entry /\ f.loser \in Place /\ Merged(f.loser) /\ f.loser # l
        /\ l \notin f.repointed
        /\ \A q \in f.repointed : q \in Place /\ Merged(q) /\ q # l
  <2> SUFFICES ASSUME NEW g \in Place, NEW f \in Recorded(g)'
               PROVE  /\ f \in Recorded(g) /\ f # e
                      /\ f \in Entry /\ f.loser \in Place /\ Merged(f.loser) /\ f.loser # l
                      /\ l \notin f.repointed
                      /\ \A q \in f.repointed : q \in Place /\ Merged(q) /\ q # l
    OBVIOUS
  <2>1. f \in Recorded(g) /\ (g = h => f # e)
    BY <1>1
  <2>2. /\ f \in Entry /\ f.loser \in Place /\ Merged(f.loser)
        /\ \A q \in f.repointed : q \in Place /\ Merged(q)
    BY <2>1, NamedAreMerged
  <2>3. f.loser # l
    <3> SUFFICES ASSUME f.loser = l PROVE FALSE
      OBVIOUS
    <3>1. g = h /\ f # e
      BY <1>1, <2>1 DEF Catalogue, OneEach
    <3>2. PICK i, j \in DOMAIN place[h].aliases : place[h].aliases[i] = e /\ place[h].aliases[j] = f
      BY <1>1, <2>1, <3>1 DEF Recorded, Range
    <3>3. i = j
      BY <1>1, <3>2 DEF Catalogue, OneEach
    <3> QED BY <3>1, <3>2, <3>3
  <2>4. l \notin f.repointed
    BY <1>1, <2>1, <2>2 DEF Catalogue, Nested
  <2> QED BY <1>1, <2>1, <2>2, <2>3, <2>4
<1>6. \A g \in Place : \A f \in Recorded(g) : f.loser # l => f \in Recorded(g)'
  BY <1>1
<1>7. \A g \in Place : \A f \in Recorded(g)' :
        /\ f.loser \in e.repointed <=> (g = l \/ g \in e.repointed)
        /\ \A q \in f.repointed : q \in e.repointed <=> f.loser \in e.repointed
  <2> SUFFICES ASSUME NEW g \in Place, NEW f \in Recorded(g)'
               PROVE  /\ f.loser \in e.repointed <=> (g = l \/ g \in e.repointed)
                      /\ \A q \in f.repointed : q \in e.repointed <=> f.loser \in e.repointed
    OBVIOUS
  <2>1. f \in Recorded(g) /\ f.loser # l /\ l \notin f.repointed
    BY <1>5
  <2>2. /\ f.loser \in e.repointed <=> (g = e.loser \/ g \in e.repointed)
        /\ f.loser \in e.repointed => f.repointed \subseteq e.repointed
        /\ e.loser # f.loser /\ e.repointed \cap f.repointed # {}
             => e.loser \in f.repointed \/ f.loser \in e.repointed
    BY <2>1 DEF Catalogue, Nested
  <2> QED BY <1>1, <2>1, <2>2
<1>8. Pointers'
  <2> SUFFICES ASSUME NEW p \in Place, Merged(p)'
               PROVE  ~Merged(place[p].into)' /\ place'[p].status # "active"
    BY DEF Pointers
  <2>1. Merged(p) /\ p # l /\ ~Merged(place[p].into) /\ place'[p].status # "active"
    BY <1>1, <1>4 DEF Catalogue, Pointers
  <2>2. CASE p \in e.repointed
    BY <1>1, <1>4, <2>1, <2>2 DEF Merged
  <2>3. CASE p \notin e.repointed
    <3>1. place'[p].into = place[p].into /\ place[p].into \in Place
      BY <1>1, <2>1, <2>3, DeskTypes DEF Merged
    <3>2. place'[place[p].into].into = Nowhere
      BY <1>4, <2>1, <3>1 DEF Merged
    <3> QED BY <2>1, <3>1, <3>2 DEF Merged
  <2> QED BY <2>2, <2>3
<1>9. OneEach'
  <2>1. \A g, k \in Place : \A r \in Recorded(g)', f \in Recorded(k)' : r.loser = f.loser => g = k
    BY <1>5 DEF Catalogue, OneEach
  <2>2. \A p \in Place : Merged(p)' <=> \E k \in Place : \E f \in Recorded(k)' : f.loser = p
    <3> SUFFICES ASSUME NEW p \in Place
                 PROVE  Merged(p)' <=> \E k \in Place : \E f \in Recorded(k)' : f.loser = p
      OBVIOUS
    <3>1. Merged(p) <=> \E k \in Place : \E f \in Recorded(k) : f.loser = p
      BY DEF Catalogue, OneEach
    <3> QED BY <1>4, <1>5, <1>6, <3>1
  <2> QED BY <1>2, <2>1, <2>2 DEF OneEach
<1>10. SameRoot'
  <2> SUFFICES ASSUME NEW g \in Place, NEW f \in Recorded(g)'
               PROVE  place'[f.loser].into = Root(g)'
    BY DEF SameRoot
  <2>1. place[f.loser].into = Root(g)
    BY <1>5 DEF Catalogue, SameRoot
  <2>2. CASE g = l
    BY <1>1, <1>4, <1>5, <1>7, <2>2 DEF Root
  <2>3. CASE g \in e.repointed
    BY <1>1, <1>3, <1>4, <1>5, <1>7, <2>3 DEF Root
  <2>4. CASE g # l /\ g \notin e.repointed
    <3>1. place'[f.loser].into = place[f.loser].into /\ place'[g].into = place[g].into
      BY <1>1, <1>5, <1>7, <2>4
    <3> QED BY <2>1, <3>1 DEF Root, Merged
  <2> QED BY <2>2, <2>3, <2>4
<1>11. BroughtAlong'
  <2> SUFFICES ASSUME NEW g \in Place, NEW f \in Recorded(g)', NEW q \in f.repointed
               PROVE  place'[q].into = place'[f.loser].into /\ Named(q, f.loser)'
    BY DEF BroughtAlong
  <2>1. place[q].into = place[f.loser].into /\ Named(q, f.loser)
    BY <1>5 DEF Catalogue, BroughtAlong
  <2>2. place'[q].into = place'[f.loser].into
    BY <1>1, <1>5, <1>7, <2>1
  <2>3. f.loser # h /\ f.loser \in Place
    BY <1>1, <1>5
  <2>4. Recorded(f.loser)' = Recorded(f.loser)
    BY <1>1, <2>3
  <2> QED BY <2>1, <2>2, <2>4 DEF Named
<1>12. Nested'
  BY <1>5 DEF Catalogue, Nested
<1>13. AllNamed'
  <2> SUFFICES ASSUME NEW p \in Place, Merged(p)' PROVE Named(p, place[p].into)'
    BY DEF AllNamed
  <2>1. Merged(p) /\ p # l
    BY <1>4
  <2>2. CASE p \in e.repointed
    <3>1. place'[p].into = l /\ Named(p, l)
      BY <1>1, <2>1, <2>2 DEF Catalogue, BroughtAlong
    <3>2. Recorded(l)' = Recorded(l)
      BY <1>1
    <3>3. \E r \in Recorded(l)' : r.loser = p \/ p \in r.repointed
      BY <3>1, <3>2 DEF Named
    <3> QED BY <3>1, <3>3 DEF Named, Recorded
  <2>3. CASE p \notin e.repointed
    <3>1. place'[p].into = place[p].into /\ place[p].into \in Place /\ Named(p, place[p].into)
      BY <1>1, <2>1, <2>3, DeskTypes DEF Catalogue, AllNamed, Merged
    <3>2. PICK r \in Recorded(place[p].into) : r.loser = p \/ p \in r.repointed
      BY <3>1 DEF Named
    <3>3. r # e
      BY <1>1, <2>1, <2>3, <3>2
    <3>4. \E f \in Recorded(place[p].into)' : f.loser = p \/ p \in f.repointed
      BY <1>1, <3>1, <3>2, <3>3
    <3> QED BY <3>1, <3>4 DEF Named, Recorded
  <2> QED BY <2>2, <2>3
<1>14. MentionsFollow'
  <2>0. \A q \in Place : parted[q] \subseteq Mention
    BY DeskTypes
  <2>00. /\ \A q \in Place : Merged(q) => \A m \in parted[q] : hangs[m] = place[q].into
         /\ \A q \in e.repointed : parted[q] \subseteq e.mentions
    BY DEF Catalogue, MentionsFollow
  <2>1. \A p \in Place : Merged(p)' => \A m \in parted'[p] : hangs'[m] = place'[p].into
    <3> SUFFICES ASSUME NEW p \in Place, Merged(p)', NEW m \in parted'[p]
                 PROVE  hangs'[m] = place'[p].into
      OBVIOUS
    <3>1. Merged(p) /\ p # l /\ m \in parted[p] /\ m \in Mention /\ hangs[m] = place[p].into
      BY <1>1, <1>4, <2>0, <2>00
    <3>2. CASE p \in e.repointed
      BY <1>1, <2>00, <3>1, <3>2
    <3>3. CASE p \notin e.repointed
      <4>1. PICK g \in Place : \E f \in Recorded(g) : f.loser = p
        BY <3>1 DEF Catalogue, OneEach
      <4>2. PICK f \in Recorded(g) : f.loser = p
        BY <4>1
      <4>3. f \in Recorded(g)' /\ f.mentions = parted[p]
        BY <1>6, <3>1, <4>2 DEF Catalogue, MentionsFollow
      <4>4. l \notin f.repointed
        BY <1>5, <4>3
      <4>5. m \notin e.mentions
        BY <1>1, <3>1, <3>3, <4>2, <4>3, <4>4 DEF Catalogue, MentionsFollow
      <4> QED BY <1>1, <3>1, <3>3, <4>5
    <3> QED BY <3>2, <3>3
  <2>2. ASSUME NEW g \in Place, NEW f \in Recorded(g)'
        PROVE  /\ f.mentions = parted'[f.loser]
               /\ \A q \in f.repointed : parted'[q] \subseteq f.mentions
    BY <1>1, <1>5 DEF Catalogue, MentionsFollow
  <2>3. ASSUME NEW g \in Place, NEW k \in Place, NEW r \in Recorded(k)', NEW f \in Recorded(g)',
               r.loser # f.loser, r.mentions \cap f.mentions # {}
        PROVE  r.loser \in f.repointed \/ f.loser \in r.repointed
    BY <1>5, <2>3 DEF Catalogue, MentionsFollow
  <2> QED BY <2>1, <2>2, <2>3 DEF MentionsFollow
<1> QED BY <1>8, <1>9, <1>10, <1>11, <1>12, <1>13, <1>14 DEF Catalogue

(* A step that moves no place, touches no record and hangs at most a loose *)
(* mention keeps the catalogue whole, if no merged place becomes visible.  *)
LEMMA QuietKeeps ==
  ASSUME DeskTypeOK, Catalogue,
         \A q \in Place : /\ place'[q].into = place[q].into
                          /\ place'[q].aliases = place[q].aliases
                          /\ Merged(q) => place'[q].status # "active",
         parted' = parted,
         \A m \in Mention : hangs'[m] = hangs[m] \/ hangs[m] = Nowhere
  PROVE  Catalogue'
<1>1. \A q \in Place : Recorded(q)' = Recorded(q) /\ (Merged(q)' <=> Merged(q))
  BY DEF Recorded, Merged
<1>2. \A q \in Place : Root(q)' = Root(q)
  BY <1>1 DEF Root
<1>3. \A p, q \in Place : Named(p, q)' <=> Named(p, q)
  BY <1>1 DEF Named
<1>4. \A q \in Place : Merged(q) => place[q].into \in Place
  BY DeskTypes DEF Merged
<1>5. \A g \in Place : \A f \in Recorded(g) :
        /\ f.loser \in Place
        /\ \A q \in f.repointed : q \in Place
  BY NamedAreMerged
<1>6. Pointers'
  BY <1>1, <1>4 DEF Catalogue, Pointers, Merged
<1>7. OneEach'
  BY <1>1 DEF Catalogue, OneEach
<1>8. SameRoot'
  BY <1>1, <1>2, <1>5 DEF Catalogue, SameRoot
<1>9. BroughtAlong'
  BY <1>1, <1>3, <1>5 DEF Catalogue, BroughtAlong
<1>10. Nested'
  BY <1>1 DEF Catalogue, Nested
<1>11. AllNamed'
  <2> SUFFICES ASSUME NEW p \in Place, Merged(p)' PROVE Named(p, place[p].into)'
    BY DEF AllNamed
  <2>1. Merged(p) /\ place'[p].into = place[p].into /\ place[p].into \in Place
    BY <1>1, <1>4
  <2>2. \E r \in Recorded(place[p].into)' : r.loser = p \/ p \in r.repointed
    BY <1>1, <2>1 DEF Catalogue, AllNamed, Named
  <2> QED BY <2>1, <2>2 DEF Named, Recorded
<1>12. MentionsFollow'
  <2>1. \A p \in Place : parted[p] \subseteq Mention
    BY DeskTypes
  <2>2. \A p \in Place : Merged(p)' => \A m \in parted'[p] : hangs'[m] = place'[p].into
    BY <1>1, <2>1 DEF Catalogue, MentionsFollow, Merged
  <2> QED BY <1>1, <2>2 DEF Catalogue, MentionsFollow
<1> QED BY <1>6, <1>7, <1>8, <1>9, <1>10, <1>11, <1>12 DEF Catalogue

-----------------------------------------------------------------------------
(* One merge leaves rows, mentions and history well typed, whatever the    *)
(* press that writes it read and when.                                     *)
LEMMA MergeTypes ==
  ASSUME DeskTypeOK, NEW l \in Place, NEW s \in Place, NEW e \in Entry,
         NEW aliases \in Seq(Entry), NEW desk \in BOOLEAN, Merges(l, s, e, aliases, desk)
  PROVE  /\ place' \in [Place -> [status : Status, into : Place \cup {Nowhere},
                                  reviewed : BOOLEAN, typed : BOOLEAN, aliases : Seq(Entry)]]
         /\ hangs' \in [Mention -> Place \cup {Nowhere}]
         /\ parted' \in [Place -> SUBSET Mention]
<1> DEFINE Row == [status : Status, into : Place \cup {Nowhere},
                   reviewed : BOOLEAN, typed : BOOLEAN, aliases : Seq(Entry)]
<1>1. Append(aliases, e) \in Seq(Entry)
  BY AppendProperties
<1>2. \A q \in Place : place[q] \in Row
  BY DEF DeskTypeOK
<1>3. ASSUME NEW q \in Place
      PROVE  /\ [place[q] EXCEPT !.aliases = Append(aliases, e), !.reviewed = @ \/ desk] \in Row
             /\ [place[q] EXCEPT !.into = s, !.reviewed = @ \/ desk] \in Row
  <2>1. place[q].reviewed \/ desk \in BOOLEAN
    OBVIOUS
  <2> QED BY <1>1, <1>2, <2>1
<1>4. place' \in [Place -> Row]
  <2> HIDE DEF Row
  <2> QED BY <1>2, <1>3 DEF Merges
<1>5. hangs' \in [Mention -> Place \cup {Nowhere}]
  BY DEF Merges, DeskTypeOK
<1>6. parted' \in [Place -> SUBSET Mention]
  <2>1. e.mentions \in SUBSET Mention
    BY DEF Entry
  <2> QED BY <2>1 DEF Merges, DeskTypeOK
<1> QED BY <1>4, <1>5, <1>6

(* The catalogue is whole before anyone has touched it.                    *)
LEMMA DeskInitInv == DeskInit => DeskInv
<1> SUFFICES ASSUME DeskInit PROVE DeskInv
  OBVIOUS
<1>1. DeskTypeOK
  <2>1. <<>> \in Seq(Entry)
    OBVIOUS
  <2> QED BY <2>1, PlaceAssumption DEF DeskInit, DeskTypeOK, Status, NoPress
<1>2. PressJudged
  BY DEF DeskInit, PressJudged, NoPress
<1>3. Catalogue
  <2>1. \A p \in Place : /\ ~Merged(p) /\ Recorded(p) = {}
                         /\ DOMAIN place[p].aliases = {}
    BY DEF DeskInit, Merged, Recorded, Range
  <2> QED BY <2>1 DEF Catalogue, Pointers, OneEach, SameRoot, BroughtAlong, Nested, AllNamed,
                       MentionsFollow
<1> QED BY <1>1, <1>2, <1>3 DEF DeskInv

(* A press that moves leaves the others what they had read.                *)
LEMMA PressMoves ==
  ASSUME PressJudged, NEW d \in Press, NEW c, press' = [press EXCEPT ![d] = c],
         c.at \in {"idle", "decide", "merge", "commit"},
         c.at = "decide" =>
            c.p \in Place /\ c.do \in Decision /\ Allowed(c.do, c.row),
         c.at \in {"merge", "commit"} =>
            /\ c.l \in Place /\ c.s \in Place /\ c.l # c.s
            /\ c.rows[1].into = Nowhere /\ c.rows[1].status # "active"
            /\ c.rows[2].into = Nowhere /\ c.rows[2].aliases \in Seq(Entry),
         c.at = "commit" => c.entry \in Entry
  PROVE  PressJudged'
<1>1. press'[d] = c /\ DOMAIN press' = Press /\ \A k \in Press \ {d} : press'[k] = press[k]
  BY DEF PressJudged
<1> QED BY <1>1 DEF PressJudged

(* One step per action.                                                    *)
LEMMA DeskStep == DeskInv /\ [DeskNext]_deskVars => DeskInv'
<1> SUFFICES ASSUME DeskInv, [DeskNext]_deskVars PROVE DeskInv'
  OBVIOUS
<1>0. /\ DeskTypeOK /\ PressJudged /\ DOMAIN press = Press
      /\ (~overtaken => Catalogue)
  BY DEF DeskInv, PressJudged
<1>a. \A d \in Press : \A c : c.at \in {"idle", "decide", "merge", "commit"}
         /\ press' = [press EXCEPT ![d] = c] => \A k \in Press : press'[k].at \in {"idle", "decide", "merge", "commit"}
  BY <1>0 DEF DeskTypeOK
<1>b. NoPress.at = "idle"
  BY DEF NoPress
<1>c. \A p \in Place : place[p] \in [status : Status, into : Place \cup {Nowhere},
                                     reviewed : BOOLEAN, typed : BOOLEAN, aliases : Seq(Entry)]
  BY <1>0 DEF DeskTypeOK
<1>1. ASSUME NEW d \in Press, NEW p \in Place, NEW do \in Decision,
             OpensDecision(d, p, do) \/ (do = "junk" /\ OpensBulkJunk(d, p))
      PROVE  DeskInv'
  <2> DEFINE c == [at |-> "decide", do |-> do, p |-> p, row |-> place[p]]
  <2>1. Allowed(do, place[p])
    BY <1>1 DEF OpensDecision, OpensBulkJunk, Allowed
  <2>2. press' = [press EXCEPT ![d] = c] /\ UNCHANGED <<place, hangs, triaged, parted, overtaken>>
    BY <1>1 DEF OpensDecision, OpensBulkJunk
  <2>3. /\ c.at = "decide" /\ c.do = do /\ c.p = p /\ c.row = place[p]
    OBVIOUS
  <2> HIDE DEF c
  <2>4. PressJudged'
    BY <1>0, <2>1, <2>2, <2>3, PressMoves
  <2>5. DeskTypeOK'
    BY <1>0, <1>a, <2>2, <2>3 DEF DeskTypeOK
  <2>6. ~overtaken' => Catalogue'
    BY <1>0, <2>2, QuietKeeps DEF Catalogue, Pointers
  <2> QED BY <2>4, <2>5, <2>6 DEF DeskInv
<1>2. ASSUME NEW d \in Press, Decides(d) PROVE DeskInv'
  <2> DEFINE p == press[d].p
             do == press[d].do
  <2>1. /\ p \in Place /\ do \in Decision /\ Allowed(do, press[d].row)
        /\ place' = [place EXCEPT ![p] = Decided(do, @)]
        /\ overtaken' = (overtaken \/ press[d].row # place[p])
        /\ press' = [press EXCEPT ![d] = NoPress]
        /\ UNCHANGED <<hangs, triaged, parted>>
    BY <1>0, <1>2 DEF Decides, PressJudged
  <2> HIDE DEF p, do
  <2>2. /\ Decided(do, place[p]) \in [status : Status, into : Place \cup {Nowhere},
                                      reviewed : BOOLEAN, typed : BOOLEAN, aliases : Seq(Entry)]
        /\ Decided(do, place[p]).into = place[p].into
        /\ Decided(do, place[p]).aliases = place[p].aliases
    BY <1>c, <2>1 DEF Decided, Status
  <2>3. PressJudged'
    BY <1>0, <1>b, <2>1, PressMoves
  <2>4. DeskTypeOK'
    BY <1>0, <1>a, <1>b, <2>1, <2>2 DEF DeskTypeOK
  <2>5. ~overtaken' => Catalogue'
    <3> SUFFICES ASSUME ~overtaken' PROVE Catalogue'
      OBVIOUS
    <3>1. Catalogue /\ press[d].row = place[p] /\ ~Merged(p)
      BY <1>0, <2>1 DEF Allowed, Merged
    <3>2. \A q \in Place : place'[q] = IF q = p THEN Decided(do, place[p]) ELSE place[q]
      BY <1>0, <2>1 DEF DeskTypeOK
    <3>3. \A q \in Place : /\ place'[q].into = place[q].into
                           /\ place'[q].aliases = place[q].aliases
                           /\ Merged(q) => place'[q].status # "active"
      BY <2>2, <3>1, <3>2 DEF Catalogue, Pointers
    <3> QED BY <1>0, <2>1, <3>1, <3>3, QuietKeeps
  <2> QED BY <2>3, <2>4, <2>5 DEF DeskInv
<1>3. ASSUME NEW d \in Press, NEW l \in Place, NEW s \in Place, OpensMerge(d, l, s) PROVE DeskInv'
  <2> DEFINE c == [at |-> "merge", l |-> l, s |-> s, rows |-> <<place[l], place[s]>>]
  <2>1. press' = [press EXCEPT ![d] = c] /\ UNCHANGED <<place, hangs, triaged, parted, overtaken>>
    BY <1>3 DEF OpensMerge
  <2>2. /\ c.at = "merge" /\ c.l = l /\ c.s = s
        /\ c.rows[1] = place[l] /\ c.rows[2] = place[s]
    OBVIOUS
  <2> HIDE DEF c
  <2>3. /\ l # s /\ place[l].into = Nowhere /\ place[s].into = Nowhere
        /\ place[l].status # "active" /\ place[s].aliases \in Seq(Entry)
    BY <1>0, <1>3, <1>c DEF OpensMerge, Mergeable
  <2>4. PressJudged'
    BY <1>0, <2>1, <2>2, <2>3, PressMoves
  <2>5. DeskTypeOK'
    BY <1>0, <1>a, <2>1, <2>2 DEF DeskTypeOK
  <2>6. ~overtaken' => Catalogue'
    BY <1>0, <2>1, QuietKeeps DEF Catalogue, Pointers
  <2> QED BY <2>4, <2>5, <2>6 DEF DeskInv
<1>4. ASSUME NEW d \in Press, LooksUp(d) PROVE DeskInv'
  <2> DEFINE b == press[d]
             c == [at |-> "commit", l |-> b.l, s |-> b.s, rows |-> b.rows, entry |-> Record(b.l)]
  <2>1. /\ press' = [press EXCEPT ![d] = c] /\ UNCHANGED <<place, hangs, triaged, parted, overtaken>>
        /\ b.at = "merge"
    BY <1>0, <1>4 DEF LooksUp
  <2>2. /\ c.at = "commit" /\ c.l = b.l /\ c.s = b.s /\ c.rows = b.rows /\ c.entry = Record(b.l)
    OBVIOUS
  <2> HIDE DEF c
  <2>3. /\ b.l \in Place /\ b.s \in Place /\ b.l # b.s
        /\ b.rows[1].into = Nowhere /\ b.rows[1].status # "active"
        /\ b.rows[2].into = Nowhere /\ b.rows[2].aliases \in Seq(Entry)
    BY <1>0, <2>1 DEF PressJudged
  <2>4. Record(b.l) \in Entry
    BY <2>3 DEF Record, Entry, On, MergedInto
  <2> HIDE DEF b
  <2>5. PressJudged'
    BY <1>0, <2>1, <2>2, <2>3, <2>4, PressMoves
  <2>6. DeskTypeOK'
    BY <1>0, <1>a, <2>1, <2>2 DEF DeskTypeOK
  <2>7. ~overtaken' => Catalogue'
    BY <1>0, <2>1, QuietKeeps DEF Catalogue, Pointers
  <2> QED BY <2>5, <2>6, <2>7 DEF DeskInv
<1>5. ASSUME NEW d \in Press, Commits(d) PROVE DeskInv'
  <2> DEFINE c == press[d]
  <2>1. /\ Merges(c.l, c.s, c.entry, c.rows[2].aliases, TRUE)
        /\ overtaken' = (overtaken \/ Stale(c))
        /\ press' = [press EXCEPT ![d] = NoPress]
        /\ UNCHANGED triaged
        /\ c.at = "commit"
    BY <1>5 DEF Commits
  <2>2. /\ c.l \in Place /\ c.s \in Place /\ c.l # c.s
        /\ c.rows[1].into = Nowhere /\ c.rows[1].status # "active"
        /\ c.rows[2].into = Nowhere /\ c.rows[2].aliases \in Seq(Entry)
        /\ c.entry \in Entry
    BY <1>0, <2>1 DEF PressJudged
  <2> HIDE DEF c
  <2>3. PressJudged'
    BY <1>0, <1>b, <2>1, PressMoves
  <2>4. DeskTypeOK'
    <3>1. /\ place' \in [Place -> [status : Status, into : Place \cup {Nowhere},
                                   reviewed : BOOLEAN, typed : BOOLEAN, aliases : Seq(Entry)]]
          /\ hangs' \in [Mention -> Place \cup {Nowhere}]
          /\ parted' \in [Place -> SUBSET Mention]
      BY <1>0, <2>1, <2>2, MergeTypes
    <3>2. overtaken' \in BOOLEAN /\ triaged' \subseteq JunkNamed
      BY <1>0, <2>1 DEF DeskTypeOK
    <3> QED BY <1>a, <1>b, <2>1, <3>1, <3>2 DEF DeskTypeOK
  <2>5. ~overtaken' => Catalogue'
    <3> SUFFICES ASSUME ~overtaken' PROVE Catalogue'
      OBVIOUS
    <3>1. Catalogue /\ c.rows = <<place[c.l], place[c.s]>> /\ c.entry = Record(c.l)
      BY <1>0, <2>1 DEF Stale
    <3>2. c.rows[1] = place[c.l] /\ c.rows[2] = place[c.s]
      BY <3>1
    <3>3. Mergeable(c.l, c.s) /\ place[c.l].status # "active"
      BY <2>2, <3>2 DEF Mergeable
    <3>4. Merges(c.l, c.s, Record(c.l), place[c.s].aliases, TRUE)
      BY <2>1, <3>1, <3>2
    <3> QED BY <1>0, <2>2, <3>1, <3>3, <3>4, MergeKeeps
  <2> QED BY <2>3, <2>4, <2>5 DEF DeskInv
<1>6. ASSUME NEW d \in Press, GivesUp(d) PROVE DeskInv'
  <2>1. press' = [press EXCEPT ![d] = NoPress] /\ UNCHANGED <<place, hangs, triaged, parted, overtaken>>
    BY <1>6 DEF GivesUp
  <2>2. PressJudged'
    BY <1>0, <1>b, <2>1, PressMoves
  <2>3. DeskTypeOK'
    BY <1>0, <1>a, <1>b, <2>1 DEF DeskTypeOK
  <2>4. ~overtaken' => Catalogue'
    BY <1>0, <2>1, QuietKeeps DEF Catalogue, Pointers
  <2> QED BY <2>2, <2>3, <2>4 DEF DeskInv
<1>7. ASSUME NEW l \in Place, NEW s \in Place, AppliesMerge(l, s) PROVE DeskInv'
  <2>1. /\ Mergeable(l, s) /\ place[l].status # "active"
        /\ Merges(l, s, Record(l), place[s].aliases, FALSE)
        /\ UNCHANGED <<press, triaged, overtaken>>
    BY <1>7 DEF AppliesMerge
  <2>2. Record(l) \in Entry /\ place[s].aliases \in Seq(Entry)
    BY <1>c DEF Record, Entry, On, MergedInto
  <2>3. /\ place' \in [Place -> [status : Status, into : Place \cup {Nowhere},
                                 reviewed : BOOLEAN, typed : BOOLEAN, aliases : Seq(Entry)]]
        /\ hangs' \in [Mention -> Place \cup {Nowhere}]
        /\ parted' \in [Place -> SUBSET Mention]
    BY <1>0, <2>1, <2>2, MergeTypes
  <2>4. DeskTypeOK' /\ PressJudged'
    BY <1>0, <2>1, <2>3 DEF DeskTypeOK, PressJudged
  <2>5. ~overtaken' => Catalogue'
    BY <1>0, <2>1, MergeKeeps
  <2> QED BY <2>4, <2>5 DEF DeskInv
<1>8. ASSUME NEW l \in Place, Unmerges(l) PROVE DeskInv'
  <2> DEFINE h == place[l].into
             i == EntryFor(place[h].aliases, l)
             e == place[h].aliases[i]
  <2>1. /\ h \in Place /\ i # 0 /\ place[h].aliases \in Seq(Entry)
        /\ place' = [q \in Place |->
                 CASE q = l -> [place[q] EXCEPT !.into = Nowhere]
                   [] q = h -> [place[q] EXCEPT !.aliases = RemoveAt(@, i)]
                   [] q \in e.repointed /\ place[q].into = h -> [place[q] EXCEPT !.into = l]
                   [] OTHER -> place[q]]
        /\ hangs' = [m \in Mention |-> IF m \in e.mentions /\ hangs[m] = h
                                       THEN l ELSE hangs[m]]
        /\ parted' = [parted EXCEPT ![l] = {}]
        /\ UNCHANGED <<press, triaged, overtaken>>
    BY <1>c, <1>8 DEF Unmerges
  <2>2. i \in DOMAIN place[h].aliases
    BY <2>1, EntryForIsOwn
  <2>3. RemoveAt(place[h].aliases, i) \in Seq(Entry)
    <3> HIDE DEF h, i
    <3>1. SubSeq(place[h].aliases, 1, i - 1) \in Seq(Entry)
          /\ SubSeq(place[h].aliases, i + 1, Len(place[h].aliases)) \in Seq(Entry)
      BY <2>1, <2>2
    <3> QED BY <3>1 DEF RemoveAt
  <2> HIDE DEF h, i, e
  <2>4. place' \in [Place -> [status : Status, into : Place \cup {Nowhere},
                              reviewed : BOOLEAN, typed : BOOLEAN, aliases : Seq(Entry)]]
    <3> SUFFICES ASSUME NEW q \in Place
                 PROVE  (CASE q = l -> [place[q] EXCEPT !.into = Nowhere]
                           [] q = h -> [place[q] EXCEPT !.aliases = RemoveAt(@, i)]
                           [] q \in e.repointed /\ place[q].into = h -> [place[q] EXCEPT !.into = l]
                           [] OTHER -> place[q])
                        \in [status : Status, into : Place \cup {Nowhere},
                             reviewed : BOOLEAN, typed : BOOLEAN, aliases : Seq(Entry)]
      BY <2>1
    <3>1. l # h
      BY <1>8, PlaceAssumption DEF Unmerges, h
    <3> QED BY <1>c, <2>3, <3>1
  <2>5. hangs' \in [Mention -> Place \cup {Nowhere}] /\ parted' \in [Place -> SUBSET Mention]
    BY <1>0, <2>1 DEF DeskTypeOK
  <2>6. DeskTypeOK' /\ PressJudged'
    BY <1>0, <2>1, <2>4, <2>5 DEF DeskTypeOK, PressJudged
  <2>7. ~overtaken' => Catalogue'
    BY <1>0, <1>8, <2>1, UnmergeKeeps
  <2> QED BY <2>6, <2>7 DEF DeskInv
<1>9. ASSUME \/ \E ps \in SUBSET Place : Triages(ps)
             \/ Untriages
      PROVE  DeskInv'
  <2>1. PICK hit \in SUBSET Place, st \in {"junk", "pending_review"} :
          /\ place' = [p \in Place |-> IF p \in hit THEN [place[p] EXCEPT !.status = st] ELSE place[p]]
          /\ triaged' \subseteq JunkNamed
          /\ UNCHANGED <<hangs, press, parted, overtaken>>
    <3>1. CASE \E ps \in SUBSET Place : Triages(ps)
      <4>1. PICK ps \in SUBSET Place : Triages(ps)
        BY <3>1
      <4> DEFINE hit == {p \in ps : place[p].status = "pending_review" /\ place[p].into = Nowhere}
      <4>2. /\ hit \in SUBSET Place
            /\ place' = [p \in Place |-> IF p \in hit THEN [place[p] EXCEPT !.status = "junk"] ELSE place[p]]
            /\ triaged' = triaged \cup hit /\ hit \subseteq JunkNamed
            /\ UNCHANGED <<hangs, press, parted, overtaken>>
        BY <4>1 DEF Triages
      <4> HIDE DEF hit
      <4> QED BY <1>0, <4>2 DEF DeskTypeOK
    <3>2. CASE Untriages
      <4> DEFINE hit == {p \in triaged : place[p].status = "junk"}
      <4>1. /\ hit \in SUBSET Place
            /\ place' = [p \in Place |-> IF p \in hit THEN [place[p] EXCEPT !.status = "pending_review"] ELSE place[p]]
            /\ triaged' = triaged
            /\ UNCHANGED <<hangs, press, parted, overtaken>>
        BY <1>0, <3>2, PlaceAssumption DEF Untriages, DeskTypeOK
      <4> HIDE DEF hit
      <4> QED BY <1>0, <4>1 DEF DeskTypeOK
    <3> QED BY <1>9, <3>1, <3>2
  <2>2. \A q \in Place : /\ place'[q] \in [status : Status, into : Place \cup {Nowhere},
                                           reviewed : BOOLEAN, typed : BOOLEAN, aliases : Seq(Entry)]
                         /\ place'[q].into = place[q].into
                         /\ place'[q].aliases = place[q].aliases
                         /\ place'[q].status = place[q].status \/ place'[q].status # "active"
    BY <1>c, <2>1 DEF Status
  <2>3. DeskTypeOK' /\ PressJudged'
    BY <1>0, <2>1, <2>2 DEF DeskTypeOK, PressJudged
  <2>4. ~overtaken' => Catalogue'
    BY <1>0, <2>1, <2>2, QuietKeeps DEF Catalogue, Pointers
  <2> QED BY <2>3, <2>4 DEF DeskInv
<1>10. ASSUME NEW m \in Mention, NEW p \in Place, Extracts(m, p) PROVE DeskInv'
  <2>1. DeskTypeOK' /\ PressJudged'
    BY <1>0, <1>10 DEF Extracts, DeskTypeOK, PressJudged
  <2>2. ~overtaken' => Catalogue'
    <3>1. \A k \in Mention : hangs'[k] = hangs[k] \/ hangs[k] = Nowhere
      BY <1>0, <1>10 DEF Extracts, DeskTypeOK
    <3> QED BY <1>0, <1>10, <3>1, QuietKeeps DEF Extracts, Catalogue, Pointers
  <2> QED BY <2>1, <2>2 DEF DeskInv
<1>11. CASE UNCHANGED deskVars
  <2>1. DeskTypeOK' /\ PressJudged'
    BY <1>0, <1>11 DEF deskVars, DeskTypeOK, PressJudged
  <2>2. ~overtaken' => Catalogue'
    BY <1>0, <1>11, QuietKeeps DEF deskVars, Catalogue, Pointers
  <2> QED BY <2>1, <2>2 DEF DeskInv
<1>12. "junk" \in Decision
  BY DEF Decision
<1> QED
  BY <1>1, <1>2, <1>3, <1>4, <1>5, <1>6, <1>7, <1>8, <1>9, <1>10, <1>11, <1>12 DEF DeskNext

(* The catalogue stays whole for any number of places, mentions and        *)
(* presses, until a press writes over what changed under it.               *)
THEOREM DeskInvariant == DeskSpec => []DeskInv
  BY DeskInitInv, DeskStep, PTL DEF DeskSpec

(* A place's link leads to a survivor: one hop is enough (merge.py:9).     *)
THEOREM MergedIntoSurvivesForAll == DeskSpec => []MergedIntoSurvives
<1>1. DeskInv => MergedIntoSurvives
  BY DEF DeskInv, Catalogue, Pointers, Merged, MergedIntoSurvives
<1> QED BY <1>1, DeskInvariant, PTL

(* Every merge is on the survivor's records, or re-pointed by one of them. *)
THEOREM MergesAreRecordedForAll == DeskSpec => []MergesAreRecorded
<1>1. DeskInv => MergesAreRecorded
  BY DEF DeskInv, Catalogue, AllNamed, Merged, Named, Recorded, Range, MergesAreRecorded
<1> QED BY <1>1, DeskInvariant, PTL

(* No merged place is open to readers, whichever came first.               *)
THEOREM MergedIsNotLiveForAll == DeskSpec => []MergedIsNotLive
<1>1. DeskInv => MergedIsNotLive
  BY DEF DeskInv, Catalogue, Pointers, Merged, MergedIsNotLive
<1> QED BY <1>1, DeskInvariant, PTL

(* Reversing a merge hangs on the place all that hung on it before.        *)
THEOREM UnmergeGivesBackForAll == DeskSpec => UnmergeGivesBack
<1> DEFINE Back ==
      ~overtaken' => \A p \in Place :
          place[p].into # Nowhere /\ place'[p].into = Nowhere
             => \A m \in parted[p] : hangs'[m] = p
<1>1. DeskInv /\ [DeskNext]_deskVars => [Back]_deskVars
  <2> SUFFICES ASSUME DeskInv, DeskNext, ~overtaken', NEW p \in Place,
                      place[p].into # Nowhere, place'[p].into = Nowhere, NEW m \in parted[p]
               PROVE  hangs'[m] = p
    OBVIOUS
  <2>0. DeskTypeOK /\ PressJudged
    BY DEF DeskInv
  <2>1. CASE \E l \in Place : Unmerges(l)
    <3>1. PICK l \in Place : Unmerges(l)
      BY <2>1
    <3>2. Catalogue
      BY <3>1 DEF DeskInv, Unmerges
    <3>3. PICK h \in Place : h = place[l].into
      BY <2>0, <3>1, DeskTypes DEF Unmerges
    <3>4. PICK e \in Recorded(h) :
            /\ e.loser = l
            /\ \A q \in Place : place'[q].into = IF q = l THEN Nowhere
                                                 ELSE IF q \in e.repointed THEN l
                                                 ELSE place[q].into
            /\ \A k \in Mention : hangs'[k] = IF k \in e.mentions THEN l ELSE hangs[k]
      BY <2>0, <3>1, <3>2, <3>3, UnmergeEffects
    <3>5. p = l
      BY <3>4, PlaceAssumption
    <3>6. e.mentions = parted[l] /\ parted[l] \subseteq Mention
      BY <2>0, <3>2, <3>4, DeskTypes DEF Catalogue, MentionsFollow
    <3> QED BY <3>4, <3>5, <3>6
  <2>2. ASSUME NEW l \in Place, NEW s \in Place, NEW e, NEW a, NEW b, Merges(l, s, e, a, b)
        PROVE  place'[p].into # Nowhere
    <3>1. place[p] \in [status : Status, into : Place \cup {Nowhere}, reviewed : BOOLEAN,
                        typed : BOOLEAN, aliases : Seq(Entry)]
      BY <2>0 DEF DeskTypeOK
    <3> QED BY <2>2, <3>1, PlaceAssumption DEF Merges
  <2>3. CASE \E d \in Press : Commits(d)
    <3>1. PICK d \in Press : Commits(d)
      BY <2>3
    <3>2. press[d].l \in Place /\ press[d].s \in Place
      BY <2>0, <3>1 DEF Commits, PressJudged
    <3> QED BY <2>2, <3>1, <3>2 DEF Commits
  <2>4. CASE \E l, s \in Place : AppliesMerge(l, s)
    BY <2>2, <2>4 DEF AppliesMerge
  <2>5. CASE \E d \in Press : Decides(d)
    <3>1. PICK d \in Press : place' = [place EXCEPT ![press[d].p] = Decided(press[d].do, @)]
      BY <2>5 DEF Decides
    <3>2. place[p] \in [status : Status, into : Place \cup {Nowhere}, reviewed : BOOLEAN,
                        typed : BOOLEAN, aliases : Seq(Entry)]
      BY <2>0 DEF DeskTypeOK
    <3>3. Decided(press[d].do, place[p]).into = place[p].into
      BY <3>2 DEF Decided
    <3> QED BY <2>0, <3>1, <3>3 DEF DeskTypeOK
  <2>6. CASE (\E ps \in SUBSET Place : Triages(ps)) \/ Untriages
    <3>1. place[p] \in [status : Status, into : Place \cup {Nowhere}, reviewed : BOOLEAN,
                        typed : BOOLEAN, aliases : Seq(Entry)]
      BY <2>0 DEF DeskTypeOK
    <3> QED BY <2>6, <3>1 DEF Triages, Untriages
  <2>7. CASE UNCHANGED place
    BY <2>7
  <2> QED
    BY <2>1, <2>3, <2>4, <2>5, <2>6, <2>7
       DEF DeskNext, OpensDecision, OpensBulkJunk, OpensMerge, LooksUp, GivesUp, Extracts
<1> QED
  BY <1>1, DeskInvariant, PTL DEF DeskSpec, UnmergeGivesBack
=============================================================================
