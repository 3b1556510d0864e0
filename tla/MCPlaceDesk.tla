----------------------------- MODULE MCPlaceDesk -----------------------------
(* The places of a city under the desk and the commands, and under the       *)
(* duplicate run; the two are examined side by side, each behaviour moves    *)
(* one.                                                                      *)
EXTENDS PlaceDesk, Dedupe, TLC

CONSTANTS g1, g2

VARIABLE shown  \* "desk" or "dedupe"

Interchangeable == Permutations(Place)

\* Bounds: nothing is claimed of what follows an overtaken press; one place with
\* a type and one on the triage log are enough for every decision to be allowed.
Explored ==
    /\ ~overtaken
    /\ Cardinality({p \in Place : place[p].typed}) <= 1
    /\ Cardinality(triaged) <= 1

\* Two different marks, named in the order of the rows; or bare rows with names
\* of unlike things.
Marked ==
    {m \in [Listed -> {Bare, g1, g2}] :
        \A i \in Listed : m[i] = g2 => \E j \in Listed : j < i /\ m[j] = g1}
Plain == [i \in Listed |-> Bare]
Bands == [Pair -> {"same", "mid", "none"}]
MCLooks ==
    [mark : Marked, unlike : {{}}, band : Bands]
    \cup [mark : {Plain}, unlike : SUBSET Pair, band : Bands]

PlacesInit ==
    /\ shown \in {"desk", "dedupe"}
    /\ DeskInit
    /\ IF shown = "dedupe" THEN DedupeInit
       ELSE /\ row = [r \in Listed |-> [status |-> "junk", into |-> 0]]
            /\ looks = [mark |-> Plain, unlike |-> {}, band |-> [p \in Pair |-> "none"]]
            /\ plan = NoPlan

PlacesNext ==
    \/ shown = "desk" /\ DeskNext /\ UNCHANGED <<dedupeVars, shown>>
    \/ shown = "dedupe" /\ DedupeNext /\ UNCHANGED <<deskVars, shown>>

PlacesSpec == PlacesInit /\ [][PlacesNext]_<<deskVars, dedupeVars, shown>>
=============================================================================
