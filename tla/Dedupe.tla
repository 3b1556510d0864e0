-------------------------------- MODULE Dedupe --------------------------------
(* The duplicate run over one city's places: the plan made from one reading   *)
(* of the rows, the queue it leaves to the editors, and its merges applied    *)
(* one transaction each while editors decide on the same rows.  Rows are      *)
(* numbered by the rest of survivor_key, the best first.                      *)
EXTENDS Naturals, FiniteSets, FiniteSetsExt

CONSTANTS
    Rows,   \* how many
    Bare,   \* mark of a row without a Google id, an org and a legacy record
    Looks   \* what names and marks of the rows may say: the mark of each row; for
            \* each pair whether the names are of unlike things, and the band of
            \* their similarity

Listed == 1 .. Rows
Pair == {p \in SUBSET Listed : Cardinality(p) = 2}

ASSUME DedupeAssumption ==
    /\ Rows \in Nat
    /\ \A l \in Looks : l.unlike \subseteq Pair /\ l.band \in [Pair -> {"same", "mid", "none"}]

VARIABLES
    row,     \* status and merged_into_id (0 for NULL) of every row
    looks,   \* what the plan reads besides
    plan     \* the plan in progress: what is left of merges, and queued

dedupeVars == <<row, looks, plan>>

RowStatus == {"pending_review", "active", "junk"}
NoPlan == [made |-> FALSE, merges |-> {}, queued |-> {}]

-----------------------------------------------------------------------------
(* plan_dedupe.                                                             *)

\* The guards that do not depend on the status: names of areas, outlets or
\* different kinds of venue, and two marks that differ.
Apart(a, b) ==
    \/ {a, b} \in looks.unlike
    \/ /\ looks.mark[a] # Bare /\ looks.mark[b] # Bare
       /\ looks.mark[a] # looks.mark[b]

Guarded(st, a, b) == Apart(a, b) \/ (st[a] = "active" /\ st[b] = "active")

\* An edge that union-find joins.
AutoEdge(st, a, b) == a # b /\ looks.band[{a, b}] = "same" /\ ~Guarded(st, a, b)

Pool(st) == {r \in Listed : st[r] # "junk"}

Closed(st, s) == \A a \in s : \A b \in Pool(st) : AutoEdge(st, a, b) => b \in s

\* The rows that a chain of edges joins to r.
Cluster(st, r) == {b \in Pool(st) : \A s \in SUBSET Pool(st) : r \in s /\ Closed(st, s) => b \in s}

Better(st, a, b) == IF st[a] = st[b] THEN a < b ELSE st[a] = "active"

Survivor(st, r) ==
    CHOOSE a \in Cluster(st, r) : \A b \in Cluster(st, r) : a = b \/ Better(st, a, b)

\* Everyone of a cluster but its survivor.
Losers(st) == {r \in Pool(st) : Survivor(st, r) # r}

\* mutant: the cluster is merged as it is
ClearedByCluster(st, l) == st[l] # "active"

\* Union-find is transitive, similarity is not: a loser is itself held to the
\* gate against the survivor, and an approved one is never merged away.
Cleared(st, l) ==
    AutoEdge(st, l, Survivor(st, l)) /\ st[l] # "active"

MergesOf(st) == {<<l, Survivor(st, l)>> : l \in {l \in Losers(st) : Cleared(st, l)}}

QueueOf(st) ==
    {p \in Pair : /\ p \subseteq Pool(st) /\ looks.band[p] # "none"
                  /\ \E a, b \in p : a # b /\ ~AutoEdge(st, a, b)}
    \cup {{l, Survivor(st, l)} : l \in {l \in Losers(st) : ~Cleared(st, l)}}

-----------------------------------------------------------------------------
DedupeInit ==
    /\ row \in [Listed -> [status : RowStatus, into : {0}]]
    /\ looks \in Looks
    /\ plan = NoPlan

Statuses == [r \in Listed |-> IF row[r].into = 0 THEN row[r].status ELSE "junk"]

\* fetch_evidence and plan_dedupe, and the queue written out for the editors.
PlansDedupe ==
    /\ ~plan.made
    /\ plan' = [made |-> TRUE, merges |-> MergesOf(Statuses),
                queued |-> QueueOf(Statuses)]
    /\ UNCHANGED <<row, looks>>

\* The merges go in the order of their ids, of which the rank says nothing; one
\* that apply_merge refuses is logged and left.
AppliesNext ==
    \E m \in plan.merges :
        /\ plan' = [plan EXCEPT !.merges = @ \ {m}]
        /\ row' = IF row[m[1]].into = 0 /\ row[m[2]].into = 0 /\ row[m[1]].status # "active"
                  THEN [r \in Listed |->
                          IF r = m[1] \/ row[r].into = m[1] THEN [row[r] EXCEPT !.into = m[2]]
                          ELSE row[r]]
                  ELSE row
        /\ UNCHANGED looks

\* The run is cut off between two transactions.
Stops ==
    /\ plan.made
    /\ plan' = NoPlan
    /\ UNCHANGED <<row, looks>>

\* An editor approves or junks a row at the desk.
EditorDecides(r) ==
    /\ row[r].into = 0
    /\ \E s \in {"active", "junk"} : row' = [row EXCEPT ![r].status = s]
    /\ UNCHANGED <<looks, plan>>

DedupeNext ==
    \/ PlansDedupe \/ AppliesNext \/ Stops
    \/ \E r \in Listed : EditorDecides(r)

DedupeSpec == DedupeInit /\ [][DedupeNext]_dedupeVars

-----------------------------------------------------------------------------
\* Whatever the editors did meanwhile and however often the run was repeated, a
\* row is merged only into a row that it clears the gate against itself, no guard
\* on names or marks objecting: a merge never rests on a third row that resembles
\* both.  (Rows merged into the loser before follow it unseen.)
MergesClearTheGate ==
    [][\A r \in Listed : row[r].into = 0 /\ row'[r].into # 0 =>
          looks.band[{r, row'[r].into}] = "same" /\ ~Apart(r, row'[r].into)]_dedupeVars

\* A pair is queued for an editor, "never merged by this package" (dedupe.py:12).
QueuedIsNotMerged ==
    \A p \in plan.queued : \A a, b \in p :
        a # b => ~ \/ row[a].into = b
                   \/ row[a].into # 0 /\ row[a].into = row[b].into
=============================================================================
