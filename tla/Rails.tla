-------------------------------- MODULE Rails --------------------------------
(* The rails of one article's page, as the API serves them: a call reads    *)
(* the relation matrix through its process's cache, then the rail cache of  *)
(* the city, and on a miss the article and three rows of candidates, one    *)
(* query after the other, while editors go on publishing, taking down and   *)
(* retyping.  One clock counts the ages of both caches, hours and minutes.  *)
EXTENDS Naturals, FiniteSets, FiniteSetsExt, Sequences

CONSTANTS
    Item,         \* places and articles a row may show
    Reach,        \* for each row, what the query of each rung ranges over: within the
                  \* radius, above the quality floor, one article of each series
    Cap,          \* DiversityCaps: sets of items, and how many of each a row shows
    RerankPool,   \* rerank_pool: the most candidates of a place row
    ArticlePool,  \* and of the article row
    Type,         \* L1 types
    Unknown,      \* the type of a place nobody has classified
    NoType,       \* NULL in an article's primary_type
    Overlay,      \* deterministic_type, for calls that ask for an overlay
    Worlds,       \* what the tables may hold: engine.type_relations, the page's
                  \* article, every candidate's state, type and hidden_rival_flags
    Worker,       \* processes of the API
    Call,         \* calls served at a time
    Absent,
    MaxAge,       \* DEFAULT_MAX_AGE of a cached row
    Ttl,          \* TTL_SECONDS of a process's matrix
    Latency,      \* assumed: a call ends within so many ticks
    MaxItems,     \* the largest k
    MaxTime, MaxEdits  \* bounds

Row == {"row1", "row2", "row3"}
PlaceRow == {"row1", "row2"}

ASSUME RailsAssumption ==
    /\ \A r \in Row : Reach[r] \in Seq(SUBSET Item) /\ Reach[r] # <<>>
    /\ Unknown \in Type /\ NoType \notin Type /\ Overlay \in Type
    /\ \A w \in Worlds :
         /\ w.live \in BOOLEAN /\ w.type \in Type \cup {NoType}
         /\ w.item \in [Item -> [live : BOOLEAN, type : Type \cup {NoType}, flags : SUBSET Type]]
    /\ {RerankPool, ArticlePool, MaxAge, Latency, MaxItems, MaxTime, MaxEdits} \subseteq Nat /\ Ttl \in Nat \ {0}

VARIABLES
    world,    \* the tables: matrix; live and type of the page's article; item
    clock,
    edited,   \* history: when an editor last changed the tables
    edits,    \* history: how often
    known,    \* _cache of relations_cache, of each process
    stored,   \* engine.rail_cache, the article's three rows
    call

railsVars == <<world, clock, edited, edits, known, stored, call>>
worldVars == <<world, clock, edited, edits>>

NoCall == [at |-> "idle"]

-----------------------------------------------------------------------------
(* type_relations and the queries.                                          *)

\* The types that never appear beside a subject of type t.
Excluded(m, t) ==
    LET venues == {x \in DOMAIN m : m[x].same} IN
    IF t = NoType
    THEN venues \cup UNION {m[x].rivals : x \in venues} \cup {Unknown}
    ELSE IF t \in venues THEN {t, Unknown} \cup m[t].rivals ELSE {}

\* A candidate without a type cannot be vouched for where anything is excluded,
\* and an article flagged for a rival it is about goes by the rival's type too.
Competes(m, t, c) ==
    /\ Excluded(m, t) # {}
    /\ \/ world.item[c].type = NoType
       \/ world.item[c].type \in Excluded(m, t)
       \/ world.item[c].flags \cap Excluded(m, t) # {}

\* What a row may show: live, and no competitor of the page's article.
Clean(m, t) == {c \in Item : world.item[c].live /\ ~Competes(m, t, c)}

Likes(m, t) == IF t \in DOMAIN m THEN m[t].likes ELSE {}

\* A rung's candidates: the query and run_ladder drop the competitors.  The
\* first row keeps to the whitelist until its last rung; without a type of the
\* subject no place is shown.
Fetched(r, i, m, t) ==
    {c \in Reach[r][i] \cap Clean(m, t) :
        /\ r \in PlaceRow => t # NoType
        /\ r = "row1" /\ i < Len(Reach[r]) => world.item[c].type \in Likes(m, t)}

\* ladder_target: how many candidates of a row of k items end its ladder.
Slots(r, k) == IF r \in PlaceRow THEN Min({RerankPool, 3 * k}) ELSE ArticlePool

Enough(r, i, m, t, k) == Cardinality(Fetched(r, i, m, t)) >= Slots(r, k)
Rungs(r) == DOMAIN Reach[r]

\* The rung the ladder stops at: the first that fills the slots, else the last.
Landed(r, m, t, k) ==
    CHOOSE i \in Rungs(r) :
        /\ Enough(r, i, m, t, k) \/ i = Len(Reach[r])
        /\ \A j \in Rungs(r) : j < i => ~Enough(r, j, m, t, k)

Pools(r, m, t, k) ==
    LET all == Fetched(r, Landed(r, m, t, k), m, t)
    IN  kSubset(Min({Slots(r, k), Cardinality(all)}), all)

Capped(s) == \A g \in Cap : Cardinality(s \cap g.items) <= g.most

\* Greedy MMR under the caps: whatever the scores, it ends full or where every
\* candidate left would break a cap.
Diversified(pool, k) ==
    {s \in SUBSET pool :
        /\ Capped(s) /\ Cardinality(s) <= k
        /\ Cardinality(s) = k \/ \A c \in pool \ s : ~Capped(s \cup {c})}

-----------------------------------------------------------------------------
RailsInit ==
    /\ world \in Worlds
    /\ clock = 0 /\ edited = 0 /\ edits = 0
    /\ known = [w \in Worker |-> Absent]
    /\ stored = Absent
    /\ call = [c \in Call |-> NoCall]

\* Editors publish, take down and retype, and load relations.
Edits ==
    /\ edits < MaxEdits
    /\ world' \in Worlds \ {world}
    /\ edits' = edits + 1 /\ edited' = clock
    /\ UNCHANGED <<clock, known, stored, call>>

Running(c) == call[c].at # "idle"

\* A call still running keeps time from passing beyond what a call may last.
Tick ==
    /\ clock < MaxTime
    /\ \A c \in Call : Running(c) => clock < call[c].began + Latency
    /\ clock' = clock + 1
    /\ UNCHANGED <<world, edited, edits, known, stored, call>>

-----------------------------------------------------------------------------
(* One call of GET /articles/{id}/rails.                                    *)

\* mutant: a process keeps the matrix that it read first
UsableForever(w) == known[w] # Absent

Usable(w) == known[w] # Absent /\ clock - known[w].loaded < Ttl

\* The orchestrator is built with the process's matrix while it is young
\* enough, else with the table's.
Builds(c, w) ==
    /\ call[c].at = "idle"
    /\ \E k \in 1 .. MaxItems, force, overlay \in BOOLEAN :
         LET m == IF Usable(w) THEN known[w].matrix ELSE world.matrix IN
         /\ known' = IF Usable(w) THEN known
                     ELSE [known EXCEPT ![w] = [matrix |-> m, loaded |-> clock]]
         /\ call' = [call EXCEPT ![c] =
              [at |-> IF force \/ overlay THEN "subject" ELSE "cache", w |-> w, k |-> k,
               overlay |-> overlay, matrix |-> m, began |-> clock]]
    /\ UNCHANGED <<worldVars, stored>>

Fresh == stored # Absent /\ clock - stored.computed <= MaxAge

\* Three fresh rows are the answer; the article is not looked at.
Hits(c) ==
    /\ call[c].at = "cache"
    /\ Fresh
    /\ call' = [call EXCEPT ![c] = NoCall]
    /\ UNCHANGED <<worldVars, known, stored>>

Misses(c) ==
    /\ call[c].at = "cache"
    /\ ~Fresh
    /\ call' = [call EXCEPT ![c].at = "subject"]
    /\ UNCHANGED <<worldVars, known, stored>>

\* A published article is read with its type, which an overlay fills in; any
\* other is a 404.
ReadsSubject(c) ==
    /\ call[c].at = "subject"
    /\ call' = [call EXCEPT ![c] =
         IF world.live
         THEN [at |-> "row1", w |-> @.w, k |-> @.k, overlay |-> @.overlay,
               matrix |-> @.matrix, began |-> @.began, rows |-> <<>>,
               type |-> IF world.type = NoType /\ @.overlay THEN Overlay ELSE world.type]
         ELSE NoCall]
    /\ UNCHANGED <<worldVars, known, stored>>

Following == [row1 |-> "row2", row2 |-> "row3", row3 |-> "write"]

\* What is left to choose from: of the articles only those that are embedded, and
\* none when the page's own article is not.
PoolsFor(c) ==
    LET pools == Pools(call[c].at, call[c].matrix, call[c].type, call[c].k) IN
    IF call[c].at = "row3" THEN UNION {SUBSET pool : pool \in pools} ELSE pools

\* compute_row1, compute_row2, compute_row3: each queries the tables as they
\* are by then.
ComputesRow(c) ==
    /\ call[c].at \in Row
    /\ \E pool \in PoolsFor(c) : \E s \in Diversified(pool, call[c].k) :
         call' = [call EXCEPT ![c].rows = Append(@, s),
                              ![c].at = Following[@]]
    /\ UNCHANGED <<worldVars, known, stored>>

\* One statement and one commit replace the three rows, unless they are an
\* overlay's, and the three are the answer.
Stores(c) ==
    /\ call[c].at = "write"
    /\ stored' = IF call[c].overlay THEN stored
                 ELSE [rows |-> call[c].rows, computed |-> clock]
    /\ call' = [call EXCEPT ![c] = NoCall]
    /\ UNCHANGED <<worldVars, known>>

\* An exception, also from a matrix that could not be read: the transaction is
\* then aborted, so the empty matrix put in its place answers nothing.
Fails(c) ==
    /\ Running(c)
    /\ call' = [call EXCEPT ![c] = NoCall]
    /\ UNCHANGED <<worldVars, known, stored>>

\* A process starts anew, without its matrix and its calls.
Restarts(w) ==
    /\ known[w] # Absent
    /\ known' = [known EXCEPT ![w] = Absent]
    /\ call' = [c \in Call |-> IF Running(c) /\ call[c].w = w THEN NoCall ELSE call[c]]
    /\ UNCHANGED <<worldVars, stored>>

RailsNext ==
    \/ Edits \/ Tick
    \/ \E c \in Call :
         \/ \E w \in Worker : Builds(c, w)
         \/ Hits(c) \/ Misses(c) \/ ReadsSubject(c) \/ ComputesRow(c) \/ Stores(c)
         \/ Fails(c)
    \/ \E w \in Worker : Restarts(w)

RailsSpec == RailsInit /\ [][RailsNext]_railsVars

-----------------------------------------------------------------------------
\* How long after the last edit an answer may still be of before it: a young
\* matrix, a slow computation stamped when it ends, and the age of the rows.
Lag == Ttl + Latency + MaxAge

Honest(rows) ==
    world.live /\ \A i \in DOMAIN rows : rows[i] \subseteq Clean(world.matrix, world.type)

\* The competitor filter never relaxes, and no page is served for an article
\* that is not published: both caches and a slow writer together only delay it.
\* Once nothing was edited for Lag ticks, what a call answers, from the cache or
\* from its own rows, is about a published article and shows live items of types
\* that its type does not exclude (an overlay shows what another type would do).
SettledIsClean ==
    edited + Lag <= clock =>
        /\ Fresh => Honest(stored.rows)
        /\ \A c \in Call :
             call[c].at = "write" /\ ~call[c].overlay => Honest(call[c].rows)
=============================================================================
