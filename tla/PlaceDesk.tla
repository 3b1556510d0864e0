------------------------------ MODULE PlaceDesk ------------------------------
(* The catalogue of places under its editors: the desk in the site's admin *)
(* (a press reads the rows it names and writes later), the now-places      *)
(* commands (one locked transaction each), and the extraction that goes on *)
(* hanging mentions on places meanwhile.                                   *)
EXTENDS Naturals, FiniteSets, Sequences, SequencesExt

CONSTANTS
    Place, Mention,
    Press,        \* presses the desk serves at a time
    Nowhere,      \* NULL in merged_into_id and in a mention's place_id
    JunkNamed,    \* places whose name the classifier puts in its junk tier
    MaxEntries    \* bound: merges recorded on one place

ASSUME PlaceAssumption ==
    /\ Nowhere \notin Place
    /\ JunkNamed \subseteq Place
    /\ MaxEntries \in Nat

VARIABLES
    place,     \* public.places, the columns the decisions read and write
    hangs,     \* public.place_mentions: the place each mention hangs on
    press,     \* for each press, where it is and the rows it read
    triaged,   \* place_triage_apply_log.jsonl
    parted,    \* history: what hung on a merged place when it was merged
    overtaken  \* history: a press wrote over a row changed since it read it

deskVars == <<place, hangs, press, triaged, parted, overtaken>>

Status == {"pending_review", "active", "junk"}
Decision == {"keep", "junk", "approve", "reopen", "type", "area"}
Entry == [loser : Place, mentions : SUBSET Mention, repointed : SUBSET Place]

NoPress == [at |-> "idle"]
On(p) == {m \in Mention : hangs[m] = p}
MergedInto(p) == {q \in Place : place[q].into = p}
Record(l) == [loser |-> l, mentions |-> On(l), repointed |-> MergedInto(l)]

DeskInit ==
    /\ place = [p \in Place |-> [status |-> "pending_review", into |-> Nowhere,
                                 reviewed |-> FALSE, typed |-> FALSE, aliases |-> <<>>]]
    /\ hangs \in [Mention -> Place \cup {Nowhere}]
    /\ press = [d \in Press |-> NoPress]
    /\ triaged = {}
    /\ parted = [p \in Place |-> {}]
    /\ overtaken = FALSE

-----------------------------------------------------------------------------
(* A decision on one place: deskPlace, the switch, then payload.update by  *)
(* id.  What the switch allows is judged on the row as it was read.        *)

Allowed(do, row) ==
    /\ row.into = Nowhere
    /\ CASE do = "keep"    -> row.status = "pending_review"
         [] do = "junk"    -> row.status = "pending_review"
         [] do = "approve" -> row.status # "active" /\ row.typed
         [] do = "reopen"  -> row.status # "pending_review"
         [] OTHER          -> TRUE

Decided(do, row) ==
    LET seen == [row EXCEPT !.reviewed = TRUE]
    IN  CASE do = "junk"    -> [seen EXCEPT !.status = "junk"]
          [] do = "approve" -> [seen EXCEPT !.status = "active"]
          [] do = "reopen"  -> [seen EXCEPT !.status = "pending_review"]
          [] do = "type"    -> [seen EXCEPT !.typed = TRUE]
          [] OTHER          -> seen

OpensDecision(d, p, do) ==
    /\ press[d].at = "idle"
    /\ Allowed(do, place[p])
    /\ press' = [press EXCEPT ![d] = [at |-> "decide", do |-> do, p |-> p, row |-> place[p]]]
    /\ UNCHANGED <<place, hangs, triaged, parted, overtaken>>

\* The ticked rows that are still pending, unkept and junk-shaped; one of them
\* here, each being written on its own.
OpensBulkJunk(d, p) ==
    /\ press[d].at = "idle"
    /\ p \in JunkNamed
    /\ place[p].status = "pending_review" /\ place[p].into = Nowhere
    /\ ~place[p].reviewed
    /\ press' = [press EXCEPT ![d] = [at |-> "decide", do |-> "junk", p |-> p, row |-> place[p]]]
    /\ UNCHANGED <<place, hangs, triaged, parted, overtaken>>

Decides(d) ==
    /\ press[d].at = "decide"
    /\ LET p == press[d].p IN
       /\ place' = [place EXCEPT ![p] = Decided(press[d].do, @)]
       /\ overtaken' = (overtaken \/ press[d].row # place[p])
    /\ press' = [press EXCEPT ![d] = NoPress]
    /\ UNCHANGED <<hangs, triaged, parted>>

-----------------------------------------------------------------------------
(* Merging at the desk: both rows are read, then one transaction looks up  *)
(* what hangs on the loser and writes it all.  Its writes hold their row   *)
(* locks until the commit, so they land together; a deadlock or a failed   *)
(* step rolls all of them back.                                            *)

Mergeable(l, s) == l # s /\ place[l].into = Nowhere /\ place[s].into = Nowhere

OpensMerge(d, l, s) ==
    /\ press[d].at = "idle"
    /\ Mergeable(l, s)
    /\ place[l].status # "active"
    /\ press' = [press EXCEPT ![d] = [at |-> "merge", l |-> l, s |-> s,
                                      rows |-> <<place[l], place[s]>>]]
    /\ UNCHANGED <<place, hangs, triaged, parted, overtaken>>

LooksUp(d) ==
    /\ press[d].at = "merge"
    /\ press' = [press EXCEPT ![d] =
                   [at |-> "commit", l |-> @.l, s |-> @.s, rows |-> @.rows,
                    entry |-> Record(@.l)]]
    /\ UNCHANGED <<place, hangs, triaged, parted, overtaken>>

\* Merge l into s by the record e: l and what was merged into it stand behind
\* s, the mentions hang on s, and e joins the aliases.  The desk also stamps
\* every row it writes as reviewed.
Merges(l, s, e, aliases, desk) ==
    /\ Len(aliases) < MaxEntries
    /\ place' = [q \in Place |->
         IF q = s THEN [place[q] EXCEPT !.aliases = Append(aliases, e),
                                        !.reviewed = @ \/ desk]
         ELSE IF q = l \/ q \in e.repointed
              THEN [place[q] EXCEPT !.into = s, !.reviewed = @ \/ desk]
         ELSE place[q]]
    /\ hangs' = [m \in Mention |-> IF m \in e.mentions THEN s ELSE hangs[m]]
    /\ parted' = [parted EXCEPT ![l] = e.mentions]

Stale(c) == c.rows # <<place[c.l], place[c.s]>> \/ c.entry # Record(c.l)

\* mutant: places merged into the loser earlier stay where they point
CommitsLoserOnly(d) ==
    /\ press[d].at = "commit"
    /\ LET c == press[d] IN
       /\ Merges(c.l, c.s, [c.entry EXCEPT !.repointed = {}], c.rows[2].aliases, TRUE)
       /\ overtaken' = (overtaken \/ Stale(c))
    /\ press' = [press EXCEPT ![d] = NoPress]
    /\ UNCHANGED triaged

Commits(d) ==
    /\ press[d].at = "commit"
    /\ LET c == press[d] IN
       /\ Merges(c.l, c.s, c.entry, c.rows[2].aliases, TRUE)
       /\ overtaken' = (overtaken \/ Stale(c))
    /\ press' = [press EXCEPT ![d] = NoPress]
    /\ UNCHANGED triaged

\* The request ends without writing, or its transaction is rolled back.
GivesUp(d) ==
    /\ press[d].at # "idle"
    /\ press' = [press EXCEPT ![d] = NoPress]
    /\ UNCHANGED <<place, hangs, triaged, parted, overtaken>>

-----------------------------------------------------------------------------
(* The commands.  Both rows are locked and checked again before anything   *)
(* moves, so a merge planned on an old snapshot is refused, not applied.   *)

\* mutant: the loser's status is not looked at
AppliesUnchecked(l, s) ==
    /\ Mergeable(l, s)
    /\ Merges(l, s, Record(l), place[s].aliases, FALSE)
    /\ UNCHANGED <<press, triaged, overtaken>>

\* mutant: the record replaces the survivor's earlier ones
AppliesOverAliases(l, s) ==
    /\ Mergeable(l, s)
    /\ place[l].status # "active"
    /\ Merges(l, s, Record(l), <<>>, FALSE)
    /\ UNCHANGED <<press, triaged, overtaken>>

AppliesMerge(l, s) ==
    /\ Mergeable(l, s)
    /\ place[l].status # "active"
    /\ Merges(l, s, Record(l), place[s].aliases, FALSE)
    /\ UNCHANGED <<press, triaged, overtaken>>

\* The last entry that names l on a; 0 when there is none.
EntryFor(a, l) == SelectLastInSeq(a, LAMBDA e : e.loser = l)

\* mutant: the record stays on the survivor and its mentions stay too
UnmergesRowOnly(l) ==
    LET h == place[l].into IN
    /\ h # Nowhere
    /\ place[h].into = Nowhere
    /\ EntryFor(place[h].aliases, l) # 0
    /\ place' = [place EXCEPT ![l].into = Nowhere,
                              ![h].aliases = RemoveAt(@, EntryFor(@, l))]
    /\ UNCHANGED <<hangs, press, triaged, parted, overtaken>>

Unmerges(l) ==
    LET h == place[l].into IN
    /\ h # Nowhere
    /\ place[h].into = Nowhere
    /\ EntryFor(place[h].aliases, l) # 0
    /\ LET i == EntryFor(place[h].aliases, l)
           e == place[h].aliases[i]
       IN  /\ place' = [q \in Place |->
                 CASE q = l -> [place[q] EXCEPT !.into = Nowhere]
                   [] q = h -> [place[q] EXCEPT !.aliases = RemoveAt(@, i)]
                   [] q \in e.repointed /\ place[q].into = h -> [place[q] EXCEPT !.into = l]
                   [] OTHER -> place[q]]
           /\ hangs' = [m \in Mention |-> IF m \in e.mentions /\ hangs[m] = h
                                          THEN l ELSE hangs[m]]
    /\ parted' = [parted EXCEPT ![l] = {}]
    /\ UNCHANGED <<press, triaged, overtaken>>

\* apply_junk, on rows proposed from a snapshot: status and merged_into_id are
\* looked at again, who reviewed the row never is.
Triages(ps) ==
    LET hit == {p \in ps : place[p].status = "pending_review" /\ place[p].into = Nowhere} IN
    /\ ps \subseteq JunkNamed /\ hit # {}
    /\ place' = [p \in Place |-> IF p \in hit THEN [place[p] EXCEPT !.status = "junk"]
                                 ELSE place[p]]
    /\ triaged' = triaged \cup hit
    /\ UNCHANGED <<hangs, press, parted, overtaken>>

Untriages ==
    LET hit == {p \in triaged : place[p].status = "junk"} IN
    /\ hit # {}
    /\ place' = [p \in Place |-> IF p \in hit THEN [place[p] EXCEPT !.status = "pending_review"]
                                 ELSE place[p]]
    /\ UNCHANGED <<hangs, press, triaged, parted, overtaken>>

\* A place is found by its slug, merged or not, and the mention hung on it.
Extracts(m, p) ==
    /\ hangs[m] = Nowhere
    /\ hangs' = [hangs EXCEPT ![m] = p]
    /\ UNCHANGED <<place, press, triaged, parted, overtaken>>

DeskNext ==
    \/ \E d \in Press :
         \/ \E p \in Place : \/ \E do \in Decision : OpensDecision(d, p, do)
                             \/ OpensBulkJunk(d, p)
         \/ Decides(d)
         \/ \E l, s \in Place : OpensMerge(d, l, s)
         \/ LooksUp(d) \/ Commits(d) \/ GivesUp(d)
    \/ \E l, s \in Place : AppliesMerge(l, s)
    \/ \E l \in Place : Unmerges(l)
    \/ \E ps \in SUBSET Place : Triages(ps)
    \/ Untriages
    \/ \E m \in Mention, p \in Place : Extracts(m, p)

DeskSpec == DeskInit /\ [][DeskNext]_deskVars

-----------------------------------------------------------------------------
\* Types of the catalogue and of the presses in flight.
DeskTypeOK ==
    /\ place \in [Place -> [status : Status, into : Place \cup {Nowhere},
                            reviewed : BOOLEAN, typed : BOOLEAN, aliases : Seq(Entry)]]
    /\ hangs \in [Mention -> Place \cup {Nowhere}]
    /\ \A d \in Press : press[d].at \in {"idle", "decide", "merge", "commit"}
    /\ triaged \subseteq JunkNamed
    /\ parted \in [Place -> SUBSET Mention]
    /\ overtaken \in BOOLEAN

\* merged_into never points at a merged row (merge.py:9), so a reader who
\* follows one link is at the surviving place; as long as no press at the desk
\* wrote over a row that changed after it was read.
MergedIntoSurvives ==
    overtaken \/ \A p \in Place : place[p].into # Nowhere => place[place[p].into].into = Nowhere

\* Every merge can be reversed from the record on the survivor: a merged place
\* has its own entry there, or is among the places that an entry re-pointed and
\* comes back into reach when that one is reversed.
MergesAreRecorded ==
    overtaken \/ \A p \in Place : place[p].into # Nowhere =>
        \E i \in DOMAIN place[place[p].into].aliases :
            LET e == place[place[p].into].aliases[i] IN e.loser = p \/ p \in e.repointed

\* A place readers can open was not merged away, whichever of the approval and
\* the merge came first.
MergedIsNotLive ==
    overtaken \/ \A p \in Place : place[p].into # Nowhere => place[p].status # "active"

\* Reversing a merge, even after the survivor was merged on and given back,
\* hangs on the place everything that hung on it when it was merged.
UnmergeGivesBack ==
    [][~overtaken' => \A p \in Place :
          place[p].into # Nowhere /\ place'[p].into = Nowhere
             => \A m \in parted[p] : hangs'[m] = p]_deskVars
=============================================================================
