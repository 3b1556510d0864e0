---------------------------- MODULE ReadingProofs ----------------------------
(***************************************************************************)
(* What a reader is shown and what is kept of the visit: the partitions,   *)
(* proved for every retention window; the beacon, for every set of pages,  *)
(* number of visits, events and days; and the rails, for every number of   *)
(* processes, calls, items and worlds.                                     *)
(***************************************************************************)
EXTENDS Beacon, Rails, SequenceTheorems, WellFoundedInduction, TLAPS

-----------------------------------------------------------------------------
(* Partitions.                                                             *)

(* Days are numbers, and what was covered and written is there.            *)
PartitionInv ==
  /\ today \in Nat /\ covered \in Int /\ parts \subseteq Int /\ written \subseteq Int
  /\ \A d \in Int : today <= covered /\ today - 1 <= d /\ d <= covered => d \in parts
  /\ RetentionKeeps

(* The nightly job, missed or run, and the days that pass keep what the    *)
(* partitions promise.                                                     *)
LEMMA MaintenanceKeeps == PartitionInv /\ MaintenanceNext => PartitionInv'
<1> SUFFICES ASSUME PartitionInv, MaintenanceNext PROVE PartitionInv'
  OBVIOUS
<1> USE PartitionAssumption DEF PartitionInv, RetentionKeeps
<1>1. ASSUME NEW days \in Nat, Ensures(days), UNCHANGED <<today, written>> PROVE PartitionInv'
  <2>1. /\ parts' = parts \cup (today - 1 .. today + days)
        /\ covered' = today + days /\ today' = today /\ written' = written
    BY <1>1 DEF Ensures, Window
  <2>2. today \in Nat /\ days \in Nat /\ \A d \in today - 1 .. today + days : d \in Int
    BY <1>1
  <2>3. parts' \subseteq Int /\ covered' \in Int
    BY <2>1, <2>2
  <2>4. \A d \in Int : today - 1 <= d /\ d <= covered' => d \in parts'
    BY <2>1, <2>2
  <2>5. RetentionKeeps'
    BY <2>1
  <2> QED BY <2>1, <2>2, <2>3, <2>4, <2>5
<1>2. CASE Opens
  BY <1>1, <1>2 DEF Opens
<1>3. CASE Maintains
  BY <1>1, <1>3 DEF Maintains
<1>4. CASE DropsOld
  <2>1. /\ \A d : d \in parts' <=> d \in parts /\ ~(d < today - Retention)
        /\ today' = today /\ covered' = covered /\ written' = written
    BY <1>4 DEF DropsOld, Outdated
  <2>2. today \in Nat /\ covered \in Int /\ parts \subseteq Int
    OBVIOUS
  <2>3. \A d \in Int : today <= covered /\ today - 1 <= d /\ d <= covered => d \in parts'
    BY <2>1, <2>2
  <2>4. RetentionKeeps'
    BY <2>1, <2>2
  <2> QED BY <2>1, <2>2, <2>3, <2>4
<1>5. CASE Closes \/ Reopens
  BY <1>5 DEF Closes, Reopens
<1>6. CASE Midnight
  BY <1>6 DEF Midnight
<1> QED BY <1>2, <1>3, <1>4, <1>5, <1>6 DEF MaintenanceNext

(* The beacon writes only to a partition that is there, and otherwise      *)
(* leaves them alone.                                                      *)
LEMMA PartitionStep == PartitionInv /\ [BeaconNext]_beaconVars => PartitionInv'
<1> SUFFICES ASSUME PartitionInv, [BeaconNext]_beaconVars PROVE PartitionInv'
  OBVIOUS
<1>1. CASE UNCHANGED partitionVars
  BY <1>1 DEF PartitionInv, RetentionKeeps, partitionVars
<1>2. ASSUME NEW batch \in beacon.flight, Arrives(batch) PROVE PartitionInv'
  BY <1>2 DEF Arrives, Writable, Writes, PartitionInv, RetentionKeeps
<1>3. CASE MaintenanceNext
  BY <1>3, MaintenanceKeeps
<1> QED
  BY <1>1, <1>2, <1>3
  DEF BeaconNext, beaconVars, Loads, Navigates, Declares, Clicks, Hides, TimerFires, Consents,
      Pauses, IsLost

(* The same in every state of the beacon and the partitions together.      *)
LEMMA PartitionInvariant == BeaconSpec => []PartitionInv
<1>1. BeaconInit => PartitionInv
  BY PartitionAssumption DEF BeaconInit, PartitionsInit, PartitionInv, RetentionKeeps
<1> QED BY <1>1, PartitionStep, PTL DEF BeaconSpec

(* Retention never drops a day too early (drop_partitions_older_than).     *)
THEOREM RetentionKeepsForAll == BeaconSpec => []RetentionKeeps
<1>1. PartitionInv => RetentionKeeps
  BY DEF PartitionInv
<1> QED BY <1>1, PartitionInvariant, PTL

(* A missed night is not an incident while the days ensured last (main.py):*)
(* today and yesterday have their partitions, whatever was dropped.        *)
THEOREM RunwayHoldsForAll == BeaconSpec => []RunwayHolds
<1>1. PartitionInv => RunwayHolds
  BY DEF PartitionInv, RunwayHolds
<1> QED BY <1>1, PartitionInvariant, PTL

-----------------------------------------------------------------------------
(* The beacon.                                                             *)

Description == [by : {"url", "entity"}, page : Page]
Event == [n : Nat, kind : {"view", "dwell", "exit", "click", "impression"}, page : Description,
          visit : Nat, session : Nat, pause : Nat, era : Nat, day : Int]
Script == [loaded : BOOLEAN, handlers : BOOLEAN, unloading : BOOLEAN, consent : BOOLEAN, era : Nat,
           current : Description \cup {NoPage}, entity : Page \cup {NoPage}, entered : Nat,
           queue : SUBSET Event, timer : {"none", "set"}, flight : SUBSET SUBSET Event,
           session : Nat, seen : Nat, count : Nat]

Held(b) == b.queue \cup UNION b.flight

(* A page described as that of visit v, or by an address as that of a      *)
(* visit to a page without an entity.                                      *)
Names(page, v) ==
  v # 0 => page.page = path[v] \/ (path[v] \notin Entity /\ page.by = "url")

(* An event is of a day that has come, and of a visit that was made; a     *)
(* dwell names it; and one since the last pause is of the present session. *)
EventFits(b, e) ==
  /\ e.day <= today /\ e.pause <= pauses /\ e.visit <= Now
  /\ e.pause = pauses => e.session = b.session /\ b.seen = pauses
  /\ e.kind = "dwell" => Names(e.page, e.visit)

(* What is queued was collected with the consent there is, and once a      *)
(* function of the script has returned it waits for a timer; what is       *)
(* queued or under way fits, and keeps its session.                        *)
Gathered(b) ==
  /\ b \in Script
  /\ b.queue # {} => b.consent
  /\ \A e \in b.queue : e.era = b.era
  /\ \A e \in Held(b) : EventFits(b, e)
  /\ \A e, g \in Held(b) : e.pause = g.pause => e.session = g.session

Collected(b) == Gathered(b) /\ (b.queue # {} => b.timer = "set")

(* The tab: visits that were made, and calls that were made on them.       *)
Tab ==
  /\ path \in Seq(Page) /\ Now >= 1 /\ pauses \in Nat /\ today \in Int
  /\ pre \in Seq([visit : Nat, card : BOOLEAN])
  /\ \A i \in DOMAIN pre : 1 <= pre[i].visit /\ pre[i].visit <= Now

(* What the script leaves as it was, and what it sends meanwhile.          *)
Grows(b, c) ==
  /\ c.consent = b.consent /\ c.era = b.era
  /\ \A batch \in c.flight \ b.flight : c.consent /\ \A e \in batch : e.era = c.era
Lasts(b, c) ==
  c.loaded = b.loaded /\ c.handlers = b.handlers /\ c.unloading = b.unloading
Steady(b, c) ==
  /\ c.current = b.current /\ c.entity = b.entity /\ c.entered = b.entered
  /\ Lasts(b, c)

(* A flush moves the queue to the way as it is.                            *)
LEMMA FlushKeeps ==
  ASSUME NEW b, Gathered(b)
  PROVE  /\ Collected(Flushed(b)) /\ Grows(b, Flushed(b)) /\ Steady(b, Flushed(b))
         /\ Flushed(b).session = b.session /\ Flushed(b).seen = b.seen
<1> DEFINE c == Flushed(b)
<1>1. b \in Script
  BY DEF Gathered
<1>2. /\ c \in Script /\ c.queue = {} /\ c.consent = b.consent /\ c.era = b.era
      /\ c.session = b.session /\ c.seen = b.seen /\ Steady(b, c)
      /\ c.flight = IF b.queue = {} THEN b.flight ELSE b.flight \cup {b.queue}
  BY <1>1 DEF Flushed, Steady, Lasts, Script
<1> HIDE DEF c
<1>3. Held(c) = Held(b)
  BY <1>2 DEF Held
<1>4. Collected(c)
  <2>1. \A e \in Held(c) : EventFits(c, e)
    BY <1>2, <1>3 DEF Gathered, EventFits
  <2>2. \A e, g \in Held(c) : e.pause = g.pause => e.session = g.session
    BY <1>3 DEF Gathered
  <2> QED BY <1>2, <2>1, <2>2 DEF Collected, Gathered
<1>5. Grows(b, c)
  <2>1. \A batch \in c.flight \ b.flight : batch = b.queue /\ b.queue # {}
    BY <1>2
  <2> QED BY <1>2, <2>1 DEF Grows, Gathered
<1> QED BY <1>2, <1>4, <1>5 DEF c

(* An event that fits is queued, and the queue sent when it is full.       *)
LEMMA EnqueueKeeps ==
  ASSUME NEW b, Collected(b), b.consent, NEW e \in Event,
         e.era = b.era, e.pause = pauses, e.session = b.session, b.seen = pauses,
         EventFits(b, e)
  PROVE  /\ Collected(Enqueued(b, e)) /\ Grows(b, Enqueued(b, e)) /\ Steady(b, Enqueued(b, e))
         /\ Enqueued(b, e).session = b.session /\ Enqueued(b, e).seen = b.seen
<1> DEFINE q == [b EXCEPT !.queue = @ \cup {e}, !.count = @ + 1]
           c == Enqueued(b, e)
<1>1. b \in Script
  BY DEF Collected, Gathered
<1>2. /\ q \in Script /\ q.queue = b.queue \cup {e} /\ q.flight = b.flight
      /\ q.consent = b.consent /\ q.era = b.era /\ q.session = b.session /\ q.seen = b.seen
      /\ Steady(b, q)
  <2>1. b.queue \cup {e} \in SUBSET Event /\ b.count + 1 \in Nat
    BY <1>1 DEF Script
  <2> DEFINE s == b.queue \cup {e}
             n == b.count + 1
  <2>2. q = [b EXCEPT !.queue = s, !.count = n]
    OBVIOUS
  <2> HIDE DEF q, s, n
  <2>3. s \in SUBSET Event /\ n \in Nat
    BY <2>1 DEF s, n
  <2>4. /\ q \in Script /\ q.queue = s /\ q.flight = b.flight
        /\ q.consent = b.consent /\ q.era = b.era /\ q.session = b.session /\ q.seen = b.seen
        /\ Steady(b, q)
    BY <1>1, <2>2, <2>3 DEF Script, Steady, Lasts
  <2> QED BY <2>4 DEF s
<1>3. c = IF Cardinality(q.queue) >= FlushSize THEN Flushed(q)
          ELSE [q EXCEPT !.timer = IF @ = "none" THEN "set" ELSE @]
  BY DEF Enqueued
<1> HIDE DEF q, c
<1>4. Held(q) = Held(b) \cup {e}
  BY <1>2 DEF Held
<1>5. Gathered(q)
  <2> USE DEF Collected, Gathered
  <2>1. \A g \in Held(q) : EventFits(q, g)
    BY <1>2, <1>4 DEF EventFits
  <2>2. \A g, h \in Held(q) : g.pause = h.pause => g.session = h.session
    BY <1>2, <1>4 DEF EventFits
  <2>3. \A g \in q.queue : g.era = q.era
    BY <1>2
  <2> QED BY <1>2, <2>1, <2>2, <2>3
<1>6. Grows(b, q)
  BY <1>2 DEF Grows
<1>7. CASE Cardinality(q.queue) >= FlushSize
  <2>1. c = Flushed(q)
    BY <1>3, <1>7
  <2>2. /\ Collected(c) /\ Grows(q, c) /\ Steady(q, c) /\ c.session = q.session /\ c.seen = q.seen
    BY <1>5, <2>1, FlushKeeps
  <2>3. Steady(b, c) /\ Grows(b, c)
    BY <1>2, <2>2 DEF Steady, Lasts, Grows
  <2> QED BY <1>2, <2>2, <2>3 DEF c
<1>8. CASE ~(Cardinality(q.queue) >= FlushSize)
  <2>1. c = [q EXCEPT !.timer = IF @ = "none" THEN "set" ELSE @]
    BY <1>3, <1>8
  <2>2. /\ c \in Script /\ c.queue = q.queue /\ c.flight = q.flight /\ c.timer = "set"
        /\ c.consent = q.consent /\ c.era = q.era /\ c.session = q.session /\ c.seen = q.seen
        /\ Steady(q, c)
    BY <1>2, <2>1 DEF Script, Steady, Lasts
  <2>3. Held(c) = Held(q)
    BY <2>2 DEF Held
  <2>4. Collected(c)
    BY <1>5, <2>2, <2>3 DEF Collected, Gathered, EventFits
  <2>5. Steady(b, c) /\ Grows(b, c)
    BY <1>2, <1>6, <2>2 DEF Steady, Lasts, Grows
  <2> QED BY <1>2, <2>2, <2>4, <2>5 DEF c
<1> QED BY <1>7, <1>8

(* track: an event of the present session, if the reader agreed.           *)
LEMMA TrackedKeeps ==
  ASSUME Tab, NEW b, Collected(b),
         NEW kind \in {"view", "dwell", "exit", "click"}, NEW page \in Description,
         NEW v \in Nat, v <= Now, kind = "dwell" => Names(page, v)
  PROVE  /\ Collected(Tracked(b, kind, page, v))
         /\ Grows(b, Tracked(b, kind, page, v)) /\ Steady(b, Tracked(b, kind, page, v))
<1>1. CASE ~b.consent
  BY <1>1 DEF Tracked, Grows, Steady, Lasts
<1>2. CASE b.consent
  <2> DEFINE d == [b EXCEPT !.seen = pauses]
             e == [n |-> b.count, kind |-> kind, page |-> page, visit |-> v,
                   session |-> b.session, pause |-> pauses, era |-> b.era, day |-> today]
  <2>1. b \in Script
    BY DEF Collected, Gathered
  <2>2. /\ d \in Script /\ d.queue = b.queue /\ d.flight = b.flight /\ d.timer = b.timer
        /\ d.consent = b.consent /\ d.era = b.era /\ d.session = b.session /\ d.seen = pauses
        /\ Steady(b, d)
    BY <2>1 DEF Tab, Script, Steady, Lasts
  <2>3. /\ e \in Event /\ e.era = b.era /\ e.pause = pauses /\ e.session = b.session
        /\ e.day = today /\ e.visit = v /\ e.kind = kind /\ e.page = page
    BY <2>1 DEF Event, Script, Tab
  <2>4. Tracked(b, kind, page, v) = Enqueued(d, e)
    BY <1>2 DEF Tracked
  <2> HIDE DEF d, e
  <2>5. Held(d) = Held(b)
    BY <2>2 DEF Held
  <2>6. Collected(d)
    BY <2>2, <2>5 DEF Collected, Gathered, EventFits
  <2>7. EventFits(d, e)
    BY <2>2, <2>3 DEF EventFits, Tab
  <2>8. /\ Collected(Enqueued(d, e)) /\ Grows(d, Enqueued(d, e)) /\ Steady(d, Enqueued(d, e))
    BY <1>2, <2>2, <2>3, <2>6, <2>7, EnqueueKeeps
  <2> QED BY <2>2, <2>4, <2>8 DEF Grows, Steady, Lasts
<1>3. b.consent \in BOOLEAN
  BY DEF Collected, Gathered, Script
<1> QED BY <1>1, <1>2, <1>3

(* What is asked of as a page is one, and names the visit it is asked of.  *)
LEMMA DescribedNames ==
  ASSUME Tab, NEW v \in 1 .. Now
  PROVE  /\ EntityOf(v) \in Page \cup {NoPage} /\ path[v] \in Page
         /\ Described(EntityOf(v)) \in Description /\ Described(EntityOf(v)) # NoPage
         /\ Names(Described(EntityOf(v)), v)
         /\ Described(NoPage) \in Description
<1>1. path[v] \in Page /\ path[Now] \in Page
  BY DEF Tab, Now
<1> QED
  BY <1>1, BeaconAssumption DEF EntityOf, Described, Description, Names

(* Different entities are described differently.                           *)
LEMMA DescribedApart ==
  ASSUME Tab, NEW v \in 1 .. Now, NEW w \in 1 .. Now,
         Described(EntityOf(v)) = Described(EntityOf(w))
  PROVE  EntityOf(v) = EntityOf(w)
<1>1. \A e \in Page : Described(e).by = "entity" /\ Described(e).page = e
  BY BeaconAssumption DEF Described
<1>2. Described(NoPage).by = "url"
  BY DEF Described
<1>3. EntityOf(v) \in Page \cup {NoPage} /\ EntityOf(w) \in Page \cup {NoPage}
  BY DescribedNames
<1> QED BY <1>1, <1>2, <1>3

(* impression: a session of its own for one that begins it.                *)
LEMMA ImpressedKeeps ==
  ASSUME Tab, NEW b, Collected(b)
  PROVE  /\ Collected(Impressed(b)) /\ Grows(b, Impressed(b)) /\ Steady(b, Impressed(b))
<1>1. CASE ~b.consent
  BY <1>1 DEF Impressed, Grows, Steady, Lasts
<1>2. CASE b.consent
  <2> DEFINE s == IF b.seen = pauses THEN b.session ELSE b.session + 1
             d == [b EXCEPT !.seen = pauses, !.session = s]
             e == [n |-> b.count, kind |-> "impression", page |-> Described(NoPage), visit |-> Now,
                   session |-> s, pause |-> pauses, era |-> b.era, day |-> today]
  <2>1. b \in Script
    BY DEF Collected, Gathered
  <2>0. s \in Nat
    BY <2>1 DEF Script
  <2>2. /\ d \in Script /\ d.queue = b.queue /\ d.flight = b.flight /\ d.timer = b.timer
        /\ d.consent = b.consent /\ d.era = b.era /\ d.session = s /\ d.seen = pauses
        /\ Steady(b, d)
    <3> HIDE DEF s
    <3> QED BY <2>0, <2>1 DEF Tab, Script, Steady, Lasts
  <2>3. /\ e \in Event /\ e.era = b.era /\ e.pause = pauses /\ e.session = s
        /\ e.day = today /\ e.visit = Now /\ e.kind = "impression"
    <3>1. Described(NoPage) \in Description /\ Now \in Nat
      BY DescribedNames DEF Tab, Now
    <3> HIDE DEF s
    <3> QED BY <2>0, <2>1, <3>1 DEF Event, Script, Tab
  <2>4. Impressed(b) = Enqueued(d, e)
    BY <1>2 DEF Impressed
  <2>9. b.seen = pauses => s = b.session
    OBVIOUS
  <2> HIDE DEF d, e, s
  <2>5. Held(d) = Held(b)
    BY <2>2 DEF Held
  <2>6. Collected(d)
    BY <2>2, <2>5, <2>9 DEF Collected, Gathered, EventFits
  <2>7. EventFits(d, e)
    BY <2>2, <2>3 DEF EventFits, Tab, Now
  <2>8. /\ Collected(Enqueued(d, e)) /\ Grows(d, Enqueued(d, e)) /\ Steady(d, Enqueued(d, e))
    BY <1>2, <2>2, <2>3, <2>6, <2>7, EnqueueKeeps
  <2> QED BY <2>2, <2>4, <2>8 DEF Grows, Steady, Lasts
<1>3. b.consent \in BOOLEAN
  BY DEF Collected, Gathered, Script
<1> QED BY <1>1, <1>2, <1>3

(* The page the script is on is the one its time is counted for.           *)
Paged(b) == b.entered <= Now /\ (b.current # NoPage => Names(b.current, b.entered))

(* The script is on the page it was told of, or stays where it was.        *)
Turns(b, c, v, at) ==
  IF b.consent /\ b.current # Described(EntityOf(v))
  THEN c.current = Described(EntityOf(v)) /\ c.entity = EntityOf(v) /\ c.entered = at
  ELSE c.current = b.current /\ c.entity = b.entity /\ c.entered = b.entered

(* setPage: a dwell for the page that is left, a view of the next.         *)
LEMMA PageSetKeeps ==
  ASSUME Tab, NEW b, Collected(b), Paged(b), NEW v \in 1 .. Now, NEW at \in {0, v}
  PROVE  /\ Collected(PageSet(b, v, at)) /\ Grows(b, PageSet(b, v, at)) /\ Lasts(b, PageSet(b, v, at))
         /\ Turns(b, PageSet(b, v, at), v, at)
<1> DEFINE next == Described(EntityOf(v))
           left == IF b.current = NoPage THEN b ELSE Tracked(b, "dwell", b.current, b.entered)
           moved == [left EXCEPT !.entity = EntityOf(v), !.entered = at, !.current = next]
<1>1. /\ next \in Description /\ EntityOf(v) \in Page \cup {NoPage}
      /\ at \in Nat /\ at <= Now /\ v \in Nat /\ v <= Now
  BY DescribedNames DEF Tab, Now
<1>2. b \in Script
  BY DEF Collected, Gathered
<1>3. CASE ~b.consent \/ b.current = next
  BY <1>3 DEF PageSet, Grows, Lasts, Turns
<1>4. CASE b.consent /\ b.current # next
  <2>1. PageSet(b, v, at) = Tracked(moved, "view", next, v)
    BY <1>4 DEF PageSet
  <2>2. Collected(left) /\ Grows(b, left) /\ Steady(b, left)
    <3>1. CASE b.current = NoPage
      BY <3>1 DEF Grows, Steady, Lasts
    <3>2. CASE b.current # NoPage
      <4>1. /\ b.current \in Description /\ b.entered \in Nat /\ b.entered <= Now
            /\ Names(b.current, b.entered) /\ "dwell" \in {"view", "dwell", "exit", "click"}
        BY <1>2, <3>2 DEF Script, Paged
      <4>2. left = Tracked(b, "dwell", b.current, b.entered)
        BY <3>2
      <4> QED BY <4>1, <4>2, TrackedKeeps
    <3> QED BY <3>1, <3>2
  <2> HIDE DEF next, left
  <2>3. left \in Script
    BY <2>2 DEF Collected, Gathered
  <2>4. /\ moved \in Script /\ moved.queue = left.queue /\ moved.flight = left.flight
        /\ moved.timer = left.timer /\ moved.consent = left.consent /\ moved.era = left.era
        /\ moved.session = left.session /\ moved.seen = left.seen /\ Lasts(left, moved)
        /\ moved.current = next /\ moved.entity = EntityOf(v) /\ moved.entered = at
    <3> DEFINE ent == EntityOf(v)
    <3>1. ent \in Page \cup {NoPage}
      BY <1>1
    <3> HIDE DEF ent
    <3>2. moved = [left EXCEPT !.entity = ent, !.entered = at, !.current = next]
      BY DEF ent
    <3> HIDE DEF moved
    <3>3. /\ moved \in Script /\ moved.queue = left.queue /\ moved.flight = left.flight
          /\ moved.timer = left.timer /\ moved.consent = left.consent /\ moved.era = left.era
          /\ moved.session = left.session /\ moved.seen = left.seen /\ Lasts(left, moved)
          /\ moved.current = next /\ moved.entity = ent /\ moved.entered = at
      BY <1>1, <2>3, <3>1, <3>2 DEF Script, Lasts
    <3> QED BY <3>3 DEF ent
  <2> HIDE DEF moved
  <2>5. Held(moved) = Held(left)
    BY <2>4 DEF Held
  <2>6. Collected(moved)
    BY <2>2, <2>4, <2>5 DEF Collected, Gathered, EventFits
  <2> DEFINE c == Tracked(moved, "view", next, v)
  <2>7. Collected(c) /\ Grows(moved, c) /\ Steady(moved, c)
    <3>1. "view" \in {"view", "dwell", "exit", "click"} /\ "view" # "dwell"
      OBVIOUS
    <3> QED BY <1>1, <2>6, <3>1, TrackedKeeps
  <2>8. PageSet(b, v, at) = c
    BY <2>1
  <2> HIDE DEF c
  <2>9. Collected(c) /\ Grows(b, c) /\ Lasts(b, c)
    BY <2>2, <2>4, <2>7 DEF Grows, Steady, Lasts
  <2>10. Turns(b, c, v, at)
    BY <1>4, <2>4, <2>7 DEF Turns, Steady, next
  <2> QED BY <2>8, <2>9, <2>10
<1>5. b.consent \in BOOLEAN
  BY <1>2 DEF Script
<1> QED BY <1>3, <1>4, <1>5

(* And then an impression, of the same page.                               *)
LEMMA DeclaredKeeps ==
  ASSUME Tab, NEW b, Collected(b), Paged(b), NEW v \in 1 .. Now, NEW at \in {0, v},
         NEW card
  PROVE  /\ Collected(Declared(b, v, at, card)) /\ Grows(b, Declared(b, v, at, card))
         /\ Lasts(b, Declared(b, v, at, card)) /\ Turns(b, Declared(b, v, at, card), v, at)
         /\ Paged(Declared(b, v, at, card))
<1> DEFINE p == PageSet(b, v, at)
           c == Declared(b, v, at, card)
<1>1. Collected(p) /\ Grows(b, p) /\ Lasts(b, p) /\ Turns(b, p, v, at)
  BY PageSetKeeps
<1>2. Collected(Impressed(p)) /\ Grows(p, Impressed(p)) /\ Steady(p, Impressed(p))
  BY <1>1, ImpressedKeeps
<1>3. c = p \/ c = Impressed(p)
  BY DEF Declared
<1>4. Collected(c) /\ Grows(p, c) /\ Steady(p, c)
  BY <1>1, <1>2, <1>3 DEF Grows, Steady, Lasts
<1> HIDE DEF p, c
<1>5. Grows(b, c) /\ Lasts(b, c) /\ Turns(b, c, v, at)
  BY <1>1, <1>4 DEF Grows, Steady, Lasts, Turns
<1>6. Paged(c)
  <2>1. Names(Described(EntityOf(v)), v)
    BY DescribedNames
  <2>2. Now \in Nat /\ at <= Now /\ (at = 0 \/ at = v)
    BY DEF Tab, Now
  <2>3. Names(Described(EntityOf(v)), at)
    BY <2>1, <2>2 DEF Names
  <2> QED BY <1>5, <2>2, <2>3 DEF Turns, Paged
<1> QED BY <1>4, <1>5, <1>6 DEF c

(* A set of numbers with 0, and with each number the next, has them all.   *)
LEMMA AllNumbers ==
  ASSUME NEW S \in SUBSET Nat, 0 \in S, \A n \in S : n + 1 \in S
  PROVE  S = Nat
<1> DEFINE R == {ss \in Nat \X Nat : ss[1] < ss[2]}
           T == Nat \ S
<1>1. SUFFICES ASSUME T # {} PROVE FALSE
  OBVIOUS
<1>2. IsWellFoundedOn(R, Nat)
  BY NatLessThanWellFounded DEF OpToRel
<1>3. PICK t \in T : \A u \in T : ~(<<u, t>> \in R)
  <2>1. T \subseteq Nat
    OBVIOUS
  <2> HIDE DEF R, T
  <2> QED BY <1>1, <1>2, <2>1, WFMin
<1>4. t \in Nat /\ t # 0 /\ t \notin S
  BY <1>3
<1>5. t - 1 \in Nat /\ t - 1 \notin S
  <2>1. t - 1 \in Nat /\ (t - 1) + 1 = t
    BY <1>4
  <2> QED BY <2>1, <1>4
<1>6. t - 1 \in T /\ <<t - 1, t>> \in R
  BY <1>4, <1>5
<1> QED BY <1>3, <1>6

(* The states of the replay, one after each call, and that there are such. *)
Replays(b, g, m) ==
  g = [n \in 0 .. m |->
         IF n = 0 THEN b ELSE Declared(g[n - 1], pre[n].visit, 0, pre[n].card)]

(* By induction on the number of calls, as a set of numbers.               *)
LEMMA ReplayIsThere ==
  ASSUME NEW b, NEW m \in Nat
  PROVE  \E g : Replays(b, g, m)
<1> DEFINE Next(c, n) == Declared(c, pre[n].visit, 0, pre[n].card)
           S == {k \in Nat : \E g : Replays(b, g, k)}
<1>1. 0 \in S
  <2> DEFINE g == [n \in 0 .. 0 |-> b]
  <2>1. Replays(b, g, 0)
    BY DEF Replays
  <2> QED BY <2>1
<1>2. ASSUME NEW k \in S PROVE k + 1 \in S
  <2>1. PICK g : Replays(b, g, k)
    OBVIOUS
  <2> DEFINE h == [n \in 0 .. k + 1 |-> IF n = k + 1 THEN Next(g[k], n) ELSE g[n]]
  <2> HIDE DEF Next
  <2>2. g = [n \in 0 .. k |-> IF n = 0 THEN b ELSE Next(g[n - 1], n)]
    BY <2>1 DEF Replays, Next
  <2>3. h = [n \in 0 .. k + 1 |-> IF n = 0 THEN b ELSE Next(h[n - 1], n)]
    <3>1. k \in Nat
      OBVIOUS
    <3>2. ASSUME NEW n \in 0 .. k + 1 PROVE h[n] = IF n = 0 THEN b ELSE Next(h[n - 1], n)
      <4>1. CASE n = k + 1
        <5>1. n # 0 /\ n - 1 = k /\ k \in 0 .. k + 1 /\ k # k + 1
          BY <3>1, <4>1
        <5>2. h[n] = Next(g[k], n) /\ h[k] = g[k]
          BY <4>1, <5>1
        <5> QED BY <5>1, <5>2
      <4>2. CASE n # k + 1 /\ n # 0
        <5>1. n \in 0 .. k /\ n - 1 \in 0 .. k + 1 /\ n - 1 # k + 1
          BY <3>1, <4>2
        <5>2. h[n] = g[n] /\ h[n - 1] = g[n - 1]
          BY <4>2, <5>1
        <5>3. g[n] = Next(g[n - 1], n)
          BY <2>2, <4>2, <5>1
        <5> QED BY <4>2, <5>2, <5>3
      <4>3. CASE n = 0
        <5>1. n \in 0 .. k /\ n # k + 1
          BY <3>1, <4>3
        <5>2. h[n] = g[n] /\ g[n] = b
          BY <2>2, <4>3, <5>1
        <5> QED BY <4>3, <5>2
      <4> QED BY <4>1, <4>2, <4>3
    <3> QED BY <3>2
  <2>4. Replays(b, h, k + 1)
    BY <2>3 DEF Replays, Next
  <2>5. k + 1 \in Nat
    OBVIOUS
  <2> HIDE DEF h
  <2> QED BY <2>4, <2>5
<1>3. S \in SUBSET Nat
  OBVIOUS
<1> HIDE DEF S
<1>4. S = Nat
  BY <1>1, <1>2, <1>3, AllNumbers
<1> QED BY <1>4 DEF S

(* The calls made before the script was there, replayed: it knows the page *)
(* of the last of them, unless the reader did not agree.                   *)
LEMMA ReplayedKeeps ==
  ASSUME Tab, NEW b, Collected(b), b.current = NoPage, b.entity = EntityOf(Now), b.entered <= Now
  PROVE  /\ Collected(Replayed(b)) /\ Grows(b, Replayed(b)) /\ Lasts(b, Replayed(b))
         /\ Replayed(b).entered \in 1 .. Now
         /\ IF b.consent THEN Replayed(b).entity = EntityOf(Replayed(b).entered)
                         ELSE Replayed(b).current = NoPage
<1> DEFINE last == IF pre = <<>> THEN Now ELSE pre[Len(pre)].visit
<1>1. PICK g : Replays(b, g, Len(pre)) /\ Replayed(b) = [g[Len(pre)] EXCEPT !.entered = last]
  <2> DEFINE g == CHOOSE g : Replays(b, g, Len(pre))
  <2>1. Replays(b, g, Len(pre))
    <3>1. Len(pre) \in Nat
      BY DEF Tab
    <3>2. \E h : Replays(b, h, Len(pre))
      BY <3>1, ReplayIsThere
    <3> QED BY <3>2
  <2>2. Replayed(b) = [g[Len(pre)] EXCEPT !.entered = last]
    BY DEF Replayed, Replays
  <2> QED BY <2>1, <2>2
<1> DEFINE n == Len(pre)
<1>2. /\ n \in Nat /\ DOMAIN pre = 1 .. n /\ Now \in Nat
      /\ \A i \in 1 .. n : pre[i].visit \in 1 .. Now
  <2>1. pre \in Seq([visit : Nat, card : BOOLEAN]) /\ path \in Seq(Page)
    BY DEF Tab
  <2>2. n \in Nat /\ DOMAIN pre = 1 .. n /\ Now \in Nat
    BY <2>1 DEF Now
  <2>3. \A i \in 1 .. n : pre[i] \in [visit : Nat, card : BOOLEAN]
    BY <2>1, <2>2, ElementOfSeq
  <2>4. \A i \in 1 .. n : pre[i].visit \in Nat /\ 1 <= pre[i].visit /\ pre[i].visit <= Now
    BY <2>2, <2>3 DEF Tab
  <2> QED BY <2>2, <2>4
<1>3. \A k \in 1 .. n : g[k] = Declared(g[k - 1], pre[k].visit, 0, pre[k].card)
  <2> SUFFICES ASSUME NEW k \in 1 .. n
               PROVE  g[k] = Declared(g[k - 1], pre[k].visit, 0, pre[k].card)
    OBVIOUS
  <2>1. k \in 0 .. n /\ k # 0
    BY <1>2
  <2> QED BY <1>1, <2>1 DEF Replays
<1>4. g[0] = b
  BY <1>1, <1>2 DEF Replays
<1> DEFINE Fine(k) == /\ Collected(g[k]) /\ Grows(b, g[k]) /\ Lasts(b, g[k]) /\ Paged(g[k])
                      /\ IF b.consent /\ k # 0
                         THEN /\ g[k].entity = EntityOf(pre[k].visit)
                              /\ g[k].current = Described(g[k].entity)
                         ELSE g[k].current = NoPage /\ g[k].entity = EntityOf(Now)
           S == {k \in Nat : k <= n => Fine(k)}
<1>5. Fine(0)
  BY <1>4 DEF Grows, Lasts, Paged
<1>6. ASSUME NEW k \in Nat, k + 1 <= n, Fine(k) PROVE Fine(k + 1)
  <2> DEFINE v == pre[k + 1].visit
             c == g[k + 1]
  <2>1. v \in 1 .. Now /\ c = Declared(g[k], v, 0, pre[k + 1].card)
    <3>1. k + 1 \in 1 .. n /\ (k + 1) - 1 = k
      BY <1>2, <1>6
    <3> QED BY <1>2, <1>3, <3>1
  <2>2. /\ Collected(c) /\ Grows(g[k], c) /\ Lasts(g[k], c) /\ Turns(g[k], c, v, 0) /\ Paged(c)
    BY <1>6, <2>1, DeclaredKeeps
  <2>3. Grows(b, c) /\ Lasts(b, c)
    BY <1>6, <2>2 DEF Grows, Lasts
  <2>4. k + 1 # 0 /\ g[k].consent = b.consent
    BY <1>6 DEF Grows
  <2>5. Described(EntityOf(v)) # NoPage
    BY <2>1, DescribedNames
  <2>6. CASE ~b.consent
    <3>1. g[k].current = NoPage /\ g[k].entity = EntityOf(Now)
      BY <1>6, <2>6
    <3>2. c.current = NoPage /\ c.entity = EntityOf(Now)
      BY <2>2, <2>4, <2>6, <3>1 DEF Turns
    <3> HIDE DEF c
    <3> QED BY <2>2, <2>3, <2>6, <3>2 DEF c
  <2>7. CASE b.consent
    <3>1. c.entity = EntityOf(v) /\ c.current = Described(EntityOf(v))
      <4>1. CASE g[k].current # Described(EntityOf(v))
        BY <2>2, <2>4, <2>7, <4>1 DEF Turns
      <4>2. CASE g[k].current = Described(EntityOf(v))
        <5>1. g[k].current = Described(g[k].entity) /\ g[k].entity = EntityOf(pre[k].visit)
              /\ pre[k].visit \in 1 .. Now
          BY <1>2, <1>6, <2>5, <2>7, <4>2
        <5>2. g[k].entity = EntityOf(v)
          BY <2>1, <4>2, <5>1, DescribedApart
        <5>3. c.current = g[k].current /\ c.entity = g[k].entity
          BY <2>2, <4>2 DEF Turns
        <5> QED BY <4>2, <5>2, <5>3
      <4> QED BY <4>1, <4>2
    <3> HIDE DEF c
    <3>2. c.entity = EntityOf(v) /\ c.current = Described(c.entity)
      BY <3>1
    <3> QED BY <2>2, <2>3, <2>4, <2>7, <3>2 DEF c
  <2>8. b.consent \in BOOLEAN
    BY DEF Collected, Gathered, Script
  <2> QED BY <2>6, <2>7, <2>8
<1>7. Fine(n)
  <2> HIDE DEF Fine
  <2>1. 0 \in S /\ S \subseteq Nat
    BY <1>5
  <2>2. ASSUME NEW k \in S PROVE k + 1 \in S
    <3>1. k \in Nat /\ k + 1 \in Nat /\ (k + 1 <= n => k <= n)
      BY <1>2
    <3> QED BY <1>6, <3>1
  <2> HIDE DEF S
  <2>3. S = Nat
    BY <2>1, <2>2, AllNumbers
  <2> QED BY <1>2, <2>3 DEF S
<1> DEFINE d == g[n]
           c == Replayed(b)
<1>8. /\ Collected(d) /\ Grows(b, d) /\ Lasts(b, d)
      /\ IF b.consent /\ n # 0 THEN d.entity = EntityOf(pre[n].visit)
         ELSE d.current = NoPage /\ d.entity = EntityOf(Now)
  BY <1>7
<1>9. last \in 1 .. Now /\ last = IF n = 0 THEN Now ELSE pre[n].visit
  BY <1>2 DEF Tab
<1>10. c = [d EXCEPT !.entered = last]
  BY <1>1
<1> HIDE DEF c, d, last, Fine, n
<1>11. /\ c \in Script /\ c.queue = d.queue /\ c.flight = d.flight /\ c.timer = d.timer
       /\ c.consent = d.consent /\ c.era = d.era /\ c.session = d.session /\ c.seen = d.seen
       /\ c.current = d.current /\ c.entity = d.entity /\ c.entered = last /\ Lasts(d, c)
  <2>1. d \in Script /\ last \in Nat
    BY <1>8, <1>9, <1>2 DEF Collected, Gathered
  <2> QED BY <1>10, <2>1 DEF Script, Lasts
<1>12. Held(c) = Held(d)
  BY <1>11 DEF Held
<1>13. Collected(c)
  BY <1>8, <1>11, <1>12 DEF Collected, Gathered, EventFits
<1>14. Grows(b, c) /\ Lasts(b, c)
  BY <1>8, <1>11 DEF Grows, Lasts
<1>15. IF b.consent THEN c.entity = EntityOf(c.entered) ELSE c.current = NoPage
  BY <1>8, <1>9, <1>11
<1> QED BY <1>9, <1>11, <1>13, <1>14, <1>15 DEF c

(* What the tab's page is called in the script, once it has been told.     *)
OnPage(b) ==
  /\ ~b.loaded => b.current = NoPage /\ ~b.handlers /\ b.entered <= Now
  /\ b.handlers => b.entered \in 1 .. Now /\ b.entity = EntityOf(b.entered)

(* The script boots: after the replay it knows its page, and views it.     *)
LEMMA BootedKeeps ==
  ASSUME Tab, NEW b, Collected(b), b.loaded, ~b.handlers, b.entered \in 1 .. Now,
         IF b.consent THEN b.entity = EntityOf(b.entered) ELSE b.current = NoPage
  PROVE  /\ Collected(Booted(b)) /\ Grows(b, Booted(b)) /\ Paged(Booted(b)) /\ OnPage(Booted(b))
         /\ Booted(b).loaded
<1>1. b \in Script /\ Now \in Nat /\ b.entered \in Nat /\ b.entered <= Now
  BY DEF Collected, Gathered, Tab, Now
<1>2. CASE ~b.consent
  BY <1>1, <1>2 DEF Booted, Grows, Paged, OnPage
<1>3. CASE b.consent
  <2> DEFINE page == Described(b.entity)
             d == [b EXCEPT !.current = page]
             t == Tracked(d, "view", page, b.entered)
             c == Booted(b)
  <2>1. page \in Description /\ Names(page, b.entered)
    BY <1>3, DescribedNames
  <2>2. c = [t EXCEPT !.handlers = TRUE]
    BY <1>3 DEF Booted
  <2> HIDE DEF page
  <2>3. /\ d \in Script /\ d.queue = b.queue /\ d.flight = b.flight /\ d.timer = b.timer
        /\ d.consent = b.consent /\ d.era = b.era /\ d.session = b.session /\ d.seen = b.seen
        /\ d.current = page /\ d.entity = b.entity /\ d.entered = b.entered /\ Lasts(b, d)
    BY <1>1, <2>1 DEF Script, Lasts
  <2> HIDE DEF d
  <2>4. Held(d) = Held(b)
    BY <2>3 DEF Held
  <2>5. Collected(d)
    BY <2>3, <2>4 DEF Collected, Gathered, EventFits
  <2>6. Collected(t) /\ Grows(d, t) /\ Steady(d, t)
    <3>1. "view" \in {"view", "dwell", "exit", "click"} /\ "view" # "dwell"
      OBVIOUS
    <3> QED BY <1>1, <2>1, <2>5, <3>1, TrackedKeeps
  <2> HIDE DEF t, c
  <2>7. t \in Script
    BY <2>6 DEF Collected, Gathered
  <2>8. /\ c \in Script /\ c.queue = t.queue /\ c.flight = t.flight /\ c.timer = t.timer
        /\ c.consent = t.consent /\ c.era = t.era /\ c.session = t.session /\ c.seen = t.seen
        /\ c.current = t.current /\ c.entity = t.entity /\ c.entered = t.entered
        /\ c.loaded = t.loaded /\ c.handlers
    BY <2>2, <2>7 DEF Script
  <2>9. Held(c) = Held(t)
    BY <2>8 DEF Held
  <2>10. Collected(c)
    BY <2>6, <2>8, <2>9 DEF Collected, Gathered, EventFits
  <2>11. Grows(b, c) /\ c.loaded /\ c.current = page /\ c.entity = b.entity /\ c.entered = b.entered
    BY <2>3, <2>6, <2>8 DEF Grows, Steady, Lasts
  <2>12. Paged(c) /\ OnPage(c)
    BY <1>1, <1>3, <2>1, <2>8, <2>11 DEF Paged, OnPage
  <2> QED BY <2>10, <2>11, <2>12 DEF c
<1>4. b.consent \in BOOLEAN
  BY <1>1 DEF Script
<1> QED BY <1>2, <1>3, <1>4

(* The last flush: a dwell and an exit of the page the script is on.       *)
LEMMA FinallyFlushedKeeps ==
  ASSUME Tab, NEW b, Collected(b), Paged(b), OnPage(b), b.loaded, b.handlers
  PROVE  /\ Collected(FinallyFlushed(b)) /\ Grows(b, FinallyFlushed(b))
         /\ Paged(FinallyFlushed(b)) /\ OnPage(FinallyFlushed(b))
<1>1. /\ b \in Script /\ Now \in Nat /\ b.entered \in Nat /\ b.entered <= Now
      /\ b.entered \in 1 .. Now /\ b.entity = EntityOf(b.entered)
  BY DEF Collected, Gathered, Tab, Now, OnPage
<1>2. CASE b.unloading
  BY <1>2 DEF FinallyFlushed, Grows
<1>3. CASE ~b.unloading
  <2> DEFINE page == Described(b.entity)
             d == [b EXCEPT !.unloading = TRUE]
             t == Tracked(d, "dwell", page, b.entered)
             u == Tracked(t, "exit", page, b.entered)
             c == FinallyFlushed(b)
  <2>1. page \in Description /\ Names(page, b.entered)
    BY <1>1, DescribedNames
  <2>2. c = Flushed(u)
    BY <1>3 DEF FinallyFlushed
  <2> HIDE DEF page, c
  <2>3. /\ d \in Script /\ d.queue = b.queue /\ d.flight = b.flight /\ d.timer = b.timer
        /\ d.consent = b.consent /\ d.era = b.era /\ d.session = b.session /\ d.seen = b.seen
        /\ d.current = b.current /\ d.entity = b.entity /\ d.entered = b.entered
        /\ d.loaded = b.loaded /\ d.handlers = b.handlers
    BY <1>1 DEF Script
  <2> HIDE DEF d
  <2>4. Held(d) = Held(b)
    BY <2>3 DEF Held
  <2>5. Collected(d)
    BY <2>3, <2>4 DEF Collected, Gathered, EventFits
  <2>6. Collected(t) /\ Grows(d, t) /\ Steady(d, t)
    BY <1>1, <2>1, <2>5, TrackedKeeps
  <2> HIDE DEF t
  <2>7. Collected(u) /\ Grows(t, u) /\ Steady(t, u)
    <3>1. "exit" \in {"view", "dwell", "exit", "click"} /\ "exit" # "dwell"
      OBVIOUS
    <3> QED BY <1>1, <2>1, <2>6, <3>1, TrackedKeeps
  <2> HIDE DEF u
  <2>8. Collected(c) /\ Grows(u, c) /\ Steady(u, c)
    BY <2>2, <2>7, FlushKeeps DEF Collected
  <2>9. Grows(b, c) /\ c.current = b.current /\ c.entity = b.entity /\ c.entered = b.entered
        /\ c.loaded = b.loaded /\ c.handlers = b.handlers
    BY <2>3, <2>6, <2>7, <2>8 DEF Grows, Steady, Lasts
  <2>10. Paged(c) /\ OnPage(c)
    BY <2>9 DEF Paged, OnPage
  <2> QED BY <2>8, <2>9, <2>10 DEF c
<1>4. b.unloading \in BOOLEAN
  BY <1>1 DEF Script
<1> QED BY <1>2, <1>3, <1>4

(* Opting out empties the queue and stops the timer.                       *)
LEMMA ConsentSetKeeps ==
  ASSUME NEW b, Collected(b), NEW granted \in BOOLEAN
  PROVE  /\ Collected(ConsentSet(b, granted)) /\ Steady(b, ConsentSet(b, granted))
         /\ ConsentSet(b, granted).flight = b.flight
<1> DEFINE c == ConsentSet(b, granted)
<1>1. b \in Script
  BY DEF Collected, Gathered
<1>2. /\ c \in Script /\ c.flight = b.flight /\ c.session = b.session /\ c.seen = b.seen
      /\ c.consent = granted /\ Steady(b, c)
      /\ granted => c.queue = b.queue /\ c.timer = b.timer /\ c.era = b.era
      /\ ~granted => c.queue = {}
  <2>1. CASE granted
    <3>1. c = [b EXCEPT !.consent = TRUE, !.era = @, !.queue = @, !.timer = @]
      BY <2>1 DEF ConsentSet
    <3> QED BY <1>1, <2>1, <3>1 DEF Script, Steady, Lasts
  <2>2. CASE ~granted
    <3>1. c = [b EXCEPT !.consent = FALSE, !.era = @ + 1, !.queue = {}, !.timer = "none"]
      BY <2>2 DEF ConsentSet
    <3>2. b.era + 1 \in Nat
      BY <1>1 DEF Script
    <3> QED BY <1>1, <2>2, <3>1, <3>2 DEF Script, Steady, Lasts
  <2> QED BY <2>1, <2>2
<1> HIDE DEF c
<1>3. Held(c) \subseteq Held(b)
  BY <1>2 DEF Held
<1>4. Collected(c)
  <2>1. \A e \in Held(c) : EventFits(c, e)
    BY <1>2, <1>3 DEF Collected, Gathered, EventFits
  <2>2. \A e, g \in Held(c) : e.pause = g.pause => e.session = g.session
    BY <1>3 DEF Collected, Gathered
  <2>3. \A e \in c.queue : e.era = c.era
    BY <1>2 DEF Collected, Gathered
  <2> QED BY <1>2, <2>1, <2>2, <2>3 DEF Collected, Gathered
<1> QED BY <1>2, <1>4 DEF c

(* Everything the tab has collected fits, and the script is on its page.   *)
BeaconInv == Tab /\ Collected(beacon) /\ Paged(beacon) /\ OnPage(beacon)

(* What leaves in a step.                                                  *)
SendsAgreed ==
  \A batch \in beacon'.flight \ beacon.flight :
    beacon'.consent /\ \A e \in batch : e.era = beacon'.era

(* Where only the script moves, what it moves to is what it is.            *)
LEMMA ScriptMoves ==
  ASSUME Tab, Tab', UNCHANGED <<path, pauses, today>>, NEW b, beacon' = b,
         Collected(b), Paged(b), OnPage(b)
  PROVE  BeaconInv'
<1>1. Held(beacon)' = Held(b)
  BY DEF Held
<1>2. Collected(beacon)'
  BY <1>1 DEF Collected, Gathered, EventFits, Names, Now
<1>3. Paged(beacon)' /\ OnPage(beacon)'
  BY DEF Paged, OnPage, Names, EntityOf, Now
<1> QED BY <1>2, <1>3 DEF BeaconInv

(* In the beginning nothing is collected.                                  *)
LEMMA BeaconInitInv == BeaconInit => BeaconInv
<1> SUFFICES ASSUME BeaconInit PROVE BeaconInv
  OBVIOUS
<1>1. PICK p \in Page : path = <<p>>
  BY DEF BeaconInit
<1>2. path \in Seq(Page) /\ Now = 1
  BY <1>1 DEF Now
<1>3. Tab
  BY <1>2 DEF BeaconInit, PartitionsInit, Tab
<1>4. /\ beacon \in Script /\ beacon.queue = {} /\ beacon.flight = {} /\ ~beacon.loaded
      /\ ~beacon.handlers /\ beacon.current = NoPage /\ beacon.entered = 1
  BY DEF BeaconInit, Script
<1>5. Held(beacon) = {}
  BY <1>4 DEF Held
<1> QED BY <1>2, <1>3, <1>4, <1>5 DEF BeaconInv, Collected, Gathered, Paged, OnPage

(* A call of the script by the tab.                                        *)
LEMMA CallKeeps ==
  ASSUME BeaconInv, NEW b, beacon' = b, UNCHANGED <<path, pauses, today>>, Tab',
         Collected(b), Grows(beacon, b), Paged(b), OnPage(b)
  PROVE  BeaconInv' /\ SendsAgreed
<1>1. BeaconInv'
  BY ScriptMoves DEF BeaconInv
<1>2. SendsAgreed
  BY DEF SendsAgreed, Grows
<1> QED BY <1>1, <1>2

(* The script loads.                                                       *)
LEMMA LoadsKeeps ==
  ASSUME BeaconInv, Loads
  PROVE  BeaconInv' /\ SendsAgreed
<1> USE DEF BeaconInv
<1> DEFINE a == [beacon EXCEPT !.loaded = TRUE, !.entity = EntityOf(Now)]
           r == Replayed(a)
           c == Booted(r)
<1>1. beacon' = c /\ UNCHANGED <<path, pauses, today>> /\ pre' = <<>>
  BY DEF Loads, partitionVars
<1>2. Tab'
  <2>1. <<>> \in Seq([visit : Nat, card : BOOLEAN]) /\ DOMAIN <<>> = {}
    OBVIOUS
  <2> QED BY <1>1, <2>1 DEF Tab, Now
<1>3. /\ beacon \in Script /\ ~beacon.loaded /\ beacon.current = NoPage /\ ~beacon.handlers
      /\ beacon.entered <= Now
  BY DEF Loads, OnPage, Collected, Gathered
<1>4. EntityOf(Now) \in Page \cup {NoPage}
  <2>1. Now \in 1 .. Now
    BY DEF Tab, Now
  <2> QED BY <2>1, DescribedNames
<1>5. /\ a \in Script /\ a.queue = beacon.queue /\ a.flight = beacon.flight /\ a.timer = beacon.timer
      /\ a.consent = beacon.consent /\ a.era = beacon.era /\ a.session = beacon.session
      /\ a.seen = beacon.seen /\ a.current = NoPage /\ a.entity = EntityOf(Now)
      /\ a.entered = beacon.entered /\ a.loaded /\ ~a.handlers
  BY <1>3, <1>4 DEF Script
<1> HIDE DEF a
<1>6. Held(a) = Held(beacon)
  BY <1>5 DEF Held
<1>7. Collected(a)
  BY <1>5, <1>6 DEF Collected, Gathered, EventFits
<1>8. /\ Collected(r) /\ Grows(a, r) /\ Lasts(a, r) /\ r.entered \in 1 .. Now
      /\ IF a.consent THEN r.entity = EntityOf(r.entered) ELSE r.current = NoPage
  BY <1>3, <1>5, <1>7, ReplayedKeeps
<1> HIDE DEF r
<1>9. r.loaded /\ ~r.handlers /\ r.consent = a.consent
  BY <1>5, <1>8 DEF Lasts, Grows
<1>10. Collected(c) /\ Grows(r, c) /\ Paged(c) /\ OnPage(c)
  BY <1>8, <1>9, BootedKeeps
<1> HIDE DEF c
<1>11. Grows(beacon, c)
  BY <1>5, <1>8, <1>10 DEF Grows
<1> QED BY <1>1, <1>2, <1>10, <1>11, CallKeeps

(* The tab tells the script of its page, or leaves word.                   *)
LEMMA DeclaresKeeps ==
  ASSUME BeaconInv, NEW card \in BOOLEAN, Declares(card)
  PROVE  BeaconInv' /\ SendsAgreed
<1> USE DEF BeaconInv
<1>0. Now \in 1 .. Now /\ Now \in Nat /\ Now \in {0, Now}
  BY DEF Tab, Now
<1>1. UNCHANGED <<path, pauses, today>>
  BY DEF Declares, partitionVars
<1>2. CASE beacon.loaded
  <2> DEFINE c == Declared(beacon, Now, Now, card)
  <2>1. beacon' = c /\ pre' = pre
    BY <1>2 DEF Declares
  <2>2. Tab'
    BY <1>1, <2>1 DEF Tab, Now
  <2>3. /\ Collected(c) /\ Grows(beacon, c) /\ Lasts(beacon, c) /\ Turns(beacon, c, Now, Now) /\ Paged(c)
    BY <1>0, DeclaredKeeps
  <2> HIDE DEF c
  <2>4. OnPage(c)
    BY <1>0, <1>2, <2>3 DEF OnPage, Lasts, Turns
  <2> QED BY <1>1, <2>1, <2>2, <2>3, <2>4, CallKeeps
<1>3. CASE ~beacon.loaded
  <2> DEFINE e == [visit |-> Now, card |-> card]
  <2>1. beacon' = beacon /\ pre' = Append(pre, e)
    BY <1>3 DEF Declares
  <2>2. e \in [visit : Nat, card : BOOLEAN] /\ e.visit = Now
    BY <1>0
  <2> HIDE DEF e
  <2>3. Tab'
    <3>1. pre \in Seq([visit : Nat, card : BOOLEAN])
      BY DEF Tab
    <3>2. pre' \in Seq([visit : Nat, card : BOOLEAN])
      BY <2>1, <2>2, <3>1
    <3>3. ASSUME NEW i \in DOMAIN pre' PROVE 1 <= pre'[i].visit /\ pre'[i].visit <= Now
      <4>1. \/ i \in DOMAIN pre /\ pre'[i] = pre[i]
            \/ pre'[i] = e
        BY <2>1, <2>2, <3>1, <3>3
      <4> QED BY <1>0, <2>2, <4>1 DEF Tab
    <3>4. Now' = Now
      BY <1>1 DEF Now
    <3> QED BY <1>1, <3>2, <3>3, <3>4 DEF Tab
  <2>4. Grows(beacon, beacon)
    BY DEF Grows
  <2> QED BY <1>1, <2>1, <2>3, <2>4, CallKeeps
<1>4. beacon.loaded \in BOOLEAN
  BY DEF Collected, Gathered, Script
<1> QED BY <1>2, <1>3, <1>4

(* The reader moves on, or away for a while, or a day passes: what was     *)
(* collected still fits.                                                   *)
LEMMA ReaderMoves ==
  ASSUME BeaconInv, UNCHANGED <<beacon, pre>>,
         \/ path' = path
         \/ \E p \in Page : path' = Append(path, p),
         pauses' \in Nat, pauses' >= pauses, today' \in Int, today' >= today
  PROVE  BeaconInv' /\ SendsAgreed
<1> USE DEF BeaconInv
<1>1. /\ path' \in Seq(Page) /\ Now \in Nat /\ Now' \in Nat /\ Now <= Now'
      /\ \A v \in 1 .. Now : path'[v] = path[v]
  <2>1. path \in Seq(Page) /\ Now = Len(path) /\ Now' = Len(path') /\ Len(path) \in Nat
    BY DEF Tab, Now
  <2>2. CASE path' = path
    BY <2>1, <2>2
  <2>3. ASSUME NEW p \in Page, path' = Append(path, p)
        PROVE  /\ path' \in Seq(Page) /\ Len(path') = Len(path) + 1
               /\ \A v \in 1 .. Len(path) : path'[v] = path[v]
    BY <2>1, <2>3, AppendProperties
  <2>4. CASE \E p \in Page : path' = Append(path, p)
    BY <2>1, <2>3, <2>4
  <2> QED BY <2>2, <2>4
<1>2. Tab'
  <2>1. \A i \in DOMAIN pre' : 1 <= pre'[i].visit /\ pre'[i].visit <= Now'
    <3>1. pre \in Seq([visit : Nat, card : BOOLEAN])
      BY DEF Tab
    <3>2. ASSUME NEW i \in DOMAIN pre PROVE pre[i].visit \in Nat
      <4>1. pre[i] \in [visit : Nat, card : BOOLEAN]
        BY <3>1, ElementOfSeq, LenProperties
      <4> QED BY <4>1
    <3> QED BY <1>1, <3>2 DEF Tab
  <2> QED BY <1>1, <2>1 DEF Tab
<1>3. beacon \in Script /\ today \in Int /\ pauses \in Nat
  BY DEF Tab, Collected, Gathered
<1>4. \A page, v : v \in Nat /\ v <= Now /\ Names(page, v) => Names(page, v)'
  <2> SUFFICES ASSUME NEW page, NEW v, v \in Nat, v <= Now, Names(page, v) PROVE Names(page, v)'
    OBVIOUS
  <2>1. CASE v = 0
    BY <2>1 DEF Names
  <2>2. CASE v # 0
    <3>1. v \in 1 .. Now
      BY <1>1, <2>2
    <3> QED BY <1>1, <2>2, <3>1 DEF Names
  <2> QED BY <2>1, <2>2
<1>5. Collected(beacon)'
  <2>1. Held(beacon)' = Held(beacon)
    BY DEF Held
  <2>2. ASSUME NEW e \in Held(beacon) PROVE EventFits(beacon, e)'
    <3>1. e \in Event /\ EventFits(beacon, e)
      BY <1>3 DEF Held, Collected, Gathered, Script
    <3>2. e.visit \in Nat /\ e.pause \in Nat /\ e.day \in Int
      BY <3>1 DEF Event
    <3>3. e.pause = pauses' => pauses' = pauses
      BY <1>3, <3>1, <3>2 DEF EventFits
    <3>4. e.kind = "dwell" => Names(e.page, e.visit)'
      BY <1>4, <3>1, <3>2 DEF EventFits
    <3> QED BY <1>1, <1>3, <3>1, <3>2, <3>3, <3>4 DEF EventFits
  <2> QED BY <2>1, <2>2 DEF Collected, Gathered
<1>6. beacon.entered \in Nat /\ beacon.entered <= Now
  BY <1>3 DEF Paged, Script
<1>7. Paged(beacon)'
  BY <1>1, <1>4, <1>6 DEF Paged
<1>8. OnPage(beacon)'
  <2>1. beacon.entered \in 1 .. Now => EntityOf(beacon.entered)' = EntityOf(beacon.entered)
    BY <1>1 DEF EntityOf
  <2> QED BY <1>1, <1>6, <2>1 DEF OnPage
<1>9. SendsAgreed
  BY DEF SendsAgreed
<1> QED BY <1>2, <1>5, <1>7, <1>8, <1>9

(* A batch that arrives or is lost is no longer under way.                 *)
LEMMA BatchEnds ==
  ASSUME BeaconInv, NEW batch, beacon' = [beacon EXCEPT !.flight = @ \ {batch}],
         UNCHANGED <<path, pauses, pre, today>>
  PROVE  BeaconInv' /\ SendsAgreed
<1> USE DEF BeaconInv
<1> DEFINE b == [beacon EXCEPT !.flight = @ \ {batch}]
<1>1. beacon \in Script
  BY DEF Collected, Gathered
<1>2. /\ b \in Script /\ b.queue = beacon.queue /\ b.flight \subseteq beacon.flight
      /\ b.timer = beacon.timer /\ b.consent = beacon.consent /\ b.era = beacon.era
      /\ b.session = beacon.session /\ b.seen = beacon.seen /\ Steady(beacon, b)
  BY <1>1 DEF Script, Steady, Lasts
<1>3. beacon' = b
  OBVIOUS
<1> HIDE DEF b
<1>4. Held(b) \subseteq Held(beacon)
  BY <1>2 DEF Held
<1>5. Collected(b)
  BY <1>2, <1>4 DEF Collected, Gathered, EventFits
<1>6. Paged(b) /\ OnPage(b) /\ Grows(beacon, b)
  BY <1>2 DEF Paged, OnPage, Grows, Steady, Lasts
<1>7. Tab'
  BY DEF Tab, Now
<1> QED BY <1>3, <1>5, <1>6, <1>7, CallKeeps

(* One step of the tab, the network or the partitions.                     *)
LEMMA BeaconStep ==
  ASSUME BeaconInv, BeaconNext
  PROVE  BeaconInv' /\ SendsAgreed
<1> USE DEF BeaconInv
<1>0. Now \in 1 .. Now /\ Now \in Nat /\ beacon \in Script /\ pauses \in Nat /\ today \in Int
  BY DEF Tab, Now, Collected, Gathered
<1>1. CASE Loads
  BY <1>1, LoadsKeeps
<1>2. ASSUME NEW p \in Page, Navigates(p) PROVE BeaconInv' /\ SendsAgreed
  BY <1>0, <1>2, ReaderMoves DEF Navigates, partitionVars
<1>3. ASSUME NEW card \in BOOLEAN, Declares(card) PROVE BeaconInv' /\ SendsAgreed
  BY <1>3, DeclaresKeeps
<1>4. CASE Clicks
  <2> DEFINE c == Tracked(beacon, "click", Described(NoPage), Now)
  <2>1. beacon' = c /\ UNCHANGED <<path, pauses, pre, today>>
    BY <1>4 DEF Clicks, partitionVars
  <2>2. Collected(c) /\ Grows(beacon, c) /\ Steady(beacon, c)
    <3>1. "click" \in {"view", "dwell", "exit", "click"} /\ "click" # "dwell"
          /\ Described(NoPage) \in Description /\ Now <= Now
      BY <1>0, DescribedNames
    <3> QED BY <1>0, <3>1, TrackedKeeps
  <2> HIDE DEF c
  <2>3. Paged(c) /\ OnPage(c)
    BY <2>2 DEF Paged, OnPage, Steady, Lasts
  <2>4. Tab'
    BY <2>1 DEF Tab, Now
  <2> QED BY <2>1, <2>2, <2>3, <2>4, CallKeeps
<1>5. CASE Hides
  <2> DEFINE c == FinallyFlushed(beacon)
  <2>1. beacon' = c /\ UNCHANGED <<path, pauses, pre, today>> /\ beacon.handlers
    BY <1>5 DEF Hides, partitionVars
  <2>2. beacon.loaded
    BY <1>0, <2>1 DEF OnPage, Script
  <2>3. Collected(c) /\ Grows(beacon, c) /\ Paged(c) /\ OnPage(c)
    BY <2>1, <2>2, FinallyFlushedKeeps
  <2> HIDE DEF c
  <2>4. Tab'
    BY <2>1 DEF Tab, Now
  <2> QED BY <2>1, <2>3, <2>4, CallKeeps
<1>6. CASE TimerFires
  <2> DEFINE d == [beacon EXCEPT !.timer = "none"]
             c == Flushed(d)
  <2>1. beacon' = c /\ UNCHANGED <<path, pauses, pre, today>>
    BY <1>6 DEF TimerFires, partitionVars
  <2>2. /\ d \in Script /\ d.queue = beacon.queue /\ d.flight = beacon.flight
        /\ d.consent = beacon.consent /\ d.era = beacon.era /\ d.session = beacon.session
        /\ d.seen = beacon.seen /\ Steady(beacon, d)
    BY <1>0 DEF Script, Steady, Lasts
  <2> HIDE DEF d
  <2>3. Held(d) = Held(beacon)
    BY <2>2 DEF Held
  <2>4. Gathered(d)
    BY <2>2, <2>3 DEF Collected, Gathered, EventFits
  <2>5. Collected(c) /\ Grows(d, c) /\ Steady(d, c)
    BY <2>4, FlushKeeps
  <2> HIDE DEF c
  <2>6. Grows(beacon, c) /\ Paged(c) /\ OnPage(c)
    BY <2>2, <2>5 DEF Grows, Paged, OnPage, Steady, Lasts
  <2>7. Tab'
    BY <2>1 DEF Tab, Now
  <2> QED BY <2>1, <2>5, <2>6, <2>7, CallKeeps
<1>7. ASSUME NEW granted \in BOOLEAN, Consents(granted) PROVE BeaconInv' /\ SendsAgreed
  <2> DEFINE c == ConsentSet(beacon, granted)
  <2>1. beacon' = c /\ UNCHANGED <<path, pauses, pre, today>>
    BY <1>7 DEF Consents, partitionVars
  <2>2. Collected(c) /\ Steady(beacon, c) /\ c.flight = beacon.flight
    BY ConsentSetKeeps
  <2> HIDE DEF c
  <2>3. Paged(c) /\ OnPage(c)
    BY <2>2 DEF Paged, OnPage, Steady, Lasts
  <2>4. Tab'
    BY <2>1 DEF Tab, Now
  <2>5. BeaconInv'
    BY <2>1, <2>2, <2>3, <2>4, ScriptMoves
  <2>6. SendsAgreed
    BY <2>1, <2>2 DEF SendsAgreed
  <2> QED BY <2>5, <2>6
<1>8. CASE Pauses
  BY <1>0, <1>8, ReaderMoves DEF Pauses, partitionVars
<1>9. ASSUME NEW batch \in beacon.flight, Arrives(batch) \/ IsLost(batch)
      PROVE  BeaconInv' /\ SendsAgreed
  BY <1>9, BatchEnds DEF Arrives, IsLost, partitionVars
<1>10. CASE MaintenanceNext /\ UNCHANGED tabVars
  <2>1. today' = today \/ today' = today + 1
    BY <1>10 DEF MaintenanceNext, Opens, Maintains, DropsOld, Closes, Reopens, Midnight
  <2> QED BY <1>0, <1>10, <2>1, ReaderMoves DEF tabVars
<1> QED
  BY <1>1, <1>2, <1>3, <1>4, <1>5, <1>6, <1>7, <1>8, <1>9, <1>10, BeaconNext DEF BeaconNext

(* The same in every state.                                                *)
THEOREM BeaconInvariant == BeaconSpec => []BeaconInv
<1>1. BeaconInv /\ [BeaconNext]_beaconVars => BeaconInv'
  <2> SUFFICES ASSUME BeaconInv, [BeaconNext]_beaconVars PROVE BeaconInv'
    OBVIOUS
  <2>1. CASE BeaconNext
    BY <2>1, BeaconStep
  <2>2. CASE UNCHANGED beaconVars
    <3>1. UNCHANGED <<beacon, path, pauses, pre, today>>
      BY <2>2 DEF beaconVars, tabVars, partitionVars
    <3>2. Now \in Nat /\ pauses \in Nat /\ today \in Int
      BY DEF BeaconInv, Tab, Now
    <3> QED BY <3>1, <3>2, ReaderMoves
  <2> QED BY <2>1, <2>2
<1> QED BY <1>1, BeaconInitInv, PTL DEF BeaconSpec

(* An event that is queued waits for a timer and never for another event   *)
(* (beacon.js, enqueue and setConsent).                                    *)
THEOREM NothingStuckForAll == BeaconSpec => []NothingStuck
<1>1. BeaconInv => NothingStuck
  BY DEF BeaconInv, Collected, NothingStuck, Queued
<1> QED BY <1>1, BeaconInvariant, PTL

(* Nothing leaves the tab that was collected before the reader last        *)
(* decided, or while the decision is no (beacon.js, setConsent).           *)
THEOREM HardStopForAll == BeaconSpec => HardStop
<1> DEFINE Agreed == \A batch \in beacon'.flight \ beacon.flight :
                       beacon'.consent /\ \A e \in batch : e.era = beacon'.era
<1>1. BeaconInv /\ [BeaconNext]_beaconVars => [Agreed]_beaconVars
  BY BeaconStep DEF SendsAgreed
<1> QED BY <1>1, BeaconInvariant, PTL DEF BeaconSpec, HardStop

(* Reading time is filed under the page that was read, through replays,    *)
(* changes of route, refusals of consent and the last flush (beacon.js,    *)
(* setPage and finalFlush).                                                *)
THEOREM DwellNamesItsPageForAll == BeaconSpec => []DwellNamesItsPage
<1>1. BeaconInv => DwellNamesItsPage
  BY DEF BeaconInv, Collected, Gathered, EventFits, Names, Held, DwellNamesItsPage, Queued, InFlight
<1> QED BY <1>1, BeaconInvariant, PTL

(* Events with no long pause between them are of one session, whichever    *)
(* way they were queued (beacon.js, track and impression).                 *)
THEOREM SessionIsNotSplitForAll == BeaconSpec => []SessionIsNotSplit
<1>1. BeaconInv => SessionIsNotSplit
  BY DEF BeaconInv, Collected, Gathered, Held, SessionIsNotSplit, Queued, InFlight
<1> QED BY <1>1, BeaconInvariant, PTL

(* While the runway of partitions lasts, an active city turns down no      *)
(* batch of today's and yesterday's events (the ingest API).               *)
THEOREM RecentIsAcceptedForAll == BeaconSpec => []RecentIsAccepted
<1>1. BeaconInv /\ PartitionInv => RecentIsAccepted
  <2> SUFFICES ASSUME BeaconInv, PartitionInv, site = "active", today <= covered,
                      NEW batch \in beacon.flight, \A e \in batch : e.day >= today - 1
               PROVE  Writable(Days(batch))
    BY DEF RecentIsAccepted
  <2>1. ASSUME NEW e \in batch PROVE e.day \in parts
    <3>1. e \in Held(beacon) /\ e \in Event
      BY <2>1 DEF Held, BeaconInv, Collected, Gathered, Script
    <3>2. e.day \in Int /\ e.day <= today
      BY <3>1 DEF BeaconInv, Collected, Gathered, EventFits, Event
    <3>3. today \in Nat /\ covered \in Int
      BY DEF PartitionInv
    <3> QED BY <2>1, <3>2, <3>3 DEF PartitionInv
  <2> QED BY <2>1 DEF Writable, Days
<1> QED BY <1>1, BeaconInvariant, PartitionInvariant, PTL

-----------------------------------------------------------------------------
(* Rails.                                                                  *)

Matrices == {w.matrix : w \in Worlds}

(* A call before it has read its article, and one that has.                *)
EarlyCall ==
  [at : {"cache", "subject"}, w : Worker, k : Nat, overlay : BOOLEAN, matrix : Matrices,
   began : Nat]
LateCall ==
  [at : Row \cup {"write"}, w : Worker, k : Nat, overlay : BOOLEAN, matrix : Matrices,
   began : Nat, rows : Seq(SUBSET Item), type : Type \cup {NoType}]

RailsTypeOK ==
  /\ world \in Worlds
  /\ clock \in Nat /\ edited \in Nat /\ edited <= clock
  /\ known \in [Worker -> {Absent} \cup [matrix : Matrices, loaded : Nat]]
  /\ call \in [Call -> {NoCall} \cup EarlyCall \cup LateCall]
  /\ stored \in {Absent} \cup [rows : Seq(SUBSET Item), computed : Nat]

(* A matrix loaded after the last edit is the table's.                     *)
KnownIsCurrent ==
  \A w \in Worker : known[w] # Absent =>
    known[w].loaded <= clock /\ (edited < known[w].loaded => known[w].matrix = world.matrix)

(* A call lasts at most Latency.  One that began long enough after the     *)
(* last edit has the table's matrix and the article's type, and its rows   *)
(* so far hold no competitor.                                              *)
CallIsCurrent(m) ==
  m # NoCall =>
    /\ m.began <= clock /\ clock <= m.began + Latency
    /\ edited + Ttl <= m.began =>
         /\ m.matrix = world.matrix
         /\ m.at \in Row \cup {"write"} =>
              /\ world.live
              /\ ~m.overlay => m.type = world.type /\ Honest(m.rows)

StoredIsHonest ==
  stored # Absent =>
    /\ stored.computed <= clock
    /\ edited + Ttl + Latency <= stored.computed => Honest(stored.rows)

RailsInv ==
  /\ RailsTypeOK /\ KnownIsCurrent /\ StoredIsHonest
  /\ \A c \in Call : CallIsCurrent(call[c])

(* Every row a call may compute lacks the competitors of its subject.      *)
LEMMA RowsAreClean ==
  ASSUME NEW c, call[c].at \in Row, NEW pool \in PoolsFor(c),
         NEW s \in Diversified(pool, call[c].k)
  PROVE  s \subseteq Clean(call[c].matrix, call[c].type)
<1> DEFINE m == call[c].matrix
           t == call[c].type
           k == call[c].k
           r == call[c].at
<1>1. \A p \in Pools(r, m, t, k) : p \subseteq Clean(m, t)
  <2>1. \A i : Fetched(r, i, m, t) \subseteq Clean(m, t)
    BY DEF Fetched
  <2>2. \A p \in Pools(r, m, t, k) : p \subseteq Fetched(r, Landed(r, m, t, k), m, t)
    BY DEF Pools, kSubset
  <2> QED BY <2>1, <2>2
<1>2. pool \subseteq Clean(m, t)
  <2>1. CASE r = "row3"
    <3>1. pool \in UNION {SUBSET p : p \in Pools(r, m, t, k)}
      BY <2>1 DEF PoolsFor
    <3> QED BY <1>1, <3>1
  <2>2. CASE r # "row3"
    BY <1>1, <2>2 DEF PoolsFor
  <2> QED BY <2>1, <2>2
<1>3. s \subseteq pool
  BY DEF Diversified
<1> QED BY <1>2, <1>3

(* Whoever does nothing stands as before when nobody edits and time stands *)
(* still.                                                                  *)
LEMMA OthersStay ==
  ASSUME UNCHANGED worldVars, NEW c \in Call, call'[c] = call[c], CallIsCurrent(call[c])
  PROVE  CallIsCurrent(call[c])'
  BY DEF worldVars, CallIsCurrent, Honest, Clean, Competes

(* A step that only moves calls.                                           *)
LEMMA CallsMove ==
  ASSUME RailsInv, UNCHANGED <<worldVars, known, stored>>,
         call' \in [Call -> {NoCall} \cup EarlyCall \cup LateCall],
         \A c \in Call : call'[c] = call[c] \/ CallIsCurrent(call[c])'
  PROVE  RailsInv'
<1>1. \A c \in Call : CallIsCurrent(call[c])'
  BY OthersStay DEF RailsInv
<1>2. RailsTypeOK'
  BY DEF RailsInv, RailsTypeOK, worldVars
<1>3. KnownIsCurrent' /\ StoredIsHonest'
  BY DEF RailsInv, KnownIsCurrent, StoredIsHonest, worldVars, Honest, Clean, Competes
<1> QED BY <1>1, <1>2, <1>3 DEF RailsInv

(* An edit restarts the clock that every promise of freshness is measured  *)
(* against.                                                                *)
LEMMA EditsKeeps == RailsInv /\ Edits => RailsInv'
<1> SUFFICES ASSUME RailsInv, Edits PROVE RailsInv'
  OBVIOUS
<1>1. /\ world' \in Worlds /\ edited' = clock
      /\ UNCHANGED <<clock, known, stored, call>>
  BY DEF Edits
<1>2. Ttl \in Nat \ {0} /\ Latency \in Nat /\ clock \in Nat
  BY RailsAssumption DEF RailsInv, RailsTypeOK
<1>3. RailsTypeOK'
  BY <1>1, <1>2 DEF RailsInv, RailsTypeOK
<1>4. KnownIsCurrent'
  BY <1>1, <1>2 DEF RailsInv, RailsTypeOK, KnownIsCurrent
<1>5. StoredIsHonest'
  <2> SUFFICES ASSUME stored # Absent
               PROVE  stored.computed <= clock /\ ~(clock + Ttl + Latency <= stored.computed)
    BY <1>1 DEF StoredIsHonest
  <2>1. stored.computed \in Nat /\ stored.computed <= clock
    BY DEF RailsInv, RailsTypeOK, StoredIsHonest
  <2> QED BY <1>2, <2>1
<1>6. ASSUME NEW c \in Call PROVE CallIsCurrent(call[c])'
  <2> SUFFICES ASSUME call[c] # NoCall
               PROVE  /\ call[c].began <= clock /\ clock <= call[c].began + Latency
                      /\ ~(clock + Ttl <= call[c].began)
    BY <1>1 DEF CallIsCurrent
  <2>1. call[c] \in EarlyCall \cup LateCall /\ CallIsCurrent(call[c])
    BY DEF RailsInv, RailsTypeOK
  <2>2. call[c].began \in Nat
    BY <2>1 DEF EarlyCall, LateCall
  <2> QED BY <1>2, <2>1, <2>2 DEF CallIsCurrent
<1> QED BY <1>3, <1>4, <1>5, <1>6 DEF RailsInv

(* Time makes what is held back older, never what it shows worse.          *)
LEMMA TickKeeps == RailsInv /\ Tick => RailsInv'
<1> SUFFICES ASSUME RailsInv, Tick PROVE RailsInv'
  OBVIOUS
<1>1. /\ clock' = clock + 1 /\ UNCHANGED <<world, edited, edits, known, stored, call>>
      /\ \A c \in Call : Running(c) => clock < call[c].began + Latency
  BY DEF Tick
<1>2. Ttl \in Nat \ {0} /\ Latency \in Nat /\ clock \in Nat /\ edited \in Nat /\ edited <= clock
  BY RailsAssumption DEF RailsInv, RailsTypeOK
<1>3. RailsTypeOK'
  BY <1>1, <1>2 DEF RailsInv, RailsTypeOK
<1>4. KnownIsCurrent'
  <2>1. \A w \in Worker : known[w] # Absent => known[w].loaded \in Nat
    BY DEF RailsInv, RailsTypeOK
  <2> QED BY <1>1, <1>2, <2>1 DEF RailsInv, KnownIsCurrent
<1>5. StoredIsHonest'
  <2>1. stored # Absent => stored.computed \in Nat
    BY DEF RailsInv, RailsTypeOK
  <2>2. Honest(stored.rows)' = Honest(stored.rows)
    BY <1>1 DEF Honest, Clean, Competes
  <2> QED BY <1>1, <1>2, <2>1, <2>2 DEF RailsInv, StoredIsHonest
<1>6. ASSUME NEW c \in Call PROVE CallIsCurrent(call[c])'
  <2>1. CASE call[c] = NoCall
    BY <1>1, <2>1 DEF CallIsCurrent
  <2>2. CASE call[c] # NoCall
    <3>1. call[c] \in EarlyCall \cup LateCall /\ CallIsCurrent(call[c])
      BY <2>2 DEF RailsInv, RailsTypeOK
    <3>2. call[c].began \in Nat /\ Running(c)
      BY <3>1 DEF EarlyCall, LateCall, Running, Row
    <3>3. clock < call[c].began + Latency
      BY <1>1, <3>2
    <3>4. Honest(call[c].rows)' = Honest(call[c].rows)
      BY <1>1 DEF Honest, Clean, Competes
    <3> QED BY <1>1, <1>2, <2>2, <3>1, <3>2, <3>3, <3>4 DEF CallIsCurrent
  <2> QED BY <2>1, <2>2
<1> QED BY <1>3, <1>4, <1>5, <1>6 DEF RailsInv

(* A call begins with a matrix that is young enough.                       *)
LEMMA BuildsKeeps ==
  ASSUME RailsInv, NEW c \in Call, NEW w \in Worker, Builds(c, w)
  PROVE  RailsInv'
<1> DEFINE m == IF Usable(w) THEN known[w].matrix ELSE world.matrix
<1>1. /\ UNCHANGED worldVars /\ stored' = stored
      /\ known' = IF Usable(w) THEN known
                  ELSE [known EXCEPT ![w] = [matrix |-> m, loaded |-> clock]]
  BY DEF Builds
<1>2. PICK k \in 1 .. MaxItems, force \in BOOLEAN, overlay \in BOOLEAN :
        call' = [call EXCEPT ![c] =
                  [at |-> IF force \/ overlay THEN "subject" ELSE "cache", w |-> w, k |-> k,
                   overlay |-> overlay, matrix |-> m, began |-> clock]]
  BY DEF Builds
<1>3. RailsTypeOK /\ KnownIsCurrent /\ k \in Nat /\ Ttl \in Nat \ {0} /\ Latency \in Nat
  BY RailsAssumption DEF RailsInv
<1>4. clock \in Nat /\ edited \in Nat /\ edited <= clock /\ world.matrix \in Matrices
  BY <1>3 DEF RailsTypeOK, Matrices
<1>5. m \in Matrices /\ (edited + Ttl <= clock => m = world.matrix)
  <2>1. CASE Usable(w)
    <3>1. known[w] \in [matrix : Matrices, loaded : Nat] /\ clock - known[w].loaded < Ttl
      BY <1>3, <2>1 DEF Usable, RailsTypeOK
    <3>2. known[w] # Absent
      BY <2>1 DEF Usable
    <3>3. edited < known[w].loaded => known[w].matrix = world.matrix
      BY <1>3, <3>2 DEF KnownIsCurrent
    <3> QED BY <1>3, <1>4, <2>1, <3>1, <3>3
  <2>2. CASE ~Usable(w)
    BY <1>4, <2>2
  <2> QED BY <2>1, <2>2
<1> HIDE DEF m
<1>6. /\ known' \in [Worker -> {Absent} \cup [matrix : Matrices, loaded : Nat]]
      /\ KnownIsCurrent'
  <2>1. CASE Usable(w)
    BY <1>1, <1>3, <2>1 DEF RailsTypeOK, KnownIsCurrent, worldVars
  <2>2. CASE ~Usable(w)
    <3>1. known' = [known EXCEPT ![w] = [matrix |-> m, loaded |-> clock]] /\ m = world.matrix
      BY <1>1, <2>2 DEF m
    <3> QED BY <1>1, <1>3, <1>4, <1>5, <3>1 DEF RailsTypeOK, KnownIsCurrent, worldVars
  <2> QED BY <2>1, <2>2
<1>7. /\ call'[c] \in EarlyCall
      /\ call'[c].began = clock /\ call'[c].matrix = m /\ call'[c].at \notin Row \cup {"write"}
      /\ \A d \in Call : d # c => call'[d] = call[d]
  BY <1>2, <1>3, <1>4, <1>5 DEF RailsTypeOK, EarlyCall, Row
<1>8. RailsTypeOK'
  BY <1>1, <1>2, <1>3, <1>6, <1>7 DEF RailsTypeOK, worldVars
<1>9. CallIsCurrent(call[c])'
  BY <1>1, <1>3, <1>4, <1>5, <1>7 DEF CallIsCurrent, worldVars
<1>10. StoredIsHonest'
  BY <1>1 DEF RailsInv, StoredIsHonest, worldVars, Honest, Clean, Competes
<1>11. \A d \in Call : CallIsCurrent(call[d])'
  BY <1>1, <1>7, <1>9, OthersStay DEF RailsInv
<1> QED BY <1>6, <1>8, <1>10, <1>11 DEF RailsInv

(* It ends without writing anything.                                       *)
LEMMA EndsKeeps ==
  ASSUME RailsInv, NEW c \in Call, call' = [call EXCEPT ![c] = NoCall],
         UNCHANGED <<worldVars, known, stored>>
  PROVE  RailsInv'
<1>1. call' \in [Call -> {NoCall} \cup EarlyCall \cup LateCall]
      /\ \A d \in Call : call'[d] = call[d] \/ call'[d] = NoCall
  BY DEF RailsInv, RailsTypeOK
<1> QED BY <1>1, CallsMove DEF CallIsCurrent

(* A request that misses the cache has read its matrix no longer ago than  *)
(* the process's copy may last.                                            *)
LEMMA MissesKeeps ==
  ASSUME RailsInv, NEW c \in Call, Misses(c)
  PROVE  RailsInv'
<1>1. /\ call[c].at = "cache" /\ UNCHANGED <<worldVars, known, stored>>
      /\ call' = [call EXCEPT ![c].at = "subject"]
  BY DEF Misses
<1>2. call[c] \in EarlyCall /\ CallIsCurrent(call[c])
  BY <1>1 DEF RailsInv, RailsTypeOK, NoCall, LateCall, Row
<1>3. call'[c] = [call[c] EXCEPT !.at = "subject"] /\ \A d \in Call : d # c => call'[d] = call[d]
  BY <1>1 DEF RailsInv, RailsTypeOK
<1>4. call'[c] \in EarlyCall
  BY <1>2, <1>3 DEF EarlyCall
<1>5. call' \in [Call -> {NoCall} \cup EarlyCall \cup LateCall]
  BY <1>1, <1>4 DEF RailsInv, RailsTypeOK
<1>6. /\ call'[c].began = call[c].began /\ call'[c].matrix = call[c].matrix
      /\ call'[c].at \notin Row \cup {"write"} /\ call[c] # NoCall
  BY <1>2, <1>3 DEF EarlyCall, Row, NoCall
<1>7. CallIsCurrent(call[c])'
  BY <1>1, <1>2, <1>6 DEF CallIsCurrent, worldVars
<1> QED BY <1>1, <1>3, <1>5, <1>7, CallsMove

(* It reads its article.                                                   *)
LEMMA ReadsSubjectKeeps ==
  ASSUME RailsInv, NEW c \in Call, ReadsSubject(c)
  PROVE  RailsInv'
<1>1. call[c].at = "subject" /\ UNCHANGED <<worldVars, known, stored>>
  BY DEF ReadsSubject
<1>2. call[c] \in EarlyCall /\ CallIsCurrent(call[c]) /\ call[c] # NoCall
  BY <1>1 DEF RailsInv, RailsTypeOK, NoCall, LateCall, Row
<1>3. CASE world.live
  <2> DEFINE m == call[c]
             type == IF world.type = NoType /\ m.overlay THEN Overlay ELSE world.type
             next == [at |-> "row1", w |-> m.w, k |-> m.k, overlay |-> m.overlay,
                      matrix |-> m.matrix, began |-> m.began, rows |-> <<>>, type |-> type]
  <2>1. call' = [call EXCEPT ![c] = next]
    BY <1>3 DEF ReadsSubject, RailsInv, RailsTypeOK
  <2>2. type \in Type \cup {NoType}
    BY RailsAssumption DEF RailsInv, RailsTypeOK
  <2> HIDE DEF type
  <2>3. next \in LateCall
    BY <1>2, <2>2 DEF EarlyCall, LateCall, Row
  <2>4. call'[c] = next /\ \A d \in Call : d # c => call'[d] = call[d]
    BY <2>1 DEF RailsInv, RailsTypeOK
  <2>5. call' \in [Call -> {NoCall} \cup EarlyCall \cup LateCall]
    BY <2>1, <2>3 DEF RailsInv, RailsTypeOK
  <2>6. /\ next.began = m.began /\ next.matrix = m.matrix /\ next.rows = <<>>
        /\ ~next.overlay => next.type = world.type
    BY DEF type
  <2> HIDE DEF next, m
  <2>7. CallIsCurrent(next)
    <3>1. Honest(next.rows)
      BY <1>3, <2>6 DEF Honest
    <3>2. CallIsCurrent(m) /\ m # NoCall
      BY <1>2 DEF m
    <3> QED BY <1>3, <2>6, <3>1, <3>2 DEF CallIsCurrent
  <2>8. CallIsCurrent(call[c])'
    BY <1>1, <2>4, <2>7 DEF CallIsCurrent, worldVars, Honest, Clean, Competes
  <2> QED BY <1>1, <2>4, <2>5, <2>8, CallsMove
<1>4. CASE ~world.live
  <2>1. call' = [call EXCEPT ![c] = NoCall]
    BY <1>4 DEF ReadsSubject
  <2> QED BY <1>1, <2>1, EndsKeeps
<1> QED BY <1>3, <1>4

(* It computes a row.                                                      *)
LEMMA ComputesRowKeeps ==
  ASSUME RailsInv, NEW c \in Call, ComputesRow(c)
  PROVE  RailsInv'
<1> DEFINE m == call[c]
<1>1. m.at \in Row /\ UNCHANGED <<worldVars, known, stored>>
  BY DEF ComputesRow
<1>2. PICK pool \in PoolsFor(c) : \E s \in Diversified(pool, m.k) :
        call' = [call EXCEPT ![c].rows = Append(@, s), ![c].at = Following[@]]
  BY DEF ComputesRow
<1>3. PICK s \in Diversified(pool, m.k) :
        call' = [call EXCEPT ![c].rows = Append(@, s), ![c].at = Following[@]]
  BY <1>2
<1>4. m \in LateCall /\ CallIsCurrent(m) /\ m # NoCall
  BY <1>1 DEF RailsInv, RailsTypeOK, NoCall, EarlyCall, Row
<1>5. s \subseteq Clean(m.matrix, m.type)
  BY <1>1, RowsAreClean
<1>6. s \in SUBSET Item
  BY <1>5 DEF Clean
<1>7. Following[m.at] \in Row \cup {"write"}
  BY <1>1 DEF Following, Row
<1> DEFINE next == [m EXCEPT !.rows = Append(m.rows, s), !.at = Following[m.at]]
<1>8. call' = [call EXCEPT ![c] = next]
  BY <1>3, <1>4 DEF RailsInv, RailsTypeOK, LateCall
<1>9. call'[c] = next /\ \A d \in Call : d # c => call'[d] = call[d]
  BY <1>8 DEF RailsInv, RailsTypeOK
<1>10. m.rows \in Seq(SUBSET Item) /\ Append(m.rows, s) \in Seq(SUBSET Item)
  BY <1>4, <1>6 DEF LateCall
<1>11. /\ next \in LateCall
       /\ next.began = m.began /\ next.matrix = m.matrix /\ next.rows = Append(m.rows, s)
       /\ next.overlay = m.overlay /\ next.type = m.type
  BY <1>4, <1>7, <1>10 DEF LateCall
<1> HIDE DEF next
<1>12. call' \in [Call -> {NoCall} \cup EarlyCall \cup LateCall]
  BY <1>8, <1>11 DEF RailsInv, RailsTypeOK
<1>13. CallIsCurrent(next)
  <2> SUFFICES ASSUME edited + Ttl <= m.began
               PROVE  /\ m.matrix = world.matrix /\ world.live
                      /\ ~m.overlay => m.type = world.type /\ Honest(next.rows)
    BY <1>1, <1>4, <1>11 DEF CallIsCurrent
  <2>1. /\ m.matrix = world.matrix /\ world.live
        /\ ~m.overlay => m.type = world.type /\ Honest(m.rows)
    BY <1>1, <1>4 DEF CallIsCurrent
  <2>2. CASE ~m.overlay
    <3>1. s \subseteq Clean(world.matrix, world.type)
      BY <1>5, <2>1, <2>2
    <3>2. \A i \in DOMAIN m.rows : m.rows[i] \subseteq Clean(world.matrix, world.type)
      BY <2>1, <2>2 DEF Honest
    <3>3. \A i \in DOMAIN next.rows : next.rows[i] = s \/ (i \in DOMAIN m.rows /\ next.rows[i] = m.rows[i])
      BY <1>6, <1>10, <1>11
    <3>4. Honest(next.rows)
      BY <2>1, <3>1, <3>2, <3>3 DEF Honest
    <3> QED BY <2>1, <3>4
  <2> QED BY <2>1, <2>2
<1>14. CallIsCurrent(call[c])'
  BY <1>1, <1>9, <1>13 DEF CallIsCurrent, worldVars, Honest, Clean, Competes
<1> QED BY <1>1, <1>9, <1>12, <1>14, CallsMove

(* It writes the three rows, stamped with the time it ends.                *)
LEMMA StoresKeeps ==
  ASSUME RailsInv, NEW c \in Call, Stores(c)
  PROVE  RailsInv'
<1> DEFINE m == call[c]
<1>1. /\ m.at = "write" /\ UNCHANGED <<worldVars, known>>
      /\ stored' = IF m.overlay THEN stored ELSE [rows |-> m.rows, computed |-> clock]
      /\ call' = [call EXCEPT ![c] = NoCall]
  BY DEF Stores
<1>2. m \in LateCall /\ CallIsCurrent(m) /\ m # NoCall
  BY <1>1 DEF RailsInv, RailsTypeOK, NoCall, EarlyCall, Row
<1>3. CASE m.overlay
  BY <1>1, <1>3, EndsKeeps
<1>4. CASE ~m.overlay
  <2>1. stored' = [rows |-> m.rows, computed |-> clock]
    BY <1>1, <1>4
  <2>2. /\ clock \in Nat /\ edited \in Nat /\ Ttl \in Nat \ {0} /\ Latency \in Nat
        /\ m.began \in Nat /\ m.rows \in Seq(SUBSET Item)
    BY <1>2, RailsAssumption DEF RailsInv, RailsTypeOK, LateCall
  <2>3. RailsTypeOK'
    BY <1>1, <2>1, <2>2 DEF RailsInv, RailsTypeOK, worldVars
  <2>4. KnownIsCurrent'
    BY <1>1 DEF RailsInv, KnownIsCurrent, worldVars
  <2>5. \A d \in Call : CallIsCurrent(call[d])'
    <3>1. \A d \in Call : call'[d] = call[d] \/ call'[d] = NoCall
      BY <1>1 DEF RailsInv, RailsTypeOK
    <3>2. \A d \in Call : call'[d] = NoCall => CallIsCurrent(call[d])'
      BY DEF CallIsCurrent, NoCall
    <3> QED BY <1>1, <3>1, <3>2, OthersStay DEF RailsInv
  <2>6. edited + Ttl + Latency <= clock => Honest(m.rows)
    BY <1>1, <1>2, <1>4, <2>2 DEF CallIsCurrent
  <2>7. Honest(m.rows) => Honest(stored.rows)'
    BY <1>1, <2>1 DEF Honest, worldVars, Clean, Competes
  <2>8. StoredIsHonest'
    BY <1>1, <2>1, <2>2, <2>6, <2>7 DEF StoredIsHonest, worldVars
  <2> QED BY <2>3, <2>4, <2>5, <2>8 DEF RailsInv
<1> QED BY <1>3, <1>4

(* A process forgets its matrix and its calls.                             *)
LEMMA RestartsKeeps ==
  ASSUME RailsInv, NEW w \in Worker, Restarts(w)
  PROVE  RailsInv'
<1>1. /\ UNCHANGED worldVars /\ stored' = stored
      /\ known' = [known EXCEPT ![w] = Absent]
      /\ call' = [c \in Call |-> IF Running(c) /\ call[c].w = w THEN NoCall ELSE call[c]]
  BY DEF Restarts
<1>2. RailsTypeOK' /\ KnownIsCurrent'
  BY <1>1 DEF RailsInv, RailsTypeOK, KnownIsCurrent, worldVars
<1>3. StoredIsHonest'
  BY <1>1 DEF RailsInv, StoredIsHonest, worldVars, Honest, Clean, Competes
<1>4. \A c \in Call : call'[c] = call[c] \/ call'[c] = NoCall
  BY <1>1
<1>5. \A c \in Call : call'[c] = NoCall => CallIsCurrent(call[c])'
  BY DEF CallIsCurrent, NoCall
<1>6. \A c \in Call : CallIsCurrent(call[c])'
  BY <1>1, <1>4, <1>5, OthersStay DEF RailsInv
<1> QED BY <1>2, <1>3, <1>6 DEF RailsInv

(* No step of a request, an editor or a process breaks the invariant.      *)
LEMMA RailsStep == RailsInv /\ [RailsNext]_railsVars => RailsInv'
<1> SUFFICES ASSUME RailsInv, [RailsNext]_railsVars PROVE RailsInv'
  OBVIOUS
<1>1. ASSUME NEW c \in Call, Hits(c) \/ Fails(c) PROVE RailsInv'
  BY <1>1, EndsKeeps DEF Hits, Fails
<1>2. CASE UNCHANGED railsVars
  <2>1. call' \in [Call -> {NoCall} \cup EarlyCall \cup LateCall]
    BY <1>2 DEF railsVars, RailsInv, RailsTypeOK
  <2>2. UNCHANGED <<worldVars, known, stored>> /\ call' = call
    BY <1>2 DEF railsVars, worldVars
  <2> QED BY <2>1, <2>2, CallsMove
<1> QED
  BY <1>1, <1>2, EditsKeeps, TickKeeps, BuildsKeeps, MissesKeeps, ReadsSubjectKeeps,
     ComputesRowKeeps, StoresKeeps, RestartsKeeps
  DEF RailsNext

(* What each process remembers, what the rail cache holds and what a       *)
(* request carries is at most so old, and honest about the moment it was   *)
(* read: the three ages that add up in SettledIsClean.                     *)
THEOREM RailsInvariant == RailsSpec => []RailsInv
<1>1. RailsInit => RailsInv
  BY DEF RailsInit, RailsInv, RailsTypeOK, KnownIsCurrent, StoredIsHonest, CallIsCurrent
<1> QED BY <1>1, RailsStep, PTL DEF RailsSpec

(* The competitor filter never relaxes (type_relations, run_ladder): once  *)
(* nothing was edited for as long as both caches and a slow writer can     *)
(* hold back, no answer shows a competitor or belongs to an unpublished    *)
(* article, for every relation matrix, radius, cap and number of processes.*)
THEOREM SettledIsCleanForAll == RailsSpec => []SettledIsClean
<1>1. RailsInv => SettledIsClean
  <2> SUFFICES ASSUME RailsInv, edited + Lag <= clock
               PROVE  /\ Fresh => Honest(stored.rows)
                      /\ \A c \in Call :
                           call[c].at = "write" /\ ~call[c].overlay => Honest(call[c].rows)
    BY DEF SettledIsClean
  <2>1. /\ clock \in Nat /\ edited \in Nat /\ Ttl \in Nat /\ Latency \in Nat /\ MaxAge \in Nat
        /\ edited + Ttl + Latency + MaxAge <= clock
    BY RailsAssumption DEF RailsInv, RailsTypeOK, Lag
  <2>2. ASSUME Fresh PROVE Honest(stored.rows)
    <3>1. stored # Absent /\ stored.computed \in Nat /\ clock - stored.computed <= MaxAge
      BY <2>2 DEF Fresh, RailsInv, RailsTypeOK
    <3>2. edited + Ttl + Latency <= stored.computed
      BY <2>1, <3>1
    <3> QED BY <3>1, <3>2 DEF RailsInv, StoredIsHonest
  <2>3. ASSUME NEW c \in Call, call[c].at = "write", ~call[c].overlay PROVE Honest(call[c].rows)
    <3>1. call[c] \in LateCall /\ call[c] # NoCall /\ CallIsCurrent(call[c])
      BY <2>3 DEF RailsInv, RailsTypeOK, NoCall, EarlyCall
    <3>2. call[c].began \in Nat
      BY <3>1 DEF LateCall
    <3>3. clock <= call[c].began + Latency
      BY <3>1 DEF CallIsCurrent
    <3>4. edited + Ttl <= call[c].began
      BY <2>1, <3>2, <3>3
    <3> QED BY <2>3, <3>1, <3>4 DEF CallIsCurrent
  <2> QED BY <2>2, <2>3
<1> QED BY <1>1, RailsInvariant, PTL
=============================================================================
