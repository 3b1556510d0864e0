------------------------------- MODULE Beacon -------------------------------
(* One browser tab of a reader: the beacon script, the component that tells *)
(* it about client-side navigation, the batches it sends, and the endpoint *)
(* that writes a batch to the partitions of its events' days or refuses it *)
(* whole.  Handlers of the script run to completion; between any two of     *)
(* them the reader navigates, opts out, hides the tab or pauses, batches    *)
(* arrive or are lost, and the days and their partitions go on.             *)
EXTENDS Partitions, Sequences

CONSTANTS
    Page,
    Entity,     \* pages that name an entity in <meta name="nowb:entity">
    NoPage,
    FlushSize,  \* FLUSH_SIZE
    MaxVisits, MaxEvents, MaxEras, MaxPauses  \* bounds

ASSUME BeaconAssumption ==
    /\ Entity \subseteq Page /\ NoPage \notin Page
    /\ \A by \in {"url", "entity"}, p \in Page : [by |-> by, page |-> p] # NoPage
    /\ FlushSize \in Nat \ {0}

VARIABLES
    path,    \* the pages of the tab's visits, the present one last
    told,    \* the visit BeaconRoute declared last
    pre,     \* visits declared before the script was there (NOWB.q)
    pauses,  \* how often the reader was away for more than SESSION_WINDOW_MS
    beacon   \* the variables of the script

tabVars == <<path, told, pre, pauses, beacon>>
beaconVars == <<partitionVars, tabVars>>

Visit == 1 .. MaxVisits
Now == Len(path)

BeaconInit ==
    /\ PartitionsInit
    /\ \E p \in Page : path = <<p>>
    /\ told = 0 /\ pre = <<>> /\ pauses = 0
    /\ \E consent \in BOOLEAN :
         beacon = [loaded |-> FALSE, handlers |-> FALSE, unloading |-> FALSE,
                   consent |-> consent, era |-> 0,
                   current |-> NoPage, entity |-> NoPage, entered |-> 1,
                   queue |-> {}, timer |-> "none", flight |-> {},
                   session |-> 1, seen |-> 0, count |-> 0]

-----------------------------------------------------------------------------
(* The script's functions, each from its variables to their new values.    *)

EntityOf(v) == IF path[v] \in Entity THEN path[v] ELSE NoPage

\* A page goes by its entity, or by the address at the time it is asked for.
Described(entity) ==
    IF entity = NoPage THEN [by |-> "url", page |-> path[Now]]
    ELSE [by |-> "entity", page |-> entity]

Flushed(b) ==
    [b EXCEPT !.queue = {},
              !.flight = IF b.queue = {} THEN @ ELSE @ \cup {b.queue}]

\* Queue one event; a full queue leaves at once, any other within the timer.
Enqueued(b, e) ==
    LET q == [b EXCEPT !.queue = @ \cup {e}, !.count = @ + 1] IN
    IF Cardinality(q.queue) >= FlushSize THEN Flushed(q)
    ELSE [q EXCEPT !.timer = IF @ = "none" THEN "set" ELSE @]

\* mutant: track asks for the session without touching it
TrackedUntouched(b, kind, page, v) ==
    IF ~b.consent THEN b
    ELSE Enqueued(b, [n |-> b.count, kind |-> kind, page |-> page, visit |-> v,
                      session |-> b.session, pause |-> pauses, era |-> b.era, day |-> today])

\* track touches the session before it asks for its id, impression does not: an
\* id lapses only when an impression is the first event after a pause.
Tracked(b, kind, page, v) ==
    IF ~b.consent THEN b
    ELSE Enqueued([b EXCEPT !.seen = pauses],
                  [n |-> b.count, kind |-> kind, page |-> page, visit |-> v,
                   session |-> b.session, pause |-> pauses, era |-> b.era, day |-> today])

Impressed(b) ==
    IF ~b.consent THEN b
    ELSE LET s == IF b.seen = pauses THEN b.session ELSE b.session + 1 IN
         Enqueued([b EXCEPT !.seen = pauses, !.session = s],
                  [n |-> b.count, kind |-> "impression", page |-> Described(NoPage), visit |-> Now,
                   session |-> s, pause |-> pauses, era |-> b.era, day |-> today])

\* mutant: the dwell is stamped with the page the script is configured for now
PageSetLate(b, v, at) ==
    LET next == Described(EntityOf(v))
        moved == [b EXCEPT !.entity = EntityOf(v), !.entered = at, !.current = next]
        left == IF b.current = NoPage THEN moved ELSE Tracked(moved, "dwell", next, b.entered)
    IN  IF ~b.consent \/ b.current = next THEN b ELSE Tracked(left, "view", next, v)

\* setPage for visit v; its time counts from visit `at`, 0 for no time yet.
PageSet(b, v, at) ==
    LET next == Described(EntityOf(v))
        left == IF b.current = NoPage THEN b ELSE Tracked(b, "dwell", b.current, b.entered)
    IN  IF ~b.consent \/ b.current = next THEN b
        ELSE Tracked([left EXCEPT !.entity = EntityOf(v), !.entered = at, !.current = next],
                     "view", next, v)

\* The page's declaration, and the impression of a card it shows.
Declared(b, v, at, card) ==
    IF card THEN Impressed(PageSet(b, v, at)) ELSE PageSet(b, v, at)

\* The calls made before the script was there are replayed in order.
Replayed(b) ==
    LET after[n \in 0 .. Len(pre)] ==
          IF n = 0 THEN b ELSE Declared(after[n - 1], pre[n].visit, 0, pre[n].card)
    IN [after[Len(pre)] EXCEPT !.entered = IF pre = <<>> THEN Now ELSE pre[Len(pre)].visit]

\* The boot describes the page again, whatever the replay declared.
Booted(b) ==
    LET page == Described(b.entity) IN
    IF ~b.consent THEN b
    ELSE [Tracked([b EXCEPT !.current = page], "view", page, b.entered) EXCEPT !.handlers = TRUE]

FinallyFlushed(b) ==
    LET page == Described(b.entity) IN
    IF b.unloading THEN b
    ELSE Flushed(Tracked(Tracked([b EXCEPT !.unloading = TRUE], "dwell", page, b.entered),
                         "exit", page, b.entered))

\* mutant: opting out leaves the queue to its timer
ConsentSetForLater(b, granted) ==
    [b EXCEPT !.consent = granted, !.era = IF granted THEN @ ELSE @ + 1]

\* mutant: the timer is cleared but not forgotten
ConsentSetTimerKept(b, granted) ==
    [b EXCEPT !.consent = granted, !.era = IF granted THEN @ ELSE @ + 1,
              !.queue = IF granted THEN @ ELSE {},
              !.timer = IF granted \/ @ = "none" THEN @ ELSE "cleared"]

ConsentSet(b, granted) ==
    [b EXCEPT !.consent = granted, !.era = IF granted THEN @ ELSE @ + 1,
              !.queue = IF granted THEN @ ELSE {},
              !.timer = IF granted THEN @ ELSE "none"]

-----------------------------------------------------------------------------
(* The tab.                                                                *)

Loads ==
    /\ ~beacon.loaded
    /\ beacon' = Booted(Replayed([beacon EXCEPT !.loaded = TRUE, !.entity = EntityOf(Now)]))
    /\ pre' = <<>>
    /\ UNCHANGED <<path, told, pauses, partitionVars>>

Navigates(p) ==
    /\ Now < MaxVisits
    /\ p # path[Now]
    /\ path' = Append(path, p)
    /\ UNCHANGED <<told, pre, pauses, beacon, partitionVars>>

\* BeaconRoute's effect, after the route has changed.
Declares(card) ==
    /\ told # Now
    /\ beacon.count < MaxEvents
    /\ told' = Now
    /\ IF beacon.loaded
       THEN beacon' = Declared(beacon, Now, Now, card) /\ UNCHANGED pre
       ELSE pre' = Append(pre, [visit |-> Now, card |-> card]) /\ UNCHANGED beacon
    /\ UNCHANGED <<path, pauses, partitionVars>>

Clicks ==
    /\ beacon.handlers /\ beacon.count < MaxEvents
    /\ beacon' = Tracked(beacon, "click", Described(NoPage), Now)
    /\ UNCHANGED <<path, told, pre, pauses, partitionVars>>

Hides ==
    /\ beacon.handlers /\ ~beacon.unloading
    /\ beacon' = FinallyFlushed(beacon)
    /\ UNCHANGED <<path, told, pre, pauses, partitionVars>>

TimerFires ==
    /\ beacon.timer = "set"
    /\ beacon' = Flushed([beacon EXCEPT !.timer = "none"])
    /\ UNCHANGED <<path, told, pre, pauses, partitionVars>>

Consents(granted) ==
    /\ beacon.loaded /\ (granted \/ beacon.era < MaxEras)
    /\ beacon' = ConsentSet(beacon, granted)
    /\ UNCHANGED <<path, told, pre, pauses, partitionVars>>

Pauses ==
    /\ pauses < MaxPauses
    /\ pauses' = pauses + 1
    /\ UNCHANGED <<path, told, pre, beacon, partitionVars>>

-----------------------------------------------------------------------------
(* The way to the city database.  Nobody looks at the answer: a refused    *)
(* batch is as lost as one that never arrived.                             *)

Days(batch) == {e.day : e \in batch}

Arrives(batch) ==
    /\ Writable(Days(batch))
    /\ Writes(Days(batch))
    /\ beacon' = [beacon EXCEPT !.flight = @ \ {batch}]
    /\ UNCHANGED <<path, told, pre, pauses, today, site, parts, covered>>

\* Refused, over the rate limit, or never arrived.
IsLost(batch) ==
    /\ beacon' = [beacon EXCEPT !.flight = @ \ {batch}]
    /\ UNCHANGED <<path, told, pre, pauses, partitionVars>>

BeaconNext ==
    \/ Loads \/ \E p \in Page : Navigates(p)
    \/ \E card \in BOOLEAN : Declares(card)
    \/ Clicks \/ Hides \/ TimerFires
    \/ \E granted \in BOOLEAN : Consents(granted)
    \/ Pauses
    \/ \E batch \in beacon.flight : Arrives(batch) \/ IsLost(batch)
    \/ MaintenanceNext /\ UNCHANGED tabVars

BeaconSpec == BeaconInit /\ [][BeaconNext]_beaconVars

-----------------------------------------------------------------------------
Queued == beacon.queue
InFlight == UNION beacon.flight

\* Opting out is a hard stop: whatever leaves the tab was collected since the
\* reader last decided, and nothing leaves while the decision is no.
HardStop ==
    [][\A batch \in beacon'.flight \ beacon.flight :
          beacon'.consent /\ \A e \in batch : e.era = beacon'.era]_beaconVars

\* No event waits for another one to come: a queue that is not empty has a
\* timer running, through flushes by size, opt-outs and the last flush.
NothingStuck == Queued # {} => beacon.timer = "set"

\* Reading time is filed under the page that was read, although the host has
\* routed away by the time it is reported.  A page without an entity goes by its
\* address, and by the next page's when the tab is hidden or the script loads
\* between the change of route and its declaration; it never goes by an entity.
DwellNamesItsPage ==
    \A e \in Queued \cup InFlight : e.kind = "dwell" /\ e.visit # 0 =>
        \/ e.page.page = path[e.visit]
        \/ path[e.visit] \notin Entity /\ e.page.by = "url"

\* While the runway of partitions lasts, an active city turns down no batch
\* whose events are of today or yesterday, so that one day's missing partition
\* never takes the events queued beside it along.
RecentIsAccepted ==
    site = "active" /\ today <= covered =>
        \A batch \in beacon.flight :
            (\A e \in batch : e.day >= today - 1) => Writable(Days(batch))

\* The sliding window of the session id (beacon README) never cuts a visit short:
\* events without a pause of thirty minutes between them are of one session,
\* whichever of the two ways of queueing them asked for the id.
SessionIsNotSplit ==
    \A e, f \in Queued \cup InFlight : e.pause = f.pause => e.session = f.session
=============================================================================
