# Verification project for the magazine engine

TLA+ models of `src/engine` (a multi-city magazine: a Payload CMS per city, a
Next.js site, a FastAPI engine, a background worker, and the Python packages the
worker and the operators run), TLC runs that check them on small instances, and
TLAPS proofs that hold for every value of the constants.

## 1. Inventory

Each city has a Postgres database: schema `public` belongs to Payload (articles,
places, mentions, reviews), schema `engine` to the engine and is derived from it
(embeddings, entity terms, hidden-rival flags, interactions). `now_platform` holds
what the cities share (vocabulary, sites, vouchers). Redis carries the domain events,
the worker's cron queue and the rate limiters.

| Component | State | Operations | Talks to | Hard parts |
|---|---|---|---|---|
| Domain-event stream (`packages/cms/src/lib/redis.ts`, `packages/embeddings/.../worker.py`, `apps/worker/app/main.py`) | stream, group cursor, pending list, batch in memory, thread state | publish, read, handle, ack, start, stop | CMS hooks to worker | process death between read and ack, lost and repeated publishes, order across restarts |
| Article saves (`packages/cms/src/hooks/articleEventDecision.ts`, `publishArticleEvent.ts`) | live row, newest version, transaction in flight | save draft, publish, republish, unpublish | announces on the stream | announcement inside the transaction, previousDoc is the newest version |
| Hidden-rival flags (`packages/filters/.../hidden_rival_recompute.py`, `apps/worker/app/consumer.py`, `jobs.py`) | `engine.hidden_rival_flags` | per-article recompute, removal, nightly recompute | reads articles and mentions | three writers, one of them nightly, no locks |
| Embeddings (`packages/embeddings`) | `engine.embeddings` with text hashes | re-embed one, backfill, prune | reads articles, places, terms | read, embed and write are separate transactions; backfill works from a snapshot |
| Classification reviews (`packages/cms/src/hooks/reviewQueueHooks.ts`, `packages/classifier`, `apps/worker/app/classification.py`) | review rows, article fields, `engine.entity_terms` | propose, decide, apply | stream, classifier CLI, review desk | editor against classifier, late and reordered decisions, facets of one value |
| Place desk (`placeReviewDecision.ts`, `apps/web/.../place-desk/actions.ts`) and catalogue commands (`packages/place-catalogue`) | places, status, `merged_into_id`, aliases, mentions | approve, junk, reopen, merge, bulk junk; merge, unmerge, triage, dedupe | Payload, Postgres | decisions read before they write; chains of merges and their reversal; union-find over a relation that is not transitive |
| Reader accounts (`packages/auth`, `apps/web/src/lib/readerActions.ts`) | identities, tokens, attempts and lock | register, verify, sign in, reset | mailer | every statement is its own transaction: links used twice, a lock lifted by a stale failure |
| Beacon and event ingest (`packages/beacon`, `apps/web/.../BeaconRoute.tsx`, `apps/api/app/domain/events`) | browser queue, timer, session, `engine.interactions` partitions | track, set page, flush, opt out, ingest | HTTP | consent changes, the host routes before it tells, missing partition |
| Partitions and cron (`packages/db/.../partitions.py`, `apps/worker/app/jobs.py`) | daily partitions, heartbeat key | create ahead, drop old, heartbeat | Postgres, Redis | a missed night, retention against late writes |
| Provisioning (`packages/db/.../provisioning.py`) | city databases, vocabulary, policies, site registry | site:create, site:migrate --all | Postgres | commits in three places, failure between two steps, re-runs from another checkout |
| Vouchers, print commerce (`packages/platform-db`) | offers and claims guarded by triggers | claim | console | concurrent claims against a cap |
| Filters, rails, blender (`packages/filters`, `rails`, `blender`) | `engine.rail_cache`, one matrix per process | compute rails, ladder, diversity | API | two caches and a slow writer between an edit and what is shown |
| Itinerary (`packages/itinerary`) | none (a request and its answer) | precheck, solve, validate | API, OR-Tools | arithmetic of the prechecks, time windows, rules of model and validator |
| Link resolver, geocode, imports, media mirror, mailer, search, evaluation tools | small or none | batch or pure | | see `PROJECT.json` |

What makes each correct, in one line: *stream* - nothing acknowledged unseen, nothing
handled twice or out of order, bounded loss; *saves and derived tables* - at rest the
tables say what the site says; *reviews* - an editor's decision is never
overwritten and finally applied, one value where the facet has one; *places* -
merges end at a survivor, can be taken back and lose no mention; *readers* - what is left of "single use" and of the
lockout when requests overlap; *beacon* - nothing leaves after an opt-out, nothing stays behind;
*partitions* - there is one for every write of the last two days; *provisioning* - resumable, nothing served that is not
ready; *rails* - an edit reaches the page within the two caches; *itinerary* - a plan keeps the rules, a refusal is no mistake.

## 2. Plan

| # | Module | What | Composes | State |
|---|---|---|---|---|
| 1 | `AtMostOnceLog` | abstract: what the pipeline promises | | done |
| 2 | `EventDelivery` | stream, consumer group, thread | implements 1 | checked, proved |
| 3 | `EditorialIndex` | saves, flags, embeddings, nightly job, backfill | extends 2 | checked, proved |
| 4 | `ReviewLoop` | review rows, article fields, entity terms; classifier, desks, worker | the contract of 1 (`INSTANCE`) | checked, proved |
| 5 | `PlaceDesk` | review gate, desk decisions, merges, triage | | checked, proved |
| 6 | `Dedupe` | the duplicate run next to editors | | checked, proved |
| 7 | `ReaderAccounts` | registration, links, lockout | | checked, proved |
| 8 | `Partitions` | days and nights of the interaction tables | | checked, proved |
| 9 | `Beacon` | a tab, its batches, the endpoint | extends 8 | checked, proved |
| 10 | `Provisioning` | site:create, site:migrate --all | | checked, proved |
| 11 | `Rails` | filters, ladders, both caches | | checked, proved |
| 12 | `Itinerary` | prechecks, constraint model, validator | | checked, proved |
| 13 | `Vouchers` | the trigger of the per-reader cap | | checked, proved |

`MCPlatform` puts 7, 10 and 13 side by side, `MCPlaceDesk` 5 and 6, `MCReading` 9, 11 and 12: components that
share no state, each behaviour of the run moving one of them.  What is left, in the order of its worth: the link resolver and the classifier's thresholds as operators
against a reference; the load ledger of the imports.  "Proved" means: every property of the module's passing runs that is not liveness.

## 3. What is modelled

### EventDelivery (and AtMostOnceLog)

| Model | Code |
|---|---|
| `stream` | `now:domain-events:stream`; entry numbers are Redis ids in order |
| `delivered`, `pel` | the group's last-delivered id and its pending entries list |
| `todo`, `hand` | the `messages` list of `run_once` not yet reached, and the message in hand |
| `thread` | the consumer thread: `stopped` (no process), `polling`, `handling`, `acking`, `dead` (thread gone, process alive, heartbeat withheld) |
| `Announce` | an XADD that reached Redis (`publishDomainEvent`) |
| `Start`, `Stop` | container start and `startup`; kill or `shutdown`, which does not join the thread |
| `Read`, `Take`, `Settle`, `Ack` | XREADGROUP `>`; the loop; return or exception of `handle_payload`; `finally: xack` |
| `ReadReplyLost`, `RedisError` | exceptions that leave `run_forever`; the thread dies |
| `tried`, `faults` | history of handler starts; fault budget |

A refused XADD is no step of this module; `EditorialIndex` models it. The pub/sub
channel is not modelled: nothing subscribes to it.

`AtMostOnceLog` states what consumers may rely on: each event is tried once, after every
older one is settled, or is lost for good, with losses contiguous. `EventDelivery`
implements it with `log <- stream` and `lost <- Stranded \ tried` (`KeepsContract`), and again for the
events that any one handler acts on, counted by themselves (`Kept`, `Rank`, `Thinned`; `EachHandlerKeepsContract`).

### EditorialIndex

Extends `EventDelivery`; the entries are article events.

| Model | Code |
|---|---|
| `live`, `latest` | committed `public.articles` row; status of the newest version |
| `req` | a Payload request: opened (previousDoc read), written (row locked), announced (afterChange done), then committed |
| `DecideEvent` | `decideArticleEvent`, with `isDraftWrite` |
| `work` | the handler: flags in one transaction, then fetch, hashes, upsert in three |
| `flags`, `hash` | `engine.hidden_rival_flags` per article; `text_hash`, which stands for the embedded text |
| `night`, `fill` | the nightly recompute; the `backfill` command with its fetched rows |
| `mention` | some featured mention's place name matches a venue type |
| `excused` | history: articles for which a step admitted it may leave them stale |
| `shown` | history: texts an article was live with |

Abstractions: a text is one value standing for title, dek, body, type and format; `RivalTitle`
is the outcome of the title detector on it. The reads of one flags recompute are one step
and its diff another. Backfill batches hold one article (finer than 32). The
embedding model is a function of the text. Roles are left out: a refused publish changes
nothing. `previousDoc` being the newest version, hooks running inside the transaction and
drafts going to the versions table are Payload's behaviour, marked external.

### ReviewLoop

One facet of one article, decided by the classifier and by people. The module is
parameterised by the facet: `Multi` (cardinality), `HasField` (`type` and `format` have a column on
the article, `subtype` and `location` do not), `Sentinel` (`unknown` for `type`, none otherwise), `CmsKnows`
(the vocabulary the CMS loaded when it started).

| Model | Code |
|---|---|
| `reviews` | committed rows of `classification_reviews` for the article and facet |
| `field` | `articles.primary_type` or `articles.format` |
| `assigned` | `engine.entity_terms`: for each term of the facet, `ai`, `editor` or no row |
| `run` | `write_results` on this article: idle, about to look for a pending row, about to write |
| `desk` | a reviewer's `payload.update`: `pressed` (the row looked up), `read` (originalDoc), `written` (row locked), `fielded` (article updated), `announced`, then committed |
| `log`, `tried`, `lost` | the facet's `classification.reviewed` events, under the contract of `AtMostOnceLog` |
| `applied` | events whose `apply_decision` committed |
| `RunReads`, `RunFinds`, `RunAssigns`, `RunQueues`, `RunAborts` | the reads of `write_results`; `_FIND_PENDING_SQL`; the accepted branch; the reviewed branch with `_upsert_review`; the trigger's exception |
| `Presses`, `ReadsRow`, `WritesRow`, `WritesField`, `Announces`, `CommitsRow` | `decideOne`, `decideCluster`, `decideReview`; Payload's read; `autoPopulateOnDecision` and the row's UPDATE under the trigger; the hook's `articles` update; `publishDomainEvent`; COMMIT |
| `AnnouncesTwice`, `Dies`, `Drops`, `Loses` | a command repeated by ioredis; a web process that stops; a refused event or a failed transaction; a stranded batch |
| `owner`, `faults`, `crossed`, `run.raced` | history: last writer of the field; failures; two decisions whose transactions overlapped; a commit between a run's reads and its writes |

The events of one facet of one article, taken out of a log that keeps the contract,
keep it too: `EachHandlerKeepsContract` of `EventDelivery` says so of every set of events, with positions
counted within the set. That is why `ReviewLoop` uses `AtMostOnceLog` and not `EventDelivery`.

Abstractions: a value and its term id are one model value, so a proposal that is not in the
platform's vocabulary is left out. Sources other than the editor's (`ai`, `inferred`) are `ai`. The reviewer's choice is made where it
first matters, in `WritesRow`. A run's statements are three steps: reads, search, writes. Its
writes are one step because no other transaction sees them before the commit; the reads are where a
decision can slip in. The article's other facet decides whether the UPDATE of `articles` happens when this one does
not move, hence the choice in `MoveField`. The trigger's exception rolls back the run of the whole city; here that is this article's part of it.
`EditsField` does not see the desk: an author's save and a decision are each one UPDATE of the article.

### PlaceDesk and Dedupe

| Model | Code |
|---|---|
| `place`, `hangs` | `public.places` (status, `merged_into_id`, reviewed, type, aliases) and `public.place_mentions` |
| `press` | one press at the desk: the rows as they were read, then `payload.update` by id or one transaction (`actions.ts`) |
| `OpensDecision`, `OpensBulkJunk`, `Decides` | `deskPlace`, the switch, the update; `bulkJunk` |
| `OpensMerge`, `LooksUp`, `Commits` | the desk's merge: rows read before the transaction, what hangs on the loser in it |
| `AppliesMerge`, `Unmerges`, `Triages`, `Untriages` | `now_places` merge.py and db.py: locked, checked again, written |
| `parted`, `overtaken` | history: what hung on a place when it was merged; a press wrote over a row changed since it was read |
| `Guarded`, `AutoEdge`, `Cluster`, `Survivor`, `Cleared` | `_guard`, the edges, `_UnionFind`, `survivor_key`, the gate of a loser in `plan_dedupe` |
| `PlansDedupe`, `AppliesNext`, `Stops`, `EditorDecides` | `dedupe_cmd`, its transactions, an interruption, the desk |

A name is what the guards and the similarity say of it (`Looks`): marks, pairs of unlike things, three bands. The rows of
`Dedupe` are numbered by the rest of `survivor_key`. The invariants of `PlaceDesk` except executions in which a press
wrote over a row that had changed after it was read; the code has no version check there (see section 5).

### ReaderAccounts

| Model | Code |
|---|---|
| `reader`, `token` | the address's row in `engine.identities`; `engine.identity_tokens` in order of issue |
| `held` | links whose secret reached somebody and which have not expired |
| `req` | a request: the statement it runs next and what it has read |
| `DropsOldLinks`, `CreatesLink` | the DELETE and the INSERT of `createToken` |
| `FollowsLink`, `Consumes`, `MarksVerified`, `SetsPassword`, `ClearsAfterReset`, `PurgesLinks` | `consumeToken` and what `reader.ts` does after it |
| `SignsIn`, `Fails`, `Passes`, `LockLapses` | the row read, the hashing, `recordFailure` or the clearing of the counter |
| `spent`, `wrong` | history: redemptions of a link; failures since a success or a lapse |

### Partitions and Beacon

| Model | Code |
|---|---|
| `today`, `site`, `parts` | the calendar, the row of the registry, days with a partition in both tables |
| `Opens`, `Maintains`, `DropsOld` | `ensure_city_partitions`; the nightly job's ensure and drop |
| `path`, `told`, `pre` | visits of the tab; the one `BeaconRoute` declared last; `NOWB.q` before the script is there |
| `beacon` | the script's variables: consent, current page, queue, timer, session; `flight` the batches on their way |
| `Tracked`, `Impressed`, `PageSet`, `Replayed`, `Booted`, `FinallyFlushed`, `ConsentSet` | the functions of `beacon.js`, from its variables to their new values |
| `Arrives`, `IsLost` | `write_events`, one transaction for a batch; a refusal, or a request that fails |
| `covered`, `written`, and of an event `visit`, `pause`, `era` | history: last day ensured, days written; where the reader was, which pause, which consent |

A handler of the script is one action, as the browser runs it to its end. An event goes by what identifies its page; the batch carries no
retry, as the script has none.

### Provisioning

| Model | Code |
|---|---|
| `vocabulary`, `city`, `policy`, `registry` | `type` terms of the platform database; each city database; its `engine.type_relations`; `engine.sites` |
| `command` | a run of site:create or site:migrate --all: its next step, its site, the sites left, the seed directory it was started from |
| `Following` | the order of the steps, each with its own commit |
| `SeedsPlatform`, `Backfilled`, `SeedsCity`, `WithDecay`, `WithConfidence` | the upserts, the backfill of missing policies and its check against the vocabulary, the `jsonb_set` writes |
| `Breaks`, `Disables`, `Overrides` and the other tunings | a command that dies; operators and editors |
| `own` | history: policies an editor made |

### Rails

| Model | Code |
|---|---|
| `world`, `edited` | relation matrix, the page's article, candidates; history: when they last changed |
| `known`, `stored` | `_cache` of `relations_cache.py` per process; the article's rows of `engine.rail_cache` |
| `call` | a call of `GET /articles/{id}/rails`: matrix, k, subject as read, rows so far |
| `Excluded`, `Competes`, `Fetched`, `Landed`, `Pools`, `Diversified` | `excluded_types_for`, `is_competitor`, the queries, `run_ladder`, its cut, `diversify` |
| `Builds`, `Hits`, `Misses`, `ReadsSubject`, `ComputesRow`, `Stores`, `Fails` | `RailsOrchestrator.build`, `compute_rails`, the three rows, `write_rail_caches` |

Scores only order the candidates: a row is any selection that the greedy choice under the caps can end with. That a
call ends within `Latency` is an assumption on the deployment, not a line of the code.

### Itinerary

`Eligible`, `Options`, `Supply`, `Short` and `Diagnosed` are the filters and prechecks of `solve`; `Allowed` and `Timed` its
constraint model over places and arrivals; `Plans` any answer the model accepts, as CP-SAT may return any feasible one when its time is over;
`RequiredFilled` to `PartnersPlaced` the rules of `validate.py`, written independently of the model. Opening hours are per weekday, with split services.

### Vouchers

The trigger of migration 0012 per inserted row: `LocksOffer` (`SELECT ... FOR UPDATE`), `CountsClaims` (READ COMMITTED, own rows
included), then more rows or the commit; `Recaps` changes the cap behind the same lock.

## 4. Runs

| Run | Checks | Bounds |
|---|---|---|
| `delivery` | batch shape, nothing acknowledged unseen, bounded loss, refinement of `AtMostOnceLog`, also by what a handler sees that acts on some of the events; the cursor catches up unless the thread is dead; batches drain | 5 entries, batch 2, 2 faults: two crashes with a batch in memory and a third batch after them |
| `editorial_index` | at rest the derived tables are current but for named reasons; nothing taken down stays flagged; no draft text embedded | 1 article, 2 requests, 3 saves, 3 entries, 1 fault of any kind |
| `editorial_jobs` | the first of these beside nightly job and backfill | 2 articles, 1 request, 2 saves, no faults |
| `editorial_nightly` | flags converge | 1 article, 2 saves, 1 mention change, 1 fault, unbounded nights |
| `editorial_freshness` (violation) | flagged within the delivery | no faults |
| `review_type` | runs spare decisions; field and engine meet when nothing failed | `type`, 3 terms of which the CMS does not know the sentinel, 2 reviewers, 2 rows, 2 events, 2 runs, no failure |
| `review_format` | the engine's editor rows are those of the decisions applied; one pending proposal; runs spare a settled field; the newest decision lands (liveness) | `format`, 2 terms, 1 reviewer, 2 rows, 2 events, 2 runs, 1 failure of any kind |
| `platform` | links and redemptions bounded by the requests in flight, failures let in before a lapse bounded; what is served is provisioned, a migration covers its sites, tuning survives; the cap holds | 2 requests, 2 links, lock after 3, 7 failures; 1 site, 2 commands, 3 seed directories (old, new, inconsistent), 2 types; 3 sessions, 2 readers, caps 1 and 2 |
| `places` | merges end at a survivor, are recorded, are not live, are given back; the duplicate run merges only what clears the gate | 3 places, 1 mention, 1 press, 2 aliases; 3 rows with every combination of bands, marks and unlike names |
| `dedupe_queue` (violation) | what is queued is not merged | as `places` |
| `reading` | opting out is a hard stop, no event waits without a timer, a dwell names its page, a visit is one session, recent batches are accepted, retention; settled rails are clean; plans keep the rules, refusals are right | 2 pages, 2 visits, declarations and clicks until 2 events are out, 1 opt-out, 1 pause, flush at 3, 2 days; 2 calls, 1 process, 6 worlds, 1 edit, ages of 1, 4 ticks; 3 places, 1 or 2 days, ladders of 3 or 2 slots, 84 requests |
| `itinerary_whole` (violation) | a plan passes the whole validator | as `reading` |

The bounds name every counter: `MaxStream`, `MaxFaults`, `MaxSaves`, `MaxMentions`, `MaxRows`, `MaxEvents`, `MaxRuns`, `MaxTokens`, `MaxFailures`, `MaxEntries`,
`MaxVisits`, `MaxEras`, `MaxPauses`, `MaxDay`, `MaxTime`, `MaxEdits`. One article
with two requests is enough for every race of two writers on one row; two
articles are needed for a batch that mixes subjects and for `delete_stale`, which
does nothing on an empty fetch. Two review rows arise when a run finds the first one decided; two
events are the least that can be out of order; two terms are the least that can disagree. Three places are the least for a chain of
merges, and for a cluster that similarity does not close. A flush at three events lets a queue leave by size, by timer, and
with the last page. The clock of `reading` runs one tick past the sum of both ages and the latency, so that its invariant has
something to say. Reviewers, requests and places are interchangeable where no liveness is checked, and the runs
use symmetry over them. `Explored` in `places` stops at an overtaken press, after which the invariants claim nothing, and at one
typed and one triaged place. Deadlock is not checked where the bounds let the system run out of steps.

**Fairness.** `Start` is weakly fair because the compose file restarts a process that exits
(`restart: unless-stopped`); the thread's steps because `run_forever` loops; the night
because arq's cron fires every day; a request because Payload runs its hooks to the
end; the worker's handling of decisions because its thread polls for ever. Nothing restarts a live process whose consumer thread died, so `dead` has no fair exit and
`CursorCatchesUp` excepts it. Nobody schedules the backfill: no liveness of embeddings is claimed. The other modules are checked for
safety: people, tabs and operators owe nobody a step, and the timer of the beacon is covered by `NothingStuck`, which says that one is running.

## 5. Findings

See `PROJECT.json` "findings"; each has a run whose counterexample TLC prints.

* `editorial_freshness`: the event can be handled before the save commits; the article
  then stays unflagged (and unembedded) until the next save or night.
* `itinerary_whole`: the solver asks for journeys between neighbouring slots only and never for the day's travel budget, so a plan
  with an empty slot can have the visitor in two places.
* `dedupe_queue`: two rows queued for the editors are merged into the same third row by the run that queued them.

Seen while modelling, in the models, without a run of their own. Stream and articles:

* An unacknowledged message is not redelivered (`worker.py:148` reads only new entries), where `main.py:117-119` says the group redelivers it. A
  kill strands the rest of the batch with it (`Stop` with a batch); the README of `packages/embeddings` (line 171) speaks of one message.
* The nightly recompute puts back the flags of an article taken down (`hidden_rival_recompute.py:113`), against its docstring (lines 327-329).
* Unpublishing an article whose newest version is an autosaved draft announces nothing
  (`SilentUnpublish`): `decideArticleEvent` compares the newest version, a draft, with the new one. It rests on
  Payload's previousDoc being the newest version.

Reviews:

* A confident re-run adds its term beside the editor's on a single-valued facet (`db.py:127`, comment at `:113`).
* A run that read the article before a decision writes over the decided field (`db.py:397`), where `ClassificationReviews.ts:188` says "never overwritten".
* Correcting a correction neither writes the article nor publishes an event (`WritesRow` when the state
  does not change), while `classification.py` (line 38) expects the second event.
* A bulk press overwrites a decision made after its look-up (`Presses`, then `CommitsRow`), while
  `review.ts` (line 334) defines it as "whatever of this pattern is still undecided".
* A rewritten proposal keeps the `termId` of the older one (`Reproposed`); the event's `previous_term_id` comes from it.

Readers:

* `consumeToken` does not look at how many rows its UPDATE changed, so two clicks that overlap both redeem a link that `reader.ts:358` calls single use. `SpentBounded` is what remains.
* Requests that overlap leave two live links (`reader.ts:340` says a new one invalidates the old). `LinksBounded` is what remains.
* A failure that read the counter before the limit lifts a lock set since (`lock_until` is written from what was read). `GuessesBounded` is what remains.

Places:

* The desk's merge writes the alias list it read before its transaction, over a merge or an unmerge that went in between, and merges places that stopped being mergeable meanwhile.
* An extraction that finds a place by its slug hangs a mention on a merged place.
* Triage junks a place an editor chose to keep: it never looks at who reviewed the row.
* Rows merged into a loser earlier follow it into a survivor they were never compared with (`dedupe.py:205-206` promises the gate for every row).

Tabs:

* A page that declares itself before the script is there is viewed twice, once by the replay and once by the boot (`BeaconRoute.tsx:81-82` and `beacon.js:568-570` count on once).
* `track` refreshes the session's stamp before it asks for the id, so a session outlives any pause that a click or a page change ends (`beacon.js:463`; the README, line 26, has a 30-minute sliding window).
* Hiding the tab sets `unloading` for good: a tab that comes back sends no second dwell and no second exit.

Operations:

* One failing site ends `migrate_all` for the sites behind it, while the platform vocabulary is already the new one.
* `site:create` run again re-activates a site that was disabled.

Rails and itineraries:

* `k` is not part of the cache's key, so a call gets rows of the length another call asked for (`api/v1/rails.py:56`, "Slots per rail").
* A warm cache answers 200 for an article taken down, until it is too old; the endpoint documents 404.
* The greedy choice under the caps may end with fewer than k items where another choice would have filled the row.
* Cutting the options of a slot to `MAX_CANDIDATES` before solving can make a request with a plan come back without one.

## 6. Proofs

`EventDeliveryProofs` proves, for every `Event`, `Batch`, `MaxStream` and `MaxFaults` that satisfy
`DeliveryAssumption`:

* `DeliveryInvariant`: the inductive invariant `DeliveryInv` (type, batch shape,
  nothing acknowledged unseen). `AckedWasTried` alone is not inductive: that what `Ack`
  removes was tried needs `hand \in tried`, and that the next read is newer than all
  tried ones needs the batch to be the contiguous end of what was handed out. Corollaries `DeliveryTypeCorrect`, `NothingSkippedOrRepeated`.
* `PipelineKeepsContract`: the refinement, one lemma per kind of step over `DeliveryInv`; the
  key lemma says that settled means "past the cursor and not in the batch".
* `EachHandlerIsServed`: the same contract for the events of every set, seen by a handler that counts those alone. Ranks among the
  ids kept are a bijection onto 1, 2, ... that respects the order (`RankCounts`, `RankOnto`, from the injections of the library), so a step of the
  contract is the same step at the rank, or nothing.
* `LossIsBounded`: `StrandedBounded`, strengthened by a bound on the batch in memory, with the
  cardinality theorems of the library.

`ReviewLoopProofs`, for every facet, vocabulary, set of reviewers and bound that satisfy `ReviewAssumption`:

* `ReviewTypeCorrect`: `TypeOK` in four named parts (stores, run, desks, stream), inductive as it
  stands; one lemma per action, with lemmas for what a desk holds and what a decision makes of a row.
* `RunsSpareDecisions`: the classifier changes no decided row and no editor term. The trigger only protects
  rows whose `source` is the editor's, so the proof needs `DecidedByEditor` (theorem `DecidedRowsAreEditors`): every decided row is the
  editor's in the table, in the copy a reviewer has read and in the version an open transaction has written. The
  copies matter because a second decision with the same outcome keeps the source it read.
* `EngineFollows`: `EngineFollowsDecisions`, with `SettledPrefix` (what the worker was given or lost is an initial part of the
  log) as the strengthening: a decision applied is then newer than all applied before it, which is where
  the contract of the stream is used.
* `OneProposalPending`: one pending proposal per facet, though no unique index stands behind the search and the insert. Inductive with
  `FoundStillHolds`: a reviewer makes no row pending, so "there was none" is still true at the insert; and a row that was found is
  rewritten only while pending, because the trigger refuses it once it is decided (`DecidedByEditor` again).
* `FieldMeetsEngineForAll`, for a facet with an unknown term (`Sentinel # None`; without one a decision may retract, which clears the
  engine's rows and leaves the field): once every decision announced is applied and nothing failed or crossed, the value a decision last wrote on the
  article is the engine's. By induction over `Told`: an uncrossed decision that has written the field still carries its value (`DeskTells`), and
  between decisions the newest event tells it (`LogTells`); `EngineFollowsDecisions` then takes it to the engine's row. Both are kept only while no decision crossed another.
* `RunSparesSettledFieldForAll`: a run that began after the engine holds a decision leaves the article's field. The invariant `RunReadsStill` says
  that what an unraced run has read still stands, and that a field it may move was none of the editor's; `NextReadsStill` checks that every other writer of
  the two stores marks the run as raced.

`EditorialIndexProofs`, for every set of articles, texts, requests and jobs, and every bound:

* `IndexTypeCorrect`, from `IndexInvariant`, which adds to the types the consumer's invariant (`DeliveryInv`) and that a handler at
  work has an entry in hand.
* `OnlyLiveTextIsEmbedded`: every copy of a text on its way to the table - the worker's fetch, the backfill's rows - was taken from a live row.
* `PublishedIsIndexedForAll` and `UnpublishedIsUnflaggedForAll`, from `FreshInvariant`. For an article that nothing excused: one transaction
  writes it at a time; the newest announcement tells of its live row (`NewestTells`); and flags and embedding are right, or in the hands of somebody who will
  make them right - an entry not yet tried, the handler in the middle, the night's recompute (`FlagsOnTheWay`, `HashOnTheWay`). The clause about the night is
  what makes the second theorem need its assumption that no nightly job is scheduled: the recompute flags articles that are not published.
* `ArticleEventsKeepContract`, `ArticleHandlersAreServed`, `ArticleLossIsBounded`: what holds of the consumer alone holds of it in the composition. `NextDelivers` sorts the steps
  of articles, handlers and jobs into steps of the pipeline, failures it does not see, and one more entry in the log.

`ProvisioningProofs`, for every set of sites, types, commands and seed directories: `ProvisioningTypeCorrect` (proved only, no run repeats it), `ServedIsProvisionedForAll` and `MigrateCoversForAll` from
`ProvisioningInvariant`, which says of each command what its earlier steps have left behind (`CreateStands`, `MigrateStands`) - facts that no other command takes back, because databases, terms,
policies and partitions only grow. `TuningSurvivesForAll` follows step by step: every write of a command
is conditional on the value being missing, or comes with a database that was empty.

`ReaderAccountsProofs`, for any number of requests and links:

* `AccountTypeCorrect`, `LinksBoundedForAll` and `SpentBoundedForAll`. The inductive parts count, for every
  kind, live links and requests about to insert one, and for every link redemptions and requests past the look-up: a DELETE makes the first sum fall to
  the requests in flight, and nobody can pass the look-up of a link that was redeemed.
* `GuessesBoundedForAll`, where there is a request at all: the failures let in between two lapses or successes are at most the limit and a
  quadratic number more. `LockTurns` counts the failures under way that have read a counter below the limit (`Early`); only those can lift a lock, each once,
  and no new one arises while the counter stands at the limit. Between two of them every request that is free can put one more failure in, which is the room (`Room`) that each uses up.
* `CapHoldsForAll`, of the vouchers: whoever has counted holds the offer's row, so the count is still true and the cap still the one compared with when the claims are committed.

`PlacesProofs`, of the duplicate run: `MergesClearTheGateForAll`, for any number of rows and any relation between their looks. What is planned was cleared against the survivor when the plan was made; names and marks
do not change under the run, whatever editors approve or junk.

Of the desk and the commands, for any number of places, mentions and presses, as long as no press wrote over a row that had changed since it was read:
`MergedIntoSurvivesForAll`, `MergesAreRecordedForAll`, `MergedIsNotLiveForAll` and `UnmergeGivesBackForAll`, from `DeskInvariant`. None of the four is inductive, since an
unmerge reads the survivor's record and trusts it. `Catalogue` says what the records are worth:

* a merged place points at a survivor (`Pointers`), has one record (`OneEach`) that lies where its pointer leads (`SameRoot`), and the survivor's records name everybody who points there (`AllNamed`);
* what a merge brought along hangs below the place it brought (`BroughtAlong`), and two records share places or mentions only if one hangs below the other (`Nested`, `MentionsFollow`).
  This is what an unmerge in the middle of a chain rests on: what it takes back belongs to nobody else.
* `PressJudged`: a press in flight has read rows that allowed what it is about to do, also if they changed since.

`ReadingProofs`:

* of the partitions `RetentionKeepsForAll` and `RunwayHoldsForAll`;
* of the beacon, for any pages, visits, consents, pauses and days, `NothingStuckForAll`, `HardStopForAll`, `DwellNamesItsPageForAll`, `SessionIsNotSplitForAll` and `RecentIsAcceptedForAll`.
  `BeaconInv` says what is queued (`Collected`: of the present consent, in the present session if nobody paused, with a timer running), what each event owes its visit (`EventFits`) and that the
  script's page is the one declared last (`Paged`, `OnPage`); one lemma for each function of the script shows that it keeps them, and `Grows` what it may send. The replay of the calls made before the script was there is a recursive
  function over their number: its states exist and keep the invariant by induction, stated as a set of numbers that holds 0 and every successor, for which
  the library's well-founded relations suffice. `RecentIsAcceptedForAll` joins the beacon's days with the partitions' invariant.
* of the rails `SettledIsCleanForAll`. The
  invariant bounds three ages, each honest about its moment: a process's matrix (`KnownIsCurrent`), a stored rail (`StoredIsHonest`) and what
  a call has read (`CallIsCurrent`), and their sum is the lag after which nothing old is left.

`ItineraryProofs`, for any places, ladders, hours, caps and ceilings that satisfy `ItineraryAssumption` (finitely many places, times that are numbers):

* `PlanKeepsRulesForAll`: the window the model gives a place in a slot lies in one opening interval of its day (`BestIsOne`, `WindowIsOpen`: the best of finitely many intervals
  exists because overlaps are bounded numbers), and every other rule of the validator follows from a constraint of the model.
* `PrecheckIsSoundForAll`: if a plan exists, no check of `_precheck` fires. Each is a counting argument by an injection: slots that demand a type into the places that fill them
  (`DemandIsSupplied`, with the cap of each organisation), and into the cap of the type (`DemandFitsCap`); the places of partners into the slots they may have (`PartnersFit`).

The assumptions of each theorem are the module's ASSUME, which the runs evaluate, and those its statement names.

Model-checked only: liveness under fairness (`CursorCatchesUp`, `BatchDrains`, `FlagsConverge`, `DecisionLands`), which is out of the prover's reach, and the runs that expect a violation. Every
other property of the passing runs is a theorem.

## 7. Not modelled

Every component with status `not_modelled` in `PROJECT.json`, with its reason there: pure scoring and rendering, batch imports, and tools that measure or
report; most of the source is of these kinds, or queries and pages over the tables modelled here. Of the components that are modelled in part the notes say what is left out.

Hazards without a property of their own, in `PROJECT.json` "hazards" with the reason: a bulk press over a colleague's decision, the second correction of a row, a
review row whose commit fails after its article was written, and a proposal that changed under the reviewer's eyes. The models allow the first three; no document says
what the program owes in the last two.
