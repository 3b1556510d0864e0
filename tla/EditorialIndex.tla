--------------------------- MODULE EditorialIndex ---------------------------
(***************************************************************************)
(* From an editor's save to the tables the rails read.  Payload saves an   *)
(* article inside a transaction and announces the write from an            *)
(* afterChange hook (packages/cms); the domain-event consumer              *)
(* (EventDelivery) refreshes the article's hidden-rival flags and its      *)
(* embedding; a nightly job recomputes all flags; an operator may run the  *)
(* embedding backfill at any time.  None of them hold a lock across these  *)
(* steps, so the interest is in what they may leave behind.                *)
(***************************************************************************)
EXTENDS EventDelivery

CONSTANTS Article,
          Request,     \* Payload requests that may be in flight at once
          Text,        \* what an article may say: title, dek, body, type, format
          RivalTitle,  \* texts whose title names a venue type it is not filed under
          Jobs,        \* of {"nightly", "backfill"}: what runs beside the consumer
          MaxSaves,    \* bound: Payload writes
          MaxMentions  \* bound: place-extraction changes

NoText == "no text"
NoEvent == "none"
Kinds == {"article.published", "article.republished", "article.unpublished"}
ArticleEvent == [kind : Kinds, article : Article]

ASSUME IndexAssumption ==
  /\ Event = ArticleEvent
  /\ NoText \notin Text
  /\ RivalTitle \subseteq Text
  /\ Jobs \subseteq {"nightly", "backfill"}
  /\ MaxSaves \in Nat
  /\ MaxMentions \in Nat

VARIABLES
  live,      \* committed row of public.articles: status and text
  latest,    \* status of the newest version, which a draft save may have made
  mention,   \* a featured place mention names a venue type
  req,       \* Payload requests in flight
  hash,      \* engine.embeddings.text_hash; it stands for the text embedded
  flags,     \* engine.hidden_rival_flags: the signals stored per article
  work,      \* the handler's local state
  night,     \* the nightly recompute
  fill,      \* the embedding backfill
  saves, mentions,  \* counters of the two bounds
  shown,     \* history: texts an article was live with
  excused    \* history: articles some step may have left stale, see below

cmsVars == <<live, latest, req, saves>>
workerVars == <<hash, flags, work>>
jobVars == <<night, fill>>
history == <<shown, excused>>
vars == <<deliveryVars, cmsVars, mention, mentions, workerVars, jobVars, history>>

Signal == {"featured_mention", "title"}
Row == [status : {"none", "draft", "published"}, text : Text \union {NoText}]
NoRow == [status |-> "none", text |-> NoText]

Published(a) == live[a].status = "published"

(* What the two detectors find in the committed rows.  Only the title      *)
(* detector looks at _status.                                              *)
Wanted(a) ==
  {s \in Signal : \/ s = "featured_mention" /\ mention[a]
                  \/ s = "title" /\ Published(a) /\ live[a].text \in RivalTitle}

IdleRequest == [pc |-> "idle"]
IdleWork == [pc |-> "idle"]
IdleNight == [pc |-> "idle"]
IdleFill == [pc |-> "idle"]

Active(s) == req[s].pc # "idle"
(* A request that has written holds the article's row until it commits.    *)
Locks(s, a) == req[s].pc \in {"written", "announced"} /\ req[s].article = a
(* Its event may be in the stream while its row is not yet visible.        *)
Uncommitted(a) == \E s \in Request : req[s].pc = "announced" /\ req[s].article = a

TypeOK ==
  /\ DeliveryTypeOK
  /\ live \in [Article -> Row]
  /\ latest \in [Article -> {"none", "draft", "published"}]
  /\ mention \in [Article -> BOOLEAN]
  /\ req \in [Request -> {IdleRequest} \union
        [pc : {"opened", "written", "announced"}, article : Article,
         draft : BOOLEAN, was : {"none", "draft", "published"}, next : Row]]
  /\ hash \in [Article -> Text \union {NoText}]
  /\ flags \in [Article -> SUBSET Signal]
  /\ work \in {IdleWork} \union [pc : {"flags", "fetch", "done"}]
        \union [pc : {"apply"}, want : SUBSET Signal]
        \union [pc : {"hashes", "upsert"}, text : Text]
  /\ night \in {IdleNight} \union [pc : {"apply"}, want : [Article -> SUBSET Signal]]
  /\ fill \in {IdleFill} \union
        [pc : {"diff", "embed"}, rows : [Article -> Text \union {NoText}], todo : SUBSET Article]
  /\ saves \in 0..MaxSaves
  /\ mentions \in 0..MaxMentions
  /\ shown \in [Article -> SUBSET Text]
  /\ excused \in SUBSET Article

(* Articles are absent, or drafts that may already have their mentions.    *)
Init ==
  /\ DeliveryInit
  /\ live \in [Article -> {NoRow} \union [status : {"draft"}, text : Text]]
  /\ latest = [a \in Article |-> live[a].status]
  /\ mention \in [Article -> BOOLEAN]
  /\ \A a \in Article : mention[a] => live[a] # NoRow
  /\ req = [s \in Request |-> IdleRequest]
  /\ hash = [a \in Article |-> NoText]
  /\ flags = [a \in Article |-> {}]
  /\ work = IdleWork
  /\ night = IdleNight
  /\ fill = IdleFill
  /\ saves = 0
  /\ mentions = 0
  /\ shown = [a \in Article |-> {}]
  /\ excused = {}

(* The steps that may leave the index of an article stale, although every  *)
(* event is handled once, name it here.  The invariants below say that     *)
(* there are no others.                                                    *)
Excuse(S) == excused' = excused \union S /\ UNCHANGED shown

(***************************************************************************)
(* Payload writes.                                                         *)
(***************************************************************************)

(* decideArticleEvent.  A create is a write with no earlier document.      *)
(* The mutated form forgets draft writes, as the hook once did.            *)
DecideEventForgettingDrafts(was, is, draft) ==
  CASE is # "published" /\ was # "published" -> NoEvent
    [] is = "published" /\ was # "published" -> "article.published"
    [] is = "published" /\ was = "published" -> "article.republished"
    [] is # "published" /\ was = "published" -> "article.unpublished"

DecideEvent(was, is, draft) ==
  CASE draft \/ (is # "published" /\ was # "published") -> NoEvent
    [] ~draft /\ is = "published" /\ was # "published" -> "article.published"
    [] ~draft /\ is = "published" /\ was = "published" -> "article.republished"
    [] ~draft /\ is # "published" /\ was = "published" -> "article.unpublished"

EventOf(s) == DecideEvent(req[s].was, req[s].next.status, req[s].draft)

(* Payload reads the document the hooks will see as previousDoc: for a     *)
(* collection with drafts that is the newest version, not the live row.    *)
(* Autosave and "Save draft" are draft writes; "Publish" and "Unpublish"   *)
(* are not.                                                                *)
Open(s, a, next, draft) ==
  /\ ~Active(s)
  /\ saves < MaxSaves
  /\ draft => next.status = "draft"
  /\ live[a] = NoRow => \A r \in Request : Active(r) => req[r].article # a
  /\ saves' = saves + 1
  /\ req' = [req EXCEPT ![s] = [pc |-> "opened", article |-> a, draft |-> draft,
                                was |-> latest[a], next |-> next]]
  /\ UNCHANGED <<live, latest, mention, mentions, deliveryVars, workerVars, jobVars, history>>

Advance(s, pc) == req' = [req EXCEPT ![s].pc = pc]

(* The UPDATE inside the transaction waits for the row.                    *)
Write(s) ==
  /\ req[s].pc = "opened"
  /\ \A r \in Request : ~Locks(r, req[s].article)
  /\ Advance(s, "written")
  /\ UNCHANGED <<live, latest, saves, mention, mentions, deliveryVars, workerVars, jobVars, history>>

(* afterChange, still inside the transaction: publishArticleEvent.         *)
AnnounceLanded(s) ==
  /\ req[s].pc = "written"
  /\ EventOf(s) # NoEvent
  /\ Announce([kind |-> EventOf(s), article |-> req[s].article])
  /\ Advance(s, "announced")
  /\ UNCHANGED <<live, latest, saves, mention, mentions, workerVars, jobVars, history>>

AnnounceNothing(s) ==
  /\ req[s].pc = "written"
  /\ EventOf(s) = NoEvent
  /\ Advance(s, "announced")
  /\ UNCHANGED <<live, latest, saves, mention, mentions, deliveryVars, workerVars, jobVars, history>>

(* publishDomainEvent returns false -- no REDIS_URL, no connection -- and  *)
(* the save goes on.                                                       *)
AnnounceLost(s) ==
  /\ req[s].pc = "written"
  /\ EventOf(s) # NoEvent
  /\ Fault
  /\ Advance(s, "announced")
  /\ Excuse({req[s].article})
  /\ UNCHANGED <<live, latest, saves, mention, mentions, stream, delivered, pel, thread, todo,
                 hand, tried, workerVars, jobVars>>

(* The reply to the XADD was lost and ioredis sends the command again.     *)
AnnounceAgain(s) ==
  /\ req[s].pc = "announced"
  /\ EventOf(s) # NoEvent
  /\ Fault
  /\ Len(stream) < MaxStream
  /\ stream' = Append(stream, [kind |-> EventOf(s), article |-> req[s].article])
  /\ UNCHANGED <<cmsVars, mention, mentions, delivered, pel, thread, todo, hand, tried,
                 workerVars, jobVars, history>>

(* A live article taken down by a write that announces nothing: the newest *)
(* version was a draft already, so previousDoc and doc are both drafts.    *)
SilentUnpublish(s) ==
  /\ Published(req[s].article)
  /\ ~req[s].draft
  /\ req[s].next.status # "published"
  /\ EventOf(s) = NoEvent

(* A draft write makes a version and leaves an existing live row alone.    *)
Commit(s) ==
  /\ req[s].pc = "announced"
  /\ LET a == req[s].article
         next == req[s].next
     IN /\ latest' = [latest EXCEPT ![a] = next.status]
        /\ live' = IF req[s].draft /\ live[a] # NoRow THEN live ELSE [live EXCEPT ![a] = next]
        /\ shown' = IF next.status = "published"
                    THEN [shown EXCEPT ![a] = @ \union {next.text}] ELSE shown
        /\ excused' = IF SilentUnpublish(s) THEN excused \union {a} ELSE excused
  /\ req' = [req EXCEPT ![s] = IdleRequest]
  /\ UNCHANGED <<saves, mention, mentions, deliveryVars, workerVars, jobVars>>

(* The transaction rolls back; what was announced stays announced.         *)
Rollback(s) ==
  /\ Active(s)
  /\ Fault
  /\ Excuse(IF req[s].pc = "announced" THEN {req[s].article} ELSE {})
  /\ req' = [req EXCEPT ![s] = IdleRequest]
  /\ UNCHANGED <<live, latest, saves, mention, mentions, stream, delivered, pel, thread, todo,
                 hand, tried, workerVars, jobVars>>

(* now-place-extract changes an article's mentions; no event exists for it.*)
MentionsChange(a) ==
  /\ mentions < MaxMentions
  /\ live[a] # NoRow
  /\ mentions' = mentions + 1
  /\ mention' = [mention EXCEPT ![a] = ~@]
  /\ Excuse(IF Published(a) THEN {a} ELSE {})
  /\ UNCHANGED <<cmsVars, deliveryVars, workerVars, jobVars>>

(***************************************************************************)
(* DomainEventWorker.handle_payload: flags first, in a transaction of its  *)
(* own, then the embedding, in three.                                      *)
(***************************************************************************)
Kind == stream[hand].kind
Subject == stream[hand].article

Goto(w) == work' = w /\ UNCHANGED <<cmsVars, mention, mentions, jobVars>>
FaultOnly == Fault /\ UNCHANGED <<stream, delivered, pel, thread, todo, hand, tried>>

Begin(i) == Take(i) /\ Goto([pc |-> "flags"]) /\ UNCHANGED <<hash, flags, history>>

(* Mutated form: article.unpublished is acknowledged and nothing removed.  *)
FlagsRemoveNothing ==
  /\ work.pc = "flags"
  /\ Kind = "article.unpublished"
  /\ Goto([pc |-> "fetch"])
  /\ UNCHANGED <<deliveryVars, hash, flags, history>>

FlagsRemove ==
  /\ work.pc = "flags"
  /\ Kind = "article.unpublished"
  /\ flags' = [flags EXCEPT ![Subject] = {}]
  /\ Goto([pc |-> "fetch"])
  /\ UNCHANGED <<deliveryVars, hash, history>>

(* recompute_flags_for_article reads mentions and title; what is not       *)
(* committed yet is not seen.                                              *)
FlagsRead ==
  /\ work.pc = "flags"
  /\ Kind # "article.unpublished"
  /\ Goto([pc |-> "apply", want |-> Wanted(Subject)])
  /\ Excuse(IF Uncommitted(Subject) THEN {Subject} ELSE {})
  /\ UNCHANGED <<deliveryVars, hash, flags>>

(* ... then brings the stored rows to what it found (_apply_diff).         *)
FlagsApply ==
  /\ work.pc = "apply"
  /\ flags' = [flags EXCEPT ![Subject] = work.want]
  /\ Goto([pc |-> "fetch"])
  /\ UNCHANGED <<deliveryVars, hash, history>>

(* _handle_hidden_rival swallows every exception.                          *)
FlagsError ==
  /\ work.pc \in {"flags", "apply"}
  /\ FaultOnly
  /\ Goto([pc |-> "fetch"])
  /\ Excuse({Subject})
  /\ UNCHANGED <<hash, flags>>

(* Only a published article is embedded; an unpublish is not this handler's*)
(* event, so an embedding outlives the article's time on the site.         *)
(* Mutated forms: the query forgets _status; a missing row is not noticed. *)
EmbeddableDraft == Kind # "article.unpublished" /\ live[Subject] # NoRow
EmbeddableMissing == Kind # "article.unpublished"
Embeddable == Kind # "article.unpublished" /\ Published(Subject)

FetchOne ==
  /\ work.pc = "fetch"
  /\ Goto(IF Embeddable THEN [pc |-> "hashes", text |-> live[Subject].text] ELSE [pc |-> "done"])
  /\ Excuse(IF Uncommitted(Subject) THEN {Subject} ELSE {})
  /\ UNCHANGED <<deliveryVars, hash, flags>>

(* Mutated form: an article that has an embedding is taken to be current.  *)
ReadHashesAnyHash ==
  /\ work.pc = "hashes"
  /\ Goto(IF hash[Subject] # NoText THEN [pc |-> "done"] ELSE [work EXCEPT !.pc = "upsert"])
  /\ UNCHANGED <<deliveryVars, hash, flags, history>>

ReadHashes ==
  /\ work.pc = "hashes"
  /\ Goto(IF hash[Subject] = work.text THEN [pc |-> "done"] ELSE [work EXCEPT !.pc = "upsert"])
  /\ UNCHANGED <<deliveryVars, hash, flags, history>>

Upsert ==
  /\ work.pc = "upsert"
  /\ hash' = [hash EXCEPT ![Subject] = work.text]
  /\ Goto([pc |-> "done"])
  /\ UNCHANGED <<deliveryVars, flags, history>>

(* The model call or the database failed: run_once counts it and goes on.  *)
HandlerError ==
  /\ work.pc \in {"fetch", "hashes", "upsert"}
  /\ FaultOnly
  /\ Goto([pc |-> "done"])
  /\ Excuse({Subject})
  /\ UNCHANGED <<hash, flags>>

Finish == work.pc = "done" /\ Settle /\ Goto(IdleWork) /\ UNCHANGED <<hash, flags, history>>

Consume ==
  /\ (\E last \in 1..MaxStream : Read(last)) \/ Ack \/ Start
  /\ UNCHANGED <<cmsVars, mention, mentions, workerVars, jobVars, history>>

Subjects(ids) == {stream[i].article : i \in ids}

ConsumerDown ==
  /\ \/ /\ Stop \/ RedisError
        /\ Excuse(Subjects(todo \union (IF thread = "handling" THEN {hand} ELSE {})))
     \/ \E last \in 1..MaxStream :
           ReadReplyLost(last) /\ Excuse(Subjects((delivered + 1)..last))
  /\ Goto(IdleWork)
  /\ UNCHANGED <<hash, flags>>

(***************************************************************************)
(* The nightly full recompute: one transaction that reads every source,    *)
(* then diffs the stored rows against what it read.                        *)
(***************************************************************************)
NightRead ==
  /\ "nightly" \in Jobs
  /\ night = IdleNight
  /\ night' = [pc |-> "apply", want |-> [a \in Article |-> Wanted(a)]]
  /\ UNCHANGED <<cmsVars, mention, mentions, deliveryVars, workerVars, fill, history>>

(* Mutated form: rows are added and none is removed.                       *)
NightApplyAddsOnly ==
  /\ night.pc = "apply"
  /\ flags' = [a \in Article |-> flags[a] \union night.want[a]]
  /\ night' = IdleNight
  /\ Excuse({a \in Article : night.want[a] # Wanted(a)})
  /\ UNCHANGED <<cmsVars, mention, mentions, deliveryVars, hash, work, fill>>

NightApply ==
  /\ night.pc = "apply"
  /\ flags' = night.want
  /\ night' = IdleNight
  /\ Excuse({a \in Article : night.want[a] # Wanted(a)})
  /\ UNCHANGED <<cmsVars, mention, mentions, deliveryVars, hash, work, fill>>

(* for_each_site reports the failure; the next night tries again.          *)
NightError ==
  /\ night.pc = "apply"
  /\ FaultOnly
  /\ night' = IdleNight
  /\ UNCHANGED <<cmsVars, mention, mentions, workerVars, fill, history>>

(***************************************************************************)
(* now-embeddings backfill.                                                *)
(***************************************************************************)
FillRest == UNCHANGED <<cmsVars, mention, mentions, deliveryVars, flags, work, night>>

(* fetch_articles: the published rows as they are now.                     *)
FillFetch ==
  /\ "backfill" \in Jobs
  /\ fill = IdleFill
  /\ fill' = [pc |-> "diff", todo |-> {},
              rows |-> [a \in Article |-> IF Published(a) THEN live[a].text ELSE NoText]]
  /\ FillRest /\ UNCHANGED <<hash, history>>

Fetched == {a \in Article : fill.rows[a] # NoText}

FillDiff ==
  /\ fill.pc = "diff"
  /\ fill' = [fill EXCEPT !.pc = "embed", !.todo = {a \in Fetched : hash[a] # fill.rows[a]}]
  /\ FillRest /\ UNCHANGED <<hash, history>>

(* One batch of the rows fetched at the start is embedded and committed,   *)
(* without another look at the articles.                                   *)
FillEmbed(a) ==
  /\ fill.pc = "embed"
  /\ a \in fill.todo
  /\ hash' = [hash EXCEPT ![a] = fill.rows[a]]
  /\ fill' = [fill EXCEPT !.todo = @ \ {a}]
  /\ Excuse(IF live[a].text # fill.rows[a] THEN {a} ELSE {})
  /\ FillRest

(* embed_batch failed: the batch is skipped.                               *)
FillBatchError(a) ==
  /\ fill.pc = "embed"
  /\ a \in fill.todo
  /\ fill' = [fill EXCEPT !.todo = @ \ {a}]
  /\ FillRest /\ UNCHANGED <<hash, history>>

(* delete_stale keeps what was fetched at the start.                       *)
FillPrune ==
  /\ fill.pc = "embed"
  /\ fill.todo = {}
  /\ hash' = IF Fetched = {} THEN hash
             ELSE [a \in Article |-> IF a \in Fetched THEN hash[a] ELSE NoText]
  /\ Excuse(IF Fetched = {} THEN {} ELSE {a \in Article \ Fetched : Published(a)})
  /\ fill' = IdleFill
  /\ FillRest

(* Killed between two commits; what was committed stays.                   *)
FillKill == fill # IdleFill /\ fill' = IdleFill /\ FillRest /\ UNCHANGED <<hash, history>>

(***************************************************************************)
RequestStep(s) ==
  Write(s) \/ AnnounceLanded(s) \/ AnnounceNothing(s) \/ AnnounceLost(s) \/ Commit(s)

HandlerStep ==
  \/ \E i \in todo : Begin(i)
  \/ FlagsRemove \/ FlagsRead \/ FlagsApply \/ FlagsError
  \/ FetchOne \/ ReadHashes \/ Upsert \/ HandlerError \/ Finish

NightStep == NightRead \/ NightApply \/ NightError

FillStep ==
  \/ FillFetch \/ FillDiff \/ FillPrune \/ FillKill
  \/ \E a \in Article : FillEmbed(a) \/ FillBatchError(a)

Next ==
  \/ \E s \in Request, a \in Article, status \in {"draft", "published"}, t \in Text,
        draft \in BOOLEAN : Open(s, a, [status |-> status, text |-> t], draft)
  \/ \E s \in Request : RequestStep(s) \/ AnnounceAgain(s) \/ Rollback(s)
  \/ \E a \in Article : MentionsChange(a)
  \/ HandlerStep \/ Consume \/ ConsumerDown
  \/ NightStep
  \/ FillStep

Spec == Init /\ [][Next]_vars

(* A request Payload accepted runs to its end, the consumer thread polls   *)
(* for ever, the container restarts a process that exited, and the cron    *)
(* comes round every night.  Nobody schedules the backfill.                *)
FairSpec ==
  /\ Spec
  /\ \A s \in Request : WF_vars(RequestStep(s))
  /\ WF_vars(HandlerStep)
  /\ WF_vars(Consume)
  /\ WF_vars(NightStep)

(***************************************************************************)
(* Properties.                                                             *)
(***************************************************************************)

(* Nothing is in flight and every entry has been handed out.               *)
Quiet ==
  /\ \A s \in Request : ~Active(s)
  /\ thread = "polling" /\ todo = {} /\ delivered = Len(stream)
  /\ night = IdleNight /\ fill = IdleFill

(* The event path is complete.  At rest a published article's embedding is *)
(* of the text on the site and its flags are what the detectors find,      *)
(* unless a step that says so (Excuse) got in the way: a lost announcement *)
(* or batch, a handler error, a read before the commit, a mention change,  *)
(* or a job that wrote what it had read too early.                         *)
PublishedIsIndexed ==
  Quiet => \A a \in Article \ excused :
             Published(a) => hash[a] = live[a].text /\ flags[a] = Wanted(a)

(* remove_flags_for_article: a flags table names no article nobody can be  *)
(* shown.                                                                  *)
UnpublishedIsUnflagged ==
  Quiet => \A a \in Article \ excused : ~Published(a) => flags[a] = {}

(* No draft text is ever embedded: the kNN table holds only text that was  *)
(* on the site.                                                            *)
EmbeddedWasLive == \A a \in Article : hash[a] \in shown[a] \union {NoText}

(* The nightly safety net: whatever was lost, raced or failed, once edits  *)
(* and failures end the flags become, and stay, what the sources say.      *)
FlagsConverge == <>[](\A a \in Article : flags[a] = Wanted(a))

(* consumer.py: "a fresh story is flagged within this process's own        *)
(* at-least-once delivery, not tomorrow's cron".  Stated of executions     *)
(* without any failure.                                                    *)
FreshWithinDelivery ==
  Quiet /\ faults = 0 => \A a \in Article : Published(a) => flags[a] = Wanted(a)
=============================================================================
