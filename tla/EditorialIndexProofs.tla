------------------------ MODULE EditorialIndexProofs ------------------------
(***************************************************************************)
(* The way from an editor's save to the tables the rails read, proved for  *)
(* every number of articles, of requests, of saves and of failures, with   *)
(* the nightly recompute and the backfill beside the consumer.             *)
(***************************************************************************)
EXTENDS EditorialIndex, EventDeliveryProofs

(* The records of a request, of the handler and of the backfill.           *)
OpenRequest ==
  [pc : {"opened", "written", "announced"}, article : Article, draft : BOOLEAN,
   was : {"none", "draft", "published"}, next : [status : {"draft", "published"}, text : Text]]
PlainWork == [pc : {"flags", "fetch", "done"}]
ApplyWork == [pc : {"apply"}, want : SUBSET Signal]
EmbedWork == [pc : {"hashes", "upsert"}, text : Text]
Rows == [Article -> Text \union {NoText}]
OpenNight == [pc : {"apply"}, want : [Article -> SUBSET Signal]]
OpenFill == [pc : {"diff", "embed"}, rows : Rows, todo : SUBSET Article]

CmsTypeOK ==
  /\ live \in [Article -> Row]
  /\ \A a \in Article : live[a].status # "none" => live[a].text \in Text
  /\ latest \in [Article -> {"none", "draft", "published"}]
  /\ req \in [Request -> {IdleRequest} \union OpenRequest]
  /\ saves \in 0..MaxSaves

JobsTypeOK ==
  /\ work \in {IdleWork} \union PlainWork \union ApplyWork \union EmbedWork
  /\ night \in {IdleNight} \union OpenNight
  /\ fill \in {IdleFill} \union OpenFill

TablesTypeOK ==
  /\ mention \in [Article -> BOOLEAN] /\ mentions \in 0..MaxMentions
  /\ hash \in Rows
  /\ flags \in [Article -> SUBSET Signal]
  /\ shown \in [Article -> SUBSET Text]
  /\ excused \in SUBSET Article

(* The handler works on the entry in hand while the thread handles it.     *)
WorkHasSubject == work # IdleWork => thread = "handling"

IndexInv == DeliveryInv /\ CmsTypeOK /\ JobsTypeOK /\ TablesTypeOK /\ WorkHasSubject

-----------------------------------------------------------------------------
(* Delivery, as the composition moves it.                                  *)

(* An error leaves the pipeline's state alone and is counted.              *)
LEMMA FaultInv ==
  ASSUME DeliveryInv, Fault, UNCHANGED <<stream, delivered, pel, thread, todo, hand, tried>>
  PROVE  DeliveryInv'
<1>1. faults' \in 0..MaxFaults
  BY DeliveryAssumption DEF DeliveryInv, DeliveryTypeOK, Fault
<1> QED BY <1>1 DEF DeliveryInv, DeliveryTypeOK, BatchIsTheUntriedSuffix, AckedWasTried

(* The XADD that is sent again makes the log longer.                       *)
LEMMA AppendInv ==
  ASSUME DeliveryInv, Fault, NEW e \in Event, stream' = Append(stream, e),
         UNCHANGED <<delivered, pel, thread, todo, hand, tried>>
  PROVE  DeliveryInv'
<1>1. faults' \in 0..MaxFaults
  BY DeliveryAssumption DEF DeliveryInv, DeliveryTypeOK, Fault
<1>2. Len(stream') = Len(stream) + 1 /\ stream' \in Seq(Event)
  BY DEF DeliveryInv, DeliveryTypeOK
<1> QED BY <1>1, <1>2 DEF DeliveryInv, DeliveryTypeOK, BatchIsTheUntriedSuffix, AckedWasTried

(* What a decided event says.                                              *)
LEMMA EventTyped ==
  ASSUME CmsTypeOK, NEW s \in Request, req[s].pc \in {"written", "announced"},
         EventOf(s) # NoEvent
  PROVE  [kind |-> EventOf(s), article |-> req[s].article] \in Event
<1>1. req[s] \in OpenRequest
  BY DEF CmsTypeOK, IdleRequest
<1>2. req[s].article \in Article /\ req[s].was \in {"none", "draft", "published"}
      /\ req[s].next.status \in {"draft", "published"} /\ req[s].draft \in BOOLEAN
  BY <1>1 DEF OpenRequest
<1>3. EventOf(s) \in Kinds
  BY <1>2 DEF EventOf, DecideEvent, Kinds, NoEvent
<1> QED BY <1>2, <1>3, IndexAssumption DEF ArticleEvent

(* The entry in hand stays the same while the log grows.                   *)
LEMMA SubjectStays ==
  ASSUME DeliveryInv, thread = "handling", hand' = hand,
         stream' = stream \/ \E e \in Event : stream' = Append(stream, e)
  PROVE  Subject' = Subject /\ Kind' = Kind /\ Subject \in Article /\ Kind \in Kinds
<1>1. hand \in 1..Len(stream) /\ stream \in Seq(Event)
  BY DEF DeliveryInv, DeliveryTypeOK, BatchIsTheUntriedSuffix
<1>2. stream'[hand] = stream[hand] /\ stream[hand] \in Event
  BY <1>1
<1> QED BY <1>2, IndexAssumption DEF Subject, Kind, ArticleEvent

-----------------------------------------------------------------------------
(* Payload's requests, one lemma per group of steps.                       *)

(* What the other steps of the composition leave alone.                    *)
LEMMA RestStays ==
  ASSUME IndexInv
  PROVE  /\ UNCHANGED cmsVars => CmsTypeOK'
         /\ UNCHANGED <<work, night, fill>> => JobsTypeOK'
         /\ UNCHANGED <<mention, mentions, hash, flags, shown, excused>> => TablesTypeOK'
         /\ UNCHANGED deliveryVars => DeliveryInv'
         /\ UNCHANGED <<work, thread>> => WorkHasSubject'
<1>1. UNCHANGED deliveryVars => DeliveryInv'
  BY DEF IndexInv, deliveryVars, DeliveryInv, DeliveryTypeOK, BatchIsTheUntriedSuffix, AckedWasTried
<1>2. UNCHANGED cmsVars => CmsTypeOK'
  BY DEF IndexInv, CmsTypeOK, cmsVars
<1>3. UNCHANGED <<work, night, fill>> => JobsTypeOK'
  BY DEF IndexInv, JobsTypeOK
<1>4. UNCHANGED <<mention, mentions, hash, flags, shown, excused>> => TablesTypeOK'
  BY DEF IndexInv, TablesTypeOK
<1>5. UNCHANGED <<work, thread>> => WorkHasSubject'
  BY DEF IndexInv, WorkHasSubject
<1> QED BY <1>1, <1>2, <1>3, <1>4, <1>5

(* An excuse names articles.                                               *)
LEMMA ExcuseTyped ==
  ASSUME TablesTypeOK, NEW S \in SUBSET Article, Excuse(S),
         UNCHANGED <<mention, mentions, hash, flags>>
  PROVE  TablesTypeOK'
  BY DEF TablesTypeOK, Excuse

(* A request that is not idle is about an article and has its next row.    *)
LEMMA RequestTyped ==
  ASSUME CmsTypeOK, NEW s \in Request, req[s].pc # "idle"
  PROVE  /\ req[s] \in OpenRequest
         /\ req[s].article \in Article /\ req[s].draft \in BOOLEAN
         /\ req[s].was \in {"none", "draft", "published"}
         /\ req[s].next \in [status : {"draft", "published"}, text : Text]
<1>1. req[s] \in OpenRequest
  BY DEF CmsTypeOK, IdleRequest
<1> QED BY <1>1 DEF OpenRequest

(* A request moves on within its type.                                     *)
LEMMA AdvanceTyped ==
  ASSUME CmsTypeOK, NEW s \in Request, req[s].pc # "idle",
         NEW pc \in {"written", "announced"}, Advance(s, pc),
         UNCHANGED <<live, latest, saves>>
  PROVE  CmsTypeOK'
<1>1. [req[s] EXCEPT !.pc = pc] \in OpenRequest
  BY RequestTyped DEF OpenRequest
<1>2. req' = [req EXCEPT ![s] = [req[s] EXCEPT !.pc = pc]]
  BY DEF Advance
<1>3. req' \in [Request -> {IdleRequest} \union OpenRequest]
  BY <1>1, <1>2 DEF CmsTypeOK
<1> QED BY <1>3 DEF CmsTypeOK

(* A request ends.                                                         *)
LEMMA EndTyped ==
  ASSUME CmsTypeOK, NEW s \in Request, req' = [req EXCEPT ![s] = IdleRequest]
  PROVE  req' \in [Request -> {IdleRequest} \union OpenRequest]
  BY DEF CmsTypeOK

(* A save begins with a row in its hand.                                   *)
LEMMA OpenInv ==
  ASSUME IndexInv, NEW s \in Request, NEW a \in Article,
         NEW status \in {"draft", "published"}, NEW t \in Text, NEW draft \in BOOLEAN,
         Open(s, a, [status |-> status, text |-> t], draft)
  PROVE  IndexInv'
<1> DEFINE new == [pc |-> "opened", article |-> a, draft |-> draft,
                   was |-> latest[a], next |-> [status |-> status, text |-> t]]
<1>1. new \in OpenRequest
  BY DEF IndexInv, CmsTypeOK, OpenRequest
<1>2. req' = [req EXCEPT ![s] = new] /\ saves' \in 0..MaxSaves /\ UNCHANGED <<live, latest>>
  BY IndexAssumption DEF Open, IndexInv, CmsTypeOK
<1> HIDE DEF new
<1>3. CmsTypeOK'
  BY <1>1, <1>2 DEF IndexInv, CmsTypeOK
<1>4. UNCHANGED <<mention, mentions, deliveryVars, workerVars, jobVars, history>>
  BY DEF Open
<1> QED BY <1>3, <1>4, RestStays DEF IndexInv, workerVars, jobVars, history, deliveryVars

(* The steps of a request before its commit.                               *)
LEMMA RequestInv ==
  ASSUME IndexInv, NEW s \in Request,
         Write(s) \/ AnnounceLanded(s) \/ AnnounceNothing(s) \/ AnnounceLost(s) \/ AnnounceAgain(s)
  PROVE  IndexInv'
<1>1. CASE Write(s) \/ AnnounceNothing(s)
  <2>1. CmsTypeOK'
    BY <1>1, AdvanceTyped DEF IndexInv, Write, AnnounceNothing
  <2> QED
    BY <1>1, <2>1, RestStays
       DEF IndexInv, Write, AnnounceNothing, workerVars, jobVars, history, deliveryVars
<1>2. CASE AnnounceLanded(s)
  <2>1. CmsTypeOK'
    BY <1>2, AdvanceTyped DEF IndexInv, AnnounceLanded
  <2>2. DeliveryInv'
    BY <1>2, EventTyped, AnnounceInv DEF IndexInv, AnnounceLanded
  <2>3. UNCHANGED thread
    BY <1>2 DEF AnnounceLanded, Announce
  <2> QED
    BY <1>2, <2>1, <2>2, <2>3, RestStays DEF IndexInv, AnnounceLanded, workerVars, jobVars, history
<1>3. CASE AnnounceLost(s)
  <2>1. CmsTypeOK'
    BY <1>3, AdvanceTyped DEF IndexInv, AnnounceLost
  <2>2. DeliveryInv'
    BY <1>3, FaultInv DEF IndexInv, AnnounceLost
  <2>3. TablesTypeOK'
    BY <1>3, RequestTyped, ExcuseTyped DEF IndexInv, AnnounceLost, workerVars
  <2> QED
    BY <1>3, <2>1, <2>2, <2>3, RestStays DEF IndexInv, AnnounceLost, workerVars, jobVars
<1>4. CASE AnnounceAgain(s)
  <2>1. DeliveryInv'
    BY <1>4, EventTyped, AppendInv DEF IndexInv, AnnounceAgain
  <2> QED
    BY <1>4, <2>1, RestStays DEF IndexInv, AnnounceAgain, workerVars, jobVars, history
<1> QED BY <1>1, <1>2, <1>3, <1>4

(* The row and the version a commit makes visible are the request's.       *)
LEMMA CommitInv ==
  ASSUME IndexInv, NEW s \in Request, Commit(s)
  PROVE  IndexInv'
<1> DEFINE a == req[s].article
           next == req[s].next
<1>1. /\ a \in Article
      /\ next \in Row /\ next.text \in Text /\ next.status \in {"draft", "published"}
  BY RequestTyped DEF IndexInv, Commit, Row
<1>2. /\ latest' = [latest EXCEPT ![a] = next.status]
      /\ live' = live \/ live' = [live EXCEPT ![a] = next]
      /\ shown' = shown \/ shown' = [shown EXCEPT ![a] = @ \union {next.text}]
      /\ excused' = excused \/ excused' = excused \union {a}
      /\ req' = [req EXCEPT ![s] = IdleRequest]
      /\ UNCHANGED <<saves, mention, mentions, deliveryVars, workerVars, jobVars>>
  BY DEF Commit
<1> HIDE DEF a, next
<1>3. req' \in [Request -> {IdleRequest} \union OpenRequest]
  BY <1>2, EndTyped DEF IndexInv
<1>4. live' \in [Article -> Row]
      /\ \A b \in Article : live'[b].status # "none" => live'[b].text \in Text
  BY <1>1, <1>2 DEF IndexInv, CmsTypeOK
<1>5. CmsTypeOK'
  BY <1>1, <1>2, <1>3, <1>4 DEF IndexInv, CmsTypeOK
<1>6. shown' \in [Article -> SUBSET Text]
  BY <1>1, <1>2 DEF IndexInv, TablesTypeOK
<1>7. TablesTypeOK'
  BY <1>1, <1>2, <1>6 DEF IndexInv, TablesTypeOK, workerVars
<1> QED
  BY <1>2, <1>5, <1>7, RestStays DEF IndexInv, workerVars, jobVars, deliveryVars

(* A transaction that rolls back leaves the row as it was.                 *)
LEMMA RollbackInv ==
  ASSUME IndexInv, NEW s \in Request, Rollback(s)
  PROVE  IndexInv'
<1>1. req' \in [Request -> {IdleRequest} \union OpenRequest]
  BY EndTyped DEF IndexInv, Rollback
<1>2. CmsTypeOK'
  BY <1>1 DEF IndexInv, CmsTypeOK, Rollback
<1>3. req[s].article \in Article
  BY RequestTyped DEF IndexInv, Rollback, Active
<1>4. TablesTypeOK'
  BY <1>3, ExcuseTyped DEF IndexInv, Rollback, workerVars
<1>5. DeliveryInv'
  BY FaultInv DEF IndexInv, Rollback
<1> QED BY <1>2, <1>4, <1>5, RestStays DEF IndexInv, Rollback, workerVars, jobVars

(* The extraction of places touches the mentions alone.                    *)
LEMMA MentionsInv ==
  ASSUME IndexInv, NEW a \in Article, MentionsChange(a)
  PROVE  IndexInv'
<1>1. mention' \in [Article -> BOOLEAN] /\ mentions' \in 0..MaxMentions
  BY IndexAssumption DEF IndexInv, TablesTypeOK, MentionsChange
<1>2. TablesTypeOK'
  BY <1>1 DEF IndexInv, TablesTypeOK, MentionsChange, Excuse, workerVars
<1> QED BY <1>2, RestStays DEF IndexInv, MentionsChange, workerVars, jobVars, deliveryVars
-----------------------------------------------------------------------------
(* The consumer and its handler.                                           *)

(* The handler's record, by the place it is at.                            *)
LEMMA WorkTyped ==
  ASSUME JobsTypeOK
  PROVE  /\ work.pc = "apply" => work.want \in SUBSET Signal
         /\ work.pc \in {"hashes", "upsert"} => work \in EmbedWork /\ work.text \in Text
         /\ work.pc # "idle" => work # IdleWork
<1>1. work \in {IdleWork} \union PlainWork \union ApplyWork \union EmbedWork
  BY DEF JobsTypeOK
<1>2. CASE work = IdleWork
  BY <1>2 DEF IdleWork
<1>3. CASE work \in PlainWork
  BY <1>3 DEF PlainWork, IdleWork
<1>4. CASE work \in ApplyWork
  BY <1>4 DEF ApplyWork, IdleWork
<1>5. CASE work \in EmbedWork
  BY <1>5 DEF EmbedWork, IdleWork
<1> QED BY <1>1, <1>2, <1>3, <1>4, <1>5

(* The forms a handler's record takes.                                     *)
LEMMA WorkForms ==
  /\ \A pc \in {"flags", "fetch", "done"} : [pc |-> pc] \in PlainWork
  /\ \A want \in SUBSET Signal : [pc |-> "apply", want |-> want] \in ApplyWork
  /\ \A t \in Text : [pc |-> "hashes", text |-> t] \in EmbedWork
  /\ \A w \in EmbedWork : [w EXCEPT !.pc = "upsert"] \in EmbedWork
  BY DEF PlainWork, ApplyWork, EmbedWork

(* A busy handler has an entry in hand.                                    *)
LEMMA SubjectTyped ==
  ASSUME IndexInv, work.pc # "idle"
  PROVE  thread = "handling" /\ hand \in 1..Len(stream) /\ Subject \in Article /\ Kind \in Kinds
<1>1. thread = "handling"
  BY WorkTyped DEF IndexInv, WorkHasSubject
<1>2. hand \in 1..Len(stream) /\ stream \in Seq(Event)
  BY <1>1 DEF IndexInv, DeliveryInv, DeliveryTypeOK, BatchIsTheUntriedSuffix
<1>3. stream[hand] \in Event
  BY <1>2
<1> QED BY <1>1, <1>2, <1>3, IndexAssumption DEF Subject, Kind, ArticleEvent

(* A step of the handler that moves neither the thread nor the jobs.       *)
LEMMA HandlerFrame ==
  ASSUME IndexInv, work.pc # "idle",
         work' \in {IdleWork} \union PlainWork \union ApplyWork \union EmbedWork,
         UNCHANGED <<cmsVars, mention, mentions, jobVars, stream, delivered, pel, thread, todo,
                     hand, tried>>,
         UNCHANGED faults \/ Fault,
         hash' \in Rows, flags' \in [Article -> SUBSET Signal],
         UNCHANGED history \/ \E S \in SUBSET Article : Excuse(S)
  PROVE  IndexInv'
<1>1. DeliveryInv'
  BY FaultInv, RestStays DEF IndexInv, deliveryVars
<1>2. JobsTypeOK'
  BY DEF IndexInv, JobsTypeOK, jobVars
<1>3. TablesTypeOK'
  BY DEF IndexInv, TablesTypeOK, Excuse, history
<1>4. WorkHasSubject'
  BY SubjectTyped DEF WorkHasSubject
<1> QED BY <1>1, <1>2, <1>3, <1>4, RestStays DEF IndexInv

(* handle_payload, and its way out through run_once.                       *)
LEMMA HandlerInv ==
  ASSUME IndexInv, HandlerStep
  PROVE  IndexInv'
<1>0. hash \in Rows /\ flags \in [Article -> SUBSET Signal]
  BY DEF IndexInv, TablesTypeOK
<1>1. ASSUME NEW i \in todo, Begin(i) PROVE IndexInv'
  <2>1. DeliveryInv' /\ thread' = "handling"
    BY <1>1, TakeInv DEF IndexInv, Begin, Take
  <2>2. work' \in PlainWork
    BY <1>1, WorkForms DEF Begin, Goto
  <2>3. JobsTypeOK'
    BY <1>1, <2>2 DEF IndexInv, JobsTypeOK, Begin, Goto, jobVars
  <2> QED
    BY <1>1, <2>1, <2>3, RestStays DEF IndexInv, Begin, Goto, history, WorkHasSubject
<1>2. CASE FlagsRemove
  <2>1. work.pc # "idle" /\ work' \in PlainWork /\ UNCHANGED <<deliveryVars, hash, history>>
        /\ UNCHANGED <<cmsVars, mention, mentions, jobVars>>
    BY <1>2, WorkForms DEF FlagsRemove, Goto
  <2>2. flags' \in [Article -> SUBSET Signal]
    BY <1>0, <1>2 DEF FlagsRemove
  <2> QED BY <1>0, <2>1, <2>2, HandlerFrame DEF deliveryVars
<1>3. CASE FlagsRead
  <2>1. work.pc # "idle" /\ UNCHANGED <<deliveryVars, hash, flags>>
        /\ UNCHANGED <<cmsVars, mention, mentions, jobVars>>
    BY <1>3 DEF FlagsRead, Goto
  <2>2. work' \in ApplyWork
    BY <1>3, WorkForms DEF FlagsRead, Goto, Wanted
  <2>3. \E S \in SUBSET Article : Excuse(S)
    BY <1>3, <2>1, SubjectTyped DEF FlagsRead
  <2> QED BY <1>0, <2>1, <2>2, <2>3, HandlerFrame DEF deliveryVars
<1>4. CASE FlagsApply
  <2>1. work.pc # "idle" /\ work' \in PlainWork /\ UNCHANGED <<deliveryVars, hash, history>>
        /\ UNCHANGED <<cmsVars, mention, mentions, jobVars>>
    BY <1>4, WorkForms DEF FlagsApply, Goto
  <2>2. work.want \in SUBSET Signal
    BY <1>4, WorkTyped DEF FlagsApply, IndexInv
  <2>3. flags' \in [Article -> SUBSET Signal]
    BY <1>0, <1>4, <2>2 DEF FlagsApply
  <2> QED BY <1>0, <2>1, <2>3, HandlerFrame DEF deliveryVars
<1>5. CASE FlagsError \/ HandlerError
  <2>1. work.pc # "idle" /\ Fault /\ Excuse({Subject}) /\ UNCHANGED <<hash, flags>>
        /\ UNCHANGED <<stream, delivered, pel, thread, todo, hand, tried>>
        /\ UNCHANGED <<cmsVars, mention, mentions, jobVars>>
    BY <1>5 DEF FlagsError, HandlerError, FaultOnly, Goto
  <2>2. work' \in PlainWork
    BY <1>5, WorkForms DEF FlagsError, HandlerError, Goto
  <2> QED BY <1>0, <2>1, <2>2, SubjectTyped, HandlerFrame
<1>6. CASE FetchOne
  <2>1. work.pc # "idle" /\ UNCHANGED <<deliveryVars, hash, flags>>
        /\ UNCHANGED <<cmsVars, mention, mentions, jobVars>>
    BY <1>6 DEF FetchOne, Goto
  <2>2. Embeddable => live[Subject].text \in Text
    BY <2>1, SubjectTyped DEF IndexInv, CmsTypeOK, Embeddable, Published
  <2>3. work' \in PlainWork \union EmbedWork
    BY <1>6, <2>2, WorkForms DEF FetchOne, Goto
  <2>4. \E S \in SUBSET Article : Excuse(S)
    BY <1>6, <2>1, SubjectTyped DEF FetchOne
  <2> QED BY <1>0, <2>1, <2>3, <2>4, HandlerFrame DEF deliveryVars
<1>7. CASE ReadHashes
  <2>1. work.pc # "idle" /\ UNCHANGED <<deliveryVars, hash, flags, history>>
        /\ UNCHANGED <<cmsVars, mention, mentions, jobVars>>
    BY <1>7 DEF ReadHashes, Goto
  <2>2. work \in EmbedWork
    BY <1>7, WorkTyped DEF ReadHashes, IndexInv
  <2>3. work' \in PlainWork \union EmbedWork
    BY <1>7, <2>2, WorkForms DEF ReadHashes, Goto
  <2> QED BY <1>0, <2>1, <2>3, HandlerFrame DEF deliveryVars
<1>8. CASE Upsert
  <2>1. work.pc # "idle" /\ work' \in PlainWork /\ UNCHANGED <<deliveryVars, flags, history>>
        /\ UNCHANGED <<cmsVars, mention, mentions, jobVars>>
    BY <1>8, WorkForms DEF Upsert, Goto
  <2>2. work.text \in Text
    BY <1>8, WorkTyped DEF Upsert, IndexInv
  <2>3. hash' \in Rows
    BY <1>0, <1>8, <2>2 DEF Upsert, Rows
  <2> QED BY <1>0, <2>1, <2>3, HandlerFrame DEF deliveryVars
<1>9. CASE Finish
  <2>1. DeliveryInv'
    BY <1>9, ThreadOnlyInv DEF IndexInv, Finish
  <2>2. JobsTypeOK' /\ WorkHasSubject'
    BY <1>9 DEF IndexInv, JobsTypeOK, Finish, Goto, jobVars, WorkHasSubject
  <2> QED
    BY <1>9, <2>1, <2>2, RestStays DEF IndexInv, Finish, Goto, history
<1> QED
  BY <1>1, <1>2, <1>3, <1>4, <1>5, <1>6, <1>7, <1>8, <1>9 DEF HandlerStep

(* Reading, acknowledging and starting leave the handler idle.             *)
LEMMA ConsumeInv ==
  ASSUME IndexInv, Consume
  PROVE  IndexInv'
<1>1. DeliveryInv'
  BY ReadInv, AckInv, ThreadOnlyInv, DeliveryAssumption DEF IndexInv, Consume
<1>2. work = IdleWork
  BY DEF IndexInv, WorkHasSubject, Consume, Read, HandOut, Ack, Start
<1>3. WorkHasSubject'
  BY <1>2 DEF WorkHasSubject, Consume, workerVars
<1> QED
  BY <1>1, <1>3, RestStays DEF IndexInv, Consume, workerVars, jobVars, history

(* The articles of a batch.                                                *)
LEMMA SubjectsTyped ==
  ASSUME DeliveryInv, NEW ids \in SUBSET (1..Len(stream))
  PROVE  Subjects(ids) \in SUBSET Article
<1>1. stream \in Seq(Event)
  BY DEF DeliveryInv, DeliveryTypeOK
<1>2. \A i \in ids : stream[i] \in Event
  BY <1>1
<1> QED BY <1>2, IndexAssumption DEF Subjects, ArticleEvent

(* A consumer that goes down excuses the articles of its batch.            *)
LEMMA ConsumerDownInv ==
  ASSUME IndexInv, ConsumerDown
  PROVE  IndexInv'
<1>1. DeliveryInv'
  BY DropInv, ReadReplyLostInv, DeliveryAssumption DEF IndexInv, ConsumerDown
<1>2. work' = IdleWork /\ UNCHANGED <<cmsVars, mention, mentions, jobVars, hash, flags>>
  BY DEF ConsumerDown, Goto
<1>3. JobsTypeOK' /\ WorkHasSubject'
  BY <1>2 DEF IndexInv, JobsTypeOK, jobVars, WorkHasSubject
<1>4. \E S \in SUBSET Article : Excuse(S)
  <2>1. CASE Stop \/ RedisError
    <3> DEFINE ids == todo \union (IF thread = "handling" THEN {hand} ELSE {})
    <3>1. ids \in SUBSET (1..Len(stream))
      BY DEF IndexInv, DeliveryInv, DeliveryTypeOK, BatchIsTheUntriedSuffix
    <3>2. Excuse(Subjects(ids)) \/ \E last \in 1..MaxStream : ReadReplyLost(last)
      BY <2>1 DEF ConsumerDown
    <3>3. ~ \E last \in 1..MaxStream : ReadReplyLost(last)
      BY <2>1 DEF ReadReplyLost, HandOut, Stop, RedisError, IndexInv, DeliveryInv, DeliveryTypeOK
    <3> QED BY <3>1, <3>2, <3>3, SubjectsTyped DEF IndexInv
  <2>2. ASSUME NEW last \in 1..MaxStream, ReadReplyLost(last),
               Excuse(Subjects((delivered + 1)..last))
        PROVE  \E S \in SUBSET Article : Excuse(S)
    <3>1. (delivered + 1)..last \in SUBSET (1..Len(stream))
      BY <2>2 DEF ReadReplyLost, HandOut, IndexInv, DeliveryInv, DeliveryTypeOK
    <3> QED BY <2>2, <3>1, SubjectsTyped DEF IndexInv
  <2> QED BY <2>1, <2>2 DEF ConsumerDown
<1>5. TablesTypeOK'
  BY <1>2, <1>4, ExcuseTyped DEF IndexInv
<1> QED BY <1>1, <1>2, <1>3, <1>5, RestStays DEF IndexInv

-----------------------------------------------------------------------------
(* The jobs beside the consumer.                                           *)

(* The nightly recompute.                                                  *)
LEMMA NightInv ==
  ASSUME IndexInv, NightStep
  PROVE  IndexInv'
<1>1. CASE NightRead
  <2>1. night' \in OpenNight
    BY <1>1 DEF NightRead, OpenNight, Wanted
  <2>2. JobsTypeOK'
    BY <1>1, <2>1 DEF IndexInv, JobsTypeOK, NightRead, workerVars
  <2> QED BY <1>1, <2>2, RestStays DEF IndexInv, NightRead, workerVars, history, deliveryVars
<1>2. CASE NightApply
  <2>1. night \in OpenNight
    BY <1>2 DEF IndexInv, JobsTypeOK, IdleNight, NightApply
  <2>2. TablesTypeOK'
    BY <1>2, <2>1 DEF IndexInv, TablesTypeOK, NightApply, Excuse, OpenNight
  <2>3. JobsTypeOK'
    BY <1>2 DEF IndexInv, JobsTypeOK, NightApply
  <2> QED BY <1>2, <2>2, <2>3, RestStays DEF IndexInv, NightApply, deliveryVars
<1>3. CASE NightError
  <2>1. DeliveryInv'
    BY <1>3, FaultInv DEF IndexInv, NightError, FaultOnly
  <2>2. JobsTypeOK'
    BY <1>3 DEF IndexInv, JobsTypeOK, NightError, workerVars
  <2> QED
    BY <1>3, <2>1, <2>2, RestStays DEF IndexInv, NightError, FaultOnly, workerVars, history
<1> QED BY <1>1, <1>2, <1>3 DEF NightStep

(* The backfill.                                                           *)
LEMMA FillInv ==
  ASSUME IndexInv, FillStep
  PROVE  IndexInv'
<1> USE DEF FillRest
<1>1. UNCHANGED <<cmsVars, mention, mentions, deliveryVars, flags, work, night>>
  BY DEF FillStep, FillFetch, FillDiff, FillPrune, FillKill, FillEmbed, FillBatchError
<1>2. fill.pc # "idle" => fill \in OpenFill
  BY DEF IndexInv, JobsTypeOK, IdleFill
<1>3. hash \in Rows
  BY DEF IndexInv, TablesTypeOK
<1>4. fill' \in {IdleFill} \union OpenFill
  <2>1. CASE FillFetch
    <3>1. [a \in Article |-> IF Published(a) THEN live[a].text ELSE NoText] \in Rows
      BY DEF Published, IndexInv, CmsTypeOK, Rows
    <3> QED BY <2>1, <3>1 DEF FillFetch, OpenFill
  <2>2. CASE FillDiff
    BY <1>2, <2>2 DEF FillDiff, OpenFill, Fetched
  <2>3. CASE FillPrune \/ FillKill
    BY <2>3 DEF FillPrune, FillKill
  <2>4. ASSUME NEW a \in Article, FillEmbed(a) \/ FillBatchError(a)
        PROVE  fill' \in OpenFill
    BY <1>2, <2>4 DEF FillEmbed, FillBatchError, OpenFill
  <2> QED BY <2>1, <2>2, <2>3, <2>4 DEF FillStep
<1>5. hash' \in Rows
  <2>1. CASE FillFetch \/ FillDiff \/ FillKill
    BY <1>3, <2>1 DEF FillFetch, FillDiff, FillKill
  <2>2. CASE FillPrune
    BY <1>3, <2>2 DEF FillPrune, Rows
  <2>3. ASSUME NEW a \in Article, FillEmbed(a) \/ FillBatchError(a)
        PROVE  hash' \in Rows
    BY <1>2, <1>3, <2>3 DEF FillEmbed, FillBatchError, OpenFill, Rows
  <2> QED BY <2>1, <2>2, <2>3 DEF FillStep
<1>6. UNCHANGED history \/ \E S \in SUBSET Article : Excuse(S)
  <2>1. CASE FillFetch \/ FillDiff \/ FillKill
    BY <2>1 DEF FillFetch, FillDiff, FillKill
  <2>2. CASE FillPrune
    <3>1. (IF Fetched = {} THEN {} ELSE {a \in Article \ Fetched : Published(a)}) \in SUBSET Article
      OBVIOUS
    <3> QED BY <2>2, <3>1 DEF FillPrune
  <2>3. ASSUME NEW a \in Article, FillEmbed(a) \/ FillBatchError(a)
        PROVE  UNCHANGED history \/ \E S \in SUBSET Article : Excuse(S)
    BY <2>3 DEF FillEmbed, FillBatchError
  <2> QED BY <2>1, <2>2, <2>3 DEF FillStep
<1>7. JobsTypeOK'
  BY <1>1, <1>4 DEF IndexInv, JobsTypeOK
<1>8. TablesTypeOK'
  BY <1>1, <1>5, <1>6 DEF IndexInv, TablesTypeOK, Excuse, history
<1> QED BY <1>1, <1>7, <1>8, RestStays DEF IndexInv, deliveryVars

-----------------------------------------------------------------------------
(* Nothing is in flight when the system starts.                            *)
LEMMA IndexInit == Init => IndexInv
<1> SUFFICES ASSUME Init PROVE IndexInv
  OBVIOUS
<1>1. DeliveryInv
  BY InitInv DEF Init
<1>2. \A a \in Article : live[a] \in Row /\ (live[a].status # "none" => live[a].text \in Text)
  BY DEF Init, Row, NoRow
<1>3. CmsTypeOK
  BY <1>2, IndexAssumption DEF Init, CmsTypeOK, Row
<1>4. JobsTypeOK /\ TablesTypeOK /\ WorkHasSubject
  BY IndexAssumption DEF Init, JobsTypeOK, TablesTypeOK, WorkHasSubject, Rows
<1> QED BY <1>1, <1>3, <1>4 DEF IndexInv

(* Every step keeps the types and the consumer's invariant.                *)
LEMMA IndexNext == IndexInv /\ [Next]_vars => IndexInv'
<1> SUFFICES ASSUME IndexInv, [Next]_vars PROVE IndexInv'
  OBVIOUS
<1>1. CASE UNCHANGED vars
  BY <1>1, RestStays
     DEF vars, IndexInv, cmsVars, deliveryVars, workerVars, jobVars, history
<1>2. CASE Next
  BY <1>2, OpenInv, RequestInv, CommitInv, RollbackInv, MentionsInv, HandlerInv, ConsumeInv,
     ConsumerDownInv, NightInv, FillInv DEF Next, RequestStep
<1> QED BY <1>1, <1>2

(* The inductive invariant of the composition: the consumer's, the types,  *)
(* and that a busy handler has an entry in hand.                           *)
THEOREM IndexInvariant == Spec => []IndexInv
  BY IndexInit, IndexNext, PTL DEF Spec

(* Type correctness of the composition, for every number of articles, of   *)
(* requests in flight, of saves and of failures.                           *)
THEOREM IndexTypeCorrect == Spec => []TypeOK
<1>1. IndexInv => TypeOK
  <2> SUFFICES ASSUME IndexInv PROVE TypeOK
    OBVIOUS
  <2>1. req \in [Request -> {IdleRequest} \union
        [pc : {"opened", "written", "announced"}, article : Article,
         draft : BOOLEAN, was : {"none", "draft", "published"}, next : Row]]
    <3>1. OpenRequest \subseteq [pc : {"opened", "written", "announced"}, article : Article,
            draft : BOOLEAN, was : {"none", "draft", "published"}, next : Row]
      BY DEF OpenRequest, Row
    <3> QED BY <3>1 DEF IndexInv, CmsTypeOK
  <2> QED
    BY <2>1 DEF TypeOK, IndexInv, DeliveryInv, CmsTypeOK, JobsTypeOK, TablesTypeOK, PlainWork,
       ApplyWork, EmbedWork, OpenNight, OpenFill, Rows
<1> QED BY <1>1, IndexInvariant, PTL
-----------------------------------------------------------------------------
(* No draft text is ever embedded.                                         *)

(* Every text on its way into the kNN table was on the site: the one the   *)
(* handler has read, and those of the backfill's first query.              *)
LiveInv ==
  /\ \A a \in Article : Published(a) => live[a].text \in shown[a]
  /\ work.pc \in {"hashes", "upsert"} => work.text \in shown[Subject]
  /\ fill.pc # "idle" => \A a \in Article : fill.rows[a] \in shown[a] \union {NoText}
  /\ EmbeddedWasLive

(* The entry a busy handler has in hand is the same after any step that    *)
(* leaves the handler's record alone.                                      *)
LEMMA SubjectKept ==
  ASSUME IndexInv, work.pc # "idle", hand' = hand,
         UNCHANGED stream \/ \E e \in Event : stream' = Append(stream, e)
  PROVE  Subject' = Subject /\ Kind' = Kind /\ Subject \in Article
<1>1. thread = "handling"
  BY SubjectTyped
<1> QED BY <1>1, SubjectStays DEF IndexInv

(* What is shown stays shown: only a commit touches the history.           *)
LEMMA LiveRest ==
  ASSUME IndexInv, LiveInv, UNCHANGED <<live, hash, fill, shown>>,
         work' = work, work.pc # "idle" => UNCHANGED <<Subject>>
  PROVE  LiveInv'
  BY DEF LiveInv, Published, EmbeddedWasLive

(* The steps that touch neither the tables nor the site.                   *)
LEMMA LiveRequest ==
  ASSUME IndexInv, LiveInv,
         \/ \E s \in Request, a \in Article, status \in {"draft", "published"}, t \in Text,
               draft \in BOOLEAN : Open(s, a, [status |-> status, text |-> t], draft)
         \/ \E s \in Request : Write(s) \/ AnnounceLanded(s) \/ AnnounceNothing(s)
                                \/ AnnounceLost(s) \/ AnnounceAgain(s) \/ Rollback(s)
         \/ \E a \in Article : MentionsChange(a)
         \/ NightStep
  PROVE  LiveInv'
<1>1. /\ UNCHANGED <<live, hash, work, fill, shown>>
      /\ hand' = hand /\ (UNCHANGED stream \/ \E e \in Event : stream' = Append(stream, e))
  <2>1. ASSUME NEW s \in Request, AnnounceLanded(s) \/ AnnounceAgain(s)
        PROVE  hand' = hand /\ \E e \in Event : stream' = Append(stream, e)
    <3>1. [kind |-> EventOf(s), article |-> req[s].article] \in Event
      BY <2>1, EventTyped DEF AnnounceLanded, AnnounceAgain, IndexInv
    <3> QED BY <2>1, <3>1 DEF AnnounceLanded, AnnounceAgain, Announce
  <2> QED
    BY <2>1 DEF Open, Write, AnnounceLanded, AnnounceNothing, AnnounceLost, AnnounceAgain, Rollback,
       MentionsChange, NightStep, NightRead, NightApply, NightError, Excuse, FaultOnly, history,
       cmsVars, workerVars, jobVars, deliveryVars
<1> QED BY <1>1, SubjectKept, LiveRest

(* A commit shows the text it makes live.                                  *)
LEMMA LiveCommit ==
  ASSUME IndexInv, LiveInv, NEW s \in Request, Commit(s)
  PROVE  LiveInv'
<1>1. UNCHANGED <<hash, work, fill, stream, hand>>
  BY DEF Commit, workerVars, jobVars, deliveryVars
<1> DEFINE a == req[s].article
           next == req[s].next
<1>2. a \in Article
  BY RequestTyped DEF IndexInv, Commit
<1>3. /\ live' = live \/ live' = [live EXCEPT ![a] = next]
      /\ shown' = IF next.status = "published"
                  THEN [shown EXCEPT ![a] = @ \union {next.text}] ELSE shown
  BY DEF Commit
<1> HIDE DEF a, next
<1>4. /\ \A b \in Article : shown[b] \subseteq shown'[b]
      /\ next.status = "published" => next.text \in shown'[a]
  BY <1>2, <1>3 DEF IndexInv, TablesTypeOK
<1>5. \A b \in Article : Published(b)' => live'[b].text \in shown'[b]
  BY <1>2, <1>3, <1>4 DEF LiveInv, Published, IndexInv, CmsTypeOK
<1>6. Subject' = Subject /\ (work.pc # "idle" => Subject \in Article)
  BY <1>1, SubjectTyped DEF Subject
<1> QED BY <1>1, <1>4, <1>5, <1>6 DEF LiveInv, EmbeddedWasLive

(* The consumer embeds what it read from a published row.                  *)
LEMMA LiveConsumer ==
  ASSUME IndexInv, LiveInv, HandlerStep \/ Consume \/ ConsumerDown
  PROVE  LiveInv'
<1>1. UNCHANGED <<live, fill, shown>>
  BY DEF HandlerStep, Begin, FlagsRemove, FlagsRead, FlagsApply, FlagsError, FetchOne, ReadHashes,
     Upsert, HandlerError, Finish, Consume, ConsumerDown, Goto, Excuse, history, cmsVars, jobVars
<1>2. ASSUME work'.pc \notin {"hashes", "upsert"}, UNCHANGED hash
      PROVE  LiveInv'
    BY <1>1, <1>2 DEF LiveInv, Published, EmbeddedWasLive
<1>3. CASE FetchOne
  <2>1. Subject' = Subject /\ Subject \in Article /\ UNCHANGED hash
    BY <1>3, SubjectTyped DEF FetchOne, Subject, deliveryVars
  <2>2. CASE Embeddable
    <3>1. work' = [pc |-> "hashes", text |-> live[Subject].text] /\ Published(Subject)
      BY <1>3, <2>2 DEF FetchOne, Goto, Embeddable
    <3> QED BY <1>1, <2>1, <3>1 DEF LiveInv, Published, EmbeddedWasLive
  <2>3. CASE ~Embeddable
    <3>1. work' = [pc |-> "done"]
      BY <1>3, <2>3 DEF FetchOne, Goto
    <3> QED BY <1>1, <2>1, <3>1 DEF LiveInv, Published, EmbeddedWasLive
  <2> QED BY <2>2, <2>3
<1>4. CASE ReadHashes
  <2>1. Subject' = Subject /\ UNCHANGED hash
    BY <1>4 DEF ReadHashes, Subject, deliveryVars
  <2>2. work \in EmbedWork
    BY <1>4, WorkTyped DEF ReadHashes, IndexInv
  <2>3. work'.pc = "done" \/ (work' = [work EXCEPT !.pc = "upsert"] /\ work'.text = work.text)
    BY <1>4, <2>2 DEF ReadHashes, Goto, EmbedWork
  <2> QED BY <1>1, <1>4, <2>1, <2>3 DEF LiveInv, Published, EmbeddedWasLive, ReadHashes
<1>5. CASE Upsert
  <2>1. work.text \in shown[Subject] /\ work'.pc = "done"
    BY <1>5 DEF LiveInv, Upsert, Goto
  <2>2. hash' = [hash EXCEPT ![Subject] = work.text]
    BY <1>5 DEF Upsert
  <2>3. \A a \in Article : hash'[a] = hash[a] \/ (a = Subject /\ hash'[a] = work.text)
    BY <2>2 DEF IndexInv, TablesTypeOK, Rows
  <2> QED BY <1>1, <2>1, <2>3 DEF LiveInv, Published, EmbeddedWasLive
<1>6. CASE Consume
  BY <1>1, <1>6, LiveRest DEF IndexInv, WorkHasSubject, Consume, Read, HandOut, Ack, Start, workerVars,
     IdleWork
<1>7. CASE ConsumerDown
  BY <1>2, <1>7 DEF ConsumerDown, Goto, IdleWork
<1>8. CASE (\E i \in todo : Begin(i)) \/ FlagsRemove \/ FlagsRead \/ FlagsApply \/ FlagsError
           \/ HandlerError \/ Finish
  BY <1>2, <1>8 DEF Begin, FlagsRemove, FlagsRead, FlagsApply, FlagsError, HandlerError, Finish, Goto,
     IdleWork
<1> QED BY <1>3, <1>4, <1>5, <1>6, <1>7, <1>8 DEF HandlerStep

(* The backfill embeds what it read from published rows.                   *)
LEMMA LiveFill ==
  ASSUME IndexInv, LiveInv, FillStep
  PROVE  LiveInv'
<1>1. UNCHANGED <<live, work, shown, stream, hand>>
  BY DEF FillStep, FillFetch, FillDiff, FillEmbed, FillBatchError, FillPrune, FillKill, FillRest,
     Excuse, history, cmsVars, deliveryVars
<1>2. Subject' = Subject
  BY <1>1 DEF Subject
<1>3. CASE FillFetch
  BY <1>1, <1>2, <1>3 DEF LiveInv, FillFetch, EmbeddedWasLive, Published
<1>4. fill.pc = "diff" \/ fill.pc = "embed" => fill \in OpenFill
  BY DEF IndexInv, JobsTypeOK, IdleFill
<1>5. CASE FillDiff
  <2>1. fill'.rows = fill.rows /\ UNCHANGED hash
    BY <1>4, <1>5 DEF FillDiff, OpenFill
  <2> QED BY <1>1, <1>2, <1>5, <2>1 DEF LiveInv, FillDiff, EmbeddedWasLive, Published
<1>6. ASSUME NEW a \in Article, FillEmbed(a) \/ FillBatchError(a)
      PROVE  LiveInv'
  <2>1. fill'.rows = fill.rows /\ fill.rows[a] \in shown[a] \union {NoText}
    BY <1>4, <1>6 DEF FillEmbed, FillBatchError, OpenFill, LiveInv
  <2>2. hash' = [hash EXCEPT ![a] = fill.rows[a]] \/ hash' = hash
    BY <1>6 DEF FillEmbed, FillBatchError
  <2>3. EmbeddedWasLive'
    BY <1>1, <2>1, <2>2 DEF LiveInv, EmbeddedWasLive, IndexInv, TablesTypeOK, Rows
  <2> QED BY <1>1, <1>2, <1>6, <2>1, <2>3 DEF LiveInv, FillEmbed, FillBatchError, Published
<1>7. CASE FillPrune \/ FillKill
  <2>1. \A a \in Article : hash'[a] \in {hash[a], NoText}
    BY <1>7 DEF FillPrune, FillKill
  <2>2. fill' = IdleFill
    BY <1>7 DEF FillPrune, FillKill
  <2> QED BY <1>1, <1>2, <2>1, <2>2 DEF LiveInv, EmbeddedWasLive, Published, IdleFill
<1> QED BY <1>3, <1>5, <1>6, <1>7 DEF FillStep

(* The kNN table holds only text that was on the site, whatever saves,     *)
(* rollbacks, restarts, lost messages and backfills cross.                 *)
THEOREM OnlyLiveTextIsEmbedded == Spec => []EmbeddedWasLive
<1>1. Init => LiveInv
  BY DEF Init, LiveInv, Published, EmbeddedWasLive, IdleWork, IdleFill, NoRow
<1>2. IndexInv /\ LiveInv /\ [Next]_vars => LiveInv'
  <2> SUFFICES ASSUME IndexInv, LiveInv, [Next]_vars PROVE LiveInv'
    OBVIOUS
  <2>1. CASE UNCHANGED vars
    BY <2>1, LiveRest DEF vars, cmsVars, workerVars, jobVars, history, deliveryVars, Subject
  <2>2. CASE Next
    BY <2>2, LiveRequest, LiveCommit, LiveConsumer, LiveFill DEF Next, RequestStep
  <2> QED BY <2>1, <2>2
<1>3. LiveInv => EmbeddedWasLive
  BY DEF LiveInv
<1> QED BY <1>1, <1>2, <1>3, IndexInvariant, PTL DEF Spec

-----------------------------------------------------------------------------
(* Why an article at rest is indexed.  Of an article nobody has excused:   *)
(* its newest entry on the way tells what it is going to be, and until     *)
(* that entry is handled nothing is asked of the tables; from then on what *)
(* the handler holds, and afterwards what is stored, is what the committed *)
(* rows say.                                                               *)

(* Entries about an article the handler has still to take.                 *)
Coming(a) ==
  {i \in 1..Len(stream) : (i \in todo \/ i > delivered) /\ stream[i].article = a}

(* An announced write that is not yet committed decides an article's fate. *)
Promised(s, a) == req[s].pc = "announced" /\ req[s].article = a /\ EventOf(s) # NoEvent
Promise(a) == \E s \in Request : Promised(s, a)
WillShow(a) == \E s \in Request : Promised(s, a) /\ EventOf(s) # "article.unpublished"
FatePublished(a) == IF Promise(a) THEN WillShow(a) ELSE Published(a)

Busy == {"flags", "apply", "fetch", "hashes", "upsert"}
InHand(a, pcs) == work.pc \in pcs /\ Subject = a
TellsFate(kind, a) == kind # "article.unpublished" <=> FatePublished(a)
GoodFlags(a, S) == IF FatePublished(a) THEN S = Wanted(a) ELSE "nightly" \in Jobs \/ S = {}

NewestTells(a) ==
  \A i \in Coming(a) : (\A j \in Coming(a) : j <= i) => TellsFate(stream[i].kind, a)

FlagsOnTheWay(a) ==
  \/ Coming(a) # {}
  \/ InHand(a, {"flags"}) /\ TellsFate(Kind, a)
  \/ ~WillShow(a) /\ InHand(a, {"apply"}) /\ GoodFlags(a, work.want)
  \/ ~WillShow(a) /\ ~InHand(a, {"flags", "apply"}) /\ GoodFlags(a, flags[a])

HashOnTheWay(a) ==
  FatePublished(a) =>
    \/ Coming(a) # {}
    \/ InHand(a, {"flags", "apply", "fetch"}) /\ Kind # "article.unpublished"
    \/ ~WillShow(a) /\ InHand(a, {"hashes", "upsert"}) /\ work.text = live[a].text
    \/ /\ ~WillShow(a) /\ ~InHand(a, Busy)
       /\ hash[a] = live[a].text

(* A row is written by one request at a time, and a draft write writes a   *)
(* draft.                                                                  *)
OneWriter ==
  \A r, s \in Request :
    req[r].pc \in {"written", "announced"} /\ req[s].pc \in {"written", "announced"}
      /\ req[r].article = req[s].article => r = s
DraftsAreDrafts ==
  \A s \in Request : req[s].pc # "idle" /\ req[s].draft => req[s].next.status = "draft"

(* Only a scheduled recompute runs.                                        *)
NightIsScheduled == night.pc # "idle" => "nightly" \in Jobs

Fresh(a) == NewestTells(a) /\ FlagsOnTheWay(a) /\ HashOnTheWay(a)
FreshInv == OneWriter /\ DraftsAreDrafts /\ NightIsScheduled /\ \A a \in Article \ excused : Fresh(a)

(* The event a request announces tells the status it writes.               *)
LEMMA EventFacts ==
  ASSUME CmsTypeOK, NEW s \in Request, req[s].pc # "idle"
  PROVE  /\ EventOf(s) = NoEvent => req[s].draft \/ req[s].next.status # "published"
         /\ EventOf(s) # NoEvent => ~req[s].draft
         /\ EventOf(s) # NoEvent =>
              (EventOf(s) # "article.unpublished" <=> req[s].next.status = "published")
<1>1. req[s].was \in {"none", "draft", "published"} /\ req[s].next.status \in {"draft", "published"}
      /\ req[s].draft \in BOOLEAN
  BY RequestTyped
<1> QED BY <1>1 DEF EventOf, DecideEvent, NoEvent

(* The fate of an article no request decides anew.                         *)
LEMMA FateStays ==
  ASSUME NEW a \in Article, Published(a)' <=> Published(a),
         \A s \in Request : /\ Promised(s, a)' <=> Promised(s, a)
                            /\ Promised(s, a) => EventOf(s)' = EventOf(s)
  PROVE  /\ FatePublished(a)' <=> FatePublished(a)
         /\ WillShow(a)' <=> WillShow(a)
<1>1. Promise(a)' <=> Promise(a)
  BY DEF Promise
<1>2. WillShow(a)' <=> WillShow(a)
  BY DEF WillShow
<1> QED BY <1>1, <1>2 DEF FatePublished

(* A step that is not about the article leaves it as fresh as it was.      *)
LEMMA FreshStays ==
  ASSUME IndexInv, NEW a \in Article, Fresh(a),
         FatePublished(a)' <=> FatePublished(a),
         WillShow(a)' => WillShow(a),
         \/ WillShow(a)
         \/ ~FatePublished(a)
         \/ /\ Wanted(a)' = Wanted(a) /\ live'[a].text = live[a].text
            /\ hash'[a] \in {hash[a], live[a].text},
         Coming(a)' = Coming(a), \A i \in Coming(a) : stream'[i] = stream[i],
         \/ work' = work /\ (work.pc # "idle" => Subject' = Subject /\ Kind' = Kind)
         \/ ~InHand(a, Busy) /\ ~InHand(a, Busy)',
         flags'[a] = flags[a] \/ (flags'[a] = Wanted(a) /\ "nightly" \in Jobs)
  PROVE  Fresh(a)'
<1>1. NewestTells(a)'
  BY DEF Fresh, NewestTells, TellsFate
<1>2. \/ \A pcs \in SUBSET Busy : (InHand(a, pcs)' <=> InHand(a, pcs))
                                    /\ (InHand(a, pcs) => work' = work /\ Kind' = Kind)
      \/ ~InHand(a, Busy) /\ ~InHand(a, Busy)'
  BY DEF InHand, Busy
<1>3. \A pcs \in SUBSET Busy : (InHand(a, pcs)' <=> InHand(a, pcs))
                                 /\ (InHand(a, pcs) => work' = work /\ Kind' = Kind)
  BY <1>2 DEF InHand
<1>4. /\ InHand(a, {"flags"})' <=> InHand(a, {"flags"})
      /\ InHand(a, {"apply"})' <=> InHand(a, {"apply"})
      /\ InHand(a, {"flags", "apply"})' <=> InHand(a, {"flags", "apply"})
      /\ InHand(a, {"flags", "apply", "fetch"})' <=> InHand(a, {"flags", "apply", "fetch"})
      /\ InHand(a, {"hashes", "upsert"})' <=> InHand(a, {"hashes", "upsert"})
      /\ InHand(a, Busy)' <=> InHand(a, Busy)
      /\ InHand(a, Busy) => work' = work /\ Kind' = Kind
  BY <1>3 DEF Busy
<1>5. \A pcs \in SUBSET Busy : InHand(a, pcs) => InHand(a, Busy)
  BY DEF InHand
<1>6. FlagsOnTheWay(a)'
  <2>1. FlagsOnTheWay(a)
    BY DEF Fresh
  <2>2. CASE Coming(a) # {}
    BY <2>2 DEF FlagsOnTheWay
  <2>3. CASE InHand(a, {"flags"}) /\ TellsFate(Kind, a)
    <3>1. work' = work /\ Kind' = Kind
      BY <1>4, <1>5, <2>3 DEF Busy
    <3> QED BY <1>4, <2>3, <3>1 DEF FlagsOnTheWay, TellsFate
  <2>4. CASE ~WillShow(a) /\ InHand(a, {"apply"}) /\ GoodFlags(a, work.want)
    <3>1. work' = work
      BY <1>4, <1>5, <2>4 DEF Busy
    <3>2. GoodFlags(a, work.want)'
      BY <2>4, <3>1 DEF GoodFlags
    <3> QED BY <1>4, <2>4, <3>2 DEF FlagsOnTheWay
  <2>5. CASE ~WillShow(a) /\ ~InHand(a, {"flags", "apply"}) /\ GoodFlags(a, flags[a])
    <3>1. GoodFlags(a, flags[a])'
      BY <2>5 DEF GoodFlags
    <3> QED BY <1>4, <2>5, <3>1 DEF FlagsOnTheWay
  <2> QED BY <2>1, <2>2, <2>3, <2>4, <2>5 DEF FlagsOnTheWay
<1>7. HashOnTheWay(a)'
  <2> SUFFICES ASSUME FatePublished(a)' PROVE HashOnTheWay(a)'
    BY DEF HashOnTheWay
  <2>1. FatePublished(a) /\ HashOnTheWay(a)
    BY DEF Fresh
  <2>2. CASE Coming(a) # {}
    BY <2>2 DEF HashOnTheWay
  <2>3. CASE InHand(a, {"flags", "apply", "fetch"}) /\ Kind # "article.unpublished"
    <3>1. Kind' = Kind
      BY <1>4, <1>5, <2>3 DEF Busy
    <3> QED BY <1>4, <2>3, <3>1 DEF HashOnTheWay
  <2>4. CASE ~WillShow(a) /\ InHand(a, {"hashes", "upsert"}) /\ work.text = live[a].text
    <3>1. work' = work
      BY <1>4, <1>5, <2>4 DEF Busy
    <3>2. (work.text = live[a].text)'
      BY <2>1, <2>4, <3>1
    <3> QED BY <1>4, <2>4, <3>2 DEF HashOnTheWay
  <2>5. CASE ~WillShow(a) /\ ~InHand(a, Busy) /\ hash[a] = live[a].text
    <3>1. (hash[a] = live[a].text)'
      BY <2>1, <2>5
    <3> QED BY <1>4, <2>5, <3>1 DEF HashOnTheWay
  <2> QED BY <2>1, <2>2, <2>3, <2>4, <2>5 DEF HashOnTheWay
<1> QED BY <1>1, <1>6, <1>7 DEF Fresh

(* What a step of something else leaves: an article's row, its requests,   *)
(* its entries on the way and its mentions.                                *)
LEMMA SiteStays ==
  ASSUME NEW a \in Article, UNCHANGED <<req, live, mention>>
  PROVE  /\ FatePublished(a)' <=> FatePublished(a)
         /\ WillShow(a)' <=> WillShow(a)
         /\ Wanted(a)' = Wanted(a)
  BY DEF FatePublished, WillShow, Promise, Promised, Published, Wanted, EventOf

(* The entries on the way are the log, its cursor and the batch in memory. *)
LEMMA ComingStays ==
  ASSUME NEW a \in Article, UNCHANGED <<stream, todo, delivered>>
  PROVE  Coming(a)' = Coming(a) /\ \A i \in Coming(a) : stream'[i] = stream[i]
  BY DEF Coming

(* The step touches nothing but requests that are not announced.           *)
LEMMA FreshQuietRequest ==
  ASSUME IndexInv, NEW a \in Article, Fresh(a), NEW s \in Request,
         UNCHANGED <<live, mention, stream, delivered, todo, hand, work, hash, flags>>,
         \A r \in Request : r # s => req'[r] = req[r],
         ~Promised(s, a), ~Promised(s, a)'
  PROVE  Fresh(a)'
<1>1. \A r \in Request : /\ Promised(r, a)' <=> Promised(r, a)
                         /\ Promised(r, a) => EventOf(r)' = EventOf(r)
  BY DEF Promised, EventOf
<1>2. Published(a)' <=> Published(a)
  BY DEF Published
<1>3. (FatePublished(a)' <=> FatePublished(a)) /\ (WillShow(a)' <=> WillShow(a))
  BY <1>1, <1>2, FateStays
<1>4. Wanted(a)' = Wanted(a)
  BY DEF Wanted, Published
<1> QED BY <1>3, <1>4, ComingStays, FreshStays DEF Subject, Kind

(* The same save announces the same event until it ends.                   *)
LEMMA EventKept ==
  ASSUME CmsTypeOK, NEW s \in Request, req[s].pc # "idle",
         NEW pc \in {"written", "announced"}, Advance(s, pc)
  PROVE  /\ EventOf(s)' = EventOf(s) /\ req'[s].article = req[s].article /\ req'[s].pc = pc
         /\ req'[s].draft = req[s].draft /\ req'[s].next = req[s].next
         /\ \A r \in Request : r # s => req'[r] = req[r]
<1>1. req[s] \in OpenRequest
  BY RequestTyped
<1>2. req' = [req EXCEPT ![s] = [req[s] EXCEPT !.pc = pc]]
  BY DEF Advance
<1>3. req'[s] = [req[s] EXCEPT !.pc = pc]
  BY <1>2 DEF CmsTypeOK
<1>4. /\ req'[s].article = req[s].article /\ req'[s].pc = pc
      /\ req'[s].draft = req[s].draft /\ req'[s].next = req[s].next /\ req'[s].was = req[s].was
  BY <1>1, <1>3 DEF OpenRequest
<1>5. \A r \in Request : r # s => req'[r] = req[r]
  BY <1>2 DEF CmsTypeOK
<1> QED BY <1>4, <1>5 DEF EventOf

(* A new entry for an article is its newest, and tells what the announced  *)
(* write is going to make of it.                                           *)
LEMMA FreshAppended ==
  ASSUME IndexInv, OneWriter, NEW a \in Article, NEW s \in Request,
         req[s].pc \in {"written", "announced"}, req[s].article = a, EventOf(s) # NoEvent,
         Promised(s, a)', EventOf(s)' = EventOf(s),
         \A r \in Request : r # s => req'[r] = req[r],
         stream' = Append(stream, [kind |-> EventOf(s), article |-> a]),
         UNCHANGED <<todo, delivered>>
  PROVE  Fresh(a)'
<1> DEFINE n == Len(stream) + 1
<1>1. stream \in Seq(Event) /\ delivered \in 0..Len(stream) /\ todo \in SUBSET (1..delivered)
  BY DEF IndexInv, DeliveryInv, DeliveryTypeOK
<1>2. /\ Len(stream') = n
      /\ stream'[n] = [kind |-> EventOf(s), article |-> a]
      /\ n \in 1..n /\ n > delivered /\ \A i \in 1..Len(stream') : i <= n
  BY <1>1
<1>3. n \in Coming(a)' /\ \A i \in Coming(a)' : i <= n
  BY <1>2 DEF Coming
<1>4. \A r \in Request : Promised(r, a)' => r = s
  BY DEF Promised, OneWriter
<1>5. Promise(a)' /\ (WillShow(a)' <=> EventOf(s) # "article.unpublished")
  BY <1>4 DEF Promise, WillShow
<1>6. TellsFate(EventOf(s), a)'
  BY <1>5 DEF TellsFate, FatePublished
<1>7. NewestTells(a)'
  <2> SUFFICES ASSUME NEW i \in Coming(a)', \A j \in Coming(a)' : j <= i
               PROVE  TellsFate(stream[i].kind, a)'
    BY DEF NewestTells
  <2>1. i = n
    BY <1>1, <1>3 DEF Coming
  <2> QED BY <1>2, <1>6, <2>1 DEF TellsFate
<1> QED BY <1>3, <1>7 DEF Fresh, FlagsOnTheWay, HashOnTheWay

(* An entry about one article is nothing to another.                       *)
LEMMA FreshOthersAppended ==
  ASSUME IndexInv, NEW a \in Article, Fresh(a), NEW s \in Request, req[s].pc # "idle",
         req[s].article # a, req'[s].article # a,
         NEW e \in Event, e.article # a, stream' = Append(stream, e),
         \A r \in Request : r # s => req'[r] = req[r],
         UNCHANGED <<live, mention, delivered, todo, hand, work, hash, flags>>
  PROVE  Fresh(a)'
<1>1. stream \in Seq(Event) /\ delivered \in 0..Len(stream) /\ todo \in SUBSET (1..delivered)
  BY DEF IndexInv, DeliveryInv, DeliveryTypeOK
<1>2. /\ Len(stream') = Len(stream) + 1 /\ stream'[Len(stream) + 1] = e
      /\ \A i \in 1..Len(stream) : stream'[i] = stream[i]
      /\ 1..Len(stream') = (1..Len(stream)) \union {Len(stream) + 1}
  BY <1>1
<1>3. Coming(a)' = Coming(a) /\ \A i \in Coming(a) : stream'[i] = stream[i]
  BY <1>2 DEF Coming
<1>4. \A r \in Request : /\ Promised(r, a)' <=> Promised(r, a)
                         /\ Promised(r, a) => EventOf(r)' = EventOf(r)
  BY DEF Promised, EventOf
<1>5. (Published(a)' <=> Published(a)) /\ Wanted(a)' = Wanted(a)
  BY DEF Published, Wanted
<1>6. (FatePublished(a)' <=> FatePublished(a)) /\ (WillShow(a)' <=> WillShow(a))
  BY <1>4, <1>5, FateStays
<1>7. work.pc # "idle" => Subject' = Subject /\ Kind' = Kind
  BY SubjectKept
<1> QED BY <1>3, <1>5, <1>6, <1>7, FreshStays

(* The steps of a request up to its commit.                                *)
LEMMA FreshRequest ==
  ASSUME IndexInv, OneWriter, NEW a \in Article, a \notin excused', Fresh(a), NEW s \in Request,
         \/ \E b \in Article, status \in {"draft", "published"}, t \in Text, draft \in BOOLEAN :
               Open(s, b, [status |-> status, text |-> t], draft)
         \/ Write(s) \/ AnnounceLanded(s) \/ AnnounceNothing(s) \/ AnnounceLost(s)
         \/ AnnounceAgain(s) \/ Rollback(s)
  PROVE  Fresh(a)'
<1> USE DEF IndexInv
<1>1. ASSUME NEW b \in Article, NEW status \in {"draft", "published"}, NEW t \in Text,
             NEW draft \in BOOLEAN, Open(s, b, [status |-> status, text |-> t], draft)
      PROVE  Fresh(a)'
  <2>1. UNCHANGED <<live, mention, stream, delivered, todo, hand, work, hash, flags>>
    BY <1>1 DEF Open, deliveryVars, workerVars
  <2>2. /\ \A r \in Request : r # s => req'[r] = req[r]
        /\ req[s].pc = "idle" /\ req'[s].pc = "opened"
    BY <1>1 DEF Open, Active, CmsTypeOK
  <2> QED BY <2>1, <2>2, FreshQuietRequest DEF Promised
<1>2. CASE Write(s) \/ AnnounceNothing(s)
  <2>1. UNCHANGED <<live, mention, stream, delivered, todo, hand, work, hash, flags>>
    BY <1>2 DEF Write, AnnounceNothing, deliveryVars, workerVars
  <2>2. ~Promised(s, a) /\ ~Promised(s, a)' /\ \A r \in Request : r # s => req'[r] = req[r]
    BY <1>2, EventKept DEF Write, AnnounceNothing, Promised
  <2> QED BY <2>1, <2>2, FreshQuietRequest
<1>3. CASE AnnounceLanded(s)
  <2>1. /\ EventOf(s)' = EventOf(s) /\ req'[s].article = req[s].article
        /\ req'[s].pc = "announced" /\ \A r \in Request : r # s => req'[r] = req[r]
    BY <1>3, EventKept DEF AnnounceLanded
  <2>2. /\ req[s].pc = "written" /\ EventOf(s) # NoEvent
        /\ stream' = Append(stream, [kind |-> EventOf(s), article |-> req[s].article])
        /\ UNCHANGED <<live, mention, delivered, todo, hand, work, hash, flags>>
    BY <1>3 DEF AnnounceLanded, Announce, workerVars
  <2>3. [kind |-> EventOf(s), article |-> req[s].article] \in Event
    BY <2>2, EventTyped
  <2>4. CASE req[s].article = a
    BY <2>1, <2>2, <2>4, FreshAppended DEF Promised
  <2>5. CASE req[s].article # a
    BY <2>1, <2>2, <2>3, <2>5, FreshOthersAppended
  <2> QED BY <2>4, <2>5
<1>4. CASE AnnounceAgain(s)
  <2>1. /\ req[s].pc = "announced" /\ EventOf(s) # NoEvent /\ UNCHANGED req
        /\ stream' = Append(stream, [kind |-> EventOf(s), article |-> req[s].article])
        /\ UNCHANGED <<live, mention, delivered, todo, hand, work, hash, flags>>
    BY <1>4 DEF AnnounceAgain, cmsVars, workerVars
  <2>2. EventOf(s)' = EventOf(s)
    BY <2>1 DEF EventOf
  <2>3. [kind |-> EventOf(s), article |-> req[s].article] \in Event
    BY <2>1, EventTyped
  <2>4. CASE req[s].article = a
    BY <2>1, <2>2, <2>4, FreshAppended DEF Promised
  <2>5. CASE req[s].article # a
    BY <2>1, <2>3, <2>5, FreshOthersAppended
  <2> QED BY <2>4, <2>5
<1>5. CASE AnnounceLost(s)
  <2>1. UNCHANGED <<live, mention, stream, delivered, todo, hand, work, hash, flags>>
    BY <1>5 DEF AnnounceLost, workerVars
  <2>2. req[s].article # a
    BY <1>5 DEF AnnounceLost, Excuse
  <2>3. ~Promised(s, a) /\ ~Promised(s, a)' /\ \A r \in Request : r # s => req'[r] = req[r]
    BY <1>5, <2>2, EventKept DEF AnnounceLost, Promised
  <2> QED BY <2>1, <2>3, FreshQuietRequest
<1>6. CASE Rollback(s)
  <2>1. UNCHANGED <<live, mention, stream, delivered, todo, hand, work, hash, flags>>
    BY <1>6 DEF Rollback, workerVars
  <2>2. req[s].pc = "announced" => req[s].article # a
    BY <1>6 DEF Rollback, Excuse
  <2>3. ~Promised(s, a) /\ ~Promised(s, a)' /\ \A r \in Request : r # s => req'[r] = req[r]
    BY <1>6, <2>2 DEF Rollback, Promised, CmsTypeOK, IdleRequest
  <2> QED BY <2>1, <2>3, FreshQuietRequest
<1> QED BY <1>1, <1>2, <1>3, <1>4, <1>5, <1>6

(* A commit fulfils the promise its event made.                            *)
LEMMA FreshCommit ==
  ASSUME IndexInv, OneWriter, DraftsAreDrafts, NEW a \in Article, a \notin excused', Fresh(a),
         NEW s \in Request, Commit(s)
  PROVE  Fresh(a)'
<1> USE DEF IndexInv
<1> DEFINE b == req[s].article
           next == req[s].next
<1>1. /\ req[s].pc = "announced" /\ b \in Article
      /\ next \in [status : {"draft", "published"}, text : Text]
  BY RequestTyped DEF Commit
<1>2. /\ live' = IF req[s].draft /\ live[b] # NoRow THEN live ELSE [live EXCEPT ![b] = next]
      /\ excused' = IF SilentUnpublish(s) THEN excused \union {b} ELSE excused
      /\ req' = [req EXCEPT ![s] = IdleRequest]
      /\ UNCHANGED <<mention, stream, delivered, todo, hand, work, hash, flags>>
  BY DEF Commit, deliveryVars, workerVars
<1>3. /\ \A r \in Request : r # s => req'[r] = req[r]
      /\ req'[s].pc = "idle"
  BY <1>2 DEF CmsTypeOK, IdleRequest
<1>4. UNCHANGED <<stream, todo, delivered, work, Subject, Kind>> /\ hash'[a] = hash[a] /\ flags'[a] = flags[a]
  BY <1>2 DEF Subject, Kind
<1>5. CASE b # a
  <2>1. live'[a] = live[a]
    BY <1>1, <1>2, <1>5 DEF CmsTypeOK
  <2>2. \A r \in Request : /\ Promised(r, a)' <=> Promised(r, a)
                           /\ Promised(r, a) => EventOf(r)' = EventOf(r)
    BY <1>3, <1>5 DEF Promised, EventOf
  <2>3. (Published(a)' <=> Published(a)) /\ Wanted(a)' = Wanted(a)
    BY <1>2, <2>1 DEF Published, Wanted
  <2>4. (FatePublished(a)' <=> FatePublished(a)) /\ (WillShow(a)' <=> WillShow(a))
    BY <2>2, <2>3, FateStays
  <2> QED BY <1>4, <2>1, <2>3, <2>4, ComingStays, FreshStays
<1>6. CASE b = a
  <2>1. \A r \in Request : Promised(r, a) => r = s
    BY <1>1, <1>6 DEF Promised, OneWriter
  <2>2. \A r \in Request : ~Promised(r, a)'
    BY <1>3, <2>1 DEF Promised, EventOf
  <2>3. (FatePublished(a)' <=> Published(a)') /\ ~WillShow(a)'
    BY <2>2 DEF FatePublished, Promise, WillShow
  <2>4. live'[a] \in {live[a], next}
    BY <1>1, <1>2, <1>6 DEF CmsTypeOK
  <2>5. CASE EventOf(s) # NoEvent
    <3>1. ~req[s].draft /\ (EventOf(s) # "article.unpublished" <=> next.status = "published")
      BY <1>1, <2>5, EventFacts
    <3>2. live'[a] = next
      BY <1>1, <1>2, <1>6, <3>1 DEF CmsTypeOK
    <3>3. Promised(s, a) /\ (WillShow(a) <=> next.status = "published")
      BY <1>1, <1>6, <2>1, <2>5, <3>1 DEF Promised, WillShow
    <3>4. (FatePublished(a) <=> WillShow(a)) /\ (FatePublished(a)' <=> FatePublished(a))
      BY <2>3, <3>2, <3>3 DEF FatePublished, Promise, Published
    <3> QED BY <1>4, <2>3, <3>4, ComingStays, FreshStays
  <2>6. CASE EventOf(s) = NoEvent
    <3>1. FatePublished(a) <=> Published(a)
      BY <2>1, <2>6 DEF FatePublished, Promise, Promised
    <3>2. next.status = "draft"
      BY <1>1, <2>6, EventFacts DEF DraftsAreDrafts
    <3>3. CASE live' = live
      <4>1. (FatePublished(a)' <=> FatePublished(a)) /\ Wanted(a)' = Wanted(a)
        BY <1>2, <2>3, <3>1, <3>3 DEF Published, Wanted
      <4> QED BY <1>4, <2>3, <3>3, <4>1, ComingStays, FreshStays
    <3>4. CASE live' # live
      <4>1. ~(req[s].draft /\ live[a] # NoRow) /\ live'[a] = next
        BY <1>1, <1>2, <1>6, <3>4 DEF CmsTypeOK
      <4>2. ~Published(a)
        BY <1>2, <1>6, <2>6, <3>2, <4>1 DEF SilentUnpublish, Published, NoRow
      <4>3. ~Published(a)'
        BY <3>2, <4>1 DEF Published
      <4> QED BY <1>4, <2>3, <3>1, <4>2, <4>3, ComingStays, FreshStays
    <3> QED BY <3>3, <3>4
  <2> QED BY <2>5, <2>6
<1> QED BY <1>5, <1>6

(* A change of the mentions matters to a published article only, and that  *)
(* one is excused.                                                         *)
LEMMA FreshMentions ==
  ASSUME IndexInv, NEW a \in Article, a \notin excused', Fresh(a),
         NEW b \in Article, MentionsChange(b)
  PROVE  Fresh(a)'
<1>1. UNCHANGED <<req, live, stream, delivered, todo, hand, work, hash, flags>>
  BY DEF MentionsChange, cmsVars, deliveryVars, workerVars
<1>2. Published(a)' <=> Published(a)
  BY <1>1 DEF Published
<1>3. (FatePublished(a)' <=> FatePublished(a)) /\ (WillShow(a)' <=> WillShow(a))
  BY <1>1, <1>2, FateStays DEF Promised, EventOf
<1>4. ~(WillShow(a) \/ ~FatePublished(a)) => Published(a)
  BY DEF FatePublished, WillShow, Promise
<1>5. Published(a) => Wanted(a)' = Wanted(a)
  <2>1. Published(a) => mention'[a] = mention[a]
    BY DEF MentionsChange, Excuse, IndexInv, TablesTypeOK
  <2> QED BY <1>1, <2>1 DEF Wanted, Published
<1> QED BY <1>1, <1>3, <1>4, <1>5, ComingStays, FreshStays DEF Subject, Kind

(* What the consumer's steps leave to the other articles.                  *)
LEMMA FreshElsewhere ==
  ASSUME IndexInv, NEW a \in Article, Fresh(a),
         UNCHANGED <<req, live, mention>>,
         Coming(a)' = Coming(a), \A i \in Coming(a) : stream'[i] = stream[i],
         ~InHand(a, Busy), ~InHand(a, Busy)',
         hash'[a] = hash[a], flags'[a] = flags[a]
  PROVE  Fresh(a)'
  BY SiteStays, FreshStays

(* Taking an entry: the last one on the way decides, and it is in hand.    *)
LEMMA FreshBegin ==
  ASSUME IndexInv, NEW a \in Article, Fresh(a), NEW i \in todo, Begin(i)
  PROVE  Fresh(a)'
<1>1. /\ UNCHANGED <<req, live, mention, stream, delivered, hash, flags>>
      /\ todo' = todo \ {i} /\ hand' = i /\ work' = [pc |-> "flags"] /\ \A j \in todo : i <= j
  BY DEF Begin, Take, Goto, cmsVars
<1>2. work = IdleWork
  BY DEF IndexInv, WorkHasSubject, Begin, Take
<1>3. i \in 1..Len(stream) /\ i \in 1..delivered /\ delivered \in Nat /\ todo \in SUBSET Nat
  BY DEF IndexInv, DeliveryInv, DeliveryTypeOK
<1>4. Subject' = stream[i].article /\ Kind' = stream[i].kind
  BY <1>1 DEF Subject, Kind
<1>5. Coming(a)' = Coming(a) \ {i}
  BY <1>1, <1>3 DEF Coming
<1>6. CASE stream[i].article # a
  <2>1. Coming(a)' = Coming(a)
    BY <1>5, <1>6 DEF Coming
  <2>2. ~InHand(a, Busy) /\ ~InHand(a, Busy)'
    BY <1>1, <1>2, <1>4, <1>6 DEF InHand, Busy, IdleWork
  <2> QED BY <1>1, <2>1, <2>2, FreshElsewhere
<1>7. CASE stream[i].article = a
  <2>1. (FatePublished(a)' <=> FatePublished(a)) /\ (WillShow(a)' <=> WillShow(a))
    BY <1>1, SiteStays
  <2>2. i \in Coming(a)
    BY <1>3, <1>7 DEF Coming
  <2>3. \A j \in Coming(a) : i <= j
    BY <1>1, <1>3 DEF Coming
  <2>4. NewestTells(a)'
    <3> SUFFICES ASSUME NEW k \in Coming(a)', \A j \in Coming(a)' : j <= k
                 PROVE  TellsFate(stream[k].kind, a)'
      BY DEF NewestTells
    <3>1. k \in Coming(a) /\ \A j \in Coming(a) : j <= k
      BY <1>5, <2>3
    <3>2. TellsFate(stream[k].kind, a)
      BY <3>1 DEF Fresh, NewestTells
    <3> QED BY <1>1, <2>1, <3>2 DEF TellsFate
  <2>5. CASE Coming(a)' # {}
    BY <2>4, <2>5 DEF Fresh, FlagsOnTheWay, HashOnTheWay
  <2>6. CASE Coming(a)' = {}
    <3>1. \A j \in Coming(a) : j <= i
      BY <1>3, <1>5, <2>6
    <3>2. TellsFate(stream[i].kind, a)
      BY <2>2, <3>1 DEF Fresh, NewestTells
    <3>3. TellsFate(Kind, a)' /\ InHand(a, {"flags"})' /\ InHand(a, {"flags", "apply", "fetch"})'
      BY <1>1, <1>4, <1>7, <2>1, <3>2 DEF TellsFate, InHand
    <3> QED BY <2>4, <3>3 DEF Fresh, FlagsOnTheWay, HashOnTheWay, TellsFate
  <2> QED BY <2>5, <2>6
<1> QED BY <1>6, <1>7

(* What a step of the handler on its own subject has to show: with nothing *)
(* else on the way, what it leaves in hand or in the tables.               *)
LEMMA FreshSubject ==
  ASSUME IndexInv, NEW a \in Article, Fresh(a),
         UNCHANGED <<req, live, mention, stream, delivered, todo>>,
         Coming(a) = {} => FlagsOnTheWay(a)' /\ HashOnTheWay(a)'
  PROVE  Fresh(a)'
<1>1. Coming(a)' = Coming(a)
  BY ComingStays
<1>2. NewestTells(a)'
  BY <1>1, SiteStays DEF Fresh, NewestTells, TellsFate
<1> QED BY <1>1, <1>2 DEF Fresh, FlagsOnTheWay, HashOnTheWay

(* The flags half of the handler, on the article it is about.              *)
LEMMA FreshFlags ==
  ASSUME IndexInv, NEW a \in Article, a \notin excused', Fresh(a), work.pc # "idle", Subject = a,
         FlagsRemove \/ FlagsRead \/ FlagsApply
  PROVE  Fresh(a)'
<1>1. /\ UNCHANGED <<req, live, mention, stream, delivered, todo, hand, hash>>
      /\ Subject' = a /\ Kind' = Kind /\ work.pc \in {"flags", "apply"}
  BY DEF FlagsRemove, FlagsRead, FlagsApply, Goto, cmsVars, deliveryVars, Subject, Kind
<1>2. /\ FatePublished(a)' <=> FatePublished(a)
      /\ WillShow(a)' <=> WillShow(a)
      /\ Wanted(a)' = Wanted(a)
  BY <1>1, SiteStays
<1>3. work'.pc \in {"apply", "fetch"}
  BY DEF FlagsRemove, FlagsRead, FlagsApply, Goto
<1>4. InHand(a, {"flags", "apply"}) /\ InHand(a, {"flags", "apply", "fetch"}) /\ InHand(a, Busy)
      /\ ~InHand(a, {"hashes", "upsert"}) /\ InHand(a, {"flags", "apply", "fetch"})'
  BY <1>1, <1>3 DEF InHand, Busy
<1>5. ASSUME Coming(a) = {} PROVE HashOnTheWay(a)'
  BY <1>1, <1>2, <1>4, <1>5 DEF Fresh, HashOnTheWay
<1>6. CASE FlagsRemove
  <2>1. work.pc = "flags" /\ Kind = "article.unpublished" /\ work' = [pc |-> "fetch"]
        /\ flags'[a] = {}
    BY <1>6 DEF FlagsRemove, Goto, IndexInv, TablesTypeOK
  <2>2. ASSUME Coming(a) = {} PROVE FlagsOnTheWay(a)'
    <3>1. TellsFate(Kind, a)
      BY <1>4, <2>1, <2>2 DEF Fresh, FlagsOnTheWay, InHand
    <3>2. ~FatePublished(a) /\ ~WillShow(a)
      BY <2>1, <3>1 DEF TellsFate, FatePublished, Promise, WillShow
    <3>3. GoodFlags(a, flags[a])' /\ ~InHand(a, {"flags", "apply"})'
      BY <1>2, <2>1, <3>2 DEF GoodFlags, InHand
    <3> QED BY <1>2, <3>2, <3>3 DEF FlagsOnTheWay
  <2> QED BY <1>1, <1>5, <2>2, FreshSubject
<1>7. CASE FlagsRead
  <2>1. /\ work.pc = "flags" /\ Kind # "article.unpublished" /\ ~Uncommitted(a)
        /\ work' = [pc |-> "apply", want |-> Wanted(a)]
    BY <1>7 DEF FlagsRead, Goto, Excuse
  <2>2. ~WillShow(a)
    BY <2>1 DEF WillShow, Promised, Uncommitted
  <2>3. ASSUME Coming(a) = {} PROVE FlagsOnTheWay(a)'
    <3>1. TellsFate(Kind, a)
      BY <1>4, <2>1, <2>3 DEF Fresh, FlagsOnTheWay, InHand
    <3>2. GoodFlags(a, work.want)' /\ InHand(a, {"apply"})'
      BY <1>1, <1>2, <2>1, <3>1 DEF GoodFlags, TellsFate, InHand
    <3> QED BY <1>2, <2>2, <3>2 DEF FlagsOnTheWay
  <2> QED BY <1>1, <1>5, <2>3, FreshSubject
<1>8. CASE FlagsApply
  <2>1. work.pc = "apply" /\ work' = [pc |-> "fetch"] /\ flags'[a] = work.want
    BY <1>8 DEF FlagsApply, Goto, IndexInv, TablesTypeOK
  <2>2. ASSUME Coming(a) = {} PROVE FlagsOnTheWay(a)'
    <3>1. ~WillShow(a) /\ GoodFlags(a, work.want)
      BY <1>4, <2>1, <2>2 DEF Fresh, FlagsOnTheWay, InHand
    <3>2. GoodFlags(a, flags[a])' /\ ~InHand(a, {"flags", "apply"})'
      BY <1>2, <2>1, <3>1 DEF GoodFlags, InHand
    <3> QED BY <1>2, <3>1, <3>2 DEF FlagsOnTheWay
  <2> QED BY <1>1, <1>5, <2>2, FreshSubject
<1> QED BY <1>6, <1>7, <1>8

(* The embedding half.                                                     *)
LEMMA FreshEmbed ==
  ASSUME IndexInv, NEW a \in Article, a \notin excused', Fresh(a), work.pc # "idle", Subject = a,
         FetchOne \/ ReadHashes \/ Upsert
  PROVE  Fresh(a)'
<1>1. /\ UNCHANGED <<req, live, mention, stream, delivered, todo, hand, flags>>
      /\ Subject' = a /\ Kind' = Kind /\ work.pc \in {"fetch", "hashes", "upsert"}
  BY DEF FetchOne, ReadHashes, Upsert, Goto, cmsVars, deliveryVars, Subject, Kind
<1>2. /\ FatePublished(a)' <=> FatePublished(a)
      /\ WillShow(a)' <=> WillShow(a)
      /\ Wanted(a)' = Wanted(a)
  BY <1>1, SiteStays
<1>3. work.pc \in {"hashes", "upsert"} => work \in EmbedWork
  BY WorkTyped DEF IndexInv
<1>4. CASE FetchOne
  <2>1. ~Uncommitted(a) /\ work.pc = "fetch" /\ hash' = hash
    BY <1>4 DEF FetchOne, Excuse
  <2>2. ~WillShow(a) /\ (FatePublished(a) <=> Published(a))
    BY <2>1 DEF WillShow, FatePublished, Promise, Promised, Uncommitted
  <2>3. work' = IF Embeddable THEN [pc |-> "hashes", text |-> live[a].text] ELSE [pc |-> "done"]
    BY <1>4 DEF FetchOne, Goto
  <2>4. work'.pc \in {"hashes", "done"} /\ (Embeddable => work'.pc = "hashes" /\ work'.text = live[a].text)
    BY <2>3
  <2>5. ASSUME Coming(a) = {} PROVE FlagsOnTheWay(a)'
    <3>1. GoodFlags(a, flags[a])
      BY <2>1, <2>5 DEF Fresh, FlagsOnTheWay, InHand
    <3>2. GoodFlags(a, flags[a])' /\ ~InHand(a, {"flags", "apply"})'
      BY <1>1, <1>2, <2>4, <3>1 DEF GoodFlags, InHand
    <3> QED BY <1>2, <2>2, <3>2 DEF FlagsOnTheWay
  <2>6. ASSUME Coming(a) = {} PROVE HashOnTheWay(a)'
    <3> SUFFICES ASSUME FatePublished(a) PROVE HashOnTheWay(a)'
      BY <1>2 DEF HashOnTheWay
    <3>1. Kind # "article.unpublished"
      BY <1>1, <2>1, <2>6 DEF Fresh, HashOnTheWay, InHand, Busy
    <3>2. Embeddable
      BY <2>2, <3>1 DEF Embeddable
    <3>3. InHand(a, {"hashes", "upsert"})' /\ (work.text = live[a].text)'
      BY <1>1, <2>4, <3>2 DEF InHand
    <3> QED BY <1>2, <2>2, <3>3 DEF HashOnTheWay
  <2> QED BY <1>1, <2>5, <2>6, FreshSubject
<1>5. CASE ReadHashes \/ Upsert
  <2>1. /\ work.pc \in {"hashes", "upsert"}
        /\ \/ work'.pc = "done" /\ hash'[a] = work.text
           \/ work'.pc = "upsert" /\ work'.text = work.text
    <3>1. CASE ReadHashes
      <4>1. work' = [work EXCEPT !.pc = "upsert"] => work'.pc = "upsert" /\ work'.text = work.text
        BY <1>3, <3>1 DEF ReadHashes, EmbedWork
      <4> QED BY <3>1, <4>1 DEF ReadHashes, Goto
    <3>2. CASE Upsert
      BY <3>2 DEF Upsert, Goto, IndexInv, TablesTypeOK, Rows
    <3> QED BY <1>5, <3>1, <3>2
  <2>2. ASSUME Coming(a) = {} PROVE FlagsOnTheWay(a)'
    <3>1. ~WillShow(a) /\ GoodFlags(a, flags[a])
      BY <2>1, <2>2 DEF Fresh, FlagsOnTheWay, InHand
    <3>2. GoodFlags(a, flags[a])' /\ ~InHand(a, {"flags", "apply"})'
      BY <1>1, <1>2, <2>1, <3>1 DEF GoodFlags, InHand
    <3> QED BY <1>2, <3>1, <3>2 DEF FlagsOnTheWay
  <2>3. ASSUME Coming(a) = {} PROVE HashOnTheWay(a)'
    <3> SUFFICES ASSUME FatePublished(a) PROVE HashOnTheWay(a)'
      BY <1>2 DEF HashOnTheWay
    <3>1. ~WillShow(a) /\ work.text = live[a].text
      BY <1>1, <2>1, <2>3 DEF Fresh, HashOnTheWay, InHand, Busy
    <3>2. CASE work'.pc = "done" /\ hash'[a] = work.text
      <4>1. ~InHand(a, Busy)' /\ (hash[a] = live[a].text)'
        BY <1>1, <3>1, <3>2 DEF InHand, Busy
      <4> QED BY <1>2, <3>1, <4>1 DEF HashOnTheWay
    <3>3. CASE work'.pc = "upsert" /\ work'.text = work.text
      <4>1. InHand(a, {"hashes", "upsert"})' /\ (work.text = live[a].text)'
        BY <1>1, <3>1, <3>3 DEF InHand
      <4> QED BY <1>2, <3>1, <4>1 DEF HashOnTheWay
    <3> QED BY <2>1, <3>2, <3>3
  <2> QED BY <1>1, <2>2, <2>3, FreshSubject
<1> QED BY <1>4, <1>5

(* Every step of the handler.                                              *)
LEMMA FreshHandler ==
  ASSUME IndexInv, NEW a \in Article, a \notin excused', Fresh(a), HandlerStep
  PROVE  Fresh(a)'
<1>1. CASE \E i \in todo : Begin(i)
  BY <1>1, FreshBegin
<1>2. CASE FlagsError \/ HandlerError
  <2>1. /\ UNCHANGED <<req, live, mention, stream, delivered, todo, hand, hash, flags>>
        /\ a # Subject
    BY <1>2 DEF FlagsError, HandlerError, FaultOnly, Goto, Excuse, cmsVars
  <2>2. ~InHand(a, Busy) /\ ~InHand(a, Busy)'
    BY <2>1 DEF InHand, Subject
  <2> QED BY <2>1, <2>2, ComingStays, FreshElsewhere
<1>3. CASE Finish
  <2>1. UNCHANGED <<req, live, mention, stream, delivered, todo, hash, flags>>
    BY <1>3 DEF Finish, Settle, Goto, cmsVars
  <2>2. ~InHand(a, Busy) /\ ~InHand(a, Busy)'
    BY <1>3 DEF Finish, Goto, InHand, Busy, IdleWork
  <2> QED BY <2>1, <2>2, ComingStays, FreshElsewhere
<1>4. CASE FlagsRemove \/ FlagsRead \/ FlagsApply \/ FetchOne \/ ReadHashes \/ Upsert
  <2>1. /\ UNCHANGED <<req, live, mention, stream, delivered, todo, hand>>
        /\ work.pc # "idle"
    BY <1>4 DEF FlagsRemove, FlagsRead, FlagsApply, FetchOne, ReadHashes, Upsert, Goto, cmsVars,
       deliveryVars
  <2>2. CASE a = Subject
    BY <1>4, <2>1, <2>2, FreshFlags, FreshEmbed
  <2>3. CASE a # Subject
    <3>1. ~InHand(a, Busy) /\ ~InHand(a, Busy)'
      BY <2>1, <2>3 DEF InHand, Subject
    <3>2. hash'[a] = hash[a] /\ flags'[a] = flags[a]
      BY <1>4, <2>3 DEF FlagsRemove, FlagsRead, FlagsApply, FetchOne, ReadHashes, Upsert,
         IndexInv, TablesTypeOK, Rows
    <3> QED BY <2>1, <3>1, <3>2, ComingStays, FreshElsewhere
  <2> QED BY <2>2, <2>3
<1> QED BY <1>1, <1>2, <1>3, <1>4 DEF HandlerStep

(* The consumer's loop: an entry read is on the way still, and one whose   *)
(* thread goes down names its article among the excused.                   *)
LEMMA FreshConsumer ==
  ASSUME IndexInv, NEW a \in Article, a \notin excused', Fresh(a), Consume \/ ConsumerDown
  PROVE  Fresh(a)'
<1>0. stream \in Seq(Event) /\ delivered \in 0..Len(stream) /\ todo \in SUBSET (1..delivered)
  BY DEF IndexInv, DeliveryInv, DeliveryTypeOK
<1>1. CASE Consume
  <2>1. UNCHANGED <<req, live, mention, work, hash, flags, stream>>
    BY <1>1 DEF Consume, cmsVars, workerVars, Read, Ack, Start
  <2>2. work = IdleWork
    BY <1>1 DEF IndexInv, WorkHasSubject, Consume, Read, HandOut, Ack, Start
  <2>3. ~InHand(a, Busy) /\ ~InHand(a, Busy)'
    BY <2>1, <2>2 DEF InHand, Busy, IdleWork
  <2>4. Coming(a)' = Coming(a)
    <3>1. CASE Ack \/ Start
      BY <3>1 DEF Ack, Start, Coming
    <3>2. ASSUME NEW last \in 1..MaxStream, Read(last) PROVE Coming(a)' = Coming(a)
      <4>1. todo = {} /\ todo' = (delivered + 1)..last /\ delivered' = last /\ last \in Nat
            /\ last > delivered
        BY <1>0, <3>2, DeliveryAssumption DEF Read, HandOut
      <4>2. \A i \in 1..Len(stream) : (i \in todo' \/ i > delivered') <=> (i \in todo \/ i > delivered)
        BY <1>0, <4>1
      <4> QED BY <2>1, <4>2 DEF Coming
    <3> QED BY <1>1, <3>1, <3>2 DEF Consume
  <2> QED BY <2>1, <2>3, <2>4, FreshElsewhere
<1>2. CASE ConsumerDown
  <2>1. UNCHANGED <<req, live, mention, hash, flags>> /\ work' = IdleWork
    BY <1>2 DEF ConsumerDown, Goto, cmsVars
  <2>2. ~InHand(a, Busy)'
    BY <2>1 DEF InHand, Busy, IdleWork
  <2>3. CASE (Stop \/ RedisError)
             /\ Excuse(Subjects(todo \union (IF thread = "handling" THEN {hand} ELSE {})))
    <3>1. UNCHANGED <<stream, delivered>> /\ todo' = {}
      BY <2>3 DEF Stop, RedisError
    <3>2. \A i \in todo : stream[i].article # a
      BY <2>3 DEF Excuse, Subjects
    <3>3. Coming(a)' = Coming(a) /\ \A i \in Coming(a) : stream'[i] = stream[i]
      BY <3>1, <3>2 DEF Coming
    <3>4. thread = "handling" => Subject # a
      BY <2>3 DEF Excuse, Subjects, Subject
    <3>5. ~InHand(a, Busy)
      BY <3>4, SubjectTyped DEF InHand, Busy
    <3> QED BY <2>1, <2>2, <3>3, <3>5, FreshElsewhere
  <2>4. ASSUME NEW last \in 1..MaxStream, ReadReplyLost(last),
               Excuse(Subjects((delivered + 1)..last))
        PROVE  Fresh(a)'
    <3>1. UNCHANGED stream /\ todo = {} /\ todo' = {} /\ delivered' = last /\ last \in Nat
          /\ last > delivered /\ thread = "polling"
      BY <1>0, <2>4, DeliveryAssumption DEF ReadReplyLost, HandOut
    <3>2. \A i \in (delivered + 1)..last : stream[i].article # a
      BY <2>4 DEF Excuse, Subjects
    <3>3. \A i \in 1..Len(stream) : stream[i].article = a => (i > delivered' <=> i > delivered)
      BY <1>0, <3>1, <3>2
    <3>4. Coming(a)' = Coming(a) /\ \A i \in Coming(a) : stream'[i] = stream[i]
      BY <3>1, <3>3 DEF Coming
    <3>5. ~InHand(a, Busy)
      BY <3>1, SubjectTyped DEF InHand, Busy
    <3> QED BY <2>1, <2>2, <3>4, <3>5, FreshElsewhere
  <2> QED BY <1>2, <2>3, <2>4 DEF ConsumerDown
<1> QED BY <1>1, <1>2

(* The jobs write what the rows say, or excuse the article.                *)
LEMMA FreshJobs ==
  ASSUME IndexInv, NightIsScheduled, NEW a \in Article, a \notin excused', Fresh(a),
         NightStep \/ FillStep
  PROVE  Fresh(a)'
<1>1. UNCHANGED <<req, live, mention, stream, delivered, todo, hand, work>>
  BY DEF NightStep, NightRead, NightApply, NightError, FaultOnly, FillStep, FillFetch, FillDiff,
     FillEmbed, FillBatchError, FillPrune, FillKill, FillRest, cmsVars, deliveryVars, workerVars
<1>2. Subject' = Subject /\ Kind' = Kind
  BY <1>1 DEF Subject, Kind
<1>3. flags'[a] = flags[a] \/ (flags'[a] = Wanted(a) /\ "nightly" \in Jobs)
  <2>1. CASE NightApply
    BY <2>1 DEF NightApply, Excuse, NightIsScheduled
  <2>2. CASE NightRead \/ NightError \/ FillStep
    BY <2>2 DEF NightRead, NightError, FillStep, FillFetch, FillDiff, FillEmbed, FillBatchError,
       FillPrune, FillKill, FillRest, workerVars
  <2> QED BY <2>1, <2>2 DEF NightStep
<1>4. hash'[a] \in {hash[a], live[a].text} \/ ~Published(a)
  <2>1. CASE NightStep \/ FillFetch \/ FillDiff \/ FillKill \/ \E b \in Article : FillBatchError(b)
    BY <2>1 DEF NightStep, NightRead, NightApply, NightError, FillFetch, FillDiff, FillKill,
       FillBatchError, workerVars
  <2>2. ASSUME NEW b \in Article, FillEmbed(b)
        PROVE  hash'[a] \in {hash[a], live[a].text}
    BY <2>2 DEF FillEmbed, Excuse, IndexInv, TablesTypeOK, Rows
  <2>3. CASE FillPrune
    <3>1. CASE Fetched = {}
      BY <2>3, <3>1 DEF FillPrune
    <3>2. CASE Fetched # {}
      BY <2>3, <3>2 DEF FillPrune, Excuse
    <3> QED BY <3>1, <3>2
  <2> QED BY <2>1, <2>2, <2>3 DEF FillStep
<1>5. ~Published(a) => WillShow(a) \/ ~FatePublished(a)
  BY DEF FatePublished
<1> QED BY <1>1, <1>2, <1>3, <1>4, <1>5, SiteStays, ComingStays, FreshStays

(* Saves keep one writer per row, and the schedule stays what it is.       *)
LEMMA WritersNext ==
  ASSUME IndexInv, OneWriter, DraftsAreDrafts, NightIsScheduled, Next
  PROVE  OneWriter' /\ DraftsAreDrafts' /\ NightIsScheduled'
<1> USE DEF IndexInv
<1>1. NightIsScheduled'
  BY DEF NightIsScheduled, Next, Open, RequestStep, Write, AnnounceLanded, AnnounceNothing, AnnounceLost,
     AnnounceAgain, Commit, Rollback, MentionsChange, HandlerStep, Begin, FlagsRemove, FlagsRead,
     FlagsApply, FlagsError, FetchOne, ReadHashes, Upsert, HandlerError, Finish, Consume, ConsumerDown,
     Goto, NightStep, NightRead, NightApply, NightError, FillStep, FillFetch, FillDiff, FillEmbed,
     FillBatchError, FillPrune, FillKill, FillRest, jobVars, IdleNight
<1>2. ASSUME UNCHANGED req PROVE OneWriter' /\ DraftsAreDrafts'
  BY <1>2 DEF OneWriter, DraftsAreDrafts
<1>3. ASSUME NEW s \in Request, req' = [req EXCEPT ![s] = IdleRequest]
      PROVE  OneWriter' /\ DraftsAreDrafts'
  <2>1. req'[s].pc = "idle" /\ \A r \in Request : r # s => req'[r] = req[r]
    BY <1>3 DEF CmsTypeOK, IdleRequest
  <2> QED BY <2>1 DEF OneWriter, DraftsAreDrafts
<1>4. ASSUME NEW s \in Request, NEW b \in Article, NEW status \in {"draft", "published"}, NEW t \in Text,
             NEW draft \in BOOLEAN, Open(s, b, [status |-> status, text |-> t], draft)
      PROVE  OneWriter' /\ DraftsAreDrafts'
  <2>1. /\ req'[s].pc = "opened" /\ (req'[s].draft => req'[s].next.status = "draft")
        /\ \A r \in Request : r # s => req'[r] = req[r]
    BY <1>4 DEF Open, CmsTypeOK
  <2> QED BY <2>1 DEF OneWriter, DraftsAreDrafts
<1>5. ASSUME NEW s \in Request, Write(s)
      PROVE  OneWriter' /\ DraftsAreDrafts'
  <2>1. /\ req'[s].article = req[s].article /\ req'[s].draft = req[s].draft /\ req'[s].next = req[s].next
        /\ \A r \in Request : r # s => req'[r] = req[r]
    BY <1>5, EventKept DEF Write
  <2>2. /\ req[s].pc = "opened"
        /\ \A r \in Request : ~(req[r].pc \in {"written", "announced"} /\ req[r].article = req[s].article)
    BY <1>5 DEF Write, Locks
  <2> QED BY <2>1, <2>2 DEF OneWriter, DraftsAreDrafts
<1>6. ASSUME NEW s \in Request, AnnounceLanded(s) \/ AnnounceNothing(s) \/ AnnounceLost(s)
      PROVE  OneWriter' /\ DraftsAreDrafts'
  <2>1. /\ req[s].pc = "written" /\ req'[s].article = req[s].article
        /\ req'[s].draft = req[s].draft /\ req'[s].next = req[s].next
        /\ \A r \in Request : r # s => req'[r] = req[r]
    BY <1>6, EventKept DEF AnnounceLanded, AnnounceNothing, AnnounceLost
  <2> QED BY <2>1 DEF OneWriter, DraftsAreDrafts
<1>7. UNCHANGED req
      \/ (\E s \in Request : Commit(s) \/ Rollback(s) \/ Write(s)
                              \/ AnnounceLanded(s) \/ AnnounceNothing(s) \/ AnnounceLost(s))
      \/ \E s \in Request, b \in Article, status \in {"draft", "published"}, t \in Text, draft \in BOOLEAN :
            Open(s, b, [status |-> status, text |-> t], draft)
  BY DEF Next, RequestStep, AnnounceAgain, MentionsChange, HandlerStep, Begin, FlagsRemove, FlagsRead,
     FlagsApply, FlagsError, FetchOne, ReadHashes, Upsert, HandlerError, Finish, Consume, ConsumerDown,
     Goto, NightStep, NightRead, NightApply, NightError, FillStep, FillFetch, FillDiff, FillEmbed,
     FillBatchError, FillPrune, FillKill, FillRest, cmsVars
<1> QED BY <1>1, <1>2, <1>3, <1>4, <1>5, <1>6, <1>7 DEF Commit, Rollback

(* An excuse is never taken back.                                          *)
LEMMA ExcusesStay == Next => excused \subseteq excused'
  BY DEF Next, Open, RequestStep, Write, AnnounceLanded, AnnounceNothing, AnnounceLost,
     AnnounceAgain, Commit, Rollback, MentionsChange, HandlerStep, Begin, FlagsRemove, FlagsRead,
     FlagsApply, FlagsError, FetchOne, ReadHashes, Upsert, HandlerError, Finish, Consume, ConsumerDown,
     Goto, NightStep, NightRead, NightApply, NightError, FillStep, FillFetch, FillDiff, FillEmbed,
     FillBatchError, FillPrune, FillKill, FillRest, Excuse, history

(* Before the first save nothing is on the way and nothing is published.   *)
LEMMA FreshInit == Init => FreshInv
<1> SUFFICES ASSUME Init PROVE FreshInv
  OBVIOUS
<1>1. OneWriter /\ DraftsAreDrafts /\ NightIsScheduled
  BY DEF Init, OneWriter, DraftsAreDrafts, NightIsScheduled, IdleRequest, IdleNight
<1>2. ASSUME NEW a \in Article PROVE Fresh(a)
  <2>1. Coming(a) = {}
    BY DEF Init, DeliveryInit, Coming
  <2>2. ~WillShow(a) /\ ~FatePublished(a)
    BY DEF Init, WillShow, FatePublished, Promise, Promised, Published, IdleRequest, NoRow
  <2>3. ~InHand(a, {"flags", "apply"}) /\ GoodFlags(a, flags[a])
    BY <2>2 DEF Init, InHand, IdleWork, GoodFlags
  <2> QED BY <2>1, <2>2, <2>3 DEF Fresh, NewestTells, FlagsOnTheWay, HashOnTheWay
<1> QED BY <1>1, <1>2 DEF FreshInv

(* Every step leaves every article that is not excused fresh.              *)
LEMMA FreshNext == IndexInv /\ FreshInv /\ [Next]_vars => FreshInv'
<1> SUFFICES ASSUME IndexInv, FreshInv, [Next]_vars PROVE FreshInv'
  OBVIOUS
<1>1. CASE UNCHANGED vars
  <2>1. OneWriter' /\ DraftsAreDrafts' /\ NightIsScheduled'
    BY <1>1 DEF FreshInv, OneWriter, DraftsAreDrafts, NightIsScheduled, vars, cmsVars, jobVars
  <2>2. ASSUME NEW a \in Article, a \notin excused' PROVE Fresh(a)'
    <3>1. Fresh(a) /\ UNCHANGED <<req, live, mention, stream, delivered, todo, hand, work, hash, flags>>
      BY <1>1, <2>2 DEF FreshInv, vars, cmsVars, deliveryVars, workerVars, history
    <3> QED BY <3>1, SiteStays, ComingStays, FreshStays DEF Subject, Kind
  <2> QED BY <2>1, <2>2 DEF FreshInv
<1>2. CASE Next
  <2>1. OneWriter' /\ DraftsAreDrafts' /\ NightIsScheduled'
    BY <1>2, WritersNext DEF FreshInv
  <2>2. ASSUME NEW a \in Article, a \notin excused' PROVE Fresh(a)'
    <3>1. Fresh(a) /\ OneWriter /\ DraftsAreDrafts /\ NightIsScheduled
      BY <1>2, <2>2, ExcusesStay DEF FreshInv
    <3> QED
      BY <1>2, <2>2, <3>1, FreshRequest, FreshCommit, FreshMentions, FreshHandler, FreshConsumer,
         FreshJobs DEF Next, RequestStep
  <2> QED BY <2>1, <2>2 DEF FreshInv
<1> QED BY <1>1, <1>2

(* The inductive invariant behind the two theorems that follow.            *)
THEOREM FreshInvariant == Spec => []FreshInv
  BY FreshInit, FreshNext, IndexInvariant, PTL DEF Spec

(* At rest there is nothing on the way, so what is stored is right.        *)
LEMMA QuietIsSettled ==
  ASSUME IndexInv, FreshInv, Quiet, NEW a \in Article \ excused
  PROVE  /\ Published(a) => hash[a] = live[a].text /\ flags[a] = Wanted(a)
         /\ ~Published(a) => "nightly" \in Jobs \/ flags[a] = {}
<1>1. Fresh(a)
  BY DEF FreshInv
<1>2. Coming(a) = {}
  BY DEF Quiet, Coming
<1>3. ~WillShow(a) /\ (FatePublished(a) <=> Published(a))
  BY DEF Quiet, Active, WillShow, FatePublished, Promise, Promised
<1>4. work = IdleWork
  BY DEF Quiet, IndexInv, WorkHasSubject
<1>5. \A pcs \in SUBSET Busy : ~InHand(a, pcs)
  BY <1>4 DEF InHand, Busy, IdleWork
<1>6. ~InHand(a, {"flags"}) /\ ~InHand(a, {"apply"}) /\ ~InHand(a, {"flags", "apply", "fetch"})
      /\ ~InHand(a, {"hashes", "upsert"})
  BY <1>5 DEF Busy
<1>7. GoodFlags(a, flags[a])
  BY <1>1, <1>2, <1>6 DEF Fresh, FlagsOnTheWay
<1>8. Published(a) => hash[a] = live[a].text
  BY <1>1, <1>2, <1>3, <1>6 DEF Fresh, HashOnTheWay
<1> QED BY <1>3, <1>7, <1>8 DEF GoodFlags

(* The event path is complete: at rest a published article's embedding and *)
(* flags are what its committed rows say, unless one of the named steps    *)
(* excused it -- for every number of articles, requests, saves, failures,  *)
(* and with the nightly recompute and the backfill running beside.         *)
THEOREM PublishedIsIndexedForAll == Spec => []PublishedIsIndexed
<1>1. IndexInv /\ FreshInv => PublishedIsIndexed
  BY QuietIsSettled DEF PublishedIsIndexed
<1> QED BY <1>1, IndexInvariant, FreshInvariant, PTL

(* With no nightly recompute scheduled an article taken down keeps no      *)
(* flag.  (The recompute puts the flags of its mentions back.)             *)
THEOREM UnpublishedIsUnflaggedForAll ==
  ASSUME "nightly" \notin Jobs
  PROVE  Spec => []UnpublishedIsUnflagged
<1>1. IndexInv /\ FreshInv => UnpublishedIsUnflagged
  BY QuietIsSettled DEF UnpublishedIsUnflagged
<1> QED BY <1>1, IndexInvariant, FreshInvariant, PTL
-----------------------------------------------------------------------------
(* The consumer beneath the articles keeps what EventDeliveryProofs shows  *)
(* of it alone.                                                            *)

(* A failure elsewhere, and a command sent again, seen from the consumer.  *)
FailsElsewhere == Fault /\ UNCHANGED <<stream, delivered, pel, thread, todo, hand, tried>>
SendsAgain ==
  /\ Fault /\ UNCHANGED <<delivered, pel, thread, todo, hand, tried>>
  /\ \E e \in Event : stream' = Append(stream, e)

(* Every step of the composition is one of the consumer's, a failure or a  *)
(* repeated command, or none of its business.                              *)
LEMMA NextDelivers ==
  IndexInv /\ [Next]_vars => [DeliveryNext]_deliveryVars \/ FailsElsewhere \/ SendsAgain
<1> SUFFICES ASSUME IndexInv, [Next]_vars
             PROVE  [DeliveryNext]_deliveryVars \/ FailsElsewhere \/ SendsAgain
  OBVIOUS
<1>1. CASE \/ \E s \in Request : Write(s) \/ AnnounceNothing(s) \/ Commit(s)
           \/ \E a \in Article : MentionsChange(a)
           \/ UNCHANGED vars
  BY <1>1 DEF Write, AnnounceNothing, Commit, MentionsChange, vars
<1>2. ASSUME NEW s \in Request, NEW a \in Article, NEW status \in {"draft", "published"},
             NEW t \in Text, NEW draft \in BOOLEAN,
             Open(s, a, [status |-> status, text |-> t], draft)
      PROVE  UNCHANGED deliveryVars
  BY <1>2 DEF Open
<1>3. ASSUME NEW s \in Request, AnnounceLanded(s) PROVE DeliveryNext
  BY <1>3, EventTyped DEF AnnounceLanded, IndexInv, DeliveryNext
<1>4. ASSUME NEW s \in Request, AnnounceLost(s) \/ Rollback(s) PROVE FailsElsewhere
  BY <1>4 DEF AnnounceLost, Rollback, FailsElsewhere
<1>5. ASSUME NEW s \in Request, AnnounceAgain(s) PROVE SendsAgain
  BY <1>5, EventTyped DEF AnnounceAgain, IndexInv, SendsAgain
<1>6. CASE HandlerStep
  <2>1. ASSUME NEW i \in todo, Begin(i) PROVE DeliveryNext
    BY <2>1 DEF Begin, DeliveryNext, ThreadStep
  <2>2. CASE FlagsRemove \/ FlagsRead \/ FlagsApply \/ FetchOne \/ ReadHashes \/ Upsert
    BY <2>2 DEF FlagsRemove, FlagsRead, FlagsApply, FetchOne, ReadHashes, Upsert
  <2>3. CASE FlagsError \/ HandlerError
    BY <2>3 DEF FlagsError, HandlerError, FaultOnly, FailsElsewhere
  <2>4. CASE Finish
    BY <2>4 DEF Finish, DeliveryNext, ThreadStep
  <2> QED BY <1>6, <2>1, <2>2, <2>3, <2>4 DEF HandlerStep
<1>7. CASE Consume
  <2>1. (\E last \in 1..MaxStream : Read(last)) \/ Ack \/ Start
    BY <1>7 DEF Consume
  <2> QED BY <2>1 DEF DeliveryNext, ThreadStep
<1>8. CASE ConsumerDown
  <2>1. Stop \/ RedisError \/ \E last \in 1..MaxStream : ReadReplyLost(last)
    BY <1>8 DEF ConsumerDown
  <2> QED BY <2>1 DEF DeliveryNext, FaultStep
<1>9. CASE NightStep
  BY <1>9 DEF NightStep, NightRead, NightApply, NightError, FaultOnly, FailsElsewhere
<1>10. CASE FillStep
  BY <1>10 DEF FillStep, FillFetch, FillDiff, FillPrune, FillKill, FillEmbed, FillBatchError, FillRest
<1> QED
  BY <1>1, <1>2, <1>3, <1>4, <1>5, <1>6, <1>7, <1>8, <1>9, <1>10
     DEF Next, RequestStep

(* To the contract a failure elsewhere is nothing, and a repeated command  *)
(* one more entry.                                                         *)
LEMMA ContractSteps == IndexInv /\ [Next]_vars => [Contract!Next]_(Contract!vars)
<1> SUFFICES ASSUME IndexInv, [Next]_vars PROVE [Contract!Next]_(Contract!vars)
  OBVIOUS
<1>1. CASE [DeliveryNext]_deliveryVars
  BY <1>1, NextRefines DEF IndexInv
<1>2. CASE FailsElsewhere
  BY <1>2 DEF FailsElsewhere, Contract!vars, Stranded
<1>3. CASE SendsAgain
  BY <1>3 DEF SendsAgain, Contract!Next, Contract!Publish, Stranded
<1> QED BY <1>1, <1>2, <1>3, NextDelivers

(* Whatever articles, handlers, jobs and failures do next to it, the log   *)
(* of article events is one whose entries are tried once, in order, or     *)
(* lost for good.                                                          *)
THEOREM ArticleEventsKeepContract == Spec => KeepsContract
<1>1. Init => Contract!Init
  BY InitRefines DEF Init
<1> QED BY <1>1, ContractSteps, IndexInvariant, PTL DEF Spec, KeepsContract, Contract!Spec

(* So is what one handler sees of it: the flags' and the embeddings' part, *)
(* or one event's.                                                         *)
THEOREM ArticleHandlersAreServed == Spec => EachHandlerKeepsContract
<1>1. Init => \A K \in SUBSET Event : Selected(K)!Init
  BY NothingSeenYet DEF Init
<1>2. IndexInv /\ [Next]_vars =>
        [\A K \in SUBSET Event : [Selected(K)!Next]_(Selected(K)!vars)]_deliveryVars
  BY ContractSteps, ContractIsSeen DEF IndexInv
<1> QED BY <1>1, <1>2, IndexInvariant, PTL DEF Spec, EachHandlerKeepsContract

(* Each failure, of whatever kind, strands at most one batch.              *)
THEOREM ArticleLossIsBounded == Spec => []StrandedBounded
<1>1. Init => LossInv
  <2> SUFFICES ASSUME Init PROVE LossInv
    OBVIOUS
  <2>1. Stranded = {} /\ InMemory = {} /\ faults = 0
    BY DEF Init, DeliveryInit, Stranded, InMemory
  <2> QED BY <2>1, FS_EmptySet, DeliveryAssumption DEF LossInv, StrandedBounded
<1>2. IndexInv /\ IndexInv' /\ LossInv /\ [Next]_vars => LossInv'
  <2> SUFFICES ASSUME IndexInv, IndexInv', LossInv, [Next]_vars PROVE LossInv'
    OBVIOUS
  <2>1. CASE [DeliveryNext]_deliveryVars
    BY <2>1, LossNext DEF IndexInv
  <2>2. CASE FailsElsewhere \/ SendsAgain
    <3>1. Stranded' = Stranded /\ InMemory' = InMemory /\ faults' = faults + 1
      BY <2>2 DEF FailsElsewhere, SendsAgain, Fault, Stranded, InMemory
    <3>2. faults \in Nat /\ Batch \in Nat
      BY DeliveryAssumption DEF IndexInv, DeliveryInv, DeliveryTypeOK
    <3>3. Batch * faults' = Batch * faults + Batch /\ Batch * faults \in Nat
      BY <3>1, <3>2
    <3>4. Cardinality(Stranded) \in Nat
      BY CountedAreFinite DEF IndexInv, DeliveryInv
    <3> QED BY <3>1, <3>2, <3>3, <3>4 DEF LossInv, StrandedBounded
  <2> QED BY <2>1, <2>2, NextDelivers
<1>3. LossInv => StrandedBounded
  BY DEF LossInv
<1> QED BY <1>1, <1>2, <1>3, IndexInvariant, PTL DEF Spec
=============================================================================
