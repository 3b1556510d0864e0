----------------------------- MODULE ReviewLoop -----------------------------
(***************************************************************************)
(* One facet of one article between the people and the machine that both   *)
(* decide it: the classifier (now_classifier/db.py), which writes terms it *)
(* is sure of and queues the others for review; the reviewers              *)
(* (reviewQueueHooks.ts and the desks that call it), whose decision goes   *)
(* to the review row, to the article's own field and to the event stream;  *)
(* and the worker (apps/worker/app/classification.py), which turns the     *)
(* event into the engine's own assignment.                                 *)
(*                                                                         *)
(* The stream is the contract that EventDelivery implements, kept to the   *)
(* events of this facet and article.                                       *)
(***************************************************************************)
EXTENDS Naturals, Sequences, FiniteSets

CONSTANTS Term,       \* the facet's terms; a value and its term id are one
          CmsKnows,   \* those the CMS had in its vocabulary when it started
          Sentinel,   \* the facet's "unknown" term, None if it has none
          None,
          Multi,      \* BOOLEAN: the facet's cardinality is not "single"
          HasField,   \* BOOLEAN: the article has a field for the facet
          Reviewer,
          MaxRows,    \* bound: review rows of this article and facet
          MaxEvents,  \* bound: decisions announced
          MaxRuns,    \* bound: runs of the classifier
          MaxFaults   \* bound: writes, publishes, events and processes lost

ASSUME ReviewAssumption ==
  /\ None \notin Term
  /\ CmsKnows \subseteq Term
  /\ Sentinel \in Term \union {None}
  /\ Multi \in BOOLEAN /\ HasField \in BOOLEAN
  /\ HasField => ~Multi
  /\ MaxRows \in Nat /\ MaxEvents \in Nat
  /\ MaxRuns \in Nat /\ MaxFaults \in Nat

VARIABLES
  reviews,   \* the rows of classification_reviews, oldest first
  field,     \* the article's own column, primary_type or format
  assigned,  \* engine.entity_terms: who put each term, "none" if not there
  run,       \* the classifier's transaction
  desk,      \* each reviewer's decision under way
  log,       \* classification.reviewed events, in stream order
  tried,     \* those given to the worker's handler
  lost,      \* those that will never be
  applied,   \* those whose transaction was committed
  runs,      \* runs started so far
  owner,     \* history: who wrote the field last
  faults,    \* history: how many failures there were
  crossed    \* history: were two rows ever being decided at once?

storeVars == <<reviews, field, assigned, owner>>
streamVars == <<log, tried, lost>>
troubleVars == <<faults, crossed>>
vars == <<storeVars, run, runs, desk, streamVars, applied, troubleVars>>

Value == Term \union {None}
Decided == {"accepted", "corrected", "unclassifiable"}

Row == [state : Decided \union {"pending"}, proposed : Term, term : Term,
        final : Value, source : {"ai", "editor"}]

Event == [value : Value, term : Value, previous : Value]

(* A reviewer's choice: an outcome, and for a correction the right term.   *)
Choice == [state : Decided \ {"corrected"}, final : {None}]
            \union [state : {"corrected"}, final : Term]

NoRun == [step |-> "idle", value |-> None, sure |-> FALSE, prior |-> None,
          inSync |-> FALSE, pending |-> 0, raced |-> FALSE]

Away == [step |-> "away"]

DeskState ==
  {Away}
    \union [step : {"pressed"}, row : 1..MaxRows]
    \union [step : {"read"}, row : 1..MaxRows, old : Row]
    \union [step : {"written", "fielded", "announced"}, row : 1..MaxRows,
            new : Row]

Stream == INSTANCE AtMostOnceLog

Init ==
  /\ reviews = <<>>
  /\ field = None
  /\ assigned = [t \in Term |-> "none"]
  /\ run = NoRun
  /\ desk = [d \in Reviewer |-> Away]
  /\ Stream!Init
  /\ applied = {}
  /\ owner = "run"
  /\ runs = 0
  /\ faults = 0
  /\ crossed = FALSE

(***************************************************************************)
(* The database.                                                           *)
(***************************************************************************)

(* The trigger classification_reviews_no_clobber.                          *)
(* Mutated form: no trigger.                                               *)
RefusesNothing(old, new) == FALSE

Refuses(old, new) ==
  /\ old.source = "editor"
  /\ old.state # "pending"
  /\ new.source # "editor"

(* Rows an uncommitted decision has written: other writers wait.           *)
HoldsRow(d) == desk[d].step \in {"written", "fielded", "announced"}
Locked(r) == \E d \in Reviewer : HoldsRow(d) /\ desk[d].row = r

(* The classifier's transaction is open and something it read has changed. *)
RunRaced == [run EXCEPT !.raced = run.step # "idle"]

(***************************************************************************)
(* The classifier: one run decides on value, is sure of it or not, and     *)
(* writes every store in one READ COMMITTED transaction.                   *)
(***************************************************************************)

(* _facet_sync_status: may this run move the article's field?  fetchone    *)
(* returns any one of the facet's rows.                                    *)
(* Mutated form: a row of the editor's is no reason to refuse.             *)
SyncIgnoresSource ==
  LET rows == {t \in Term : assigned[t] # "none"} IN
  CASE field = None -> {TRUE}
    [] field # None /\ rows = {} -> {FALSE}
    [] OTHER -> {field = t : t \in rows}

SyncStatus ==
  LET rows == {t \in Term : assigned[t] # "none"} IN
  CASE field = None -> {TRUE}
    [] field # None /\ rows = {} -> {FALSE}
    [] OTHER -> {assigned[t] # "editor" /\ field = t : t \in rows}

RunReads(v, sure) ==
  /\ run.step = "idle"
  /\ \E inSync \in SyncStatus :
       run' = [NoRun EXCEPT !.step = IF sure THEN "write" ELSE "find",
                            !.value = v, !.sure = sure,
                            !.prior = field, !.inSync = inSync]
  /\ runs < MaxRuns
  /\ runs' = runs + 1
  /\ UNCHANGED <<storeVars, desk, streamVars, applied, troubleVars>>

(* _FIND_PENDING_SQL.                                                      *)
(* Mutated form: the rule of the multi-valued facet for every facet.       *)
PendingRowsSameValue(v) ==
  {r \in 1..Len(reviews) :
     reviews[r].state = "pending" /\ reviews[r].proposed = v}

PendingRows(v) ==
  {r \in 1..Len(reviews) :
     /\ reviews[r].state = "pending"
     /\ Multi => reviews[r].proposed = v}

RunFinds ==
  /\ run.step = "find"
  /\ LET rows == PendingRows(run.value) IN
       IF rows = {}
       THEN run' = [run EXCEPT !.step = "write"]
       ELSE \E r \in rows :
              run' = [run EXCEPT !.step = "write", !.pending = r]
  /\ UNCHANGED <<storeVars, runs, desk, streamVars, applied, troubleVars>>

(* _UPSERT_ENTITY_TERM_SQL with _DELETE_STALE_FACET_TERMS_SQL, and         *)
(* _DELETE_ALL_FACET_TERMS_SQL: only a single-valued facet retracts.       *)
Assign(v) ==
  assigned' = [t \in Term |->
    IF assigned[t] = "editor" THEN "editor"
    ELSE IF t = v THEN "ai"
    ELSE IF Multi THEN assigned[t] ELSE "none"]

Retract ==
  assigned' = [t \in Term |->
    IF assigned[t] = "ai" /\ ~Multi THEN "none" ELSE assigned[t]]

(* _SET_ARTICLE_TYPE_FORMAT_SQL: a facet that is in sync moves to v, unless *)
(* there is nothing to retract; one that does not move is written back as  *)
(* it was read when the article's other facet moves in the same statement, *)
(* and left alone when that does not move either.                          *)
MoveField(v) ==
  CASE ~HasField -> UNCHANGED <<field, owner>>
    [] HasField /\ run.inSync /\ (run.sure \/ run.prior # None) ->
         field' = v /\ owner' = "run"
    [] OTHER -> \/ UNCHANGED <<field, owner>>
                \/ /\ field' = run.prior
                   /\ owner' = IF field = run.prior THEN owner ELSE "run"

(* A proposal the run is sure of.                                          *)
RunAssigns ==
  /\ run.step = "write" /\ run.sure
  /\ Assign(run.value)
  /\ MoveField(run.value)
  /\ run' = NoRun
  /\ UNCHANGED <<reviews, runs, desk, streamVars, applied, troubleVars>>

(* One it is not sure of: the pending row it found is rewritten, all but   *)
(* its term_id.                                                            *)
Reproposed(row) == [row EXCEPT !.proposed = run.value, !.source = "ai"]

NewRow ==
  [state |-> "pending", proposed |-> run.value, term |-> run.value,
   final |-> None, source |-> "ai"]

RunQueues ==
  /\ run.step = "write" /\ ~run.sure
  /\ IF run.pending = 0
     THEN Len(reviews) < MaxRows /\ reviews' = Append(reviews, NewRow)
     ELSE LET r == run.pending IN
          /\ ~Locked(r)
          /\ ~Refuses(reviews[r], Reproposed(reviews[r]))
          /\ reviews' = [reviews EXCEPT ![r] = Reproposed(reviews[r])]
  /\ Retract
  /\ MoveField(None)
  /\ run' = NoRun
  /\ UNCHANGED <<runs, desk, streamVars, applied, troubleVars>>

(* The trigger's exception ends the transaction, which is the whole city's.*)
RunAborts ==
  /\ run.pending # 0
  /\ ~Locked(run.pending)
  /\ Refuses(reviews[run.pending], Reproposed(reviews[run.pending]))
  /\ run' = NoRun
  /\ UNCHANGED <<storeVars, runs, desk, streamVars, applied, troubleVars>>

(* The run is stopped, or the bound on rows is reached: rolled back.       *)
RunStops ==
  /\ run.step # "idle"
  /\ run' = NoRun
  /\ UNCHANGED <<storeVars, runs, desk, streamVars, applied, troubleVars>>

RunWrites == RunAssigns \/ RunQueues

RunStep ==
  \/ \E v \in Term, sure \in BOOLEAN : RunReads(v, sure)
  \/ RunFinds
  \/ RunWrites
  \/ RunAborts
  \/ RunStops

(***************************************************************************)
(* People.  An author may edit the article's field directly.               *)
(***************************************************************************)
EditsField(v) ==
  /\ HasField
  /\ v # field
  /\ field' = v
  /\ owner' = "author"
  /\ run' = RunRaced
  /\ UNCHANGED <<reviews, assigned, runs, desk, streamVars, applied, troubleVars>>

(* decideReview, on the article's page, only asks that the row is the      *)
(* article's.  decideOne and decideCluster also ask that it is pending, but *)
(* when they look it up: by the time of their update, which goes by its id, *)
(* it is any row of the article.                                           *)
Busy == {d \in Reviewer : desk[d].step # "away"}

Presses(d, r) ==
  /\ desk[d].step = "away"
  /\ Len(log) + Cardinality(Busy) < MaxEvents
  /\ desk' = [desk EXCEPT ![d] = [step |-> "pressed", row |-> r]]
  /\ UNCHANGED <<storeVars, run, runs, streamVars, applied, troubleVars>>

(* payload.update reads the document it is about to change.                *)
ReadsRow(d) ==
  /\ desk[d].step = "pressed"
  /\ desk' = [desk EXCEPT ![d] =
                [step |-> "read", row |-> desk[d].row, old |-> reviews[desk[d].row]]]
  /\ UNCHANGED <<storeVars, run, runs, streamVars, applied, troubleVars>>

(* What autoPopulateOnDecision makes of a choice: what the choice does not *)
(* say is the document's, as it was read.                                  *)
Outcome(old, choice) ==
  LET merged == [old EXCEPT !.state = choice.state,
                            !.final = IF choice.state = "corrected"
                                      THEN choice.final ELSE old.final]
      final == CASE choice.state = "accepted" /\ merged.final = None ->
                      merged.proposed
                 [] choice.state = "unclassifiable" -> Sentinel
                 [] OTHER -> merged.final
  IN IF choice.state = old.state THEN merged
     ELSE [merged EXCEPT !.final = final, !.source = "editor"]

(* validateAgainstVocabulary: an empty vocabulary refuses nothing.         *)
Valid(v) == v \in CmsKnows \union {None, Sentinel} \/ CmsKnows = {}

(* The row is written, under its lock, and not yet committed.  The choice  *)
(* came with the press; it first matters here.                             *)
WritesRow(d, choice) ==
  /\ desk[d].step = "read"
  /\ LET r == desk[d].row
         new == Outcome(desk[d].old, choice) IN
     /\ ~Locked(r)
     /\ IF Valid(new.proposed) /\ Valid(new.final) /\ ~Refuses(reviews[r], new)
        THEN desk' = [desk EXCEPT ![d] =
               [step |-> IF new.state = desk[d].old.state THEN "announced" ELSE "written",
                row |-> r, new |-> new]]
        ELSE desk' = [desk EXCEPT ![d] = Away]
     /\ crossed' = (crossed \/ \E e \in Reviewer : HoldsRow(e) /\ desk[e].row # r)
  /\ UNCHANGED <<storeVars, run, runs, streamVars, applied, faults>>

Fault == faults < MaxFaults /\ faults' = faults + 1

(* makeApplyClassificationDecision: the article is updated outside the     *)
(* decision's transaction, and an error is caught and logged.              *)
WritesField(d) ==
  /\ desk[d].step = "written"
  /\ IF HasField /\ desk[d].new.final # None
     THEN \/ /\ field' = desk[d].new.final
             /\ owner' = "decision"
             /\ run' = RunRaced
             /\ UNCHANGED faults
          \/ Fault /\ UNCHANGED <<field, owner, run>>
     ELSE UNCHANGED <<field, owner, run, faults>>
  /\ desk' = [desk EXCEPT ![d].step = "fielded"]
  /\ UNCHANGED <<reviews, assigned, runs, streamVars, applied, crossed>>

(* The event.  The term of the final value comes from the vocabulary, not  *)
(* from the row's termId, which says what the classifier proposed first.   *)
(* Mutated form: the row's termId.                                         *)
AnnouncementOfProposal(new) ==
  [value |-> new.final, term |-> new.term, previous |-> None]

Announcement(new) ==
  LET term == IF new.final \in CmsKnows THEN new.final ELSE None IN
  [value |-> new.final, term |-> term,
   previous |-> IF new.term # term THEN new.term ELSE None]

(* publishDomainEvent, which never throws; a publish may fail.             *)
Announces(d) ==
  /\ desk[d].step = "fielded"
  /\ \/ /\ Stream!Publish(Announcement(desk[d].new))
        /\ UNCHANGED faults
     \/ Fault /\ UNCHANGED streamVars
  /\ desk' = [desk EXCEPT ![d].step = "announced"]
  /\ UNCHANGED <<storeVars, run, runs, applied, crossed>>

(* ioredis sends the command again when it lost the reply to the first.    *)
AnnouncesTwice(d) ==
  /\ desk[d].step = "fielded"
  /\ Len(log) + Cardinality(Busy) < MaxEvents
  /\ Fault
  /\ Stream!Publish(Announcement(desk[d].new))
  /\ UNCHANGED <<storeVars, run, runs, desk, applied, crossed>>

CommitsRow(d) ==
  /\ desk[d].step = "announced"
  /\ reviews' = [reviews EXCEPT ![desk[d].row] = desk[d].new]
  /\ desk' = [desk EXCEPT ![d] = Away]
  /\ UNCHANGED <<field, assigned, owner, run, runs, streamVars, applied,
                 troubleVars>>

(* The web process dies: the database rolls the row back, and nothing      *)
(* else.                                                                   *)
Dies(d) ==
  /\ desk[d].step # "away"
  /\ Fault
  /\ desk' = [desk EXCEPT ![d] = Away]
  /\ UNCHANGED <<storeVars, run, runs, streamVars, applied, crossed>>

DeskStep(d) ==
  \/ ReadsRow(d)
  \/ \E choice \in Choice : WritesRow(d, choice)
  \/ WritesField(d)
  \/ Announces(d)
  \/ CommitsRow(d)

(***************************************************************************)
(* The worker.                                                             *)
(***************************************************************************)

(* decision_from: a value without a term is refused.                       *)
Usable(e) == e.term # None \/ e.value = None

(* apply_decision, one transaction: supersede, then write the editor's row.*)
(* Mutated forms: only the term the event names is superseded; the write   *)
(* comes first and the whole facet is superseded after it.                 *)
SupersedesPrevious(e, t) == t = e.previous

Supersedes(e, t) == IF Multi THEN t = e.previous ELSE t # e.term

WriteThenSupersede(e) ==
  [t \in Term |-> IF t = e.previous \/ ~Multi THEN "none"
                 ELSE IF t = e.term THEN "editor" ELSE assigned[t]]

Apply(e) ==
  [t \in Term |-> IF t = e.term THEN "editor"
                 ELSE IF Supersedes(e, t) THEN "none" ELSE assigned[t]]

Applies(i) ==
  /\ Stream!Handle(i)
  /\ Usable(log[i])
  /\ assigned' = Apply(log[i])
  /\ applied' = applied \union {i}
  /\ run' = RunRaced
  /\ UNCHANGED <<reviews, field, owner, runs, desk, troubleVars>>

(* The event is refused, or the transaction fails: acknowledged all the    *)
(* same.                                                                   *)
Drops(i) ==
  /\ Stream!Handle(i)
  /\ \/ ~Usable(log[i]) /\ UNCHANGED faults
     \/ Usable(log[i]) /\ Fault
  /\ UNCHANGED <<storeVars, run, runs, desk, applied, crossed>>

(* The pipeline loses what a stop of the worker strands.                   *)
Loses(i) ==
  /\ Stream!Lose(i)
  /\ lost' # lost
  /\ Fault
  /\ UNCHANGED <<storeVars, run, runs, desk, applied, crossed>>

WorkerStep == \E i \in 1..Len(log) : Applies(i) \/ Drops(i)

Next ==
  \/ RunStep
  \/ \E v \in Value : EditsField(v)
  \/ \E d \in Reviewer, r \in 1..Len(reviews) : Presses(d, r)
  \/ \E d \in Reviewer : DeskStep(d) \/ AnnouncesTwice(d) \/ Dies(d)
  \/ WorkerStep
  \/ \E i \in 1..Len(log) : Loses(i)

Spec == Init /\ [][Next]_vars

(* The worker polls for ever; EventDelivery states what a dead thread      *)
(* costs.                                                                  *)
FairSpec ==
  /\ Spec
  /\ WF_vars(WorkerStep)

(***************************************************************************)
(* Properties.                                                             *)
(***************************************************************************)

StoreTypeOK ==
  /\ reviews \in Seq(Row) /\ Len(reviews) <= MaxRows
  /\ field \in Value
  /\ assigned \in [Term -> {"none", "ai", "editor"}]
  /\ owner \in {"run", "author", "decision"}

RunTypeOK ==
  /\ run \in [step : {"idle", "find", "write"}, value : Value,
              sure : BOOLEAN, prior : Value, inSync : BOOLEAN,
              pending : 0..Len(reviews), raced : BOOLEAN]
  /\ run.step # "idle" => run.value \in Term
  /\ runs \in 0..MaxRuns

DeskTypeOK ==
  /\ desk \in [Reviewer -> DeskState]
  /\ \A d \in Busy : desk[d].row <= Len(reviews)

StreamTypeOK ==
  /\ log \in Seq(Event)
  /\ applied \subseteq tried
  /\ tried \union lost \subseteq 1..Len(log)
  /\ faults \in 0..MaxFaults
  /\ crossed \in BOOLEAN

TypeOK == StoreTypeOK /\ RunTypeOK /\ DeskTypeOK /\ StreamTypeOK

(* F86: whatever the classifier does, and whenever a reviewer's decision   *)
(* lands between two of its statements, a row a reviewer has decided stays *)
(* as it is and so does a term the engine holds as the editor's.           *)
RunSparesDecisions ==
  [][RunStep =>
       /\ \A r \in 1..Len(reviews) :
            reviews[r].state \in Decided => reviews'[r] = reviews[r]
       /\ \A t \in Term : assigned[t] = "editor" => assigned'[t] = "editor"]_vars

(* What apply_decision adds up to over any number of decisions, runs and   *)
(* losses: the engine's editor rows are those of the decisions applied,    *)
(* less what a later one replaced -- in a single-valued facet everything   *)
(* but its own term, in a multi-valued one the term it names.              *)
EngineFollowsDecisions ==
  {t \in Term : assigned[t] = "editor"} =
  {t \in Term : \E i \in applied :
      /\ log[i].term = t
      /\ \A j \in applied : j > i =>
           IF Multi THEN log[j].previous # t ELSE log[j].term = t}

(* "One pending proposal per facet per article is the intended shape for   *)
(* type/subtype/format" (one per proposed value for location): no unique   *)
(* index says so, only the find-then-insert of _upsert_review, whatever    *)
(* decisions are committed or rolled back in between.                      *)
OnePendingProposal ==
  \A r, q \in 1..Len(reviews) :
    /\ reviews[r].state = "pending" /\ reviews[q].state = "pending"
    /\ Multi => reviews[r].proposed = reviews[q].proposed
    => r = q

(* F132: once the engine holds a decision as the editor's, a run that      *)
(* began afterwards does not move the article's field away from it.        *)
RunSparesSettledField ==
  [][RunWrites /\ ~run.raced /\ field # None /\ assigned[field] = "editor"
       => field' = field]_vars

(* The two stores meet: when every decision announced has been applied,    *)
(* none is under way, nothing failed and no two crossed, the value a       *)
(* decision last wrote on the article is the engine's editor row.          *)
FieldMeetsEngine ==
  (faults = 0 /\ ~crossed /\ Busy = {} /\ applied = 1..Len(log) /\ owner = "decision")
    => assigned[field] = "editor"

(* The newest decision announced ends as the editor's row and, in a        *)
(* single-valued facet, the only one of the editor's, unless the event is  *)
(* lost, refused or superseded by a newer one.                             *)
DecisionLands ==
  \A i \in 1..MaxEvents :
    (i = Len(log)) ~>
      \/ Len(log) > i
      \/ i \in lost \union (tried \ applied)
      \/ /\ i \in applied
         /\ log[i].term # None => assigned[log[i].term] = "editor"
         /\ ~Multi => \A t \in Term \ {log[i].term} : assigned[t] # "editor"
=============================================================================
